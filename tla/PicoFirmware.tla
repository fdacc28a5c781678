---------------------------- MODULE PicoFirmware ----------------------------
(***************************************************************************)
(* The Pico: pico/code.py with the validation of pico/protocol.py.  One    *)
(* loop reads the UART, executes complete lines and lets go of everything  *)
(* when the host falls silent or a key stays down too long.                *)
(*                                                                         *)
(* A line is what arrives between two newlines: one piece that is a valid  *)
(* command, or anything else (Junk: a protocol error, or pieces run into   *)
(* each other because a newline was lost).  Time is counted in ticks.      *)
(***************************************************************************)
EXTENDS Integers, Sequences

CONSTANTS
  Sids, NoSid,   \* session ids; None
  Keys, Buttons, \* what can be held
  Junk,          \* a line that is no command
  Ops,           \* the operations the host uses, a subset of AllOps
  Watchdogs,     \* watchdog_ms values of session commands
  MaxSeq,        \* bound: sequence numbers
  CacheSize,     \* RESPONSE_CACHE_SIZE
  MaxPieces,     \* MAX_LINE_BYTES, in pieces
  MaxHeld,       \* MAX_HELD_SECONDS
  Loop,          \* the longest pass of the main loop
  MaxTime        \* bound: how long the clock runs

AllOps == {"session", "ping", "release_all", "down", "up", "click", "type",
           "combo", "move"}
Names == Keys \cup Buttons

ASSUME PicoAssumption ==
  /\ NoSid \notin Sids
  /\ Keys \cap Buttons = {}
  /\ Ops \subseteq AllOps
  /\ Watchdogs \subseteq Nat
  /\ MaxSeq \in Nat /\ CacheSize \in Nat \ {0} /\ MaxPieces \in Nat \ {0}
  /\ MaxHeld \in Nat /\ Loop \in Nat /\ MaxTime \in Nat

(* parse_command: name is the key or button; wd the watchdog of a session. *)
Commands ==
  {c \in [sid : Sids, seq : 0..MaxSeq, op : Ops, name : Names \cup {"-"},
          wd : Watchdogs \cup {0}] :
     /\ c.op \in {"down", "up"} => c.name \in Names
     /\ c.op = "click" => c.name \in Buttons
     /\ c.op \notin {"down", "up", "click"} => c.name = "-"
     /\ IF c.op = "session" THEN c.seq = 0 /\ c.wd \in Watchdogs
                            ELSE c.seq > 0 /\ c.wd = 0}
ASSUME JunkAssumption == Junk \notin Commands

(* What the Pico writes; sid and seq are NoSid and 0 where the code has none. *)
Objects == [kind : {"ack", "nack", "event"},
            code : {"ok", "no_session", "bad_session", "exec_failed", "protocol_error",
                    "line_too_long", "ready", "watchdog", "held_timeout"},
            sid : Sids \cup {NoSid}, seq : 0..MaxSeq]
Ack(c)            == [kind |-> "ack", code |-> "ok", sid |-> c.sid, seq |-> c.seq]
NackOf(c, code)   == [kind |-> "nack", code |-> code, sid |-> c.sid, seq |-> c.seq]
BareNack(code)    == [kind |-> "nack", code |-> code, sid |-> NoSid, seq |-> 0]
Event(code)       == [kind |-> "event", code |-> code, sid |-> NoSid, seq |-> 0]

VARIABLES
  active_sid, watchdog_ms, last_valid_at,
  held,            \* held_keys and held_buttons: name -> when it went down
  response_cache,  \* the last answers, oldest first
  buffer,          \* receive_buffer: how many pieces, and what they make
  discarding,      \* discard_until_newline
  sent,            \* the last object written
  usb,             \* what is down at the target
  phase,           \* of the main loop: "read" or "sleep"
  now,             \* what this pass of the loop took for the time
  clock            \* time.monotonic()

hidVars     == <<held, usb>>
sessionVars == <<active_sid, watchdog_ms, last_valid_at>>
frameVars   == <<buffer, discarding>>
timeVars    == <<phase, now, clock>>
vars == <<hidVars, sessionVars, response_cache, frameVars, sent, timeVars>>

NoHeld == [n \in {} |-> 0]
Empty  == [count |-> 0, body |-> Junk]

Init ==
  /\ active_sid = NoSid /\ watchdog_ms = 0 /\ last_valid_at = 0
  /\ held = NoHeld /\ usb = {} /\ response_cache = <<>>
  /\ buffer = Empty /\ discarding = FALSE
  /\ sent = Event("ready")
  /\ phase = "sleep" /\ now = 0 /\ clock = 0

-----------------------------------------------------------------------------
(* _release_all *)
ReleaseAll == held' = NoHeld /\ usb' = {}

(* _cache_get, _cache_put *)
CacheHits(c) ==
  {i \in DOMAIN response_cache :
     response_cache[i].sid = c.sid /\ response_cache[i].seq = c.seq}

CachePut(cache, response) ==
  IF Len(cache) = CacheSize THEN Append(Tail(cache), response)
                            ELSE Append(cache, response)

(* _ack and _nack write the response and remember it. *)
Reply(cache, response) ==
  /\ sent' = response
  /\ response_cache' = CachePut(cache, response)

(* _execute: a duplicate is answered from the cache and nothing else. *)
Duplicate(c) ==
  /\ \E i \in CacheHits(c) : sent' = response_cache[i]
  /\ UNCHANGED <<hidVars, sessionVars, response_cache>>

OpenSession(c) ==
  /\ CacheHits(c) = {} /\ c.op = "session"
  /\ ReleaseAll
  /\ active_sid' = c.sid /\ watchdog_ms' = c.wd /\ last_valid_at' = clock
  /\ Reply(<<>>, Ack(c))

NoSession(c) ==
  /\ CacheHits(c) = {} /\ c.op # "session" /\ active_sid = NoSid
  /\ Reply(response_cache, NackOf(c, "no_session"))
  /\ UNCHANGED <<hidVars, sessionVars>>

BadSession(c) ==
  /\ CacheHits(c) = {} /\ c.op # "session"
  /\ active_sid # NoSid /\ c.sid # active_sid
  /\ ReleaseAll
  /\ active_sid' = NoSid
  /\ Reply(response_cache, NackOf(c, "bad_session"))
  /\ UNCHANGED <<watchdog_ms, last_valid_at>>

(* The effect of a valid operation.  A held name is not pressed again.  Typing
   a character lets go of every key and a click of its button, but neither
   touches what the firmware believes is held. *)
Press(n) ==
  IF n \in DOMAIN held
  THEN UNCHANGED hidVars
  ELSE /\ usb' = usb \cup {n}
       /\ held' = [m \in DOMAIN held \cup {n} |->
                        IF m = n THEN clock ELSE held[m]]

(* Defect: a release forgets the name and sends nothing. *)
ForgetOnly(n) ==
  /\ held' = [m \in DOMAIN held \ {n} |-> held[m]]
  /\ UNCHANGED usb

LetGo(n) ==
  /\ usb' = usb \ {n}
  /\ held' = [m \in DOMAIN held \ {n} |-> held[m]]

Operate(c) ==
  \/ c.op \in {"ping", "move"} /\ UNCHANGED hidVars
  \/ c.op \in {"release_all", "combo"} /\ ReleaseAll
  \/ c.op = "down"  /\ Press(c.name)
  \/ c.op = "up"    /\ LetGo(c.name)
  \/ c.op = "click" /\ usb' = usb \ {c.name} /\ UNCHANGED held
  \/ c.op = "type"  /\ usb' \in {usb, usb \ Keys} /\ UNCHANGED held

Execute(c) ==
  /\ CacheHits(c) = {} /\ c.op # "session" /\ active_sid = c.sid
  /\ last_valid_at' = clock
  /\ Operate(c)
  /\ Reply(response_cache, Ack(c))
  /\ UNCHANGED <<active_sid, watchdog_ms>>

(* An OSError of the USB stack on the way; _handle_line lets go again. *)
ExecFailed(c) ==
  /\ CacheHits(c) = {}
  /\ c.op = "session" \/ (active_sid # NoSid /\ (c.sid # active_sid \/ c.op # "ping"))
  /\ last_valid_at' = IF c.op # "session" /\ c.sid = active_sid THEN clock
                                                              ELSE last_valid_at
  /\ ReleaseAll
  /\ Reply(response_cache, NackOf(c, "exec_failed"))
  /\ UNCHANGED <<active_sid, watchdog_ms>>

(* _handle_line on what is not a command; no sid, no sequence, no cache. *)
Malformed ==
  /\ ReleaseAll
  /\ sent' = BareNack("protocol_error")
  /\ UNCHANGED <<sessionVars, response_cache>>

HandleLine(x) ==
  \/ x = Junk /\ Malformed
  \/ /\ x # Junk
     /\ \/ Duplicate(x) \/ OpenSession(x) \/ NoSession(x) \/ BadSession(x)
        \/ Execute(x) \/ ExecFailed(x)

-----------------------------------------------------------------------------
Overlong == buffer.count = MaxPieces

(* _consume, piece by piece. *)
Piece(x) ==
  /\ phase = "read" /\ ~discarding
  /\ IF Overlong
     THEN buffer' = Empty /\ discarding' = TRUE
     ELSE /\ buffer' = [count |-> buffer.count + 1,
                        body  |-> IF buffer.count = 0 THEN x ELSE Junk]
          /\ UNCHANGED discarding
  /\ UNCHANGED <<hidVars, sessionVars, response_cache, sent, timeVars>>

EndOfLine ==
  /\ phase = "read" /\ ~discarding /\ buffer.count > 0
  /\ buffer' = Empty
  /\ HandleLine(buffer.body)
  /\ UNCHANGED <<discarding, timeVars>>

EndOfFlood ==
  /\ phase = "read" /\ discarding
  /\ discarding' = FALSE
  /\ ReleaseAll
  /\ sent' = BareNack("line_too_long")
  /\ UNCHANGED <<sessionVars, response_cache, buffer, timeVars>>

-----------------------------------------------------------------------------
(* The main loop takes the time, reads, and then looks at the deadlines. *)
LoopTop ==
  /\ phase = "sleep"
  /\ phase' = "read" /\ now' = clock
  /\ UNCHANGED <<hidVars, sessionVars, response_cache, frameVars, sent, clock>>

(* Defect: an unfinished line counts as having heard the host. *)
SilentLine == buffer = Empty /\ now - last_valid_at > watchdog_ms

Silent   == now - last_valid_at > watchdog_ms

HeldLong == \E n \in DOMAIN held : now - held[n] > MaxHeld

Expire(reason) ==
  /\ ReleaseAll
  /\ active_sid' = NoSid
  /\ sent' = Event(reason)
  /\ UNCHANGED <<watchdog_ms, last_valid_at>>

Deadlines ==
  /\ phase = "read" /\ phase' = "sleep"
  /\ \/ active_sid # NoSid /\ Silent /\ Expire("watchdog")
     \/ active_sid # NoSid /\ ~Silent /\ HeldLong /\ Expire("held_timeout")
     \/ /\ active_sid # NoSid /\ ~Silent /\ ~HeldLong
        /\ UNCHANGED <<hidVars, sessionVars, sent>>
     \/ /\ active_sid = NoSid             \* ready, once a second
        /\ sent' \in {sent, Event("ready")}
        /\ UNCHANGED <<hidVars, sessionVars>>
  /\ UNCHANGED <<response_cache, frameVars, now, clock>>

(* Waiting, typing and holding a combination take time, up to Loop a pass. *)
Tick ==
  /\ clock < now + Loop /\ clock < MaxTime
  /\ clock' = clock + 1
  /\ UNCHANGED <<hidVars, sessionVars, response_cache, frameVars, sent, phase, now>>

Next ==
  \/ \E x \in Commands \cup {Junk} : Piece(x)
  \/ EndOfLine \/ EndOfFlood \/ LoopTop \/ Deadlines \/ Tick

Spec == Init /\ [][Next]_vars

-----------------------------------------------------------------------------
(* Properties. *)

(* Every variable stays in its type. *)
TypeOK ==
  /\ active_sid \in Sids \cup {NoSid} /\ watchdog_ms \in Nat
  /\ last_valid_at \in 0..MaxTime /\ now \in 0..MaxTime /\ clock \in 0..MaxTime
  /\ DOMAIN held \subseteq Names
  /\ \A n \in DOMAIN held : held[n] \in 0..MaxTime
  /\ sent \in Objects
  /\ response_cache \in Seq(Objects) /\ Len(response_cache) <= CacheSize
  /\ usb \subseteq Names
  /\ discarding \in BOOLEAN /\ phase \in {"read", "sleep"}
  /\ buffer \in [count : 0..MaxPieces, body : Commands \cup {Junk}]

(* Input is down only while a session is open, so there is always a watchdog
   over it (every path that closes a session releases first). *)
HeldNeedsSession == usb # {} => active_sid # NoSid

(* What is down at the target is known to be, so held_timeout covers it. *)
DownIsTracked == usb \subseteq DOMAIN held

(* The host has been heard within the watchdog, give or take two passes of the
   loop, while anything is down: deadlines are looked at with the time taken
   before the UART was read. *)
WatchdogBound ==
  usb # {} => clock - last_valid_at <= watchdog_ms + 2 * Loop

(* Nothing stays down longer than MAX_HELD_SECONDS, give or take two passes. *)
HeldBound == \A n \in usb : clock - held[n] <= MaxHeld + 2 * Loop

(* A key is let go in time whoever fails to let it go: WatchdogBound for a host
   that is gone, HeldBound for one that still sends heartbeats. *)
LetGoInTime == WatchdogBound /\ HeldBound

(* An acknowledged press has pressed. *)
AckedDownIsDown ==
  [][\A c \in Commands :
       /\ c.op = "down" /\ phase = "read"
       /\ buffer = [count |-> 1, body |-> c]
       /\ buffer' = Empty /\ sent' = Ack(c) /\ CacheHits(c) = {}
       => c.name \in usb']_vars
=============================================================================

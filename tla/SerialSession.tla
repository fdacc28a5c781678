---------------------------- MODULE SerialSession ----------------------------
(***************************************************************************)
(* The serial link of the gateway (serial_link.py) over a UART that may     *)
(* lose or spoil a line, with the Pico at the other end as far as the link  *)
(* sees it (pico/code.py; PicoFirmware has the rest).                       *)
(*                                                                         *)
(* Callers queue on _public_lock and, one exchange at a time, with the      *)
(* heartbeat, the emergency release and the handshake on _wire_lock.  The   *)
(* locks are first come, first served, so they are sequences here and the   *)
(* head is the holder.  An exchange writes its lines, awaits the answers,   *)
(* writes what is unanswered a second time and then gives the session up.   *)
(***************************************************************************)
EXTENDS Integers, Sequences, FiniteSets, SequencesExt

CONSTANTS
  Inputs, Batches, \* public commands, and those sent as one mouse burst
  Size,            \* the pieces of each command: chunks of text, or reports
  Releases,        \* emergency releases
  None,
  Modulus,         \* sequence numbers are modulo this, 2^32 in the code
  CacheSize,       \* RESPONSE_CACHE_SIZE of the Pico
  MaxPending,      \* max_pending_commands
  Beating,         \* bound: whether heartbeat_ms is short enough to matter
  MaxSessions,     \* bound: sessions opened
  MaxFaults        \* bound: lines lost or spoilt, restarts, releases, errors

ASSUME SerialAssumption ==
  /\ Batches \subseteq Inputs /\ Inputs \cap Releases = {}
  /\ {None, "handshake", "heartbeat"} \cap (Inputs \cup Releases) = {}
  /\ Size \in [Inputs -> Nat \ {0}]
  /\ Modulus \in Nat /\ CacheSize \in Nat \ {0} /\ MaxPending \in Nat \ {0}
  /\ Beating \in BOOLEAN
  /\ MaxSessions \in Nat /\ MaxFaults \in Nat
  /\ \A c \in Batches : Size[c] <= CacheSize    \* MOUSE_MOVE_BATCH_LIMIT = 8
  /\ Modulus > 2 * CacheSize

(* No generation is mistaken for that of an exchange that has none. *)
ASSUME NoneAssumption == None \notin Nat

Callers == Inputs \cup Releases

VARIABLES
  link,      \* the supervisor's and the reader's view of the session
  sequence,  \* _sequence
  pc,        \* where each caller is, or how it was answered
  asked,     \* the generation each caller was given
  done,      \* how many pieces of each command are acknowledged
  public,    \* _public_lock: the holder and those waiting for it
  wire,      \* _wire_lock: the exchange on the wire and those waiting
  toPico, toGateway, \* the UART, and what the drivers hold of it
  pico,      \* active_sid, response_cache and what was done since the last release
  executed,  \* history: every input the Pico executed
  fence,     \* history: the last generation whose release was acknowledged
  faults

vars == <<link, sequence, pc, asked, done, public, wire, toPico, toGateway, pico,
          executed, fence, faults>>
callers == <<pc, asked, done, public>>
uart    == <<toPico, toGateway>>
history == <<executed, fence>>

Waiting  == {"entering", "public", "wire"}

Line(sid, seq, op, unit, gen) ==
  [sid |-> sid, seq |-> seq, op |-> op, unit |-> unit, gen |-> gen]
Spoilt   == Line(0, 0, "junk", None, 0)
Message(kind, sid, seq) == [kind |-> kind, sid |-> sid, seq |-> seq]

Init ==
  /\ link = [phase |-> "down", ready |-> FALSE, disconnect |-> FALSE,
             acknowledged |-> FALSE, reading |-> FALSE, sid |-> 0,
             sessions |-> 0, generation |-> 0]
  /\ sequence = 0
  /\ pc = [c \in Callers |-> "idle"]
  /\ asked = [c \in Callers |-> 0] /\ done = [c \in Inputs |-> 0]
  /\ public = <<>> /\ wire = <<>>
  /\ toPico = <<>> /\ toGateway = <<>>
  /\ pico = [sid |-> 0, cache |-> <<>>, down |-> {}]
  /\ executed = <<>> /\ fence = 0 /\ faults = 0

-----------------------------------------------------------------------------
(* _next_sequence wraps and skips 0, which is the handshake's. *)
NextSequence(s) == IF (s + 1) % Modulus = 0 THEN 1 ELSE (s + 1) % Modulus

(* _mark_transport_unhealthy *)
Unhealthy(l) ==
  [l EXCEPT !.ready = FALSE, !.disconnect = TRUE,
            !.generation = IF l.ready \/ ~l.disconnect THEN @ + 1 ELSE @]

(* Defect: a command goes by the generation of the moment. *)
CurrentGeneration(c) == link.generation
GivenGeneration(c)   == asked[c]

(* An exchange as it joins the queue for the wire.  A line remembers, for the
   properties only, the generation its caller was given. *)
Exchange(who, op, pieces, seqs, gen) ==
  [who |-> who, gen |-> gen, sid |-> link.sid, attempt |-> 0, nacked |-> FALSE,
   lines |-> [i \in DOMAIN pieces |->
                Line(link.sid, seqs[i], op, pieces[i],
                     IF who \in Callers THEN asked[who] ELSE None)],
   answered |-> {}]

Operation(who, op, gen) ==
  Exchange(who, op, <<None>>, <<NextSequence(sequence)>>, gen)

Busy == Cardinality({c \in Inputs : pc[c] \in Waiting}) >= MaxPending

(* send_command: the queue limit, then wait_ready. *)
Call(c) ==
  /\ c \in Inputs /\ pc[c] = "idle"
  /\ pc' = [pc EXCEPT ![c] = IF Busy THEN "busy" ELSE "entering"]
  /\ asked' = [asked EXCEPT ![c] = link.generation]
  /\ UNCHANGED <<link, sequence, done, public, wire, uart, pico, history, faults>>

(* emergency_release moves the generation on, then wait_ready. *)
CallRelease(c) ==
  /\ c \in Releases /\ pc[c] = "idle"
  /\ link' = [link EXCEPT !.generation = @ + 1]
  /\ pc' = [pc EXCEPT ![c] = "entering"]
  /\ asked' = [asked EXCEPT ![c] = link.generation + 1]
  /\ UNCHANGED <<sequence, done, public, wire, uart, pico, history, faults>>

(* Defect: wait_ready without its timeout. *)
WaitForEver(c) == FALSE

WaitReadyFails(c) ==
  /\ pc[c] = "entering" /\ ~link.ready
  /\ pc' = [pc EXCEPT ![c] = "unavailable"]
  /\ UNCHANGED <<link, sequence, asked, done, public, wire, uart, pico, history, faults>>

EnterPublic(c) ==
  /\ c \in Inputs /\ pc[c] = "entering" /\ link.ready
  /\ IF GivenGeneration(c) # link.generation
     THEN pc' = [pc EXCEPT ![c] = "interrupted"] /\ UNCHANGED public
     ELSE pc' = [pc EXCEPT ![c] = "public"] /\ public' = Append(public, c)
  /\ UNCHANGED <<link, sequence, asked, done, wire, uart, pico, history, faults>>

EnterRelease(c) ==
  /\ c \in Releases /\ pc[c] = "entering" /\ link.ready
  /\ pc' = [pc EXCEPT ![c] = "wire"]
  /\ wire' = Append(wire, Operation(c, "release", asked[c]))
  /\ sequence' = NextSequence(sequence)
  /\ UNCHANGED <<link, asked, done, public, uart, pico, history, faults>>

(* The pieces the holder of _public_lock sends next. *)
NextPieces(c) ==
  IF c \in Batches THEN [i \in 1..Size[c] |-> <<c, i>>] ELSE <<<<c, done[c] + 1>>>>

(* What n calls of _next_sequence give: the numbers after the current one on
   the circle 1..Modulus-1. *)
Numbers(n) == [i \in 1..n |-> ((sequence + i - 1) % (Modulus - 1)) + 1]

(* Defect: commands do not wait for each other. *)
MayGoAlways(c) == pc[c] = "public"
MayGo(c)       == pc[c] = "public" /\ Head(public) = c

SendPieces(c) ==
  /\ c \in Inputs /\ MayGo(c)
  /\ IF GivenGeneration(c) # link.generation \/ ~link.ready
     THEN /\ pc' = [pc EXCEPT ![c] = IF GivenGeneration(c) # link.generation
                                     THEN "interrupted" ELSE "unavailable"]
          /\ public' = Tail(public)
          /\ UNCHANGED <<wire, sequence>>
     ELSE LET pieces == NextPieces(c)
              seqs   == Numbers(Len(pieces))
          IN  /\ wire' = Append(wire, Exchange(c, "input", pieces, seqs, GivenGeneration(c)))
              /\ sequence' = Last(seqs)
              /\ pc' = [pc EXCEPT ![c] = "wire"]
              /\ UNCHANGED public
  /\ UNCHANGED <<link, asked, done, uart, pico, history, faults>>

(* _heartbeat_loop *)
Heartbeat ==
  /\ Beating /\ link.ready
  /\ \A i \in DOMAIN wire : wire[i].who # "heartbeat"
  /\ wire' = Append(wire, Operation("heartbeat", "heartbeat", None))
  /\ sequence' = NextSequence(sequence)
  /\ UNCHANGED <<link, callers, uart, pico, history, faults>>

-----------------------------------------------------------------------------
(* How an exchange ends: the wire is free, and its owner is told.  l is the *)
(* link as the exchange leaves it.                                         *)
HandshakeEnds(l, result) ==
  /\ link' = IF result = "ok" /\ ~l.disconnect
             THEN [l EXCEPT !.phase = "up", !.ready = TRUE]
             ELSE [Unhealthy(l) EXCEPT !.phase = "failed"]
  /\ UNCHANGED <<callers, fence>>

(* Defect: a refused heartbeat is no reason to give the session up. *)
HeartbeatIgnored(l, result) == l
HeartbeatLink(l, result)    == IF result = "ok" THEN l ELSE Unhealthy(l)

HeartbeatEnds(l, result) ==
  /\ link' = HeartbeatLink(l, result)
  /\ UNCHANGED <<callers, fence>>

ReleaseEnds(c, l, result) ==
  /\ link' = l
  /\ pc' = [pc EXCEPT ![c] = result]
  /\ fence' = IF result = "ok" /\ asked[c] > fence THEN asked[c] ELSE fence
  /\ UNCHANGED <<asked, done, public>>

InputEnds(c, l, result) ==
  LET sent == done[c] + Len(Head(wire).lines) IN
  /\ link' = l
  /\ IF result = "ok"
     THEN /\ done' = [done EXCEPT ![c] = sent]
          /\ pc' = [pc EXCEPT ![c] = IF sent < Size[c] THEN "public" ELSE "ok"]
          /\ public' = IF sent < Size[c] THEN public
                                         ELSE Tail(public)
     ELSE /\ pc' = [pc EXCEPT ![c] = result]
          /\ public' = Tail(public)
          /\ UNCHANGED done
  /\ UNCHANGED <<asked, fence>>

Ends(l, result) ==
  LET who == Head(wire).who IN
  /\ wire' = Tail(wire)
  /\ \/ who = "handshake" /\ HandshakeEnds(l, result)
     \/ who = "heartbeat" /\ HeartbeatEnds(l, result)
     \/ who \in Releases  /\ ReleaseEnds(who, l, result)
     \/ who \in Inputs    /\ InputEnds(who, l, result)

-----------------------------------------------------------------------------
(* The holder of the wire.  What it checks first depends on its kind. *)
SameSession(x) == x.sid = link.sid

NotOvertaken(x) == x.gen \in {None, link.generation}

Pending(x) == {i \in DOMAIN x.lines : x.lines[i].seq \notin x.answered}

InOrder(S) ==
  CHOOSE f \in [1..Cardinality(S) -> S] :
    \A i, j \in 1..Cardinality(S) : i < j => f[i] < f[j]

(* What a write puts on the UART: the lines that have no answer yet. *)
Unanswered(x) == [k \in 1..Cardinality(Pending(x)) |-> x.lines[InOrder(Pending(x))[k]]]

(* Defect: a second attempt takes fresh sequence numbers. *)
RewrittenFresh(x) ==
  LET fresh == Numbers(Len(x.lines)) IN
  [x EXCEPT !.attempt = x.attempt + 1, !.answered = {},
            !.lines = [i \in DOMAIN x.lines |->
                         [x.lines[i] EXCEPT !.seq = IF x.attempt = 0 THEN @ ELSE fresh[i]]]]
Rewritten(x) == [x EXCEPT !.attempt = x.attempt + 1]

Write ==
  LET x == Head(wire)
      next == Rewritten(x) IN
  /\ wire' = [wire EXCEPT ![1] = next]
  /\ toPico' = toPico \o Unanswered(next)
  /\ UNCHANGED <<link, sequence, callers, toGateway, pico, history, faults>>

(* The write raises, or is short, after some of the bytes or none. *)
WriteFails ==
  /\ faults < MaxFaults /\ faults' = faults + 1
  /\ toPico' \in {toPico, Append(toPico, Spoilt)}
  /\ Ends(Unhealthy(link), "unknown")
  /\ UNCHANGED <<sequence, toGateway, pico, executed>>

GivesUp(l, result) ==
  /\ Ends(l, result)
  /\ UNCHANGED <<sequence, uart, pico, executed, faults>>

(* The wire has come to x. *)
FirstAttempt ==
  /\ wire # <<>> /\ Head(wire).attempt = 0
  /\ LET x == Head(wire) IN
     \/ ~NotOvertaken(x) /\ GivesUp(link, "interrupted")
     \/ /\ NotOvertaken(x)
        /\ (x.who # "handshake" /\ ~link.ready) \/ ~SameSession(x)
        /\ GivesUp(link, "unavailable")
     \/ /\ NotOvertaken(x) /\ SameSession(x)
        /\ x.who = "handshake" \/ link.ready
        /\ Write \/ WriteFails

(* No answer within ack_timeout_ms.  Only a mouse burst looks at the
   generation and at ready again before it writes a second time. *)
IsBurst(x) == Len(x.lines) > 1

SecondAttempt ==
  /\ wire # <<>> /\ Head(wire).attempt = 1 /\ SameSession(Head(wire))
  /\ LET x == Head(wire) IN
     /\ Pending(x) # {}
     /\ \/ /\ IsBurst(x) /\ ~(NotOvertaken(x) /\ link.ready)
           /\ GivesUp(link, IF NotOvertaken(x) THEN "unknown" ELSE "interrupted")
        \/ /\ IsBurst(x) => NotOvertaken(x) /\ link.ready
           /\ Write \/ WriteFails

(* Defect: a command without an answer leaves the session as it is. *)
AfterTimeoutKept(l) == l
AfterTimeout(l)     == Unhealthy(l)

AckTimeout ==
  /\ wire # <<>> /\ Head(wire).attempt = 2 /\ SameSession(Head(wire))
  /\ Pending(Head(wire)) # {}
  /\ IF IsBurst(Head(wire)) /\ ~NotOvertaken(Head(wire))
     THEN GivesUp(link, "interrupted")
     ELSE GivesUp(AfterTimeout(link), "unknown")

(* Every line is answered.  A burst whose generation has passed is given up
   although it was acknowledged. *)
Answered(x) == x.attempt > 0 /\ Pending(x) = {}

Complete ==
  /\ wire # <<>> /\ Answered(Head(wire))
  /\ LET x == Head(wire) IN
     GivesUp(link, IF x.nacked THEN "nack"
                   ELSE IF IsBurst(x) /\ ~NotOvertaken(x) THEN "interrupted" ELSE "ok")

(* _fail_pending: the session went away under the exchange.  A write of the
   old session that is still in its thread may raise only now, and then
   counts against whatever session there is. *)
SessionEnded ==
  /\ wire # <<>> /\ Head(wire).attempt > 0 /\ ~SameSession(Head(wire))
  /\ ~Answered(Head(wire))
  /\ \/ GivesUp(link, "unknown")
     \/ /\ faults < MaxFaults /\ faults' = faults + 1
        /\ Ends(Unhealthy(link), "unknown")
        /\ UNCHANGED <<sequence, uart, pico, executed>>

-----------------------------------------------------------------------------
(* _supervise: open the port, drop what the driver holds, shake hands. *)
Open ==
  /\ link.phase = "down" /\ link.sessions < MaxSessions
  /\ link' = [link EXCEPT !.phase = "handshake", !.disconnect = FALSE,
                          !.acknowledged = FALSE, !.reading = TRUE,
                          !.sid = link.sessions + 1, !.sessions = @ + 1]
  /\ sequence' = 0
  /\ wire' = Append(wire, [who |-> "handshake", gen |-> None, sid |-> link.sessions + 1,
                           attempt |-> 0, nacked |-> FALSE, answered |-> {},
                           lines |-> <<Line(link.sessions + 1, 0, "session", None, None)>>])
  /\ \E n \in 0..Len(toGateway) : toGateway' = SubSeq(toGateway, n + 1, Len(toGateway))
  /\ UNCHANGED <<callers, toPico, pico, history, faults>>

Teardown ==
  /\ link.phase = "failed" \/ (link.phase = "up" /\ link.disconnect)
  /\ link' = [link EXCEPT !.phase = "down", !.ready = FALSE, !.reading = FALSE,
                          !.sid = 0, !.acknowledged = FALSE, !.generation = @ + 1]
  /\ \/ /\ \A i \in DOMAIN wire : wire[i].who # "heartbeat"
        /\ UNCHANGED wire
     \/ \E i \in DOMAIN wire : wire[i].who = "heartbeat" /\ wire' = RemoveAt(wire, i)
  /\ UNCHANGED <<sequence, callers, uart, pico, history, faults>>

-----------------------------------------------------------------------------
(* _read_loop, one line. *)
IsFatal(m) ==
  \/ m.kind = "junk" /\ link.acknowledged
  \/ m.kind = "restarted" /\ link.ready
  \/ m.kind = "released" /\ link.acknowledged

(* Defect: an answer to another session is taken for one to this. *)
IsMineAnyway(m) == m.kind \in {"ack", "nack"}
IsMine(m)       == m.kind \in {"ack", "nack"} /\ m.sid = link.sid

Awaited(m) ==
  /\ wire # <<>> /\ Head(wire).attempt > 0 /\ SameSession(Head(wire))
  /\ \E i \in DOMAIN Head(wire).lines : Head(wire).lines[i].seq = m.seq
  /\ m.seq \notin Head(wire).answered

ReadLine ==
  /\ link.reading /\ toGateway # <<>>
  /\ toGateway' = Tail(toGateway)
  /\ LET m == Head(toGateway) IN
     /\ link' = IF IsFatal(m) THEN [Unhealthy(link) EXCEPT !.reading = FALSE]
                ELSE [link EXCEPT !.acknowledged =
                        @ \/ (IsMine(m) /\ m.kind = "ack" /\ m.seq = 0)]
     /\ wire' = IF IsMine(m) /\ Awaited(m)
                THEN [wire EXCEPT ![1].answered = @ \cup {m.seq},
                               ![1].nacked = @ \/ m.kind = "nack"]
                ELSE wire
  /\ UNCHANGED <<sequence, callers, toPico, pico, history, faults>>

-----------------------------------------------------------------------------
(* The Pico takes the next line. *)
Cached(line) ==
  {i \in DOMAIN pico.cache : pico.cache[i].sid = line.sid /\ pico.cache[i].seq = line.seq}

Remembered(cache, m) ==
  IF Len(cache) = CacheSize THEN Append(Tail(cache), m) ELSE Append(cache, m)

Replies(line, kind, p) ==
  LET m == Message(kind, line.sid, line.seq) IN
  /\ pico' = [p EXCEPT !.cache = Remembered(@, m)]
  /\ toGateway' = Append(toGateway, m)

(* Defect: a new session inherits what is down. *)
NewSessionInherits(line) == [sid |-> line.sid, cache |-> <<>>, down |-> pico.down]
NewSession(line)         == [sid |-> line.sid, cache |-> <<>>, down |-> {}]

Repeat(line) ==
  /\ \E i \in Cached(line) : toGateway' = Append(toGateway, pico.cache[i])
  /\ UNCHANGED <<pico, executed, faults>>

OpenSession(line) ==
  /\ Cached(line) = {} /\ line.op = "session"
  /\ Replies(line, "ack", NewSession(line))
  /\ UNCHANGED <<executed, faults>>

Refuse(line) ==
  /\ Cached(line) = {} /\ line.op # "session" /\ line.sid # pico.sid
  /\ Replies(line, "nack", [pico EXCEPT !.sid = 0, !.down = {}])
  /\ UNCHANGED <<executed, faults>>

Execute(line) ==
  /\ Cached(line) = {} /\ line.op # "session" /\ line.sid = pico.sid
  /\ \/ /\ line.op = "input"
        /\ Replies(line, "ack", [pico EXCEPT !.down = @ \cup {line}])
        /\ executed' = Append(executed, line)
        /\ UNCHANGED faults
     \/ /\ line.op = "release"
        /\ Replies(line, "ack", [pico EXCEPT !.down = {}])
        /\ UNCHANGED <<executed, faults>>
     \/ /\ line.op = "heartbeat"
        /\ Replies(line, "ack", pico)
        /\ UNCHANGED <<executed, faults>>
     \/ /\ line.op \in {"input", "release"}  \* exec_failed
        /\ faults < MaxFaults /\ faults' = faults + 1
        /\ Replies(line, "nack", [pico EXCEPT !.down = {}])
        /\ UNCHANGED executed

Malformed ==
  /\ pico' = [pico EXCEPT !.down = {}]
  /\ toGateway' = Append(toGateway, Message("bare", 0, 0))
  /\ UNCHANGED <<executed, faults>>

PicoReads ==
  /\ toPico # <<>> /\ toPico' = Tail(toPico)
  /\ LET line == Head(toPico) IN
     \/ line = Spoilt /\ Malformed
     \/ line # Spoilt /\ (Repeat(line) \/ OpenSession(line) \/ Refuse(line) \/ Execute(line))
  /\ UNCHANGED <<link, sequence, callers, wire, fence>>

(* watchdog and held_timeout *)
PicoReleases ==
  /\ faults < MaxFaults /\ faults' = faults + 1
  /\ pico.sid # 0
  /\ pico' = [pico EXCEPT !.sid = 0, !.down = {}]
  /\ toGateway' = Append(toGateway, Message("released", 0, 0))
  /\ UNCHANGED <<link, sequence, callers, wire, toPico, history>>

PicoRestarts ==
  /\ faults < MaxFaults /\ faults' = faults + 1
  /\ pico' = [sid |-> 0, cache |-> <<>>, down |-> {}]
  /\ toGateway' = Append(toGateway, Message("restarted", 0, 0))
  /\ UNCHANGED <<link, sequence, callers, wire, toPico, history>>

(* A line that is lost, or spoilt, on its way. *)
Loses(channel, channel2, spoilt) ==
  /\ faults < MaxFaults /\ faults' = faults + 1
  /\ channel # <<>>
  /\ channel2 \in {Tail(channel), [channel EXCEPT ![1] = spoilt]}
  /\ UNCHANGED <<link, sequence, callers, wire, pico, history>>

UartFault ==
  \/ Loses(toPico, toPico', Spoilt) /\ UNCHANGED toGateway
  \/ Loses(toGateway, toGateway', Message("junk", 0, 0)) /\ UNCHANGED toPico

-----------------------------------------------------------------------------
Caller(c) ==
  WaitReadyFails(c) \/ EnterPublic(c) \/ EnterRelease(c) \/ SendPieces(c)

Wire == FirstAttempt \/ SecondAttempt \/ AckTimeout \/ Complete \/ SessionEnded

Next ==
  \/ \E c \in Callers : Call(c) \/ CallRelease(c) \/ Caller(c)
  \/ Heartbeat \/ Wire \/ Open \/ Teardown \/ ReadLine
  \/ PicoReads \/ PicoReleases \/ PicoRestarts \/ UartFault

Spec == Init /\ [][Next]_vars

(* The event loop runs every task that can go on, and the Pico its loop. *)
FairSpec ==
  /\ Spec
  /\ \A c \in Callers : WF_vars(Caller(c))
  /\ WF_vars(Wire) /\ WF_vars(Heartbeat) /\ WF_vars(Open) /\ WF_vars(Teardown)
  /\ WF_vars(ReadLine) /\ WF_vars(PicoReads)

-----------------------------------------------------------------------------
(* Properties. *)

(* Every variable stays in its type. *)
TypeOK ==
  /\ link.phase \in {"down", "handshake", "up", "failed"}
  /\ link.sid \in 0..MaxSessions /\ link.sessions \in 0..MaxSessions
  /\ link.generation \in Nat /\ fence \in 0..link.generation
  /\ sequence \in 0..(Modulus - 1)
  /\ pc \in [Callers -> Waiting \cup {"idle", "ok", "nack", "busy", "unavailable",
                                       "interrupted", "unknown"}]
  /\ \A c \in Inputs : done[c] \in 0..Size[c]
  /\ Len(public) <= MaxPending /\ Len(pico.cache) <= CacheSize
  /\ \A i \in DOMAIN wire : wire[i].attempt \in (IF i = 1 THEN 0..2 ELSE {0})

(* "Duplicate sequence IDs are acknowledged without replaying HID": however
   often a line is written, and whatever is lost, the Pico does it once. *)
AtMostOnce ==
  \A i, j \in DOMAIN executed : executed[i].unit = executed[j].unit => i = j

(* What a caller is told was acknowledged has been executed, also when answers
   of an earlier session or an earlier round of sequence numbers turn up. *)
AckedIsExecuted ==
  \A c \in Inputs : \A i \in 1..done[c] :
    \E j \in DOMAIN executed : executed[j].unit = <<c, i>>

(* Once an emergency release is acknowledged, nothing that was asked for before
   it is executed any more, whether it was queued, on the wire or in the UART. *)
ReleaseIsFinal ==
  [][executed' # executed => Last(executed').gen >= fence]_vars

(* Public commands do not run into each other at the Pico, and the chunks of a
   text stay in order; only the reports of one burst may change places. *)
PublicOrder ==
  \A i, j \in DOMAIN executed :
    LET a == executed[i].unit
        b == executed[j].unit
    IN  i < j /\ a[1] = b[1] =>
          /\ a[1] \notin Batches => a[2] < b[2]
          /\ \A k \in i..j : executed[k].unit[1] = a[1]

(* A session is not published before the Pico has let go of everything that an
   earlier one had pressed. *)
FreshReady ==
  link.ready => \A line \in pico.down : line.sid = link.sid

(* A command whose fate is unknown takes its generation with it, so nothing
   that was asked for beside it is sent after it. *)
FailClosed ==
  \A c \in Callers : pc[c] = "unknown" => asked[c] # link.generation

(* Every caller is answered, whatever the UART and the Pico do. *)
CallersReturn == \A c \in Callers : pc[c] \in Waiting ~> pc[c] \notin Waiting

(* A Pico that has dropped the session, by watchdog or restart, is not taken
   for a working one for ever, even when its event is lost. *)
LostSessionNoticed ==
  link.ready /\ pico.sid # link.sid ~> ~(link.ready /\ pico.sid # link.sid)
=============================================================================

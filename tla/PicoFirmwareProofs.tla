------------------------- MODULE PicoFirmwareProofs -------------------------
(***************************************************************************)
(* Theorems about PicoFirmware, for every set of keys, buttons, sessions    *)
(* and watchdogs and every cache size and bound of the clock.               *)
(***************************************************************************)
EXTENDS PicoFirmware, TLAPS

(* A closed session leaves nothing held, neither believed nor real. *)
HidInv ==
  /\ DownIsTracked
  /\ active_sid = NoSid => held = NoHeld

(* A step that leaves the input side alone. *)
SameHid == UNCHANGED hidVars /\ active_sid' = active_sid

LEMMA EmptyHeld == DOMAIN NoHeld = {}
  BY DEF NoHeld

LEMMA ReleaseKeepsHidInv == ReleaseAll => HidInv'
  BY EmptyHeld DEF ReleaseAll, HidInv, DownIsTracked

LEMMA SameKeepsHidInv == HidInv /\ SameHid => HidInv'
  BY DEF SameHid, hidVars, HidInv, DownIsTracked

(* Every operation keeps what is down within what is believed to be held. *)
LEMMA OperateTracks ==
  ASSUME NEW c, DownIsTracked, Operate(c)
  PROVE  DownIsTracked'
<1>1. CASE UNCHANGED hidVars
  BY <1>1 DEF hidVars, DownIsTracked
<1>2. CASE ReleaseAll
  BY <1>2, EmptyHeld DEF ReleaseAll, DownIsTracked
<1>3. CASE c.op = "down" /\ Press(c.name) /\ c.name \notin DOMAIN held
  <2>1. usb' = usb \cup {c.name}
    BY <1>3 DEF Press
  <2>2. DOMAIN held' = DOMAIN held \cup {c.name}
    BY <1>3 DEF Press
  <2> QED BY <2>1, <2>2 DEF DownIsTracked
<1>4. CASE LetGo(c.name)
  <2>1. usb' = usb \ {c.name}
    BY <1>4 DEF LetGo
  <2>2. DOMAIN held' = DOMAIN held \ {c.name}
    BY <1>4 DEF LetGo
  <2> QED BY <2>1, <2>2 DEF DownIsTracked
<1>5. CASE usb' \in {usb, usb \ {c.name}, usb \ Keys} /\ held' = held
  BY <1>5 DEF DownIsTracked
<1> QED
  BY <1>1, <1>2, <1>3, <1>4, <1>5 DEF Operate, Press, hidVars

LEMMA LineKeepsHidInv ==
  ASSUME NEW x \in Commands \cup {Junk}, HidInv, HandleLine(x)
  PROVE  HidInv'
<1>1. CASE Malformed \/ OpenSession(x) \/ BadSession(x) \/ ExecFailed(x)
  BY <1>1, ReleaseKeepsHidInv DEF Malformed, OpenSession, BadSession, ExecFailed
<1>2. CASE Duplicate(x) \/ NoSession(x)
  BY <1>2, SameKeepsHidInv DEF Duplicate, NoSession, SameHid, sessionVars
<1>3. CASE x # Junk /\ Execute(x)
  <2>1. x.sid \in Sids
    BY <1>3 DEF Commands
  <2>2. active_sid # NoSid /\ active_sid' = active_sid
    BY <1>3, <2>1, PicoAssumption DEF Execute
  <2>3. DownIsTracked'
    BY <1>3, OperateTracks DEF Execute, HidInv
  <2> QED BY <2>2, <2>3 DEF HidInv
<1> QED
  BY <1>1, <1>2, <1>3 DEF HandleLine

LEMMA StepHidInv ==
  ASSUME HidInv, buffer.body \in Commands \cup {Junk}, [Next]_vars
  PROVE  HidInv'
<1>1. CASE EndOfLine
  BY <1>1, LineKeepsHidInv DEF EndOfLine
<1>2. CASE EndOfFlood
  BY <1>2, ReleaseKeepsHidInv DEF EndOfFlood
<1>3. CASE Deadlines
  BY <1>3, ReleaseKeepsHidInv, SameKeepsHidInv
     DEF Deadlines, Expire, SameHid, sessionVars
<1>4. CASE LoopTop \/ Tick
  BY <1>4, SameKeepsHidInv DEF LoopTop, Tick, SameHid, sessionVars
<1>5. ASSUME NEW x, Piece(x) PROVE HidInv'
  BY <1>5, SameKeepsHidInv DEF Piece, SameHid, sessionVars
<1>6. CASE UNCHANGED vars
  BY <1>6, SameKeepsHidInv DEF vars, SameHid, sessionVars, hidVars
<1> QED
  BY <1>1, <1>2, <1>3, <1>4, <1>5, <1>6 DEF Next

-----------------------------------------------------------------------------
(* Typing, part by part: what one handler touches is a part of its own. *)

SessionTyped == /\ active_sid \in Sids \cup {NoSid}
                /\ watchdog_ms \in Nat /\ last_valid_at \in 0..MaxTime
HeldTyped    == /\ DOMAIN held \subseteq Names
                /\ \A n \in DOMAIN held : held[n] \in 0..MaxTime
CacheTyped   == /\ sent \in Objects
                /\ response_cache \in Seq(Objects)
                /\ Len(response_cache) <= CacheSize
FrameTyped   == buffer \in [count : 0..MaxPieces, body : Commands \cup {Junk}]
TimeTyped    == now \in 0..MaxTime /\ clock \in 0..MaxTime

Typed == SessionTyped /\ HeldTyped /\ CacheTyped /\ FrameTyped /\ TimeTyped

LEMMA ReleaseTyped == ReleaseAll => HeldTyped'
  BY EmptyHeld DEF ReleaseAll, HeldTyped

LEMMA CommandTyped ==
  ASSUME NEW c \in Commands
  PROVE  /\ c.sid \in Sids /\ c.seq \in 0..MaxSeq /\ c.wd \in Nat
         /\ c.op \in {"down", "up"} => c.name \in Names
         /\ Ack(c) \in Objects
         /\ \A code \in {"no_session", "bad_session", "exec_failed"} :
               NackOf(c, code) \in Objects
<1>1. /\ c.sid \in Sids /\ c.seq \in 0..MaxSeq /\ c.wd \in Nat
      /\ c.op \in {"down", "up"} => c.name \in Names
  <2>1. /\ c \in [sid : Sids, seq : 0..MaxSeq, op : Ops, name : Names \cup {"-"},
                   wd : Watchdogs \cup {0}]
        /\ c.op \in {"down", "up"} => c.name \in Names
    BY DEF Commands
  <2>2. c.wd \in Watchdogs \cup {0}
    BY <2>1
  <2>3. Watchdogs \cup {0} \subseteq Nat
    BY PicoAssumption
  <2>4. c.wd \in Nat
    BY <2>2, <2>3
  <2> QED BY <2>1, <2>4
<1> QED
  BY <1>1 DEF Ack, NackOf, Objects

LEMMA ReplyTyped ==
  ASSUME NEW cache \in Seq(Objects), Len(cache) <= CacheSize,
         NEW response \in Objects, Reply(cache, response)
  PROVE  CacheTyped'
<1>1. CASE Len(cache) = CacheSize
  <2>1. cache # <<>>
    BY <1>1, PicoAssumption
  <2>2. Tail(cache) \in Seq(Objects) /\ Len(Tail(cache)) = CacheSize - 1
    BY <1>1, <2>1, PicoAssumption
  <2> QED
    BY <1>1, <2>2, PicoAssumption DEF Reply, CachePut, CacheTyped
<1>2. CASE Len(cache) # CacheSize
  BY <1>2, PicoAssumption DEF Reply, CachePut, CacheTyped
<1> QED BY <1>1, <1>2

LEMMA OperateTyped ==
  ASSUME NEW c \in Commands, HeldTyped, TimeTyped, Operate(c)
  PROVE  HeldTyped'
<1>1. CASE UNCHANGED held
  BY <1>1 DEF HeldTyped
<1>2. CASE ReleaseAll
  BY <1>2, ReleaseTyped
<1>3. CASE c.op = "down" /\ Press(c.name) /\ c.name \notin DOMAIN held
  BY <1>3, CommandTyped DEF Press, HeldTyped, TimeTyped
<1>4. CASE LetGo(c.name)
  BY <1>4 DEF LetGo, HeldTyped
<1> QED
  BY <1>1, <1>2, <1>3, <1>4 DEF Operate, Press, hidVars

LEMMA LineTyped ==
  ASSUME NEW x \in Commands \cup {Junk}, Typed, HandleLine(x)
  PROVE  (SessionTyped /\ HeldTyped /\ CacheTyped)'
<1> USE DEF Typed
<1>1. CASE Malformed
  <2>1. BareNack("protocol_error") \in Objects
    BY PicoAssumption DEF BareNack, Objects
  <2> QED
    BY <1>1, <2>1, ReleaseTyped DEF Malformed, SessionTyped, CacheTyped, sessionVars
<1>2. CASE x \in Commands /\ Duplicate(x)
  BY <1>2 DEF Duplicate, CacheHits, SessionTyped, HeldTyped, CacheTyped, sessionVars,
              hidVars
<1>3. CASE x \in Commands /\ OpenSession(x)
  <2>1. <<>> \in Seq(Objects) /\ Len(<<>>) <= CacheSize
    BY PicoAssumption
  <2>2. CacheTyped'
    BY <1>3, <2>1, ReplyTyped, CommandTyped DEF OpenSession
  <2> QED
    BY <1>3, <2>2, ReleaseTyped, CommandTyped DEF OpenSession, SessionTyped, TimeTyped
<1>4. CASE x \in Commands /\ NoSession(x)
  <2>1. CacheTyped'
    BY <1>4, ReplyTyped, CommandTyped DEF NoSession, CacheTyped
  <2> QED
    BY <1>4, <2>1 DEF NoSession, SessionTyped, HeldTyped, sessionVars, hidVars
<1>5. CASE x \in Commands /\ BadSession(x)
  <2>1. CacheTyped'
    BY <1>5, ReplyTyped, CommandTyped DEF BadSession, CacheTyped
  <2> QED
    BY <1>5, <2>1, ReleaseTyped DEF BadSession, SessionTyped
<1>6. CASE x \in Commands /\ Execute(x)
  <2>1. CacheTyped'
    BY <1>6, ReplyTyped, CommandTyped DEF Execute, CacheTyped
  <2> QED
    BY <1>6, <2>1, OperateTyped DEF Execute, SessionTyped, TimeTyped
<1>7. CASE x \in Commands /\ ExecFailed(x)
  <2>1. CacheTyped'
    BY <1>7, ReplyTyped, CommandTyped DEF ExecFailed, CacheTyped
  <2> QED
    BY <1>7, <2>1, ReleaseTyped DEF ExecFailed, SessionTyped, TimeTyped
<1> QED
  BY <1>1, <1>2, <1>3, <1>4, <1>5, <1>6, <1>7 DEF HandleLine

LEMMA EventTyped ==
  /\ \A code \in {"ready", "watchdog", "held_timeout"} : Event(code) \in Objects
  /\ BareNack("line_too_long") \in Objects
  BY PicoAssumption DEF Event, BareNack, Objects

LEMMA StepTyped == Typed /\ [Next]_vars => Typed'
<1> SUFFICES ASSUME Typed, [Next]_vars PROVE Typed'
  OBVIOUS
<1> USE DEF Typed
<1> DEFINE Kept == UNCHANGED <<sessionVars, hidVars, response_cache>>
<1>0. ASSUME Kept, sent' \in Objects
      PROVE  (SessionTyped /\ HeldTyped /\ CacheTyped)'
  BY <1>0 DEF SessionTyped, HeldTyped, CacheTyped, sessionVars, hidVars
<1>1. CASE EndOfLine
  <2>1. buffer.body \in Commands \cup {Junk} /\ FrameTyped'
    BY <1>1, PicoAssumption DEF EndOfLine, FrameTyped, Empty
  <2>2. (SessionTyped /\ HeldTyped /\ CacheTyped)'
    BY <1>1, <2>1, LineTyped DEF EndOfLine
  <2>3. TimeTyped'
    BY <1>1 DEF EndOfLine, TimeTyped, timeVars
  <2> QED BY <2>1, <2>2, <2>3
<1>2. CASE EndOfFlood
  BY <1>2, ReleaseTyped, EventTyped
     DEF EndOfFlood, sessionVars, timeVars, SessionTyped, CacheTyped, FrameTyped, TimeTyped
<1>3. CASE Deadlines
  <2>1. sent' \in Objects
    BY <1>3, EventTyped DEF Deadlines, Expire, CacheTyped
  <2>2. FrameTyped' /\ TimeTyped' /\ CacheTyped'
    BY <1>3, <2>1 DEF Deadlines, frameVars, FrameTyped, TimeTyped, CacheTyped
  <2>3. SessionTyped' /\ HeldTyped'
    <3>1. CASE \E reason : Expire(reason)
      BY <3>1, ReleaseTyped DEF Expire, SessionTyped
    <3>2. CASE UNCHANGED <<hidVars, sessionVars>>
      BY <3>2 DEF hidVars, sessionVars, SessionTyped, HeldTyped
    <3> QED BY <1>3, <3>1, <3>2 DEF Deadlines
  <2> QED BY <2>2, <2>3
<1>4. CASE LoopTop \/ Tick
  <2>1. Kept /\ sent' = sent /\ UNCHANGED frameVars
    BY <1>4 DEF LoopTop, Tick
  <2>2. TimeTyped'
    BY <1>4, PicoAssumption DEF LoopTop, Tick, TimeTyped
  <2> QED BY <1>0, <2>1, <2>2 DEF CacheTyped, FrameTyped, frameVars
<1>5. ASSUME NEW x \in Commands \cup {Junk}, Piece(x) PROVE Typed'
  <2>1. Kept /\ sent' = sent /\ UNCHANGED timeVars
    BY <1>5 DEF Piece
  <2>2. FrameTyped'
    <3>1. CASE Overlong
      BY <1>5, <3>1, PicoAssumption DEF Piece, FrameTyped, Empty
    <3>2. CASE ~Overlong
      BY <1>5, <3>2, PicoAssumption DEF Piece, FrameTyped, Overlong
    <3> QED BY <3>1, <3>2
  <2> QED BY <1>0, <2>1, <2>2 DEF CacheTyped, TimeTyped, timeVars
<1>6. CASE UNCHANGED vars
  <2>1. Kept /\ sent' = sent /\ UNCHANGED <<timeVars, frameVars>>
    BY <1>6 DEF vars
  <2> QED
    BY <1>0, <2>1 DEF CacheTyped, TimeTyped, timeVars, FrameTyped, frameVars
<1> QED
  BY <1>1, <1>2, <1>3, <1>4, <1>5, <1>6 DEF Next

LEMMA InitTyped == Init => Typed
<1> SUFFICES ASSUME Init PROVE Typed
  OBVIOUS
<1>1. CacheTyped
  <2>1. <<>> \in Seq(Objects) /\ Len(<<>>) <= CacheSize
    BY PicoAssumption
  <2> QED BY <2>1, EventTyped DEF Init, CacheTyped
<1>2. SessionTyped /\ HeldTyped /\ FrameTyped /\ TimeTyped
  BY EmptyHeld, PicoAssumption
     DEF Init, SessionTyped, HeldTyped, FrameTyped, TimeTyped, Empty
<1> QED BY <1>1, <1>2 DEF Typed

(* The two flags of the loop, apart from the rest. *)
FlagsTyped == discarding \in BOOLEAN /\ phase \in {"read", "sleep"}

LEMMA StepFlags == FlagsTyped /\ [Next]_vars => FlagsTyped'
<1> SUFFICES ASSUME FlagsTyped, [Next]_vars PROVE FlagsTyped'
  OBVIOUS
<1>1. discarding' \in BOOLEAN
  BY DEF FlagsTyped, Next, Piece, EndOfLine, EndOfFlood, LoopTop, Deadlines, Tick,
         vars, frameVars
<1>2. phase' \in {"read", "sleep"}
  BY DEF FlagsTyped, Next, Piece, EndOfLine, EndOfFlood, LoopTop, Deadlines, Tick,
         vars, timeVars
<1> QED BY <1>1, <1>2 DEF FlagsTyped

IInv == Typed /\ FlagsTyped /\ HidInv

LEMMA InitIInv == Init => IInv
<1> SUFFICES ASSUME Init PROVE IInv
  OBVIOUS
<1>1. FlagsTyped
  BY DEF Init, FlagsTyped
<1>2. HidInv
  BY EmptyHeld DEF Init, HidInv, DownIsTracked
<1> QED BY <1>1, <1>2, InitTyped DEF IInv

LEMMA StepIInv == IInv /\ [Next]_vars => IInv'
<1> SUFFICES ASSUME IInv, [Next]_vars PROVE IInv'
  OBVIOUS
<1>1. buffer.body \in Commands \cup {Junk}
  BY DEF IInv, Typed, FrameTyped
<1> QED BY <1>1, StepTyped, StepFlags, StepHidInv DEF IInv

(* Every variable stays in its type, whatever arrives on the UART. *)
THEOREM Typing == Spec => []TypeOK
<1>1. IInv => TypeOK
  <2> SUFFICES ASSUME IInv PROVE TypeOK
    OBVIOUS
  <2>1. usb \subseteq Names
    BY DEF IInv, HidInv, DownIsTracked, Typed, HeldTyped
  <2> QED
    BY <2>1 DEF IInv, TypeOK, Typed, FlagsTyped, SessionTyped, HeldTyped, CacheTyped,
                FrameTyped, TimeTyped
<1> QED
  BY InitIInv, StepIInv, <1>1, PTL DEF Spec

(* No input is down at the target without an open session to watch over it. *)
THEOREM SessionOverInput == Spec => []HeldNeedsSession
<1>1. IInv => HeldNeedsSession
  BY EmptyHeld DEF IInv, HidInv, DownIsTracked, HeldNeedsSession
<1> QED
  BY InitIInv, StepIInv, <1>1, PTL DEF Spec

(* What is down at the target is known to the firmware. *)
THEOREM InputIsTracked == Spec => []DownIsTracked
<1>1. IInv => DownIsTracked
  BY DEF IInv, HidInv
<1> QED
  BY InitIInv, StepIInv, <1>1, PTL DEF Spec

-----------------------------------------------------------------------------
(***************************************************************************)
(* The deadlines.  They are looked at with a time that is as old as the     *)
(* pass of the loop, so an open session may be overdue by one pass while    *)
(* the UART is being read, and is not when the loop goes to sleep.          *)
(***************************************************************************)
Slack == IF phase = "read" THEN Loop ELSE 0

Current(slack) ==
  active_sid # NoSid =>
    /\ now - last_valid_at <= watchdog_ms + slack
    /\ \A n \in DOMAIN held : now - held[n] <= MaxHeld + slack

TimeInv ==
  /\ now <= clock /\ clock <= now + Loop
  /\ Current(Slack)

LEMMA OperateCurrent ==
  ASSUME NEW c, Typed, now <= clock, Operate(c), now' = now,
         \A n \in DOMAIN held : now - held[n] <= MaxHeld + Loop
  PROVE  \A n \in DOMAIN held' : now' - held'[n] <= MaxHeld + Loop
<1> USE PicoAssumption DEF Typed, TimeTyped, HeldTyped
<1>1. CASE UNCHANGED held
  BY <1>1
<1>2. CASE ReleaseAll
  BY <1>2, EmptyHeld DEF ReleaseAll
<1>3. CASE c.op = "down" /\ Press(c.name) /\ c.name \notin DOMAIN held
  BY <1>3 DEF Press
<1>4. CASE LetGo(c.name)
  BY <1>4 DEF LetGo
<1> QED
  BY <1>1, <1>2, <1>3, <1>4 DEF Operate, Press, hidVars

LEMMA LineCurrent ==
  ASSUME NEW x \in Commands \cup {Junk}, Typed, now <= clock, now' = now,
         Current(Loop), HandleLine(x)
  PROVE  Current(Loop)'
<1> USE PicoAssumption DEF Typed, TimeTyped, SessionTyped
<1>1. CASE Malformed \/ (x \in Commands /\ ExecFailed(x))
  BY <1>1, EmptyHeld DEF Malformed, ExecFailed, ReleaseAll, Current, sessionVars
<1>2. CASE x \in Commands /\ OpenSession(x)
  BY <1>2, EmptyHeld, CommandTyped DEF OpenSession, ReleaseAll, Current
<1>3. CASE x \in Commands /\ BadSession(x)
  BY <1>3 DEF BadSession, Current
<1>4. CASE x \in Commands /\ (Duplicate(x) \/ NoSession(x))
  BY <1>4 DEF Duplicate, NoSession, Current, sessionVars, hidVars
<1>5. CASE x \in Commands /\ Execute(x)
  <2>1. active_sid # NoSid
    BY <1>5, CommandTyped DEF Execute
  <2>2. \A n \in DOMAIN held' : now' - held'[n] <= MaxHeld + Loop
    BY <1>5, <2>1, OperateCurrent DEF Execute, Current
  <2>3. now' - last_valid_at' <= watchdog_ms' + Loop
    BY <1>5 DEF Execute
  <2> QED BY <2>2, <2>3 DEF Current
<1> QED
  BY <1>1, <1>2, <1>3, <1>4, <1>5 DEF HandleLine

LEMMA StepTime == IInv /\ TimeInv /\ [Next]_vars => TimeInv'
<1> SUFFICES ASSUME IInv, TimeInv, [Next]_vars PROVE TimeInv'
  OBVIOUS
<1> USE PicoAssumption DEF IInv, Typed, TimeTyped, SessionTyped, HeldTyped
<1>1. CASE EndOfLine
  <2>1. phase = "read" /\ phase' = "read" /\ now' = now /\ clock' = clock
    BY <1>1 DEF EndOfLine, timeVars
  <2>2. buffer.body \in Commands \cup {Junk}
    BY DEF FrameTyped
  <2>3. Current(Loop)
    BY <2>1 DEF TimeInv, Slack
  <2>4. Current(Loop)'
    BY <1>1, <2>1, <2>2, <2>3, LineCurrent DEF EndOfLine, TimeInv
  <2>5. Current(Slack)'
    BY <2>1, <2>4 DEF Slack, Current
  <2> QED BY <2>1, <2>5 DEF TimeInv
<1>2. CASE EndOfFlood
  BY <1>2, EmptyHeld
     DEF EndOfFlood, ReleaseAll, TimeInv, Slack, Current, sessionVars, timeVars
<1>3. CASE Deadlines
  <2>1. now' = now /\ clock' = clock /\ phase' = "sleep"
    BY <1>3 DEF Deadlines
  <2>2. CASE active_sid' = NoSid
    BY <2>1, <2>2 DEF TimeInv, Current
  <2>3. CASE active_sid' # NoSid
    <3>1. ~Silent /\ ~HeldLong /\ UNCHANGED <<hidVars, sessionVars>>
      BY <1>3, <2>3 DEF Deadlines, Expire, sessionVars
    <3>2. now - last_valid_at <= watchdog_ms
      BY <3>1 DEF Silent
    <3>3. \A n \in DOMAIN held : now - held[n] <= MaxHeld
      BY <3>1 DEF HeldLong
    <3> QED
      BY <2>1, <3>1, <3>2, <3>3 DEF TimeInv, Current, Slack, sessionVars, hidVars
  <2> QED BY <2>2, <2>3
<1>4. CASE LoopTop
  BY <1>4 DEF LoopTop, TimeInv, Slack, Current, sessionVars, hidVars
<1>5. CASE Tick
  BY <1>5 DEF Tick, TimeInv, Slack, Current, sessionVars, hidVars
<1>6. ASSUME NEW x, Piece(x) PROVE TimeInv'
  BY <1>6 DEF Piece, TimeInv, Slack, Current, sessionVars, hidVars, timeVars
<1>7. CASE UNCHANGED vars
  BY <1>7 DEF vars, TimeInv, Slack, Current, sessionVars, hidVars, timeVars
<1> QED
  BY <1>1, <1>2, <1>3, <1>4, <1>5, <1>6, <1>7 DEF Next

LEMMA InitTime == Init => TimeInv
  BY PicoAssumption, EmptyHeld DEF Init, TimeInv, Current, Slack

(* While anything is down the host was heard within the watchdog, give or take
   two passes of the main loop. *)
THEOREM WatchdogHolds == Spec => []WatchdogBound
<1>1. IInv /\ TimeInv => WatchdogBound
  <2> SUFFICES ASSUME IInv, TimeInv, usb # {} PROVE
                 clock - last_valid_at <= watchdog_ms + 2 * Loop
    BY DEF WatchdogBound
  <2>1. active_sid # NoSid
    BY EmptyHeld DEF IInv, HidInv, DownIsTracked
  <2> QED
    BY <2>1, PicoAssumption
       DEF IInv, Typed, TimeTyped, SessionTyped, TimeInv, Current, Slack
<1> QED
  BY InitIInv, StepIInv, InitTime, StepTime, <1>1, PTL DEF Spec

(* Nothing stays down longer than MAX_HELD_SECONDS, give or take two passes. *)
THEOREM HeldHolds == Spec => []HeldBound
<1>1. IInv /\ TimeInv => HeldBound
  <2> SUFFICES ASSUME IInv, TimeInv, NEW n \in usb PROVE
                 clock - held[n] <= MaxHeld + 2 * Loop
    BY DEF HeldBound
  <2>1. active_sid # NoSid /\ n \in DOMAIN held
    BY EmptyHeld DEF IInv, HidInv, DownIsTracked
  <2> QED
    BY <2>1, PicoAssumption
       DEF IInv, Typed, TimeTyped, HeldTyped, TimeInv, Current, Slack
<1> QED
  BY InitIInv, StepIInv, InitTime, StepTime, <1>1, PTL DEF Spec

(* Both bounds at once. *)
THEOREM LetGoHolds == Spec => []LetGoInTime
<1>1. WatchdogBound /\ HeldBound => LetGoInTime
  BY DEF LetGoInTime
<1> QED
  BY <1>1, WatchdogHolds, HeldHolds, PTL
=============================================================================

-------------------------- MODULE LocalInputProofs --------------------------
(***************************************************************************)
(* Theorems about the built-in keyboard and trackball.  LocalInput: for     *)
(* every set of keys, every emergency chord and every size of the batches.  *)
(* MouseMotion: for all limits of a report, a burst, a move and the         *)
(* accumulator, nothing of a movement is lost, every move fits in one       *)
(* burst, and the cost stated for it is the number of reports it takes.     *)
(***************************************************************************)
EXTENDS LocalInput, MouseMotion, TLAPS, FiniteSetTheorems

(* What every handler keeps about keys: the whole chord is never physically
   down, because the last of it resets the state, and so never at the target. *)
KeysInv ==
  /\ DownIsHeld /\ pending \subseteq Chord
  /\ ~(Chord \subseteq physical)
  /\ ChordNeverWhole

(* Buttons and plain keys are no part of the chord. *)
LEMMA ChordIsSomething == Chord # {} /\ Chord \cap Buttons = {}
<1>1. Cardinality({}) = 0
  BY FS_EmptySet
<1> QED
  BY <1>1, LocalAssumption

LEMMA ResetKeeps ==
  ASSUME KeysInv, ResetInput, armed' = FALSE, target' \subseteq target
  PROVE  KeysInv'
  BY ChordIsSomething DEF KeysInv, DownIsHeld, ChordNeverWhole, ResetInput

LEMMA DisarmKeeps == ASSUME NEW open, KeysInv, DisarmLocked(open) PROVE KeysInv'
<1>1. target' \subseteq target
  BY DEF DisarmLocked, Released, ReleaseUnconfirmed, remote
<1> QED
  BY <1>1, ResetKeeps DEF DisarmLocked, Ungrabbed

(* A refused command leaves at most a part of what was on its way. *)
LEMMA RefusedKeeps ==
  ASSUME NEW downs, KeysInv, armed = TRUE, Refused(downs), ~(Chord \subseteq physical \cup downs)
  PROVE  KeysInv'
<1>1. target' \subseteq physical \cup downs
  BY DEF KeysInv, DownIsHeld, Refused
<1>2. ResetInput /\ armed' = FALSE
  BY DEF Refused, Ungrabbed
<1> QED
  BY <1>1, <1>2, ChordIsSomething DEF KeysInv, DownIsHeld, ChordNeverWhole, ResetInput

(* An accepted one changes the target as it changes what is forwarded. *)
LEMMA AcceptedKeeps ==
  ASSUME NEW held, NEW held_back, NEW touched, NEW down,
         Accepted(held, held_back, touched, down), armed = TRUE,
         down \subseteq held, held \subseteq touched,
         held_back \subseteq touched \ held, held_back \subseteq Chord, ~(Chord \subseteq touched)
  PROVE  KeysInv'
  BY DEF Accepted, KeysInv, DownIsHeld, ChordNeverWhole

LEMMA SameKeeps ==
  ASSUME KeysInv, UNCHANGED <<physical, forwarded, pending>>, armed' = armed,
         target' \subseteq target
  PROVE  KeysInv'
  BY DEF KeysInv, DownIsHeld, ChordNeverWhole

LEMMA HandleKeeps ==
  ASSUME NEW record, KeysInv, armed = TRUE, Handle(record)
  PROVE  KeysInv'
<1> DEFINE name == record.name
<1> USE DEF KeysInv, DownIsHeld
<1>1. CASE ChordKeyDown(name)
  <2>1. CASE DisarmLocked(fds)
    BY <2>1, DisarmKeeps
  <2>2. CASE ~WholeChord(name) /\ physical' = physical \cup {name}
             /\ pending' = pending \cup ({name} \ forwarded)
             /\ UNCHANGED <<forwarded, device, remote>>
    BY <2>2, <1>1 DEF ChordKeyDown, WholeChord, ChordNeverWhole, device, remote
  <2> QED BY <1>1, <2>1, <2>2 DEF ChordKeyDown
<1>2. CASE KeyDown(name)
  <2>1. name \notin Chord /\ name \notin physical /\ ~(Chord \subseteq physical \cup {name})
    BY <1>2 DEF KeyDown
  <2>2. CASE Refused(pending \cup {name})
    BY <2>1, <2>2, RefusedKeeps
  <2>3. CASE Accepted(forwarded \cup (pending \cup {name}), {}, physical \cup {name},
                      target \cup (pending \cup {name}))
    BY <2>1, <2>3, AcceptedKeeps
  <2> QED BY <1>2, <2>2, <2>3 DEF KeyDown
<1>3. CASE KeyUp(name)
  <2>1. CASE name \in pending /\ Refused({name})
    BY <2>1, RefusedKeeps
  <2>2. CASE name \in pending
             /\ Accepted(forwarded, pending \ {name}, physical \ {name}, target \ {name})
    BY <2>2, AcceptedKeeps
  <2>3. CASE name \in forwarded /\ Refused({})
    BY <2>3, RefusedKeeps
  <2>4. CASE name \in forwarded
             /\ Accepted(forwarded \ {name}, pending, physical \ {name}, target \ {name})
    BY <2>4, AcceptedKeeps
  <2>5. CASE name \notin pending \cup forwarded /\ Ignored(physical \ {name})
    BY <2>5 DEF Ignored, ChordNeverWhole, device, remote
  <2> QED BY <1>3, <2>1, <2>2, <2>3, <2>4, <2>5 DEF KeyUp
<1>4. CASE ButtonDown(name)
  <2>1. ~(Chord \subseteq physical \cup {name}) /\ name \notin physical
    BY <1>4, ChordIsSomething DEF ButtonDown
  <2>2. CASE Refused({name})
    BY <2>1, <2>2, RefusedKeeps
  <2>3. CASE Accepted(forwarded \cup {name}, pending, physical \cup {name}, target \cup {name})
    BY <2>1, <2>3, AcceptedKeeps
  <2> QED BY <1>4, <2>2, <2>3 DEF ButtonDown
<1>5. CASE ButtonUp(name)
  <2>1. name \notin Chord
    BY <1>5, ChordIsSomething DEF ButtonUp
  <2>2. CASE Refused({})
    BY <2>2, RefusedKeeps
  <2>3. CASE Accepted(forwarded \ {name}, pending, physical \ {name}, target \ {name})
    <3>1. pending \subseteq (physical \ {name}) \ (forwarded \ {name})
      BY <2>1
    <3> QED BY <3>1, <2>3, AcceptedKeeps
  <2> QED BY <1>5, <2>2, <2>3 DEF ButtonUp
<1>6. CASE RepeatedEdge(record) \/ Motion
  BY <1>6, SameKeeps DEF RepeatedEdge, Motion, device, input, remote
<1>7. CASE Report
  <2>1. CASE Refused({})
    BY <2>1, RefusedKeeps
  <2>2. CASE UNCHANGED <<physical, forwarded, pending, device, target>>
    BY <2>2, SameKeeps DEF device
  <2> QED BY <1>7, <2>1, <2>2 DEF Report
<1> QED
  BY <1>1, <1>2, <1>3, <1>4, <1>5, <1>6, <1>7 DEF Handle

LEMMA StepKeeps ==
  ASSUME KeysInv, [Next]_vars PROVE KeysInv'
<1>1. CASE Hand \/ LeaseEnds \/ GatewayReleases
  BY <1>1, SameKeeps DEF Hand, LeaseEnds, GatewayReleases, device, input, remote
<1>2. CASE Arm
  BY <1>2, ChordIsSomething
     DEF Arm, Arming, ResetInput, remote, KeysInv, DownIsHeld, ChordNeverWhole
<1>3. CASE Disarm
  BY <1>3, DisarmKeeps DEF Disarm
<1>4. CASE IdleFires
  <2>1. CASE Slept /\ target' \subseteq target
    BY <2>1, SameKeeps DEF Slept, device
  <2>2. CASE ReleaseUnconfirmed /\ Ungrabbed(fds, 1)
    BY <2>2, DisarmKeeps DEF DisarmLocked
  <2>3. Released => target' \subseteq target
    BY DEF Released, remote
  <2> QED
    BY <1>4, <2>1, <2>2, <2>3 DEF IdleFires, remote
<1>5. ASSUME NEW kind \in Kinds, Read(kind) \/ OpenDevice(kind) PROVE KeysInv'
  BY <1>5, SameKeeps DEF Read, OpenDevice, device, input, remote
<1>6. ASSUME NEW kind \in Kinds, Feed(kind) PROVE KeysInv'
  <2>1. CASE armed /\ Handle(Head(batch[kind]))
    <3>1. armed = TRUE
      BY <2>1
    <3> QED BY <2>1, <3>1, HandleKeeps
  <2>2. CASE UNCHANGED <<device, input, remote, fails>>
    BY <2>2, SameKeeps DEF device, input, remote
  <2> QED BY <1>6, <2>1, <2>2 DEF Feed
<1>7. ASSUME NEW kind \in Kinds, LoseDevice(kind) PROVE KeysInv'
  <2>1. CASE DisarmLocked(fds \ {kind})
    BY <2>1, DisarmKeeps
  <2>2. CASE Ungrabbed(fds \ {kind}, 0) /\ UNCHANGED remote
    BY <2>2, ResetKeeps DEF Ungrabbed, remote
  <2> QED BY <1>7, <2>1, <2>2 DEF LoseDevice, LostDisarm
<1>8. CASE UNCHANGED vars \/ ArmFails
  BY <1>8, SameKeeps DEF vars, ArmFails, device, input, remote
<1> QED
  BY <1>1, <1>2, <1>3, <1>4, <1>5, <1>6, <1>7, <1>8 DEF Next

LEMMA InitKeeps == Init => KeysInv
  BY ChordIsSomething DEF Init, KeysInv, DownIsHeld, ChordNeverWhole

(* What is down at the target while armed is forwarded and still held. *)
THEOREM DownStaysHeld == Spec => []DownIsHeld
<1>1. KeysInv => DownIsHeld
  BY DEF KeysInv
<1> QED
  BY InitKeeps, StepKeeps, <1>1, PTL DEF Spec

(* The whole emergency chord is never down at the target. *)
THEOREM ChordIsKeptBack == Spec => []ChordNeverWhole
<1>1. KeysInv => ChordNeverWhole
  BY DEF KeysInv
<1> QED
  BY InitKeeps, StepKeeps, <1>1, PTL DEF Spec

-----------------------------------------------------------------------------
(* Half of the appliance is never armed, nor half of it left grabbed. *)

(* Only what is open is grabbed or held back, and what the kernel holds back
   from others is grabbed by the manager or was not to be given back. *)
GrabInv ==
  /\ AllOrNothing
  /\ grabbed \subseteq fds /\ exclusive \subseteq fds /\ fds \subseteq Kinds
  /\ exclusive \ grabbed \subseteq stuck

Disarmed(open) == Ungrabbed(open, 0) \/ Ungrabbed(open, 1)
SameGrab == UNCHANGED device

LEMMA SameGrabKeeps == ASSUME GrabInv, SameGrab PROVE GrabInv'
  BY DEF GrabInv, AllOrNothing, SameGrab, device

(* Whatever cannot be given back, the rest is. *)
LEMMA DisarmedKeeps ==
  ASSUME NEW open \in SUBSET fds, GrabInv, Disarmed(open) PROVE GrabInv'
<1>1. PICK kept \in SUBSET grabbed : GivesBack(grabbed, kept, open)
  BY DEF Disarmed, Ungrabbed
<1>2. ~armed' /\ grabbed' = {} /\ fds' = open
  BY DEF Disarmed, Ungrabbed
<1> QED
  BY <1>1, <1>2 DEF GrabInv, AllOrNothing, GivesBack

LEMMA EitherGrab ==
  ASSUME GrabInv, Disarmed(fds) \/ SameGrab PROVE GrabInv'
  BY SameGrabKeeps, DisarmedKeeps

LEMMA HandleGrab ==
  ASSUME NEW record, Handle(record) PROVE Disarmed(fds) \/ SameGrab
<1> USE DEF Disarmed, SameGrab
<1>1. \A downs : Refused(downs) => Disarmed(fds)
  BY DEF Refused
<1>2. \A held, held_back, touched, down :
        Accepted(held, held_back, touched, down) => SameGrab
  BY DEF Accepted
<1>3. DisarmLocked(fds) => Disarmed(fds)
  BY DEF DisarmLocked
<1>4. \A touched : Ignored(touched) => SameGrab
  BY DEF Ignored
<1>5. ChordKeyDown(record.name) => Disarmed(fds) \/ SameGrab
  BY <1>3 DEF ChordKeyDown
<1>6. KeyDown(record.name) \/ KeyUp(record.name) => Disarmed(fds) \/ SameGrab
  BY <1>1, <1>2, <1>4 DEF KeyDown, KeyUp
<1>7. ButtonDown(record.name) \/ ButtonUp(record.name) => Disarmed(fds) \/ SameGrab
  BY <1>1, <1>2 DEF ButtonDown, ButtonUp
<1>8. RepeatedEdge(record) \/ Motion \/ Report => Disarmed(fds) \/ SameGrab
  BY <1>1 DEF RepeatedEdge, Motion, Report
<1> QED
  BY <1>5, <1>6, <1>7, <1>8 DEF Handle

(* An arm that fails gives back what it has grabbed, whichever step failed. *)
LEMMA ArmFailsKeeps == ASSUME GrabInv, ArmFails PROVE GrabInv'
<1>1. PICK got \in {{}, {"keyboard"}, Kinds}, kept \in SUBSET {"keyboard", "pointer"} :
        RolledBack(got, kept) /\ got \cap exclusive = {}
  BY DEF ArmFails, Kinds
<1>2. ~armed /\ fds = Kinds /\ UNCHANGED <<armed, fds, grabbed>>
  BY DEF ArmFails, Arming
<1>3. got \subseteq Kinds /\ kept \subseteq Kinds
  BY DEF Kinds
<1> QED
  BY <1>1, <1>2, <1>3 DEF GrabInv, AllOrNothing, RolledBack, GivesBack

LEMMA StepGrab == ASSUME GrabInv, [Next]_vars PROVE GrabInv'
<1>1. CASE Hand \/ LeaseEnds \/ GatewayReleases \/ UNCHANGED vars
  BY <1>1, EitherGrab DEF Hand, LeaseEnds, GatewayReleases, vars, SameGrab
<1>2. CASE Arm
  BY <1>2 DEF Arm, Arming, GrabInv, AllOrNothing
<1>3. CASE Disarm
  BY <1>3, EitherGrab DEF Disarm, DisarmLocked, Disarmed
<1>4. CASE IdleFires
  BY <1>4, EitherGrab DEF IdleFires, Slept, Disarmed, SameGrab
<1>5. ASSUME NEW kind \in Kinds, Read(kind) PROVE GrabInv'
  BY <1>5, EitherGrab DEF Read, SameGrab
<1>6. ASSUME NEW kind \in Kinds, Feed(kind) PROVE GrabInv'
  <2>1. CASE Handle(Head(batch[kind]))
    BY <2>1, EitherGrab, HandleGrab
  <2> QED BY <1>6, <2>1, EitherGrab DEF Feed, SameGrab
<1>7. ASSUME NEW kind \in Kinds, LoseDevice(kind) PROVE GrabInv'
  <2>1. Disarmed(fds \ {kind})
    BY <1>7 DEF LoseDevice, LostDisarm, DisarmLocked, Disarmed
  <2> QED BY <2>1, DisarmedKeeps
<1>8. ASSUME NEW kind \in Kinds, OpenDevice(kind) PROVE GrabInv'
  BY <1>8 DEF OpenDevice, GrabInv, AllOrNothing
<1>9. CASE ArmFails
  BY <1>9, ArmFailsKeeps
<1> QED
  BY <1>1, <1>2, <1>3, <1>4, <1>5, <1>6, <1>7, <1>8, <1>9 DEF Next

(* While armed both devices are open and nobody else has their records.  While
   not, no device is held back but one the kernel refused to give back, however
   an arm failed, a command was refused or a device was lost. *)
THEOREM NeverHalfArmed == Spec => []AllOrNothing
<1>1. Init => GrabInv
  BY DEF Init, GrabInv, AllOrNothing
<1>2. GrabInv => AllOrNothing
  BY DEF GrabInv
<1> QED
  BY <1>1, <1>2, StepGrab, PTL DEF Spec

-----------------------------------------------------------------------------
(* The lease of the built-in controls is on its way back.                    *)

(* Disarmed controls have no lease; arming starts without one. *)
LeaseInv == (armed \/ ~lease) /\ LeaseOnItsWayBack

(* What a handler leaves: disarmed without a lease, the idle release scheduled
   as it has to be, or nothing that matters to it changed. *)
HandedBack == ~armed' /\ ~lease'
Scheduled  == armed' = armed /\ (NothingHeld(forwarded', pending', physical') => idle')
Untouched  ==
  /\ UNCHANGED <<armed, lease, idle>>
  /\ NothingHeld(forwarded', pending', physical') => NothingHeld(forwarded, pending, physical)

LEMMA LeaseLeft ==
  ASSUME LeaseInv, \/ HandedBack \/ Untouched
                   \/ Scheduled /\ armed
                   \/ UNCHANGED armed /\ ~lease'
  PROVE  LeaseInv'
  BY DEF LeaseInv, LeaseOnItsWayBack, HandedBack, Scheduled, Untouched

LEMMA DisarmHandsBack ==
  /\ \A open : DisarmLocked(open) => HandedBack
  /\ \A downs : Refused(downs) => HandedBack
  /\ \A open, n : Ungrabbed(open, n) /\ UNCHANGED remote /\ ~lease => HandedBack
  BY DEF DisarmLocked, Refused, Ungrabbed, Released, ReleaseUnconfirmed, HandedBack, remote

LEMMA HandleLeavesLease ==
  ASSUME NEW record, armed, Handle(record)
  PROVE  HandedBack \/ Untouched \/ (Scheduled /\ armed)
<1>1. \A held, held_back, touched, down :
        Accepted(held, held_back, touched, down) => Scheduled
  BY DEF Accepted, Scheduled, device
<1>2. \A name \in Keys : Ignored(physical \ {name}) => Untouched
  BY LocalAssumption DEF Ignored, Untouched, NothingHeld, device, remote
<1>3. ChordKeyDown(record.name) => HandedBack \/ Untouched
  <2>1. ASSUME record.name \in Chord, physical' = physical \cup {record.name},
               pending' = pending \cup ({record.name} \ forwarded),
               UNCHANGED <<forwarded, idle, device, remote>>
        PROVE  Untouched
    BY <2>1 DEF Untouched, NothingHeld, device, remote
  <2> QED
    BY <2>1, DisarmHandsBack DEF ChordKeyDown
<1>4. KeyDown(record.name) \/ KeyUp(record.name) => HandedBack \/ Untouched \/ Scheduled
  BY <1>1, <1>2, DisarmHandsBack DEF KeyDown, KeyUp
<1>5. ButtonDown(record.name) \/ ButtonUp(record.name) => HandedBack \/ Scheduled
  BY <1>1, DisarmHandsBack DEF ButtonDown, ButtonUp
<1>6. RepeatedEdge(record) \/ Motion => Untouched
  BY DEF RepeatedEdge, Motion, Untouched, device, input, remote
<1>7. Report => HandedBack \/ Scheduled
  BY DisarmHandsBack DEF Report, Scheduled, device
<1> QED
  BY <1>3, <1>4, <1>5, <1>6, <1>7 DEF Handle

LEMMA StepLease == ASSUME LeaseInv, [Next]_vars PROVE LeaseInv'
<1>1. CASE Hand \/ ArmFails \/ UNCHANGED vars
  BY <1>1, LeaseLeft DEF Hand, ArmFails, vars, device, input, remote, Untouched
<1>2. CASE LeaseEnds \/ GatewayReleases
  BY <1>2, LeaseLeft DEF LeaseEnds, GatewayReleases, device, input, Untouched
<1>3. CASE Arm
  BY <1>3 DEF Arm, Arming, LeaseInv, LeaseOnItsWayBack, remote
<1>4. CASE Disarm
  BY <1>4, LeaseLeft, DisarmHandsBack DEF Disarm
<1>5. CASE IdleFires
  <2>1. CASE Released /\ Slept
    BY <2>1, LeaseLeft DEF Released, Slept, remote, device
  <2>2. CASE ReleaseUnconfirmed /\ Ungrabbed(fds, 1)
    BY <2>2, LeaseLeft, DisarmHandsBack DEF DisarmLocked
  <2>3. CASE ~NothingHeld(forwarded, pending, physical) /\ Slept /\ UNCHANGED lease
    BY <2>3 DEF LeaseInv, LeaseOnItsWayBack, Slept, device
  <2> QED
    BY <1>5, <2>1, <2>2, <2>3 DEF IdleFires, remote
<1>6. ASSUME NEW kind \in Kinds, Read(kind) \/ OpenDevice(kind) PROVE LeaseInv'
  BY <1>6, LeaseLeft DEF Read, OpenDevice, device, input, remote, Untouched
<1>7. ASSUME NEW kind \in Kinds, Feed(kind) PROVE LeaseInv'
  <2>1. CASE armed /\ Handle(Head(batch[kind]))
    BY <2>1, HandleLeavesLease, LeaseLeft
  <2>2. CASE UNCHANGED <<device, input, remote, fails>>
    BY <2>2, LeaseLeft DEF Untouched, device, input, remote
  <2> QED
    BY <1>7, <2>1, <2>2 DEF Feed
<1>8. ASSUME NEW kind \in Kinds, LoseDevice(kind) PROVE LeaseInv'
  <2>1. HandedBack
    BY <1>8, DisarmHandsBack DEF LoseDevice, LostDisarm, LeaseInv
  <2> QED
    BY <2>1, LeaseLeft
<1> QED
  BY <1>1, <1>2, <1>3, <1>4, <1>5, <1>6, <1>7, <1>8 DEF Next

(* An appliance that nobody touches gives the target back: while the built-in
   controls have a lease and nothing is down or held back, the idle release is
   scheduled. *)
THEOREM IdleReleaseIsScheduled == Spec => []LeaseOnItsWayBack
<1>1. Init => LeaseInv
  BY DEF Init, LeaseInv, LeaseOnItsWayBack
<1>2. LeaseInv => LeaseOnItsWayBack
  BY DEF LeaseInv
<1> QED
  BY <1>1, <1>2, StepLease, PTL DEF Spec

-----------------------------------------------------------------------------
(* The movements of the pointer (MouseMotion). *)

Types ==
  /\ phase \in {"idle", "flushing", "splitting", "raised"}
  /\ motion \in Moves /\ rest \in Moves /\ left \in Moves
  /\ packed \in Moves /\ owed \in Moves
  /\ reports \in Nat /\ cost \in Nat

(* Outside its loop a loop's variables are used up. *)
Between ==
  /\ phase # "idle" => motion = Still
  /\ phase = "idle" => rest = Still
  /\ phase \in {"idle", "flushing"} => left = Still /\ packed = Still

Gathered == \A a \in Axes : Abs(motion[a]) <= MotionLimit /\ Abs(rest[a]) <= MotionLimit

(* What is left of a move fits in the reports that are left of a burst. *)
Room ==
  /\ phase # "raised" /\ reports <= BatchLimit
  /\ \A a \in Axes : Abs(left[a]) <= (BatchLimit - reports) * ReportLimit

Reports(n) == (n + ReportLimit - 1) \div ReportLimit

(* The reports split off and those still needed are the cost stated. *)
Exact ==
  /\ phase \in {"idle", "flushing"} => reports = cost
  /\ phase \notin {"idle", "flushing"} => cost = Larger(1, reports + Reports(Largest(left)))

(* On each axis what is packed, left and still to be cut points one way. *)
OneWay ==
  phase # "idle" =>
    \A a \in Axes : \/ packed[a] >= 0 /\ left[a] >= 0 /\ rest[a] >= 0
                    \/ packed[a] <= 0 /\ left[a] <= 0 /\ rest[a] <= 0

(* Multiplication by a symbol, said once. *)
LEMMA RoomForOne ==
  ASSUME NEW n \in Nat, NEW k \in Int, n > 0, n <= k * ReportLimit
  PROVE  k >= 1
<1>1. ReportLimit \in Nat /\ ReportLimit > 0
  BY MotionAssumption
<1>2. k <= 0 => k * ReportLimit <= 0
  BY <1>1, SMT
<1> QED
  BY <1>1, <1>2, SMT

(* A full report less is one report less. *)
LEMMA OneLess ==
  ASSUME NEW n \in Nat, n > 0
  PROVE  /\ Reports(n) \in Nat /\ Reports(n) >= 1 /\ Reports(0) = 0
         /\ n > ReportLimit => Reports(n - ReportLimit) = Reports(n) - 1
         /\ n <= ReportLimit => Reports(n) = 1
<1>1. ReportLimit \in Nat /\ ReportLimit > 0
  BY MotionAssumption
<1>2. n > ReportLimit => Reports(n - ReportLimit) = Reports(n) - 1
  BY <1>1, SMTT(30) DEF Reports
<1>3. n <= ReportLimit => Reports(n) = 1
  BY <1>1, SMTT(30) DEF Reports
<1>4. Reports(0) = 0
  BY <1>1, SMTT(30) DEF Reports
<1>5. Reports(n) \in Nat /\ Reports(n) >= 1
  BY <1>1, SMTT(30) DEF Reports
<1> QED
  BY <1>2, <1>3, <1>4, <1>5

-----------------------------------------------------------------------------
(* The variables stay well typed: moves stay moves through every clamp and   *)
(* every difference.                                                        *)
LEMMA MovesAreMoves ==
  ASSUME NEW v \in Moves, NEW w \in Moves
  PROVE  /\ MoveOf(v) \in Moves /\ ReportOf(v) \in Moves
         /\ Plus(v, w) \in Moves /\ Minus(v, w) \in Moves /\ Still \in Moves
         /\ Largest(v) \in Nat /\ ChunkCount(v) \in Nat
<1>1. ReportLimit \in Nat /\ ReportLimit > 0 /\ AxisLimit \in Nat
  BY MotionAssumption
<1>2. MoveOf(v) \in Moves /\ ReportOf(v) \in Moves
  BY <1>1 DEF MoveOf, ReportOf, Clamp, Moves
<1>3. Plus(v, w) \in Moves /\ Minus(v, w) \in Moves /\ Still \in Moves
  BY DEF Plus, Minus, Still, Moves
<1>4. Largest(v) \in Nat
  BY DEF Largest, Larger, Abs, Moves, Axes
<1>5. ChunkCount(v) = Larger(1, Reports(Largest(v)))
  BY DEF ChunkCount, Reports
<1>6. Reports(Largest(v)) \in Nat
  <2>1. CASE Largest(v) > 0
    BY <2>1, <1>4, OneLess
  <2>2. CASE Largest(v) = 0
    BY <2>2, OneLess, 1 \in Nat, 1 > 0
  <2> QED
    BY <2>1, <2>2, <1>4
<1> QED
  BY <1>2, <1>3, <1>4, <1>5, <1>6 DEF Larger

LEMMA TypesHold == MotionSpec => []Types
<1>1. MotionInit => Types
  BY DEF MotionInit, Types, Still, Moves
<1>2. Types /\ [MotionNext]_motionVars => Types'
  <2> SUFFICES ASSUME Types, [MotionNext]_motionVars PROVE Types'
    OBVIOUS
  <2> USE DEF Types
  <2>m. Still \in Moves
    BY DEF Still, Moves
  <2>1. ASSUME NEW a \in {"dx", "dy"}, NEW d \in Deltas, Gather(a, d) PROVE Types'
    <3>1. d \in Int /\ MotionLimit \in Int
      BY MotionAssumption
    <3>2. Clamp(MotionLimit, motion[a] + d) \in Int
      BY <3>1 DEF Clamp, Moves, Axes
    <3>3. motion' \in Moves /\ owed' \in Moves
      BY <2>1, <3>2 DEF Gather, Moves, Axes
    <3> QED
      BY <2>1, <3>3 DEF Gather
  <2>2. CASE Flush
    BY <2>2, <2>m DEF Flush
  <2>3. CASE Submit
    BY <2>3, <2>m, MovesAreMoves DEF Submit, StartMove
  <2>4. CASE MoveRefused
    BY <2>4, <2>m DEF MoveRefused
  <2>5. ASSUME NEW v \in Requests, Request(v) PROVE Types'
    BY <2>5, <2>m, MovesAreMoves, MotionAssumption DEF Request, StartMove
  <2>6. CASE Split
    BY <2>6, MovesAreMoves DEF Split
  <2>7. CASE Sent
    <3>1. reports' \in Nat
      BY <2>7 DEF Sent, Larger
    <3> QED
      BY <2>7, <3>1, <2>m, MovesAreMoves DEF Sent
  <2>8. CASE UNCHANGED motionVars
    BY <2>8 DEF motionVars
  <2> QED
    BY <2>1, <2>2, <2>3, <2>4, <2>5, <2>6, <2>7, <2>8 DEF MotionNext
<1> QED
  BY <1>1, <1>2, PTL DEF MotionSpec

-----------------------------------------------------------------------------
(* THEOREM 1.  The limits of the accumulator hold for what was gathered and  *)
(* for what a flush still has to submit.                                    *)
THEOREM MotionTyping == MotionSpec => []MotionTypeOK
<1>1. MotionInit => Gathered
  BY MotionAssumption DEF MotionInit, Gathered, Still, Abs
<1>2. Types /\ Gathered /\ [MotionNext]_motionVars => Gathered'
  <2> SUFFICES ASSUME Types, Gathered, [MotionNext]_motionVars PROVE Gathered'
    OBVIOUS
  <2>m. /\ MotionLimit \in Nat /\ AxisLimit \in Nat
        /\ motion \in Moves /\ rest \in Moves
    BY MotionAssumption DEF Types
  <2>z. \A a \in Axes : Still[a] = 0 /\ Abs(Still[a]) <= MotionLimit
    BY <2>m DEF Still, Abs
  <2>1. ASSUME NEW b \in {"dx", "dy"}, NEW d \in Deltas, Gather(b, d) PROVE Gathered'
    <3>1. d \in Int
      BY MotionAssumption
    <3>2. Abs(Clamp(MotionLimit, motion[b] + d)) <= MotionLimit
      BY <3>1, <2>m DEF Clamp, Abs, Moves, Axes
    <3>3. rest' = rest /\ \A a \in Axes :
            motion'[a] = IF a = b THEN Clamp(MotionLimit, motion[b] + d) ELSE motion[a]
      BY <2>1, <2>m DEF Gather, Moves
    <3> QED
      BY <3>2, <3>3 DEF Gathered
  <2>2. CASE Flush
    BY <2>2, <2>z DEF Flush, Gathered
  <2>3. CASE Submit
    <3>1. motion' = motion /\ \A a \in Axes : rest'[a] = rest[a] - Clamp(AxisLimit, rest[a])
      BY <2>3 DEF Submit, Minus, MoveOf
    <3>2. \A a \in Axes : rest[a] \in Int /\ Abs(rest[a]) <= MotionLimit
      BY <2>m DEF Gathered, Moves
    <3>3. \A a \in Axes : Abs(rest'[a]) <= MotionLimit
      BY <3>1, <3>2, <2>m DEF Clamp, Abs
    <3> QED
      BY <3>1, <3>3 DEF Gathered
  <2>4. CASE MoveRefused
    BY <2>4, <2>z DEF MoveRefused, Gathered
  <2>5. ASSUME NEW v \in Requests, Request(v) PROVE Gathered'
    BY <2>5 DEF Request, Gathered
  <2>6. CASE Split
    BY <2>6 DEF Split, Gathered
  <2>7. CASE Sent
    BY <2>7 DEF Sent, Gathered
  <2>8. CASE UNCHANGED motionVars
    BY <2>8 DEF motionVars, Gathered
  <2> QED
    BY <2>1, <2>2, <2>3, <2>4, <2>5, <2>6, <2>7, <2>8 DEF MotionNext
<1>3. Types /\ Gathered => MotionTypeOK
  BY DEF Types, Gathered, MotionTypeOK
<1> QED
  BY <1>1, <1>2, <1>3, TypesHold, PTL DEF MotionSpec

LEMMA BetweenHolds == MotionSpec => []Between
<1>1. MotionInit => Between
  BY DEF MotionInit, Between
<1>2. Between /\ [MotionNext]_motionVars => Between'
  BY DEF Between, MotionNext, motionVars, Gather, Flush, Submit, StartMove, MoveRefused, Request, Split, Sent
<1> QED
  BY <1>1, <1>2, PTL DEF MotionSpec

(* THEOREM 2.  No movement is lost or doubled between evdev and the target.  *)
THEOREM NothingLost == MotionSpec => []Conserved
<1>1. MotionInit => Conserved
  BY DEF MotionInit, Conserved, Still
<1>2. Types /\ Between /\ Conserved /\ [MotionNext]_motionVars => Conserved'
  <2> SUFFICES ASSUME Types, Between, Conserved, [MotionNext]_motionVars PROVE Conserved'
    OBVIOUS
  <2>m. \A a \in Axes : /\ motion[a] \in Int /\ rest[a] \in Int /\ left[a] \in Int
                       /\ packed[a] \in Int /\ owed[a] \in Int
    BY DEF Types, Moves
  <2>z. \A a \in Axes : Still[a] = 0
    BY DEF Still
  <2>1. ASSUME NEW b \in {"dx", "dy"}, NEW d \in Deltas, Gather(b, d) PROVE Conserved'
    <3>1. d \in Int /\ MotionLimit \in Int /\ b \in Axes
      BY MotionAssumption DEF Axes
    <3>2. Clamp(MotionLimit, motion[b] + d) \in Int
      BY <3>1, <2>m DEF Clamp
    <3>3. \A a \in Axes :
            /\ motion'[a] = IF a = b THEN Clamp(MotionLimit, motion[b] + d) ELSE motion[a]
            /\ owed'[a] = IF a = b THEN owed[b] - motion[b] + Clamp(MotionLimit, motion[b] + d)
                                  ELSE owed[a]
      BY <2>1 DEF Gather, Types, Moves
    <3>4. rest' = rest /\ left' = left /\ packed' = packed
      BY <2>1 DEF Gather
    <3> QED
      BY <3>1, <3>2, <3>3, <3>4, <2>m DEF Conserved
  <2>2. CASE Flush
    BY <2>2, <2>m, <2>z DEF Flush, Conserved, Between
  <2>3. CASE Submit
    <3>1. \A a \in Axes : MoveOf(rest)[a] \in Int
      BY MovesAreMoves DEF Types, Moves
    <3>2. \A a \in Axes : rest'[a] = rest[a] - MoveOf(rest)[a]
      BY <2>3 DEF Submit, Minus
    <3>3. /\ left' = MoveOf(rest) /\ packed' = Still /\ owed' = owed /\ motion' = motion
          /\ left = Still /\ packed = Still
      BY <2>3 DEF Submit, StartMove, Between
    <3> QED
      BY <3>1, <3>2, <3>3, <2>m, <2>z DEF Conserved
  <2>4. CASE MoveRefused
    BY <2>4, <2>z DEF MoveRefused, Conserved, Between
  <2>5. ASSUME NEW v \in Requests, Request(v) PROVE Conserved'
    <3>1. \A a \in Axes : v[a] \in Int
      BY MotionAssumption DEF Moves
    <3> QED
      BY <2>5, <3>1, <2>z DEF Request, StartMove, Conserved, Between
  <2>6. CASE Split
    <3>1. \A a \in Axes : ReportOf(left)[a] \in Int
      BY MovesAreMoves DEF Types, Moves
    <3>2. \A a \in Axes : /\ packed'[a] = packed[a] + ReportOf(left)[a]
                         /\ left'[a] = left[a] - ReportOf(left)[a]
      BY <2>6 DEF Split, Plus, Minus
    <3> QED
      BY <2>6, <3>1, <3>2, <2>m DEF Split, Conserved
  <2>7. CASE Sent
    <3>1. \A a \in Axes : owed'[a] = owed[a] - packed[a]
      BY <2>7 DEF Sent, Minus
    <3> QED
      BY <2>7, <3>1, <2>m, <2>z DEF Sent, Conserved
  <2>8. CASE UNCHANGED motionVars
    BY <2>8 DEF motionVars, Conserved
  <2> QED
    BY <2>1, <2>2, <2>3, <2>4, <2>5, <2>6, <2>7, <2>8 DEF MotionNext
<1> QED
  BY <1>1, <1>2, TypesHold, BetweenHolds, PTL DEF MotionSpec

-----------------------------------------------------------------------------
(* THEOREM 3.  A move that validation lets through fits in one burst: while  *)
(* something is left of it, a report is left for it.                        *)
LEMMA RoomHolds == MotionSpec => []Room
<1>m. /\ ReportLimit \in Nat /\ ReportLimit > 0 /\ BatchLimit \in Nat /\ BatchLimit > 0
      /\ AxisLimit \in Nat /\ WheelLimit \in Nat
      /\ AxisLimit <= BatchLimit * ReportLimit /\ WheelLimit <= BatchLimit * ReportLimit
  BY MotionAssumption
<1>z. Abs(0) = 0 /\ \A a \in Axes : Still[a] = 0
  BY DEF Abs, Still
<1>t. ASSUME NEW n \in Nat, n <= BatchLimit PROVE 0 <= (BatchLimit - n) * ReportLimit
  BY <1>t, <1>m
<1>1. MotionInit => Room
  BY <1>m, <1>z, <1>t DEF MotionInit, Room
<1>2. ASSUME NEW v \in Moves, Fits(v), StartMove(v) PROVE Room'
  <2>1. \A a \in Axes : v[a] \in Int
    BY DEF Moves
  <2>2. \A a \in Axes : Abs(v[a]) <= BatchLimit * ReportLimit
    <3>1. \A a \in {"dx", "dy"} : Abs(v[a]) <= AxisLimit
      BY <1>2, <2>1, <1>m DEF Fits, Abs, Axes
    <3>2. Abs(v["wheel"]) <= WheelLimit
      BY <1>2, <2>1, <1>m DEF Fits, Abs, Axes
    <3>3. \A a \in Axes : Abs(v[a]) \in Int
      BY <2>1 DEF Abs
    <3>4. BatchLimit * ReportLimit \in Int
      BY <1>m
    <3> QED
      BY <3>1, <3>2, <3>3, <3>4, <1>m DEF Axes
  <2>3. (BatchLimit - 0) * ReportLimit = BatchLimit * ReportLimit
    BY <1>m
  <2> QED
    BY <1>2, <2>2, <2>3, <1>m DEF StartMove, Room
<1>3. Types /\ Between /\ Room /\ [MotionNext]_motionVars => Room'
  <2> SUFFICES ASSUME Types, Between, Room, [MotionNext]_motionVars PROVE Room'
    OBVIOUS
  <2>m. \A a \in Axes : left[a] \in Int
    BY DEF Types, Moves
  <2>r. reports \in Nat /\ reports <= BatchLimit
    BY DEF Types, Room
  <2>1. ASSUME NEW b \in {"dx", "dy"}, NEW d \in Deltas, Gather(b, d) PROVE Room'
    BY <2>1 DEF Gather, Room
  <2>2. CASE Flush
    BY <2>2 DEF Flush, Room
  <2>3. CASE Submit
    BY <2>3, <1>2, MovesAreMoves DEF Submit, Types
  <2>4. CASE MoveRefused
    BY <2>4 DEF MoveRefused, Room
  <2>5. ASSUME NEW v \in Requests, Request(v) PROVE Room'
    BY <2>5, <1>2, MotionAssumption DEF Request
  <2>6. CASE Split
    <3>1. PICK c \in Axes : left[c] # 0
      BY <2>6, MovesAreMoves DEF Split, Types, Moves, Still
    <3>2. Abs(left[c]) \in Nat /\ Abs(left[c]) > 0
          /\ Abs(left[c]) <= (BatchLimit - reports) * ReportLimit
      BY <3>1, <2>m DEF Abs, Room
    <3>3. BatchLimit - reports \in Int
      BY <1>m, <2>r
    <3>4. BatchLimit - reports >= 1
      BY <3>2, <3>3, RoomForOne
    <3>5. (BatchLimit - (reports + 1)) * ReportLimit
            = (BatchLimit - reports) * ReportLimit - ReportLimit
      BY <1>m, <2>r
    <3>6. (BatchLimit - (reports + 1)) * ReportLimit >= 0
      BY <3>4, <1>m, <2>r
    <3>7. \A a \in Axes : left'[a] = left[a] - Clamp(ReportLimit, left[a])
      BY <2>6 DEF Split, Minus, ReportOf
    <3>8. \A a \in Axes : Abs(left[a]) <= (BatchLimit - reports) * ReportLimit
      BY DEF Room
    <3>9. \A a \in Axes : \/ Abs(left'[a]) = 0
                         \/ Abs(left'[a]) = Abs(left[a]) - ReportLimit
      BY <3>7, <2>m, <1>m DEF Clamp, Abs
    <3>a. (BatchLimit - reports) * ReportLimit \in Int /\ \A a \in Axes : Abs(left[a]) \in Int
      BY <1>m, <2>r, <2>m DEF Abs
    <3>b. \A a \in Axes : Abs(left'[a]) <= (BatchLimit - (reports + 1)) * ReportLimit
      BY <3>5, <3>6, <3>8, <3>9, <3>a, <1>m
    <3>c. reports' = reports + 1 /\ phase' = "splitting"
      BY <2>6, <3>4, <2>r, <1>m DEF Split
    <3> QED
      BY <3>b, <3>c, <3>4, <2>r, <1>m DEF Room
  <2>7. CASE Sent
    <3>1. reports' \in Nat /\ reports' <= BatchLimit
      BY <2>7, <2>r, <1>m DEF Sent, Larger
    <3>2. 0 <= (BatchLimit - reports') * ReportLimit
      BY <3>1, <1>t
    <3>3. left' = Still /\ phase' # "raised"
      BY <2>7 DEF Sent
    <3> QED
      BY <3>1, <3>2, <3>3, <1>z DEF Room
  <2>8. CASE UNCHANGED motionVars
    BY <2>8 DEF motionVars, Room
  <2> QED
    BY <2>1, <2>2, <2>3, <2>4, <2>5, <2>6, <2>7, <2>8 DEF MotionNext
<1> QED
  BY <1>1, <1>3, TypesHold, BetweenHolds, PTL DEF MotionSpec

THEOREM BurstsFit == MotionSpec => []BurstFits
<1>1. Room => BurstFits
  BY DEF Room, BurstFits
<1> QED
  BY <1>1, RoomHolds, PTL

-----------------------------------------------------------------------------
(* THEOREM 4.  The stated cost of a move is the number of its reports.       *)
LEMMA LargestSplit ==
  ASSUME NEW v \in Moves, v # Still
  PROVE  /\ Largest(v) \in Nat /\ Largest(v) > 0
         /\ Largest(Minus(v, ReportOf(v))) =
              IF Largest(v) > ReportLimit THEN Largest(v) - ReportLimit ELSE 0
<1>1. ReportLimit \in Nat /\ ReportLimit > 0
  BY MotionAssumption
<1>2. v["dx"] \in Int /\ v["dy"] \in Int /\ v["wheel"] \in Int
  BY DEF Moves, Axes
<1>3. PICK c \in Axes : v[c] # 0
  BY DEF Moves, Still
<1>4. v["dx"] # 0 \/ v["dy"] # 0 \/ v["wheel"] # 0
  BY <1>3 DEF Axes
<1>5. Largest(v) \in Nat /\ Largest(v) > 0
  BY <1>2, <1>4 DEF Largest, Larger, Abs
<1>6. \A a \in Axes : Minus(v, ReportOf(v))[a] = v[a] - Clamp(ReportLimit, v[a])
  BY DEF Minus, ReportOf
<1>7. /\ Minus(v, ReportOf(v))["dx"] = v["dx"] - Clamp(ReportLimit, v["dx"])
      /\ Minus(v, ReportOf(v))["dy"] = v["dy"] - Clamp(ReportLimit, v["dy"])
      /\ Minus(v, ReportOf(v))["wheel"] = v["wheel"] - Clamp(ReportLimit, v["wheel"])
  BY <1>6 DEF Axes
<1>8. ASSUME NEW n \in Int
      PROVE  /\ Abs(n) \in Nat
             /\ Abs(n - Clamp(ReportLimit, n)) =
                  IF Abs(n) > ReportLimit THEN Abs(n) - ReportLimit ELSE 0
  BY <1>1 DEF Clamp, Abs
<1>9. Largest(Minus(v, ReportOf(v))) =
        IF Largest(v) > ReportLimit THEN Largest(v) - ReportLimit ELSE 0
  BY <1>1, <1>2, <1>7, <1>8 DEF Largest, Larger
<1> QED
  BY <1>5, <1>9

LEMMA ExactHolds == MotionSpec => []Exact
<1>s. Largest(Still) = 0 /\ Reports(0) = 0
  <2>1. Largest(Still) = 0
    BY DEF Largest, Larger, Abs, Still, Axes
  <2>2. 1 \in Nat /\ 1 > 0
    OBVIOUS
  <2> QED
    BY <2>1, <2>2, OneLess
<1>1. MotionInit => Exact
  BY DEF MotionInit, Exact
<1>2. ASSUME NEW v \in Moves, StartMove(v) PROVE Exact'
  <2>1. cost' = Larger(1, Reports(Largest(v)))
    BY <1>2 DEF StartMove, ChunkCount, Reports
  <2>2. Reports(Largest(v)) \in Nat
    <3>1. Largest(v) \in Nat
      BY MovesAreMoves
    <3> QED
      BY <3>1, <1>s, OneLess
  <2>3. 0 + Reports(Largest(v)) = Reports(Largest(v))
    BY <2>2
  <2> QED
    BY <1>2, <2>1, <2>3 DEF StartMove, Exact
<1>3. Types /\ Between /\ Room /\ Exact /\ [MotionNext]_motionVars => Exact'
  <2> SUFFICES ASSUME Types, Between, Room, Exact, [MotionNext]_motionVars PROVE Exact'
    OBVIOUS
  <2>1. ASSUME NEW b \in {"dx", "dy"}, NEW d \in Deltas, Gather(b, d) PROVE Exact'
    BY <2>1 DEF Gather, Exact
  <2>2. CASE Flush
    BY <2>2 DEF Flush, Exact
  <2>3. CASE Submit
    BY <2>3, <1>2, MovesAreMoves DEF Submit, Types
  <2>4. CASE MoveRefused
    BY <2>4 DEF MoveRefused, Exact
  <2>5. ASSUME NEW v \in Requests, Request(v) PROVE Exact'
    BY <2>5, <1>2, MotionAssumption DEF Request
  <2>6. CASE Split
    <3>1. left \in Moves /\ left # Still /\ reports \in Nat
      BY <2>6 DEF Split, Types
    <3>2. /\ Largest(left) \in Nat /\ Largest(left) > 0
          /\ Largest(left') = IF Largest(left) > ReportLimit
                              THEN Largest(left) - ReportLimit ELSE 0
      BY <2>6, <3>1, LargestSplit DEF Split
    <3>3. Reports(Largest(left)) \in Nat /\ Reports(Largest(left')) = Reports(Largest(left)) - 1
      <4>1. /\ Reports(Largest(left)) \in Nat
            /\ Largest(left) > ReportLimit =>
                 Reports(Largest(left) - ReportLimit) = Reports(Largest(left)) - 1
            /\ Largest(left) <= ReportLimit => Reports(Largest(left)) = 1
        BY <3>2, OneLess
      <4>2. CASE Largest(left) > ReportLimit
        BY <4>1, <4>2, <3>2
      <4>3. CASE ~(Largest(left) > ReportLimit)
        <5>1. Reports(Largest(left)) = 1
          BY <4>1, <4>3, <3>2, MotionAssumption
        <5>2. Reports(Largest(left')) = 0
          BY <4>3, <3>2, <1>s
        <5> QED
          BY <5>1, <5>2
      <4> QED
        BY <4>2, <4>3
    <3>4. cost = Larger(1, reports + Reports(Largest(left)))
      BY <2>6 DEF Split, Exact
    <3>5. reports + 1 + (Reports(Largest(left)) - 1) = reports + Reports(Largest(left))
      BY <3>1, <3>3
    <3>6. reports' = reports + 1 /\ cost' = cost /\ phase' \notin {"idle", "flushing"}
      BY <2>6 DEF Split
    <3>7. cost' = Larger(1, reports' + Reports(Largest(left')))
      BY <3>3, <3>4, <3>5, <3>6
    <3> QED
      BY <3>6, <3>7 DEF Exact
  <2>7. CASE Sent
    <3>1. cost = Larger(1, reports + Reports(Largest(left))) /\ left = Still
      BY <2>7 DEF Sent, Exact
    <3>2. reports + 0 = reports
      BY DEF Types
    <3>3. cost' = Larger(1, reports)
      BY <2>7, <3>1, <3>2, <1>s DEF Sent
    <3> QED
      BY <2>7, <3>3 DEF Sent, Exact
  <2>8. CASE UNCHANGED motionVars
    BY <2>8 DEF motionVars, Exact
  <2> QED
    BY <2>1, <2>2, <2>3, <2>4, <2>5, <2>6, <2>7, <2>8 DEF MotionNext
<1> QED
  BY <1>1, <1>3, TypesHold, BetweenHolds, RoomHolds, PTL DEF MotionSpec

THEOREM CostIsRight == MotionSpec => []CostIsReports
<1>1. Exact => CostIsReports
  BY DEF Exact, CostIsReports
<1> QED
  BY <1>1, ExactHolds, PTL

(* The three at once. *)
THEOREM ArriveWhole == MotionSpec => []MovesArriveWhole
<1>1. Conserved /\ BurstFits /\ CostIsReports => MovesArriveWhole
  BY DEF MovesArriveWhole
<1> QED
  BY <1>1, NothingLost, BurstsFit, CostIsRight, PTL

-----------------------------------------------------------------------------
(* THEOREM 5.  A burst never carries the pointer past where it was to go.    *)
THEOREM NoOvershoot == MotionSpec => []NeverPast
<1>1. MotionInit => OneWay
  BY DEF MotionInit, OneWay
<1>z. \A a \in Axes : Still[a] = 0
  BY DEF Still
<1>2. Types /\ Between /\ OneWay /\ [MotionNext]_motionVars => OneWay'
  <2> SUFFICES ASSUME Types, Between, OneWay, [MotionNext]_motionVars PROVE OneWay'
    OBVIOUS
  <2>m. \A a \in Axes : rest[a] \in Int /\ left[a] \in Int /\ packed[a] \in Int
                       /\ motion[a] \in Int
    BY DEF Types, Moves
  <2>l. AxisLimit \in Nat /\ ReportLimit \in Nat
    BY MotionAssumption
  <2>1. ASSUME NEW b \in {"dx", "dy"}, NEW d \in Deltas, Gather(b, d) PROVE OneWay'
    BY <2>1 DEF Gather, OneWay
  <2>2. CASE Flush
    BY <2>2, <2>m, <1>z DEF Flush, OneWay, Between
  <2>3. CASE Submit
    <3>1. \A a \in Axes : /\ left'[a] = Clamp(AxisLimit, rest[a])
                         /\ rest'[a] = rest[a] - Clamp(AxisLimit, rest[a])
                         /\ packed'[a] = 0
      BY <2>3, <1>z DEF Submit, StartMove, Minus, MoveOf
    <3>2. \A a \in Axes :
            \/ packed'[a] >= 0 /\ left'[a] >= 0 /\ rest'[a] >= 0
            \/ packed'[a] <= 0 /\ left'[a] <= 0 /\ rest'[a] <= 0
      BY <3>1, <2>m, <2>l DEF Clamp
    <3> QED
      BY <3>2 DEF OneWay
  <2>4. CASE MoveRefused
    BY <2>4 DEF MoveRefused, OneWay
  <2>5. ASSUME NEW v \in Requests, Request(v) PROVE OneWay'
    <3>1. \A a \in Axes : v[a] \in Int
      BY MotionAssumption DEF Moves
    <3> QED
      BY <2>5, <3>1, <1>z DEF Request, StartMove, OneWay, Between
  <2>6. CASE Split
    <3>1. \A a \in Axes : /\ left'[a] = left[a] - Clamp(ReportLimit, left[a])
                         /\ packed'[a] = packed[a] + Clamp(ReportLimit, left[a])
      BY <2>6 DEF Split, Plus, Minus, ReportOf
    <3>2. rest' = rest /\ \A a \in Axes :
            \/ packed[a] >= 0 /\ left[a] >= 0 /\ rest[a] >= 0
            \/ packed[a] <= 0 /\ left[a] <= 0 /\ rest[a] <= 0
      BY <2>6 DEF Split, OneWay
    <3>3. \A a \in Axes :
            \/ packed'[a] >= 0 /\ left'[a] >= 0 /\ rest'[a] >= 0
            \/ packed'[a] <= 0 /\ left'[a] <= 0 /\ rest'[a] <= 0
      BY <3>1, <3>2, <2>m, <2>l DEF Clamp
    <3> QED
      BY <3>3 DEF OneWay
  <2>7. CASE Sent
    <3>1. left' = left /\ rest' = rest /\ packed' = Still
      BY <2>7 DEF Sent
    <3> QED
      BY <2>7, <3>1, <2>m, <1>z DEF Sent, OneWay
  <2>8. CASE UNCHANGED motionVars
    BY <2>8 DEF motionVars, OneWay
  <2> QED
    BY <2>1, <2>2, <2>3, <2>4, <2>5, <2>6, <2>7, <2>8 DEF MotionNext
<1>3. Types /\ Between /\ OneWay => NeverPast
  <2> SUFFICES ASSUME Types, Between, OneWay, NEW a \in Axes
               PROVE /\ packed[a] > 0 => motion[a] + rest[a] + left[a] >= 0
                     /\ packed[a] < 0 => motion[a] + rest[a] + left[a] <= 0
    BY DEF NeverPast
  <2>1. rest[a] \in Int /\ left[a] \in Int /\ packed[a] \in Int
    BY DEF Types, Moves
  <2>2. CASE phase = "idle"
    BY <2>2, <1>z DEF Between
  <2>3. CASE phase # "idle"
    BY <2>3, <2>1, <1>z DEF Between, OneWay
  <2> QED
    BY <2>2, <2>3
<1> QED
  BY <1>1, <1>2, <1>3, TypesHold, BetweenHolds, PTL DEF MotionSpec
=============================================================================

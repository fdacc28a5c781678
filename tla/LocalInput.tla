----------------------------- MODULE LocalInput -----------------------------
(***************************************************************************)
(* The built-in keyboard and trackball (local_input.py).  Two readers take  *)
(* evdev records in batches and feed them one at a time under _event_lock;  *)
(* every handler runs under that lock, so a handler is one step here, with  *)
(* all the commands it submits.  GatewayControl has what a submission and a *)
(* release meet in the gateway; here they are accepted or not.              *)
(*                                                                         *)
(* Keys and buttons have disjoint names and share one set each of physical  *)
(* and forwarded ones.  The order within a flushed chord is left out.       *)
(***************************************************************************)
EXTENDS Integers, Sequences, FiniteSets, SequencesExt

CONSTANTS
  Keys, Buttons,
  Chord,          \* emergency_chord
  ReadEvents,     \* _READ_EVENTS
  MaxEvents,      \* bound: what the operator's hands do
  MaxArms,        \* bound: how often the controls are armed
  MaxFails        \* bound: refused commands, releases not confirmed, and
                  \* devices that are not grabbed, drained or given back

Kinds == {"keyboard", "pointer"}
Names == Keys \cup Buttons

ASSUME LocalAssumption ==
  /\ Keys \cap Buttons = {}
  /\ Chord \subseteq Keys /\ Cardinality(Chord) \in 2..4   \* config.py
  /\ ReadEvents \in Nat \ {0}
  /\ MaxEvents \in Nat /\ MaxArms \in Nat /\ MaxFails \in Nat

VARIABLES
  hands,     \* what the operator really holds down
  queue,     \* records the kernel has for each open device
  batch,     \* records read and not yet fed
  fds, grabbed,
  exclusive, \* devices whose records the kernel gives to the gateway alone
  stuck,     \* those of them it failed to give back (for the properties only)
  armed,
  physical, forwarded, pending,
  moved,     \* whether _motion_x or _motion_y is not 0
  idle,      \* whether _idle_task is waiting
  target,    \* what is down at the target
  lease,     \* whether the gateway holds a lease for the built-in controls
  arms, events, fails

device == <<fds, grabbed, exclusive, stuck, armed>>
input  == <<physical, forwarded, pending, moved, idle>>
remote == <<target, lease>>
bounds == <<arms, events, fails>>
vars   == <<hands, queue, batch, device, input, remote, bounds>>

Init ==
  /\ hands = {} /\ queue = [k \in Kinds |-> <<>>] /\ batch = [k \in Kinds |-> <<>>]
  /\ fds = {} /\ grabbed = {} /\ exclusive = {} /\ stuck = {} /\ armed = FALSE
  /\ physical = {} /\ forwarded = {} /\ pending = {} /\ moved = FALSE /\ idle = FALSE
  /\ target = {} /\ lease = FALSE
  /\ arms = 0 /\ events = 0 /\ fails = 0

Of(name) == IF name \in Keys THEN "keyboard" ELSE "pointer"

-----------------------------------------------------------------------------
(* The operator.  A record remembers, for the properties only, after how many
   arms it was made. *)
Record(what, name) == [what |-> what, name |-> name, era |-> arms]

Delivered(kind, record) ==
  queue' = IF kind \in fds THEN [queue EXCEPT ![kind] = Append(@, record)] ELSE queue

Hand ==
  /\ events < MaxEvents /\ events' = events + 1
  /\ \/ \E n \in Names \ hands :
          hands' = hands \cup {n} /\ Delivered(Of(n), Record("down", n))
     \/ \E n \in hands :
          hands' = hands \ {n} /\ Delivered(Of(n), Record("up", n))
     \/ hands' = hands /\ Delivered("pointer", Record("motion", "-"))
     \/ hands' = hands /\ Delivered("pointer", Record("report", "-"))
  /\ UNCHANGED <<batch, device, input, remote, arms, fails>>

-----------------------------------------------------------------------------
(* _reset_input_state_locked *)
ResetInput ==
  /\ physical' = {} /\ forwarded' = {} /\ pending' = {}
  /\ moved' = FALSE /\ idle' = FALSE

(* _release_control: confirmed, when there is nothing to release or it was
   released; or not. *)
Released ==
  \/ ~lease /\ UNCHANGED remote
  \/ lease /\ lease' = FALSE /\ target' = {}

ReleaseUnconfirmed == lease /\ lease' = FALSE /\ UNCHANGED target

(* One at a time, and each may fail. *)
Fail(n) == fails' = fails + n /\ fails' <= MaxFails

GivesBack(held, kept, open) ==
  /\ kept \subseteq held
  /\ exclusive' = ((exclusive \ held) \cup kept) \cap open
  /\ stuck' = (stuck \cup kept) \cap open

(* _disarm_locked: what it has grabbed is given back, or forgotten.  The
   kernel itself gives back what is not among the open devices any more. *)
Ungrabbed(open, failed) ==
  /\ armed' = FALSE /\ grabbed' = {} /\ fds' = open /\ ResetInput
  /\ \E kept \in SUBSET grabbed :
       GivesBack(grabbed, kept, open) /\ Fail(failed + Cardinality(kept))

DisarmLocked(open) ==
  \/ Released /\ Ungrabbed(open, 0)
  \/ ReleaseUnconfirmed /\ Ungrabbed(open, 1)

(* A command is refused: whatever of it got through, the mode is left. *)
Refused(downs) ==
  /\ Ungrabbed(fds, 1)
  /\ lease' = FALSE
  /\ \/ target' = {}
     \/ \E part \in SUBSET downs : target' = target \cup part

(* _schedule_idle_release_locked, over the state the handler leaves. *)
NothingHeld(held, held_back, touched) ==
  held = {} /\ held_back = {} /\ touched \cap Buttons = {}

(* The handler's commands are accepted. *)
Accepted(held, held_back, touched, down) ==
  /\ physical' = touched /\ forwarded' = held /\ pending' = held_back
  /\ idle' = NothingHeld(held, held_back, touched)
  /\ target' = down /\ lease' = TRUE
  /\ UNCHANGED <<moved, device, fails>>

Ignored(touched) ==
  /\ physical' = touched
  /\ UNCHANGED <<forwarded, pending, moved, idle, device, remote, fails>>

(* Defect: only the members that are held back count. *)
WholeChordBuffered(name) == Chord \subseteq pending \cup {name}
WholeChord(name)         == Chord \subseteq physical \cup {name}

(* _handle_keyboard_locked, value 1 *)
ChordKeyDown(name) ==
  /\ name \in Chord \ physical
  /\ \/ WholeChord(name) /\ DisarmLocked(fds)
     \/ /\ ~WholeChord(name)
        /\ physical' = physical \cup {name}
        /\ pending' = pending \cup ({name} \ forwarded)
        /\ UNCHANGED <<forwarded, moved, idle, device, remote, fails>>

KeyDown(name) ==
  /\ name \in Keys \ (Chord \cup physical)
  /\ LET downs == pending \cup {name} IN
     \/ Accepted(forwarded \cup downs, {}, physical \cup {name}, target \cup downs)
     \/ Refused(downs)

(* value 0: a key held back goes down and up now. *)
KeyUp(name) ==
  /\ name \in Keys
  /\ \/ /\ name \in pending
        /\ \/ Accepted(forwarded, pending \ {name}, physical \ {name}, target \ {name})
           \/ Refused({name})
     \/ /\ name \in forwarded
        /\ \/ Accepted(forwarded \ {name}, pending, physical \ {name}, target \ {name})
           \/ Refused({})
     \/ name \notin pending \cup forwarded /\ Ignored(physical \ {name})

(* _handle_pointer_locked *)
ButtonDown(name) ==
  /\ name \in Buttons \ physical
  /\ \/ Accepted(forwarded \cup {name}, pending, physical \cup {name}, target \cup {name})
     \/ Refused({name})

(* Defect: a release is taken for granted. *)
ButtonUpQuiet(name) ==
  /\ name \in Buttons \cap (physical \cup forwarded)
  /\ physical' = physical \ {name} /\ forwarded' = forwarded \ {name}
  /\ idle' = NothingHeld(forwarded', pending, physical')
  /\ UNCHANGED <<pending, moved, device, remote, fails>>

ButtonUp(name) ==
  /\ name \in Buttons \cap (physical \cup forwarded)
  /\ \/ Accepted(forwarded \ {name}, pending, physical \ {name}, target \ {name})
     \/ Refused({})

RepeatedEdge(record) ==
  /\ \/ record.what = "down" /\ record.name \in physical
     \/ record.what = "up" /\ record.name \in Buttons \ (physical \cup forwarded)
  /\ UNCHANGED <<device, input, remote, fails>>

Motion == moved' = TRUE /\ UNCHANGED <<physical, forwarded, pending, idle, device, remote, fails>>

(* Defect: moving the pointer does not schedule the release. *)
ReportUnscheduled ==
  \/ /\ moved' = FALSE
     /\ IF moved THEN lease' = TRUE ELSE UNCHANGED lease
     /\ UNCHANGED <<physical, forwarded, pending, idle, device, target, fails>>
  \/ moved /\ Refused({})

(* _flush_motion_locked; an empty report schedules the release all the same. *)
Report ==
  \/ /\ moved' = FALSE
     /\ IF moved THEN lease' = TRUE ELSE UNCHANGED lease
     /\ idle' = NothingHeld(forwarded, pending, physical)
     /\ UNCHANGED <<physical, forwarded, pending, device, target, fails>>
  \/ moved /\ Refused({})

Handle(record) ==
  \/ /\ record.what = "down"
     /\ ChordKeyDown(record.name) \/ KeyDown(record.name) \/ ButtonDown(record.name)
  \/ record.what = "up" /\ (KeyUp(record.name) \/ ButtonUp(record.name))
  \/ RepeatedEdge(record)
  \/ record.what = "motion" /\ Motion
  \/ record.what = "report" /\ Report

-----------------------------------------------------------------------------
(* Defect: what does not fit a batch is dropped with it. *)
RemainderLost(records, n) == <<>>
Remainder(records, n)     == SubSeq(records, n + 1, Len(records))

(* _read_loop: a batch read while disarmed is dropped. *)
Readable(kind) == kind \in fds /\ batch[kind] = <<>> /\ queue[kind] # <<>>

Read(kind) ==
  /\ Readable(kind)
  /\ LET n == IF Len(queue[kind]) < ReadEvents THEN Len(queue[kind]) ELSE ReadEvents IN
     /\ batch' = [batch EXCEPT ![kind] =
                    IF armed THEN SubSeq(queue[kind], 1, n) ELSE <<>>]
     /\ queue' = [queue EXCEPT ![kind] = Remainder(@, n)]
  /\ UNCHANGED <<hands, device, input, remote, bounds>>

(* feed_event *)
Feed(kind) ==
  /\ batch[kind] # <<>>
  /\ batch' = [batch EXCEPT ![kind] = Tail(@)]
  /\ \/ armed /\ Handle(Head(batch[kind]))
     \/ ~armed /\ UNCHANGED <<device, input, remote, fails>>
  /\ UNCHANGED <<hands, queue, arms, events>>

(* _supervise_device: open, and lose. *)
OpenDevice(kind) ==
  /\ kind \notin fds
  /\ fds' = fds \cup {kind} /\ queue' = [queue EXCEPT ![kind] = <<>>]
  /\ UNCHANGED <<hands, batch, grabbed, exclusive, stuck, armed, input, remote, bounds>>

LostDisarm(open) ==
  IF armed THEN DisarmLocked(open) ELSE Ungrabbed(open, 0) /\ UNCHANGED remote

LoseDevice(kind) ==
  /\ kind \in fds /\ batch[kind] = <<>>
  /\ LostDisarm(fds \ {kind})
  /\ queue' = [queue EXCEPT ![kind] = <<>>]
  /\ UNCHANGED <<hands, batch, arms, events>>

(* arm: both devices are grabbed and then drained.  The gateway has settled
   what an earlier lease left behind (GatewayControl!ArmBody).  The kernel
   refuses a device that is still grabbed. *)
Arming == ~armed /\ fds = Kinds /\ target = {}

Arm ==
  /\ Arming /\ exclusive = {}
  /\ arms < MaxArms /\ arms' = arms + 1
  /\ armed' = TRUE /\ grabbed' = Kinds /\ exclusive' = Kinds
  /\ queue' = [k \in Kinds |-> <<>>]
  /\ ResetInput
  /\ UNCHANGED <<hands, batch, fds, stuck, remote, events, fails>>

(* Defect: what is grabbed already is left so. *)
LeftGrabbed(got, kept) == kept = {} /\ exclusive' = exclusive \cup got /\ UNCHANGED stuck

RolledBack(got, kept) == GivesBack(got, kept, fds)

(* The first or the second device is not grabbed, or one not drained: what is
   grabbed so far is given back. *)
ArmFails ==
  /\ Arming
  /\ \E got \in {{}, {"keyboard"}, Kinds} : \E kept \in SUBSET got :
       LET next == IF got = {} THEN {"keyboard"} ELSE Kinds \ got
           busy == next \cap exclusive # {}
       IN /\ got \cap exclusive = {}
          /\ Fail(Cardinality(kept) + IF busy THEN 0 ELSE 1)
          /\ RolledBack(got, kept)
          /\ \/ UNCHANGED queue
             \/ got = Kinds /\ queue' = [queue EXCEPT !["keyboard"] = <<>>]
  /\ UNCHANGED <<hands, batch, fds, grabbed, armed, input, remote, arms, events>>

Disarm ==
  /\ armed /\ DisarmLocked(fds)
  /\ UNCHANGED <<hands, queue, batch, arms, events>>

(* _release_after_idle *)
Slept == idle' = FALSE /\ UNCHANGED <<physical, forwarded, pending, moved, device, fails>>

IdleFires ==
  /\ idle
  /\ \/ /\ NothingHeld(forwarded, pending, physical)
        /\ \/ Released /\ Slept
           \/ ReleaseUnconfirmed /\ Ungrabbed(fds, 1)
     \/ ~NothingHeld(forwarded, pending, physical) /\ Slept /\ UNCHANGED remote
  /\ UNCHANGED <<hands, queue, batch, arms, events>>

(* The gateway: the lease runs out or is ended, and what it left is released. *)
LeaseEnds ==
  /\ lease /\ lease' = FALSE
  /\ UNCHANGED <<hands, queue, batch, device, input, target, bounds>>

GatewayReleases ==
  /\ ~lease /\ target # {} /\ target' = {}
  /\ UNCHANGED <<hands, queue, batch, device, input, lease, bounds>>

Next ==
  \/ Hand \/ Arm \/ ArmFails \/ Disarm \/ IdleFires \/ LeaseEnds \/ GatewayReleases
  \/ \E kind \in Kinds : Read(kind) \/ Feed(kind) \/ OpenDevice(kind) \/ LoseDevice(kind)

Spec == Init /\ [][Next]_vars

(* The readers and the idle task run; the watchdog of the gateway releases. *)
FairSpec ==
  /\ Spec
  /\ \A kind \in Kinds : WF_vars(Read(kind)) /\ WF_vars(Feed(kind))
  /\ WF_vars(IdleFires) /\ WF_vars(GatewayReleases)

-----------------------------------------------------------------------------
(* Properties. *)

(* "Exclusively grab both controls; never arm only half the appliance"
   (local_input.py:312): while armed both devices are open, grabbed and out of
   everybody else's reach.  While not, the manager has none grabbed, and the
   kernel holds none back but one that it refused to give back: an arm that
   fails half way, a command that is refused or a device that is lost leaves
   nobody without a keyboard. *)
AllOrNothing ==
  IF armed THEN fds = Kinds /\ grabbed = Kinds /\ exclusive = Kinds
  ELSE grabbed = {} /\ exclusive \subseteq stuck

(* Every variable stays in its type; only open devices are grabbed. *)
Records == [what : {"down", "up", "motion", "report"}, name : Names \cup {"-"},
            era : 0..MaxArms]
TypeOK ==
  /\ hands \subseteq Names /\ physical \subseteq Names /\ forwarded \subseteq Names
  /\ pending \subseteq Chord /\ target \subseteq Names
  /\ fds \subseteq Kinds /\ grabbed \subseteq fds /\ exclusive \cup stuck \subseteq fds
  /\ armed \in BOOLEAN /\ moved \in BOOLEAN /\ idle \in BOOLEAN /\ lease \in BOOLEAN
  /\ queue \in [Kinds -> Seq(Records)] /\ batch \in [Kinds -> Seq(Records)]
  /\ arms \in 0..MaxArms /\ events \in 0..MaxEvents /\ fails \in 0..MaxFails

(* What is down at the target while armed has been forwarded and is, as far as
   the manager has heard, still held: so its release will be forwarded too. *)
DownIsHeld ==
  /\ armed => target \subseteq forwarded
  /\ forwarded \subseteq physical /\ pending \subseteq physical \ forwarded

(* The whole emergency chord is never down at the target. *)
ChordNeverWhole == ~(Chord \subseteq target)

(* While the built-in controls hold the lease and touch nothing, the idle
   release is on its way. *)
LeaseOnItsWayBack ==
  armed /\ lease /\ NothingHeld(forwarded, pending, physical) => idle

(* A key the operator lets go of comes up at the target, whether or not its
   record survives the batches, the devices and a refused command - unless a
   batch was carried over into another arming (NothingFromBefore): then the key
   can stay down, its release having been drained. *)
NothingCarriedOver ==
  \A kind \in Kinds : \A i \in DOMAIN batch[kind] : batch[kind][i].era = arms

LetGoWhenReleased ==
  []NothingCarriedOver =>
    \A n \in Names : n \in target /\ n \notin hands ~> n \notin target \/ n \in hands

(* An event made before the controls were armed is not acted on after. *)
NothingFromBefore ==
  [][\A kind \in Kinds :
       /\ batch[kind] # <<>> /\ batch'[kind] = Tail(batch[kind])
       /\ Head(batch[kind]).era < arms
       => UNCHANGED <<target, forwarded>>]_vars

(* When the chord disarms the controls, none of it has reached the target. *)
ChordStaysHome ==
  [][\A n \in Chord :
       /\ armed /\ ~armed'
       /\ batch["keyboard"] # <<>> /\ batch'["keyboard"] = Tail(batch["keyboard"])
       /\ Head(batch["keyboard"]).what = "down" /\ Head(batch["keyboard"]).name = n
       /\ Chord \subseteq physical \cup {n}
       => target \cap Chord = {}]_vars
=============================================================================

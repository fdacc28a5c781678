------------------------ MODULE GatewayControlProofs ------------------------
(***************************************************************************)
(* Theorems about GatewayControl, for every number of requests, readers and  *)
(* leases and whatever the clients call.                                    *)
(***************************************************************************)
EXTENDS GatewayControl, TLAPS

(* A coroutine sends release_all with control_gate held. *)
AtWork(p) == co[p].pc \in {"send", "wire"} /\ co[p].why \in {"drain", "final"}
Arming(p) == co[p].pc = "armevent"
Sends(p)  == co[p].pc \in {"send", "wire"} /\ co[p].why = "input"

Presenting == {"renew", "release", "input"}
OfRequests == Presenting \cup {"switch"}

(* What a coroutine remembers fits what it does. *)
Shape(p) ==
  /\ p \notin Requests => co[p].task = None
  /\ co[p].sect = "submit" => p \in Readers
  /\ co[p].sect \in OfRequests => co[p].task = co[p].sect
  /\ co[p].pc = "switching" => co[p].sect = "switch"
  /\ co[p].task \in Presenting => co[p].lid \in (1..issued) \ localIds
  /\ co[p].pc \in {"send", "wire"} => AtWork(p) \/ Sends(p)
  /\ AtWork(p) => co[p].job = "release"
  /\ Sends(p) => co[p].lid # NoLease /\ p \in Requests \cup Readers

(* Who needs a lock has it. *)
GateHeld(p)   == AtWork(p) \/ Arming(p) => Holds(gate, p)
EventsHeld(p) ==
  co[p].pc \in {"gate", "send", "wire"} /\ (p \in Readers \/ co[p].sect = "localrelease")
  => Holds(events, p)

(* What a coroutine at work may rely on. *)
Relies(p) ==
  /\ AtWork(p) => lease.id = NoLease /\ ~lease.owed
  /\ AtWork(p) /\ co[p].why = "drain" /\ co[p].sect \in GuardedByMode => ~switching
  /\ Arming(p) => ~switching /\ lease.id \in localIds \cup {NoLease}
  /\ Sends(p) /\ co[p].pc = "send" /\ p \in fresh
       => lease.id = co[p].lid \/ (lease.id = NoLease /\ lease.owed)

(* The exchange on the wire. *)
OnWire(p) ==
  co[p].pc = "wire" =>
    /\ wire = {p}
    /\ AtWork(p) /\ line \in Commands => line.eff = "release"
    /\ AtWork(p) /\ line = Ack => held = {}

LeaseKnown ==
  /\ use \in Uses
  /\ lease.owed => lease.id = NoLease
  /\ lease.id <= issued /\ localIds \subseteq 1..issued
  /\ localLease \in localIds \cup {NoLease}
  /\ LocalLeaseKnown

(* Input of lease i is down, or on its way, only while this is so. *)
OnRecord(i) == lease.id = i \/ lease.owed \/ \E p \in Procs : AtWork(p)

InputKnown ==
  /\ held \subseteq LeaseIds
  /\ \A i \in held : OnRecord(i)
  /\ line \in Commands /\ line.eff = "down" => line.lease \in LeaseIds /\ OnRecord(line.lease)

Coherent(p) == Shape(p) /\ GateHeld(p) /\ EventsHeld(p) /\ Relies(p) /\ OnWire(p)

IInv ==
  /\ TypeOK
  /\ \A p \in Procs : Coherent(p)
  /\ LeaseKnown /\ InputKnown
  /\ ArmedExclusive /\ EyesBeforeHands

-----------------------------------------------------------------------------
(* The lease, seen through the clock. *)

SameLease    == lease'.id = lease.id /\ lease'.owed = lease.owed
ExpiredLease == lease'.id = NoLease /\ lease'.owed

LEMMA LeaseFacts ==
  ASSUME NEW L \in LeaseState, L.owed => L.id = NoLease, NEW c \in Clock(L)
  PROVE  /\ c \in LeaseState /\ c.id = L.id /\ c.owed = L.owed
         /\ TransitionExpired(c) \in LeaseState
         /\ \/ TransitionExpired(c) = c
            \/ TransitionExpired(c).id = NoLease /\ TransitionExpired(c).owed
         /\ Consumed(c) \in LeaseState /\ ~Consumed(c).owed
         /\ ReleaseOwed(c) => Consumed(c).id = NoLease
         /\ Renewed(c) \in LeaseState /\ Renewed(c).id = L.id /\ Renewed(c).owed = L.owed
         /\ Released(c) \in LeaseState /\ Released(c).id = NoLease /\ Released(c).owed = L.owed
         /\ ~ReleaseOwed(L) => ~L.owed
         /\ ~ClaimBusy(c) /\ ~ClaimOwed(c) => L.id = NoLease /\ ~L.owed
         /\ \A i : Valid(c, i) => i # NoLease /\ L.id = i /\ ~L.owed
<1> USE DEF LeaseState, NoLease, Lapsed, Clock, TransitionExpired
<1>1. c \in LeaseState /\ c.id = L.id /\ c.owed = L.owed
  <2>1. c = L \/ c = [id |-> L.id, lapsed |-> TRUE, owed |-> L.owed]
    OBVIOUS
  <2>2. CASE c = L
    BY <2>2
  <2>3. CASE c = [id |-> L.id, lapsed |-> TRUE, owed |-> L.owed]
    <3>1. L.id \in LeaseIds \cup {0} /\ L.owed \in BOOLEAN
      OBVIOUS
    <3>2. c.id = L.id /\ c.owed = L.owed
      BY <2>3
    <3>3. c \in LeaseState
      BY <2>3, <3>1
    <3> QED
      BY <3>2, <3>3
  <2> QED
    BY <2>1, <2>2, <2>3
<1>2. /\ TransitionExpired(c) \in LeaseState
      /\ \/ TransitionExpired(c) = c
         \/ TransitionExpired(c).id = NoLease /\ TransitionExpired(c).owed
  BY <1>1
<1>3. /\ Consumed(c) \in LeaseState /\ ~Consumed(c).owed
      /\ ReleaseOwed(c) => Consumed(c).id = NoLease
  BY <1>1 DEF Consumed, ReleaseOwed
<1>4. /\ Renewed(c) \in LeaseState /\ Renewed(c).id = L.id /\ Renewed(c).owed = L.owed
      /\ Released(c) \in LeaseState /\ Released(c).id = NoLease /\ Released(c).owed = L.owed
  BY <1>1 DEF Renewed, Released
<1>5. ~ReleaseOwed(L) => ~L.owed
  BY DEF ReleaseOwed
<1>6. ~ClaimBusy(c) /\ ~ClaimOwed(c) => L.id = NoLease /\ ~L.owed
  BY <1>1 DEF ClaimBusy, ClaimOwed
<1>7. \A i : Valid(c, i) => i # NoLease /\ L.id = i /\ ~L.owed
  BY <1>1 DEF Valid
<1> QED
  BY <1>1, <1>2, <1>3, <1>4, <1>5, <1>6, <1>7

-----------------------------------------------------------------------------
(* What one coroutine does to its own record. *)

Turned(p, a, t, s, w, i, e) ==
  /\ co' \in [Procs -> Coroutine]
  /\ \A q \in Procs \ {p} : co'[q] = co[q]
  /\ co'[p].pc = a /\ co'[p].task = t /\ co'[p].sect = s
  /\ co'[p].why = w /\ co'[p].lid = i /\ co'[p].job = e

LEMMA SleepDoes ==
  ASSUME co \in [Procs -> Coroutine], NEW p \in Procs, Sleep(p)
  PROVE  Turned(p, "idle", None, None, None, NoLease, "up")
  BY DEF Sleep, Asleep, Turned, Coroutine, Labels, Sections, Reasons, Effects

LEMMA JoinGateDoes ==
  ASSUME co \in [Procs -> Coroutine], NEW p \in Procs, NEW s \in Sections,
         NEW g \in Seq(Procs), JoinGate(p, s, g)
  PROVE  /\ Turned(p, "gate", co[p].task, s, None, co[p].lid, co[p].job)
         /\ gate' = Append(g, p) /\ gate' \in Seq(Procs)
<1>1. Turned(p, "gate", co[p].task, s, None, co[p].lid, co[p].job)
  BY DEF JoinGate, Turned, Coroutine, Labels, Reasons
<1>2. gate' = Append(g, p) /\ gate' \in Seq(Procs)
  BY DEF JoinGate
<1> QED
  BY <1>1, <1>2

LEMMA StartReleaseDoes ==
  ASSUME co \in [Procs -> Coroutine], NEW p \in Procs, NEW w \in Reasons, StartRelease(p, w)
  PROVE  /\ Turned(p, "send", co[p].task, co[p].sect, w, co[p].lid, "release")
         /\ fresh' = {p} /\ UNCHANGED <<gate, events, armed, forwarded, switching>>
  BY DEF StartRelease, Turned, Coroutine, Labels, Effects, localVars

LEMMA SendInputDoes ==
  ASSUME co \in [Procs -> Coroutine], NEW p \in Procs, NEW i \in LeaseIds \cup {NoLease},
         SendInput(p, i)
  PROVE  /\ \E e \in Effects : Turned(p, "send", co[p].task, co[p].sect, "input", i, e)
         /\ fresh' = fresh \cup {p} /\ gate' = Tail(gate)
         /\ UNCHANGED <<events, armed, forwarded, switching>>
<1>1. PICK e \in {"down", "up"} :
        co' = [co EXCEPT ![p].pc = "send", ![p].why = "input", ![p].lid = i, ![p].job = e]
  BY DEF SendInput
<1>2. Turned(p, "send", co[p].task, co[p].sect, "input", i, e)
  <2>1. "send" \in Labels /\ "input" \in Reasons /\ e \in Effects
    BY DEF Labels, Reasons, Effects
  <2> QED
    BY <1>1, <2>1 DEF Turned, Coroutine
<1> QED
  BY <1>2 DEF SendInput, Effects, localVars

-----------------------------------------------------------------------------
(* What a step of p leaves of the other coroutines. *)

Others(p) == Procs \ {p}
Alone(p)  == \A q \in Others(p) : ~AtWork(q) /\ ~Arming(q)

SameIds  == UNCHANGED <<issued, localIds>>
Granting ==
  /\ lease.id = NoLease /\ ~lease.owed /\ issued' = issued + 1
  /\ localIds' \subseteq localIds \cup {issued + 1}

(* Only who is alone with control_gate changes what the others rely on. *)
LeaseTurn(p) ==
  \/ SameLease /\ SameIds /\ UNCHANGED switching
  \/ Alone(p) /\ SameIds /\ (SameLease \/ ExpiredLease)
  \/ Alone(p) /\ SameIds /\ fresh' \subseteq {p}
  \/ Alone(p) /\ Granting

WireTurn(p) == wire \subseteq {p} \/ UNCHANGED <<wire, line, held>>

LEMMA OthersKept ==
  ASSUME IInv, NEW p \in Procs, NEW q \in Others(p), co'[q] = co[q],
         fresh' \subseteq fresh \cup {p}, LeaseTurn(p), WireTurn(p)
  PROVE  Shape(q)' /\ Relies(q)' /\ OnWire(q)'
<1> USE DEF Others
<1>1. q \in Procs /\ q # p /\ Shape(q) /\ Relies(q) /\ OnWire(q)
  BY DEF IInv, Coherent
<1>2. /\ AtWork(q)' <=> AtWork(q)
      /\ Sends(q)' <=> Sends(q)
      /\ Arming(q)' <=> Arming(q)
  BY DEF AtWork, Sends, Arming
<1>3. Shape(q)'
  <2>1. \A i \in (1..issued) \ localIds : i \in (1..issued') \ localIds'
    BY DEF LeaseTurn, SameIds, Granting, IInv, TypeOK
  <2> QED
    BY <1>1, <1>2, <2>1 DEF Shape
<1>4. Relies(q)'
  <2>1. q \in fresh' => q \in fresh /\ ~(fresh' \subseteq {p})
    BY <1>1
  <2>2. CASE SameLease /\ SameIds /\ UNCHANGED switching
    BY <1>1, <1>2, <2>1, <2>2 DEF Relies, SameLease, SameIds
  <2>3. CASE Alone(p) /\ (SameLease \/ ExpiredLease \/ fresh' \subseteq {p} \/ Granting)
    <3>1. ~AtWork(q)' /\ ~Arming(q)'
      BY <1>2, <2>3 DEF Alone
    <3>2. Sends(q) /\ co[q].pc = "send" /\ q \in fresh'
          => lease'.id = co[q].lid \/ (lease'.id = NoLease /\ lease'.owed)
      BY <1>1, <2>1, <2>3 DEF Relies, SameLease, ExpiredLease, Granting, Shape
    <3> QED
      BY <1>2, <3>1, <3>2 DEF Relies
  <2> QED
    BY <2>2, <2>3 DEF LeaseTurn
<1>5. OnWire(q)'
  BY <1>1, <1>2 DEF WireTurn, OnWire
<1> QED
  BY <1>3, <1>4, <1>5

LEMMA TurnKeeps ==
  ASSUME IInv, NEW p \in Procs, TypeOK',
         \A q \in Others(p) : co'[q] = co[q] /\ GateHeld(q)' /\ EventsHeld(q)',
         fresh' \subseteq fresh \cup {p}, LeaseTurn(p), WireTurn(p), Coherent(p)',
         LeaseKnown', InputKnown', ArmedExclusive', EyesBeforeHands'
  PROVE  IInv'
<1>1. ASSUME NEW q \in Procs PROVE Coherent(q)'
  <2>1. CASE q = p
    BY <2>1
  <2>2. CASE q \in Others(p)
    BY <2>2, OthersKept DEF Coherent
  <2> QED
    BY <2>1, <2>2 DEF Others
<1> QED
  BY <1>1 DEF IInv

-----------------------------------------------------------------------------
(* The end of a section: p lets control_gate go, or queues for it once more,  *)
(* and keeps the event lock only while it still has to give the lease back.   *)

Resting == {"idle", "gate", "reply", "event", "switching"}

Quiet(p) ==
  /\ co' \in [Procs -> Coroutine] /\ gate' \in Seq(Procs) /\ events' \in Seq(Procs)
  /\ \A q \in Others(p) : co'[q] = co[q] /\ EventsHeld(q)'
  /\ co'[p].pc \in Resting /\ EventsHeld(p)'
  /\ fresh' \subseteq fresh
  /\ {armed', forwarded'} \subseteq BOOLEAN

(* It still has what it had in hand, or nothing. *)
Rests(p) ==
  /\ Quiet(p)
  /\ co'[p].task \in {co[p].task, None}
  /\ co'[p].task \in Presenting => co'[p].lid = co[p].lid
  /\ co'[p].sect \in {"submit"} \cup OfRequests
       => co'[p].sect = co[p].sect /\ co'[p].task = co[p].task
  /\ co'[p].pc = "switching" => co'[p].sect = "switch"

LEMMA OwnerOfEvents ==
  ASSUME IInv, NEW p \in Procs, Holds(events, p), NEW q \in Others(p), co'[q] = co[q]
  PROVE  EventsHeld(q)'
<1>1. EventsHeld(q) /\ ~Holds(events, q)
  BY DEF IInv, Coherent, Others, Holds
<1> QED
  BY <1>1 DEF EventsHeld

LEMMA EventsKept ==
  ASSUME IInv, NEW q \in Procs, co'[q] = co[q], events' = events
  PROVE  EventsHeld(q)'
<1>1. EventsHeld(q)
  BY DEF IInv, Coherent
<1> QED
  BY <1>1 DEF EventsHeld, Holds

LEMMA Queues ==
  ASSUME IInv, NEW p \in Procs
  PROVE  /\ Holds(gate, p) => Tail(gate) \in Seq(Procs)
         /\ Holds(events, p) => Tail(events) \in Seq(Procs)
  BY DEF IInv, TypeOK, Holds

LEMMA EndSectionRests ==
  ASSUME IInv, NEW p \in Procs, NEW ok \in BOOLEAN, Holds(gate, p),
         co[p].pc \in {"gate", "send", "wire"}, EndSection(p, ok)
  PROVE  Rests(p) /\ UNCHANGED switching /\ (armed' => armed)
<1>1. /\ co \in [Procs -> Coroutine] /\ events \in Seq(Procs) /\ Tail(gate) \in Seq(Procs)
      /\ armed \in BOOLEAN /\ forwarded \in BOOLEAN
  BY Queues DEF IInv, TypeOK
<1>2. Shape(p) /\ EventsHeld(p) /\ UNCHANGED switching /\ fresh' \subseteq fresh
  BY DEF IInv, Coherent, EndSection
<1>3. CASE co[p].sect = "submit" \/ (co[p].sect = "invalidate" /\ p \in Readers)
  <2>1. DisarmLocked(p, Tail(gate))
    BY <1>3 DEF EndSection
  <2>2. /\ Turned(p, "gate", co[p].task, "localrelease", None, co[p].lid, co[p].job)
        /\ gate' \in Seq(Procs)
    BY <1>1, <2>1, JoinGateDoes DEF DisarmLocked, Sections
  <2>3. Holds(events, p)
    BY <1>2, <1>3 DEF EventsHeld, Shape
  <2>4. armed' = FALSE /\ forwarded' = FALSE /\ events' = events
    BY <2>1 DEF DisarmLocked
  <2>5. \A q \in Procs : q # p => EventsHeld(q)'
    BY <2>2, <2>4, EventsKept DEF Turned, Others
  <2> QED
    BY <1>1, <1>2, <2>2, <2>3, <2>4, <2>5
    DEF Rests, Quiet, Turned, Resting, EventsHeld, Holds, Others, Presenting, OfRequests
<1>4. CASE co[p].sect = "localrelease" /\ co[p].task = "emergency"
  <2>1. events' = Tail(events) /\ JoinGate(p, "emergency", Tail(gate)) /\ UNCHANGED localVars
    BY <1>4 DEF EndSection, None
  <2>2. /\ Turned(p, "gate", co[p].task, "emergency", None, co[p].lid, co[p].job)
        /\ gate' \in Seq(Procs)
    BY <1>1, <2>1, JoinGateDoes DEF Sections, AllEndpoints
  <2>3. Holds(events, p)
    BY <1>2, <1>4 DEF EventsHeld
  <2>4. p \notin Readers
    BY <1>2, <1>4, ControlAssumption DEF Shape, None
  <2>5. \A q \in Others(p) : EventsHeld(q)'
    BY <2>2, <2>3, OwnerOfEvents DEF Turned, Others
  <2> QED
    BY <1>1, <1>2, <2>1, <2>2, <2>3, <2>4, <2>5, Queues
    DEF Rests, Quiet, Turned, Resting, EventsHeld, Others, Presenting, OfRequests, localVars
<1>5. CASE co[p].sect = "localrelease" /\ co[p].task = "disarm"
  <2>1. PICK w \in {"confirmed", "unconfirmed"} :
          /\ events' = Tail(events) /\ gate' = Tail(gate)
          /\ co' = [co EXCEPT ![p].pc = "reply", ![p].why = w]
          /\ UNCHANGED localVars
    BY <1>5 DEF EndSection, None
  <2>2. Turned(p, "reply", co[p].task, co[p].sect, w, co[p].lid, co[p].job)
    BY <1>1, <2>1 DEF Turned, Coroutine, Labels, Reasons
  <2>3. Holds(events, p)
    BY <1>2, <1>5 DEF EventsHeld
  <2>4. \A q \in Others(p) : EventsHeld(q)'
    BY <2>2, <2>3, OwnerOfEvents DEF Turned, Others
  <2> QED
    BY <1>1, <1>2, <2>1, <2>2, <2>3, <2>4, Queues
    DEF Rests, Quiet, Turned, Resting, EventsHeld, Others, localVars
<1>6. CASE co[p].sect = "localrelease" /\ co[p].task = None
  <2>1. /\ events' = Tail(events) /\ gate' = Tail(gate) /\ Sleep(p)
        /\ armed' = (armed /\ (ok \/ p # IdleTask))
        /\ forwarded' = (forwarded /\ (ok \/ p # IdleTask))
    BY <1>6 DEF EndSection, None
  <2>2. Turned(p, "idle", None, None, None, NoLease, "up")
    BY <1>1, <2>1, SleepDoes
  <2>3. Holds(events, p)
    BY <1>2, <1>6 DEF EventsHeld
  <2>4. \A q \in Others(p) : EventsHeld(q)'
    BY <2>2, <2>3, OwnerOfEvents DEF Turned, Others
  <2>5. {armed', forwarded'} \subseteq BOOLEAN /\ (armed' => armed)
    BY <2>1
  <2> QED
    BY <1>1, <1>2, <2>1, <2>2, <2>3, <2>4, <2>5, Queues
    DEF Rests, Quiet, Turned, Resting, EventsHeld, Others, Presenting, OfRequests, None
<1>7. CASE /\ ~(co[p].sect = "submit" \/ (co[p].sect = "invalidate" /\ p \in Readers))
           /\ ~(co[p].sect = "localrelease" /\ co[p].task \in {"emergency", "disarm", None})
  <2>1. gate' = Tail(gate) /\ Sleep(p) /\ UNCHANGED <<events, localVars>>
    BY <1>7 DEF EndSection
  <2>2. Turned(p, "idle", None, None, None, NoLease, "up")
    BY <1>1, <2>1, SleepDoes
  <2>3. \A q \in Others(p) : EventsHeld(q)'
    BY <2>1, <2>2, EventsKept DEF Turned, Others
  <2> QED
    BY <1>1, <1>2, <2>1, <2>2, <2>3
    DEF Rests, Quiet, Turned, Resting, EventsHeld, Others, Presenting, OfRequests, None, localVars
<1> QED
  BY <1>3, <1>4, <1>5, <1>6, <1>7

-----------------------------------------------------------------------------
(* What a step of p leaves of the input that is down or on its way.           *)

(* p does not touch the serial link, or its exchange is over. *)
SerialTurn(p) ==
  \/ UNCHANGED serialVars /\ co[p].pc # "wire"
  \/ /\ wire = {p} /\ wire' = {} /\ line' \in {Silent, line}
     /\ UNCHANGED <<session, pico, held, faults>>

LeaseTyped ==
  /\ lease \in LeaseState /\ issued \in 0..MaxLease
  /\ localIds \subseteq LeaseIds /\ localLease \in LeaseIds \cup {NoLease}

LEMMA HolderAlone ==
  ASSUME IInv, NEW p \in Procs, Holds(gate, p)
  PROVE  Alone(p)
  BY DEF IInv, Coherent, GateHeld, Holds, Alone, Others

LEMMA SilentIsNone == Silent \notin Commands /\ Ack \notin Commands /\ Nack \notin Commands /\ Silent # Ack
  BY DEF Silent, Ack, Nack, Commands, Effects

LEMMA InputKept ==
  ASSUME IInv, NEW p \in Procs, \A q \in Others(p) : co'[q] = co[q], SerialTurn(p),
         \/ held = {} /\ line' = Silent
         \/ lease'.owed
         \/ AtWork(p)'
         \/ ~AtWork(p) /\ (SameLease \/ (Alone(p) /\ Granting))
  PROVE  InputKnown'
<1>1. held' = held /\ (line' \in Commands => line' = line)
  BY SilentIsNone DEF SerialTurn, serialVars
<1>2. CASE held = {} /\ line' = Silent
  BY <1>1, <1>2, SilentIsNone DEF InputKnown
<1>3. ASSUME NEW i \in LeaseIds, OnRecord(i), ~(held = {} /\ line' = Silent)
      PROVE  OnRecord(i)'
  <2>1. CASE lease'.owed \/ AtWork(p)'
    BY <2>1 DEF OnRecord
  <2>2. CASE ~AtWork(p) /\ SameLease
    <3>1. \A q \in Procs : AtWork(q) => AtWork(q)'
      BY <2>2 DEF Others, AtWork
    <3> QED
      BY <1>3, <2>2, <3>1 DEF OnRecord, SameLease
  <2>3. CASE ~AtWork(p) /\ Alone(p) /\ Granting
    BY <1>3, <2>3 DEF OnRecord, Granting, Alone, Others, LeaseIds, NoLease
  <2> QED
    BY <1>3, <2>1, <2>2, <2>3
<1>4. CASE ~(held = {} /\ line' = Silent)
  BY <1>1, <1>3, <1>4 DEF InputKnown, IInv
<1> QED
  BY <1>2, <1>4

(* What becomes of the lease when p only rests afterwards. *)
Outcome ==
  \/ /\ SameIds /\ (SameLease \/ ExpiredLease)
     /\ armed' => armed
     /\ switching' => switching \/ (lease'.id = NoLease /\ ~armed')
  \/ /\ Granting /\ lease'.id = issued + 1
     /\ armed' => issued + 1 \in localIds'
     /\ ~switching' /\ localIds \subseteq localIds'

LEMMA ModesKept ==
  ASSUME IInv, LeaseTyped', Outcome, {switching', armed'} \subseteq BOOLEAN
  PROVE  ArmedExclusive' /\ EyesBeforeHands'
  BY DEF IInv, TypeOK, Outcome, SameIds, SameLease, ExpiredLease, Granting,
         ArmedExclusive, EyesBeforeHands

LEMMA RestedShape ==
  ASSUME IInv, NEW p \in Procs, Rests(p), SameIds \/ Granting
  PROVE  Shape(p)'
<1>1. Shape(p)
  BY DEF IInv, Coherent
<1>2. ~AtWork(p)' /\ ~Sends(p)' /\ co'[p].pc \notin {"send", "wire"}
  BY DEF Rests, Quiet, Resting, AtWork, Sends
<1>3. \A i \in (1..issued) \ localIds : i \in (1..issued') \ localIds'
  BY DEF SameIds, Granting, IInv, TypeOK
<1>4. None \notin Presenting
  BY DEF None, Presenting, OfRequests
<1> QED
  BY <1>1, <1>2, <1>3, <1>4 DEF Shape, Rests

LEMMA QuietIsCoherent ==
  ASSUME IInv, NEW p \in Procs, Quiet(p), Shape(p)'
  PROVE  Coherent(p)'
<1>1. ~AtWork(p)' /\ ~Sends(p)' /\ ~Arming(p)' /\ co'[p].pc \notin {"send", "wire"}
  BY DEF Quiet, Resting, AtWork, Sends, Arming
<1> QED
  BY <1>1 DEF Coherent, GateHeld, Relies, OnWire, Quiet

LEMMA TypedAgain ==
  ASSUME IInv, NEW p \in Procs, SerialTurn(p), LeaseTyped', UNCHANGED use,
         co' \in [Procs -> Coroutine], gate' \in Seq(Procs), events' \in Seq(Procs),
         fresh' \subseteq Procs, {switching', armed', forwarded'} \subseteq BOOLEAN
  PROVE  TypeOK'
<1>1. /\ wire' \subseteq Procs /\ session' = session /\ pico' = pico /\ held' = held
      /\ faults' = faults /\ line' \in Commands \cup {Silent, Ack, Nack}
  BY DEF IInv, TypeOK, SerialTurn, serialVars
<1> QED
  BY <1>1 DEF IInv, TypeOK, LeaseTyped

LEMMA QuietKeeps ==
  ASSUME IInv, NEW p \in Procs, Quiet(p), Shape(p)', UNCHANGED use, SerialTurn(p),
         LeaseTyped', LeaseKnown', switching' \in BOOLEAN, LeaseTurn(p),
         ArmedExclusive', EyesBeforeHands', \A q \in Others(p) : GateHeld(q)',
         ~AtWork(p) \/ (held = {} /\ line' = Silent) \/ lease'.owed,
         SameLease \/ ExpiredLease \/ (Alone(p) /\ Granting)
  PROVE  IInv'
<1>1. fresh' \subseteq fresh /\ fresh' \subseteq Procs
  BY DEF Quiet, IInv, TypeOK
<1>2. TypeOK'
  BY <1>1, TypedAgain DEF Quiet
<1>3. WireTurn(p)
  BY DEF SerialTurn, WireTurn, serialVars
<1>4. InputKnown'
  BY InputKept DEF Quiet, ExpiredLease
<1> QED
  BY <1>1, <1>2, <1>3, <1>4, QuietIsCoherent, TurnKeeps DEF Quiet

LEMMA RestKeeps ==
  ASSUME IInv, NEW p \in Procs, Rests(p), UNCHANGED use, SerialTurn(p),
         LeaseTyped', LeaseKnown', switching' \in BOOLEAN, Outcome,
         Holds(gate, p) \/ (SameLease /\ SameIds /\ UNCHANGED switching),
         \A q \in Others(p) : GateHeld(q)',
         ~AtWork(p) \/ (held = {} /\ line' = Silent) \/ lease'.owed
  PROVE  IInv'
<1>1. ArmedExclusive' /\ EyesBeforeHands'
  BY ModesKept DEF Rests, Quiet
<1>2. LeaseTurn(p) /\ (SameLease \/ ExpiredLease \/ (Alone(p) /\ Granting))
  BY HolderAlone DEF Outcome, LeaseTurn
<1>3. Shape(p)'
  BY RestedShape DEF Outcome
<1> QED
  BY <1>1, <1>2, <1>3, QuietKeeps DEF Rests

-----------------------------------------------------------------------------
(* The other ways out of a section: to send release_all, to send a command,   *)
(* or to wait for the event lock.                                             *)

LEMMA AloneHolds ==
  ASSUME NEW p \in Procs, Alone(p), NEW q \in Others(p), co'[q] = co[q]
  PROVE  GateHeld(q)'
  BY DEF Alone, GateHeld, AtWork, Arming

LEMMA StillFirst ==
  ASSUME NEW s \in Seq(Procs), NEW p \in Procs, NEW q \in Procs
  PROVE  Append(s, p) \in Seq(Procs) /\ (Holds(s, q) => Holds(Append(s, p), q))
  BY DEF Holds

LEMMA ReleaseKeeps ==
  ASSUME IInv, NEW p \in Procs, NEW w \in {"drain", "final"}, Holds(gate, p),
         co[p].pc \in {"gate", "send", "wire"}, StartRelease(p, w), UNCHANGED use,
         SerialTurn(p), LeaseTyped', LeaseKnown', SameIds,
         lease'.id = NoLease, ~lease'.owed,
         w = "drain" /\ co[p].sect \in GuardedByMode => ~switching
  PROVE  IInv'
<1>1. /\ co \in [Procs -> Coroutine] /\ gate \in Seq(Procs) /\ events \in Seq(Procs)
      /\ {switching, armed, forwarded} \subseteq BOOLEAN
      /\ Shape(p) /\ EventsHeld(p) /\ Alone(p)
  BY HolderAlone DEF IInv, TypeOK, Coherent
<1>2. /\ Turned(p, "send", co[p].task, co[p].sect, w, co[p].lid, "release")
      /\ fresh' = {p} /\ UNCHANGED <<gate, events, armed, forwarded, switching>>
  BY <1>1, StartReleaseDoes DEF Reasons
<1>3. AtWork(p)' /\ ~Sends(p)' /\ ~Arming(p)'
  BY <1>2 DEF Turned, AtWork, Sends, Arming
<1>4. TypeOK'
  BY <1>1, <1>2, TypedAgain DEF Turned
<1>5. \A q \in Others(p) : co'[q] = co[q] /\ GateHeld(q)' /\ EventsHeld(q)'
  BY <1>1, <1>2, AloneHolds, EventsKept DEF Turned, Others
<1>6. Coherent(p)'
  <2>1. Shape(p)' /\ EventsHeld(p)'
    BY <1>1, <1>2, <1>3 DEF Shape, EventsHeld, Turned, SameIds, Holds
  <2>2. GateHeld(p)' /\ Relies(p)' /\ OnWire(p)'
    BY <1>2, <1>3 DEF GateHeld, Relies, OnWire, Turned, Holds
  <2> QED
    BY <2>1, <2>2 DEF Coherent
<1>7. LeaseTurn(p) /\ WireTurn(p)
  BY <1>1, <1>2 DEF LeaseTurn, SerialTurn, WireTurn, serialVars
<1>8. ArmedExclusive' /\ EyesBeforeHands'
  BY <1>2 DEF ArmedExclusive, EyesBeforeHands, IInv
<1>9. InputKnown'
  BY <1>3, <1>5, InputKept
<1> QED
  BY <1>2, <1>4, <1>5, <1>6, <1>7, <1>8, <1>9, TurnKeeps

LEMMA InputKeeps ==
  ASSUME IInv, NEW p \in Procs, NEW i \in LeaseIds, Holds(gate, p),
         co[p].pc \in {"gate", "send", "wire"}, SendInput(p, i), UNCHANGED use,
         SerialTurn(p), LeaseTyped', LeaseKnown', Outcome, lease'.id = i,
         p \in Requests \cup Readers, co[p].task \in Presenting => i = co[p].lid,
         ~AtWork(p) \/ (held = {} /\ line' = Silent)
  PROVE  IInv'
<1>1. /\ co \in [Procs -> Coroutine] /\ gate \in Seq(Procs) /\ events \in Seq(Procs)
      /\ {switching, armed, forwarded} \subseteq BOOLEAN /\ fresh \subseteq Procs
      /\ Shape(p) /\ EventsHeld(p) /\ Alone(p) /\ i # NoLease
  BY HolderAlone DEF IInv, TypeOK, Coherent, LeaseIds, NoLease
<1>2. PICK e \in Effects : Turned(p, "send", co[p].task, co[p].sect, "input", i, e)
  BY <1>1, SendInputDoes
<1>3. /\ fresh' = fresh \cup {p} /\ gate' \in Seq(Procs)
      /\ UNCHANGED <<events, armed, forwarded, switching>>
  BY <1>1, SendInputDoes, Queues
<1>4. ~AtWork(p)' /\ Sends(p)' /\ ~Arming(p)'
  BY <1>2 DEF Turned, AtWork, Sends, Arming
<1>5. TypeOK'
  BY <1>1, <1>2, <1>3, TypedAgain DEF Turned
<1>6. \A q \in Others(p) : co'[q] = co[q] /\ GateHeld(q)' /\ EventsHeld(q)'
  BY <1>1, <1>2, <1>3, AloneHolds, EventsKept DEF Turned, Others
<1>7. Coherent(p)'
  <2>1. \A j \in (1..issued) \ localIds : j \in (1..issued') \ localIds'
    BY DEF Outcome, SameIds, Granting, IInv, TypeOK
  <2>2. Shape(p)' /\ EventsHeld(p)'
    BY <1>1, <1>2, <1>3, <1>4, <2>1 DEF Shape, EventsHeld, Turned, Holds
  <2>3. GateHeld(p)' /\ Relies(p)' /\ OnWire(p)'
    BY <1>2, <1>4 DEF GateHeld, Relies, OnWire, Turned
  <2> QED
    BY <2>2, <2>3 DEF Coherent
<1>8. LeaseTurn(p) /\ WireTurn(p)
  BY <1>1, <1>3 DEF Outcome, LeaseTurn, SerialTurn, WireTurn, serialVars
<1>9. ArmedExclusive' /\ EyesBeforeHands'
  BY <1>1, <1>3, ModesKept
<1>10. InputKnown'
  <2>1. SameLease \/ lease'.owed \/ (Alone(p) /\ Granting)
    BY <1>1 DEF Outcome, ExpiredLease
  <2> QED
    BY <1>6, <2>1, InputKept
<1> QED
  BY <1>3, <1>5, <1>6, <1>7, <1>8, <1>9, <1>10, TurnKeeps

(* p goes on to wait for the event lock and keeps control_gate. *)
WaitsToArm(p) ==
  /\ events' = Append(events, p)
  /\ co' = [co EXCEPT ![p].pc = "armevent"]
  /\ UNCHANGED <<gate, localVars, switching, fresh>>

LEMMA ArmingKeeps ==
  ASSUME IInv, NEW p \in Procs, Holds(gate, p), co[p].pc \in {"gate", "send", "wire"},
         WaitsToArm(p), UNCHANGED use, SerialTurn(p), LeaseTyped', LeaseKnown', SameIds,
         SameLease \/ ExpiredLease, ~switching, lease'.id \in localIds \cup {NoLease},
         ~AtWork(p) \/ (held = {} /\ line' = Silent)
  PROVE  IInv'
<1>1. /\ co \in [Procs -> Coroutine] /\ gate \in Seq(Procs) /\ events \in Seq(Procs)
      /\ {switching, armed, forwarded} \subseteq BOOLEAN /\ fresh \subseteq Procs
      /\ Shape(p) /\ Alone(p)
  BY HolderAlone DEF IInv, TypeOK, Coherent
<1>2. Turned(p, "armevent", co[p].task, co[p].sect, co[p].why, co[p].lid, co[p].job)
  BY <1>1 DEF WaitsToArm, Turned, Coroutine, Labels
<1>3. /\ events' \in Seq(Procs) /\ UNCHANGED <<gate, armed, forwarded, switching, fresh>>
      /\ \A q \in Procs : Holds(events, q) => Holds(events', q)
  BY <1>1, StillFirst DEF WaitsToArm, localVars
<1>4. ~AtWork(p)' /\ ~Sends(p)' /\ Arming(p)' /\ co'[p].pc = "armevent"
  BY <1>2 DEF Turned, AtWork, Sends, Arming
<1>5. TypeOK'
  BY <1>1, <1>2, <1>3, TypedAgain DEF Turned
<1>6. \A q \in Others(p) : co'[q] = co[q] /\ GateHeld(q)' /\ EventsHeld(q)'
  <2>1. ASSUME NEW q \in Others(p) PROVE co'[q] = co[q] /\ EventsHeld(q)'
    <3>1. q \in Procs /\ co'[q] = co[q] /\ EventsHeld(q)
      BY <1>2 DEF Turned, Others, IInv, Coherent
    <3> QED
      BY <1>3, <3>1 DEF EventsHeld
  <2> QED
    BY <1>1, <2>1, AloneHolds
<1>7. Coherent(p)'
  <2>1. Shape(p)' /\ EventsHeld(p)'
    BY <1>1, <1>2, <1>4 DEF Shape, EventsHeld, Turned, SameIds
  <2>2. GateHeld(p)' /\ Relies(p)' /\ OnWire(p)'
    BY <1>2, <1>3, <1>4 DEF GateHeld, Relies, OnWire, Turned, Holds, SameIds
  <2> QED
    BY <2>1, <2>2 DEF Coherent
<1>8. LeaseTurn(p) /\ WireTurn(p)
  BY <1>1 DEF LeaseTurn, SerialTurn, WireTurn, serialVars
<1>9. ArmedExclusive' /\ EyesBeforeHands'
  <2>1. Outcome
    BY <1>3 DEF Outcome
  <2>2. {switching', armed'} \subseteq BOOLEAN
    BY <1>1, <1>3
  <2> QED
    BY <2>1, <2>2, ModesKept
<1>10. InputKnown'
  BY <1>6, InputKept DEF ExpiredLease
<1> QED
  BY <1>3, <1>5, <1>6, <1>7, <1>8, <1>9, <1>10, TurnKeeps

-----------------------------------------------------------------------------
(* The sections under control_gate. *)

LEMMA StillKnown ==
  ASSUME IInv, UNCHANGED use, SameIds, localLease' \in {localLease, NoLease},
         \/ SameLease \/ ExpiredLease
         \/ lease'.id = NoLease /\ ~lease'.owed /\ localLease' = NoLease
  PROVE  LeaseKnown'
<1>1. issued \in Nat /\ lease.id <= issued
  BY MaxLeaseAssumption DEF IInv, TypeOK, LeaseKnown
<1> QED
  BY <1>1 DEF IInv, LeaseKnown, LocalLeaseKnown, SameIds, SameLease, ExpiredLease, NoLease

LEMMA LeaseOk ==
  ASSUME IInv
  PROVE  /\ lease \in LeaseState /\ (lease.owed => lease.id = NoLease)
         /\ issued \in 0..MaxLease /\ localIds \subseteq LeaseIds
         /\ localLease \in LeaseIds \cup {NoLease} /\ LeaseTyped
  BY DEF IInv, TypeOK, LeaseKnown, LeaseTyped

Within(p) ==
  /\ Holds(gate, p) /\ co[p].pc \in {"gate", "send", "wire"}
  /\ SerialTurn(p) /\ UNCHANGED use
  /\ ~AtWork(p) \/ (held = {} /\ line' = Silent) \/ lease'.owed

(* Nothing is left to release when p goes on with its section. *)
Inside(p) ==
  /\ Within(p)
  /\ ~AtWork(p) \/ (held = {} /\ line' = Silent)
  /\ co[p].sect \in GuardedByMode => ~switching

LEMMA SectionEnds ==
  ASSUME IInv, NEW p \in Procs, NEW ok \in BOOLEAN, Within(p), EndSection(p, ok),
         lease' \in LeaseState, SameIds, localLease' \in {localLease, NoLease},
         SameLease \/ ExpiredLease
  PROVE  IInv'
<1>1. Rests(p) /\ UNCHANGED switching /\ (armed' => armed)
  BY EndSectionRests DEF Within
<1>2. LeaseKnown' /\ LeaseTyped'
  BY StillKnown, LeaseOk DEF Within, LeaseTyped, SameIds
<1>3. Outcome
  BY <1>1 DEF Outcome
<1>4. \A q \in Others(p) : GateHeld(q)'
  BY <1>1, AloneHolds, HolderAlone DEF Within, Rests, Quiet
<1>5. switching' \in BOOLEAN
  BY <1>1 DEF IInv, TypeOK
<1> QED
  BY <1>1, <1>2, <1>3, <1>4, <1>5, RestKeeps DEF Within

LEMMA SectionUnchanged ==
  ASSUME IInv, NEW p \in Procs, NEW ok \in BOOLEAN, Within(p), EndSection(p, ok),
         UNCHANGED leaseVars
  PROVE  IInv'
  BY SectionEnds, LeaseOk DEF leaseVars, SameIds, SameLease

LEMMA SectionDrains ==
  ASSUME IInv, NEW p \in Procs, Inside(p), NEW c \in Clock(lease), ReleaseOwed(c), Drain(p, c)
  PROVE  IInv'
<1>1. lease' \in LeaseState /\ ~lease'.owed /\ lease'.id = NoLease
  BY LeaseOk, LeaseFacts DEF Drain
<1>2. SameIds /\ localLease' = NoLease
  BY DEF Drain, SameIds
<1>3. LeaseKnown' /\ LeaseTyped'
  BY <1>1, <1>2, StillKnown, LeaseOk DEF Inside, Within, LeaseTyped, SameIds
<1> QED
  BY <1>1, <1>2, <1>3, ReleaseKeeps DEF Drain, Inside, Within

LEMMA SectionReleases ==
  ASSUME IInv, NEW p \in Procs, Inside(p), ~lease.owed, NEW c \in Clock(lease),
         lease' = Released(c), StartRelease(p, "final"), SameIds,
         localLease' = NoLease \/ (localLease' = localLease /\ lease.id # localLease)
  PROVE  IInv'
<1>1. lease' \in LeaseState /\ ~lease'.owed /\ lease'.id = NoLease
  BY LeaseOk, LeaseFacts
<1>2. localLease' = NoLease
  BY DEF IInv, LeaseKnown, LocalLeaseKnown
<1>3. LeaseKnown' /\ LeaseTyped'
  BY <1>1, <1>2, StillKnown, LeaseOk DEF Inside, Within, LeaseTyped, SameIds
<1> QED
  BY <1>1, <1>2, <1>3, ReleaseKeeps DEF Inside, Within

(* The lease is granted to an HTTP controller, or to the built-in controls. *)
LEMMA Grants ==
  ASSUME IInv, UNCHANGED use, lease.id = NoLease, ~lease.owed, issued < MaxLease,
         lease' = Granted(issued + 1), issued' = issued + 1,
         \/ UNCHANGED <<localIds, localLease>>
         \/ localIds' = localIds \cup {issued + 1} /\ localLease' = issued + 1
  PROVE  /\ LeaseTyped' /\ LeaseKnown' /\ Granting
         /\ lease'.id = issued + 1 /\ issued + 1 \in LeaseIds /\ localIds \subseteq localIds'
<1>1. issued \in 0..MaxLease /\ localIds \subseteq LeaseIds /\ MaxLease \in Nat
      /\ localIds \subseteq 1..issued /\ localLease = NoLease /\ use \in Uses
  BY LeaseOk, MaxLeaseAssumption DEF IInv, LeaseKnown, LocalLeaseKnown
<1>2. issued + 1 \in LeaseIds /\ issued + 1 \in 1..issued'
  BY <1>1 DEF LeaseIds
<1>3. lease' \in LeaseState /\ lease'.id = issued + 1 /\ ~lease'.owed
  BY <1>2 DEF Granted, LeaseState
<1>4. LeaseTyped'
  <2>1. issued' \in 0..MaxLease
    BY <1>1
  <2>2. localIds' \subseteq LeaseIds /\ localLease' \in LeaseIds \cup {NoLease}
    BY <1>1, <1>2
  <2> QED
    BY <1>3, <2>1, <2>2 DEF LeaseTyped
<1>5. LeaseKnown'
  <2>1. localIds' \subseteq 1..issued' /\ localLease' \in localIds' \cup {NoLease}
    <3>1. \A i \in 1..issued : i \in 1..issued'
      BY <1>1
    <3> QED
      BY <1>1, <1>2, <3>1
  <2>2. LocalLeaseKnown'
    BY <1>1, <1>3 DEF LocalLeaseKnown
  <2> QED
    BY <1>1, <1>3, <2>1, <2>2 DEF LeaseKnown
<1> QED
  BY <1>2, <1>3, <1>4, <1>5 DEF Granting

LEMMA ClaimKeeps ==
  ASSUME IInv, NEW p \in Procs, Inside(p), co[p].sect = "claim", ClaimBody(p)
  PROVE  IInv'
<1>1. CASE EndSection(p, FALSE) /\ UNCHANGED leaseVars
  BY <1>1, SectionUnchanged DEF Inside
<1>2. ASSUME NEW c \in Clock(lease), ClaimOwed(c), Drain(p, c) PROVE IInv'
  BY <1>2, SectionDrains DEF ClaimOwed, ReleaseOwed
<1>3. ASSUME NEW c \in Clock(lease), ~armed, ~ClaimBusy(c), ~ClaimOwed(c), issued < MaxLease,
             lease' = Granted(issued + 1), issued' = issued + 1,
             EndSection(p, TRUE), UNCHANGED <<localIds, localLease>>
      PROVE  IInv'
  <2>1. lease.id = NoLease /\ ~lease.owed
    BY <1>3, LeaseOk, LeaseFacts
  <2>2. LeaseTyped' /\ LeaseKnown' /\ Granting /\ lease'.id = issued + 1
    BY <1>3, <2>1, Grants DEF Inside, Within
  <2>3. Rests(p) /\ UNCHANGED switching /\ ~armed'
    BY <1>3, EndSectionRests DEF Inside, Within
  <2>4. ~switching' /\ switching' \in BOOLEAN
    BY <2>3 DEF Inside, Within, GuardedByMode, IInv, TypeOK
  <2>5. Outcome
    BY <1>3, <2>2, <2>3, <2>4 DEF Outcome
  <2>6. \A q \in Others(p) : GateHeld(q)'
    BY <2>3, AloneHolds, HolderAlone DEF Inside, Within, Rests, Quiet
  <2> QED
    BY <2>2, <2>3, <2>4, <2>5, <2>6, RestKeeps DEF Inside, Within
<1> QED
  BY <1>1, <1>2, <1>3 DEF ClaimBody

LEMMA RejectedKeeps ==
  ASSUME IInv, NEW p \in Procs, Inside(p), NEW c \in Clock(lease), LeaseRejected(p, c)
  PROVE  IInv'
<1>1. CASE ReleaseOwed(c) /\ Drain(p, c)
  BY <1>1, SectionDrains
<1>2. CASE EndSection(p, FALSE) /\ UNCHANGED leaseVars
  BY <1>2, SectionUnchanged DEF Inside
<1> QED
  BY <1>1, <1>2 DEF LeaseRejected

LEMMA RenewKeeps ==
  ASSUME IInv, NEW p \in Procs, Inside(p), RenewBody(p)
  PROVE  IInv'
<1>1. PICK c \in Clock(lease) :
        \/ /\ Valid(c, co[p].lid) /\ lease' = Renewed(c) /\ EndSection(p, TRUE)
           /\ UNCHANGED <<issued, localIds, localLease>>
        \/ LeaseRejected(p, c)
  BY DEF RenewBody
<1>2. CASE LeaseRejected(p, c)
  BY <1>2, RejectedKeeps
<1>3. CASE /\ lease' = Renewed(c) /\ EndSection(p, TRUE)
           /\ UNCHANGED <<issued, localIds, localLease>>
  <2>1. lease' \in LeaseState /\ SameLease
    BY <1>3, LeaseOk, LeaseFacts DEF SameLease
  <2> QED
    BY <1>3, <2>1, SectionEnds DEF SameIds, Inside
<1> QED
  BY <1>1, <1>2, <1>3

LEMMA ReleaseBodyKeeps ==
  ASSUME IInv, NEW p \in Procs, Inside(p), ~lease.owed, co[p].sect = "release", ReleaseBody(p)
  PROVE  IInv'
<1>1. PICK c \in Clock(lease) :
        \/ /\ Valid(c, co[p].lid) /\ lease' = Released(c) /\ StartRelease(p, "final")
           /\ UNCHANGED <<issued, localIds, localLease>>
        \/ LeaseRejected(p, c)
  BY DEF ReleaseBody
<1>2. CASE LeaseRejected(p, c)
  BY <1>2, RejectedKeeps
<1>3. CASE /\ Valid(c, co[p].lid) /\ lease' = Released(c) /\ StartRelease(p, "final")
           /\ UNCHANGED <<issued, localIds, localLease>>
  <2>1. lease.id = co[p].lid /\ lease.id # NoLease
    BY <1>3, LeaseOk, LeaseFacts
  <2>2. co[p].lid \notin localIds
    BY DEF IInv, Coherent, Shape, Presenting, OfRequests
  <2>3. lease.id # localLease
    BY <2>1, <2>2 DEF IInv, LeaseKnown
  <2> QED
    BY <1>3, <2>3, SectionReleases DEF SameIds
<1> QED
  BY <1>1, <1>2, <1>3

LEMMA InputBodyKeeps ==
  ASSUME IInv, NEW p \in Procs, Inside(p), co[p].sect = "input", InputBody(p)
  PROVE  IInv'
<1>0. p \in Requests
  BY DEF IInv, Coherent, Shape, Presenting, OfRequests, None
<1>1. PICK c \in Clock(lease) :
        \/ Valid(c, co[p].lid) /\ SendInput(p, co[p].lid) /\ UNCHANGED leaseVars
        \/ LeaseRejected(p, c)
  BY DEF InputBody
<1>2. CASE LeaseRejected(p, c)
  BY <1>2, RejectedKeeps
<1>3. CASE Valid(c, co[p].lid) /\ SendInput(p, co[p].lid) /\ UNCHANGED leaseVars
  <2>1. lease.id = co[p].lid /\ co[p].lid # NoLease
    BY <1>3, LeaseOk, LeaseFacts
  <2>2. co[p].lid \in LeaseIds
    BY <2>1, LeaseOk DEF LeaseState
  <2>3. SameLease /\ SameIds /\ LeaseTyped' /\ LeaseKnown'
    BY <1>3, StillKnown, LeaseOk DEF leaseVars, SameLease, SameIds, LeaseTyped, Inside, Within
  <2>4. UNCHANGED <<armed, switching>>
    BY <1>3 DEF SendInput, localVars
  <2>5. Outcome /\ lease'.id = co[p].lid
    BY <1>3, <2>1, <2>3, <2>4 DEF Outcome, leaseVars
  <2> QED
    BY <1>0, <1>3, <2>2, <2>3, <2>5, InputKeeps DEF Inside, Within
<1> QED
  BY <1>1, <1>2, <1>3

LEMMA NoticeOnly ==
  ASSUME IInv, NEW c \in Clock(lease), lease' = TransitionExpired(c)
  PROVE  lease' \in LeaseState /\ (SameLease \/ ExpiredLease)
<1>1. c.id = lease.id /\ c.owed = lease.owed /\ lease' \in LeaseState
      /\ (lease' = c \/ (lease'.id = NoLease /\ lease'.owed))
  BY LeaseOk, LeaseFacts
<1> QED
  BY <1>1 DEF SameLease, ExpiredLease

LEMMA SwitchKeeps ==
  ASSUME IInv, NEW p \in Procs, Inside(p), co[p].sect = "switch", SwitchBody(p)
  PROVE  IInv'
<1>1. PICK c \in Clock(lease) :
        /\ lease' = TransitionExpired(c)
        /\ UNCHANGED <<issued, localIds, localLease>>
        /\ \/ EndSection(p, FALSE)
           \/ /\ ~SnapshotActive(c) /\ ~armed
              /\ switching' = TRUE /\ gate' = Tail(gate)
              /\ co' = [co EXCEPT ![p].pc = "switching"]
              /\ UNCHANGED <<events, localVars, fresh>>
  BY DEF SwitchBody
<1>2. lease' \in LeaseState /\ (SameLease \/ ExpiredLease) /\ SameIds
  BY <1>1, NoticeOnly DEF SameIds
<1>3. CASE EndSection(p, FALSE)
  BY <1>1, <1>2, <1>3, SectionEnds DEF Inside
<1>4. CASE /\ ~SnapshotActive(c) /\ ~armed
           /\ switching' = TRUE /\ gate' = Tail(gate)
           /\ co' = [co EXCEPT ![p].pc = "switching"]
           /\ UNCHANGED <<events, localVars, fresh>>
  <2>1. /\ co \in [Procs -> Coroutine] /\ events \in Seq(Procs) /\ gate' \in Seq(Procs)
        /\ {armed, forwarded} \subseteq BOOLEAN /\ EventsHeld(p)
    BY <1>4, Queues DEF IInv, TypeOK, Inside, Within, Coherent
  <2>2. Turned(p, "switching", co[p].task, co[p].sect, co[p].why, co[p].lid, co[p].job)
    BY <1>4, <2>1 DEF Turned, Coroutine, Labels
  <2>3. \A q \in Others(p) : co'[q] = co[q] /\ EventsHeld(q)' /\ GateHeld(q)'
    BY <1>4, <2>2, EventsKept, AloneHolds, HolderAlone DEF Turned, Others, Inside, Within
  <2>4. Rests(p)
    BY <1>4, <2>1, <2>2, <2>3 DEF Rests, Quiet, Turned, Resting, EventsHeld, localVars
  <2>5. lease'.id = NoLease
    BY <1>1, <1>4 DEF SnapshotActive
  <2>6. Outcome
    BY <1>2, <1>4, <2>5 DEF Outcome, localVars
  <2>7. LeaseKnown' /\ LeaseTyped'
    BY <1>1, <1>2, StillKnown, LeaseOk DEF Inside, Within, LeaseTyped
  <2> QED
    BY <1>4, <2>3, <2>4, <2>6, <2>7, RestKeeps DEF Inside, Within
<1> QED
  BY <1>1, <1>3, <1>4

LEMMA ArmBodyKeeps ==
  ASSUME IInv, NEW p \in Procs, Inside(p), ~lease.owed, co[p].sect = "arm", ArmBody(p)
  PROVE  IInv'
<1>1. PICK c \in Clock(lease) :
        /\ lease' = TransitionExpired(c)
        /\ UNCHANGED <<issued, localIds, localLease>>
        /\ EndSection(p, FALSE) \/ (~OtherController(c) /\ WaitsToArm(p))
  BY DEF ArmBody, WaitsToArm
<1>2. lease' \in LeaseState /\ (SameLease \/ ExpiredLease) /\ SameIds
  BY <1>1, NoticeOnly DEF SameIds
<1>3. CASE EndSection(p, FALSE)
  BY <1>1, <1>2, <1>3, SectionEnds DEF Inside
<1>4. CASE ~OtherController(c) /\ WaitsToArm(p)
  <2>1. ~switching
    BY DEF Inside, GuardedByMode
  <2>2. lease'.id \in localIds \cup {NoLease}
    <3>1. CASE lease'.id # NoLease
      <4>1. localLease # NoLease /\ lease'.id = lease.id
        BY <1>1, <1>2, <1>4, <3>1 DEF OtherController, SnapshotActive, SameLease, ExpiredLease
      <4> QED
        BY <4>1 DEF IInv, LeaseKnown, LocalLeaseKnown
    <3> QED
      BY <3>1
  <2>3. LeaseKnown' /\ LeaseTyped'
    BY <1>1, <1>2, StillKnown, LeaseOk DEF Inside, Within, LeaseTyped
  <2> QED
    BY <1>2, <1>4, <2>1, <2>2, <2>3, ArmingKeeps DEF Inside, Within
<1> QED
  BY <1>1, <1>3, <1>4

LEMMA SubmitKeeps ==
  ASSUME IInv, NEW p \in Procs, Inside(p), co[p].sect = "submit", SubmitBody(p)
  PROVE  IInv'
<1>1. co[p].task = None /\ ~switching /\ None \notin Presenting /\ p \in Readers
  BY ControlAssumption DEF IInv, Coherent, Shape, Inside, GuardedByMode, None, Presenting, OfRequests
<1>2. ASSUME NEW c \in Clock(lease), Valid(c, localLease), lease' = Renewed(c),
             SendInput(p, localLease), UNCHANGED <<issued, localIds, localLease>>
      PROVE  IInv'
  <2>1. /\ lease' \in LeaseState /\ SameLease /\ SameIds
        /\ localLease \in LeaseIds /\ lease'.id = localLease
    BY <1>2, LeaseOk, LeaseFacts DEF SameLease, SameIds
  <2>2. LeaseTyped' /\ LeaseKnown'
    BY <1>2, <2>1, StillKnown, LeaseOk DEF LeaseTyped, Inside, Within
  <2>3. UNCHANGED <<armed, switching>>
    BY <1>2 DEF SendInput, localVars
  <2>4. Outcome
    BY <2>1, <2>3 DEF Outcome
  <2> QED
    BY <1>1, <1>2, <2>1, <2>2, <2>4, InputKeeps DEF Inside, Within
<1>3. ASSUME NEW c \in Clock(lease), lease' = TransitionExpired(c), localLease' = NoLease,
             EndSection(p, FALSE), UNCHANGED <<issued, localIds>>
      PROVE  IInv'
  BY <1>3, NoticeOnly, SectionEnds DEF SameIds, Inside
<1>4. ASSUME NEW c \in Clock(lease), ~ClaimBusy(c), ~ClaimOwed(c), issued < MaxLease,
             lease' = Granted(issued + 1), issued' = issued + 1,
             localIds' = localIds \cup {issued + 1}, localLease' = issued + 1,
             SendInput(p, issued + 1)
      PROVE  IInv'
  <2>1. lease.id = NoLease /\ ~lease.owed
    BY <1>4, LeaseOk, LeaseFacts
  <2>2. /\ LeaseTyped' /\ LeaseKnown' /\ Granting /\ lease'.id = issued + 1
        /\ issued + 1 \in LeaseIds
    BY <1>4, <2>1, Grants DEF Inside, Within
  <2>3. UNCHANGED <<armed, switching>>
    BY <1>4 DEF SendInput, localVars
  <2>4. Outcome
    BY <1>1, <1>4, <2>2, <2>3 DEF Outcome
  <2> QED
    BY <1>1, <1>4, <2>2, <2>4, InputKeeps DEF Inside, Within
<1> QED
  BY <1>2, <1>3, <1>4 DEF SubmitBody

LEMMA LocalReleaseKeeps ==
  ASSUME IInv, NEW p \in Procs, Inside(p), ~lease.owed, NEW i, LocalReleaseBody(p, i)
  PROVE  IInv'
<1>1. PICK c \in Clock(lease) :
        /\ localLease' = NoLease /\ UNCHANGED <<issued, localIds>>
        /\ \/ lease' = Released(c) /\ StartRelease(p, "final")
           \/ lease' = TransitionExpired(c) /\ EndSection(p, TRUE)
  BY DEF LocalReleaseBody
<1>2. CASE lease' = Released(c) /\ StartRelease(p, "final")
  BY <1>1, <1>2, SectionReleases DEF SameIds
<1>3. CASE lease' = TransitionExpired(c) /\ EndSection(p, TRUE)
  BY <1>1, <1>3, NoticeOnly, SectionEnds DEF SameIds, Inside
<1> QED
  BY <1>1, <1>2, <1>3

LEMMA BodyKeeps ==
  ASSUME IInv, NEW p \in Procs, Inside(p), ~lease.owed, Body(p)
  PROVE  IInv'
<1>1. CASE EndSection(p, TRUE) /\ UNCHANGED leaseVars
  BY <1>1, SectionUnchanged DEF Inside
<1> QED
  BY <1>1, ClaimKeeps, RenewKeeps, ReleaseBodyKeeps, InputBodyKeeps, SwitchKeeps,
     ArmBodyKeeps, SubmitKeeps, LocalReleaseKeeps DEF Body

-----------------------------------------------------------------------------
(* The actions: entering control_gate.                                        *)

LEMMA NotOnTheWire ==
  ASSUME NEW p \in Procs, UNCHANGED serialVars, co[p].pc # "wire"
  PROVE  SerialTurn(p) /\ (co[p].pc # "send" => ~AtWork(p))
  BY DEF SerialTurn, AtWork

LEMMA GateIsWithin ==
  ASSUME NEW p \in Procs, AtGate(p), UNCHANGED serialVars, UNCHANGED use
  PROVE  Within(p) /\ ~AtWork(p)
  BY NotOnTheWire DEF AtGate, Within

LEMMA EnterRefusedKeeps ==
  ASSUME IInv, UNCHANGED use, NEW p \in Procs, EnterRefused(p)
  PROVE  IInv'
  BY GateIsWithin, SectionUnchanged DEF EnterRefused

LEMMA EnterKeeps ==
  ASSUME IInv, UNCHANGED use, NEW p \in Procs, Enter(p)
  PROVE  IInv'
<1>1. Inside(p)
  BY GateIsWithin DEF Enter, Inside
<1>2. CASE ~ReleaseOwed(lease) /\ Body(p)
  <2>1. ~lease.owed
    BY <1>2, LeaseOk DEF ReleaseOwed, TransitionExpired
  <2> QED
    BY <1>1, <1>2, <2>1, BodyKeeps
<1>3. CASE \E c \in Clock(lease) : ReleaseOwed(c) /\ Drain(p, c)
  BY <1>1, <1>3, SectionDrains
<1> QED
  BY <1>2, <1>3 DEF Enter

LEMMA EnterLocalReleaseKeeps ==
  ASSUME IInv, UNCHANGED use, NEW p \in Procs, EnterLocalRelease(p)
  PROVE  IInv'
<1>1. Inside(p)
  BY GateIsWithin DEF EnterLocalRelease, Inside, GuardedByMode
<1>2. CASE EndSection(p, TRUE) /\ UNCHANGED leaseVars
  BY <1>1, <1>2, SectionUnchanged DEF Inside
<1>3. CASE ~ReleaseOwed(lease) /\ LocalReleaseBody(p, localLease)
  <2>1. ~lease.owed
    BY <1>3, LeaseOk DEF ReleaseOwed, TransitionExpired
  <2> QED
    BY <1>1, <1>3, <2>1, LocalReleaseKeeps
<1>4. CASE \E c \in Clock(lease) : ReleaseOwed(c) /\ Drain(p, c)
  BY <1>1, <1>4, SectionDrains
<1> QED
  BY <1>2, <1>3, <1>4 DEF EnterLocalRelease

LEMMA EnterForcedKeeps ==
  ASSUME IInv, UNCHANGED use, NEW p \in Procs, EnterForced(p)
  PROVE  IInv'
<1>1. Within(p)
  BY GateIsWithin DEF EnterForced
<1>2. lease' \in LeaseState /\ lease'.id = NoLease /\ ~lease'.owed /\ localLease' = NoLease /\ SameIds
  BY DEF EnterForced, ForceCleared, FreshLease, LeaseState, SameIds
<1>3. LeaseKnown' /\ LeaseTyped'
  BY <1>2, StillKnown, LeaseOk DEF LeaseTyped, SameIds
<1> QED
  BY <1>1, <1>2, <1>3, ReleaseKeeps DEF EnterForced, Within

LEMMA LeaseUntouched ==
  ASSUME IInv, UNCHANGED leaseVars, UNCHANGED use
  PROVE  SameLease /\ SameIds /\ LeaseTyped' /\ LeaseKnown'
  BY StillKnown, LeaseOk DEF leaseVars, SameLease, SameIds, LeaseTyped

LEMMA EnterUnswitchKeeps ==
  ASSUME IInv, UNCHANGED use, NEW p \in Procs, EnterUnswitch(p)
  PROVE  IInv'
<1>1. Within(p) /\ ~AtWork(p)
  BY GateIsWithin DEF EnterUnswitch
<1>2. SameLease /\ SameIds /\ LeaseTyped' /\ LeaseKnown'
  BY LeaseUntouched DEF EnterUnswitch
<1>3. /\ co \in [Procs -> Coroutine] /\ events \in Seq(Procs) /\ gate' \in Seq(Procs)
      /\ {armed, forwarded} \subseteq BOOLEAN
      /\ UNCHANGED <<events, armed, forwarded, fresh>> /\ switching' = FALSE
  BY <1>1, Queues DEF EnterUnswitch, IInv, TypeOK, Within, localVars
<1>4. Turned(p, "idle", None, None, None, NoLease, "up")
  BY <1>3, SleepDoes DEF EnterUnswitch
<1>5. \A q \in Others(p) : co'[q] = co[q] /\ EventsHeld(q)' /\ GateHeld(q)'
  BY <1>1, <1>3, <1>4, EventsKept, AloneHolds, HolderAlone DEF Turned, Others, Within
<1>6. Rests(p)
  BY <1>3, <1>4, <1>5 DEF Rests, Quiet, Turned, Resting, EventsHeld, Presenting, OfRequests, None
<1>7. Outcome
  BY <1>2, <1>3 DEF Outcome
<1> QED
  BY <1>1, <1>2, <1>3, <1>5, <1>6, <1>7, RestKeeps DEF Within

-----------------------------------------------------------------------------
(* The actions outside control_gate: the queues only grow at their ends.      *)

(* p moves on with nothing in hand and no lock given up but the event lock. *)
LEMMA QuietStep ==
  ASSUME IInv, UNCHANGED use, NEW p \in Procs, Quiet(p), Shape(p)', UNCHANGED leaseVars,
         UNCHANGED switching, SerialTurn(p), ~AtWork(p),
         \/ gate' = gate \/ gate' = Append(gate, p) \/ Holds(gate, p),
         (armed' => armed) \/ (~switching /\ lease.id \in localIds \cup {NoLease})
  PROVE  IInv'
<1>1. SameLease /\ SameIds /\ LeaseTyped' /\ LeaseKnown'
  BY LeaseUntouched
<1>2. ArmedExclusive' /\ EyesBeforeHands'
  BY DEF IInv, ArmedExclusive, EyesBeforeHands, leaseVars
<1>3. ASSUME NEW q \in Others(p) PROVE GateHeld(q)'
  <2>1. q \in Procs /\ co'[q] = co[q] /\ GateHeld(q) /\ gate \in Seq(Procs)
    BY DEF Quiet, Others, IInv, Coherent, TypeOK
  <2>2. CASE Holds(gate, p)
    BY <2>1, <2>2, HolderAlone, AloneHolds
  <2>3. CASE gate' = gate \/ gate' = Append(gate, p)
    <3>1. Holds(gate, q) => Holds(gate', q)
      BY <2>1, <2>3, StillFirst
    <3> QED
      BY <2>1, <3>1 DEF GateHeld, AtWork, Arming
  <2> QED
    BY <2>2, <2>3
<1>4. switching' \in BOOLEAN
  BY DEF IInv, TypeOK
<1> QED
  BY <1>1, <1>2, <1>3, <1>4, QuietKeeps DEF LeaseTurn

(* The parts of Quiet(p) that a step owes to the event lock. *)
LEMMA EventQueue ==
  ASSUME IInv, NEW p \in Procs, \A q \in Others(p) : co'[q] = co[q],
         \/ events' = events
         \/ events' = Append(events, p)
         \/ Holds(events, p) /\ events' = Tail(events)
  PROVE  events' \in Seq(Procs) /\ \A q \in Others(p) : EventsHeld(q)'
<1>1. events \in Seq(Procs)
  BY DEF IInv, TypeOK
<1>2. CASE events' = events
  BY <1>1, <1>2, EventsKept DEF Others
<1>3. CASE events' = Append(events, p)
  <2>1. ASSUME NEW q \in Others(p) PROVE EventsHeld(q)'
    <3>1. q \in Procs /\ EventsHeld(q) /\ (Holds(events, q) => Holds(events', q))
      BY <1>1, <1>3, StillFirst DEF IInv, Coherent, Others
    <3> QED
      BY <3>1 DEF EventsHeld
  <2> QED
    BY <1>1, <1>3, <2>1, StillFirst
<1>4. CASE Holds(events, p) /\ events' = Tail(events)
  BY <1>4, Queues, OwnerOfEvents
<1> QED
  BY <1>2, <1>3, <1>4

LEMMA Facts ==
  ASSUME IInv, NEW p \in Procs
  PROVE  /\ co \in [Procs -> Coroutine] /\ gate \in Seq(Procs) /\ events \in Seq(Procs)
         /\ armed \in BOOLEAN /\ forwarded \in BOOLEAN
         /\ Shape(p) /\ EventsHeld(p) /\ fresh \subseteq Procs
         /\ issued \in 0..MaxLease /\ localIds \subseteq LeaseIds
  BY DEF IInv, TypeOK, Coherent

(* p was not sending release_all and does nothing to the lease. *)
Aside(p) == SerialTurn(p) /\ ~AtWork(p) /\ UNCHANGED <<leaseVars, switching>>

LEMMA AsideFacts ==
  ASSUME NEW p \in Procs, Aside(p)
  PROVE  /\ SerialTurn(p) /\ ~AtWork(p) /\ UNCHANGED leaseVars /\ UNCHANGED switching
         /\ UNCHANGED <<issued, localIds>>
  BY DEF Aside, leaseVars

LEMMA StartGatedKeeps ==
  ASSUME IInv, UNCHANGED use, NEW p \in Procs, NEW t \in use.calls[p], StartGated(p, t)
  PROVE  IInv'
<1>1. p \in Requests /\ t \in AllEndpoints \ {"disarm", "emergency"}
  BY ControlAssumption DEF StartGated, IInv, LeaseKnown
<1>2. PICK i \in IF t \in Presenting THEN 1..issued \ localIds ELSE {NoLease} :
        co' = [co EXCEPT ![p] = [Asleep EXCEPT !.pc = "gate", !.task = t, !.sect = t, !.lid = i]]
  BY DEF StartGated, Presenting, OfRequests
<1>3. i \in LeaseIds \cup {NoLease}
  BY Facts, MaxLeaseAssumption DEF LeaseIds
<1>4. Turned(p, "gate", t, t, None, i, "up")
  <2>1. Asleep \in Coroutine
    BY DEF Asleep, Coroutine, Labels, Sections, Reasons, Effects
  <2>2. t \in AllEndpoints \cup {None} /\ t \in Sections /\ "gate" \in Labels
    BY <1>1 DEF Sections, Labels
  <2>3. co' \in [Procs -> Coroutine]
    BY <1>2, <1>3, <2>1, <2>2, Facts DEF Coroutine
  <2> QED
    BY <1>2, <2>3, Facts DEF Turned, Asleep
<1>5. Aside(p)
  BY DEF StartGated, Aside, SerialTurn, AtWork
<1>6. gate' = Append(gate, p) /\ gate' \in Seq(Procs) /\ UNCHANGED <<armed, forwarded, events, fresh>>
  BY Facts DEF StartGated, localVars
<1>7. Quiet(p)
  <2>1. \A q \in Others(p) : co'[q] = co[q] /\ EventsHeld(q)'
    BY <1>4, <1>6, EventQueue DEF Turned, Others
  <2>2. p \notin Readers /\ t # "localrelease"
    BY <1>1, ControlAssumption DEF AllEndpoints
  <2>3. EventsHeld(p)'
    BY <1>4, <2>2 DEF EventsHeld, Turned
  <2> QED
    BY <1>4, <1>6, <2>1, <2>3, Facts DEF Quiet, Turned, Resting
<1>8. Shape(p)'
  BY <1>1, <1>2, <1>4, AsideFacts, <1>5 DEF Shape, Turned, AllEndpoints, AtWork, Sends
<1> QED
  BY <1>5, <1>6, <1>7, <1>8, AsideFacts, QuietStep

LEMMA StartDisarmKeeps ==
  ASSUME IInv, UNCHANGED use, NEW p \in Procs, NEW t \in use.calls[p], StartDisarm(p, t)
  PROVE  IInv'
<1>1. p \in Requests /\ t \in {"disarm", "emergency"} /\ Aside(p)
  BY DEF StartDisarm, Aside, SerialTurn, AtWork
<1>2. Turned(p, "event", t, None, None, NoLease, "up")
  <2>1. Asleep \in Coroutine
    BY DEF Asleep, Coroutine, Labels, Sections, Reasons, Effects
  <2>2. t \in AllEndpoints \cup {None} /\ "event" \in Labels
    BY <1>1 DEF AllEndpoints, Labels
  <2>3. co' \in [Procs -> Coroutine]
    BY <2>1, <2>2, Facts DEF Coroutine, StartDisarm
  <2> QED
    BY <2>3, Facts DEF Turned, Asleep, StartDisarm
<1>3. events' = Append(events, p) /\ UNCHANGED <<gate, armed, forwarded, fresh>>
  BY DEF StartDisarm, localVars
<1>4. Quiet(p)
  BY <1>2, <1>3, EventQueue, Facts DEF Quiet, Turned, Resting, Others, EventsHeld
<1>5. Shape(p)'
  BY <1>1, <1>2 DEF Shape, Turned, Presenting, OfRequests, AtWork, Sends, None
<1> QED
  BY <1>1, <1>3, <1>4, <1>5, AsideFacts, QuietStep

(* p queues for control_gate to run section s. *)
LEMMA JoinKeeps ==
  ASSUME IInv, UNCHANGED use, NEW p \in Procs, NEW s \in Sections, Aside(p),
         JoinGate(p, s, gate), fresh' \subseteq fresh, {armed', forwarded'} \subseteq BOOLEAN,
         armed' => armed, s \notin OfRequests, s = "submit" => p \in Readers,
         \/ events' = events
         \/ Holds(events, p) /\ events' = Tail(events),
         p \in Readers \/ s = "localrelease" => Holds(events', p)
  PROVE  IInv'
<1>1. Turned(p, "gate", co[p].task, s, None, co[p].lid, co[p].job)
      /\ gate' = Append(gate, p) /\ gate' \in Seq(Procs)
  BY Facts, JoinGateDoes
<1>2. Quiet(p)
  <2>1. events' \in Seq(Procs) /\ \A q \in Others(p) : co'[q] = co[q] /\ EventsHeld(q)'
    BY <1>1, EventQueue DEF Turned, Others
  <2>2. EventsHeld(p)'
    BY <1>1 DEF EventsHeld, Turned, Holds
  <2> QED
    BY <1>1, <2>1, <2>2 DEF Quiet, Turned, Resting
<1>3. Shape(p)'
  BY <1>1, Facts, AsideFacts DEF Shape, Turned, OfRequests, AtWork, Sends
<1> QED
  BY <1>1, <1>2, <1>3, AsideFacts, QuietStep

LEMMA WatchdogKeeps ==
  ASSUME IInv, UNCHANGED use, WatchdogTick
  PROVE  IInv'
<1>1. Watchdog \in Procs /\ Watchdog \notin Readers
  BY ControlAssumption DEF Procs
<1>2. Aside(Watchdog) /\ JoinGate(Watchdog, "watchdog", gate)
      /\ UNCHANGED <<armed, forwarded, events, fresh>>
  BY DEF WatchdogTick, Aside, SerialTurn, AtWork, localVars
<1> QED
  BY <1>1, <1>2, JoinKeeps, Facts DEF Sections, OfRequests, Presenting

LEMMA SwitchReturnsKeeps ==
  ASSUME IInv, UNCHANGED use, NEW p \in Procs, SwitchReturns(p)
  PROVE  IInv'
<1>1. p \notin Readers
  BY Facts, ControlAssumption DEF SwitchReturns, Shape, OfRequests, None
<1>2. Aside(p) /\ JoinGate(p, "unswitch", gate) /\ UNCHANGED <<armed, forwarded, events, fresh>>
  BY DEF SwitchReturns, Aside, SerialTurn, AtWork, localVars
<1> QED
  BY <1>1, <1>2, JoinKeeps, Facts DEF Sections, OfRequests, Presenting

LEMMA EventSubmitsKeeps ==
  ASSUME IInv, UNCHANGED use, NEW p \in Procs, EventSubmits(p)
  PROVE  IInv'
<1>1. Aside(p) /\ JoinGate(p, "submit", gate) /\ UNCHANGED <<armed, forwarded, events, fresh>>
      /\ p \in Readers /\ Holds(events, p)
  BY DEF EventSubmits, AtEvents, Aside, SerialTurn, AtWork, localVars
<1>2. "submit" \in Sections /\ Holds(events', p)
  BY <1>1 DEF Sections, Holds
<1> QED
  BY <1>1, <1>2, JoinKeeps, Facts DEF OfRequests, Presenting

LEMMA EventDisarmsKeeps ==
  ASSUME IInv, UNCHANGED use, NEW p \in Procs, EventDisarms(p)
  PROVE  IInv'
<1>1. Aside(p) /\ JoinGate(p, "localrelease", gate) /\ UNCHANGED <<events, fresh>>
      /\ armed' = FALSE /\ forwarded' = FALSE /\ Holds(events, p)
  BY DEF EventDisarms, AtEvents, Aside, SerialTurn, AtWork, DisarmLocked
<1>2. "localrelease" \in Sections /\ Holds(events', p)
  BY <1>1 DEF Sections, Holds
<1> QED
  BY <1>1, <1>2, JoinKeeps DEF OfRequests, Presenting

LEMMA IdleReleasesKeeps ==
  ASSUME IInv, UNCHANGED use, IdleReleases
  PROVE  IInv'
<1>1. Aside(IdleTask) /\ JoinGate(IdleTask, "localrelease", gate) /\ IdleTask \in Procs
      /\ UNCHANGED <<armed, forwarded, events, fresh>> /\ Holds(events, IdleTask)
  BY DEF IdleReleases, AtEvents, Aside, SerialTurn, AtWork, localVars, Procs
<1>2. "localrelease" \in Sections /\ Holds(events', IdleTask)
  BY <1>1 DEF Sections, Holds
<1> QED
  BY <1>1, <1>2, JoinKeeps, Facts DEF OfRequests, Presenting

(* p wakes up, answers or goes back to sleep. *)
LEMMA MovesKeeps ==
  ASSUME IInv, UNCHANGED use, NEW p \in Procs, Aside(p), fresh' \subseteq fresh,
         NEW a \in {"idle", "event", "reply"}, NEW t, NEW s, NEW w, NEW i, NEW e,
         Turned(p, a, t, s, w, i, e),
         \/ t = None /\ s = None
         \/ t = co[p].task /\ s = co[p].sect /\ i = co[p].lid,
         \/ UNCHANGED gate
         \/ Holds(gate, p) /\ gate' = Tail(gate),
         \/ events' = events
         \/ events' = Append(events, p)
         \/ Holds(events, p) /\ events' = Tail(events),
         {armed', forwarded'} \subseteq BOOLEAN,
         (armed' => armed) \/ (~switching /\ lease.id \in localIds \cup {NoLease})
  PROVE  IInv'
<1>1. events' \in Seq(Procs) /\ \A q \in Others(p) : co'[q] = co[q] /\ EventsHeld(q)'
  BY EventQueue DEF Turned, Others
<1>2. Quiet(p)
  BY <1>1, Facts, Queues DEF Quiet, Turned, Resting, EventsHeld
<1>3. Shape(p)'
  BY Facts, AsideFacts DEF Shape, Turned, OfRequests, Presenting, AtWork, Sends, None
<1> QED
  BY <1>2, <1>3, AsideFacts, QuietStep

LEMMA RespondKeeps ==
  ASSUME IInv, UNCHANGED use, NEW p \in Procs, Respond(p)
  PROVE  IInv'
<1>1. Turned(p, "idle", None, None, None, NoLease, "up")
  BY Facts, SleepDoes DEF Respond
<1>2. Aside(p) /\ UNCHANGED <<gate, events, armed, forwarded, fresh>>
  BY DEF Respond, Aside, SerialTurn, AtWork, localVars
<1> QED
  BY <1>1, <1>2, MovesKeeps, Facts

LEMMA StartEventKeeps ==
  ASSUME IInv, UNCHANGED use, NEW p \in Procs, StartEvent(p)
  PROVE  IInv'
<1>1. Turned(p, "event", co[p].task, co[p].sect, co[p].why, co[p].lid, co[p].job)
  BY Facts DEF StartEvent, Turned, Coroutine, Labels
<1>2. Aside(p) /\ UNCHANGED <<gate, armed, forwarded, fresh>> /\ events' = Append(events, p)
  BY DEF StartEvent, Aside, SerialTurn, AtWork, localVars
<1> QED
  BY <1>1, <1>2, MovesKeeps, Facts

LEMMA EventEndsKeeps ==
  ASSUME IInv, UNCHANGED use, NEW p \in Procs, EventEnds(p)
  PROVE  IInv'
<1>1. Aside(p) /\ UNCHANGED <<armed, forwarded, fresh>> /\ Holds(events, p) /\ events' = Tail(events)
  BY DEF EventEnds, AtEvents, Aside, SerialTurn, AtWork, localVars
<1>2. CASE co[p].task = "emergency"
  <2>1. p \notin Readers /\ "emergency" \in Sections
    BY <1>2, Facts, ControlAssumption DEF Shape, None, Sections, AllEndpoints
  <2>2. JoinGate(p, "emergency", gate)
    BY <1>2 DEF EventEnds
  <2> QED
    BY <1>1, <2>1, <2>2, JoinKeeps, Facts DEF OfRequests, Presenting
<1>3. CASE co[p].task = "disarm"
  <2>1. co' = [co EXCEPT ![p].pc = "reply", ![p].why = "confirmed"] /\ UNCHANGED gate
    BY <1>3 DEF EventEnds
  <2>2. Turned(p, "reply", co[p].task, co[p].sect, "confirmed", co[p].lid, co[p].job)
    BY <2>1, Facts DEF Turned, Coroutine, Labels, Reasons
  <2> QED
    BY <1>1, <2>1, <2>2, MovesKeeps, Facts
<1>4. CASE co[p].task \notin {"emergency", "disarm"}
  <2>1. Sleep(p) /\ UNCHANGED gate
    BY <1>4 DEF EventEnds
  <2>2. Turned(p, "idle", None, None, None, NoLease, "up")
    BY <2>1, SleepDoes, Facts
  <2> QED
    BY <1>1, <2>1, <2>2, MovesKeeps, Facts
<1> QED
  BY <1>2, <1>3, <1>4

LEMMA ArmKeeps ==
  ASSUME IInv, UNCHANGED use, NEW p \in Procs, Arm(p)
  PROVE  IInv'
<1>1. Aside(p) /\ Arming(p) /\ UNCHANGED fresh /\ Holds(events, p) /\ events' = Tail(events)
      /\ gate' = Tail(gate) /\ Sleep(p)
  BY DEF Arm, Aside, SerialTurn, AtWork, Arming
<1>2. Holds(gate, p) /\ ~switching /\ lease.id \in localIds \cup {NoLease}
  BY <1>1 DEF IInv, Coherent, GateHeld, Relies
<1>3. Turned(p, "idle", None, None, None, NoLease, "up")
  BY <1>1, SleepDoes, Facts
<1>4. {armed', forwarded'} \subseteq BOOLEAN
  BY Facts DEF Arm
<1> QED
  BY <1>1, <1>2, <1>3, <1>4, MovesKeeps

-----------------------------------------------------------------------------
(* The actions on the serial link. *)

LEMMA SendersFacts ==
  ASSUME IInv, NEW p \in Procs, co[p].pc \in {"send", "wire"}
  PROVE  /\ co[p].why \in {"drain", "final"} => AtWork(p) /\ Holds(gate, p)
         /\ co[p].why = "input" => Sends(p) /\ ~AtWork(p) /\ p \in Requests \cup Readers
         /\ p \in Readers => Holds(events, p) /\ p \notin Requests
  BY ControlAssumption
  DEF IInv, Coherent, GateHeld, EventsHeld, Shape, AtWork, Sends

(* The command was executed, refused or lost, and its sender is told. *)
LEMMA InputResumes ==
  ASSUME IInv, UNCHANGED use, NEW p \in Procs, NEW result \in {"ok", "refused", "lost"},
         co[p].pc \in {"send", "wire"}, SerialTurn(p), co[p].why = "input",
         Resume(p, result)
  PROVE  IInv'
<1>1. Aside(p) /\ events' = events /\ fresh' \subseteq fresh
      /\ (p \in Readers => Holds(events', p) /\ p \notin Requests)
      /\ p \in Requests \cup Readers
  BY SendersFacts DEF Resume, Aside, Holds
<1>2. CASE result = "lost"
  <2>1. JoinGate(p, "invalidate", gate) /\ UNCHANGED <<armed, forwarded>>
    BY <1>2 DEF Resume, localVars
  <2> QED
    BY <1>1, <2>1, JoinKeeps, Facts DEF Sections, OfRequests, Presenting
<1>3. CASE result # "lost" /\ p \in Requests
  <2>1. Sleep(p) /\ UNCHANGED <<gate, armed, forwarded>>
    BY <1>1, <1>3 DEF Resume, localVars
  <2>2. Turned(p, "idle", None, None, None, NoLease, "up")
    BY <2>1, SleepDoes, Facts
  <2> QED
    BY <1>1, <2>1, <2>2, MovesKeeps, Facts
<1>4. CASE result = "ok" /\ p \in Readers
  <2>1. /\ forwarded' \in BOOLEAN /\ UNCHANGED <<gate, armed>>
        /\ co' = [co EXCEPT ![p] = [Asleep EXCEPT !.pc = "event"]]
    BY <1>1, <1>4 DEF Resume
  <2>2. Turned(p, "event", None, None, None, NoLease, "up")
    <3>1. Asleep \in Coroutine /\ "event" \in Labels
      BY DEF Asleep, Coroutine, Labels, Sections, Reasons, Effects
    <3>2. co' \in [Procs -> Coroutine]
      BY <2>1, <3>1, Facts DEF Coroutine
    <3> QED
      BY <2>1, <3>2, Facts DEF Turned, Asleep
  <2> QED
    BY <1>1, <2>1, <2>2, MovesKeeps, Facts
<1>5. CASE result = "refused" /\ p \in Readers
  <2>1. armed' = FALSE /\ forwarded' = FALSE /\ JoinGate(p, "localrelease", gate)
    BY <1>1, <1>5 DEF Resume
  <2>2. {armed', forwarded'} \subseteq BOOLEAN /\ "localrelease" \in Sections \ OfRequests
    BY <2>1 DEF Sections, OfRequests, Presenting
  <2> QED
    BY <1>1, <1>5, <2>1, <2>2, JoinKeeps
<1> QED
  BY <1>1, <1>2, <1>3, <1>4, <1>5

LEMMA ResumeKeeps ==
  ASSUME IInv, UNCHANGED use, NEW p \in Procs, NEW result \in {"ok", "refused", "lost"},
         co[p].pc \in {"send", "wire"}, SerialTurn(p),
         result = "ok" /\ AtWork(p) => held = {} /\ line' = Silent,
         Resume(p, result)
  PROVE  IInv'
<1>1. CASE co[p].why = "input"
  BY <1>1, InputResumes
<1>2. CASE co[p].why \in {"drain", "final"} /\ result = "ok"
  <2>1. Within(p) /\ AtWork(p) /\ held = {} /\ line' = Silent
    BY <1>2, SendersFacts DEF Within
  <2>2. CASE co[p].why = "drain" /\ Body(p)
    <3>1. ~lease.owed /\ (co[p].sect \in GuardedByMode => ~switching)
      BY <2>1, <2>2 DEF IInv, Coherent, Relies
    <3> QED
      BY <2>1, <2>2, <3>1, BodyKeeps DEF Inside
  <2>3. CASE co[p].why = "final" /\ EndSection(p, TRUE) /\ UNCHANGED leaseVars
    BY <2>1, <2>3, SectionUnchanged
  <2> QED
    BY <1>2, <2>2, <2>3 DEF Resume
<1>3. CASE co[p].why \in {"drain", "final"} /\ result # "ok"
  <2>1. /\ lease' = MarkReleaseRequired(lease) /\ EndSection(p, FALSE)
        /\ UNCHANGED <<issued, localIds, localLease>>
    BY <1>3 DEF Resume
  <2>2. lease' \in LeaseState /\ ExpiredLease
    BY <2>1 DEF MarkReleaseRequired, LeaseState, ExpiredLease
  <2>3. Within(p)
    BY <1>3, <2>2, SendersFacts DEF Within, ExpiredLease
  <2> QED
    BY <2>1, <2>2, <2>3, SectionEnds DEF SameIds
<1> QED
  BY <1>1, <1>2, <1>3 DEF Resume

LEMMA SendFailsKeeps ==
  ASSUME IInv, UNCHANGED use, NEW p \in Procs, SendFails(p)
  PROVE  IInv'
<1>1. SerialTurn(p)
  BY DEF SendFails, SerialTurn
<1> QED
  BY <1>1, ResumeKeeps DEF SendFails

LEMMA ReplyArrivesKeeps ==
  ASSUME IInv, UNCHANGED use, NEW p \in Procs, ReplyArrives(p)
  PROVE  IInv'
<1>1. SerialTurn(p) /\ line' = Silent
  BY DEF ReplyArrives, SerialTurn
<1>2. AtWork(p) /\ line = Ack => held = {}
  BY DEF ReplyArrives, IInv, Coherent, OnWire
<1> QED
  BY <1>1, <1>2, ResumeKeeps DEF ReplyArrives

LEMMA ExchangeFailsKeeps ==
  ASSUME IInv, UNCHANGED use, NEW p \in Procs, ExchangeFails(p)
  PROVE  IInv'
<1>1. SerialTurn(p)
  BY DEF ExchangeFails, SerialTurn
<1> QED
  BY <1>1, ResumeKeeps DEF ExchangeFails

LEMMA SendStartKeeps ==
  ASSUME IInv, UNCHANGED use, NEW p \in Procs, SendStart(p)
  PROVE  IInv'
<1>1. /\ wire' = {p} /\ wire = {} /\ p \in fresh
      /\ line' = [lease |-> IF co[p].job = "release" THEN NoLease ELSE co[p].lid,
                  eff |-> co[p].job]
      /\ UNCHANGED <<leaseVars, armed, forwarded, switching, gate, events, fresh,
                     session, pico, held, faults>>
      /\ co[p].pc = "send" /\ co' = [co EXCEPT ![p].pc = "wire"]
  BY DEF SendStart, localVars
<1>2. co[p] \in Coroutine /\ Shape(p) /\ GateHeld(p) /\ EventsHeld(p) /\ Relies(p)
  BY Facts DEF IInv, Coherent
<1>3. Turned(p, "wire", co[p].task, co[p].sect, co[p].why, co[p].lid, co[p].job)
  BY <1>1, Facts DEF Turned, Coroutine, Labels
<1>4. /\ AtWork(p)' <=> AtWork(p)
      /\ Sends(p)' <=> Sends(p)
      /\ ~Arming(p)'
  BY <1>1, <1>3 DEF Turned, AtWork, Sends, Arming
<1>5. line' \in Commands /\ line'.eff = co[p].job
      /\ line'.lease = IF co[p].job = "release" THEN NoLease ELSE co[p].lid
  BY <1>1, <1>2 DEF Commands, Coroutine
<1>6. SameLease /\ SameIds /\ LeaseKnown'
  BY <1>1, LeaseUntouched
<1>7. TypeOK'
  BY <1>1, <1>3, <1>5 DEF IInv, TypeOK, Turned, leaseVars
<1>8. \A q \in Others(p) : co'[q] = co[q] /\ GateHeld(q)' /\ EventsHeld(q)'
  <2>1. ASSUME NEW q \in Others(p) PROVE co'[q] = co[q] /\ GateHeld(q)'
    <3>1. q \in Procs /\ co'[q] = co[q] /\ GateHeld(q)
      BY <1>3 DEF Turned, Others, IInv, Coherent
    <3> QED
      BY <1>1, <3>1 DEF GateHeld, AtWork, Arming, Holds
  <2> QED
    BY <1>1, <2>1, EventsKept DEF Others
<1>9. Coherent(p)'
  <2>1. Shape(p)'
    BY <1>1, <1>2, <1>3, <1>4 DEF Shape, Turned, leaseVars
  <2>2. GateHeld(p)' /\ EventsHeld(p)'
    BY <1>1, <1>2, <1>3, <1>4 DEF GateHeld, EventsHeld, Turned, Holds, AtWork
  <2>3. Relies(p)'
    BY <1>1, <1>2, <1>3, <1>4 DEF Relies, Turned, leaseVars
  <2>4. OnWire(p)'
    BY <1>1, <1>2, <1>4, <1>5, SilentIsNone DEF OnWire, Shape
  <2> QED
    BY <2>1, <2>2, <2>3, <2>4 DEF Coherent
<1>10. LeaseTurn(p) /\ WireTurn(p)
  BY <1>1, <1>6 DEF LeaseTurn, WireTurn
<1>11. ArmedExclusive' /\ EyesBeforeHands'
  BY <1>1 DEF IInv, ArmedExclusive, EyesBeforeHands, leaseVars
<1>12. InputKnown'
  <2>1. \A q \in Procs : AtWork(q) => AtWork(q)'
    BY <1>4, <1>8 DEF AtWork, Others
  <2>2. \A i \in LeaseIds : OnRecord(i) => OnRecord(i)'
    BY <1>6, <2>1 DEF OnRecord, SameLease
  <2>3. line'.eff = "down" => line'.lease \in LeaseIds /\ OnRecord(line'.lease)
    BY <1>1, <1>2, <1>5 DEF Shape, Relies, OnRecord, Coroutine, AtWork, Sends
  <2> QED
    BY <1>1, <2>2, <2>3 DEF InputKnown, IInv
<1> QED
  BY <1>1, <1>6, <1>7, <1>8, <1>9, <1>10, <1>11, <1>12, TurnKeeps

-----------------------------------------------------------------------------
(* The actions of the link, the Pico and the clock: no coroutine moves.       *)

NothingMoves ==
  /\ UNCHANGED <<co, gate, events, armed, forwarded, switching, issued, localIds, localLease>>
  /\ fresh' \subseteq fresh /\ SameLease

(* Input that is down stays on record, and a sender learns what was done. *)
SerialFits ==
  /\ held' \subseteq LeaseIds /\ \A i \in held' : OnRecord(i)
  /\ line' \in {line, Silent, Ack, Nack}
  /\ \A p \in Procs : co[p].pc = "wire" =>
       /\ wire' = {p}
       /\ AtWork(p) => (line' = line /\ (line = Ack => held' = {}))
                       \/ line' # Ack \/ held' = {}

LEMMA StillKeeps ==
  ASSUME IInv, UNCHANGED use, NothingMoves, SerialFits, TypeOK'
  PROVE  IInv'
<1>1. \A p \in Procs : AtWork(p)' = AtWork(p) /\ Sends(p)' = Sends(p) /\ Arming(p)' = Arming(p)
  BY DEF NothingMoves, AtWork, Sends, Arming
<1>2. \A i : OnRecord(i) => OnRecord(i)'
  BY <1>1 DEF OnRecord, NothingMoves, SameLease
<1>3. line' \in Commands => line' = line
  BY SilentIsNone DEF SerialFits
<1>4. ASSUME NEW p \in Procs PROVE Coherent(p)'
  <2>1. Coherent(p)
    BY DEF IInv
  <2>2. Shape(p)'
    BY <1>1, <2>1 DEF Coherent, Shape, NothingMoves
  <2>3. GateHeld(p)' /\ EventsHeld(p)'
    BY <1>1, <2>1 DEF Coherent, GateHeld, EventsHeld, NothingMoves, Holds
  <2>4. Relies(p)'
    BY <1>1, <2>1 DEF Coherent, Relies, NothingMoves, SameLease
  <2>5. OnWire(p)'
    BY <1>1, <1>3, <2>1 DEF Coherent, OnWire, NothingMoves, SerialFits
  <2> QED
    BY <2>2, <2>3, <2>4, <2>5 DEF Coherent
<1>5. LeaseKnown'
  BY DEF IInv, LeaseKnown, LocalLeaseKnown, NothingMoves, SameLease
<1>6. InputKnown'
  BY <1>2, <1>3 DEF InputKnown, SerialFits, IInv
<1>7. ArmedExclusive' /\ EyesBeforeHands'
  BY DEF IInv, ArmedExclusive, EyesBeforeHands, NothingMoves, SameLease
<1> QED
  BY <1>4, <1>5, <1>6, <1>7 DEF IInv

LEMMA PicoExecutesKeeps ==
  ASSUME IInv, UNCHANGED use, PicoExecutes
  PROVE  IInv'
<1>1. NothingMoves /\ line \in Commands /\ UNCHANGED wire
  BY DEF PicoExecutes, NothingMoves, SameLease, leaseVars, localVars
<1>2. line' \in {Silent, Ack, Nack} /\ (wire # {} => line' # Silent)
  BY DEF PicoExecutes, Silent, Ack, Nack
<1>3. held' \subseteq LeaseIds /\ \A i \in held' : OnRecord(i)
  <2>1. \/ held' \subseteq held
        \/ held' \subseteq held \cup {line.lease} /\ line.eff = "down"
    BY <1>1 DEF PicoExecutes, Commands, Effects
  <2> QED
    BY <1>1, <2>1 DEF IInv, InputKnown
<1>4. line.eff = "release" => held' = {} \/ line' # Ack
  BY <1>1 DEF PicoExecutes, Silent, Ack, Nack
<1>5. SerialFits
  BY <1>1, <1>2, <1>3, <1>4 DEF SerialFits, IInv, Coherent, OnWire
<1>6. TypeOK'
  BY <1>1, <1>2, <1>3 DEF IInv, TypeOK, PicoExecutes, leaseVars, localVars
<1> QED
  BY <1>1, <1>5, <1>6, StillKeeps

LEMMA SessionLostKeeps ==
  ASSUME IInv, UNCHANGED use, SessionLost \/ SessionTornDown
  PROVE  IInv'
<1>1. NothingMoves /\ UNCHANGED <<wire, line, held>>
  BY DEF SessionLost, SessionTornDown, NothingMoves, SameLease, leaseVars, localVars
<1>2. use.faults \in Nat
  BY ControlAssumption DEF IInv, LeaseKnown
<1>3. SerialFits
  BY <1>1 DEF SerialFits, IInv, InputKnown, Coherent, OnWire
<1>4. TypeOK'
  BY <1>1, <1>2 DEF IInv, TypeOK, SessionLost, SessionTornDown, leaseVars, localVars
<1> QED
  BY <1>1, <1>3, <1>4, StillKeeps

LEMMA SessionUpKeeps ==
  ASSUME IInv, UNCHANGED use, SessionUp
  PROVE  IInv'
<1>1. NothingMoves /\ wire = {} /\ held' = {} /\ line' = Silent
  BY DEF SessionUp, NothingMoves, SameLease, leaseVars, localVars
<1>2. SerialFits
  BY <1>1 DEF SerialFits, IInv, Coherent, OnWire
<1>3. TypeOK'
  BY <1>1 DEF IInv, TypeOK, SessionUp, leaseVars, localVars
<1> QED
  BY <1>1, <1>2, <1>3, StillKeeps

LEMMA PicoSelfReleasesKeeps ==
  ASSUME IInv, UNCHANGED use, PicoSelfReleases
  PROVE  IInv'
<1>1. NothingMoves /\ held' = {} /\ UNCHANGED <<wire, line>>
  BY DEF PicoSelfReleases, NothingMoves, SameLease, leaseVars, localVars
<1>2. SerialFits
  BY <1>1 DEF SerialFits, IInv, Coherent, OnWire
<1>3. use.faults \in Nat
  BY ControlAssumption DEF IInv, LeaseKnown
<1>4. faults' \in 0..use.faults /\ session' = session /\ pico' = FALSE
  BY <1>3 DEF IInv, TypeOK, PicoSelfReleases
<1>5. TypeOK'
  BY <1>1, <1>4 DEF IInv, TypeOK, PicoSelfReleases, leaseVars, localVars
<1> QED
  BY <1>1, <1>2, <1>5, StillKeeps

LEMMA LeaseLapsesKeeps ==
  ASSUME IInv, UNCHANGED use, LeaseLapses
  PROVE  IInv'
<1>1. NothingMoves /\ UNCHANGED <<held, wire, line>>
  BY DEF LeaseLapses, Lapsed, NothingMoves, SameLease, localVars, serialVars
<1>2. SerialFits
  BY <1>1 DEF SerialFits, IInv, InputKnown, Coherent, OnWire
<1>3. lease' \in LeaseState
  BY LeaseOk DEF LeaseLapses, Lapsed, LeaseState
<1>4. TypeOK'
  BY <1>1, <1>3 DEF IInv, TypeOK, LeaseLapses, localVars, serialVars
<1> QED
  BY <1>1, <1>2, <1>4, StillKeeps

-----------------------------------------------------------------------------
(* The invariant. *)

LEMMA InitIInv == Init => IInv
<1> SUFFICES ASSUME Init PROVE IInv
  OBVIOUS
<1>1. use.faults \in Nat /\ MaxLease \in Nat
  BY ControlAssumption, MaxLeaseAssumption DEF Init
<1>2. Asleep \in Coroutine /\ \A p \in Procs : co[p] = Asleep
  BY DEF Init, Asleep, Coroutine, Labels, Sections, Reasons, Effects
<1>3. TypeOK
  <2>1. lease \in LeaseState /\ issued \in 0..MaxLease /\ faults \in 0..use.faults
    BY <1>1 DEF Init, FreshLease, LeaseState
  <2>2. co \in [Procs -> Coroutine] /\ gate \in Seq(Procs) /\ events \in Seq(Procs)
    BY <1>2 DEF Init
  <2> QED
    BY <2>1, <2>2 DEF Init, TypeOK
<1>4. \A p \in Procs : co[p].pc = "idle" /\ co[p].task = None /\ co[p].sect = None
  BY <1>2 DEF Asleep
<1>5. \A p \in Procs : Coherent(p)
  BY <1>4 DEF Coherent, Shape, GateHeld, EventsHeld, Relies, OnWire, AtWork, Sends, Arming,
              None, Presenting, OfRequests
<1>6. LeaseKnown /\ InputKnown
  BY SilentIsNone DEF Init, LeaseKnown, LocalLeaseKnown, InputKnown, FreshLease, NoLease
<1>7. ArmedExclusive /\ EyesBeforeHands
  BY DEF Init, ArmedExclusive, EyesBeforeHands
<1> QED
  BY <1>3, <1>5, <1>6, <1>7 DEF IInv

LEMMA CoroutineKeeps ==
  ASSUME IInv, UNCHANGED use, NEW p \in Procs, Step(p)
  PROVE  IInv'
  BY EnterRefusedKeeps, EnterKeeps, EnterLocalReleaseKeeps, EnterForcedKeeps,
     EnterUnswitchKeeps, SwitchReturnsKeeps, RespondKeeps, EventSubmitsKeeps,
     EventDisarmsKeeps, EventEndsKeeps, ArmKeeps, SendStartKeeps, SendFailsKeeps,
     ReplyArrivesKeeps, ExchangeFailsKeeps DEF Step

LEMMA StepIInv == IInv /\ [Next]_vars => IInv'
<1> SUFFICES ASSUME IInv, [Next]_vars PROVE IInv'
  OBVIOUS
<1>1. CASE Next
  <2>1. UNCHANGED use
    BY <1>1 DEF Next
  <2>2. ASSUME NEW r \in Requests, NEW t \in use.calls[r], StartGated(r, t) \/ StartDisarm(r, t)
        PROVE  IInv'
    BY <2>1, <2>2, StartGatedKeeps, StartDisarmKeeps DEF Procs
  <2>3. ASSUME NEW p \in Readers \cup {IdleTask}, StartEvent(p) PROVE IInv'
    BY <2>1, <2>3, StartEventKeeps DEF Procs
  <2>4. ASSUME NEW p \in Procs, Step(p) PROVE IInv'
    BY <2>1, <2>4, CoroutineKeeps
  <2>5. CASE WatchdogTick \/ IdleReleases
    BY <2>1, <2>5, WatchdogKeeps, IdleReleasesKeeps
  <2>6. CASE Link \/ SessionLost \/ PicoSelfReleases \/ LeaseLapses
    BY <2>1, <2>6, PicoExecutesKeeps, SessionLostKeeps, SessionUpKeeps,
       PicoSelfReleasesKeeps, LeaseLapsesKeeps DEF Link
  <2> QED
    BY <1>1, <2>2, <2>3, <2>4, <2>5, <2>6 DEF Next, Happens
<1>2. CASE UNCHANGED vars
  <2>1. /\ UNCHANGED <<lease, issued, localIds, localLease, armed, forwarded, switching,
                       gate, events, co, fresh, use>>
        /\ UNCHANGED <<session, wire, line, pico, held, faults>>
    BY <1>2 DEF vars, moving, leaseVars, localVars, serialVars
  <2>2. NothingMoves
    BY <2>1 DEF NothingMoves, SameLease
  <2>3. SerialFits
    BY <2>1 DEF SerialFits, IInv, InputKnown, Coherent, OnWire
  <2>4. TypeOK'
    BY <2>1 DEF IInv, TypeOK
  <2> QED
    BY <2>1, <2>2, <2>3, <2>4, StillKeeps
<1> QED
  BY <1>1, <1>2

LEMMA Invariant == Spec => []IInv
  BY InitIInv, StepIInv, PTL DEF Spec

-----------------------------------------------------------------------------
(* What follows from it. *)

(* Every variable of the control plane stays in its type. *)
THEOREM Typing == Spec => []TypeOK
<1>1. IInv => TypeOK
  BY DEF IInv
<1> QED
  BY <1>1, Invariant, PTL

(* Input that is down at the target is never forgotten: it belongs to the live
   lease, or ControlLease has its release on record, or the holder of
   control_gate is sending release_all. *)
THEOREM NeverForgotten == Spec => []ReleaseOnRecord
<1>1. IInv => ReleaseOnRecord
  BY DEF IInv, InputKnown, OnRecord, ReleaseOnRecord, Coherent, GateHeld, AtWork
<1> QED
  BY <1>1, Invariant, PTL

(* _claim and submit_local_input never hand the target over while a key or a
   button of an earlier controller is down. *)
THEOREM OneHandAtATime == Spec => []SingleHand
<1>1. IInv => SingleHand
  BY DEF IInv, InputKnown, OnRecord, SingleHand, Coherent, Relies, LeaseKnown
<1> QED
  BY <1>1, Invariant, PTL

(* The lease that release_local_input takes out of the runtime is never the
   lease of an HTTP controller. *)
THEOREM LocalLeaseIsOwn == Spec => []LocalLeaseKnown
<1>1. IInv => LocalLeaseKnown
  BY DEF IInv, LeaseKnown
<1> QED
  BY <1>1, Invariant, PTL

(* No HTTP controller has a lease while the built-in controls are armed: _claim
   and arm_local_input exclude each other across their awaits. *)
THEOREM ArmedExcludesHttp == Spec => []ArmedExclusive
<1>1. IInv => ArmedExclusive
  BY DEF IInv
<1> QED
  BY <1>1, Invariant, PTL

(* Nobody controls the target while the capture mode is switched. *)
THEOREM NoHandsWithoutEyes == Spec => []EyesBeforeHands
<1>1. IInv => EyesBeforeHands
  BY DEF IInv
<1> QED
  BY <1>1, Invariant, PTL

-----------------------------------------------------------------------------
(* Only SendStart puts a coroutine on the wire. *)

NoWriter == \A p \in Procs : co'[p].pc = "wire" => co[p].pc = "wire"

LEMMA NotOnto ==
  ASSUME co \in [Procs -> Coroutine], NEW q \in Procs
  PROVE  /\ Sleep(q) => NoWriter
         /\ \A s, g : JoinGate(q, s, g) => NoWriter
         /\ \A w : StartRelease(q, w) => NoWriter
         /\ \A i : SendInput(q, i) => NoWriter
         /\ WaitsToArm(q) => NoWriter
<1>1. Sleep(q) => NoWriter
  BY DEF Sleep, Asleep, NoWriter
<1>2. \A s, g : JoinGate(q, s, g) => NoWriter
  BY DEF JoinGate, NoWriter, Coroutine
<1>3. \A w : StartRelease(q, w) => NoWriter
  BY DEF StartRelease, NoWriter, Coroutine
<1>4. \A i : SendInput(q, i) => NoWriter
  BY DEF SendInput, NoWriter, Coroutine
<1>5. WaitsToArm(q) => NoWriter
  BY DEF WaitsToArm, NoWriter, Coroutine
<1> QED
  BY <1>1, <1>2, <1>3, <1>4, <1>5

LEMMA EndsNotOnto ==
  ASSUME co \in [Procs -> Coroutine], NEW q \in Procs, NEW ok, EndSection(q, ok)
  PROVE  NoWriter
<1>1. CASE co' = [co EXCEPT ![q].pc = "reply", ![q].why = IF ok THEN "confirmed" ELSE "unconfirmed"]
  BY <1>1 DEF NoWriter, Coroutine
<1>2. CASE Sleep(q) \/ \E s, g : JoinGate(q, s, g)
  BY <1>2, NotOnto
<1> QED
  BY <1>1, <1>2 DEF EndSection, DisarmLocked

LEMMA StartsNotOnto ==
  ASSUME IInv,
         \/ \E r \in Requests : \E t \in use.calls[r] : StartGated(r, t) \/ StartDisarm(r, t)
         \/ WatchdogTick \/ \E q \in Readers \cup {IdleTask} : StartEvent(q)
         \/ IdleReleases
  PROVE  NoWriter
<1>1. co \in [Procs -> Coroutine] /\ {IdleTask, Watchdog} \subseteq Procs
  BY Facts DEF IInv, TypeOK, Procs
<1>2. ASSUME NEW r \in Requests, NEW t, StartGated(r, t) \/ StartDisarm(r, t) PROVE NoWriter
  BY <1>1, <1>2 DEF StartGated, StartDisarm, NoWriter, Asleep
<1>3. ASSUME NEW q \in Readers \cup {IdleTask}, StartEvent(q) PROVE NoWriter
  BY <1>1, <1>3 DEF StartEvent, NoWriter, Coroutine
<1>4. WatchdogTick \/ IdleReleases => NoWriter
  BY <1>1, NotOnto DEF WatchdogTick, IdleReleases
<1> QED
  BY <1>2, <1>3, <1>4

LEMMA SectionNotOnto ==
  ASSUME co \in [Procs -> Coroutine], NEW q \in Procs, Body(q)
  PROVE  NoWriter
<1>1. ASSUME NEW ok, EndSection(q, ok) PROVE NoWriter
  BY <1>1, EndsNotOnto
<1>2. ASSUME NEW L, Drain(q, L) PROVE NoWriter
  BY <1>2, NotOnto DEF Drain
<1>3. ASSUME NEW L, LeaseRejected(q, L) PROVE NoWriter
  BY <1>1, <1>2, <1>3 DEF LeaseRejected
<1>4. ClaimBody(q) \/ RenewBody(q) \/ ReleaseBody(q) \/ InputBody(q) => NoWriter
  BY <1>1, <1>2, <1>3, NotOnto DEF ClaimBody, RenewBody, ReleaseBody, InputBody
<1>5. SwitchBody(q) => NoWriter
  <2>1. co' = [co EXCEPT ![q].pc = "switching"] => NoWriter
    BY DEF NoWriter, Coroutine
  <2> QED
    BY <1>1, <2>1 DEF SwitchBody
<1>6. ArmBody(q) => NoWriter
  BY <1>1, NotOnto DEF ArmBody, WaitsToArm
<1>7. SubmitBody(q) => NoWriter
  BY <1>1, NotOnto DEF SubmitBody
<1>8. ASSUME NEW i, LocalReleaseBody(q, i) PROVE NoWriter
  BY <1>1, <1>8, NotOnto DEF LocalReleaseBody
<1> QED
  BY <1>1, <1>4, <1>5, <1>6, <1>7, <1>8 DEF Body

LEMMA StepNotOnto ==
  ASSUME IInv, NEW q \in Procs, Step(q)
  PROVE  NoWriter \/ SendStart(q)
<1> co \in [Procs -> Coroutine]
  BY Facts
<1>1. ASSUME NEW ok, EndSection(q, ok) PROVE NoWriter
  BY <1>1, EndsNotOnto
<1>2. ASSUME NEW L, Drain(q, L) PROVE NoWriter
  BY <1>2, NotOnto DEF Drain
<1>3. ASSUME NEW i, LocalReleaseBody(q, i) PROVE NoWriter
  BY <1>1, <1>3, NotOnto DEF LocalReleaseBody
<1>4. EnterRefused(q) \/ EnterForced(q) \/ EnterUnswitch(q) => NoWriter
  BY <1>1, NotOnto DEF EnterRefused, EnterForced, EnterUnswitch
<1>5. Enter(q) \/ EnterLocalRelease(q) => NoWriter
  BY <1>1, <1>2, <1>3, SectionNotOnto DEF Enter, EnterLocalRelease
<1>6. /\ SwitchReturns(q) \/ Respond(q) \/ EventSubmits(q) \/ EventDisarms(q) => NoWriter
      /\ Arm(q) => NoWriter
  BY NotOnto DEF SwitchReturns, Respond, EventSubmits, EventDisarms, DisarmLocked, Arm
<1>7. EventEnds(q) => NoWriter
  <2>1. co' = [co EXCEPT ![q].pc = "reply", ![q].why = "confirmed"] => NoWriter
    BY DEF NoWriter, Coroutine
  <2> QED
    BY <2>1, NotOnto DEF EventEnds
<1>8. ASSUME NEW r \in {"ok", "refused", "lost"}, Resume(q, r), co[q].pc \in {"send", "wire"}
      PROVE  NoWriter
  <2>1. CASE Body(q) \/ EndSection(q, TRUE) \/ EndSection(q, FALSE)
    BY <1>1, <2>1, SectionNotOnto
  <2>2. CASE co[q].why = "input"
    <3>1. co' = [co EXCEPT ![q] = [Asleep EXCEPT !.pc = "event"]] => NoWriter
      BY DEF NoWriter, Asleep
    <3>2. \/ Sleep(q) \/ \E s, g : JoinGate(q, s, g)
          \/ co' = [co EXCEPT ![q] = [Asleep EXCEPT !.pc = "event"]]
      <4>1. q \in Requests \cup Readers
        BY <1>8, <2>2, SendersFacts
      <4>2. CASE r = "lost"
        BY <1>8, <2>2, <4>2 DEF Resume
      <4>3. CASE r # "lost" /\ q \in Requests
        BY <1>8, <2>2, <4>3 DEF Resume
      <4>4. CASE r # "lost" /\ q \in Readers \ Requests
        BY <1>8, <2>2, <4>4 DEF Resume
      <4> QED
        BY <4>1, <4>2, <4>3, <4>4
    <3> QED
      BY <3>1, <3>2, NotOnto
  <2> QED
    BY <1>8, <2>1, <2>2 DEF Resume
<1>9. SendFails(q) \/ ReplyArrives(q) \/ ExchangeFails(q) => NoWriter
  BY <1>8 DEF SendFails, ReplyArrives, ExchangeFails
<1> QED
  BY <1>4, <1>5, <1>6, <1>7, <1>9 DEF Step

(* A command of an earlier controller never reaches the wire: the generation it
   captured under control_gate is stale unless its lease is still the live one
   or the release that undoes it is still owed. *)
THEOREM FencedHolds == Spec => FencedSend
<1>1. ASSUME IInv, [Next]_vars, NEW p \in Procs,
             co[p].pc = "send", co'[p].pc = "wire", co[p].why = "input"
      PROVE  lease.id = co[p].lid \/ (lease.id = NoLease /\ lease.owed)
  <2>1. CASE UNCHANGED vars
    BY <1>1, <2>1 DEF vars, moving
  <2>2. CASE Happens
    <3>1. ~NoWriter
      BY <1>1 DEF NoWriter
    <3>2. \/ \E r \in Requests : \E t \in use.calls[r] : StartGated(r, t) \/ StartDisarm(r, t)
          \/ WatchdogTick \/ \E q \in Readers \cup {IdleTask} : StartEvent(q)
          \/ IdleReleases
          => NoWriter
      BY <1>1, StartsNotOnto
    <3>3. UNCHANGED co => NoWriter
      BY DEF NoWriter
    <3>4. Link \/ SessionLost \/ PicoSelfReleases \/ LeaseLapses => UNCHANGED co
      BY DEF Link, PicoExecutes, SessionTornDown, SessionUp, SessionLost, PicoSelfReleases,
             LeaseLapses
    <3>5. PICK q \in Procs : SendStart(q)
      BY <1>1, <2>2, <3>1, <3>2, <3>3, <3>4, StepNotOnto DEF Happens
    <3>6. q = p
      BY <1>1, <3>5, Facts DEF SendStart
    <3>7. p \in fresh /\ Sends(p) /\ Relies(p)
      BY <1>1, <3>5, <3>6 DEF SendStart, Sends, IInv, Coherent
    <3> QED
      BY <1>1, <3>7 DEF Relies
  <2> QED
    BY <1>1, <2>1, <2>2 DEF Next
<1>2. IInv /\ [Next]_vars =>
        [\A p \in Procs :
           co[p].pc = "send" /\ co'[p].pc = "wire" /\ co[p].why = "input"
           => \/ lease.id = co[p].lid
              \/ lease.id = NoLease /\ lease.owed]_vars
  BY <1>1
<1> QED
  BY <1>2, Invariant, PTL DEF Spec, FencedSend
=============================================================================

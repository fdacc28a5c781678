------------------------------- MODULE Lease -------------------------------
(***************************************************************************)
(* The methods of the deadman lease, gateway/noob_gateway/control_lease.py *)
(* as functions from a lease record to a lease record.  The body of every  *)
(* method runs under the lease's own lock and awaits nothing, so a method  *)
(* is atomic and a handler that calls several of them between two awaits   *)
(* is their composition.                                                   *)
(*                                                                         *)
(* A record abstracts the clock: "lapsed" says that the deadline of the    *)
(* lease has passed.  Module ControlLease keeps the deadline itself and is *)
(* shown to implement this abstraction.                                    *)
(***************************************************************************)
EXTENDS Naturals

CONSTANT MaxLease    \* how many leases are ever granted (bound on token_hex)

ASSUME MaxLeaseAssumption == MaxLease \in Nat \ {0}

LeaseIds == 1..MaxLease
NoLease  == 0

LeaseState == [id : LeaseIds \cup {NoLease}, lapsed : BOOLEAN, owed : BOOLEAN]

FreshLease == [id |-> NoLease, lapsed |-> FALSE, owed |-> FALSE]

(* _transition_expired: an expired lease is dropped and leaves an obligation
   to release whatever its controller held. *)
TransitionExpired(L) ==
  IF L.id # NoLease /\ L.lapsed
  THEN [id |-> NoLease, lapsed |-> FALSE, owed |-> TRUE]
  ELSE L

(* claim: the id is new; the caller tests ClaimBusy and ClaimOwed first.
   Defects: the obligation of a lease that has just lapsed is overlooked; the
   id is taken twice from the counter. *)
ClaimBusy(L)       == TransitionExpired(L).id # NoLease
ClaimOwedStale(L)  == ~ClaimBusy(L) /\ L.owed
ClaimOwed(L)       == ~ClaimBusy(L) /\ TransitionExpired(L).owed
GrantedSkip(i)     == [id |-> i + 1, lapsed |-> FALSE, owed |-> FALSE]
Granted(i)         == [id |-> i, lapsed |-> FALSE, owed |-> FALSE]

(* renew, validate and release accept only the id of an unexpired lease. *)
Valid(L, i)   == i # NoLease /\ TransitionExpired(L).id = i
Renewed(L)    == [id |-> L.id, lapsed |-> FALSE, owed |-> L.owed]
Released(L)   == [id |-> NoLease, lapsed |-> FALSE, owed |-> L.owed]

(* force_clear forgets the lease and the obligation. *)
ForceCleared(L) == FreshLease

(* expire_if_needed consumes the obligation and reports whether there was one.
   Defect: it does not look at the clock. *)
ReleaseOwedLatch(L) == L.owed
ReleaseOwed(L) == TransitionExpired(L).owed
Consumed(L) ==
  [id |-> TransitionExpired(L).id, lapsed |-> FALSE, owed |-> FALSE]

(* mark_release_required: a physical release failed, the obligation is back. *)
MarkReleaseRequired(L) == [id |-> NoLease, lapsed |-> FALSE, owed |-> TRUE]

(* snapshot().active; like every other method it notices an expiry first. *)
SnapshotActive(L) == TransitionExpired(L).id # NoLease

(* The deadline passes. *)
Lapsed(L) == [id |-> L.id, lapsed |-> TRUE, owed |-> L.owed]

(* A handler reads the clock once per method, so the deadline may pass between
   two methods of one atomic section. *)
Clock(L) == IF L.id = NoLease THEN {L} ELSE {L, Lapsed(L)}
=============================================================================

---------------------------- MODULE LeaseService ----------------------------
(***************************************************************************)
(* What the deadman lease promises its callers, without a clock: somebody  *)
(* has the lease or nobody has, the deadline of the lease may pass at any  *)
(* moment, and a lease is granted only to nobody's successor and only when *)
(* no release is owed.  GatewayControl is written over these operators,    *)
(* and ControlLease implements this specification with a real deadline.    *)
(***************************************************************************)
EXTENDS Lease

VARIABLES lease, granted

vars == <<lease, granted>>

Init == lease = FreshLease /\ granted = 0

Claim ==
  /\ ~ClaimBusy(lease) /\ ~ClaimOwed(lease) /\ granted < MaxLease
  /\ granted' = granted + 1
  /\ lease' = Granted(granted + 1)

Renew(i) ==
  /\ Valid(lease, i)
  /\ lease' = Renewed(lease)
  /\ UNCHANGED granted

Release(i) ==
  /\ Valid(lease, i)
  /\ lease' = Released(lease)
  /\ UNCHANGED granted

(* A refused call, or a snapshot, may be the first to notice an expiry. *)
Notice ==
  /\ lease' = TransitionExpired(lease)
  /\ UNCHANGED granted

ForceClear == lease' = ForceCleared(lease) /\ UNCHANGED granted

Consume ==
  /\ lease' = Consumed(lease)
  /\ UNCHANGED granted

Mark == lease' = MarkReleaseRequired(lease) /\ UNCHANGED granted

Lapse ==
  /\ lease.id # NoLease /\ ~lease.lapsed
  /\ lease' = Lapsed(lease)
  /\ UNCHANGED granted

Next ==
  \/ Claim \/ Notice \/ ForceClear \/ Consume \/ Mark \/ Lapse
  \/ \E i \in LeaseIds : Renew(i) \/ Release(i)

Spec == Init /\ [][Next]_vars
=============================================================================

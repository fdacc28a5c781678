---------------------------- MODULE ControlLease ----------------------------
(***************************************************************************)
(* class ControlLease, gateway/noob_gateway/control_lease.py, with its     *)
(* deadline.  One action per method and outcome; any caller may call any   *)
(* method at any time with any lease id it was ever given, and the         *)
(* monotonic clock moves between two calls.                                *)
(***************************************************************************)
EXTENDS Integers

CONSTANTS TTL,        \* ttl_seconds, in ticks of the clock
          MaxLease,   \* bound: leases ever granted
          MaxTime     \* bound: how long the clock runs

ASSUME LeaseAssumption ==
  /\ TTL \in Nat \ {0}
  /\ MaxLease \in Nat \ {0}
  /\ MaxTime \in Nat

LeaseIds == 1..MaxLease
NoLease  == 0

VARIABLES
  lease_id,          \* _lease_id: 0 for None, else the number of the grant
  expires_at,        \* _expires_at
  release_required,  \* _release_required
  now,               \* what clock() returns
  granted,           \* leases granted so far
  debt               \* history: leases that ran out, or whose release failed,
                     \* and whose release nobody has taken on since

state == <<lease_id, expires_at, release_required>>
vars  == <<state, now, granted, debt>>

Init ==
  /\ lease_id = NoLease /\ expires_at = 0 /\ release_required = FALSE
  /\ now = 0 /\ granted = 0 /\ debt = {}

(* Defect: the deadline itself still belongs to the lease. *)
ExpiredLate == lease_id # NoLease /\ now > expires_at
Expired     == lease_id # NoLease /\ now >= expires_at

(* The state every method starts from.  Defect: a remaining time is kept where
   a deadline belongs. *)
NoticedId       == IF Expired THEN NoLease ELSE lease_id
NoticedDeadline == IF Expired THEN 0 ELSE expires_at
NoticedRequired == release_required \/ Expired

TransitionExpired ==
  /\ lease_id' = NoticedId
  /\ expires_at' = NoticedDeadline
  /\ release_required' = NoticedRequired

claim ==
  /\ NoticedId = NoLease /\ ~NoticedRequired /\ granted < MaxLease
  /\ granted' = granted + 1
  /\ lease_id' = granted + 1
  /\ expires_at' = now + TTL
  /\ release_required' = NoticedRequired
  /\ UNCHANGED <<now, debt>>

(* LeaseBusy or LeaseReleaseRequired *)
claim_refused ==
  /\ NoticedId # NoLease \/ NoticedRequired
  /\ TransitionExpired
  /\ UNCHANGED <<now, granted, debt>>

(* Defect: renew looks at the id only. *)
AcceptsForgetful(i) == i # NoLease /\ lease_id = i
Accepts(i)          == i # NoLease /\ NoticedId = i

renew(i) ==
  /\ Accepts(i)
  /\ expires_at' = now + TTL
  /\ UNCHANGED <<lease_id, release_required, now, granted, debt>>

(* validate succeeds, or renew, validate or release raise LeaseInvalid; a
   snapshot changes no more than that. *)
validate(i) ==
  /\ Accepts(i)
  /\ UNCHANGED vars

lease_invalid(i) ==
  /\ ~Accepts(i)
  /\ TransitionExpired
  /\ UNCHANGED <<now, granted, debt>>

snapshot ==
  /\ TransitionExpired
  /\ UNCHANGED <<now, granted, debt>>

release(i) ==
  /\ Accepts(i)
  /\ lease_id' = NoLease /\ expires_at' = 0
  /\ UNCHANGED <<release_required, now, granted, debt>>

force_clear ==
  /\ lease_id' = NoLease /\ expires_at' = 0 /\ release_required' = FALSE
  /\ debt' = {}
  /\ UNCHANGED <<now, granted>>

(* Returns NoticedRequired; the caller that is told TRUE takes the release on.
   Defect: the latch is tested before the clock is looked at. *)
expire_early ==
  /\ lease_id' = NoticedId /\ expires_at' = NoticedDeadline
  /\ release_required' = FALSE
  /\ debt' = IF release_required THEN {} ELSE debt
  /\ UNCHANGED <<now, granted>>

expire_if_needed ==
  /\ lease_id' = NoticedId /\ expires_at' = NoticedDeadline
  /\ release_required' = FALSE
  /\ debt' = IF NoticedRequired THEN {} ELSE debt
  /\ UNCHANGED <<now, granted>>

mark_release_required ==
  /\ lease_id' = NoLease /\ expires_at' = 0 /\ release_required' = TRUE
  /\ debt' = debt \cup {granted}
  /\ UNCHANGED <<now, granted>>

Tick ==
  /\ now < MaxTime
  /\ now' = now + 1
  /\ debt' = IF lease_id # NoLease /\ now + 1 >= expires_at
             THEN debt \cup {lease_id} ELSE debt
  /\ UNCHANGED <<state, granted>>

Next ==
  \/ claim \/ claim_refused \/ snapshot \/ force_clear \/ expire_if_needed
  \/ mark_release_required \/ Tick
  \/ \E i \in LeaseIds : renew(i) \/ validate(i) \/ lease_invalid(i) \/ release(i)

Spec == Init /\ [][Next]_vars

-----------------------------------------------------------------------------
(* Properties. *)

(* Every variable stays in its type. *)
TypeOK ==
  /\ lease_id \in LeaseIds \cup {NoLease} /\ granted \in 0..MaxLease
  /\ expires_at \in Nat /\ now \in Nat
  /\ release_required \in BOOLEAN
  /\ debt \subseteq LeaseIds \cup {NoLease}

(* A controller with a lease that has not run out has no predecessor whose
   input nobody has released: claim, renew and the latch together. *)
NoGrantInDebt == lease_id # NoLease /\ now < expires_at => debt = {}

(* A lease that ran out is never forgotten, whichever method notices it. *)
NeverForgotten == debt # {} => release_required \/ Expired

(* A lease that has run out never comes back to life. *)
NoRevival ==
  [][lease_id # NoLease /\ lease_id' = lease_id /\ expires_at <= now
     => expires_at' <= now']_vars

(* The class implements the lease its callers are written against. *)
LeaseRecord == [id |-> lease_id, lapsed |-> Expired, owed |-> release_required]

Abstract == INSTANCE LeaseService WITH lease <- LeaseRecord

Implements == Abstract!Spec
=============================================================================

------------------------- MODULE ControlLeaseProofs -------------------------
(* Theorems about ControlLease, for every TTL, MaxLease and MaxTime. *)
EXTENDS ControlLease, TLAPS

IInv == TypeOK /\ NoGrantInDebt /\ NeverForgotten

LEMMA InitIInv == Init => IInv
<1> SUFFICES ASSUME Init PROVE IInv
  OBVIOUS
<1> USE LeaseAssumption DEF Init, LeaseIds, NoLease
<1>1. TypeOK
  <2>1. release_required \in BOOLEAN
    OBVIOUS
  <2>2. debt \subseteq LeaseIds \cup {NoLease}
    OBVIOUS
  <2>3. /\ lease_id \in LeaseIds \cup {NoLease} /\ granted \in 0..MaxLease
        /\ expires_at \in Nat /\ now \in Nat
    OBVIOUS
  <2> QED BY <2>1, <2>2, <2>3 DEF TypeOK
<1>2. NoGrantInDebt /\ NeverForgotten
  BY DEF NoGrantInDebt, NeverForgotten, Expired
<1> QED
  BY <1>1, <1>2 DEF IInv

(* The two halves of the invariant need each other: a claim is refused while
   the latch is set or the lease has run out, which by NeverForgotten covers
   every debt, and NoGrantInDebt is what makes release and renew harmless. *)
LEMMA StepIInv == IInv /\ [Next]_vars => IInv'
<1> SUFFICES ASSUME IInv, [Next]_vars PROVE IInv'
  OBVIOUS
<1> USE LeaseAssumption DEF IInv, TypeOK, NoGrantInDebt, NeverForgotten,
        LeaseIds, NoLease, Expired
<1>1. CASE claim
  BY <1>1 DEF claim, NoticedId, NoticedRequired
<1>2. CASE claim_refused \/ snapshot \/ \E i \in LeaseIds : lease_invalid(i)
  <2>1. TransitionExpired /\ UNCHANGED <<now, granted, debt>>
    BY <1>2 DEF claim_refused, snapshot, lease_invalid
  <2>2. CASE Expired
    BY <2>1, <2>2 DEF TransitionExpired, NoticedId, NoticedDeadline, NoticedRequired
  <2>3. CASE ~Expired
    BY <2>1, <2>3 DEF TransitionExpired, NoticedId, NoticedDeadline, NoticedRequired
  <2> QED BY <2>2, <2>3
<1>3. CASE force_clear
  BY <1>3 DEF force_clear
<1>4. CASE expire_if_needed
  BY <1>4 DEF expire_if_needed, NoticedId, NoticedDeadline, NoticedRequired
<1>5. CASE mark_release_required
  BY <1>5 DEF mark_release_required
<1>6. CASE Tick
  BY <1>6 DEF Tick, state
<1>7. ASSUME NEW i \in LeaseIds, renew(i) PROVE IInv'
  BY <1>7 DEF renew, Accepts, NoticedId
<1>8. ASSUME NEW i \in LeaseIds, release(i) PROVE IInv'
  BY <1>8 DEF release, Accepts, NoticedId
<1>9. CASE UNCHANGED vars \/ \E i \in LeaseIds : validate(i)
  BY <1>9 DEF validate, vars, state
<1> QED
  BY <1>1, <1>2, <1>3, <1>4, <1>5, <1>6, <1>7, <1>8, <1>9 DEF Next

(* Every variable stays in its type, whatever the callers do. *)
THEOREM Typing == Spec => []TypeOK
<1>1. IInv => TypeOK
  BY DEF IInv
<1> QED
  BY InitIInv, StepIInv, <1>1, PTL DEF Spec

(* claim never hands the target to a new controller while the release of an
   earlier lease that ran out, or failed, is outstanding. *)
THEOREM ClaimOverNoDebt == Spec => []NoGrantInDebt
<1>1. IInv => NoGrantInDebt
  BY DEF IInv
<1> QED
  BY InitIInv, StepIInv, <1>1, PTL DEF Spec

(* _transition_expired never loses an obligation, whichever method runs it. *)
THEOREM DebtIsNeverForgotten == Spec => []NeverForgotten
<1>1. IInv => NeverForgotten
  BY DEF IInv
<1> QED
  BY InitIInv, StepIInv, <1>1, PTL DEF Spec

(* renew and the other methods never revive a lease that has run out. *)
THEOREM LapsedStaysLapsed == Spec => NoRevival
<1>1. IInv /\ [Next]_vars
      => [lease_id # NoLease /\ lease_id' = lease_id /\ expires_at <= now
          => expires_at' <= now']_vars
  <2> SUFFICES ASSUME IInv, Next, lease_id # NoLease, lease_id' = lease_id,
                      expires_at <= now
               PROVE expires_at' <= now'
    OBVIOUS
  <2> USE LeaseAssumption DEF IInv, TypeOK, LeaseIds, NoLease, Expired,
          NoticedId, NoticedDeadline
  <2>1. ~ claim
    BY DEF claim, NoticedRequired
  <2>2. ~ \E i \in LeaseIds : renew(i) \/ release(i)
    BY DEF renew, release, Accepts
  <2>3. ~(claim_refused \/ snapshot \/ \E i \in LeaseIds : lease_invalid(i))
    BY DEF claim_refused, snapshot, lease_invalid, TransitionExpired
  <2>4. ~(force_clear \/ expire_if_needed \/ mark_release_required)
    BY DEF force_clear, expire_if_needed, mark_release_required
  <2>5. CASE Tick
    BY <2>5 DEF Tick, state
  <2>6. CASE \E i \in LeaseIds : validate(i)
    BY <2>6 DEF validate, vars, state
  <2> QED
    BY <2>1, <2>2, <2>3, <2>4, <2>5, <2>6 DEF Next
<1> QED
  BY InitIInv, StepIInv, <1>1, PTL DEF Spec, NoRevival

-----------------------------------------------------------------------------
(* The refinement. *)

LEMMA InitRefines == Init => Abstract!Init
  BY DEF Init, Abstract!Init, LeaseRecord, Expired, Abstract!FreshLease,
     Abstract!NoLease, NoLease

LEMMA StepRefines == IInv /\ [Next]_vars => [Abstract!Next]_(Abstract!vars)
<1> SUFFICES ASSUME IInv, [Next]_vars
             PROVE Abstract!Next \/ UNCHANGED <<LeaseRecord, granted>>
  BY DEF Abstract!vars
<1> USE LeaseAssumption DEF IInv, TypeOK, LeaseIds, NoLease, Expired, LeaseRecord,
        Abstract!LeaseIds, Abstract!NoLease, Abstract!TransitionExpired
<1>1. CASE claim
  <2>1. ~Expired /\ ~release_required /\ ~Expired' /\ ~release_required'
    BY <1>1 DEF claim, NoticedId, NoticedRequired
  <2>2. LeaseRecord = [id |-> NoLease, lapsed |-> FALSE, owed |-> FALSE]
    BY <1>1, <2>1 DEF claim, NoticedId
  <2>3. LeaseRecord' = [id |-> granted + 1, lapsed |-> FALSE, owed |-> FALSE]
    <3>1. release_required' = FALSE
      BY <1>1, <2>1 DEF claim, NoticedRequired
    <3>2. Expired' = FALSE
      BY <2>1
    <3> QED BY <1>1, <3>1, <3>2 DEF claim
  <2>4. Abstract!Claim
    BY <1>1, <2>2, <2>3 DEF claim, Abstract!Claim,
       Abstract!ClaimBusy, Abstract!ClaimOwed, Abstract!Granted
  <2> QED BY <2>4 DEF Abstract!Next
<1>2. CASE claim_refused \/ snapshot \/ \E i \in LeaseIds : lease_invalid(i)
  <2>1. Abstract!Notice
    BY <1>2 DEF claim_refused, snapshot, lease_invalid, TransitionExpired,
       NoticedId, NoticedDeadline, NoticedRequired, Abstract!Notice
  <2> QED BY <2>1 DEF Abstract!Next
<1>3. CASE force_clear
  <2>1. Abstract!ForceClear
    BY <1>3 DEF force_clear, Abstract!ForceClear, Abstract!ForceCleared,
       Abstract!FreshLease
  <2> QED BY <2>1 DEF Abstract!Next
<1>4. CASE expire_if_needed
  <2>1. Abstract!TransitionExpired(LeaseRecord).id = NoticedId
    BY DEF NoticedId
  <2>2. ~Expired' /\ ~release_required'
    BY <1>4 DEF expire_if_needed, NoticedId, NoticedDeadline
  <2>3. LeaseRecord' = [id |-> NoticedId, lapsed |-> FALSE, owed |-> FALSE]
    BY <1>4, <2>2 DEF expire_if_needed
  <2>4. Abstract!Consumed(LeaseRecord)
        = [id |-> NoticedId, lapsed |-> FALSE, owed |-> FALSE]
    BY <2>1 DEF Abstract!Consumed
  <2>5. Abstract!Consume
    BY <1>4, <2>3, <2>4 DEF expire_if_needed, Abstract!Consume
  <2> QED BY <2>5 DEF Abstract!Next
<1>5. CASE mark_release_required
  <2>1. Abstract!Mark
    BY <1>5 DEF mark_release_required, Abstract!Mark, Abstract!MarkReleaseRequired
  <2> QED BY <2>1 DEF Abstract!Next
<1>6. CASE Tick
  <2>1. CASE lease_id # NoLease /\ ~Expired /\ Expired'
    <3>1. LeaseRecord = [id |-> lease_id, lapsed |-> FALSE, owed |-> release_required]
      BY <2>1
    <3>2. LeaseRecord' = [id |-> lease_id, lapsed |-> TRUE, owed |-> release_required]
      BY <1>6, <2>1 DEF Tick, state
    <3>3. Abstract!Lapse
      BY <1>6, <2>1, <3>1, <3>2 DEF Tick, Abstract!Lapse, Abstract!Lapsed
    <3> QED BY <3>3 DEF Abstract!Next
  <2>2. CASE ~(lease_id # NoLease /\ ~Expired /\ Expired')
    BY <1>6, <2>2 DEF Tick, state
  <2> QED BY <2>1, <2>2
<1>7. ASSUME NEW i \in LeaseIds, renew(i) PROVE Abstract!Next
  <2>1. ~Expired /\ lease_id = i /\ ~Expired'
    BY <1>7 DEF renew, Accepts, NoticedId
  <2>2. LeaseRecord = [id |-> i, lapsed |-> FALSE, owed |-> release_required]
    BY <2>1
  <2>3. LeaseRecord' = [id |-> i, lapsed |-> FALSE, owed |-> release_required]
    BY <1>7, <2>1 DEF renew
  <2>4. Abstract!Valid(LeaseRecord, i)
    BY <2>2 DEF Abstract!Valid
  <2>5. Abstract!Renew(i)
    BY <1>7, <2>2, <2>3, <2>4 DEF renew, Abstract!Renew, Abstract!Renewed
  <2> QED BY <2>5 DEF Abstract!Next
<1>8. ASSUME NEW i \in LeaseIds, release(i) PROVE Abstract!Next
  <2>1. ~Expired /\ lease_id = i /\ ~Expired'
    BY <1>8 DEF release, Accepts, NoticedId
  <2>2. LeaseRecord = [id |-> i, lapsed |-> FALSE, owed |-> release_required]
    BY <2>1
  <2>3. LeaseRecord' = [id |-> NoLease, lapsed |-> FALSE, owed |-> release_required]
    BY <1>8, <2>1 DEF release
  <2>4. Abstract!Valid(LeaseRecord, i)
    BY <2>2 DEF Abstract!Valid
  <2>5. Abstract!Release(i)
    BY <1>8, <2>2, <2>3, <2>4 DEF release, Abstract!Release, Abstract!Released
  <2> QED BY <2>5 DEF Abstract!Next
<1>9. CASE UNCHANGED vars \/ \E i \in LeaseIds : validate(i)
  BY <1>9 DEF validate, vars, state
<1> QED
  BY <1>1, <1>2, <1>3, <1>4, <1>5, <1>6, <1>7, <1>8, <1>9 DEF Next

(* ControlLease with its deadline implements the clockless lease its callers
   in app.py are modelled over. *)
THEOREM Refinement == Spec => Implements
  BY InitIInv, StepIInv, InitRefines, StepRefines, PTL
     DEF Spec, Implements, Abstract!Spec
=============================================================================

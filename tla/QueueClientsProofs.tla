------------------------- MODULE QueueClientsProofs -------------------------
(***************************************************************************)
(* Ownership, for every set of tasks, workers and dispatch keys.           *)
(* OwnerKeepsWork follows from the types of the keys and the owner checks  *)
(* of the scripts: whoever moves processing work names the worker in the   *)
(* lease key, and a worker calls them only once it has stopped working.    *)
(***************************************************************************)
EXTENDS QueueClients, RedisQueueProofs

\* Every step of the callers is a script or leaves the queue alone.
LEMMA ClientStep ==
    ASSUME [ClientNext]_clientVars
    PROVE  [Next]_vars
  BY DEF ClientNext, clientVars, Next, TakeClaim, Report, Settle, GiveBack,
         OtherCall

\* What holds of the scripts under any caller holds under these callers: the
\* theorems of RedisQueueProofs apply to ClientSpec.
THEOREM ClientsUseQueue == ClientSpec => Spec
<1>1. ClientInit => Init
  BY DEF ClientInit
<1>2. [ClientNext]_clientVars => [Next]_vars
  BY ClientStep
<1> QED
  BY <1>1, <1>2, PTL DEF ClientSpec, Spec

\* Beliefs are sets of tasks.
LEMMA BeliefStep ==
    ASSUME holds \in [Workers -> SUBSET Tasks], [ClientNext]_clientVars
    PROVE  holds' \in [Workers -> SUBSET Tasks]
<1> USE DEF Believe
<1>1. CASE UNCHANGED clientVars
  BY <1>1 DEF clientVars
<1>2. ASSUME NEW t \in Tasks, OtherCall(t) PROVE holds' \in [Workers -> SUBSET Tasks]
  BY <1>2 DEF OtherCall
<1>3. ASSUME NEW t \in Tasks, NEW w \in Workers,
             TakeClaim(t, w) \/ Report(t, w) \/ Settle(t, w) \/ GiveBack(t, w)
      PROVE  holds' \in [Workers -> SUBSET Tasks]
  BY <1>3 DEF TakeClaim, Report, Settle, GiveBack
<1> QED
  BY <1>1, <1>2, <1>3 DEF ClientNext

\* Every reachable state of the queue and its callers is well typed.
THEOREM ClientTypeCorrect == ClientSpec => []ClientTypeOK
<1>1. ClientInit => ClientTypeOK
  BY DEF ClientInit, ClientTypeOK, Init, TypeOK, DeadLetter
<1>2. ClientTypeOK /\ [ClientNext]_clientVars => ClientTypeOK'
  BY ClientStep, TypeStep, BeliefStep DEF ClientTypeOK
<1> QED
  BY <1>1, <1>2, PTL DEF ClientSpec

\* One step of any caller leaves the work of an owner that works on it in
\* processing, unless the step recovers or buries it in the owner's name.
LEMMA OwnerStep ==
    ASSUME ClientTypeOK, ClientNext, NEW t \in Tasks, NEW w \in Workers,
           leaseKey[t] = w,
           t \in holds[w] \cap holds'[w],
           t \in processingPayloads \ processingPayloads'
    PROVE  Recover(t, w) \/ MoveToDeadLetter(t, w)
<1> USE NoOwnerAssumption DEF ClientTypeOK, TypeOK, orderVars, deadVars
<1>1. ASSUME NEW u \in Tasks, OtherCall(u) PROVE Recover(t, w) \/ MoveToDeadLetter(t, w)
  <2>1. ~(Enqueue(u) \/ CancelPending(u) \/ RetryDeadLetter(u) \/ LeaseExpires(u))
    BY DEF Enqueue, CancelPending, RetryDeadLetter, LeaseExpires
  <2>2. ASSUME NEW k \in DispatchKeys, EnqueueIdempotent(u, k) PROVE FALSE
    BY <2>2 DEF EnqueueIdempotent, vars
  <2>3. ASSUME NEW v \in Workers, Recover(u, v) PROVE u = t /\ v = w
    BY <2>3 DEF Recover, RecoverReply
  <2>4. ASSUME NEW e \in Workers \cup {NoOwner}, MoveToDeadLetter(u, e) PROVE u = t /\ e = w
    BY <2>4 DEF MoveToDeadLetter, DeadLetterReply
  <2> QED
    BY <1>1, <2>1, <2>2, <2>3, <2>4 DEF OtherCall
<1>2. ASSUME NEW u \in Tasks, NEW v \in Workers, TakeClaim(u, v) PROVE FALSE
  BY <1>2 DEF TakeClaim, ClaimNext, ClaimExisting, vars
<1>3. ASSUME NEW u \in Tasks, NEW v \in Workers, Report(u, v) PROVE FALSE
  BY <1>3 DEF Report, vars
<1>4. ASSUME NEW u \in Tasks, NEW v \in Workers, Settle(u, v) PROVE FALSE
  BY <1>4 DEF Settle, Complete, Fail, CompleteReply, FailReply, OwnedProcessingReply,
              OwnerReply
<1>5. ASSUME NEW u \in Tasks, NEW v \in Workers, GiveBack(u, v) PROVE FALSE
  <2>1. u = t /\ v = w
    BY <1>5 DEF GiveBack, Release, ReleaseReply, OwnedProcessingReply, OwnerReply
  <2>2. holds'[w] = holds[w] \ {t}
    BY <1>5, <2>1 DEF GiveBack, Believe
  <2> QED
    BY <2>2
<1> QED
  BY <1>1, <1>2, <1>3, <1>4, <1>5 DEF ClientNext

\* No report of another worker takes processing work away from the holder of its
\* lease key.
THEOREM OwnerAlwaysKeepsWork == ClientSpec => OwnerKeepsWork
<1>1. ClientTypeOK /\ [ClientNext]_clientVars =>
        [\A t \in Tasks, w \in Workers :
           /\ leaseKey[t] = w
           /\ t \in holds[w] \cap holds'[w]
           /\ t \in processingPayloads \ processingPayloads'
           => Recover(t, w) \/ MoveToDeadLetter(t, w)]_clientVars
  BY OwnerStep
<1> QED
  BY <1>1, ClientTypeCorrect, PTL DEF ClientSpec, OwnerKeepsWork
=============================================================================

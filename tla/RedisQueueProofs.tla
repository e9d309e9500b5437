-------------------------- MODULE RedisQueueProofs --------------------------
(***************************************************************************)
(* Proofs about RedisQueue, for every set of tasks, workers and dispatch   *)
(* keys.  The invariant is QueueInv.  The promises of the queue are not    *)
(* inductive by themselves: that the head of the order can be claimed      *)
(* needs the index to match the payloads, no lease on a pending task, and  *)
(* a total order on finitely many tasks; that a script is a step of        *)
(* QueueContract needs a task to be live in one place only.                *)
(***************************************************************************)
EXTENDS RedisQueue, Naturals, FiniteSetTheorems, WellFoundedInduction, TLAPS

QueueInv ==
    /\ TypeOK
    /\ OneLiveCopy
    /\ IndexMatchesPayloads
    /\ LeaseImpliesProcessing
    /\ OrderIsTotal

-----------------------------------------------------------------------------
\* Appending a task at the tail of the order keeps it a strict total order.
LEMMA AddLastKeepsOrder ==
    ASSUME TypeOK, OrderIsTotal, NEW t \in Tasks, ZAddLast(t)
    PROVE  OrderIsTotal'
  BY DEF TypeOK, OrderIsTotal, ZAddLast

\* So does removing one.
LEMMA RemoveKeepsOrder ==
    ASSUME TypeOK, OrderIsTotal, NEW t \in Tasks, ZRem(t)
    PROVE  OrderIsTotal'
  BY DEF TypeOK, OrderIsTotal, ZRem

\* The scripts initialise to, and preserve, the types of the Redis keys.
LEMMA TypeStep ==
    ASSUME TypeOK, [Next]_vars
    PROVE  TypeOK'
<1> USE DEF TypeOK, DeadLetter, orderVars, deadVars, ZAddLast, ZRem, SetLease, DelLease
<1>1. CASE UNCHANGED vars
  BY <1>1 DEF vars
<1>2. ASSUME NEW t \in Tasks, Enqueue(t) PROVE TypeOK'
  BY <1>2 DEF Enqueue
<1>3. ASSUME NEW t \in Tasks, CancelPending(t) PROVE TypeOK'
  BY <1>3 DEF CancelPending
<1>4. ASSUME NEW t \in Tasks, RetryDeadLetter(t) PROVE TypeOK'
  BY <1>4 DEF RetryDeadLetter
<1>5. ASSUME NEW t \in Tasks, LeaseExpires(t) PROVE TypeOK'
  BY <1>5 DEF LeaseExpires
<1>6. ASSUME NEW t \in Tasks, NEW e \in Workers \cup {NoOwner}, MoveToDeadLetter(t, e)
      PROVE TypeOK'
  BY <1>6 DEF MoveToDeadLetter, DeadLetterPayload
<1>7. ASSUME NEW t \in Tasks, NEW k \in DispatchKeys, EnqueueIdempotent(t, k)
      PROVE TypeOK'
  BY <1>7 DEF EnqueueIdempotent, vars
<1>8. ASSUME NEW t \in Tasks, NEW w \in Workers, ClaimNext(t, w) PROVE TypeOK'
  BY <1>8 DEF ClaimNext
<1>9. ASSUME NEW t \in Tasks, NEW w \in Workers, ClaimExisting(t, w) PROVE TypeOK'
  BY <1>9 DEF ClaimExisting, vars
<1>10. ASSUME NEW t \in Tasks, NEW w \in Workers, Complete(t, w) PROVE TypeOK'
  BY <1>10 DEF Complete
<1>11. ASSUME NEW t \in Tasks, NEW w \in Workers, Fail(t, w) PROVE TypeOK'
  BY <1>11 DEF Fail
<1>12. ASSUME NEW t \in Tasks, NEW w \in Workers, Release(t, w) PROVE TypeOK'
  BY <1>12 DEF Release
<1>13. ASSUME NEW t \in Tasks, NEW w \in Workers, Recover(t, w) PROVE TypeOK'
  BY <1>13 DEF Recover
<1> QED
  BY <1>1, <1>2, <1>3, <1>4, <1>5, <1>6, <1>7, <1>8, <1>9, <1>10, <1>11, <1>12, <1>13
     DEF Next

\* Every reachable state of the adapter is well typed.
THEOREM TypeCorrect == Spec => []TypeOK
<1>1. Init => TypeOK
  BY DEF Init, TypeOK, DeadLetter
<1>2. TypeOK /\ [Next]_vars => TypeOK'
  BY TypeStep
<1> QED
  BY <1>1, <1>2, PTL DEF Spec

\* The part of QueueInv that is not about the order.
StateInv == OneLiveCopy /\ IndexMatchesPayloads /\ LeaseImpliesProcessing

\* One step per script: the two live hashes stay disjoint, the sorted sets
\* stay in step with their hashes, and leases stay on processing work.
LEMMA StateStep ==
    ASSUME TypeOK, StateInv, [Next]_vars
    PROVE  StateInv'
<1> USE NoOwnerAssumption
    DEF TypeOK, StateInv, OneLiveCopy, IndexMatchesPayloads, LeaseImpliesProcessing,
        DeadLetter, orderVars, deadVars, ZAddLast, ZRem, SetLease, DelLease
<1>1. CASE UNCHANGED vars
  BY <1>1 DEF vars
<1>2. ASSUME NEW t \in Tasks, Enqueue(t) PROVE StateInv'
  BY <1>2 DEF Enqueue, EnqueueReply
<1>3. ASSUME NEW t \in Tasks, CancelPending(t) PROVE StateInv'
  BY <1>3 DEF CancelPending, CancelPendingReply
<1>4. ASSUME NEW t \in Tasks, RetryDeadLetter(t) PROVE StateInv'
  BY <1>4 DEF RetryDeadLetter, RetryDeadLetterReply
<1>5. ASSUME NEW t \in Tasks, LeaseExpires(t) PROVE StateInv'
  BY <1>5 DEF LeaseExpires
<1>6. ASSUME NEW t \in Tasks, NEW e \in Workers \cup {NoOwner}, MoveToDeadLetter(t, e) PROVE StateInv'
  BY <1>6 DEF MoveToDeadLetter, DeadLetterPayload, DeadLetterReply, BothQueues, InNeitherQueue
<1>7. ASSUME NEW t \in Tasks, NEW k \in DispatchKeys, EnqueueIdempotent(t, k) PROVE StateInv'
  BY <1>7 DEF EnqueueIdempotent, EnqueueIdempotentReply, EnqueueReply, vars
<1>8. ASSUME NEW t \in Tasks, NEW w \in Workers, ClaimNext(t, w) PROVE StateInv'
  BY <1>8 DEF ClaimNext, ClaimNextReply, IsFirst
<1>9. ASSUME NEW t \in Tasks, NEW w \in Workers, ClaimExisting(t, w) PROVE StateInv'
  BY <1>9 DEF ClaimExisting, ClaimExistingReply, vars
<1>10. ASSUME NEW t \in Tasks, NEW w \in Workers, Complete(t, w) PROVE StateInv'
  BY <1>10 DEF Complete, CompleteReply, OwnedProcessingReply, OwnerReply
<1>11. ASSUME NEW t \in Tasks, NEW w \in Workers, Fail(t, w) PROVE StateInv'
  BY <1>11 DEF Fail, FailReply, OwnedProcessingReply, OwnerReply
<1>12. ASSUME NEW t \in Tasks, NEW w \in Workers, Release(t, w) PROVE StateInv'
  BY <1>12 DEF Release, ReleaseReply, OwnedProcessingReply, OwnerReply
<1>13. ASSUME NEW t \in Tasks, NEW w \in Workers, Recover(t, w) PROVE StateInv'
  BY <1>13 DEF Recover, RecoverReply, BothQueues, InNeitherQueue
<1> QED
  BY <1>1, <1>2, <1>3, <1>4, <1>5, <1>6, <1>7, <1>8, <1>9, <1>10, <1>11, <1>12, <1>13 DEF Next

\* Every script leaves the order alone, appends one task or removes one.
LEMMA OrderSteps ==
    ASSUME [Next]_vars
    PROVE  \/ UNCHANGED orderVars
           \/ \E t \in Tasks : ZAddLast(t) \/ ZRem(t)
  BY DEF Next, vars, orderVars, Enqueue, CancelPending, RetryDeadLetter, LeaseExpires,
         MoveToDeadLetter, EnqueueIdempotent, ClaimNext, ClaimExisting, Complete, Fail,
         Release, Recover

\* Every script keeps the order total.
LEMMA OrderStep ==
    ASSUME TypeOK, OrderIsTotal, [Next]_vars
    PROVE  OrderIsTotal'
<1>1. CASE UNCHANGED orderVars
  BY <1>1 DEF orderVars, OrderIsTotal
<1>2. CASE \E t \in Tasks : ZAddLast(t) \/ ZRem(t)
  BY <1>2, AddLastKeepsOrder, RemoveKeepsOrder
<1> QED
  BY <1>1, <1>2, OrderSteps

\* The inductive invariant: at most one live copy of a task, indexes that
\* match their payloads, leases only on processing work, a total order.
THEOREM QueueInvariant == Spec => []QueueInv
<1>1. Init => QueueInv
  BY DEF Init, QueueInv, TypeOK, DeadLetter, OneLiveCopy, IndexMatchesPayloads,
         LeaseImpliesProcessing, OrderIsTotal
<1>2. QueueInv /\ [Next]_vars => QueueInv'
  BY TypeStep, StateStep, OrderStep DEF QueueInv, StateInv
<1> QED
  BY <1>1, <1>2, PTL DEF Spec

\* The queue's structures agree after any sequence of scripts: no task is pending and
\* processing at once, sorted sets match payload hashes, lease keys are of processing
\* work and the order of delivery is strict and total.
THEOREM KeysAlwaysConsistent == Spec => []KeysConsistent
<1> QueueInv => KeysConsistent
  BY DEF QueueInv, KeysConsistent
<1> QED
  BY QueueInvariant, PTL

-----------------------------------------------------------------------------
\* Each script is one step of the adapter-independent contract, or none.
LEMMA ContractStep ==
    ASSUME QueueInv, [Next]_vars
    PROVE  [Contract!Next]_(Contract!cvars)
<1> USE NoOwnerAssumption
    DEF QueueInv, TypeOK, OneLiveCopy, LeaseImpliesProcessing, DeadLetter,
        orderVars, deadVars, SetLease, DelLease, LivePlace, Contract!Move
<1>1. CASE UNCHANGED vars
  BY <1>1 DEF vars, Contract!cvars
<1>2. ASSUME NEW t \in Tasks, Enqueue(t) PROVE Contract!Publish(t)
  BY <1>2 DEF Enqueue, EnqueueReply, Contract!Publish
<1>3. ASSUME NEW t \in Tasks, CancelPending(t) PROVE UNCHANGED Contract!cvars \/ Contract!Withdraw(t)
  BY <1>3 DEF CancelPending, CancelPendingReply, Contract!cvars, Contract!Withdraw
<1>4. ASSUME NEW t \in Tasks, RetryDeadLetter(t) PROVE Contract!Revive(t)
  BY <1>4 DEF RetryDeadLetter, RetryDeadLetterReply, Contract!Revive
<1>5. ASSUME NEW t \in Tasks, LeaseExpires(t) PROVE Contract!Lapse(t)
  BY <1>5 DEF LeaseExpires, Contract!Lapse
<1>6. ASSUME NEW t \in Tasks, NEW e \in Workers \cup {NoOwner}, MoveToDeadLetter(t, e) PROVE Contract!DeadLetter(t, e)
  BY <1>6 DEF MoveToDeadLetter, DeadLetterPayload, DeadLetterReply, BothQueues, InNeitherQueue, Contract!DeadLetter, Contract!Uncontested
<1>7. ASSUME NEW t \in Tasks, NEW k \in DispatchKeys, EnqueueIdempotent(t, k) PROVE UNCHANGED Contract!cvars \/ Contract!PublishOnce(t, k)
  BY <1>7 DEF EnqueueIdempotent, EnqueueIdempotentReply, EnqueueReply, vars, Contract!cvars, Contract!PublishOnce
<1>8. ASSUME NEW t \in Tasks, NEW w \in Workers, ClaimNext(t, w) PROVE Contract!Claim(t, w)
  BY <1>8 DEF ClaimNext, ClaimNextReply, IsFirst, Contract!Claim
<1>9. ASSUME NEW t \in Tasks, NEW w \in Workers, ClaimExisting(t, w) PROVE UNCHANGED Contract!cvars \/ Contract!Claim(t, w)
  BY <1>9 DEF ClaimExisting, ClaimExistingReply, vars, Contract!cvars, Contract!Claim
<1>10. ASSUME NEW t \in Tasks, NEW w \in Workers, Complete(t, w) PROVE Contract!Finish(t, w)
  BY <1>10 DEF Complete, CompleteReply, OwnedProcessingReply, OwnerReply, Contract!Finish
<1>11. ASSUME NEW t \in Tasks, NEW w \in Workers, Fail(t, w) PROVE Contract!DeadLetter(t, w)
  BY <1>11 DEF Fail, FailReply, OwnedProcessingReply, OwnerReply, Contract!DeadLetter, Contract!Uncontested
<1>12. ASSUME NEW t \in Tasks, NEW w \in Workers, Release(t, w) PROVE Contract!Requeue(t, w)
  BY <1>12 DEF Release, ReleaseReply, OwnedProcessingReply, OwnerReply, Contract!Requeue, Contract!Uncontested
<1>13. ASSUME NEW t \in Tasks, NEW w \in Workers, Recover(t, w) PROVE Contract!Requeue(t, w)
  BY <1>13 DEF Recover, RecoverReply, BothQueues, InNeitherQueue, Contract!Requeue, Contract!Uncontested
<1> QED
  BY <1>1, <1>2, <1>3, <1>4, <1>5, <1>6, <1>7, <1>8, <1>9, <1>10, <1>11, <1>12, <1>13 DEF Next, Contract!Next

\* The indexed Redis adapter implements the contract of QueueAdapter
\* (backend/queue/base.py), for any number of tasks, workers and keys.
THEOREM RedisImplementsContract == Spec => ImplementsContract
<1>1. Init => Contract!Init
  BY DEF Init, Contract!Init, LivePlace
<1>2. QueueInv /\ [Next]_vars => [Contract!Next]_(Contract!cvars)
  BY ContractStep
<1> QED
  BY <1>1, <1>2, QueueInvariant, PTL DEF Spec, ImplementsContract, Contract!Spec

-----------------------------------------------------------------------------
\* Each script adds at most one task to the order, so it stays finite without
\* any assumption on Tasks.
THEOREM OrderFinite == Spec => []IsFiniteSet(pendingOrder)
<1>1. Init => IsFiniteSet(pendingOrder)
  BY FS_EmptySet DEF Init
<1>2. IsFiniteSet(pendingOrder) /\ [Next]_vars => IsFiniteSet(pendingOrder)'
  <2> SUFFICES ASSUME IsFiniteSet(pendingOrder), [Next]_vars
               PROVE  IsFiniteSet(pendingOrder')
    OBVIOUS
  <2>1. CASE UNCHANGED orderVars
    BY <2>1 DEF orderVars
  <2>2. ASSUME NEW t \in Tasks, ZAddLast(t) PROVE IsFiniteSet(pendingOrder')
    BY <2>2, FS_AddElement DEF ZAddLast
  <2>3. ASSUME NEW t \in Tasks, ZRem(t) PROVE IsFiniteSet(pendingOrder')
    BY <2>3, FS_RemoveElement DEF ZRem
  <2> QED
    BY <2>1, <2>2, <2>3, OrderSteps
<1> QED
  BY <1>1, <1>2, PTL DEF Spec

\* A finite strict total order that is not empty has a first member: the one
\* with the fewest members ahead of it.
LEMMA FirstExists ==
    ASSUME TypeOK, OrderIsTotal, IsFiniteSet(pendingOrder), pendingOrder # {}
    PROVE  \E t \in pendingOrder : ahead[t] = {}
<1> DEFINE Rank(t) == Cardinality(ahead[t])
           Ranks == {Rank(t) : t \in pendingOrder}
<1>1. \A t \in pendingOrder : IsFiniteSet(ahead[t]) /\ Rank(t) \in Nat
  <2> TAKE t \in pendingOrder
  <2>1. ahead[t] \in SUBSET pendingOrder
    BY DEF TypeOK, OrderIsTotal
  <2>2. IsFiniteSet(ahead[t])
    BY <2>1, FS_Subset
  <2> QED
    BY <2>2, FS_CardinalityType
<1>2. Ranks \subseteq Nat /\ Ranks # {}
  BY <1>1
<1>3. PICK n \in Ranks : \A m \in Ranks : ~(<<m, n>> \in OpToRel(<, Nat))
  <2> HIDE DEF Ranks
  <2> QED
    BY <1>2, NatLessThanWellFounded, WFMin, Zenon
<1>4. PICK t \in pendingOrder : n = Rank(t)
  OBVIOUS
<1>5. ASSUME NEW u \in ahead[t] PROVE FALSE
  <2>1. u \in pendingOrder
    BY DEF TypeOK, OrderIsTotal
  <2>2. ahead[u] \in SUBSET ahead[t] /\ u \notin ahead[u]
    BY <2>1 DEF TypeOK, OrderIsTotal
  <2>3. Rank(u) <= Rank(t) /\ Rank(u) # Rank(t)
    BY <1>1, <2>2, FS_Subset
  <2>4. Rank(u) \in Ranks /\ Rank(u) \in Nat /\ Rank(t) \in Nat
    BY <1>1, <2>1
  <2>5. Rank(u) < Rank(t)
    <3> HIDE DEF Rank
    <3> QED BY <2>3, <2>4
  <2>6. <<Rank(u), Rank(t)>> \in OpToRel(<, Nat)
    <3> HIDE DEF Rank
    <3> QED BY <2>4, <2>5 DEF OpToRel
  <2> QED
    BY <1>3, <1>4, <2>4, <2>6
<1> QED
  BY <1>5

\* claim_task never gets stuck: in every reachable state with pending work
\* the head of the order has a payload and no lease.
THEOREM HeadAlwaysClaimable == Spec => []HeadIsClaimable
<1>1. QueueInv /\ IsFiniteSet(pendingOrder) => HeadIsClaimable
  <2> SUFFICES ASSUME QueueInv, IsFiniteSet(pendingOrder), pendingPayloads # {}
               PROVE  \E t \in Tasks : IsFirst(t) /\ ClaimNextReply(t) = "ok"
    BY DEF HeadIsClaimable
  <2>1. PICK t \in pendingOrder : ahead[t] = {}
    BY FirstExists DEF QueueInv, IndexMatchesPayloads
  <2>2. t \in Tasks /\ t \in pendingPayloads /\ leaseKey[t] = NoOwner
    BY DEF QueueInv, TypeOK, OneLiveCopy, IndexMatchesPayloads, LeaseImpliesProcessing
  <2> QED
    BY <2>1, <2>2 DEF IsFirst, ClaimNextReply
<1> QED
  BY <1>1, QueueInvariant, OrderFinite, PTL

-----------------------------------------------------------------------------
\* A script removes live work only by completion, cancellation of pending
\* work, or by moving its message to the dead letters.
LEMMA ConservationStep ==
    ASSUME QueueInv, Next, NEW t \in Tasks, ~InNeitherQueue(t), InNeitherQueue(t)'
    PROVE  \/ deadPayloads'[t] = "message"
           \/ t \in pendingPayloads /\ CancelPending(t)
           \/ \E w \in Workers : Complete(t, w)
<1> USE DEF QueueInv, TypeOK, orderVars, deadVars, InNeitherQueue
<1>1. ASSUME NEW u \in Tasks, Enqueue(u) \/ RetryDeadLetter(u) \/ LeaseExpires(u)
      PROVE  FALSE
  BY <1>1 DEF Enqueue, RetryDeadLetter, LeaseExpires
<1>2. ASSUME NEW u \in Tasks, CancelPending(u) PROVE u = t /\ t \in pendingPayloads
  BY <1>2 DEF CancelPending, CancelPendingReply
<1>3. ASSUME NEW u \in Tasks, NEW k \in DispatchKeys, EnqueueIdempotent(u, k) PROVE FALSE
  BY <1>3 DEF EnqueueIdempotent, vars
<1>4. ASSUME NEW u \in Tasks, NEW w \in Workers,
             \/ ClaimNext(u, w) \/ ClaimExisting(u, w) \/ Release(u, w) \/ Recover(u, w)
      PROVE  FALSE
  BY <1>4 DEF ClaimNext, ClaimExisting, Release, Recover, vars
<1>5. ASSUME NEW u \in Tasks, NEW e \in Workers \cup {NoOwner}, MoveToDeadLetter(u, e)
      PROVE  deadPayloads'[t] = "message"
  BY <1>5 DEF MoveToDeadLetter, DeadLetterPayload
<1>6. ASSUME NEW u \in Tasks, NEW w \in Workers, Fail(u, w)
      PROVE  deadPayloads'[t] = "message"
  BY <1>6 DEF Fail
<1>7. ASSUME NEW u \in Tasks, NEW w \in Workers, Complete(u, w) PROVE u = t
  BY <1>7 DEF Complete
<1> QED
  BY <1>1, <1>2, <1>3, <1>4, <1>5, <1>6, <1>7 DEF Next

\* Queued work is not lost by any sequence of scripts.
THEOREM WorkAlwaysConserved == Spec => WorkIsConserved
<1>1. QueueInv /\ [Next]_vars =>
        [\A t \in Tasks :
           ~InNeitherQueue(t) /\ InNeitherQueue(t)'
             => \/ deadPayloads'[t] = "message"
                \/ t \in pendingPayloads /\ CancelPending(t)
                \/ \E w \in Workers : Complete(t, w)]_vars
  BY ConservationStep
<1> QED
  BY <1>1, QueueInvariant, PTL DEF Spec, WorkIsConserved

-----------------------------------------------------------------------------
\* Appending a task that was not pending, or removing one, overtakes nobody.
LEMMA OthersKeepPlace ==
    ASSUME TypeOK, OrderIsTotal, NEW t \in Tasks, NEW u \in Tasks, u \in ahead[t],
           {t, u} \subseteq pendingOrder',
           \/ UNCHANGED orderVars
           \/ \E v \in Tasks \ {u} : ZAddLast(v)
           \/ \E v \in Tasks : ZRem(v)
    PROVE  u \in ahead'[t]
  BY DEF TypeOK, OrderIsTotal, orderVars, ZAddLast, ZRem

\* Only a recovery appends a task that is already pending: the other scripts that
\* publish refuse it, and a release starts from processing work.
LEMMA AppendStep ==
    ASSUME QueueInv, Next, NEW u \in pendingOrder
    PROVE  \/ UNCHANGED orderVars
           \/ \E v \in Tasks \ {u} : ZAddLast(v)
           \/ \E v \in Tasks : ZRem(v)
           \/ \E w \in Workers : Recover(u, w)
<1> DEFINE Goal == \/ UNCHANGED orderVars
                   \/ \E v \in Tasks \ {u} : ZAddLast(v)
                   \/ \E v \in Tasks : ZRem(v)
                   \/ \E w \in Workers : Recover(u, w)
<1>1. u \in pendingPayloads /\ u \notin processingPayloads
  BY DEF QueueInv, IndexMatchesPayloads, OneLiveCopy
<1>2. ASSUME NEW v \in Tasks, Enqueue(v) \/ RetryDeadLetter(v) PROVE Goal
  BY <1>1, <1>2 DEF Enqueue, EnqueueReply, RetryDeadLetter, RetryDeadLetterReply
<1>3. ASSUME NEW v \in Tasks, NEW k \in DispatchKeys, EnqueueIdempotent(v, k) PROVE Goal
  BY <1>1, <1>3 DEF EnqueueIdempotent, EnqueueIdempotentReply, EnqueueReply, vars, orderVars
<1>4. ASSUME NEW v \in Tasks, NEW w \in Workers, Release(v, w) PROVE Goal
  BY <1>1, <1>4 DEF Release, ReleaseReply, OwnedProcessingReply, OwnerReply
<1>5. ASSUME NEW v \in Tasks, NEW w \in Workers, Recover(v, w) PROVE Goal
  BY <1>5 DEF Recover
<1>6. ASSUME NEW v \in Tasks, CancelPending(v) \/ LeaseExpires(v) PROVE Goal
  BY <1>6 DEF CancelPending, LeaseExpires
<1>7. ASSUME NEW v \in Tasks, NEW e \in Workers \cup {NoOwner}, MoveToDeadLetter(v, e) PROVE Goal
  BY <1>7 DEF MoveToDeadLetter
<1>8. ASSUME NEW v \in Tasks, NEW w \in Workers,
             ClaimNext(v, w) \/ ClaimExisting(v, w) \/ Complete(v, w) \/ Fail(v, w)
      PROVE  Goal
  BY <1>8 DEF ClaimNext, ClaimExisting, Complete, Fail, vars, orderVars
<1> QED
  BY <1>2, <1>3, <1>4, <1>5, <1>6, <1>7, <1>8 DEF Next

\* First in, first out, for any number of tasks: only a recovery moves a pending
\* task behind one that was after it.
THEOREM NeverOvertaken == Spec => NoOvertaking
<1>1. QueueInv /\ [Next]_vars =>
        [\A t, u \in Tasks :
           /\ u \in ahead[t]
           /\ {t, u} \subseteq pendingOrder'
           => u \in ahead'[t] \/ \E w \in Workers : Recover(u, w)]_vars
  <2> SUFFICES ASSUME QueueInv, Next, NEW t \in Tasks, NEW u \in Tasks,
                      u \in ahead[t], {t, u} \subseteq pendingOrder'
               PROVE  u \in ahead'[t] \/ \E w \in Workers : Recover(u, w)
    OBVIOUS
  <2>1. u \in pendingOrder
    BY DEF QueueInv, OrderIsTotal
  <2> QED
    BY <2>1, AppendStep, OthersKeepPlace DEF QueueInv
<1> QED
  BY <1>1, QueueInvariant, PTL DEF Spec, NoOvertaking

=============================================================================

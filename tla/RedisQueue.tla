----------------------------- MODULE RedisQueue -----------------------------
(***************************************************************************)
(* One tenant's indexed Redis queue: RedisQueueAdapter of                  *)
(* backend/queue/adapters/redis_adapter.py.  Every operation of the        *)
(* adapter is one Lua script, which Redis runs atomically, so every        *)
(* operation is one action.  Queue keys are tenant-scoped (_pending_key    *)
(* and the other key builders); tenants are disjoint copies of this        *)
(* module.                                                                 *)
(*                                                                         *)
(* A script answers {1, ..} or {0, reason}.  XxxReply(..) is that answer   *)
(* as a state function, "ok" standing for {1, ..}; action Xxx(..) is the   *)
(* effect of the script when it answers "ok".  A script that answers       *)
(* {0, reason} writes nothing, hence is a stuttering step here.            *)
(***************************************************************************)
EXTENDS FiniteSets

CONSTANTS
    Tasks,         \* task ids
    Workers,       \* worker ids: the values a lease key can hold
    DispatchKeys,  \* idempotency keys of enqueue_task_idempotent
    NoOwner        \* GET of a missing lease key

ASSUME NoOwnerAssumption == NoOwner \notin Workers

VARIABLES
    pendingOrder,        \* members of the sorted set v2:pending-order
    ahead,               \* ahead[t]: members whose score is below the score of t
    pendingPayloads,     \* fields of the hash v2:pending-payloads
    processingPayloads,  \* fields of the hash v2:processing-payloads
    deadOrder,           \* members of the sorted set v2:dead-letter-order
    deadPayloads,        \* what v2:dead-letter-payloads holds for a task
    leaseKey,            \* owner in lease:<task>, NoOwner when missing or expired
    dispatchKeys         \* dispatch:<idempotency key> keys that exist

orderVars == <<pendingOrder, ahead>>
deadVars == <<deadOrder, deadPayloads>>
vars == <<pendingOrder, ahead, pendingPayloads, processingPayloads,
          deadOrder, deadPayloads, leaseKey, dispatchKeys>>

\* A dead letter wraps the task's message, or the stand-in that the
\* dead-letter script writes when it finds no payload (no mission_id).
DeadLetter == {"none", "message", "synthesized"}

Init ==
    /\ pendingOrder = {}
    /\ ahead = [t \in Tasks |-> {}]
    /\ pendingPayloads = {}
    /\ processingPayloads = {}
    /\ deadOrder = {}
    /\ deadPayloads = [t \in Tasks |-> "none"]
    /\ leaseKey = [t \in Tasks |-> NoOwner]
    /\ dispatchKeys = {}

-----------------------------------------------------------------------------
\* Mutant: the score is below all others.
ZAddFirst(t) ==
    /\ pendingOrder' = pendingOrder \cup {t}
    /\ ahead' = [u \in Tasks |-> IF u \in pendingOrder \ {t} THEN ahead[u] \cup {t} ELSE {}]

\* INCR sequence; ZADD pending-order score t: t becomes the last member, also
\* when it already was a member.
ZAddLast(t) ==
    /\ pendingOrder' = pendingOrder \cup {t}
    /\ ahead' = [u \in Tasks |-> IF u = t THEN pendingOrder \ {t}
                                          ELSE ahead[u] \ {t}]

\* ZREM pending-order t
ZRem(t) ==
    /\ pendingOrder' = pendingOrder \ {t}
    /\ ahead' = [u \in Tasks |-> IF u = t THEN {} ELSE ahead[u] \ {t}]

SetLease(t, w) == leaseKey' = [leaseKey EXCEPT ![t] = w]

\* Mutant: the key is left to expire.
DelLeaseForgotten(t) == leaseKey' = leaseKey

DelLease(t) == SetLease(t, NoOwner)

\* ZRANGE pending-order 0 0
IsFirst(t) == t \in pendingOrder /\ ahead[t] = {}

-----------------------------------------------------------------------------
\* Mutant: only the pending hash is checked.
EnqueueReplyPendingOnly(t) == IF t \in pendingPayloads THEN "task already pending" ELSE "ok"

\* enqueue_task
EnqueueReply(t) ==
    IF t \in processingPayloads THEN "task already processing"
    ELSE IF t \in pendingPayloads THEN "task already pending"
    ELSE "ok"

Enqueue(t) ==
    /\ EnqueueReply(t) = "ok"
    /\ pendingPayloads' = pendingPayloads \cup {t}
    /\ ZAddLast(t)
    /\ UNCHANGED <<processingPayloads, deadVars, leaseKey, dispatchKeys>>

\* enqueue_task_idempotent: a key that exists answers ok without publishing.
EnqueueIdempotentReply(t, k) ==
    IF k \in dispatchKeys THEN "ok" ELSE EnqueueReply(t)

\* Mutant: the payload is published although the key exists.
EnqueueEveryTime(t, k) ==
    /\ pendingPayloads' = pendingPayloads \cup {t}
    /\ ZAddLast(t)
    /\ dispatchKeys' = dispatchKeys \cup {k}
    /\ UNCHANGED <<processingPayloads, deadVars, leaseKey>>

EnqueueIdempotent(t, k) ==
    /\ EnqueueIdempotentReply(t, k) = "ok"
    /\ IF k \in dispatchKeys
         THEN UNCHANGED vars
         ELSE /\ pendingPayloads' = pendingPayloads \cup {t}
              /\ ZAddLast(t)
              /\ dispatchKeys' = dispatchKeys \cup {k}
              /\ UNCHANGED <<processingPayloads, deadVars, leaseKey>>

\* cancel_task: an absent payload is also answered ok.
CancelPendingReply(t) ==
    IF t \in processingPayloads THEN "task is processing with an active owner"
    ELSE "ok"

CancelPending(t) ==
    /\ CancelPendingReply(t) = "ok"
    /\ ZRem(t)
    /\ pendingPayloads' = pendingPayloads \ {t}
    /\ UNCHANGED <<processingPayloads, deadVars, leaseKey, dispatchKeys>>

-----------------------------------------------------------------------------
\* claim_task: the first member of the order is claimed, or the call fails;
\* a later member is never tried instead.
ClaimNextReply(t) ==
    IF t \notin pendingPayloads THEN "pending index is missing payload"
    ELSE IF leaseKey[t] # NoOwner THEN "task already claimed by different worker"
    ELSE "ok"

ClaimNext(t, w) ==
    /\ IsFirst(t)
    /\ ClaimNextReply(t) = "ok"
    /\ ZRem(t)
    /\ pendingPayloads' = pendingPayloads \ {t}
    /\ processingPayloads' = processingPayloads \cup {t}
    /\ SetLease(t, w)
    /\ UNCHANGED <<deadVars, dispatchKeys>>

\* claim_existing_task: a processing payload of the same worker is answered
\* ok and only its lease TTL is renewed.
ClaimExistingReply(t, w) ==
    IF t \in processingPayloads
      THEN IF leaseKey[t] = NoOwner THEN "processing payload has no worker owner"
           ELSE IF leaseKey[t] # w THEN "task already claimed by different worker"
           ELSE "ok"
    ELSE IF t \notin pendingPayloads THEN "task not found in pending or processing queue"
    ELSE IF leaseKey[t] \notin {NoOwner, w} THEN "task already claimed by different worker"
    ELSE "ok"

ClaimExisting(t, w) ==
    /\ ClaimExistingReply(t, w) = "ok"
    /\ IF t \in processingPayloads
         THEN UNCHANGED vars
         ELSE /\ ZRem(t)
              /\ pendingPayloads' = pendingPayloads \ {t}
              /\ processingPayloads' = processingPayloads \cup {t}
              /\ SetLease(t, w)
              /\ UNCHANGED <<deadVars, dispatchKeys>>

-----------------------------------------------------------------------------
\* Mutant: any owner will do.
OwnerReplyAnyOwner(t, w) == IF leaseKey[t] = NoOwner THEN "lease owner missing" ELSE "ok"

\* The owner check that heartbeat, complete, fail and release begin with.
OwnerReply(t, w) ==
    IF leaseKey[t] = NoOwner THEN "lease owner missing"
    ELSE IF leaseKey[t] # w THEN "worker does not own claim"
    ELSE "ok"

\* heartbeat renews the TTL of the lease key; the answer is what matters.
HeartbeatReply(t, w) == OwnerReply(t, w)

OwnedProcessingReply(t, w) ==
    IF OwnerReply(t, w) # "ok" THEN OwnerReply(t, w)
    ELSE IF t \notin processingPayloads THEN "task not found in processing queue"
    ELSE "ok"

\* complete_task
CompleteReply(t, w) == OwnedProcessingReply(t, w)

Complete(t, w) ==
    /\ CompleteReply(t, w) = "ok"
    /\ processingPayloads' = processingPayloads \ {t}
    /\ DelLease(t)
    /\ UNCHANGED <<orderVars, pendingPayloads, deadVars, dispatchKeys>>

\* fail_task
FailReply(t, w) == OwnedProcessingReply(t, w)

Fail(t, w) ==
    /\ FailReply(t, w) = "ok"
    /\ processingPayloads' = processingPayloads \ {t}
    /\ deadPayloads' = [deadPayloads EXCEPT ![t] = "message"]
    /\ deadOrder' = deadOrder \cup {t}
    /\ DelLease(t)
    /\ UNCHANGED <<orderVars, pendingPayloads, dispatchKeys>>

\* release_lease
ReleaseReply(t, w) == OwnedProcessingReply(t, w)

Release(t, w) ==
    /\ ReleaseReply(t, w) = "ok"
    /\ processingPayloads' = processingPayloads \ {t}
    /\ pendingPayloads' = pendingPayloads \cup {t}
    /\ ZAddLast(t)
    /\ DelLease(t)
    /\ UNCHANGED <<deadVars, dispatchKeys>>

-----------------------------------------------------------------------------
BothQueues(t) == t \in processingPayloads /\ t \in pendingPayloads
InNeitherQueue(t) == t \notin processingPayloads /\ t \notin pendingPayloads

\* recover_task_for_retry: whoever recovers names the worker it believes to
\* own the claim; a missing lease key is accepted as well.
RecoverReply(t, w) ==
    IF leaseKey[t] \notin {NoOwner, w} THEN "worker does not own claim"
    ELSE IF BothQueues(t) THEN "task exists in both pending and processing queues"
    ELSE IF InNeitherQueue(t) THEN "task not found in processing or pending queue"
    ELSE "ok"

Recover(t, w) ==
    /\ RecoverReply(t, w) = "ok"
    /\ processingPayloads' = processingPayloads \ {t}
    /\ pendingPayloads' = pendingPayloads \cup {t}
    /\ ZAddLast(t)
    /\ DelLease(t)
    /\ UNCHANGED <<deadVars, dispatchKeys>>

\* move_to_dead_letter (expected = NoOwner) and move_owned_to_dead_letter:
\* without a payload in either queue a stand-in is written.
DeadLetterReply(t, expected) ==
    IF expected = NoOwner /\ leaseKey[t] # NoOwner THEN "active worker owns claim"
    ELSE IF leaseKey[t] \notin {NoOwner, expected} THEN "worker does not own claim"
    ELSE IF BothQueues(t) THEN "task exists in both pending and processing queues"
    ELSE "ok"

\* Mutant: the payload is looked up in processing only.
DeadLetterProcessingOnly(t) == IF t \in processingPayloads THEN "message" ELSE "synthesized"

DeadLetterPayload(t) == IF InNeitherQueue(t) THEN "synthesized" ELSE "message"

MoveToDeadLetter(t, expected) ==
    /\ DeadLetterReply(t, expected) = "ok"
    /\ processingPayloads' = processingPayloads \ {t}
    /\ pendingPayloads' = pendingPayloads \ {t}
    /\ ZRem(t)
    /\ deadPayloads' = [deadPayloads EXCEPT ![t] = DeadLetterPayload(t)]
    /\ deadOrder' = deadOrder \cup {t}
    /\ DelLease(t)
    /\ UNCHANGED dispatchKeys

\* Mutant: live copies of the task are not looked for.
RetryDeadLetterUnchecked(t) ==
    IF deadPayloads[t] = "message" THEN "ok" ELSE "dead-letter entry not found"

\* retry_dead_letter: the stand-in has no mission_id and is refused as corrupt.
RetryDeadLetterReply(t) ==
    IF t \in pendingPayloads THEN "task already pending"
    ELSE IF t \in processingPayloads THEN "task already processing"
    ELSE IF deadPayloads[t] = "none" THEN "dead-letter entry not found"
    ELSE IF deadPayloads[t] = "synthesized"
      THEN "dead-letter payload is corrupt: missing mission_id"
    ELSE "ok"

RetryDeadLetter(t) ==
    /\ RetryDeadLetterReply(t) = "ok"
    /\ deadPayloads' = [deadPayloads EXCEPT ![t] = "none"]
    /\ deadOrder' = deadOrder \ {t}
    /\ pendingPayloads' = pendingPayloads \cup {t}
    /\ ZAddLast(t)
    /\ UNCHANGED <<processingPayloads, leaseKey, dispatchKeys>>

-----------------------------------------------------------------------------
\* Redis removes a lease key whose TTL (heartbeat_ttl_seconds) ran out.
LeaseExpires(t) ==
    /\ leaseKey[t] # NoOwner
    /\ DelLease(t)
    /\ UNCHANGED <<orderVars, pendingPayloads, processingPayloads, deadVars, dispatchKeys>>

Next ==
    \/ \E t \in Tasks :
         \/ Enqueue(t)
         \/ CancelPending(t)
         \/ RetryDeadLetter(t)
         \/ LeaseExpires(t)
         \/ MoveToDeadLetter(t, NoOwner)
         \/ \E k \in DispatchKeys : EnqueueIdempotent(t, k)
         \/ \E w \in Workers :
              \/ ClaimNext(t, w)
              \/ ClaimExisting(t, w)
              \/ Complete(t, w)
              \/ Fail(t, w)
              \/ Release(t, w)
              \/ Recover(t, w)
              \/ MoveToDeadLetter(t, w)

Spec == Init /\ [][Next]_vars

-----------------------------------------------------------------------------
\* The Redis keys hold what the scripts expect of them: task ids in the indexes,
\* worker ids in the lease keys, one of three kinds of dead letter.
TypeOK ==
    /\ pendingOrder \in SUBSET Tasks
    /\ ahead \in [Tasks -> SUBSET Tasks]
    /\ pendingPayloads \in SUBSET Tasks
    /\ processingPayloads \in SUBSET Tasks
    /\ deadOrder \in SUBSET Tasks
    /\ deadPayloads \in [Tasks -> DeadLetter]
    /\ leaseKey \in [Tasks -> Workers \cup {NoOwner}]
    /\ dispatchKeys \in SUBSET DispatchKeys

\* A task is never pending and processing at once, whatever the order of
\* publications, claims, releases, recoveries and dead-letter moves: the
\* "exists in both pending and processing queues" replies are unreachable.
OneLiveCopy == pendingPayloads \cap processingPayloads = {}

\* The scripts keep each sorted set and its payload hash in step: an order
\* entry without payload would make claim_task fail for every worker, and a
\* payload without order entry would never be claimed.
IndexMatchesPayloads ==
    /\ pendingOrder = pendingPayloads
    /\ deadOrder = {t \in Tasks : deadPayloads[t] # "none"}

\* A lease key exists only for a processing payload.  A lease left on a
\* pending task would make claim_task refuse it, and every task behind it.
LeaseImpliesProcessing ==
    \A t \in Tasks : leaseKey[t] # NoOwner => t \in processingPayloads

\* The order is a strict total order on the pending tasks.
OrderIsTotal ==
    /\ \A t \in Tasks : ahead[t] \subseteq pendingOrder \ {t}
    /\ \A t \in Tasks \ pendingOrder : ahead[t] = {}
    /\ \A t, u \in pendingOrder : t # u => (t \in ahead[u] <=> u \notin ahead[t])
    /\ \A t, u, v \in pendingOrder : t \in ahead[u] /\ u \in ahead[v] => t \in ahead[v]

\* The five structures of a queue agree after every script.
KeysConsistent == OneLiveCopy /\ IndexMatchesPayloads /\ LeaseImpliesProcessing /\ OrderIsTotal

\* claim_task never gets stuck: while anything is pending, the first member of
\* the order exists and its claim succeeds for any worker.
HeadIsClaimable ==
    pendingPayloads # {} => \E t \in Tasks : IsFirst(t) /\ ClaimNextReply(t) = "ok"

\* Queued work is not lost: a payload leaves both live queues only by its
\* owner's completion, by a cancellation of pending work, or into the
\* dead-letter hash as a message that retry_dead_letter accepts.
WorkIsConserved ==
    [][\A t \in Tasks :
         ~InNeitherQueue(t) /\ InNeitherQueue(t)'
           => \/ deadPayloads'[t] = "message"
              \/ t \in pendingPayloads /\ CancelPending(t)
              \/ \E w \in Workers : Complete(t, w)]_vars

\* First in, first out: of two tasks that stay pending, the one behind never
\* overtakes, unless the one in front is re-queued at the tail by a recovery.
NoOvertaking ==
    [][\A t, u \in Tasks :
         /\ u \in ahead[t]
         /\ {t, u} \subseteq pendingOrder'
         => u \in ahead'[t] \/ \E w \in Workers : Recover(u, w)]_vars

-----------------------------------------------------------------------------
\* Where the adapter-independent contract sees the work of a task.
LivePlace(t) ==
    IF t \in pendingPayloads THEN "pending"
    ELSE IF t \in processingPayloads THEN "processing"
    ELSE "absent"

Contract == INSTANCE QueueContract WITH
    live <- [t \in Tasks |-> LivePlace(t)],
    owner <- leaseKey,
    dead <- {t \in Tasks : deadPayloads[t] # "none"},
    spent <- dispatchKeys

\* The indexed Redis adapter keeps every promise of QueueAdapter
\* (backend/queue/base.py): each script is one step of the contract or none.
ImplementsContract == Contract!Spec

=============================================================================

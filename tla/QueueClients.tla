---------------------------- MODULE QueueClients ----------------------------
(***************************************************************************)
(* The queue and its callers.  RedisQueue knows which worker a lease key   *)
(* names; this module adds the claims that each worker has been given and  *)
(* has not reported on.  Meanwhile its lease may expire and a maintenance  *)
(* pass may hand its task to somebody else.                                *)
(***************************************************************************)
EXTENDS RedisQueue

VARIABLE holds  \* holds[w]: tasks that worker w has claimed and not reported on

clientVars == <<vars, holds>>

ClientInit == Init /\ holds = [w \in Workers |-> {}]

Believe(w, tasks) == holds' = [holds EXCEPT ![w] = tasks]

\* RedisQueueAdapter.claim_task and claim_existing_task answered with a message.
TakeClaim(t, w) ==
    /\ ClaimNext(t, w) \/ ClaimExisting(t, w)
    /\ Believe(w, holds[w] \cup {t})

\* The worker commits an outcome, or is refused, or its daemon restarts under the
\* same identity: it no longer works on the task.
Report(t, w) ==
    /\ t \in holds[w]
    /\ Believe(w, holds[w] \ {t})
    /\ UNCHANGED vars

\* complete_task and fail_task follow the commit of the outcome.  A reconciliation
\* makes the same calls in the name of the last holder.
Settle(t, w) ==
    /\ t \notin holds[w]
    /\ Complete(t, w) \/ Fail(t, w)
    /\ UNCHANGED holds

\* release_lease comes before the commit.
GiveBack(t, w) ==
    /\ t \in holds[w]
    /\ Release(t, w)
    /\ Believe(w, holds[w] \ {t})

\* Publication, cancellation, expiry, and maintenance in the name of a worker.
OtherCall(t) ==
    /\ \/ Enqueue(t) \/ CancelPending(t) \/ RetryDeadLetter(t) \/ LeaseExpires(t)
       \/ \E k \in DispatchKeys : EnqueueIdempotent(t, k)
       \/ \E w \in Workers : Recover(t, w)
       \/ \E e \in Workers \cup {NoOwner} : MoveToDeadLetter(t, e)
    /\ UNCHANGED holds

ClientNext ==
    \E t \in Tasks :
      \/ OtherCall(t)
      \/ \E w \in Workers :
           TakeClaim(t, w) \/ Report(t, w) \/ Settle(t, w) \/ GiveBack(t, w)

ClientSpec == ClientInit /\ [][ClientNext]_clientVars

-----------------------------------------------------------------------------
\* Queue keys and beliefs have their types.
ClientTypeOK == TypeOK /\ holds \in [Workers -> SUBSET Tasks]

\* While the lease key names a worker that still works on the task, no report of
\* another worker, in particular of one that held the task before, takes the
\* payload out of processing: only its own release, after which it no longer works
\* on the task, or a recovery or dead-letter move that names it.
OwnerKeepsWork ==
    [][\A t \in Tasks, w \in Workers :
         /\ leaseKey[t] = w
         /\ t \in holds[w] \cap holds'[w]
         /\ t \in processingPayloads \ processingPayloads'
         => Recover(t, w) \/ MoveToDeadLetter(t, w)]_clientVars
=============================================================================

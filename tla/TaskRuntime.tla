----------------------------- MODULE TaskRuntime -----------------------------
(***************************************************************************)
(* The execution runtime: workers, maintenance passes, API requests, Redis *)
(* expiry and faults, interleaved over the shared rows and the queue.     *)
(***************************************************************************)
EXTENDS WorkerRuntime, Maintainer, Admission

Next ==
    \/ \E w \in Workers : WorkerStep(w) \/ WorkerCrash(w)
    \/ \E m \in Maintainers : MaintStep(m) \/ MaintCrash(m)
    \/ \E r \in Requests : RequestRead(r) \/ RequestStep(r) \/ RequestCrash(r)
    \/ \E t \in Tasks : LeaseKeyExpires(t)

Spec == Init /\ [][Next]_vars

\* A daemon and an API process keep taking their steps.  A maintenance pass goes
\* through every phase each time the worker loop schedules it, so a phase that
\* has work again and again is not passed over for ever.  Redis expires keys.
Fairness ==
    /\ \A w \in Workers : WF_vars(WorkerStep(w))
    /\ \A m \in Maintainers :
         /\ WF_vars(MaintStep(m))
         /\ SF_vars(ListDue(m)) /\ SF_vars(CleanCancelled(m))
         /\ SF_vars(RecoverRead(m)) /\ SF_vars(ReconcileLoad(m))
    /\ \A r \in Requests : WF_vars(RequestStep(r))
    /\ \A t \in Tasks : WF_vars(LeaseKeyExpires(t))

FairSpec == Spec /\ Fairness

\* Every row, queue structure and process frame has its declared shape; the
\* retry counter that reconciliation increments without a check stays in range.
TypeOK ==
    /\ task \in [Tasks -> TaskRow]
    /\ lease \in [Tasks -> [Workers -> LeaseStatuses]]
    /\ lastHolder \in [Tasks -> Workers \cup {NoOwner}]
    /\ dispatch \in [Tasks -> DispatchRow]
    /\ Q!TypeOK
    /\ \A w \in Workers : worker[w].task \in Tasks \cup {NoTask} /\ worker[w].meta \in Meta
    /\ \A m \in Maintainers : maint[m].row \in TaskRow /\ maint[m].disp \in DispatchRow
    /\ \A r \in Requests : api[r].row \in TaskRow /\ api[r].disp \in DispatchRow
    /\ faults \in 0 .. MaxFaults

-----------------------------------------------------------------------------
Holds(t, w) == lease[t][w] \in {"claimed", "active"}

\* Some process is in the middle of an operation on the task.
Busy(t) ==
    \/ WorkersOn(t) # {}
    \/ \E m \in Maintainers : maint[m].task = t
    \/ \E r \in Requests : api[r].task = t

\* From the start of the handler to the commit of its outcome.
Executing(t, w) ==
    /\ worker[w].task = t
    /\ worker[w].pc \in {"run", "complete", "complete_commit", "block", "block_commit",
                         "fail", "fail_commit"}

\* Two workers never execute the same task at the same time: the claim checks the
\* lease rows (assert_no_active_lease) after the queue has handed out the payload.
NoDoubleExecution ==
    \A t \in Tasks, v, w \in Workers : Executing(t, v) /\ Executing(t, w) => v = w

\* A claimed or running task always has a claimed or active lease row, whatever
\* stale row a maintenance pass expires: recover_expired_leases starts from the
\* lease rows, so a held task without one would never be recovered.
HeldIsRecoverable ==
    \A t \in Tasks : task[t].status \in Recoverable => ActiveLease(t)

\* A task is never retried automatically more than max_retries times, although the
\* reconciliation of processing payloads increments retry_count without a check.
RetriesAreBounded == \A t \in Tasks : task[t].retry <= MaxRetries

\* A queued task that nobody is working on can still be delivered: its payload is
\* in the queue, or its dispatch waits for publish_due.
QueuedHasDelivery ==
    \A t \in Tasks : task[t].status = "queued" /\ ~Busy(t) =>
        ~Q!InNeitherQueue(t) \/ dispatch[t].status = "pending"

\* At most one worker holds a claimed or active lease row of a task.
OneActiveLease ==
    \A t \in Tasks, v, w \in Workers : Holds(t, v) /\ Holds(t, w) => v = w

\* A held task that nobody is working on still has its payload in the queue:
\* without it recover_task_for_retry refuses and every maintenance pass raises.
RecoveryFindsPayload ==
    \A t \in Tasks : task[t].status \in Recoverable /\ ~Busy(t) => ~Q!InNeitherQueue(t)

\* The dead letter of a dead-lettered task is the message that was delivered, not
\* one that the dead-letter script made up because it found no payload.
DeadLetterKept ==
    \A t \in Tasks : task[t].status = "dead_lettered" => deadPayloads[t] = "message"

\* Every committed change of a task's status is one that StateMachine allows from
\* the status in the database, although each session checks the transition only
\* on the row it read.  Recovery goes through recovering in one transaction.
StatusFollowsTable ==
    [][\A t \in Tasks :
         LET s == task[t].status  n == task'[t].status IN
         s # n => CanMove(s, n) \/ (s = "running" /\ CanMove("recovering", n))]_vars

\* Neither a late publication nor a recovery puts the payload of a completed task
\* back into the pending queue after it was removed: the hook and publish_due may
\* both hold the dispatch as pending while a worker finishes the task.
CompletedIsNotRedelivered ==
    [][\A t \in Tasks : task[t].status = "completed" /\ Q!InNeitherQueue(t)
                          => t \notin pendingPayloads']_vars

\* Maintenance never changes the status of a task while a worker executes it.
HealthyWorkIsKept ==
    [][\A t \in Tasks, w \in Workers :
         Executing(t, w) /\ worker'[w] = worker[w] /\ task[t].status = "running"
           => task'[t].status = "running"]_vars

\* A cancelled task stays cancelled: workers, passes and requests that read the
\* row before the cancellation do not bring it back.
CancelledIsFinal ==
    [][\A t \in Tasks : task[t].status = "cancelled" => task'[t].status = "cancelled"]_vars

\* Every admitted task reaches a terminal state: it is published, claimed, run or
\* recovered, and in the end completed, failed, blocked, cancelled or dead-lettered.
AdmittedSettles ==
    \A t \in Tasks : task[t].status = "queued" ~> task[t].status \in TerminalStates

\* The payload of a completed task does not stay in processing.
CompletedLeavesProcessing ==
    \A t \in Tasks : task[t].status = "completed" ~> t \notin processingPayloads

\* A running task whose cancellation was requested ends up cancelled.
CancelRequestStops ==
    \A t \in Tasks : (task[t].status = "running" /\ task[t].meta.cancel)
                       ~> task[t].status = "cancelled"
=============================================================================

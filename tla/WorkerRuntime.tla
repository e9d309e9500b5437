---------------------------- MODULE WorkerRuntime ----------------------------
(***************************************************************************)
(* A worker daemon: worker_loop.py claims and starts one task at a time,   *)
(* task_dispatcher.py runs its handler and reports, and every report is a  *)
(* transaction of WorkerRuntimeService followed by one queue script.       *)
(* worker[w].pc is the next step; worker[w].meta the metadata_json column  *)
(* that the step's session has read.                                       *)
(***************************************************************************)
EXTENDS RuntimeState

At(w, pc) == worker[w].pc = pc
Task(w) == worker[w].task
Row(w) == task[worker[w].task]

Goto(w, pc) == worker' = [worker EXCEPT ![w].pc = pc]
GotoWith(w, pc, meta) == worker' = [worker EXCEPT ![w].pc = pc, ![w].meta = meta]
Done(w) == worker' = [worker EXCEPT ![w] = IdleWorker]

-----------------------------------------------------------------------------
\* claim_next_task: claim_task on the queue ...
ClaimTask(w) ==
    /\ At(w, "idle")
    /\ \E t \in Tasks :
         /\ Q!ClaimNext(t, w)
         /\ worker' = [worker EXCEPT ![w].pc = "read", ![w].task = t]
         /\ TakenUp(t, w)
    /\ UNCHANGED <<dbVars, api, faults>>

\* Mutant: neither the lease rows nor the transition are checked.
ClaimBranchUnchecked(w) ==
    IF Row(w).status \in TerminalStates THEN "discard"
    ELSE IF Task(w) \in Clarifying THEN "stale"
    ELSE "claim"

\* ... then the task row is read, and the claim is discarded (the task is
\* terminal), cancelled (stale clarification mission), recorded, or undone.  Of
\* the metadata the claim replaces the lease reference and keeps the rest.
ClaimBranch(w) ==
    IF Row(w).status \in TerminalStates THEN "discard"
    ELSE IF Task(w) \in Clarifying
      THEN IF CanMove(Row(w).status, "cancelled") THEN "stale" ELSE "idle"
    ELSE IF ~ActiveLease(Task(w)) /\ CanMove(Row(w).status, "claimed") THEN "claim"
    ELSE "compensate"

ClaimRead(w) ==
    /\ At(w, "read")
    /\ IF ClaimBranch(w) = "idle" THEN Done(w)
         ELSE GotoWith(w, ClaimBranch(w), [Row(w).meta EXCEPT !.ref = NoOwner])
    /\ UNCHANGED <<dbVars, queueVars, maint, api, faults>>

\* reconcile_claimed_terminal_queue_artifact
DiscardTerminal(w) ==
    /\ At(w, "discard")
    /\ Attempt(Q!CompleteReply(Task(w), w), Q!Complete(Task(w), w))
    /\ Done(w)
    /\ UNCHANGED <<dbVars, maint, api, faults>>

\* A task of a clarifying mission is cancelled, removed from the queue, and
\* the cancelled dispatches are cleaned up.
CancelStale(w) ==
    /\ At(w, "stale")
    /\ SetStatus(Task(w), "cancelled")
    /\ PutDispatch(Task(w), dispatch[Task(w)], CancelledDispatch(dispatch[Task(w)]))
    /\ Goto(w, "stale_queue")
    /\ UNCHANGED <<leaseVars, queueVars, maint, api, faults>>

StaleQueue(w) ==
    /\ At(w, "stale_queue")
    /\ Attempt(Q!CompleteReply(Task(w), w), Q!Complete(Task(w), w))
    /\ Goto(w, "cleanup")
    /\ UNCHANGED <<dbVars, maint, api, faults>>

StaleCleanup(w) ==
    /\ At(w, "cleanup")
    /\ CleanupAfterCancel(Task(w))
    /\ Done(w)
    /\ UNCHANGED <<task, leaseVars, maint, api, faults>>

\* The claim commits: the row becomes claimed with metadata as read plus the
\* reference to the new lease.
CommitClaim(w) ==
    LET meta == [cancel |-> worker[w].meta.cancel, ref |-> w] IN
    /\ At(w, "claim")
    /\ SetStatusMeta(Task(w), "claimed", meta)
    /\ InsertLease(Task(w), w)
    /\ GotoWith(w, "heartbeat", meta)
    /\ UNCHANGED <<dispatch, queueVars, faults>>

CommitClaimFails(w) ==
    /\ At(w, "claim")
    /\ Fault("claim")
    /\ GotoWith(w, "compensate", NoMeta)
    /\ UNCHANGED <<dbVars, queueVars, maint, api>>

\* The except branch of claim_next_task gives the payload back.
Compensate(w) ==
    /\ At(w, "compensate")
    /\ Attempt(Q!ReleaseReply(Task(w), w), Q!Release(Task(w), w))
    /\ Done(w)
    /\ UNCHANGED <<dbVars, maint, api, faults>>

-----------------------------------------------------------------------------
\* heartbeat and start_execution run in the session of the claim: the lease
\* and task rows are not read again.
Heartbeat(w) ==
    /\ At(w, "heartbeat")
    /\ Q!HeartbeatReply(Task(w), w) = "ok"
    /\ PutLease(Task(w), w, "active")
    /\ Goto(w, "start")
    /\ UNCHANGED <<task, dispatch, queueVars, maint, api, faults>>

StartExecution(w) ==
    /\ At(w, "start")
    /\ SetStatusMeta(Task(w), "running", worker[w].meta)
    /\ lastHolder' = [lastHolder EXCEPT ![Task(w)] = w]
    /\ GotoWith(w, "run", NoMeta)
    /\ UNCHANGED <<lease, dispatch, queueVars, maint, api, faults>>

\* A refused heartbeat, or a failed heartbeat or start: _release_unstarted_claim_once.
HeartbeatRefused(w) ==
    /\ At(w, "heartbeat")
    /\ Q!HeartbeatReply(Task(w), w) # "ok"
    /\ GotoWith(w, "release", NoMeta)
    /\ UNCHANGED <<dbVars, queueVars, maint, api, faults>>

StartFails(w) ==
    /\ At(w, "heartbeat") \/ At(w, "start")
    /\ Fault("start")
    /\ GotoWith(w, "release", NoMeta)
    /\ UNCHANGED <<dbVars, queueVars, maint, api>>

\* release, with assert_current_releasable_claim on freshly read rows.
Releasable(w) ==
    /\ lease[Task(w)][w] \in {"claimed", "active"}
    /\ Row(w).status = "claimed"
    /\ Row(w).meta.ref = w

Release(w) ==
    /\ At(w, "release")
    /\ IF Releasable(w) /\ Q!ReleaseReply(Task(w), w) = "ok"
         THEN Q!Release(Task(w), w) /\ Goto(w, "release_commit")
         ELSE UNCHANGED queueVars /\ Done(w)
    /\ UNCHANGED <<dbVars, maint, api, faults>>

\* Mutant: the two states are swapped.
ReleaseCommitSwapped(w) ==
    /\ At(w, "release_commit")
    /\ SetStatus(Task(w), "released")
    /\ PutLease(Task(w), w, "queued")
    /\ Done(w)
    /\ UNCHANGED <<dispatch, queueVars, maint, api, faults>>

ReleaseCommit(w) ==
    /\ At(w, "release_commit")
    /\ SetStatus(Task(w), "queued")
    /\ PutLease(Task(w), w, "released")
    /\ Done(w)
    /\ UNCHANGED <<dispatch, queueVars, maint, api, faults>>

-----------------------------------------------------------------------------
\* TaskDispatcher.execute: the handler returns or fails.
HandlerReturns(w) ==
    /\ At(w, "run")
    /\ Goto(w, "complete")
    /\ UNCHANGED <<dbVars, queueVars, maint, api, faults>>

HandlerFails(w) ==
    /\ At(w, "run")
    /\ Goto(w, "fail")
    /\ UNCHANGED <<dbVars, queueVars, maint, api, faults>>

\* What execute does when completion raises: block when the handler has had an
\* external side effect, else fail.  The handler may have had one or not.
CompletionError(w) == \E next \in {"block", "fail"} : GotoWith(w, next, NoMeta)

\* Mutant: the payload is removed before the completion commits.
CompleteReadQueueFirst(w) ==
    /\ At(w, "complete")
    /\ Row(w).status = "running" /\ ~Row(w).meta.cancel
    /\ Attempt(Q!CompleteReply(Task(w), w), Q!Complete(Task(w), w))
    /\ GotoWith(w, "complete_commit", Row(w).meta)
    /\ UNCHANGED <<dbVars, maint, api, faults>>

\* complete: fresh rows are read; the lease row is only checked for its holder.
\* With cancel_requested the handler's result is dropped: the first line of
\* _complete_cancel_requested asks for running -> cancelled, which TaskAllowed
\* does not contain, and raises.
CompleteRead(w) ==
    /\ At(w, "complete")
    /\ IF Row(w).status = "running" /\ ~Row(w).meta.cancel
         THEN GotoWith(w, "complete_commit", Row(w).meta)
         ELSE CompletionError(w)
    /\ UNCHANGED <<dbVars, queueVars, maint, api, faults>>

\* Output validation, evidence or the commit itself fails.
CompleteFails(w) ==
    /\ At(w, "complete_commit")
    /\ CompletionError(w)
    /\ UNCHANGED <<dbVars, queueVars, maint, api, faults>>

CompleteCommit(w) ==
    /\ At(w, "complete_commit")
    /\ SetStatusMeta(Task(w), "completed", worker[w].meta)
    /\ PutLease(Task(w), w, "released")
    /\ GotoWith(w, "complete_queue", NoMeta)
    /\ UNCHANGED <<dispatch, queueVars, maint, api, faults>>

\* block_completion_failure
BlockRead(w) ==
    /\ At(w, "block")
    /\ IF Row(w).status = "running" THEN Goto(w, "block_commit") ELSE Done(w)
    /\ UNCHANGED <<dbVars, queueVars, maint, api, faults>>

BlockCommit(w) ==
    /\ At(w, "block_commit")
    /\ SetStatus(Task(w), "blocked")
    /\ PutLease(Task(w), w, "released")
    /\ Goto(w, "complete_queue")
    /\ UNCHANGED <<dispatch, queueVars, maint, api, faults>>

\* The queue script after the commit of complete and block_completion_failure;
\* a refusal is only recorded.
CompleteQueue(w) ==
    /\ At(w, "complete_queue")
    /\ Attempt(Q!CompleteReply(Task(w), w), Q!Complete(Task(w), w))
    /\ Done(w)
    /\ UNCHANGED <<dbVars, maint, api, faults>>

\* fail: the eligible statuses are further restricted by the transition table.
FailEligible(s) == s \in {"claimed", "running", "blocked"} /\ CanMove(s, "failed")

FailRead(w) ==
    /\ At(w, "fail")
    /\ IF FailEligible(Row(w).status) THEN GotoWith(w, "fail_commit", Row(w).meta)
                                      ELSE Done(w)
    /\ UNCHANGED <<dbVars, queueVars, maint, api, faults>>

\* Mutant: the lease is released and the task row is not written.
FailCommitLeaseOnly(w) ==
    /\ At(w, "fail_commit")
    /\ PutLease(Task(w), w, "released")
    /\ GotoWith(w, "fail_queue", NoMeta)
    /\ UNCHANGED <<task, dispatch, queueVars, maint, api, faults>>

FailCommit(w) ==
    /\ At(w, "fail_commit")
    /\ SetStatusMeta(Task(w), "failed", worker[w].meta)
    /\ PutLease(Task(w), w, "released")
    /\ GotoWith(w, "fail_queue", NoMeta)
    /\ UNCHANGED <<dispatch, queueVars, maint, api, faults>>

FailQueue(w) ==
    /\ At(w, "fail_queue")
    /\ Attempt(Q!FailReply(Task(w), w), Q!Fail(Task(w), w))
    /\ Done(w)
    /\ UNCHANGED <<dbVars, maint, api, faults>>

\* The daemon dies, or both attempts of a report fail, or the reply of a queue
\* script is lost: whatever is not yet committed is forgotten.
WorkerCrash(w) ==
    /\ worker[w].pc # "idle"
    /\ Fault("worker")
    /\ Done(w)
    /\ UNCHANGED <<dbVars, queueVars, maint, api>>

WorkerStep(w) ==
    \/ ClaimTask(w) \/ ClaimRead(w) \/ DiscardTerminal(w)
    \/ CancelStale(w) \/ StaleQueue(w) \/ StaleCleanup(w)
    \/ CommitClaim(w) \/ CommitClaimFails(w) \/ Compensate(w)
    \/ Heartbeat(w) \/ StartExecution(w) \/ HeartbeatRefused(w) \/ StartFails(w)
    \/ Release(w) \/ ReleaseCommit(w)
    \/ HandlerReturns(w) \/ HandlerFails(w)
    \/ CompleteRead(w) \/ CompleteFails(w) \/ CompleteCommit(w) \/ CompleteQueue(w)
    \/ BlockRead(w) \/ BlockCommit(w)
    \/ FailRead(w) \/ FailCommit(w) \/ FailQueue(w)
=============================================================================

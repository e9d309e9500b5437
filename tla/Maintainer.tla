----------------------------- MODULE Maintainer -----------------------------
(***************************************************************************)
(* One pass of RuntimeMaintainer.recover_expired_leases, run by a worker   *)
(* between tasks or by an operator: publish due dispatches, recover stale  *)
(* leases, reconcile processing payloads.  maint[m] holds the row that the *)
(* pass has read.                                                          *)
(***************************************************************************)
EXTENDS RuntimeState

MAt(m, pc) == maint[m].pc = pc
MTask(m) == maint[m].task
MRow(m) == maint[m].row
Holder(m) == maint[m].holder

MGoto(m, pc) == maint' = [maint EXCEPT ![m].pc = pc]
MDone(m) == maint' = [maint EXCEPT ![m] = IdleMaint]

-----------------------------------------------------------------------------
\* publish_due: list_due_pending locks a batch of pending dispatches, but the
\* commit that follows each one releases the locks of the whole batch.
ListDue(m) ==
    /\ MAt(m, "idle")
    /\ \E t \in Tasks :
         /\ dispatch[t].status = "pending"
         /\ maint' = [maint EXCEPT ![m] = [IdleMaint EXCEPT !.pc = "due", !.task = t,
                                                            !.disp = dispatch[t]]]
    /\ UNCHANGED <<dbVars, queueVars, worker, api, faults>>

\* A dispatch is cancelled when its task is not queued ...
DropDispatch(m) ==
    LET d == maint[m].disp IN
    /\ MAt(m, "due")
    /\ task[MTask(m)].status # "queued"
    /\ PutDispatch(MTask(m), d, [d EXCEPT !.status = "cancelled", !.cleaned = ~d.sent])
    /\ MDone(m)
    /\ UNCHANGED <<task, leaseVars, queueVars, worker, api, faults>>

\* ... and published otherwise; a refused publication is only rescheduled.
PublishDue(m) ==
    LET t == MTask(m)  d == maint[m].disp IN
    /\ MAt(m, "due")
    /\ task[t].status = "queued"
    /\ IF PublishReply(t, d) = "ok" THEN Publish(t, d) /\ MGoto(m, "ack")
                                    ELSE UNCHANGED queueVars /\ MDone(m)
    /\ UNCHANGED <<dbVars, worker, api, faults>>

PublishDueAck(m) ==
    /\ MAt(m, "ack")
    /\ AckPublished(MTask(m), maint[m].disp)
    /\ MDone(m)
    /\ UNCHANGED <<task, leaseVars, queueVars, worker, api, faults>>

CleanCancelled(m) ==
    /\ MAt(m, "idle")
    /\ \E t \in Tasks : ReconcileCancelled(t)
    /\ UNCHANGED <<task, leaseVars, procVars>>

-----------------------------------------------------------------------------
\* What a pass keeps of a task row: it neither reads nor writes metadata_json.
Seen(t) == [task[t] EXCEPT !.meta = NoMeta]

\* The select of recover_expired_leases: a lease that is claimed or active and
\* whose heartbeat is older than the threshold, with its task row.
RecoverRead(m) ==
    /\ MAt(m, "idle")
    /\ \E t \in Tasks, w \in Workers :
         /\ lease[t][w] \in {"claimed", "active"}
         /\ MayLapse(t, w)
         /\ maint' = [maint EXCEPT ![m] = [IdleMaint EXCEPT !.pc = "recover", !.task = t,
                                                            !.holder = w, !.row = Seen(t),
                                                            !.since = WorkersOn(t)]]
    /\ UNCHANGED <<dbVars, queueVars, worker, api, faults>>

Recoverable == {"running", "claimed"}

\* UPDATE of the lease row that the pass has read.
ExpireLease(m) ==
    PutLease(MTask(m), Holder(m),
             IF maint[m].latest THEN "expired" ELSE lease[MTask(m)][Holder(m)])

\* A task that is neither running nor claimed: only the lease expires.
RecoverUnsupported(m) ==
    /\ MAt(m, "recover")
    /\ MRow(m).status \notin Recoverable
    /\ ExpireLease(m)
    /\ MDone(m)
    /\ UNCHANGED <<task, dispatch, queueVars, worker, api, faults>>

\* Mutant: off by one in the retry limit.
RecoverOnceMore(m) ==
    /\ MAt(m, "recover")
    /\ MRow(m).status \in Recoverable
    /\ MRow(m).retry <= MaxRetries
    /\ IF Q!RecoverReply(MTask(m), Holder(m)) = "ok"
         THEN Q!Recover(MTask(m), Holder(m)) /\ MGoto(m, "requeue")
         ELSE UNCHANGED queueVars /\ MDone(m)
    /\ UNCHANGED <<dbVars, worker, api, faults>>

\* The queue moves first, the rows are committed after; a refusal raises and
\* ends the pass.
RecoverForRetry(m) ==
    /\ MAt(m, "recover")
    /\ MRow(m).status \in Recoverable
    /\ MRow(m).retry < MaxRetries
    /\ IF Q!RecoverReply(MTask(m), Holder(m)) = "ok"
         THEN Q!Recover(MTask(m), Holder(m)) /\ MGoto(m, "requeue")
         ELSE UNCHANGED queueVars /\ MDone(m)
    /\ UNCHANGED <<dbVars, worker, api, faults>>

\* Mutant: the lease expires and the task row is not written.
RequeueCommitLeaseOnly(m) ==
    /\ MAt(m, "requeue")
    /\ ExpireLease(m)
    /\ MDone(m)
    /\ UNCHANGED <<task, dispatch, queueVars, worker, api, faults>>

RequeueCommit(m) ==
    /\ MAt(m, "requeue")
    /\ ExpireLease(m)
    /\ SetStatusRetry(MTask(m), "queued", MRow(m).retry + 1)
    /\ MDone(m)
    /\ UNCHANGED <<dispatch, queueVars, worker, api, faults>>

\* Mutant: the payload is not moved.
RecoverToDeadLetterRowOnly(m) ==
    /\ MAt(m, "recover")
    /\ MRow(m).status \in Recoverable
    /\ MRow(m).retry >= MaxRetries
    /\ MGoto(m, "bury")
    /\ UNCHANGED <<dbVars, queueVars, worker, api, faults>>

RecoverToDeadLetter(m) ==
    /\ MAt(m, "recover")
    /\ MRow(m).status \in Recoverable
    /\ MRow(m).retry >= MaxRetries
    /\ IF Q!DeadLetterReply(MTask(m), Holder(m)) = "ok"
         THEN Q!MoveToDeadLetter(MTask(m), Holder(m)) /\ MGoto(m, "bury")
         ELSE UNCHANGED queueVars /\ MDone(m)
    /\ UNCHANGED <<dbVars, worker, api, faults>>

DeadLetterCommit(m) ==
    /\ MAt(m, "bury")
    /\ ExpireLease(m)
    /\ SetStatus(MTask(m), "dead_lettered")
    /\ MDone(m)
    /\ UNCHANGED <<dispatch, queueVars, worker, api, faults>>

-----------------------------------------------------------------------------
\* _reconcile_queue_processing_payloads: session.get returns the row as this
\* pass first read it; the active-lease query and the queue listing are fresh.
ReconcileLoad(m) ==
    /\ MAt(m, "idle")
    /\ \E t \in Tasks :
         /\ t \in processingPayloads
         /\ maint' = [maint EXCEPT ![m] = [IdleMaint EXCEPT !.pc = "loaded", !.task = t,
                                                            !.row = Seen(t),
                                                            !.since = WorkersOn(t)]]
    /\ UNCHANGED <<dbVars, queueVars, worker, api, faults>>

ReconcileCheck(m) ==
    /\ MAt(m, "loaded")
    /\ IF MTask(m) \in processingPayloads /\ ~ActiveLease(MTask(m))
         THEN MGoto(m, "reconcile")
         ELSE MDone(m)
    /\ UNCHANGED <<dbVars, queueVars, worker, api, faults>>

\* _latest_lease_holder(..) or "runtime_maintainer"
CleanupHolder(t) == IF lastHolder[t] = NoOwner THEN MaintainerId ELSE lastHolder[t]

\* Completed, blocked and cancelled tasks: the payload is completed in the
\* name of the last holder.
ReconcileTerminal(m) ==
    LET t == MTask(m)  h == CleanupHolder(t) IN
    /\ MAt(m, "reconcile")
    /\ MRow(m).status \in {"completed", "blocked", "cancelled"}
    /\ Attempt(Q!CompleteReply(t, h), Q!Complete(t, h))
    /\ MDone(m)
    /\ UNCHANGED <<dbVars, worker, api, faults>>

\* Failed and dead-lettered tasks: the ownerless dead-letter move.
ReconcileFailed(m) ==
    LET t == MTask(m) IN
    /\ MAt(m, "reconcile")
    /\ MRow(m).status \in {"failed", "dead_lettered"}
    /\ Attempt(Q!DeadLetterReply(t, NoOwner), Q!MoveToDeadLetter(t, NoOwner))
    /\ MDone(m)
    /\ UNCHANGED <<dbVars, worker, api, faults>>

\* Any other task: the payload is made pending again, then the row follows.
ReconcileOrphan(m) ==
    LET t == MTask(m) IN
    /\ MAt(m, "reconcile")
    /\ MRow(m).status \notin TerminalStates
    /\ IF Q!RecoverReply(t, MaintainerId) = "ok"
         THEN Q!Recover(t, MaintainerId) /\ MGoto(m, "orphan")
         ELSE UNCHANGED queueVars /\ MDone(m)
    /\ UNCHANGED <<dbVars, worker, api, faults>>

OrphanCommit(m) ==
    LET t == MTask(m) IN
    /\ MAt(m, "orphan")
    /\ \/ /\ MRow(m).status = "running"
          /\ MRow(m).retry < RetryCap
          /\ SetStatusRetry(t, "queued", MRow(m).retry + 1)
       \/ /\ MRow(m).status \in {"claimed", "recovering"}
          /\ SetStatus(t, "queued")
       \/ /\ MRow(m).status \in {"queued", "planned", "pending_review"}
          /\ UNCHANGED task
    /\ MDone(m)
    /\ UNCHANGED <<leaseVars, dispatch, queueVars, worker, api, faults>>

\* The process running the pass dies, or a queue reply or a commit is lost.
MaintCrash(m) ==
    /\ maint[m].pc # "idle"
    /\ Fault("maintainer")
    /\ MDone(m)
    /\ UNCHANGED <<dbVars, queueVars, worker, api>>

MaintStep(m) ==
    \/ ListDue(m) \/ DropDispatch(m) \/ PublishDue(m) \/ PublishDueAck(m) \/ CleanCancelled(m)
    \/ RecoverRead(m) \/ RecoverUnsupported(m) \/ RecoverForRetry(m) \/ RequeueCommit(m)
    \/ RecoverToDeadLetter(m) \/ DeadLetterCommit(m)
    \/ ReconcileLoad(m) \/ ReconcileCheck(m) \/ ReconcileTerminal(m) \/ ReconcileFailed(m)
    \/ ReconcileOrphan(m) \/ OrphanCommit(m)
=============================================================================

------------------------------ MODULE Admission ------------------------------
(***************************************************************************)
(* The API side: ExecutionCoordinator admits, retries and approves tasks,  *)
(* WorkerRuntimeService.cancel_task cancels them, and the after-commit     *)
(* hook of runtime_queue_dispatcher.py publishes what a request committed. *)
(* api[r] is a request in flight, with the rows it has read.               *)
(***************************************************************************)
EXTENDS RuntimeState

AAt(r, pc) == api[r].pc = pc
ATask(r) == api[r].task
ARow(r) == api[r].row

AGoto(r, pc) == api' = [api EXCEPT ![r].pc = pc]
ADone(r) == api' = [api EXCEPT ![r] = IdleApi]

\* What a request checks on the task row it reads; otherwise it is refused
\* and changes nothing.  "admit" is a mission admission; "queue" the single-task
\* route, which checks only the transition table; "review" stands for any of
\* queue_task and retry_task that policy or a missing grant holds back.
Accepts(op, row) ==
    CASE op = "queue" -> CanMove(row.status, "queued")
      [] op = "admit" -> row.status = "planned"
      [] op = "review" -> CanMove(row.status, "pending_review")
      [] op = "approve" -> row.status = "pending_review"
      [] op = "retry" -> row.status \in {"dead_lettered", "failed"}
      [] op = "cancel" -> \/ row.status \in {"running", "claimed"}
                          \/ CanMove(row.status, "cancelled")

\* A mission admission locks the mission row before it reads the tasks.  The other
\* routes load the task before they lock its row, and a locking select does not
\* refresh a loaded row.
MissionLocked(t) == \E r \in Requests : AAt(r, "commit") /\ api[r].op = "admit" /\ ATask(r) = t

RequestRead(r) ==
    /\ AAt(r, "idle")
    /\ \E t \in Tasks, op \in Ops :
         /\ Accepts(op, task[t])
         /\ op = "admit" => ~MissionLocked(t)
         /\ op = "retry" => dispatch[t].gen < MaxGeneration
         /\ api' = [api EXCEPT ![r] = [pc |-> "commit", op |-> op, task |-> t,
                                       row |-> task[t], disp |-> dispatch[t]]]
    /\ UNCHANGED <<dbVars, queueVars, worker, maint, faults>>

-----------------------------------------------------------------------------
NewDispatch(status) == [NoDispatch EXCEPT !.status = status]

\* Mutant: only a review hold is armed.
AdmitHeldOnly(r, t) ==
    IF dispatch[t].status = "held_review"
      THEN /\ dispatch' = [dispatch EXCEPT ![t] = NewDispatch("pending")]
           /\ AGoto(r, "publish")
      ELSE UNCHANGED dispatch /\ ADone(r)

\* admit(held_for_review=False): a first dispatch or a review hold is armed and
\* its publication scheduled; any other existing dispatch is left as it is.
Admit(r, t) ==
    IF dispatch[t].status \in {"none", "held_review"}
      THEN /\ dispatch' = [dispatch EXCEPT ![t] = NewDispatch("pending")]
           /\ AGoto(r, "publish")
      ELSE UNCHANGED dispatch /\ ADone(r)

\* queue_task, from the queue route, a mission admission, or an approval (which
\* also writes the grant into metadata_json).
QueueTask(r) ==
    /\ AAt(r, "commit")
    /\ \/ api[r].op \in {"admit", "queue"} /\ SetStatus(ATask(r), "queued")
       \/ api[r].op = "approve" /\ SetStatusMeta(ATask(r), "queued", ARow(r).meta)
    /\ Admit(r, ATask(r))
    /\ UNCHANGED <<leaseVars, queueVars, worker, maint, faults>>

\* _place_in_review; the first admission also records a held dispatch.
PlaceInReview(r) ==
    LET t == ATask(r) IN
    /\ AAt(r, "commit")
    /\ api[r].op = "review"
    /\ SetStatus(t, "pending_review")
    /\ IF dispatch[t].status = "none"
         THEN dispatch' = [dispatch EXCEPT ![t] = NewDispatch("held_review")]
         ELSE UNCHANGED dispatch
    /\ ADone(r)
    /\ UNCHANGED <<leaseVars, queueVars, worker, maint, faults>>

\* retry_task: the dispatch is re-armed under a new generation (bound: MaxGeneration,
\* here again because another retry may have committed since the read).
RetryTask(r) ==
    LET t == ATask(r)  d == dispatch[t] IN
    /\ AAt(r, "commit")
    /\ api[r].op = "retry"
    /\ d.status # "none" => d.gen < MaxGeneration
    /\ SetStatusMeta(t, "queued", ARow(r).meta)
    /\ IF d.status = "none"
         THEN dispatch' = [dispatch EXCEPT ![t] = NewDispatch("pending")]
         ELSE dispatch' = [dispatch EXCEPT ![t] = [NewDispatch("pending") EXCEPT
                                                     !.gen = d.gen + 1]]
    /\ AGoto(r, "publish")
    /\ UNCHANGED <<leaseVars, queueVars, worker, maint, faults>>

\* cancel_task: a request on a running or claimed task, a cancellation else.
CancelTask(r) ==
    LET t == ATask(r)  row == ARow(r)  d == api[r].disp IN
    /\ AAt(r, "commit")
    /\ api[r].op = "cancel"
    /\ IF row.status \in {"running", "claimed"}
         THEN /\ task' = [task EXCEPT ![t].meta = [row.meta EXCEPT !.cancel = TRUE]]
              /\ ADone(r)
              /\ UNCHANGED dispatch
         ELSE /\ SetStatusMeta(t, "cancelled", row.meta)
              /\ PutDispatch(t, d, CancelledDispatch(d))
              /\ AGoto(r, "cleanup")
    /\ UNCHANGED <<leaseVars, queueVars, worker, maint, faults>>

CancelCleanup(r) ==
    /\ AAt(r, "cleanup")
    /\ CleanupAfterCancel(ATask(r))
    /\ ADone(r)
    /\ UNCHANGED <<task, leaseVars, worker, maint, faults>>

-----------------------------------------------------------------------------
\* _publish_committed_dispatches: a new session reads the dispatch without a
\* lock, publishes it if it is still pending, and commits the outcome.
HookRead(r) ==
    LET t == ATask(r) IN
    /\ AAt(r, "publish")
    /\ IF dispatch[t].status = "pending"
         THEN api' = [api EXCEPT ![r] = [IdleApi EXCEPT !.pc = "send", !.task = t,
                                                        !.disp = dispatch[t]]]
         ELSE ADone(r)
    /\ UNCHANGED <<dbVars, queueVars, worker, maint, faults>>

HookPublish(r) ==
    LET t == ATask(r)  d == api[r].disp IN
    /\ AAt(r, "send")
    /\ IF PublishReply(t, d) = "ok" THEN Publish(t, d) /\ AGoto(r, "ack")
                                    ELSE UNCHANGED queueVars /\ ADone(r)
    /\ UNCHANGED <<dbVars, worker, maint, faults>>

HookAck(r) ==
    /\ AAt(r, "ack")
    /\ AckPublished(ATask(r), api[r].disp)
    /\ ADone(r)
    /\ UNCHANGED <<task, leaseVars, queueVars, worker, maint, faults>>

\* The API process dies, or the hook's commit fails: the dispatch stays as it is.
RequestCrash(r) ==
    /\ api[r].pc # "idle"
    /\ Fault("request")
    /\ ADone(r)
    /\ UNCHANGED <<dbVars, queueVars, worker, maint>>

RequestStep(r) ==
    \/ QueueTask(r) \/ PlaceInReview(r) \/ RetryTask(r) \/ CancelTask(r)
    \/ CancelCleanup(r) \/ HookRead(r) \/ HookPublish(r) \/ HookAck(r)
=============================================================================

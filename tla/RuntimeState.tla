---------------------------- MODULE RuntimeState ----------------------------
(***************************************************************************)
(* The state that the execution runtime shares: the PostgreSQL rows of a   *)
(* tenant's tasks, worker leases and queue dispatches, and the Redis queue *)
(* (RedisQueue).  Every service opens a session, reads rows, decides on    *)
(* what it read, and commits later.  The sessions neither lock nor version *)
(* the rows on the worker, maintainer and cancel paths and do not refresh  *)
(* a row once read, so every handler below is a read step and a commit     *)
(* step, and a commit overwrites the columns it changes, whatever happened *)
(* in between.                                                             *)
(***************************************************************************)
EXTENDS Naturals, FiniteSets

CONSTANTS
    Tasks, NoTask,
    Workers,        \* worker daemons (worker_loop.py), by holder identity
    NoOwner,        \* no holder
    MaintainerId,   \* the holder name "runtime_maintainer"
    Maintainers,    \* maintenance passes that may run concurrently
    Requests,       \* API requests that may be in flight concurrently
    Ops,            \* the API operations the requests may ask for
    Clarifying,     \* tasks whose mission shows a planner clarification once admitted
    MaxRetries,     \* RuntimeMaintainer max_retries
    RetryCap,       \* bound: reconciliation stops counting retries here
    MaxGeneration,  \* bound: operator retries of one task
    FaultKinds,     \* the faults that may happen: see Fault
    MaxFaults,      \* bound: faults in a behaviour
    Timely          \* TRUE: processes are fast compared with the lease times

ASSUME RuntimeAssumption ==
    /\ NoTask \notin Tasks
    /\ NoOwner \notin Workers \cup {MaintainerId}
    /\ MaintainerId \notin Workers
    /\ Clarifying \subseteq Tasks
    /\ MaxRetries \in Nat /\ RetryCap \in Nat /\ MaxGeneration \in Nat /\ MaxFaults \in Nat
    /\ MaxRetries <= RetryCap
    /\ FaultKinds \subseteq {"worker", "maintainer", "request", "claim", "start"}
    /\ Timely \in BOOLEAN

VARIABLES
    task,        \* rows of execution_tasks
    lease,       \* lease[t][w]: status of the latest lease row of w for t
    lastHolder,  \* holder of the lease row of t with the greatest updated_at
    dispatch,    \* rows of runtime_queue_dispatches
    pendingOrder, ahead, pendingPayloads, processingPayloads,
    deadOrder, deadPayloads, leaseKey, dispatchKeys,   \* Redis: see RedisQueue
    worker, maint, api,  \* what each process is doing, with the rows it has read
    faults

dbVars == <<task, lease, lastHolder, dispatch>>
leaseVars == <<lease, lastHolder>>
queueVars == <<pendingOrder, ahead, pendingPayloads, processingPayloads,
               deadOrder, deadPayloads, leaseKey, dispatchKeys>>
procVars == <<worker, maint, api, faults>>
vars == <<task, lease, lastHolder, dispatch, queueVars, worker, maint, api, faults>>

Holders == Workers \cup {MaintainerId}

Q == INSTANCE RedisQueue WITH
       Workers <- Holders, DispatchKeys <- Tasks \X (0 .. MaxGeneration)

-----------------------------------------------------------------------------
\* StateMachine._TASK_ALLOWED
TaskAllowed ==
    [planned        |-> {"queued", "pending_review", "cancelled", "blocked"},
     queued         |-> {"claimed", "cancelled", "blocked"},
     claimed        |-> {"queued", "running", "cancelled", "blocked", "dead_lettered"},
     running        |-> {"blocked", "completed", "failed", "recovering"},
     recovering     |-> {"queued", "dead_lettered"},
     blocked        |-> {"queued"},
     failed         |-> {"queued", "pending_review", "dead_lettered"},
     dead_lettered  |-> {"queued", "pending_review"},
     pending_review |-> {"queued", "cancelled", "failed"},
     completed      |-> {},
     cancelled      |-> {}]

Statuses == DOMAIN TaskAllowed
LeaseStatuses == {"none", "claimed", "active", "released", "expired"}
DispatchStatuses == {"none", "held_review", "pending", "published", "cancelled"}

\* ensure_task_transition
CanMove(from, to) == to \in TaskAllowed[from]

\* _TERMINAL_TASK_STATES of worker_runtime_contracts.py
TerminalStates == {"completed", "failed", "cancelled", "dead_lettered", "blocked"}

-----------------------------------------------------------------------------
\* metadata_json is one column: a request to cancel and the lease reference
\* (worker_lease_id) are written together.
Meta == [cancel : BOOLEAN, ref : Workers \cup {NoOwner}]
NoMeta == [cancel |-> FALSE, ref |-> NoOwner]

TaskRow == [status : Statuses, meta : Meta, retry : 0 .. RetryCap]
NewTask == [status |-> "planned", meta |-> NoMeta, retry |-> 0]

\* sent: published_at is set; cleaned: cancelled_at is set.
DispatchRow == [status : DispatchStatuses, gen : 0 .. MaxGeneration,
                sent : BOOLEAN, cleaned : BOOLEAN]
NoDispatch == [status |-> "none", gen |-> 0, sent |-> FALSE, cleaned |-> FALSE]

IdleWorker == [pc |-> "idle", task |-> NoTask, meta |-> NoMeta]
IdleMaint == [pc |-> "idle", task |-> NoTask, holder |-> NoOwner, row |-> NewTask,
              disp |-> NoDispatch, since |-> {}, latest |-> TRUE]
IdleApi == [pc |-> "idle", op |-> "none", task |-> NoTask, row |-> NewTask,
            disp |-> NoDispatch]

Init ==
    /\ task = [t \in Tasks |-> NewTask]
    /\ lease = [t \in Tasks |-> [w \in Workers |-> "none"]]
    /\ lastHolder = [t \in Tasks |-> NoOwner]
    /\ dispatch = [t \in Tasks |-> NoDispatch]
    /\ Q!Init
    /\ worker = [w \in Workers |-> IdleWorker]
    /\ maint = [m \in Maintainers |-> IdleMaint]
    /\ api = [r \in Requests |-> IdleApi]
    /\ faults = 0

-----------------------------------------------------------------------------
\* UPDATE execution_tasks: the status column, or status and metadata_json.
SetStatus(t, s) == task' = [task EXCEPT ![t].status = s]
SetStatusMeta(t, s, meta) == task' = [task EXCEPT ![t].status = s, ![t].meta = meta]
SetStatusRetry(t, s, n) == task' = [task EXCEPT ![t].status = s, ![t].retry = n]

\* UPDATE worker_leases: updated_at moves with every write.
PutLease(t, w, s) ==
    /\ lease' = [lease EXCEPT ![t][w] = s]
    /\ lastHolder' = [lastHolder EXCEPT ![t] = w]

\* INSERT a lease row: the row of an earlier claim of w, which a maintenance pass
\* or the metadata read by a request may still name, is no longer its latest.
InsertLease(t, w) ==
    /\ PutLease(t, w, "claimed")
    /\ maint' = [m \in Maintainers |->
                   [maint[m] EXCEPT !.latest = @ /\ <<maint[m].task, maint[m].holder>> # <<t, w>>]]
    /\ api' = [r \in Requests |->
                 IF api[r].task = t /\ api[r].row.meta.ref = w
                   THEN [api[r] EXCEPT !.row.meta.ref = NoOwner] ELSE api[r]]

\* A worker takes up a task: a maintenance step on the task that is under way began
\* before the worker stopped working on it.
TakenUp(t, w) ==
    maint' = [m \in Maintainers |->
                IF maint[m].task = t THEN [maint[m] EXCEPT !.since = @ \cup {w}] ELSE maint[m]]

\* The query of assert_no_active_lease and _active_lease_for_task.
ActiveLease(t) == \E w \in Workers : lease[t][w] \in {"claimed", "active"}

\* A session writes the columns that differ from what it read.
Flush(current, read, new) ==
    [c \in DOMAIN current |-> IF new[c] # read[c] THEN new[c] ELSE current[c]]

PutDispatch(t, read, new) ==
    dispatch' = [dispatch EXCEPT ![t] = Flush(dispatch[t], read, new)]

\* RuntimeQueueDispatchService.cancel
CancelledDispatch(d) ==
    IF d.status \in {"none", "cancelled"} THEN d
    ELSE [d EXCEPT !.status = "cancelled", !.cleaned = d.cleaned \/ ~d.sent]

\* RuntimeQueueDispatchService._publish: an operator retry (gen > 0) first tries
\* to move the dead letter back, and publishes only if there is none.
IdempotencyKey(t, d) == <<t, d.gen>>
AlreadyLive == {"task already pending", "task already processing"}

PublishReply(t, d) ==
    LET recovered == Q!RetryDeadLetterReply(t)
    IN  IF d.gen > 0 /\ recovered \in AlreadyLive \cup {"ok"} THEN "ok"
        ELSE IF d.gen > 0 /\ recovered # "dead-letter entry not found" THEN recovered
        ELSE Q!EnqueueIdempotentReply(t, IdempotencyKey(t, d))

Publish(t, d) ==
    /\ PublishReply(t, d) = "ok"
    /\ IF d.gen > 0 /\ Q!RetryDeadLetterReply(t) = "ok" THEN Q!RetryDeadLetter(t)
       ELSE IF d.gen > 0 /\ Q!RetryDeadLetterReply(t) \in AlreadyLive THEN UNCHANGED queueVars
       ELSE Q!EnqueueIdempotent(t, IdempotencyKey(t, d))

\* The commit that follows a successful publication.
AckPublished(t, d) ==
    PutDispatch(t, d, [d EXCEPT !.status = "published", !.sent = TRUE])

\* reconcile_cancelled, for one row of list_cancelled_for_cleanup (locked FOR
\* UPDATE): a refused queue cancellation is only rescheduled.
NeedsCancelCleanup(t) ==
    dispatch[t].status = "cancelled" /\ dispatch[t].sent /\ ~dispatch[t].cleaned

ReconcileCancelled(t) ==
    /\ NeedsCancelCleanup(t)
    /\ IF Q!CancelPendingReply(t) = "ok"
         THEN /\ Q!CancelPending(t)
              /\ dispatch' = [dispatch EXCEPT ![t].cleaned = TRUE]
         ELSE UNCHANGED <<queueVars, dispatch>>

\* The call of reconcile_cancelled at the end of a cancellation.
CleanupAfterCancel(t) ==
    IF NeedsCancelCleanup(t) THEN ReconcileCancelled(t)
                             ELSE UNCHANGED <<queueVars, dispatch>>

\* A queue script that may refuse; the caller goes on either way.
Attempt(reply, script) ==
    IF reply = "ok" THEN script ELSE UNCHANGED queueVars

\* A process dies (a daemon, a maintenance pass, an API process), or a transaction
\* of the claim or of the start does not commit.
Fault(kind) ==
    /\ kind \in FaultKinds
    /\ faults < MaxFaults
    /\ faults' = faults + 1

-----------------------------------------------------------------------------
\* A heartbeat (every _HEARTBEAT_INTERVAL = 15 s) renews the Redis TTL (90 s) and
\* the lease row's heartbeat_at (stale after 60 s).  Time is abstracted: a lease
\* may lapse at any moment or, when Timely, only once its holder no longer works
\* on the task and the maintenance steps that began before it stopped are over.
WorkersOn(t) == {w \in Workers : worker[w].task = t}

MayLapse(t, w) ==
    Timely => /\ w \notin WorkersOn(t)
              /\ \A m \in Maintainers : maint[m].task = t => w \notin maint[m].since

\* Redis expires the lease key.
LeaseKeyExpires(t) ==
    /\ leaseKey[t] \in Workers
    /\ MayLapse(t, leaseKey[t])
    /\ Q!LeaseExpires(t)
    /\ UNCHANGED <<dbVars, procVars>>
=============================================================================

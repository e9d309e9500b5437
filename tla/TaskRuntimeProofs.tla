------------------------- MODULE TaskRuntimeProofs --------------------------
(***************************************************************************)
(* Proofs about TaskRuntime, for every set of tasks, workers, passes and   *)
(* requests and every bound.                                               *)
(*                                                                         *)
(*  1. Shape: the types of the rows and of what each process remembers;    *)
(*     every step uses the queue through at most one of its scripts, so    *)
(*     the runtime implements RedisQueue and what is proved of the queue   *)
(*     holds here.                                                         *)
(*  2. StartInv (Timely): no task is executed twice at a time.  It relates *)
(*     the frames of two workers, the lease key, the lease rows and the    *)
(*     recoveries that decided on an older lease row.                      *)
(*  3. HeldBacked (Timely): a held task keeps a lease row that no pass is  *)
(*     about to expire.                                                    *)
(*  4. KeyKept (no operator retries): the queue remembers the dispatch of  *)
(*     every task that is in use or completed.                             *)
(*  5. Calm (CalmSetting): the row of a task, its lease rows, its dispatch,*)
(*     its payload and what every process has read of it agree.  Nothing   *)
(*     less is inductive, since every process acts on what it read some    *)
(*     steps ago.  The steps are reduced to a few moves first, each proved *)
(*     to keep the invariant; the handlers are then shown to make a move.  *)
(*  6. SealInv (OnePassSetting, every fault): a task that runs is not      *)
(*     given back, and one that has ended is not taken up again, so the    *)
(*     queue refuses the one retry that nobody compares with the limit.    *)
(***************************************************************************)
EXTENDS TaskRuntime, TLAPS


\* The scripts of the runtime, seen by the proofs about the queue.
QP == INSTANCE RedisQueueProofs WITH
        Workers <- Holders, DispatchKeys <- Tasks \X (0 .. MaxGeneration)

-----------------------------------------------------------------------------
\* Types of the frames.
WorkerPCs == {"idle", "read", "discard", "stale", "stale_queue", "cleanup", "claim",
              "compensate", "heartbeat", "start", "release", "release_commit", "run",
              "complete", "complete_commit", "block", "block_commit", "complete_queue",
              "fail", "fail_commit", "fail_queue"}
MaintPCs == {"idle", "due", "ack", "recover", "requeue", "bury", "loaded", "reconcile", "orphan"}
ApiPCs == {"idle", "commit", "publish", "send", "ack", "cleanup"}

\* What a worker, a maintenance pass and a request remember between two steps.
WorkerFrames == [pc : WorkerPCs, task : Tasks \cup {NoTask}, meta : Meta]
MaintFrames == [pc : MaintPCs, task : Tasks \cup {NoTask}, holder : Workers \cup {NoOwner},
                row : TaskRow, disp : DispatchRow, since : SUBSET Workers, latest : BOOLEAN]
ApiFrames == [pc : ApiPCs, op : Ops \cup {"none"}, task : Tasks \cup {NoTask},
              row : TaskRow, disp : DispatchRow]

\* An idle process has no task, any other has one.
WorkerFrameOK(f) == f \in WorkerFrames /\ (f.pc = "idle" <=> f.task = NoTask)
MaintFrameOK(f) ==
    /\ f \in MaintFrames
    /\ f.pc = "idle" <=> f.task = NoTask
    /\ f.pc \in {"recover", "requeue", "bury"} => f.holder \in Workers
    /\ f.pc = "requeue" => f.row.retry < MaxRetries
ApiFrameOK(f) == f \in ApiFrames /\ (f.pc = "idle" <=> f.task = NoTask)

\* Every process has a frame of its declared shape.
FramesOK ==
    /\ worker \in [Workers -> WorkerFrames]
    /\ maint \in [Maintainers -> MaintFrames]
    /\ api \in [Requests -> ApiFrames]
    /\ \A w \in Workers : WorkerFrameOK(worker[w])
    /\ \A m \in Maintainers : MaintFrameOK(maint[m])
    /\ \A r \in Requests : ApiFrameOK(api[r])

\* Every row that the services share has its declared shape.
RowsOK ==
    /\ task \in [Tasks -> TaskRow]
    /\ lease \in [Tasks -> [Workers -> LeaseStatuses]]
    /\ lastHolder \in [Tasks -> Workers \cup {NoOwner}]
    /\ dispatch \in [Tasks -> DispatchRow]
    /\ faults \in 0 .. MaxFaults

\* A worker step that changes its own frame only.
LEMMA WorkerFramesStep ==
    ASSUME FramesOK, NEW w \in Workers, NEW f, WorkerFrameOK(f), worker' = [worker EXCEPT ![w] = f],
           UNCHANGED <<maint, api>>
    PROVE  FramesOK'
  BY DEF FramesOK, WorkerFrameOK

\* A step of a pass that changes its own frame only.
LEMMA MaintFramesStep ==
    ASSUME FramesOK, NEW m \in Maintainers, NEW f, MaintFrameOK(f), maint' = [maint EXCEPT ![m] = f],
           UNCHANGED <<worker, api>>
    PROVE  FramesOK'
  BY DEF FramesOK, MaintFrameOK

\* A step of a request that changes its own frame only.
LEMMA ApiFramesStep ==
    ASSUME FramesOK, NEW r \in Requests, NEW f, ApiFrameOK(f), api' = [api EXCEPT ![r] = f],
           UNCHANGED <<worker, maint>>
    PROVE  FramesOK'
  BY DEF FramesOK, ApiFrameOK

\* The metadata that a claim writes (metadata_json) is well-formed.
LEMMA MetaTypes == NoMeta \in Meta /\ \A w \in Workers, c \in BOOLEAN : [cancel |-> c, ref |-> w] \in Meta
  BY DEF NoMeta, Meta

\* The rows that the services insert are well-formed, and so is what is read of them.
LEMMA RowTypes ==
    /\ NewTask \in TaskRow /\ NoDispatch \in DispatchRow
    /\ \A x \in TaskRow : x.meta \in Meta /\ x.status \in Statuses /\ x.retry \in 0 .. RetryCap
    /\ Statuses = {"planned", "queued", "claimed", "running", "recovering", "blocked", "failed",
                   "dead_lettered", "pending_review", "completed", "cancelled"}
<1>1. Statuses = {"planned", "queued", "claimed", "running", "recovering", "blocked", "failed",
                   "dead_lettered", "pending_review", "completed", "cancelled"}
  BY DEF Statuses, TaskAllowed
<1>2. NewTask \in TaskRow
  BY <1>1, MetaTypes, RuntimeAssumption DEF NewTask, TaskRow, RuntimeAssumption
<1>3. NoDispatch \in DispatchRow
  BY RuntimeAssumption DEF NoDispatch, DispatchRow, DispatchStatuses, RuntimeAssumption
<1> QED BY <1>1, <1>2, <1>3 DEF TaskRow

\* A process that is done with its task has a well-formed frame again.
LEMMA IdleTypes == WorkerFrameOK(IdleWorker) /\ MaintFrameOK(IdleMaint) /\ ApiFrameOK(IdleApi)
  BY RowTypes, MetaTypes DEF WorkerFrameOK, MaintFrameOK, ApiFrameOK, IdleWorker, IdleMaint, IdleApi,
     WorkerFrames, MaintFrames, ApiFrames, WorkerPCs, MaintPCs, ApiPCs

-----------------------------------------------------------------------------
\* The ways in which a worker's step ends: it is done, or goes on at another step,
\* perhaps with other metadata.
LEMMA WorkerMoves ==
    ASSUME FramesOK, NEW w \in Workers, UNCHANGED <<maint, api>>
    PROVE  /\ Done(w) => FramesOK'
           /\ \A pc \in WorkerPCs \ {"idle"} : worker[w].pc # "idle" /\ Goto(w, pc) => FramesOK'
           /\ \A pc \in WorkerPCs \ {"idle"}, meta \in Meta :
                worker[w].pc # "idle" /\ GotoWith(w, pc, meta) => FramesOK'
<1>1. Done(w) => FramesOK'
  BY WorkerFramesStep, IdleTypes DEF Done
<1>2. ASSUME NEW pc \in WorkerPCs \ {"idle"}, worker[w].pc # "idle", Goto(w, pc) PROVE FramesOK'
  <2> DEFINE f == [worker[w] EXCEPT !.pc = pc]
  <2>1. WorkerFrameOK(f)
    BY <1>2 DEF FramesOK, WorkerFrameOK, WorkerFrames
  <2>2. worker' = [worker EXCEPT ![w] = f]
    BY <1>2 DEF Goto
  <2> QED
    BY <2>1, <2>2, WorkerFramesStep
<1>3. ASSUME NEW pc \in WorkerPCs \ {"idle"}, NEW meta \in Meta, worker[w].pc # "idle", GotoWith(w,
     pc, meta)
      PROVE  FramesOK'
  <2> DEFINE f == [worker[w] EXCEPT !.pc = pc, !.meta = meta]
  <2>1. WorkerFrameOK(f)
    BY <1>3 DEF FramesOK, WorkerFrameOK, WorkerFrames
  <2>2. worker' = [worker EXCEPT ![w] = f]
    BY <1>3 DEF GotoWith, FramesOK, WorkerFrames
  <2> QED
    BY <2>1, <2>2, WorkerFramesStep
<1> QED
  BY <1>1, <1>2, <1>3

\* What a worker reads of its task is a row, whose metadata it may copy.
LEMMA RowHasMeta ==
    ASSUME RowsOK, FramesOK, NEW w \in Workers, worker[w].pc # "idle"
    PROVE  /\ Task(w) \in Tasks /\ Row(w) \in TaskRow /\ Row(w).meta \in Meta
           /\ [Row(w).meta EXCEPT !.ref = NoOwner] \in Meta
  BY RowTypes DEF RowsOK, FramesOK, WorkerFrameOK, WorkerFrames, Task, Row, Meta

\* Every handler of a worker leaves it with a frame of its declared shape.
LEMMA WorkerKeepsFrames ==
    ASSUME RowsOK, FramesOK, NEW w \in Workers, WorkerStep(w) \/ WorkerCrash(w)
    PROVE  FramesOK'
<1> USE DEF At
<1>1. CASE ClaimTask(w)
  <2>1. PICK t \in Tasks : worker' = [worker EXCEPT ![w].pc = "read", ![w].task = t] /\ TakenUp(t, w)
    BY <1>1 DEF ClaimTask
  <2> DEFINE f == [worker[w] EXCEPT !.pc = "read", !.task = t]
             g(m) == IF maint[m].task = t THEN [maint[m] EXCEPT !.since = @ \cup {w}] ELSE maint[m]
  <2>2. WorkerFrameOK(f)
    BY RuntimeAssumption DEF RuntimeAssumption, FramesOK, WorkerFrameOK, WorkerFrames, WorkerPCs
  <2>3. worker' = [worker EXCEPT ![w] = f]
    BY <2>1 DEF FramesOK, WorkerFrames
  <2>4. maint' = [m \in Maintainers |-> g(m)]
    BY <2>1 DEF TakenUp
  <2>5. \A m \in Maintainers : MaintFrameOK(g(m))
    BY DEF FramesOK, MaintFrameOK, MaintFrames
  <2>6. api' = api
    BY <1>1 DEF ClaimTask
  <2> HIDE DEF f, g
  <2> QED
    BY <2>2, <2>3, <2>4, <2>5, <2>6 DEF FramesOK, WorkerFrameOK, MaintFrameOK
<1>2. CASE ClaimRead(w)
  <2>1. ClaimBranch(w) \in {"discard", "stale", "idle", "claim", "compensate"}
    BY DEF ClaimBranch
  <2>2. [Row(w).meta EXCEPT !.ref = NoOwner] \in Meta
    BY <1>2, RowHasMeta DEF ClaimRead
  <2>3. ClaimBranch(w) # "idle" => ClaimBranch(w) \in WorkerPCs \ {"idle"}
    BY <2>1 DEF WorkerPCs
  <2>4. worker[w].pc # "idle" /\ UNCHANGED <<maint, api>>
    BY <1>2 DEF ClaimRead
  <2>5. CASE ClaimBranch(w) = "idle"
    BY <1>2, <2>4, <2>5, WorkerMoves DEF ClaimRead
  <2>6. CASE ClaimBranch(w) # "idle"
    <3> DEFINE pc == ClaimBranch(w)  meta == [Row(w).meta EXCEPT !.ref = NoOwner]
    <3>1. GotoWith(w, pc, meta) /\ pc \in WorkerPCs \ {"idle"} /\ meta \in Meta
      BY <1>2, <2>2, <2>3, <2>6 DEF ClaimRead
    <3> HIDE DEF pc, meta
    <3> QED BY <2>4, <3>1, WorkerMoves
  <2> QED
    BY <2>5, <2>6
<1>3. CASE CommitClaim(w)
  <2> DEFINE t == Task(w)
             meta == [cancel |-> worker[w].meta.cancel, ref |-> w]
             f == [worker[w] EXCEPT !.pc = "heartbeat", !.meta = meta]
             g(m) == [maint[m] EXCEPT !.latest = @ /\ <<maint[m].task, maint[m].holder>> # <<t, w>>]
             h(r) == IF api[r].task = t /\ api[r].row.meta.ref = w
                       THEN [api[r] EXCEPT !.row.meta.ref = NoOwner] ELSE api[r]
  <2>1. worker' = [worker EXCEPT ![w] = f] /\ WorkerFrameOK(f)
    BY <1>3 DEF CommitClaim, GotoWith, FramesOK, WorkerFrameOK, WorkerFrames, WorkerPCs, Meta
  <2>2. maint' = [m \in Maintainers |-> g(m)]
    BY <1>3 DEF CommitClaim, InsertLease
  <2>5. ASSUME NEW m \in Maintainers PROVE MaintFrameOK(g(m))
    <3> DEFINE b == maint[m].latest /\ <<maint[m].task, maint[m].holder>> # <<t, w>>
    <3>1. b \in BOOLEAN
      OBVIOUS
    <3>2. g(m) = [maint[m] EXCEPT !.latest = b]
      OBVIOUS
    <3> HIDE DEF b, g
    <3> QED
      BY <3>1, <3>2 DEF FramesOK, MaintFrameOK, MaintFrames
  <2>3. api' = [r \in Requests |-> h(r)]
    BY <1>3 DEF CommitClaim, InsertLease
  <2>4. ASSUME NEW r \in Requests PROVE ApiFrameOK(h(r))
    <3>1. api[r].row \in TaskRow /\ api[r].row.meta \in Meta
      BY RowTypes DEF FramesOK, ApiFrameOK, ApiFrames
    <3>2. [api[r].row EXCEPT !.meta.ref = NoOwner] \in TaskRow
      BY <3>1 DEF TaskRow, Meta
    <3> QED
      BY <3>2 DEF FramesOK, ApiFrameOK, ApiFrames
  <2> QED
    BY <2>1, <2>2, <2>3, <2>4, <2>5 DEF FramesOK, WorkerFrameOK, MaintFrameOK, ApiFrameOK
<1>4. CASE CancelStale(w) \/ StaleQueue(w)
  BY <1>4, WorkerMoves DEF CancelStale, StaleQueue, WorkerPCs
<1>5. CASE DiscardTerminal(w) \/ StaleCleanup(w) \/ Compensate(w) \/ ReleaseCommit(w) \/ CompleteQueue(w)
           \/ FailQueue(w) \/ WorkerCrash(w)
  BY <1>5, WorkerMoves DEF DiscardTerminal, StaleCleanup, Compensate, ReleaseCommit, CompleteQueue,
     FailQueue, WorkerCrash
<1>6. CASE CommitClaimFails(w) \/ HeartbeatRefused(w) \/ StartFails(w) \/ StartExecution(w)
  BY <1>6, WorkerMoves, MetaTypes
     DEF CommitClaimFails, HeartbeatRefused, StartFails, StartExecution, WorkerPCs
<1>7. CASE Heartbeat(w) \/ Release(w) \/ HandlerReturns(w) \/ HandlerFails(w) \/ BlockRead(w) \/ BlockCommit(w)
  BY <1>7, WorkerMoves DEF Heartbeat, Release, HandlerReturns, HandlerFails, BlockRead, BlockCommit,
     WorkerPCs
<1>8. CASE CompleteRead(w) \/ CompleteFails(w) \/ CompleteCommit(w) \/ FailRead(w) \/ FailCommit(w)
  BY <1>8, WorkerMoves, MetaTypes, RowHasMeta
     DEF CompleteRead, CompleteFails, CompletionError, CompleteCommit, FailRead, FailCommit, WorkerPCs
<1> QED
  BY <1>1, <1>2, <1>3, <1>4, <1>5, <1>6, <1>7, <1>8 DEF WorkerStep

-----------------------------------------------------------------------------
\* The ways in which a maintenance step ends.
LEMMA MaintMoves ==
    ASSUME FramesOK, NEW m \in Maintainers, UNCHANGED <<worker, api>>
    PROVE  /\ MDone(m) => FramesOK'
           /\ \A pc \in {"ack", "reconcile", "orphan"} : ~MAt(m, "idle") /\ MGoto(m, pc) => FramesOK'
           /\ \A pc \in {"requeue", "bury"} :
                MAt(m, "recover") /\ MGoto(m, pc) /\ (pc = "requeue" => MRow(m).retry < MaxRetries)
                  => FramesOK'
<1>1. MDone(m) => FramesOK'
  BY MaintFramesStep, IdleTypes DEF MDone
<1>2. ASSUME NEW pc \in {"ack", "reconcile", "orphan", "requeue", "bury"}, ~MAt(m, "idle"), MGoto(m,
     pc),
             pc \in {"requeue", "bury"} => MAt(m, "recover"), pc = "requeue" => MRow(m).retry < MaxRetries
      PROVE  FramesOK'
  <2> DEFINE f == [maint[m] EXCEPT !.pc = pc]
  <2>1. MaintFrameOK(f)
    BY <1>2 DEF FramesOK, MaintFrameOK, MaintFrames, MaintPCs, MAt, MRow
  <2>2. maint' = [maint EXCEPT ![m] = f]
    BY <1>2 DEF MGoto
  <2> QED
    BY <2>1, <2>2, MaintFramesStep
<1> QED
  BY <1>1, <1>2 DEF MAt

\* What a pass reads is a frame of the declared shape.
LEMMA MaintReads ==
    ASSUME RowsOK, FramesOK, NEW m \in Maintainers, NEW t \in Tasks
    PROVE  /\ Seen(t) \in TaskRow
           /\ MaintFrameOK([IdleMaint EXCEPT !.pc = "due", !.task = t, !.disp = dispatch[t]])
           /\ \A w \in Workers : MaintFrameOK([IdleMaint EXCEPT !.pc = "recover", !.task = t, !.holder = w,
                                                 !.row = Seen(t), !.since = WorkersOn(t)])
           /\ MaintFrameOK([IdleMaint EXCEPT !.pc = "loaded", !.task = t, !.row = Seen(t),
                                            !.since = WorkersOn(t)])
<1>1. Seen(t) \in TaskRow
  BY MetaTypes DEF Seen, RowsOK, TaskRow
<1>2. t # NoTask /\ dispatch[t] \in DispatchRow /\ WorkersOn(t) \in SUBSET Workers
  BY RuntimeAssumption DEF RuntimeAssumption, RowsOK, WorkersOn
<1> QED
  BY <1>1, <1>2, RowTypes DEF MaintFrameOK, MaintFrames, MaintPCs, IdleMaint

\* Every maintenance step leaves the pass with a frame of its declared shape.
LEMMA MaintKeepsFrames ==
    ASSUME RowsOK, FramesOK, NEW m \in Maintainers, MaintStep(m) \/ MaintCrash(m)
    PROVE  FramesOK'
<1>1. CASE ListDue(m) \/ RecoverRead(m) \/ ReconcileLoad(m)
  BY <1>1, MaintReads, MaintFramesStep DEF ListDue, RecoverRead, ReconcileLoad
<1>2. CASE CleanCancelled(m)
  BY <1>2 DEF CleanCancelled, procVars, FramesOK
<1>3. CASE DropDispatch(m) \/ PublishDueAck(m) \/ RecoverUnsupported(m) \/ RequeueCommit(m) \/ DeadLetterCommit(m)
           \/ ReconcileTerminal(m) \/ ReconcileFailed(m) \/ OrphanCommit(m) \/ MaintCrash(m)
  BY <1>3, MaintMoves DEF DropDispatch, PublishDueAck, RecoverUnsupported, RequeueCommit,
     DeadLetterCommit,
     ReconcileTerminal, ReconcileFailed, OrphanCommit, MaintCrash
<1>4. CASE PublishDue(m) \/ ReconcileCheck(m) \/ ReconcileOrphan(m)
  BY <1>4, MaintMoves DEF PublishDue, ReconcileCheck, ReconcileOrphan, MAt
<1>5. CASE RecoverForRetry(m) \/ RecoverToDeadLetter(m)
  BY <1>5, MaintMoves DEF RecoverForRetry, RecoverToDeadLetter
<1> QED
  BY <1>1, <1>2, <1>3, <1>4, <1>5 DEF MaintStep

-----------------------------------------------------------------------------
\* The ways in which a step of a request ends.
LEMMA ApiMoves ==
    ASSUME FramesOK, NEW r \in Requests, UNCHANGED <<worker, maint>>
    PROVE  /\ ADone(r) => FramesOK'
           /\ \A pc \in ApiPCs \ {"idle"} : ~AAt(r, "idle") /\ AGoto(r, pc) => FramesOK'
<1>1. ADone(r) => FramesOK'
  BY ApiFramesStep, IdleTypes DEF ADone
<1>2. ASSUME NEW pc \in ApiPCs \ {"idle"}, ~AAt(r, "idle"), AGoto(r, pc) PROVE FramesOK'
  <2> DEFINE f == [api[r] EXCEPT !.pc = pc]
  <2>1. ApiFrameOK(f)
    BY <1>2 DEF FramesOK, ApiFrameOK, ApiFrames, AAt
  <2>2. api' = [api EXCEPT ![r] = f]
    BY <1>2 DEF AGoto
  <2> QED
    BY <2>1, <2>2, ApiFramesStep
<1> QED
  BY <1>1, <1>2

\* Every step of a request leaves it with a frame of its declared shape.
LEMMA ApiKeepsFrames ==
    ASSUME RowsOK, FramesOK, NEW r \in Requests, RequestRead(r) \/ RequestStep(r) \/ RequestCrash(r)
    PROVE  FramesOK'
<1> USE DEF AAt
<1>1. CASE RequestRead(r)
  <2>1. PICK t \in Tasks, op \in Ops :
          api' = [api EXCEPT ![r] = [pc |-> "commit", op |-> op, task |-> t, row |-> task[t], disp |-> dispatch[t]]]
    BY <1>1 DEF RequestRead
  <2>2. ApiFrameOK([pc |-> "commit", op |-> op, task |-> t, row |-> task[t], disp |-> dispatch[t]])
    BY RuntimeAssumption DEF RuntimeAssumption, RowsOK, ApiFrameOK, ApiFrames, ApiPCs
  <2> QED
    BY <1>1, <2>1, <2>2, ApiFramesStep DEF RequestRead
<1>2. CASE HookRead(r)
  <2>1. ATask(r) \in Tasks /\ ATask(r) # NoTask
    BY <1>2, RuntimeAssumption DEF RuntimeAssumption, HookRead, ATask, FramesOK, ApiFrameOK, ApiFrames
  <2>2. ApiFrameOK([IdleApi EXCEPT !.pc = "send", !.task = ATask(r), !.disp = dispatch[ATask(r)]])
    BY <2>1, RowTypes DEF RowsOK, ApiFrameOK, ApiFrames, ApiPCs, IdleApi
  <2> QED
    BY <1>2, <2>2, ApiMoves, ApiFramesStep DEF HookRead
<1>3. CASE QueueTask(r) \/ PlaceInReview(r) \/ RetryTask(r) \/ CancelTask(r) \/ CancelCleanup(r)
  BY <1>3, ApiMoves DEF QueueTask, Admit, PlaceInReview, RetryTask, CancelTask, CancelCleanup, ApiPCs
<1>4. CASE HookPublish(r) \/ HookAck(r) \/ RequestCrash(r)
  BY <1>4, ApiMoves DEF HookPublish, HookAck, RequestCrash, ApiPCs
<1> QED
  BY <1>1, <1>2, <1>3, <1>4 DEF RequestStep

-----------------------------------------------------------------------------
\* What the statements that write rows leave of them is well-formed.
LEMMA RowWrites ==
    ASSUME RowsOK, NEW t \in Tasks, NEW s \in Statuses
    PROVE  /\ SetStatus(t, s) => task' \in [Tasks -> TaskRow]
           /\ \A meta \in Meta : SetStatusMeta(t, s, meta) => task' \in [Tasks -> TaskRow]
           /\ \A n \in 0 .. RetryCap : SetStatusRetry(t, s, n) => task' \in [Tasks -> TaskRow]
<1>1. SetStatus(t, s) => task' \in [Tasks -> TaskRow]
  BY DEF SetStatus, RowsOK, TaskRow
<1>2. ASSUME NEW meta \in Meta, SetStatusMeta(t, s, meta) PROVE task' \in [Tasks -> TaskRow]
  BY <1>2 DEF SetStatusMeta, RowsOK, TaskRow
<1>3. ASSUME NEW n \in 0 .. RetryCap, SetStatusRetry(t, s, n) PROVE task' \in [Tasks -> TaskRow]
  BY <1>3 DEF SetStatusRetry, RowsOK, TaskRow
<1> QED BY <1>1, <1>2, <1>3

\* A write of a lease row (claim, activate, release, expire) leaves it well-formed.
LEMMA LeaseWrites ==
    ASSUME RowsOK, NEW t \in Tasks, NEW w \in Workers, NEW s \in LeaseStatuses, PutLease(t, w, s)
    PROVE  /\ lease' \in [Tasks -> [Workers -> LeaseStatuses]]
           /\ lastHolder' \in [Tasks -> Workers \cup {NoOwner}]
  BY DEF RowsOK, PutLease

\* A flush keeps each column either as it is or as the session set it.
LEMMA FlushFields ==
    ASSUME NEW cur \in DispatchRow, NEW read \in DispatchRow, NEW new \in DispatchRow
    PROVE  /\ Flush(cur, read, new) \in DispatchRow
           /\ Flush(cur, read, new).gen \in {cur.gen, new.gen}
           /\ Flush(cur, read, new).status \in {cur.status, new.status}
  BY DEF Flush, DispatchRow

\* A flush of a dispatch leaves the row well-formed, whatever the session had read.
LEMMA DispatchWrites ==
    ASSUME RowsOK, NEW t \in Tasks, NEW read \in DispatchRow, NEW new \in DispatchRow,
           PutDispatch(t, read, new)
    PROVE  dispatch' \in [Tasks -> DispatchRow]
  BY FlushFields DEF RowsOK, PutDispatch

\* The dispatches that admission, publication, cancellation and an operator retry
\* write are well-formed.
LEMMA DispatchValues ==
    ASSUME NEW d \in DispatchRow
    PROVE  /\ CancelledDispatch(d) \in DispatchRow
           /\ [d EXCEPT !.status = "published", !.sent = TRUE] \in DispatchRow
           /\ [d EXCEPT !.status = "cancelled", !.cleaned = ~d.sent] \in DispatchRow
           /\ [d EXCEPT !.cleaned = TRUE] \in DispatchRow
           /\ NewDispatch("pending") \in DispatchRow /\ NewDispatch("held_review") \in DispatchRow
<1>1. (d.cleaned \/ ~d.sent) \in BOOLEAN /\ (~d.sent) \in BOOLEAN
  OBVIOUS
<1>2. [d EXCEPT !.status = "cancelled", !.cleaned = d.cleaned \/ ~d.sent] \in DispatchRow
  <2> DEFINE b == d.cleaned \/ ~d.sent
  <2> HIDE DEF b
  <2> QED BY <1>1 DEF b, DispatchRow, DispatchStatuses
<1>3. CancelledDispatch(d) \in DispatchRow
  BY <1>2 DEF CancelledDispatch
<1>4. [d EXCEPT !.status = "cancelled", !.cleaned = ~d.sent] \in DispatchRow
  <2> DEFINE b == ~d.sent
  <2> HIDE DEF b
  <2> QED BY <1>1 DEF b, DispatchRow, DispatchStatuses
<1>5. /\ [d EXCEPT !.status = "published", !.sent = TRUE] \in DispatchRow
      /\ [d EXCEPT !.cleaned = TRUE] \in DispatchRow
  BY DEF DispatchRow, DispatchStatuses
<1>6. NewDispatch("pending") \in DispatchRow /\ NewDispatch("held_review") \in DispatchRow
  BY RowTypes DEF NewDispatch, DispatchRow, DispatchStatuses
<1> QED BY <1>3, <1>4, <1>5, <1>6

\* The clean-up of a cancelled dispatch leaves the row well-formed.
LEMMA CleanupWrites ==
    ASSUME RowsOK, NEW t \in Tasks, ReconcileCancelled(t) \/ CleanupAfterCancel(t)
    PROVE  dispatch' \in [Tasks -> DispatchRow]
<1>1. dispatch' = dispatch \/ dispatch' = [dispatch EXCEPT ![t].cleaned = TRUE]
  BY DEF CleanupAfterCancel, ReconcileCancelled
<1> DEFINE d == [dispatch[t] EXCEPT !.cleaned = TRUE]
<1>2. d \in DispatchRow
  BY DispatchValues DEF RowsOK
<1>3. dispatch' = dispatch \/ dispatch' = [dispatch EXCEPT ![t] = d]
  BY <1>1
<1> HIDE DEF d
<1> QED BY <1>2, <1>3 DEF RowsOK

\* Faults are counted up to their bound.
LEMMA FaultCount == ASSUME RowsOK, NEW k, Fault(k) PROVE faults' \in 0 .. MaxFaults
  BY RuntimeAssumption DEF RuntimeAssumption, RowsOK, Fault

-----------------------------------------------------------------------------
\* Every handler of a worker leaves the rows well-formed.
LEMMA WorkerKeepsRows ==
    ASSUME RowsOK, FramesOK, NEW w \in Workers, WorkerStep(w) \/ WorkerCrash(w)
    PROVE  RowsOK'
<1> USE DEF At
<1> DEFINE SameLease == UNCHANGED leaseVars
<1>0. worker[w].pc # "idle" => /\ Task(w) \in Tasks /\ Row(w) \in TaskRow
                               /\ worker[w].meta \in Meta
                               /\ [cancel |-> worker[w].meta.cancel, ref |-> w] \in Meta
                               /\ dispatch[Task(w)] \in DispatchRow
                               /\ CancelledDispatch(dispatch[Task(w)]) \in DispatchRow
  BY RowHasMeta, DispatchValues DEF FramesOK, WorkerFrames, Meta, RowsOK
<1>1. CASE UNCHANGED dbVars /\ UNCHANGED faults
  BY <1>1 DEF RowsOK, dbVars
<1>2. CASE UNCHANGED dbVars /\ \E k \in FaultKinds : Fault(k)
  BY <1>2, FaultCount DEF RowsOK, dbVars
<1>3. CASE CancelStale(w)
  BY <1>0, <1>3, RowTypes, RowWrites, DispatchWrites DEF CancelStale, leaseVars, RowsOK
<1>4. CASE StaleCleanup(w)
  BY <1>0, <1>4, CleanupWrites DEF StaleCleanup, leaseVars, RowsOK
<1>5. CASE CommitClaim(w)
  BY <1>0, <1>5, RowTypes, RowWrites, LeaseWrites DEF CommitClaim, InsertLease, RowsOK, LeaseStatuses
<1>6. CASE Heartbeat(w)
  BY <1>0, <1>6, LeaseWrites DEF Heartbeat, RowsOK, LeaseStatuses
<1>7. CASE StartExecution(w)
  BY <1>0, <1>7, RowTypes, RowWrites DEF StartExecution, RowsOK
<1>8. CASE ReleaseCommit(w)
  BY <1>0, <1>8, RowTypes, RowWrites, LeaseWrites DEF ReleaseCommit, RowsOK, LeaseStatuses
<1>9. CASE CompleteCommit(w)
  BY <1>0, <1>9, RowTypes, RowWrites, LeaseWrites DEF CompleteCommit, RowsOK, LeaseStatuses
<1>10. CASE BlockCommit(w)
  BY <1>0, <1>10, RowTypes, RowWrites, LeaseWrites DEF BlockCommit, RowsOK, LeaseStatuses
<1>11. CASE FailCommit(w)
  BY <1>0, <1>11, RowTypes, RowWrites, LeaseWrites DEF FailCommit, RowsOK, LeaseStatuses
<1>12. CASE CommitClaimFails(w) \/ StartFails(w) \/ WorkerCrash(w)
  BY <1>2, <1>12 DEF CommitClaimFails, StartFails, WorkerCrash, Fault
<1>13. CASE \/ ClaimTask(w) \/ ClaimRead(w) \/ DiscardTerminal(w) \/ StaleQueue(w) \/ Compensate(w)
            \/ HeartbeatRefused(w) \/ Release(w) \/ HandlerReturns(w) \/ HandlerFails(w) \/ CompleteRead(w)
            \/ CompleteFails(w) \/ CompleteQueue(w) \/ BlockRead(w) \/ FailRead(w) \/ FailQueue(w)
  BY <1>1, <1>13 DEF ClaimTask, ClaimRead, DiscardTerminal, StaleQueue, Compensate, HeartbeatRefused,
     Release,
     HandlerReturns, HandlerFails, CompleteRead, CompleteFails, CompleteQueue, BlockRead, FailRead, FailQueue
<1> QED
  BY <1>3, <1>4, <1>5, <1>6, <1>7, <1>8, <1>9, <1>10, <1>11, <1>12, <1>13 DEF WorkerStep

\* Every maintenance step leaves the rows well-formed: requeue_after_recovery runs
\* only below max_retries, so the retry counter stays in range.
LEMMA MaintKeepsRows ==
    ASSUME RowsOK, FramesOK, NEW m \in Maintainers, MaintStep(m) \/ MaintCrash(m)
    PROVE  RowsOK'
<1> USE DEF MAt
<1>0. /\ maint[m].row \in TaskRow /\ maint[m].disp \in DispatchRow /\ maint[m].row.retry \in 0 .. RetryCap
      /\ maint[m].pc # "idle" => maint[m].task \in Tasks
      /\ maint[m].pc \in {"recover", "requeue", "bury"} => maint[m].holder \in Workers
      /\ maint[m].pc = "requeue" => maint[m].row.retry + 1 \in 0 .. RetryCap
  BY RuntimeAssumption, RowTypes DEF RuntimeAssumption, FramesOK, MaintFrameOK, MaintFrames
<1>1. CASE UNCHANGED dbVars /\ UNCHANGED faults
  BY <1>1 DEF RowsOK, dbVars
<1>2. CASE UNCHANGED dbVars /\ \E k \in FaultKinds : Fault(k)
  BY <1>2, FaultCount DEF RowsOK, dbVars
<1>3. CASE DropDispatch(m) \/ PublishDueAck(m)
  <2>1. dispatch' \in [Tasks -> DispatchRow]
    BY <1>0, <1>3, DispatchValues, DispatchWrites DEF DropDispatch, PublishDueAck, AckPublished, MTask
  <2> QED BY <1>3, <2>1 DEF DropDispatch, PublishDueAck, leaseVars, RowsOK
<1>4. CASE CleanCancelled(m)
  BY <1>4, CleanupWrites DEF CleanCancelled, leaseVars, procVars, RowsOK
<1>5. ASSUME ExpireLease(m), maint[m].pc \in {"recover", "requeue", "bury"}
      PROVE  /\ lease' \in [Tasks -> [Workers -> LeaseStatuses]]
             /\ lastHolder' \in [Tasks -> Workers \cup {NoOwner}]
  <2> DEFINE s == IF maint[m].latest THEN "expired" ELSE lease[MTask(m)][Holder(m)]
  <2>1. s \in LeaseStatuses
    BY <1>0, <1>5 DEF RowsOK, MTask, Holder, LeaseStatuses
  <2>2. PutLease(MTask(m), Holder(m), s)
    BY <1>5 DEF ExpireLease
  <2> HIDE DEF s
  <2> QED BY <1>0, <1>5, <2>1, <2>2, LeaseWrites DEF MTask, Holder
<1>6. CASE RecoverUnsupported(m)
  BY <1>5, <1>6 DEF RecoverUnsupported, RowsOK
<1>7. CASE RequeueCommit(m)
  BY <1>0, <1>5, <1>7, RowTypes, RowWrites DEF RequeueCommit, RowsOK, MTask, MRow
<1>8. CASE DeadLetterCommit(m)
  BY <1>0, <1>5, <1>8, RowTypes, RowWrites DEF DeadLetterCommit, RowsOK, MTask
<1>9. CASE OrphanCommit(m)
  <2>1. task' \in [Tasks -> TaskRow]
    BY <1>0, <1>9, RowTypes, RowWrites, RuntimeAssumption DEF RuntimeAssumption, OrphanCommit,
       RowsOK, MTask, MRow
  <2> QED BY <1>9, <2>1 DEF OrphanCommit, leaseVars, RowsOK
<1>10. CASE MaintCrash(m)
  BY <1>2, <1>10 DEF MaintCrash, Fault
<1>11. CASE \/ ListDue(m) \/ PublishDue(m) \/ RecoverRead(m) \/ RecoverForRetry(m) \/ RecoverToDeadLetter(m)
            \/ ReconcileLoad(m) \/ ReconcileCheck(m) \/ ReconcileTerminal(m) \/ ReconcileFailed(m) \/ ReconcileOrphan(m)
  BY <1>1, <1>11 DEF ListDue, PublishDue, RecoverRead, RecoverForRetry, RecoverToDeadLetter,
     ReconcileLoad,
     ReconcileCheck, ReconcileTerminal, ReconcileFailed, ReconcileOrphan
<1> QED
  BY <1>3, <1>4, <1>6, <1>7, <1>8, <1>9, <1>10, <1>11 DEF MaintStep

\* Every step of a request leaves the rows well-formed.
LEMMA ApiKeepsRows ==
    ASSUME RowsOK, FramesOK, NEW r \in Requests, RequestRead(r) \/ RequestStep(r) \/ RequestCrash(r)
    PROVE  RowsOK'
<1> USE DEF AAt
<1>a. /\ api[r].row \in TaskRow /\ api[r].disp \in DispatchRow /\ api[r].row.meta \in Meta
      /\ api[r].pc # "idle" => api[r].task \in Tasks /\ dispatch[api[r].task] \in DispatchRow
  BY RowTypes DEF FramesOK, ApiFrameOK, ApiFrames, RowsOK
<1>b. \A x \in Meta : [x EXCEPT !.cancel = TRUE] \in Meta
  BY DEF Meta
<1>0. /\ api[r].row \in TaskRow /\ api[r].disp \in DispatchRow /\ api[r].row.meta \in Meta
      /\ [api[r].row.meta EXCEPT !.cancel = TRUE] \in Meta
      /\ api[r].pc # "idle" => api[r].task \in Tasks /\ dispatch[api[r].task] \in DispatchRow
  BY <1>a, <1>b
<1>1. CASE UNCHANGED dbVars /\ UNCHANGED faults
  BY <1>1 DEF RowsOK, dbVars
<1>2. CASE UNCHANGED dbVars /\ \E k \in FaultKinds : Fault(k)
  BY <1>2, FaultCount DEF RowsOK, dbVars
<1>3. CASE QueueTask(r)
  <2>1. task' \in [Tasks -> TaskRow]
    BY <1>0, <1>3, RowTypes, RowWrites DEF QueueTask, ATask, ARow
  <2>2. dispatch' \in [Tasks -> DispatchRow]
    BY <1>0, <1>3, DispatchValues DEF QueueTask, Admit, ATask, RowsOK
  <2> QED BY <1>3, <2>1, <2>2 DEF QueueTask, leaseVars, RowsOK
<1>4. CASE PlaceInReview(r)
  <2>1. task' \in [Tasks -> TaskRow]
    BY <1>0, <1>4, RowTypes, RowWrites DEF PlaceInReview, ATask
  <2>2. dispatch' \in [Tasks -> DispatchRow]
    BY <1>0, <1>4, DispatchValues DEF PlaceInReview, ATask, RowsOK
  <2> QED BY <1>4, <2>1, <2>2 DEF PlaceInReview, leaseVars, RowsOK
<1>5. CASE RetryTask(r)
  <2>1. task' \in [Tasks -> TaskRow]
    BY <1>0, <1>5, RowTypes, RowWrites DEF RetryTask, ATask, ARow
  <2> DEFINE d == dispatch[ATask(r)]
             n == d.gen + 1
  <2>2. d.status # "none" => [NewDispatch("pending") EXCEPT !.gen = n] \in DispatchRow
    <3>1. d.status # "none" => n \in 0 .. MaxGeneration
      BY <1>0, <1>5, RuntimeAssumption DEF RuntimeAssumption, RetryTask, ATask, DispatchRow
    <3> HIDE DEF n
    <3> QED BY <1>0, <3>1, DispatchValues DEF DispatchRow
  <2>3. dispatch' \in [Tasks -> DispatchRow]
    BY <1>0, <1>5, <2>2, DispatchValues DEF RetryTask, ATask, RowsOK
  <2> QED BY <1>5, <2>1, <2>3 DEF RetryTask, leaseVars, RowsOK
<1>6. CASE CancelTask(r)
  <2>1. CASE ARow(r).status \in {"running", "claimed"}
    <3> DEFINE meta == [ARow(r).meta EXCEPT !.cancel = TRUE]
    <3>1. task' = [task EXCEPT ![ATask(r)].meta = meta] /\ meta \in Meta
      BY <1>0, <1>6, <2>1 DEF CancelTask, ARow
    <3> HIDE DEF meta
    <3>2. task' \in [Tasks -> TaskRow]
      BY <1>0, <1>6, <3>1 DEF CancelTask, RowsOK, TaskRow, ATask
    <3> QED BY <1>6, <2>1, <3>2 DEF CancelTask, leaseVars, RowsOK
  <2>2. CASE ARow(r).status \notin {"running", "claimed"}
    <3>1. task' \in [Tasks -> TaskRow]
      BY <1>0, <1>6, <2>2, RowTypes, RowWrites DEF CancelTask, ATask, ARow
    <3>2. dispatch' \in [Tasks -> DispatchRow]
      BY <1>0, <1>6, <2>2, DispatchValues, DispatchWrites DEF CancelTask, ATask, ARow
    <3> QED BY <1>6, <3>1, <3>2 DEF CancelTask, leaseVars, RowsOK
  <2> QED BY <2>1, <2>2
<1>7. CASE CancelCleanup(r)
  BY <1>0, <1>7, CleanupWrites DEF CancelCleanup, ATask, leaseVars, RowsOK
<1>8. CASE HookAck(r)
  BY <1>0, <1>8, DispatchValues, DispatchWrites DEF HookAck, AckPublished, ATask, leaseVars, RowsOK
<1>9. CASE RequestCrash(r)
  BY <1>2, <1>9 DEF RequestCrash, Fault
<1>10. CASE RequestRead(r) \/ HookRead(r) \/ HookPublish(r)
  BY <1>1, <1>10 DEF RequestRead, HookRead, HookPublish
<1> QED
  BY <1>3, <1>4, <1>5, <1>6, <1>7, <1>8, <1>9, <1>10 DEF RequestStep

-----------------------------------------------------------------------------
\* The scripts that work on what the queue already holds of a task.
Handled(t) ==
    \/ Q!CancelPending(t) \/ Q!LeaseExpires(t) \/ Q!MoveToDeadLetter(t, NoOwner)
    \/ \E h \in Holders : \/ Q!Complete(t, h) \/ Q!Fail(t, h) \/ Q!Release(t, h)
                         \/ Q!Recover(t, h) \/ Q!MoveToDeadLetter(t, h)

\* The clean-up of a cancelled dispatch calls cancel_pending or leaves the queue alone.
LEMMA CleanupUse ==
    ASSUME NEW t \in Tasks, ReconcileCancelled(t) \/ CleanupAfterCancel(t)
    PROVE  Handled(t) \/ UNCHANGED queueVars
  BY DEF ReconcileCancelled, CleanupAfterCancel, Handled

\* A worker uses the queue through its scripts only: claim_next, complete, fail,
\* release, cancel_pending.
LEMMA WorkerQueueUse ==
    ASSUME RowsOK, FramesOK, NEW w \in Workers, WorkerStep(w) \/ WorkerCrash(w)
    PROVE  \/ UNCHANGED queueVars
           \/ ClaimTask(w)
           \/ worker[w].task \in Tasks /\ Handled(worker[w].task)
<1> USE DEF At, Task
<1>0. w \in Holders /\ (worker[w].pc # "idle" => worker[w].task \in Tasks)
  BY RowHasMeta DEF Holders
<1>1. CASE ClaimTask(w)
  BY <1>1
<1>2. CASE DiscardTerminal(w) \/ StaleQueue(w) \/ Compensate(w) \/ Release(w) \/ CompleteQueue(w) \/ FailQueue(w)
  BY <1>0, <1>2
     DEF DiscardTerminal, StaleQueue, Compensate, Release, CompleteQueue, FailQueue, Attempt, Handled
<1>3. CASE StaleCleanup(w)
  BY <1>0, <1>3, CleanupUse DEF StaleCleanup
<1>4. CASE \/ ClaimRead(w) \/ CancelStale(w) \/ CommitClaim(w) \/ CommitClaimFails(w) \/ Heartbeat(w)
           \/ StartExecution(w) \/ HeartbeatRefused(w) \/ StartFails(w) \/ ReleaseCommit(w)
           \/ HandlerReturns(w) \/ HandlerFails(w) \/ CompleteRead(w) \/ CompleteFails(w) \/ CompleteCommit(w)
           \/ BlockRead(w) \/ BlockCommit(w) \/ FailRead(w) \/ FailCommit(w) \/ WorkerCrash(w)
  BY <1>4 DEF ClaimRead, CancelStale, CommitClaim, CommitClaimFails, Heartbeat, StartExecution,
     HeartbeatRefused,
     StartFails, ReleaseCommit, HandlerReturns, HandlerFails, CompleteRead, CompleteFails, CompleteCommit,
     BlockRead, BlockCommit, FailRead, FailCommit, WorkerCrash
<1> QED
  BY <1>1, <1>2, <1>3, <1>4 DEF WorkerStep

\* Maintenance uses the queue through its scripts only, and publishes only in
\* publish_due.
LEMMA MaintQueueUse ==
    ASSUME RowsOK, FramesOK, NEW m \in Maintainers, MaintStep(m) \/ MaintCrash(m)
    PROVE  \/ UNCHANGED queueVars
           \/ \E t \in Tasks : Handled(t)
           \/ PublishDue(m) /\ maint[m].task \in Tasks /\ Publish(maint[m].task, maint[m].disp)
<1> USE DEF MAt, MTask, Holder
<1>0. /\ maint[m].pc # "idle" => maint[m].task \in Tasks /\ CleanupHolder(maint[m].task) \in Holders
      /\ maint[m].pc = "recover" => maint[m].holder \in Holders
      /\ MaintainerId \in Holders
  BY DEF FramesOK, MaintFrameOK, MaintFrames, RowsOK, CleanupHolder, Holders
<1>1. CASE PublishDue(m)
  <2>1. maint[m].task \in Tasks
    BY <1>0, <1>1 DEF PublishDue
  <2>2. UNCHANGED queueVars \/ Publish(maint[m].task, maint[m].disp)
    BY <1>1 DEF PublishDue
  <2> QED BY <1>1, <2>1, <2>2
<1>2. CASE CleanCancelled(m)
  BY <1>2, CleanupUse DEF CleanCancelled
<1>3. CASE RecoverForRetry(m) \/ RecoverToDeadLetter(m)
  BY <1>0, <1>3 DEF RecoverForRetry, RecoverToDeadLetter, Handled
<1>4. CASE ReconcileTerminal(m) \/ ReconcileFailed(m) \/ ReconcileOrphan(m)
  BY <1>0, <1>4 DEF ReconcileTerminal, ReconcileFailed, ReconcileOrphan, Attempt, Handled
<1>5. CASE \/ ListDue(m) \/ DropDispatch(m) \/ PublishDueAck(m) \/ RecoverRead(m) \/ RecoverUnsupported(m)
           \/ RequeueCommit(m) \/ DeadLetterCommit(m) \/ ReconcileLoad(m) \/ ReconcileCheck(m)
           \/ OrphanCommit(m) \/ MaintCrash(m)
  BY <1>5 DEF ListDue, DropDispatch, PublishDueAck, RecoverRead, RecoverUnsupported, RequeueCommit,
     DeadLetterCommit, ReconcileLoad, ReconcileCheck, OrphanCommit, MaintCrash
<1> QED
  BY <1>1, <1>2, <1>3, <1>4, <1>5 DEF MaintStep

\* A request uses the queue through its scripts only, and publishes only in the
\* hook after its commit.
LEMMA ApiQueueUse ==
    ASSUME RowsOK, FramesOK, NEW r \in Requests, RequestRead(r) \/ RequestStep(r) \/ RequestCrash(r)
    PROVE  \/ UNCHANGED queueVars
           \/ \E t \in Tasks : Handled(t)
           \/ HookPublish(r) /\ api[r].task \in Tasks /\ Publish(api[r].task, api[r].disp)
<1> USE DEF AAt, ATask
<1>0. (api[r].pc # "idle" => api[r].task \in Tasks) /\ api[r].disp \in DispatchRow
  BY DEF FramesOK, ApiFrameOK, ApiFrames
<1>1. CASE CancelCleanup(r)
  BY <1>0, <1>1, CleanupUse DEF CancelCleanup
<1>2. CASE HookPublish(r)
  <2>1. api[r].task \in Tasks
    BY <1>0, <1>2 DEF HookPublish
  <2>2. UNCHANGED queueVars \/ Publish(api[r].task, api[r].disp)
    BY <1>2 DEF HookPublish
  <2> QED BY <1>2, <2>1, <2>2
<1>3. CASE \/ RequestRead(r) \/ QueueTask(r) \/ PlaceInReview(r) \/ RetryTask(r) \/ CancelTask(r)
           \/ HookRead(r) \/ HookAck(r) \/ RequestCrash(r)
  BY <1>3 DEF RequestRead, QueueTask, PlaceInReview, RetryTask, CancelTask, HookRead, HookAck,
     RequestCrash
<1> QED
  BY <1>1, <1>2, <1>3 DEF RequestStep

-----------------------------------------------------------------------------
\* The types of the rows and of the frames: TypeOK without the queue, with the steps
\* of the frames.
Shape == RowsOK /\ FramesOK

\* The empty database has well-formed rows and idle processes.
LEMMA ShapeInit == Init => Shape
<1> SUFFICES ASSUME Init PROVE Shape
  OBVIOUS
<1>1. RowsOK
  BY RowTypes, RuntimeAssumption DEF RuntimeAssumption, Init, RowsOK, LeaseStatuses
<1>2. FramesOK
  BY IdleTypes DEF Init, FramesOK, WorkerFrameOK, MaintFrameOK, ApiFrameOK
<1> QED BY <1>1, <1>2 DEF Shape

\* Every step keeps the shape of rows and frames.
LEMMA ShapeStep == ASSUME Shape, [Next]_vars PROVE Shape'
<1> USE DEF Shape
<1>1. CASE UNCHANGED vars
  BY <1>1 DEF vars, RowsOK, FramesOK
<1>2. ASSUME NEW w \in Workers, WorkerStep(w) \/ WorkerCrash(w) PROVE Shape'
  BY <1>2, WorkerKeepsRows, WorkerKeepsFrames
<1>3. ASSUME NEW m \in Maintainers, MaintStep(m) \/ MaintCrash(m) PROVE Shape'
  BY <1>3, MaintKeepsRows, MaintKeepsFrames
<1>4. ASSUME NEW r \in Requests, RequestRead(r) \/ RequestStep(r) \/ RequestCrash(r) PROVE Shape'
  BY <1>4, ApiKeepsRows, ApiKeepsFrames
<1>5. ASSUME NEW t \in Tasks, LeaseKeyExpires(t) PROVE Shape'
  BY <1>5 DEF LeaseKeyExpires, dbVars, procVars, RowsOK, FramesOK
<1> QED
  BY <1>1, <1>2, <1>3, <1>4, <1>5 DEF Next

\* The rows and the frames always have their shape.
LEMMA ShapeInvariant == Spec => []Shape
  BY ShapeInit, ShapeStep, PTL DEF Spec

\* How a step of the runtime uses the queue: not at all, to claim a task, to handle
\* a task that the queue holds, or to publish a dispatch.
Publishes(t, d) ==
    /\ Publish(t, d)
    /\ \/ \E m \in Maintainers : PublishDue(m) /\ t = maint[m].task /\ d = maint[m].disp
       \/ \E r \in Requests : HookPublish(r) /\ t = api[r].task /\ d = api[r].disp

\* Every step of the runtime is at most one use of the queue.
LEMMA QueueUse ==
    ASSUME Shape, Next
    PROVE  \/ UNCHANGED queueVars
           \/ \E w \in Workers : ClaimTask(w)
           \/ \E t \in Tasks : Handled(t)
           \/ \E t \in Tasks, d \in DispatchRow : Publishes(t, d)
<1> USE DEF Shape
<1>1. ASSUME NEW t \in Tasks, LeaseKeyExpires(t) PROVE Handled(t)
  BY <1>1 DEF LeaseKeyExpires, Handled
<1>2. \A m \in Maintainers : maint[m].disp \in DispatchRow
  BY DEF FramesOK, MaintFrames
<1>3. \A r \in Requests : api[r].disp \in DispatchRow
  BY DEF FramesOK, ApiFrames
<1> QED
  BY <1>1, <1>2, <1>3, WorkerQueueUse, MaintQueueUse, ApiQueueUse DEF Next, Publishes

\* Every use of the queue is a step of RedisQueue, an expiry of a lease key among them.
LEMMA QueueStep == ASSUME Shape, [Next]_vars PROVE Q!Next \/ UNCHANGED queueVars
<1>1. CASE UNCHANGED vars
  BY <1>1 DEF vars
<1>2. ASSUME NEW t \in Tasks, Handled(t) PROVE Q!Next
  BY <1>2 DEF Handled, Q!Next
<1>3. ASSUME NEW w \in Workers, ClaimTask(w) PROVE Q!Next
  BY <1>3 DEF ClaimTask, Holders, Q!Next
<1>4. ASSUME NEW t \in Tasks, NEW d \in DispatchRow, Publish(t, d) PROVE Q!Next \/ UNCHANGED queueVars
  <2>1. IdempotencyKey(t, d) \in Tasks \X (0 .. MaxGeneration)
    BY DEF IdempotencyKey, DispatchRow
  <2> QED
    BY <1>4, <2>1 DEF Publish, Q!Next
<1> QED
  BY <1>1, <1>2, <1>3, <1>4, QueueUse DEF Publishes

\* The runtime implements the queue: whatever workers, passes, requests and faults
\* do, the Redis keys change only as the Lua scripts and the key expiry of
\* RedisQueue change them.  What is proved of RedisQueue therefore holds of the
\* queue inside the runtime.
THEOREM RuntimeUsesQueue == Spec => Q!Spec
<1>1. Init => Q!Init
  BY DEF Init
<1>2. Shape /\ [Next]_vars => [Q!Next]_(Q!vars)
  BY QueueStep DEF queueVars, Q!vars
<1> QED
  BY <1>1, <1>2, ShapeInvariant, PTL DEF Spec, Q!Spec

\* Q and QP name the same steps.
LEMMA SameNext == Q!Next => QP!Next
  BY DEF Q!Next, QP!Next, Q!Enqueue, QP!Enqueue, Q!EnqueueReply, QP!EnqueueReply, Q!CancelPending,
     QP!CancelPending, Q!CancelPendingReply, QP!CancelPendingReply, Q!RetryDeadLetter,
     QP!RetryDeadLetter, Q!RetryDeadLetterReply, QP!RetryDeadLetterReply, Q!LeaseExpires,
     QP!LeaseExpires, Q!MoveToDeadLetter, QP!MoveToDeadLetter, Q!DeadLetterReply, QP!DeadLetterReply,
     Q!DeadLetterPayload, QP!DeadLetterPayload, Q!BothQueues, QP!BothQueues, Q!InNeitherQueue,
     QP!InNeitherQueue, Q!EnqueueIdempotent, QP!EnqueueIdempotent, Q!EnqueueIdempotentReply,
     QP!EnqueueIdempotentReply, Q!ClaimNext, QP!ClaimNext, Q!ClaimNextReply, QP!ClaimNextReply,
     Q!IsFirst, QP!IsFirst, Q!ClaimExisting, QP!ClaimExisting, Q!ClaimExistingReply,
     QP!ClaimExistingReply, Q!Complete, QP!Complete, Q!CompleteReply, QP!CompleteReply, Q!Fail,
     QP!Fail, Q!FailReply, QP!FailReply, Q!Release, QP!Release, Q!ReleaseReply, QP!ReleaseReply,
     Q!Recover, QP!Recover, Q!RecoverReply, QP!RecoverReply, Q!OwnedProcessingReply,
     QP!OwnedProcessingReply, Q!OwnerReply, QP!OwnerReply, Q!ZAddLast, QP!ZAddLast, Q!ZRem, QP!ZRem,
     Q!SetLease, QP!SetLease, Q!DelLease, QP!DelLease, Q!orderVars, QP!orderVars, Q!deadVars,
     QP!deadVars, Q!vars, QP!vars

\* Q and QP name the same initial states.
LEMMA SameInit == Q!Init => QP!Init
  BY DEF Q!Init, QP!Init

\* No holder of a lease key is the absent one.
LEMMA QueueHolders == QP!NoOwnerAssumption
  BY RuntimeAssumption DEF RuntimeAssumption, Holders, QP!NoOwnerAssumption

\* The runtime implements the queue that RedisQueueProofs is about.
LEMMA SpecUsesQueue == Spec => QP!Spec
<1>1. Init => QP!Init
  BY SameInit DEF Init
<1>2. Shape /\ [Next]_vars => [QP!Next]_(QP!vars)
  BY QueueStep, SameNext DEF queueVars, QP!vars
<1> QED
  BY <1>1, <1>2, ShapeInvariant, PTL DEF Spec, QP!Spec

\* The Redis structures keep their types inside the runtime.
LEMMA QueueTypes == Spec => []Q!TypeOK
<1>1. QP!TypeOK => Q!TypeOK
  BY DEF QP!TypeOK, Q!TypeOK, QP!DeadLetter, Q!DeadLetter
<1>2. QP!Spec => []QP!TypeOK
  BY QP!TypeCorrect, QueueHolders DEF QP!TypeCorrect
<1> QED BY <1>1, <1>2, SpecUsesQueue, PTL

\* In the running system a payload is live in one place, the order index names
\* exactly the pending payloads, and a lease key exists only for a payload in
\* processing: workers, passes and requests call the scripts in any order and a
\* crash comes between any two of them.
THEOREM RuntimeKeysConsistent == Spec => []Q!KeysConsistent
<1>1. QP!KeysConsistent => Q!KeysConsistent
  BY DEF QP!KeysConsistent, Q!KeysConsistent, QP!OneLiveCopy, Q!OneLiveCopy, QP!IndexMatchesPayloads,
     Q!IndexMatchesPayloads,
    QP!LeaseImpliesProcessing, Q!LeaseImpliesProcessing, QP!OrderIsTotal, Q!OrderIsTotal
<1>2. QP!Spec => []QP!KeysConsistent
  BY QP!KeysAlwaysConsistent, QueueHolders DEF QP!KeysAlwaysConsistent
<1> QED BY <1>1, <1>2, SpecUsesQueue, PTL

\* Every row, queue structure and process frame has its declared shape; the retry
\* counter that reconcile_orphaned_processing raises without a check of max_retries
\* stays in range only because of the cap.
THEOREM TypeCorrect == Spec => []TypeOK
<1>1. Shape /\ Q!TypeOK => TypeOK
  BY DEF Shape, RowsOK, FramesOK, WorkerFrames, MaintFrames, ApiFrames, TypeOK
<1> QED BY <1>1, ShapeInvariant, QueueTypes, PTL

-----------------------------------------------------------------------------
\* Between the commit of the claim and the commit of the outcome.
StartedPCs == {"start", "run", "complete", "complete_commit", "block", "block_commit", "fail", "fail_commit"}
\* A worker has committed its claim.
HeldPCs == StartedPCs \cup {"heartbeat"}
\* Before the commit of the claim.
EarlyPCs == {"read", "discard", "stale", "stale_queue", "cleanup", "claim", "compensate"}

\* Only the owner of a worker's frame moves it, and the lease rows of others too.
LEMMA WorkerLocal ==
    ASSUME Shape, NEW w \in Workers, WorkerStep(w) \/ WorkerCrash(w)
    PROVE  /\ \A v \in Workers \ {w} : worker'[v] = worker[v]
           /\ \A t \in Tasks, v \in Workers \ {w} : lease'[t][v] = lease[t][v]
           /\ \A t \in Tasks : t # worker[w].task => lease'[t] = lease[t]
           /\ UNCHANGED <<maint, api>> \/ CommitClaim(w) \/ ClaimTask(w)
<1> USE DEF At, Goto, GotoWith, Done, Shape, RowsOK, FramesOK, dbVars, leaseVars, PutLease
<1> DEFINE Writes == \E s \in LeaseStatuses : lease' = [lease EXCEPT ![Task(w)][w] = s]
<1>a. ASSUME Writes
      PROVE  /\ \A t \in Tasks, v \in Workers \ {w} : lease'[t][v] = lease[t][v]
             /\ \A t \in Tasks : t # worker[w].task => lease'[t] = lease[t]
  BY <1>a DEF Task
<1>1. CASE CommitClaim(w)
  <2>1. Writes /\ \A v \in Workers \ {w} : worker'[v] = worker[v]
    BY <1>1 DEF CommitClaim, InsertLease, LeaseStatuses
  <2> QED BY <1>1, <1>a, <2>1
<1>2. CASE \/ Heartbeat(w) \/ ReleaseCommit(w) \/ CompleteCommit(w) \/ BlockCommit(w) \/ FailCommit(w)
  <2>1. Writes /\ UNCHANGED <<maint, api>> /\ \A v \in Workers \ {w} : worker'[v] = worker[v]
    BY <1>2 DEF Heartbeat, ReleaseCommit, CompleteCommit, BlockCommit, FailCommit, LeaseStatuses
  <2> QED BY <1>a, <2>1
<1>3. CASE \/ ClaimTask(w) \/ ClaimRead(w) \/ DiscardTerminal(w) \/ CancelStale(w) \/ StaleQueue(w) \/ StaleCleanup(w)
           \/ CommitClaimFails(w) \/ Compensate(w) \/ StartExecution(w) \/ HeartbeatRefused(w) \/ StartFails(w) \/ Release(w)
  BY <1>3 DEF ClaimTask, ClaimRead, DiscardTerminal, CancelStale, StaleQueue, StaleCleanup,
     CommitClaimFails, Compensate,
     StartExecution, HeartbeatRefused, StartFails, Release
<1>4. CASE \/ HandlerReturns(w) \/ HandlerFails(w) \/ CompleteRead(w) \/ CompleteFails(w)
           \/ CompleteQueue(w) \/ BlockRead(w) \/ FailRead(w) \/ FailQueue(w) \/ WorkerCrash(w)
  BY <1>4 DEF HandlerReturns, HandlerFails, CompleteRead, CompleteFails, CompletionError,
     CompleteQueue, BlockRead,
     FailRead, FailQueue, WorkerCrash
<1> QED
  BY <1>1, <1>2, <1>3, <1>4 DEF WorkerStep

\* A claim shows in the maintenance steps on the task, and changes nothing else of them.
LEMMA ClaimSeen ==
    ASSUME Shape, NEW w \in Workers, ClaimTask(w), NEW m \in Maintainers
    PROVE  /\ maint'[m].pc = maint[m].pc /\ maint'[m].task = maint[m].task
           /\ maint'[m].holder = maint[m].holder /\ maint'[m].row = maint[m].row
           /\ maint'[m].disp = maint[m].disp /\ maint'[m].latest = maint[m].latest
           /\ maint[m].since \subseteq maint'[m].since
           /\ maint[m].task = worker'[w].task => w \in maint'[m].since
           /\ maint[m].task # worker'[w].task => maint'[m] = maint[m]
<1>1. maint \in [Maintainers -> MaintFrames] /\ worker \in [Workers -> WorkerFrames]
  BY DEF Shape, FramesOK
<1>2. PICK t \in Tasks : worker' = [worker EXCEPT ![w].pc = "read", ![w].task = t] /\ TakenUp(t, w)
  BY DEF ClaimTask
<1>3. worker'[w].task = t
  BY <1>1, <1>2 DEF WorkerFrames
<1>4. maint'[m] = IF maint[m].task = t THEN [maint[m] EXCEPT !.since = @ \cup {w}] ELSE maint[m]
  BY <1>2 DEF TakenUp
<1> QED BY <1>1, <1>3, <1>4 DEF MaintFrames

\* A claim takes an idle worker to its first step on the task.
LEMMA ClaimMoves ==
    ASSUME Shape, NEW w \in Workers, ClaimTask(w)
    PROVE  /\ worker[w].pc = "idle" /\ worker'[w].pc = "read" /\ worker'[w] # worker[w]
           /\ \A v \in Workers \ {w} : worker'[v] = worker[v]
  BY DEF ClaimTask, At, Shape, FramesOK, WorkerFrames

\* How the frame of a worker moves among the phases above.
LEMMA WorkerPhases ==
    ASSUME Shape, NEW w \in Workers, WorkerStep(w) \/ WorkerCrash(w)
    PROVE  /\ worker'[w].pc \in HeldPCs =>
                /\ worker'[w].task = worker[w].task
                /\ worker[w].pc \in HeldPCs => lease' = lease \/ Heartbeat(w)
                /\ worker[w].pc \notin HeldPCs => CommitClaim(w)
           /\ worker'[w].pc \in StartedPCs =>
                worker[w].pc \in StartedPCs \/ Heartbeat(w)
           /\ worker'[w].pc = "claim" => worker[w].pc = "read" /\ ClaimRead(w)
           /\ worker'[w].pc = "heartbeat" => CommitClaim(w)
           /\ worker'[w].task # NoTask /\ worker'[w].pc \notin EarlyPCs =>
                /\ worker'[w].task = worker[w].task
                /\ worker[w].pc \notin EarlyPCs \/ CommitClaim(w)
<1> USE DEF At, Goto, GotoWith, Done, Shape, RowsOK, FramesOK, WorkerFrames, dbVars, leaseVars,
            StartedPCs, HeldPCs, EarlyPCs, IdleWorker
<1>1. CASE CommitClaim(w)
  BY <1>1 DEF CommitClaim
<1>2. CASE \/ Heartbeat(w) \/ ReleaseCommit(w) \/ CompleteCommit(w) \/ BlockCommit(w) \/ FailCommit(w)
  BY <1>2 DEF Heartbeat, ReleaseCommit, CompleteCommit, BlockCommit, FailCommit
<1>3. CASE \/ ClaimTask(w) \/ DiscardTerminal(w) \/ CancelStale(w) \/ StaleQueue(w) \/ StaleCleanup(w)
           \/ CommitClaimFails(w) \/ Compensate(w) \/ StartExecution(w) \/ HeartbeatRefused(w) \/ StartFails(w) \/ Release(w)
  BY <1>3 DEF ClaimTask, DiscardTerminal, CancelStale, StaleQueue, StaleCleanup, CommitClaimFails,
     Compensate,
     StartExecution, HeartbeatRefused, StartFails, Release
<1>4. CASE \/ HandlerReturns(w) \/ HandlerFails(w) \/ CompleteRead(w) \/ CompleteFails(w)
           \/ CompleteQueue(w) \/ BlockRead(w) \/ FailRead(w) \/ FailQueue(w) \/ WorkerCrash(w)
  BY <1>4 DEF HandlerReturns, HandlerFails, CompleteRead, CompleteFails, CompletionError,
     CompleteQueue, BlockRead,
     FailRead, FailQueue, WorkerCrash
<1>5. CASE ClaimRead(w)
  BY <1>5 DEF ClaimRead, ClaimBranch
<1> QED
  BY <1>1, <1>2, <1>3, <1>4, <1>5 DEF WorkerStep

\* A worker gets a task by a claim and keeps it until it is done with it.
LEMMA WorkerTasks ==
    ASSUME Shape, NEW w \in Workers, WorkerStep(w) \/ WorkerCrash(w)
    PROVE  worker'[w].task \in {worker[w].task, NoTask} \/ ClaimTask(w)
<1>0. worker \in [Workers -> WorkerFrames]
  BY DEF Shape, FramesOK
<1>1. /\ \A pc : Goto(w, pc) => worker'[w].task = worker[w].task
      /\ \A pc, meta : GotoWith(w, pc, meta) => worker'[w].task = worker[w].task
      /\ Done(w) => worker'[w].task = NoTask
  BY <1>0 DEF Goto, GotoWith, Done, IdleWorker, WorkerFrames
<1>2. CASE \/ ClaimRead(w) \/ DiscardTerminal(w) \/ CancelStale(w) \/ StaleQueue(w) \/ StaleCleanup(w)
           \/ CommitClaim(w) \/ CommitClaimFails(w) \/ Compensate(w) \/ Heartbeat(w) \/ StartExecution(w)
           \/ HeartbeatRefused(w) \/ StartFails(w) \/ Release(w) \/ ReleaseCommit(w)
  BY <1>1, <1>2 DEF ClaimRead, DiscardTerminal, CancelStale, StaleQueue, StaleCleanup, CommitClaim,
     CommitClaimFails,
     Compensate, Heartbeat, StartExecution, HeartbeatRefused, StartFails, Release, ReleaseCommit
<1>3. CASE \/ HandlerReturns(w) \/ HandlerFails(w) \/ CompleteRead(w) \/ CompleteFails(w) \/ CompleteCommit(w)
           \/ CompleteQueue(w) \/ BlockRead(w) \/ BlockCommit(w) \/ FailRead(w) \/ FailCommit(w)
           \/ FailQueue(w) \/ WorkerCrash(w)
  BY <1>1, <1>3 DEF HandlerReturns, HandlerFails, CompleteRead, CompleteFails, CompletionError,
     CompleteCommit,
     CompleteQueue, BlockRead, BlockCommit, FailRead, FailCommit, FailQueue, WorkerCrash
<1> QED BY <1>2, <1>3 DEF WorkerStep

\* A pass is recovering an expired lease.
RecoveryPCs == {"recover", "requeue", "bury"}

\* A maintenance step moves its own pass only; a lease row changes only when a
\* recovery ends, with expire_lease.
LEMMA MaintLocal ==
    ASSUME Shape, NEW m \in Maintainers, MaintStep(m) \/ MaintCrash(m)
    PROVE  /\ worker' = worker /\ api' = api
           /\ \A n \in Maintainers \ {m} : maint'[n] = maint[n]
           /\ lease' = lease \/ (maint[m].pc \in RecoveryPCs /\ maint'[m] = IdleMaint /\ ExpireLease(m))
           /\ maint'[m].pc \in RecoveryPCs =>
                \/ maint'[m] = maint[m]
                \/ RecoverRead(m)
                \/ /\ maint[m].pc = "recover" /\ maint[m].row.status \in Recoverable
                   /\ maint'[m] = [maint[m] EXCEPT !.pc = maint'[m].pc]
<1> USE DEF MAt, MDone, dbVars, leaseVars, procVars, RecoveryPCs
<1>0. maint \in [Maintainers -> MaintFrames]
  BY DEF Shape, FramesOK
<1>a. ASSUME NEW f, maint' = [maint EXCEPT ![m] = f]
      PROVE  maint'[m] = f /\ \A n \in Maintainers \ {m} : maint'[n] = maint[n]
  BY <1>0, <1>a
<1>b. ASSUME NEW pc, MGoto(m, pc) PROVE maint' = [maint EXCEPT ![m] = [maint[m] EXCEPT !.pc = pc]] /\ maint'[m].pc = pc
  BY <1>0, <1>b DEF MGoto, MaintFrames
<1>c. IdleMaint.pc = "idle"
  BY DEF IdleMaint
<1>1. CASE ListDue(m) \/ ReconcileLoad(m)
  <2>1. UNCHANGED <<worker, api, lease>>
    BY <1>1 DEF ListDue, ReconcileLoad
  <2>2. PICK f : maint' = [maint EXCEPT ![m] = f] /\ f.pc \in {"due", "loaded"}
    <3>1. CASE ListDue(m)
      <4> DEFINE f(t) == [IdleMaint EXCEPT !.pc = "due", !.task = t, !.disp = dispatch[t]]
      <4>1. PICK t \in Tasks : maint' = [maint EXCEPT ![m] = f(t)]
        BY <3>1 DEF ListDue
      <4>2. f(t).pc = "due"
        BY DEF IdleMaint
      <4> HIDE DEF f
      <4> QED BY <4>1, <4>2
    <3>2. CASE ReconcileLoad(m)
      <4> DEFINE f(t) == [IdleMaint EXCEPT !.pc = "loaded", !.task = t, !.row = Seen(t), !.since = WorkersOn(t)]
      <4>1. PICK t \in Tasks : maint' = [maint EXCEPT ![m] = f(t)]
        BY <3>2 DEF ReconcileLoad
      <4>2. f(t).pc = "loaded"
        BY DEF IdleMaint
      <4> HIDE DEF f
      <4> QED BY <4>1, <4>2
    <3> QED BY <1>1, <3>1, <3>2
  <2> QED BY <2>1, <2>2, <1>a
<1>2. CASE RecoverRead(m)
  <2>1. UNCHANGED <<worker, api, lease>> /\ \E f : maint' = [maint EXCEPT ![m] = f]
    BY <1>2 DEF RecoverRead
  <2> QED BY <1>2, <2>1, <1>a
<1>3. CASE RecoverUnsupported(m) \/ RequeueCommit(m) \/ DeadLetterCommit(m)
  <2>1. UNCHANGED <<worker, api>> /\ ExpireLease(m) /\ maint[m].pc \in RecoveryPCs /\ MDone(m)
    BY <1>3 DEF RecoverUnsupported, RequeueCommit, DeadLetterCommit
  <2> QED BY <2>1, <1>a, <1>c
<1>4. CASE CleanCancelled(m)
  BY <1>4 DEF CleanCancelled
<1>5. CASE DropDispatch(m) \/ PublishDueAck(m) \/ ReconcileTerminal(m) \/ ReconcileFailed(m) \/ OrphanCommit(m) \/ MaintCrash(m)
  <2>1. UNCHANGED <<worker, api, lease>> /\ MDone(m)
    BY <1>5 DEF DropDispatch, PublishDueAck, ReconcileTerminal, ReconcileFailed, OrphanCommit,
       MaintCrash
  <2> QED BY <2>1, <1>a, <1>c
<1>6. CASE PublishDue(m) \/ ReconcileCheck(m) \/ ReconcileOrphan(m)
  <2>1. UNCHANGED <<worker, api, lease>> /\ (MDone(m) \/ \E pc \in {"ack", "reconcile", "orphan"} : MGoto(m, pc))
    BY <1>6 DEF PublishDue, ReconcileCheck, ReconcileOrphan
  <2> QED BY <2>1, <1>a, <1>b, <1>c
<1>7. CASE RecoverForRetry(m) \/ RecoverToDeadLetter(m)
  <2>1. /\ UNCHANGED <<worker, api, lease>> /\ maint[m].pc = "recover" /\ maint[m].row.status \in Recoverable
        /\ MDone(m) \/ \E pc \in {"requeue", "bury"} : MGoto(m, pc)
    BY <1>7 DEF RecoverForRetry, RecoverToDeadLetter, MRow
  <2>2. CASE MDone(m)
    BY <2>1, <2>2, <1>a, <1>c
  <2>3. ASSUME NEW pc, MGoto(m, pc) PROVE maint'[m] = [maint[m] EXCEPT !.pc = maint'[m].pc]
                                          /\ \A n \in Maintainers \ {m} : maint'[n] = maint[n]
    BY <2>3, <1>a, <1>b
  <2> QED BY <2>1, <2>2, <2>3
<1> QED
  BY <1>1, <1>2, <1>3, <1>4, <1>5, <1>6, <1>7 DEF MaintStep

\* A request touches neither the workers, nor the passes, nor the lease rows.
LEMMA ApiLocal ==
    ASSUME NEW r \in Requests, RequestRead(r) \/ RequestStep(r) \/ RequestCrash(r)
    PROVE  worker' = worker /\ maint' = maint /\ lease' = lease /\ lastHolder' = lastHolder
<1> USE DEF dbVars, leaseVars
<1>1. CASE QueueTask(r) \/ PlaceInReview(r) \/ RetryTask(r) \/ CancelTask(r) \/ CancelCleanup(r)
  BY <1>1 DEF QueueTask, PlaceInReview, RetryTask, CancelTask, CancelCleanup
<1>2. CASE HookRead(r) \/ HookPublish(r) \/ HookAck(r) \/ RequestRead(r) \/ RequestCrash(r)
  BY <1>2 DEF HookRead, HookPublish, HookAck, RequestRead, RequestCrash
<1> QED
  BY <1>1, <1>2 DEF RequestStep

\* A lease key is given by a claim only; every other script leaves it or deletes it.
KeyOnlyDropped == \A t \in Tasks : leaseKey'[t] \in {leaseKey[t], NoOwner}

\* Only claim_next sets a lease key.
LEMMA KeyStep ==
    ASSUME Shape, Q!TypeOK, Next
    PROVE  KeyOnlyDropped \/ \E w \in Workers : ClaimTask(w)
<1> USE DEF KeyOnlyDropped, Q!TypeOK
<1>1. CASE UNCHANGED queueVars
  BY <1>1 DEF queueVars
<1>2. ASSUME NEW t \in Tasks, Handled(t) PROVE KeyOnlyDropped
  BY <1>2 DEF Handled, Q!CancelPending, Q!LeaseExpires, Q!Complete, Q!Fail, Q!Release, Q!Recover,
     Q!MoveToDeadLetter, Q!DelLease, Q!SetLease
<1>3. ASSUME NEW t \in Tasks, NEW d \in DispatchRow, Publish(t, d) PROVE KeyOnlyDropped
  BY <1>3 DEF Publish, queueVars, Q!vars, Q!RetryDeadLetter, Q!EnqueueIdempotent, Q!deadVars
<1> QED
  BY <1>1, <1>2, <1>3, QueueUse DEF Publishes

-----------------------------------------------------------------------------
\* A maintenance pass that still believes to hold the latest lease row of a worker
\* on a task: the worker has at most begun to claim the task again.
StaleRecovery ==
    \A m \in Maintainers, w \in Workers :
        /\ maint[m].pc \in RecoveryPCs /\ maint[m].latest
        /\ maint[m].holder = w /\ maint[m].task = worker[w].task
        => worker[w].pc \in EarlyPCs

\* From the commit of the claim to the commit of the outcome the worker's lease row
\* is claimed or active.
HeldHasLease == \A w \in Workers : worker[w].pc \in HeldPCs => Holds(worker[w].task, w)

\* While a worker has started a task no other has, nor can one that is about to
\* claim it get past its heartbeat: the lease key is not its own.
OneStarted ==
    \A v, w \in Workers :
        /\ v # w /\ worker[w].pc \in StartedPCs /\ worker[v].task = worker[w].task
        => /\ worker[v].pc \notin StartedPCs
           /\ worker[v].pc \in {"claim", "heartbeat"} => leaseKey[worker[v].task] # v

\* What NoDoubleExecution needs of the rows, the passes and the lease keys.
StartInv == StaleRecovery /\ HeldHasLease /\ OneStarted

\* A committed claim is a new lease row: a pass that had read the worker's earlier
\* row no longer holds its latest.
LEMMA InsertForgets ==
    ASSUME Shape, NEW w \in Workers, CommitClaim(w), NEW m \in Maintainers
    PROVE  /\ maint'[m].pc = maint[m].pc /\ maint'[m].task = maint[m].task
           /\ maint'[m].holder = maint[m].holder /\ maint'[m].row = maint[m].row
           /\ maint'[m].latest =>
                maint[m].latest /\ <<maint[m].task, maint[m].holder>> # <<worker[w].task, w>>
           /\ worker'[w].task = worker[w].task
<1>1. maint \in [Maintainers -> MaintFrames] /\ worker \in [Workers -> WorkerFrames]
  BY DEF Shape, FramesOK
<1> QED BY <1>1 DEF CommitClaim, InsertLease, Task, MaintFrames, GotoWith, WorkerFrames

\* No step breaks StaleRecovery.  A pass begins a recovery only of a lease that may
\* lapse, when its holder is off the task; a claim that comes after inserts a new
\* lease row at its commit.
LEMMA StaleRecoveryStep ==
    ASSUME Timely, Shape, StaleRecovery, Next
    PROVE  StaleRecovery'
<1> SUFFICES ASSUME NEW m \in Maintainers, NEW w \in Workers,
                    maint'[m].pc \in RecoveryPCs, maint'[m].latest,
                    maint'[m].holder = w, maint'[m].task = worker'[w].task
             PROVE  worker'[w].pc \in EarlyPCs
  BY DEF StaleRecovery
<1>0. /\ maint[m].pc # "idle" => maint[m].task # NoTask
      /\ worker[w].pc = "idle" => worker[w].task = NoTask
      /\ maint \in [Maintainers -> MaintFrames]
  BY DEF Shape, FramesOK, MaintFrameOK, WorkerFrameOK
<1>1. ASSUME NEW v \in Workers, WorkerStep(v) \/ WorkerCrash(v) PROVE worker'[w].pc \in EarlyPCs
  <2>1. CASE maint' = maint
    <3>1. CASE v # w
      BY <1>1, <2>1, <3>1, WorkerLocal DEF StaleRecovery
    <3>2. CASE v = w
      <4>1. worker'[w].task # NoTask
        BY <1>0, <2>1 DEF RecoveryPCs
      <4>2. CASE worker'[w].pc \notin EarlyPCs
        <5>1. worker'[w].task = worker[w].task /\ (worker[w].pc \notin EarlyPCs \/ CommitClaim(w))
          BY <1>1, <3>2, <4>1, <4>2, WorkerPhases
        <5>2. CommitClaim(w)
          BY <2>1, <5>1 DEF StaleRecovery
        <5> QED BY <5>1, <5>2, <2>1, InsertForgets
      <4> QED BY <4>2
    <3> QED BY <3>1, <3>2
  <2>2. CASE CommitClaim(v)
    <3>1. /\ maint'[m].pc = maint[m].pc /\ maint'[m].task = maint[m].task /\ maint'[m].holder = maint[m].holder
          /\ maint[m].latest /\ <<maint[m].task, maint[m].holder>> # <<worker[v].task, v>>
          /\ worker'[v].task = worker[v].task
      BY <2>2, InsertForgets
    <3>3. v # w
      BY <3>1
    <3>4. worker'[w] = worker[w]
      BY <1>1, <3>3, WorkerLocal
    <3> QED BY <3>1, <3>4 DEF StaleRecovery
  <2>3. CASE ClaimTask(v)
    <3>1. /\ maint'[m].pc = maint[m].pc /\ maint'[m].task = maint[m].task /\ maint'[m].holder = maint[m].holder
          /\ maint'[m].latest = maint[m].latest
      BY <2>3, ClaimSeen
    <3>2. CASE v = w
      BY <2>3, <3>2 DEF ClaimTask, EarlyPCs, Shape, FramesOK, WorkerFrames
    <3>3. CASE v # w
      <4>1. worker'[w] = worker[w]
        BY <2>3, <3>3, ClaimMoves
      <4> QED BY <3>1, <4>1 DEF StaleRecovery
    <3> QED BY <3>2, <3>3
  <2> QED BY <1>1, <2>1, <2>2, <2>3, WorkerLocal
<1>2. ASSUME NEW n \in Maintainers, MaintStep(n) \/ MaintCrash(n) PROVE worker'[w].pc \in EarlyPCs
  <2>1. CASE n # m \/ maint'[n] = maint[n]
    <3>1. maint'[m] = maint[m] /\ worker' = worker
      BY <1>2, <2>1, MaintLocal
    <3> QED BY <3>1 DEF StaleRecovery
  <2>2. CASE n = m /\ RecoverRead(m)
    <3>1. PICK t \in Tasks, u \in Workers :
             /\ MayLapse(t, u)
             /\ maint' = [maint EXCEPT ![m] = [IdleMaint EXCEPT !.pc = "recover", !.task = t, !.holder = u,
                                                  !.row = Seen(t), !.since = WorkersOn(t)]]
      BY <2>2 DEF RecoverRead
    <3>2. maint'[m].task = t /\ maint'[m].holder = u
      BY <1>0, <3>1 DEF IdleMaint
    <3> QED BY <1>2, <3>1, <3>2, MaintLocal DEF MayLapse, WorkersOn
  <2>3. CASE n = m /\ maint[m].pc = "recover" /\ maint'[m] = [maint[m] EXCEPT !.pc = maint'[m].pc]
    <3> DEFINE pc == maint'[m].pc
    <3>a. maint'[m] = [maint[m] EXCEPT !.pc = pc]
      BY <2>3
    <3> HIDE DEF pc
    <3>b. maint[m] \in MaintFrames
      BY <1>0
    <3>1. /\ maint'[m].task = maint[m].task /\ maint'[m].holder = maint[m].holder
          /\ maint'[m].latest = maint[m].latest
      BY <3>a, <3>b DEF MaintFrames
    <3>2. maint[m].pc \in RecoveryPCs
      BY <2>3 DEF RecoveryPCs
    <3> QED BY <1>2, <3>1, <3>2, MaintLocal DEF StaleRecovery
  <2> QED BY <1>2, <2>1, <2>2, <2>3, MaintLocal
<1>3. ASSUME NEW r \in Requests, RequestRead(r) \/ RequestStep(r) \/ RequestCrash(r) PROVE worker'[w].pc \in EarlyPCs
  BY <1>3, ApiLocal DEF StaleRecovery
<1>4. ASSUME NEW t \in Tasks, LeaseKeyExpires(t) PROVE worker'[w].pc \in EarlyPCs
  BY <1>4 DEF LeaseKeyExpires, procVars, StaleRecovery
<1> QED
  BY <1>1, <1>2, <1>3, <1>4 DEF Next

\* No step breaks HeldHasLease: a pass could expire the lease row under a worker only
\* if it still held the latest row, which StaleRecovery excludes.
LEMMA HeldHasLeaseStep ==
    ASSUME Shape, StaleRecovery, HeldHasLease, Next
    PROVE  HeldHasLease'
<1> SUFFICES ASSUME NEW w \in Workers, worker'[w].pc \in HeldPCs
             PROVE  lease'[worker'[w].task][w] \in {"claimed", "active"}
  BY DEF HeldHasLease, Holds
<1>0. /\ worker[w].pc # "idle" => worker[w].task \in Tasks
      /\ lease \in [Tasks -> [Workers -> LeaseStatuses]]
      /\ worker[w].pc \in HeldPCs => lease[worker[w].task][w] \in {"claimed", "active"}
  BY RowHasMeta DEF Shape, RowsOK, HeldHasLease, Holds, Task
<1>1. ASSUME NEW v \in Workers, WorkerStep(v) \/ WorkerCrash(v) PROVE lease'[worker'[w].task][w] \in {"claimed", "active"}
  <2>1. CASE v # w
    BY <1>0, <1>1, <2>1, WorkerLocal DEF HeldPCs, StartedPCs
  <2>2. CASE v = w
    <3>1. CASE CommitClaim(w)
      <4>1. worker[w].task \in Tasks /\ worker'[w].task = worker[w].task
        BY <1>0, <3>1 DEF CommitClaim, At, GotoWith, Shape, FramesOK, WorkerFrames
      <4> QED BY <1>0, <3>1, <4>1 DEF CommitClaim, InsertLease, PutLease, Task
    <3>2. CASE Heartbeat(w)
      <4>1. worker[w].task \in Tasks /\ worker'[w].task = worker[w].task
        BY <1>0, <3>2 DEF Heartbeat, At, Goto, Shape, FramesOK, WorkerFrames
      <4> QED BY <1>0, <3>2, <4>1 DEF Heartbeat, PutLease, Task
    <3>3. CASE lease' = lease /\ worker[w].pc \in HeldPCs /\ worker'[w].task = worker[w].task
      BY <1>0, <3>3
    <3> QED BY <1>1, <2>2, <3>1, <3>2, <3>3, WorkerPhases
  <2> QED BY <2>1, <2>2
<1>2. ASSUME NEW m \in Maintainers, MaintStep(m) \/ MaintCrash(m) PROVE lease'[worker'[w].task][w] \in {"claimed", "active"}
  <2>1. worker' = worker /\ (lease' = lease \/ (maint[m].pc \in RecoveryPCs /\ ExpireLease(m)))
    BY <1>2, MaintLocal
  <2>2. CASE maint[m].pc \in RecoveryPCs /\ ExpireLease(m)
    <3>1. maint[m].task \in Tasks /\ maint[m].holder \in Workers /\ maint[m].latest \in BOOLEAN
      BY <2>2 DEF RecoveryPCs, Shape, FramesOK, MaintFrameOK, MaintFrames
    <3>2. maint[m].latest => <<worker[w].task, w>> # <<maint[m].task, maint[m].holder>>
      BY <2>1, <2>2 DEF StaleRecovery, HeldPCs, StartedPCs, EarlyPCs
    <3>3. CASE maint[m].latest
      BY <1>0, <2>1, <2>2, <3>1, <3>2, <3>3 DEF ExpireLease, PutLease, MTask, Holder, HeldPCs,
         StartedPCs
    <3>4. CASE ~maint[m].latest
      BY <1>0, <2>1, <2>2, <3>1, <3>4 DEF ExpireLease, PutLease, MTask, Holder, HeldPCs, StartedPCs
    <3> QED BY <3>3, <3>4
  <2> QED BY <1>0, <2>1, <2>2
<1>3. ASSUME NEW r \in Requests, RequestRead(r) \/ RequestStep(r) \/ RequestCrash(r)
      PROVE  lease'[worker'[w].task][w] \in {"claimed", "active"}
  BY <1>0, <1>3, ApiLocal
<1>4. ASSUME NEW t \in Tasks, LeaseKeyExpires(t) PROVE lease'[worker'[w].task][w] \in {"claimed", "active"}
  BY <1>0, <1>4 DEF LeaseKeyExpires, procVars, dbVars
<1> QED
  BY <1>1, <1>2, <1>3, <1>4 DEF Next

\* No step breaks OneStarted: the heartbeat before start_execution is refused unless
\* the worker owns the lease key, which a second worker on the task gets only by a
\* claim, and the claim goes on only if no lease row is active
\* (assert_no_active_lease).
LEMMA OneStartedStep ==
    ASSUME Shape, Q!TypeOK, HeldHasLease, OneStarted, Next
    PROVE  OneStarted'
<1> SUFFICES ASSUME NEW v \in Workers, NEW w \in Workers, v # w,
                    worker'[w].pc \in StartedPCs, worker'[v].task = worker'[w].task
             PROVE  /\ worker'[v].pc \notin StartedPCs
                    /\ worker'[v].pc \in {"claim", "heartbeat"} => leaseKey'[worker'[v].task] # v
  BY DEF OneStarted
<1> DEFINE Goal == /\ worker'[v].pc \notin StartedPCs
                   /\ worker'[v].pc \in {"claim", "heartbeat"} => leaseKey'[worker'[v].task] # v
<1>0. /\ \A u \in Workers : worker[u].pc # "idle" => worker[u].task \in Tasks
      /\ v # NoOwner /\ leaseKey \in [Tasks -> Holders \cup {NoOwner}]
      /\ \A u \in Workers : worker[u].pc \in HeldPCs => Holds(worker[u].task, u)
  BY RowHasMeta, RuntimeAssumption DEF RuntimeAssumption, Shape, Task, Q!TypeOK, HeldHasLease
<1>1. CASE worker' = worker /\ KeyOnlyDropped
  BY <1>0, <1>1 DEF OneStarted, KeyOnlyDropped
<1>2. ASSUME NEW u \in Workers, WorkerStep(u) \/ WorkerCrash(u) PROVE Goal
  <2>k. KeyOnlyDropped \/ \E x \in Workers : ClaimTask(x)
    BY KeyStep
  <2>u. CASE u # v /\ u # w
    <3>1. worker'[v] = worker[v] /\ worker'[w] = worker[w]
      BY <1>2, <2>u, WorkerLocal
    <3>2. ASSUME NEW x \in Workers, ClaimTask(x) PROVE Goal
      <4>1. x = u
        <5>1. x # u => worker'[x] = worker[x]
          BY <1>2, WorkerLocal
        <5> QED BY <3>2, <5>1, ClaimMoves
      <4>2. PICK t \in Tasks : leaseKey' = [leaseKey EXCEPT ![t] = x]
        BY <3>2 DEF ClaimTask, Q!ClaimNext, Q!SetLease
      <4> QED BY <1>0, <2>u, <3>1, <4>1, <4>2 DEF OneStarted
    <3> QED BY <1>0, <2>k, <3>1, <3>2 DEF OneStarted, KeyOnlyDropped
  <2>v. CASE u = v
    <3>1. worker'[w] = worker[w]
      BY <1>2, <2>v, WorkerLocal
    <3>2. CASE worker'[v].pc = "claim"
      <4>0. worker[v].pc = "read" /\ ClaimRead(v)
        BY <1>2, <2>v, <3>2, WorkerPhases
      <4>1. worker[v].pc = "read" /\ ClaimRead(v) /\ worker'[v].task = worker[v].task
        BY <3>2, <4>0 DEF ClaimRead, GotoWith, Done, IdleWorker, Shape, FramesOK, WorkerFrames
      <4>2. ActiveLease(worker[v].task)
        BY <1>0, <3>1, <4>1 DEF ActiveLease, Holds, HeldPCs
      <4> QED BY <3>2, <4>1, <4>2 DEF ClaimRead, ClaimBranch, GotoWith, Done, IdleWorker, Task,
           Shape, FramesOK, WorkerFrames, TerminalStates
    <3>3. CASE worker'[v].pc = "heartbeat"
      <4>1. CommitClaim(v)
        BY <1>2, <2>v, <3>3, WorkerPhases
      <4>2. worker[v].pc = "claim" /\ leaseKey' = leaseKey /\ worker'[v].task = worker[v].task
        BY <4>1 DEF CommitClaim, At, queueVars, GotoWith, Shape, FramesOK, WorkerFrames
      <4> QED BY <3>1, <3>3, <4>2 DEF OneStarted, StartedPCs
    <3>4. CASE worker'[v].pc \in StartedPCs
      <4>1. worker'[v].task = worker[v].task /\ (worker[v].pc \in StartedPCs \/ Heartbeat(v))
        BY <1>2, <2>v, <3>4, WorkerPhases DEF HeldPCs
      <4>2. Heartbeat(v)
        BY <3>1, <4>1 DEF OneStarted
      <4>3. worker[v].pc = "heartbeat" /\ leaseKey[worker[v].task] = v
        BY <4>2 DEF Heartbeat, At, Task, Q!HeartbeatReply, Q!OwnerReply
      <4> QED BY <3>1, <4>1, <4>3 DEF OneStarted
    <3> QED BY <3>2, <3>3, <3>4
  <2>w. CASE u = w
    <3>1. worker'[v] = worker[v]
      BY <1>2, <2>w, WorkerLocal
    <3>2. worker'[w].task = worker[w].task /\ (worker[w].pc \in StartedPCs \/ Heartbeat(w))
      BY <1>2, <2>w, WorkerPhases DEF HeldPCs
    <3>3. CASE Heartbeat(w)
      <4>1. worker[w].pc = "heartbeat" /\ leaseKey[worker[w].task] = w /\ leaseKey' = leaseKey
        BY <3>3 DEF Heartbeat, At, Task, Q!HeartbeatReply, Q!OwnerReply, queueVars
      <4> QED BY <3>1, <3>2, <4>1 DEF OneStarted
    <3>4. CASE worker[w].pc \in StartedPCs
      <4>1. KeyOnlyDropped
        <5>1. ASSUME NEW x \in Workers, ClaimTask(x) PROVE FALSE
          <6>1. x = w
            <7>1. x # w => worker'[x] = worker[x]
              BY <1>2, <2>w, WorkerLocal
            <7> QED BY <5>1, <7>1, ClaimMoves
          <6> QED BY <3>4, <5>1, <6>1 DEF ClaimTask, At, StartedPCs
        <5> QED BY <2>k, <5>1
      <4> QED BY <1>0, <3>1, <3>2, <3>4, <4>1 DEF OneStarted, KeyOnlyDropped
    <3> QED BY <3>2, <3>3, <3>4
  <2> QED BY <2>u, <2>v, <2>w
<1>3. ASSUME NEW x, worker' = worker, x \in Workers, ClaimTask(x) PROVE FALSE
  BY <1>3 DEF ClaimTask, At, Shape, FramesOK, WorkerFrames
<1>4. worker' = worker => KeyOnlyDropped
  BY <1>3, KeyStep
<1> QED
  BY <1>1, <1>2, <1>4, MaintLocal, ApiLocal DEF Next, LeaseKeyExpires, procVars

\* StartInv holds in every state.
LEMMA StartInvariant == ASSUME Timely PROVE Spec => []StartInv
<1>1. Init => StartInv
  BY DEF Init, StartInv, StaleRecovery, HeldHasLease, OneStarted, IdleMaint, IdleWorker, RecoveryPCs,
     HeldPCs, StartedPCs
<1>2. Shape /\ Q!TypeOK /\ StartInv /\ [Next]_vars => StartInv'
  <2>1. ASSUME Shape, Q!TypeOK, StartInv, Next PROVE StartInv'
    BY <2>1, StaleRecoveryStep, HeldHasLeaseStep, OneStartedStep DEF StartInv
  <2>2. ASSUME StartInv, UNCHANGED vars PROVE StartInv'
    BY <2>2 DEF vars, queueVars, StartInv, StaleRecovery, HeldHasLease, OneStarted, Holds
  <2> QED BY <2>1, <2>2
<1> QED BY <1>1, <1>2, ShapeInvariant, QueueTypes, PTL DEF Spec

\* Two workers never execute the same task at the same time, however many workers,
\* passes, requests and faults there are, as long as a lease does not lapse under a
\* worker that still works on the task: the check of the lease rows at the claim and
\* of the lease key at the heartbeat make up for the queue handing the payload out
\* again.
THEOREM NeverDoubleExecution == ASSUME Timely PROVE Spec => []NoDoubleExecution
<1>1. StartInv => NoDoubleExecution
  BY DEF StartInv, OneStarted, NoDoubleExecution, Executing, StartedPCs
<1> QED BY <1>1, StartInvariant, PTL

-----------------------------------------------------------------------------
\* A pass that has read the lease row of w before the task was claimed and will
\* expire it whatever the task's status is by then.
Doomed(m, t, w) ==
    /\ maint[m].pc = "recover" /\ maint[m].latest
    /\ maint[m].task = t /\ maint[m].holder = w
    /\ maint[m].row.status \notin Recoverable

\* A lease row that no pass is about to expire backs a held task: the inductive
\* form of HeldIsRecoverable.
Backed(t) == \E w \in Workers : Holds(t, w) /\ \A m \in Maintainers : ~Doomed(m, t, w)

HeldBacked == \A t \in Tasks : task[t].status \in Recoverable => Backed(t)

\* A task stays backed while its lease rows stay and no pass dooms one.
LEMMA StaysBacked ==
    ASSUME NEW t \in Tasks, Backed(t),
           \A w \in Workers : Holds(t, w) /\ (\A m \in Maintainers : ~Doomed(m, t, w)) => Holds(t, w)',
           \A m \in Maintainers, w \in Workers :
             Holds(t, w) => (Doomed(m, t, w)' => Doomed(m, t, w))
    PROVE  Backed(t)'
  BY DEF Backed

\* The handlers of a worker keep a held task backed: a claim inserts its lease row
\* in the transaction that makes the task claimed, a release or an outcome ends both.
LEMMA WorkerBacks ==
    ASSUME Shape, StartInv, HeldBacked, NEW v \in Workers, WorkerStep(v) \/ WorkerCrash(v),
           NEW t \in Tasks, task'[t].status \in Recoverable
    PROVE  Backed(t)'
<1> USE DEF At
<1>0. /\ worker[v].pc # "idle" => worker[v].task \in Tasks
      /\ task \in [Tasks -> TaskRow] /\ lease \in [Tasks -> [Workers -> LeaseStatuses]]
  BY RowHasMeta DEF Shape, RowsOK, Task
<1>1. CASE CommitClaim(v)
  <2>1. lease' = [lease EXCEPT ![worker[v].task][v] = "claimed"] /\ worker[v].task \in Tasks
    BY <1>0, <1>1 DEF CommitClaim, InsertLease, PutLease, Task
  <2>2. CASE t = worker[v].task
    <3>1. Holds(t, v)' /\ \A m \in Maintainers : ~Doomed(m, t, v)'
      BY <1>0, <1>1, <2>1, <2>2, InsertForgets DEF Holds, Doomed
    <3> QED BY <3>1 DEF Backed
  <2>3. CASE t # worker[v].task
    <3>1. task'[t] = task[t] /\ lease'[t] = lease[t]
      BY <1>0, <1>1, <2>1, <2>3 DEF CommitClaim, SetStatusMeta, Task
    <3>2. \A m \in Maintainers, w \in Workers : Doomed(m, t, w)' => Doomed(m, t, w)
      BY <1>1, InsertForgets DEF Doomed
    <3> QED BY <3>1, <3>2, StaysBacked DEF HeldBacked, Holds
  <2> QED BY <2>2, <2>3
<1>2. maint' = maint \/ CommitClaim(v) \/ ClaimTask(v)
  BY WorkerLocal
<1>3. ASSUME maint' = maint \/ ClaimTask(v), task'[t].status = task[t].status,
             \A w \in Workers : Holds(t, w) => Holds(t, w)'
      PROVE  Backed(t)'
  <2>1. \A m \in Maintainers, w \in Workers : Doomed(m, t, w)' => Doomed(m, t, w)
    BY <1>3, ClaimSeen DEF Doomed
  <2> QED BY <1>3, <2>1, StaysBacked DEF HeldBacked
<1>4. CASE StartExecution(v) /\ t = worker[v].task
  <2>1. lease' = lease /\ maint' = maint /\ worker[v].pc = "start"
    BY <1>4 DEF StartExecution
  <2>2. Holds(t, v) /\ \A m \in Maintainers : ~Doomed(m, t, v)
    BY <1>4, <2>1 DEF StartInv, HeldHasLease, StaleRecovery, HeldPCs, StartedPCs, EarlyPCs,
       RecoveryPCs, Doomed
  <2>3. Holds(t, v)' /\ \A m \in Maintainers : ~Doomed(m, t, v)'
    BY <2>1, <2>2 DEF Holds, Doomed
  <2> QED BY <2>3 DEF Backed
<1>5. CASE StartExecution(v) /\ t # worker[v].task
  BY <1>0, <1>3, <1>5 DEF StartExecution, SetStatusMeta, Task, Holds
<1>6. CASE Heartbeat(v)
  BY <1>0, <1>3, <1>6 DEF Heartbeat, PutLease, Task, Holds
<1>7. CASE ReleaseCommit(v) \/ CompleteCommit(v) \/ BlockCommit(v) \/ FailCommit(v)
  <2>1. PICK s \in LeaseStatuses : lease' = [lease EXCEPT ![worker[v].task][v] = s]
    BY <1>7 DEF ReleaseCommit, CompleteCommit, BlockCommit, FailCommit, PutLease, Task, LeaseStatuses
  <2>2. worker[v].task \in Tasks /\ maint' = maint
    BY <1>0, <1>7 DEF ReleaseCommit, CompleteCommit, BlockCommit, FailCommit
  <2>3. task'[worker[v].task].status \notin Recoverable
    BY <1>0, <1>7, <2>2 DEF ReleaseCommit, CompleteCommit, BlockCommit, FailCommit, SetStatus,
       SetStatusMeta, Task,
       Recoverable, TaskRow
  <2>4. t # worker[v].task
    BY <2>3
  <2>5. task'[t] = task[t] /\ lease'[t] = lease[t]
    BY <1>0, <1>7, <2>1, <2>2, <2>4 DEF ReleaseCommit, CompleteCommit, BlockCommit, FailCommit,
       SetStatus, SetStatusMeta, Task
  <2> QED BY <1>3, <2>2, <2>5 DEF Holds
<1>8. CASE CancelStale(v)
  <2>1. worker[v].task \in Tasks /\ UNCHANGED <<maint, lease>>
    BY <1>0, <1>8 DEF CancelStale, leaseVars
  <2>2. t # worker[v].task
    BY <1>0, <1>8, <2>1 DEF CancelStale, SetStatus, Task, Recoverable, TaskRow
  <2>3. task'[t] = task[t]
    BY <1>0, <1>8, <2>2 DEF CancelStale, SetStatus, Task
  <2> QED BY <1>3, <2>1, <2>3 DEF Holds
<1>9. ASSUME UNCHANGED <<task, lease>>, maint' = maint \/ ClaimTask(v) PROVE Backed(t)'
  BY <1>3, <1>9 DEF Holds
<1>10. CASE \/ ClaimTask(v) \/ ClaimRead(v) \/ DiscardTerminal(v) \/ StaleQueue(v) \/ StaleCleanup(v)
            \/ CommitClaimFails(v) \/ Compensate(v) \/ HeartbeatRefused(v) \/ StartFails(v) \/ Release(v)
  BY <1>9, <1>10 DEF ClaimTask, ClaimRead, DiscardTerminal, StaleQueue, StaleCleanup,
     CommitClaimFails, Compensate,
     HeartbeatRefused, StartFails, Release, dbVars, leaseVars
<1>11. CASE \/ HandlerReturns(v) \/ HandlerFails(v) \/ CompleteRead(v) \/ CompleteFails(v)
            \/ CompleteQueue(v) \/ BlockRead(v) \/ FailRead(v) \/ FailQueue(v) \/ WorkerCrash(v)
  BY <1>9, <1>11 DEF HandlerReturns, HandlerFails, CompleteRead, CompleteFails, CompleteQueue,
     BlockRead,
     FailRead, FailQueue, WorkerCrash, dbVars
<1> QED
  BY <1>1, <1>4, <1>5, <1>6, <1>7, <1>8, <1>10, <1>11 DEF WorkerStep

\* Maintenance keeps a held task backed: the transaction that expires the lease row
\* also takes the task out of claimed and running.
LEMMA MaintBacks ==
    ASSUME Shape, HeldBacked, NEW n \in Maintainers, MaintStep(n) \/ MaintCrash(n),
           NEW t \in Tasks, task'[t].status \in Recoverable
    PROVE  Backed(t)'
<1> USE DEF MAt, MTask, MRow, Holder
<1>0. /\ maint[n].pc \in RecoveryPCs => maint[n].task \in Tasks /\ maint[n].holder \in Workers
      /\ task \in [Tasks -> TaskRow] /\ lease \in [Tasks -> [Workers -> LeaseStatuses]]
      /\ maint \in [Maintainers -> MaintFrames] /\ maint[n].latest \in BOOLEAN
  BY DEF Shape, RowsOK, FramesOK, MaintFrameOK, MaintFrames, RecoveryPCs
<1>1. ASSUME NEW m \in Maintainers, NEW w \in Workers, ~RecoverRead(n), Doomed(m, t, w)'
      PROVE  Doomed(m, t, w)
  <2>1. CASE m # n
    BY <1>1, <2>1, MaintLocal DEF Doomed
  <2>2. CASE m = n
    <3>1. \/ maint'[n] = maint[n]
          \/ maint[n].row.status \in Recoverable /\ maint'[n] = [maint[n] EXCEPT !.pc = maint'[n].pc]
      BY <1>1, <2>2, MaintLocal DEF Doomed, RecoveryPCs
    <3>2. CASE maint'[n] = [maint[n] EXCEPT !.pc = maint'[n].pc]
      <4> DEFINE pc == maint'[n].pc
      <4>1. maint'[n] = [maint[n] EXCEPT !.pc = pc] /\ maint[n] \in MaintFrames
        BY <1>0, <3>2
      <4> HIDE DEF pc
      <4>2. maint'[n].row = maint[n].row
        BY <4>1 DEF MaintFrames
      <4> QED BY <1>1, <2>2, <3>1, <4>2 DEF Doomed
    <3> QED BY <1>1, <2>2, <3>1, <3>2 DEF Doomed
  <2> QED BY <2>1, <2>2
<1>2. CASE RecoverRead(n)
  <2>1. task' = task /\ lease' = lease
    BY <1>2 DEF RecoverRead, dbVars
  <2>2. PICK t0 \in Tasks, w0 \in Workers :
          maint' = [maint EXCEPT ![n] = [IdleMaint EXCEPT !.pc = "recover", !.task = t0, !.holder = w0,
                                                  !.row = Seen(t0), !.since = WorkersOn(t0)]]
    BY <1>2 DEF RecoverRead
  <2>3. maint'[n].task = t0 /\ maint'[n].row = Seen(t0)
    BY <1>0, <2>2 DEF IdleMaint
  <2>4. Seen(t).status = task[t].status
    BY <1>0 DEF Seen, TaskRow
  <2>5. \A m \in Maintainers, w \in Workers : Doomed(m, t, w)' => Doomed(m, t, w)
    BY <1>0, <2>1, <2>2, <2>3, <2>4 DEF Doomed
  <2> QED BY <2>1, <2>5, StaysBacked DEF HeldBacked, Holds
<1>3. CASE RecoverUnsupported(n)
  <2>1. task' = task /\ ~RecoverRead(n)
    BY <1>3 DEF RecoverUnsupported, RecoverRead
  <2>2. ASSUME NEW w \in Workers, Holds(t, w), \A m \in Maintainers : ~Doomed(m, t, w) PROVE Holds(t, w)'
    <3>1. ~(maint[n].latest /\ maint[n].task = t /\ maint[n].holder = w)
      BY <1>3, <2>2 DEF RecoverUnsupported, Doomed
    <3>2. CASE maint[n].latest
      BY <1>0, <1>3, <2>2, <3>1, <3>2 DEF RecoverUnsupported, ExpireLease, PutLease, Holds, RecoveryPCs
    <3>3. CASE ~maint[n].latest
      BY <1>0, <1>3, <2>2, <3>1, <3>3 DEF RecoverUnsupported, ExpireLease, PutLease, Holds, RecoveryPCs
    <3> QED BY <3>2, <3>3
  <2> QED BY <1>1, <2>1, <2>2, StaysBacked DEF HeldBacked
<1>4. CASE RequeueCommit(n) \/ DeadLetterCommit(n)
  <2>1. maint[n].task \in Tasks /\ ~RecoverRead(n)
    BY <1>0, <1>4 DEF RequeueCommit, DeadLetterCommit, RecoveryPCs, RecoverRead
  <2>2. t # maint[n].task
    BY <1>0, <1>4, <2>1 DEF RequeueCommit, DeadLetterCommit, SetStatusRetry, SetStatus, Recoverable,
       TaskRow
  <2>3. task'[t] = task[t]
    BY <1>0, <1>4, <2>2 DEF RequeueCommit, DeadLetterCommit, SetStatusRetry, SetStatus
  <2>4. lease'[t] = lease[t]
    BY <1>0, <1>4, <2>2 DEF RequeueCommit, DeadLetterCommit, ExpireLease, PutLease
  <2> QED BY <1>1, <2>1, <2>3, <2>4, StaysBacked DEF HeldBacked, Holds
<1>5. ASSUME ~RecoverRead(n), lease' = lease, task'[t].status = task[t].status PROVE Backed(t)'
  BY <1>1, <1>5, StaysBacked DEF HeldBacked, Holds
<1>6. CASE OrphanCommit(n)
  <2>1. ~RecoverRead(n) /\ lease' = lease /\ maint[n].task \in Tasks
    BY <1>6 DEF OrphanCommit, leaseVars, RecoverRead, Shape, FramesOK, MaintFrameOK, MaintFrames
  <2>2. task'[t].status = task[t].status
    BY <1>0, <1>6, <2>1 DEF OrphanCommit, SetStatusRetry, SetStatus, Recoverable, TaskRow
  <2> QED BY <1>5, <2>1, <2>2
<1>7. CASE /\ ~RecoverRead(n)
           /\ \/ ListDue(n) \/ DropDispatch(n) \/ PublishDue(n) \/ PublishDueAck(n) \/ CleanCancelled(n)
              \/ RecoverForRetry(n) \/ RecoverToDeadLetter(n) \/ ReconcileLoad(n) \/ ReconcileCheck(n)
              \/ ReconcileTerminal(n) \/ ReconcileFailed(n) \/ ReconcileOrphan(n) \/ MaintCrash(n)
  BY <1>5, <1>7 DEF ListDue, DropDispatch, PublishDue, PublishDueAck, CleanCancelled, RecoverForRetry,
     RecoverToDeadLetter, ReconcileLoad, ReconcileCheck, ReconcileTerminal, ReconcileFailed, ReconcileOrphan,
     MaintCrash, dbVars, leaseVars
<1> QED
  BY <1>2, <1>3, <1>4, <1>6, <1>7 DEF MaintStep

\* A request never makes a task held, nor touches a lease row.
LEMMA ApiBacks ==
    ASSUME Shape, HeldBacked, NEW r \in Requests, RequestRead(r) \/ RequestStep(r) \/ RequestCrash(r),
           NEW t \in Tasks, task'[t].status \in Recoverable
    PROVE  Backed(t)'
<1> USE DEF AAt, ATask, ARow
<1>0. /\ api[r].pc # "idle" => api[r].task \in Tasks
      /\ task \in [Tasks -> TaskRow]
  BY DEF Shape, RowsOK, FramesOK, ApiFrameOK, ApiFrames
<1>1. maint' = maint /\ lease' = lease
  BY ApiLocal
<1>2. ASSUME task'[t].status = task[t].status PROVE Backed(t)'
  BY <1>1, <1>2, StaysBacked DEF HeldBacked, Holds, Doomed
<1>3. CASE QueueTask(r) \/ PlaceInReview(r) \/ RetryTask(r)
  BY <1>0, <1>2, <1>3 DEF QueueTask, PlaceInReview, RetryTask, SetStatus, SetStatusMeta, Recoverable,
     TaskRow
<1>4. CASE CancelTask(r)
  BY <1>0, <1>2, <1>4 DEF CancelTask, SetStatusMeta, Recoverable, TaskRow
<1>5. CASE CancelCleanup(r) \/ HookRead(r) \/ HookPublish(r) \/ HookAck(r) \/ RequestRead(r) \/ RequestCrash(r)
  BY <1>2, <1>5 DEF CancelCleanup, HookRead, HookPublish, HookAck, RequestRead, RequestCrash, dbVars
<1> QED
  BY <1>3, <1>4, <1>5 DEF RequestStep

\* A claimed or running task always has a claimed or active lease row, so
\* recover_expired_leases, which starts from the lease rows, will find it when its
\* worker dies.  A pass may expire a row that it read before the task was claimed
\* again; it then ends a row of a worker that is off the task.
THEOREM HeldAlwaysRecoverable == ASSUME Timely PROVE Spec => []HeldIsRecoverable
<1>1. Init => HeldBacked
  BY DEF Init, HeldBacked, NewTask, Recoverable
<1>2. Shape /\ StartInv /\ HeldBacked /\ [Next]_vars => HeldBacked'
  <2> SUFFICES ASSUME Shape, StartInv, HeldBacked, [Next]_vars, NEW t \in Tasks,
       task'[t].status \in Recoverable
               PROVE  Backed(t)'
    BY DEF HeldBacked
  <2>1. CASE UNCHANGED vars
    BY <2>1, StaysBacked DEF HeldBacked, vars, Holds, Doomed
  <2>2. ASSUME NEW u \in Tasks, LeaseKeyExpires(u) PROVE Backed(t)'
    BY <2>2, StaysBacked DEF HeldBacked, LeaseKeyExpires, dbVars, procVars, Holds, Doomed
  <2> QED BY <2>1, <2>2, WorkerBacks, MaintBacks, ApiBacks DEF Next
<1>3. HeldBacked => HeldIsRecoverable
  BY DEF HeldBacked, Backed, Holds, HeldIsRecoverable, ActiveLease
<1> QED BY <1>1, <1>2, <1>3, ShapeInvariant, StartInvariant, PTL DEF Spec

-----------------------------------------------------------------------------
\* Without operator retries every dispatch, and every copy of one that a process
\* has read, belongs to the first generation.
FirstGeneration ==
    /\ \A t \in Tasks : dispatch[t].gen = 0
    /\ \A m \in Maintainers : maint[m].disp.gen = 0
    /\ \A r \in Requests : api[r].disp.gen = 0

\* Cancelling, publishing, acknowledging and dropping a dispatch keep its generation.
LEMMA GenerationValues ==
    ASSUME NEW d \in DispatchRow, d.gen = 0
    PROVE  /\ CancelledDispatch(d).gen = 0
           /\ [d EXCEPT !.status = "published", !.sent = TRUE].gen = 0
           /\ [d EXCEPT !.status = "cancelled", !.cleaned = ~d.sent].gen = 0
           /\ [d EXCEPT !.cleaned = TRUE].gen = 0
           /\ NewDispatch("pending").gen = 0 /\ NewDispatch("held_review").gen = 0
  BY DEF CancelledDispatch, DispatchRow, NewDispatch, NoDispatch

\* The writes of dispatch rows keep the first generation.
LEMMA WriteGeneration ==
    ASSUME Shape, FirstGeneration, NEW t \in Tasks
    PROVE  /\ \A d : d.gen = 0 /\ dispatch' = [dispatch EXCEPT ![t] = d] => \A u \in Tasks : dispatch'[u].gen = 0
           /\ \A read, new \in DispatchRow :
                new.gen = 0 /\ PutDispatch(t, read, new) => \A u \in Tasks : dispatch'[u].gen = 0
           /\ ReconcileCancelled(t) \/ CleanupAfterCancel(t) => \A u \in Tasks : dispatch'[u].gen = 0
<1>0. dispatch[t] \in DispatchRow /\ dispatch[t].gen = 0 /\ dispatch \in [Tasks -> DispatchRow]
  BY DEF Shape, RowsOK, FirstGeneration
<1>1. ASSUME NEW d, d.gen = 0, dispatch' = [dispatch EXCEPT ![t] = d] PROVE \A u \in Tasks : dispatch'[u].gen = 0
  BY <1>0, <1>1 DEF FirstGeneration
<1>2. ASSUME NEW read \in DispatchRow, NEW new \in DispatchRow, new.gen = 0, PutDispatch(t, read, new)
      PROVE  \A u \in Tasks : dispatch'[u].gen = 0
  <2>1. Flush(dispatch[t], read, new).gen = 0
    BY <1>0, <1>2, FlushFields
  <2> QED BY <1>1, <1>2, <2>1 DEF PutDispatch
<1>3. ASSUME ReconcileCancelled(t) \/ CleanupAfterCancel(t) PROVE \A u \in Tasks : dispatch'[u].gen = 0
  <2> DEFINE d == [dispatch[t] EXCEPT !.cleaned = TRUE]
  <2>1. dispatch' = dispatch \/ dispatch' = [dispatch EXCEPT ![t] = d]
    BY <1>3 DEF CleanupAfterCancel, ReconcileCancelled
  <2>2. d.gen = 0
    BY <1>0, GenerationValues
  <2> HIDE DEF d
  <2> QED BY <1>1, <2>1, <2>2 DEF FirstGeneration
<1> QED BY <1>1, <1>2, <1>3

\* Only an operator retry (retry_task) begins a new generation of a dispatch.
LEMMA FirstGenerationStep ==
    ASSUME "retry" \notin Ops, Shape, FirstGeneration, Next
    PROVE  FirstGeneration'
<1> DEFINE Rows == \A t \in Tasks : dispatch'[t].gen = 0
<1>0. ASSUME dispatch' = dispatch PROVE Rows
  BY <1>0 DEF FirstGeneration
<1>1. ASSUME NEW w \in Workers, WorkerStep(w) \/ WorkerCrash(w) PROVE FirstGeneration'
  <2>1. /\ \A m \in Maintainers : maint'[m].disp = maint[m].disp
        /\ \A r \in Requests : api'[r].disp = api[r].disp
    <3>1. CASE CommitClaim(w)
      BY <3>1 DEF CommitClaim, InsertLease, Shape, FramesOK, MaintFrames, ApiFrames
    <3>2. CASE ClaimTask(w)
      BY <3>2, ClaimSeen DEF ClaimTask
    <3> QED BY <1>1, <3>1, <3>2, WorkerLocal
  <2>2. Rows
    <3>0. worker[w].pc # "idle" => Task(w) \in Tasks /\ dispatch[Task(w)] \in DispatchRow /\ dispatch[Task(w)].gen = 0
      BY RowHasMeta DEF Shape, RowsOK, FirstGeneration
    <3>1. CASE CancelStale(w)
      BY <3>0, <3>1, DispatchValues, GenerationValues, WriteGeneration DEF CancelStale, At
    <3>2. CASE StaleCleanup(w)
      BY <3>0, <3>2, WriteGeneration DEF StaleCleanup, At
    <3>3. CASE \/ ClaimTask(w) \/ ClaimRead(w) \/ DiscardTerminal(w) \/ StaleQueue(w)
               \/ CommitClaim(w) \/ CommitClaimFails(w) \/ Compensate(w) \/ Heartbeat(w)
               \/ StartExecution(w) \/ HeartbeatRefused(w) \/ StartFails(w) \/ Release(w) \/ ReleaseCommit(w)
      BY <1>0, <3>3 DEF ClaimTask, ClaimRead, DiscardTerminal, StaleQueue, CommitClaim,
         CommitClaimFails, Compensate,
         Heartbeat, StartExecution, HeartbeatRefused, StartFails, Release, ReleaseCommit, dbVars
    <3>4. CASE \/ HandlerReturns(w) \/ HandlerFails(w) \/ CompleteRead(w) \/ CompleteFails(w) \/ CompleteCommit(w)
               \/ CompleteQueue(w) \/ BlockRead(w) \/ BlockCommit(w) \/ FailRead(w) \/ FailCommit(w)
               \/ FailQueue(w) \/ WorkerCrash(w)
      BY <1>0, <3>4 DEF HandlerReturns, HandlerFails, CompleteRead, CompleteFails, CompleteCommit,
         CompleteQueue,
         BlockRead, BlockCommit, FailRead, FailCommit, FailQueue, WorkerCrash, dbVars
    <3> QED BY <1>1, <3>1, <3>2, <3>3, <3>4 DEF WorkerStep
  <2> QED BY <2>1, <2>2 DEF FirstGeneration
<1>2. ASSUME NEW m \in Maintainers, MaintStep(m) \/ MaintCrash(m) PROVE FirstGeneration'
  <2> USE DEF MAt, MTask
  <2>0. /\ maint \in [Maintainers -> MaintFrames] /\ maint[m].disp \in DispatchRow /\ maint[m].disp.gen = 0
        /\ maint[m].pc # "idle" => maint[m].task \in Tasks
    BY DEF Shape, FramesOK, MaintFrameOK, MaintFrames, FirstGeneration
  <2>1. maint'[m].disp.gen = 0
    <3>1. CASE ListDue(m)
      <4>1. PICK t \in Tasks : maint' = [maint EXCEPT ![m] = [IdleMaint EXCEPT !.pc = "due", !.task = t, !.disp = dispatch[t]]]
        BY <3>1 DEF ListDue
      <4>2. maint'[m].disp = dispatch[t]
        BY <2>0, <4>1 DEF IdleMaint
      <4> QED BY <4>2 DEF FirstGeneration
    <3>2. CASE RecoverRead(m) \/ ReconcileLoad(m)
      <4>1. IdleMaint.disp.gen = 0
        BY DEF IdleMaint, NoDispatch
      <4> DEFINE f(t, w) == [IdleMaint EXCEPT !.pc = "recover", !.task = t, !.holder = w, !.row = Seen(t), !.since = WorkersOn(t)]
                 g(t) == [IdleMaint EXCEPT !.pc = "loaded", !.task = t, !.row = Seen(t), !.since = WorkersOn(t)]
      <4>2. \/ \E t \in Tasks, w \in Workers : maint' = [maint EXCEPT ![m] = f(t, w)]
            \/ \E t \in Tasks : maint' = [maint EXCEPT ![m] = g(t)]
        BY <3>2 DEF RecoverRead, ReconcileLoad
      <4>3. \A t, w : f(t, w).disp = IdleMaint.disp /\ g(t).disp = IdleMaint.disp
        BY DEF IdleMaint
      <4> HIDE DEF f, g
      <4> QED BY <2>0, <4>1, <4>2, <4>3
    <3>a. MDone(m) => maint'[m].disp.gen = 0
      BY <2>0 DEF MDone, IdleMaint, NoDispatch
    <3>b. \A pc : MGoto(m, pc) => maint'[m].disp.gen = 0
      BY <2>0 DEF MGoto, MaintFrames
    <3>3. CASE CleanCancelled(m)
      BY <2>0, <3>3 DEF CleanCancelled, procVars
    <3>4. CASE \/ DropDispatch(m) \/ PublishDueAck(m) \/ RecoverUnsupported(m) \/ RequeueCommit(m) \/ DeadLetterCommit(m)
               \/ ReconcileTerminal(m) \/ ReconcileFailed(m) \/ OrphanCommit(m) \/ MaintCrash(m)
      BY <3>a, <3>4 DEF DropDispatch, PublishDueAck, RecoverUnsupported, RequeueCommit,
         DeadLetterCommit,
         ReconcileTerminal, ReconcileFailed, OrphanCommit, MaintCrash
    <3>5. CASE \/ PublishDue(m) \/ ReconcileCheck(m) \/ ReconcileOrphan(m) \/ RecoverForRetry(m) \/ RecoverToDeadLetter(m)
      BY <3>a, <3>b, <3>5 DEF PublishDue, ReconcileCheck, ReconcileOrphan, RecoverForRetry,
         RecoverToDeadLetter
    <3> QED BY <1>2, <3>1, <3>2, <3>3, <3>4, <3>5 DEF MaintStep
  <2>2. Rows
    <3>1. CASE DropDispatch(m) \/ PublishDueAck(m)
      BY <2>0, <3>1, DispatchValues, GenerationValues, WriteGeneration DEF DropDispatch,
         PublishDueAck, AckPublished
    <3>2. CASE CleanCancelled(m)
      BY <3>2, WriteGeneration DEF CleanCancelled
    <3>3. CASE \/ ListDue(m) \/ PublishDue(m) \/ RecoverRead(m) \/ RecoverUnsupported(m) \/ RecoverForRetry(m)
               \/ RequeueCommit(m) \/ RecoverToDeadLetter(m) \/ DeadLetterCommit(m) \/ ReconcileLoad(m) \/ ReconcileCheck(m)
               \/ ReconcileTerminal(m) \/ ReconcileFailed(m) \/ ReconcileOrphan(m) \/ OrphanCommit(m) \/ MaintCrash(m)
      BY <1>0, <3>3 DEF ListDue, PublishDue, RecoverRead, RecoverUnsupported, RecoverForRetry,
         RequeueCommit,
         RecoverToDeadLetter, DeadLetterCommit, ReconcileLoad, ReconcileCheck, ReconcileTerminal, ReconcileFailed,
         ReconcileOrphan, OrphanCommit, MaintCrash, dbVars
    <3> QED BY <1>2, <3>1, <3>2, <3>3 DEF MaintStep
  <2>3. api' = api /\ \A n \in Maintainers \ {m} : maint'[n] = maint[n]
    BY <1>2, MaintLocal
  <2> QED BY <2>1, <2>2, <2>3 DEF FirstGeneration
<1>3. ASSUME NEW r \in Requests, RequestRead(r) \/ RequestStep(r) \/ RequestCrash(r) PROVE FirstGeneration'
  <2> USE DEF AAt, ATask
  <2>0. /\ api \in [Requests -> ApiFrames] /\ api[r].disp \in DispatchRow /\ api[r].disp.gen = 0
        /\ api[r].pc # "idle" => api[r].task \in Tasks
        /\ api[r].op # "retry"
    BY DEF Shape, FramesOK, ApiFrameOK, ApiFrames, FirstGeneration
  <2>a. ADone(r) => \A q \in Requests : api'[q].disp.gen = 0
    BY <2>0 DEF ADone, IdleApi, NoDispatch, FirstGeneration
  <2>b. \A pc : AGoto(r, pc) => \A q \in Requests : api'[q].disp.gen = 0
    BY <2>0 DEF AGoto, ApiFrames, FirstGeneration
  <2>1. \A q \in Requests : api'[q].disp.gen = 0
    <3>1. CASE RequestRead(r)
      BY <2>0, <3>1 DEF RequestRead, FirstGeneration
    <3>2. CASE HookRead(r)
      <4>1. CASE api' = [api EXCEPT ![r] = [IdleApi EXCEPT !.pc = "send", !.task = ATask(r), !.disp = dispatch[ATask(r)]]]
        BY <2>0, <3>2, <4>1 DEF HookRead, IdleApi, FirstGeneration
      <4> QED BY <2>a, <3>2, <4>1 DEF HookRead
    <3>3. CASE \/ QueueTask(r) \/ PlaceInReview(r) \/ RetryTask(r) \/ CancelTask(r) \/ CancelCleanup(r)
               \/ HookPublish(r) \/ HookAck(r) \/ RequestCrash(r)
      BY <2>a, <2>b, <3>3 DEF QueueTask, Admit, PlaceInReview, RetryTask, CancelTask, CancelCleanup,
         HookPublish,
         HookAck, RequestCrash
    <3> QED BY <1>3, <3>1, <3>2, <3>3 DEF RequestStep
  <2>2. Rows
    <3>1. CASE QueueTask(r) \/ PlaceInReview(r)
      BY <1>0, <2>0, <3>1, DispatchValues, GenerationValues, WriteGeneration DEF QueueTask, Admit,
         PlaceInReview
    <3>2. CASE RetryTask(r)
      BY <2>0, <3>2 DEF RetryTask
    <3>3. CASE CancelTask(r)
      BY <1>0, <2>0, <3>3, DispatchValues, GenerationValues, WriteGeneration DEF CancelTask
    <3>4. CASE CancelCleanup(r)
      BY <2>0, <3>4, WriteGeneration DEF CancelCleanup
    <3>5. CASE HookAck(r)
      BY <2>0, <3>5, DispatchValues, GenerationValues, WriteGeneration DEF HookAck, AckPublished
    <3>6. CASE RequestRead(r) \/ HookRead(r) \/ HookPublish(r) \/ RequestCrash(r)
      BY <1>0, <3>6 DEF RequestRead, HookRead, HookPublish, RequestCrash, dbVars
    <3> QED BY <1>3, <3>1, <3>2, <3>3, <3>4, <3>5, <3>6 DEF RequestStep
  <2> QED BY <1>3, <2>1, <2>2, ApiLocal DEF FirstGeneration
<1>4. ASSUME NEW t \in Tasks, LeaseKeyExpires(t) PROVE FirstGeneration'
  BY <1>4 DEF LeaseKeyExpires, dbVars, procVars, FirstGeneration
<1> QED BY <1>1, <1>2, <1>3, <1>4 DEF Next

-----------------------------------------------------------------------------
\* Which steps change the status of a task, and to what.
WorkerWrites(w, t, s) ==
    /\ t = worker[w].task /\ worker[w].pc # "idle"
    /\ \/ s = "cancelled" /\ CancelStale(w)
       \/ s = "claimed" /\ CommitClaim(w)
       \/ s = "running" /\ StartExecution(w)
       \/ s = "queued" /\ ReleaseCommit(w)
       \/ s = "completed" /\ CompleteCommit(w)
       \/ s = "blocked" /\ BlockCommit(w)
       \/ s = "failed" /\ FailCommit(w)

\* The maintenance steps that change the status of a task, and to what.
MaintWrites(m, t, s) ==
    /\ t = maint[m].task /\ maint[m].pc # "idle"
    /\ \/ s = "queued" /\ (RequeueCommit(m) \/ OrphanCommit(m))
       \/ s = "dead_lettered" /\ DeadLetterCommit(m)

\* The requests that change the status of a task, and to what.
ApiWrites(r, t, s) ==
    /\ t = api[r].task /\ api[r].pc = "commit"
    /\ \/ s = "queued" /\ (QueueTask(r) \/ RetryTask(r))
       \/ s = "pending_review" /\ PlaceInReview(r)
       \/ s = "cancelled" /\ CancelTask(r) /\ ARow(r).status \notin {"running", "claimed"}

\* An UPDATE of a task row leaves the rows of other tasks alone.
LEMMA WriteOne ==
    ASSUME task \in [Tasks -> TaskRow], NEW t \in Tasks, NEW u \in Tasks, NEW s
    PROVE  /\ SetStatus(u, s) \/ (\E meta : SetStatusMeta(u, s, meta)) =>
                /\ task'[t].status = IF t = u THEN s ELSE task[t].status
                /\ task'[t].retry = task[t].retry
           /\ \A n : SetStatusRetry(u, s, n) =>
                /\ task'[t].status = IF t = u THEN s ELSE task[t].status
                /\ task'[t].retry = IF t = u THEN n ELSE task[t].retry
<1>1. ASSUME SetStatus(u, s)
      PROVE  task'[t].status = (IF t = u THEN s ELSE task[t].status) /\ task'[t].retry = task[t].retry
  BY <1>1 DEF SetStatus, TaskRow
<1>2. ASSUME NEW meta, SetStatusMeta(u, s, meta)
      PROVE  task'[t].status = (IF t = u THEN s ELSE task[t].status) /\ task'[t].retry = task[t].retry
  BY <1>2 DEF SetStatusMeta, TaskRow
<1>3. ASSUME NEW n, SetStatusRetry(u, s, n)
      PROVE  /\ task'[t].status = (IF t = u THEN s ELSE task[t].status)
             /\ task'[t].retry = (IF t = u THEN n ELSE task[t].retry)
  BY <1>3 DEF SetStatusRetry, TaskRow
<1> QED BY <1>1, <1>2, <1>3

\* The handlers of a worker change a status only as WorkerWrites lists it, and never
\* the retry counter.
LEMMA WorkerStatus ==
    ASSUME Shape, NEW w \in Workers, WorkerStep(w) \/ WorkerCrash(w), NEW t \in Tasks
    PROVE  /\ task'[t].retry = task[t].retry
           /\ task'[t].status # task[t].status => WorkerWrites(w, t, task'[t].status)
<1> USE DEF At, Task
<1>0. task \in [Tasks -> TaskRow] /\ (worker[w].pc # "idle" => worker[w].task \in Tasks)
  BY RowHasMeta DEF Shape, RowsOK
<1>1. CASE CancelStale(w) \/ ReleaseCommit(w) \/ BlockCommit(w)
  BY <1>0, <1>1, WriteOne DEF CancelStale, ReleaseCommit, BlockCommit, WorkerWrites
<1>2. CASE CommitClaim(w)
  <2>1. worker[w].pc # "idle" /\ \E meta : SetStatusMeta(worker[w].task, "claimed", meta)
    BY <1>2 DEF CommitClaim
  <2> QED BY <1>0, <1>2, <2>1, WriteOne DEF WorkerWrites
<1>3. CASE StartExecution(w)
  BY <1>0, <1>3, WriteOne DEF StartExecution, WorkerWrites
<1>4. CASE CompleteCommit(w)
  BY <1>0, <1>4, WriteOne DEF CompleteCommit, WorkerWrites
<1>5. CASE FailCommit(w)
  BY <1>0, <1>5, WriteOne DEF FailCommit, WorkerWrites
<1>6. CASE \/ ClaimTask(w) \/ ClaimRead(w) \/ DiscardTerminal(w) \/ StaleQueue(w) \/ StaleCleanup(w)
           \/ CommitClaimFails(w) \/ Compensate(w) \/ Heartbeat(w) \/ HeartbeatRefused(w) \/ StartFails(w)
           \/ Release(w) \/ HandlerReturns(w) \/ HandlerFails(w) \/ CompleteRead(w) \/ CompleteFails(w)
           \/ CompleteQueue(w) \/ BlockRead(w) \/ FailRead(w) \/ FailQueue(w) \/ WorkerCrash(w)
  <2>1. task' = task
    BY <1>6 DEF ClaimTask, ClaimRead, DiscardTerminal, StaleQueue, StaleCleanup, CommitClaimFails,
       Compensate,
       Heartbeat, HeartbeatRefused, StartFails, Release, HandlerReturns, HandlerFails, CompleteRead, CompleteFails,
       CompleteQueue, BlockRead, FailRead, FailQueue, WorkerCrash, dbVars
  <2> QED BY <2>1
<1> QED BY <1>1, <1>2, <1>3, <1>4, <1>5, <1>6 DEF WorkerStep

\* Maintenance changes a status only as MaintWrites lists it.
LEMMA MaintStatus ==
    ASSUME Shape, NEW m \in Maintainers, MaintStep(m) \/ MaintCrash(m), NEW t \in Tasks
    PROVE  /\ task'[t].status # task[t].status => MaintWrites(m, t, task'[t].status)
           /\ task'[t].retry # task[t].retry =>
                /\ t = maint[m].task /\ task'[t].retry = maint[m].row.retry + 1
                /\ RequeueCommit(m) \/ (OrphanCommit(m) /\ maint[m].row.status = "running")
<1> USE DEF MAt, MTask, MRow
<1>0. task \in [Tasks -> TaskRow] /\ (maint[m].pc # "idle" => maint[m].task \in Tasks)
  BY DEF Shape, RowsOK, FramesOK, MaintFrameOK, MaintFrames
<1>1. CASE RequeueCommit(m)
  BY <1>0, <1>1, WriteOne DEF RequeueCommit, MaintWrites
<1>2. CASE DeadLetterCommit(m)
  BY <1>0, <1>2, WriteOne DEF DeadLetterCommit, MaintWrites
<1>3. CASE OrphanCommit(m)
  <2>1. CASE maint[m].row.status = "running" /\ SetStatusRetry(maint[m].task, "queued", maint[m].row.retry + 1)
    <3>1. maint[m].pc # "idle" /\ maint[m].task \in Tasks
      BY <1>0, <1>3 DEF OrphanCommit
    <3>2. /\ task'[t].status = IF t = maint[m].task THEN "queued" ELSE task[t].status
          /\ task'[t].retry = IF t = maint[m].task THEN maint[m].row.retry + 1 ELSE task[t].retry
      <4> DEFINE n == maint[m].row.retry + 1
      <4>1. SetStatusRetry(maint[m].task, "queued", n)
        BY <2>1
      <4> HIDE DEF n
      <4>2. /\ task'[t].status = IF t = maint[m].task THEN "queued" ELSE task[t].status
            /\ task'[t].retry = IF t = maint[m].task THEN n ELSE task[t].retry
        BY <1>0, <3>1, <4>1, WriteOne
      <4> QED BY <4>2 DEF n
    <3> QED BY <1>3, <2>1, <3>1, <3>2 DEF MaintWrites
  <2>2. CASE SetStatus(maint[m].task, "queued")
    BY <1>0, <1>3, <2>2, WriteOne DEF OrphanCommit, MaintWrites
  <2> QED BY <1>3, <2>1, <2>2 DEF OrphanCommit
<1>4. CASE \/ ListDue(m) \/ DropDispatch(m) \/ PublishDue(m) \/ PublishDueAck(m) \/ CleanCancelled(m)
           \/ RecoverRead(m) \/ RecoverUnsupported(m) \/ RecoverForRetry(m) \/ RecoverToDeadLetter(m)
           \/ ReconcileLoad(m) \/ ReconcileCheck(m) \/ ReconcileTerminal(m) \/ ReconcileFailed(m)
           \/ ReconcileOrphan(m) \/ MaintCrash(m)
  <2>1. task' = task
    BY <1>4 DEF ListDue, DropDispatch, PublishDue, PublishDueAck, CleanCancelled, RecoverRead,
       RecoverUnsupported,
       RecoverForRetry, RecoverToDeadLetter, ReconcileLoad, ReconcileCheck, ReconcileTerminal, ReconcileFailed,
       ReconcileOrphan, MaintCrash, dbVars
  <2> QED BY <2>1
<1> QED BY <1>1, <1>2, <1>3, <1>4 DEF MaintStep

\* Requests change a status only as ApiWrites lists it, and never the retry counter.
LEMMA ApiStatus ==
    ASSUME Shape, NEW r \in Requests, RequestRead(r) \/ RequestStep(r) \/ RequestCrash(r),
           NEW t \in Tasks
    PROVE  /\ task'[t].retry = task[t].retry
           /\ task'[t].status # task[t].status => ApiWrites(r, t, task'[t].status)
<1> USE DEF AAt, ATask
<1>0. task \in [Tasks -> TaskRow] /\ (api[r].pc # "idle" => api[r].task \in Tasks)
  BY DEF Shape, RowsOK, FramesOK, ApiFrameOK, ApiFrames
<1>1. CASE QueueTask(r)
  BY <1>0, <1>1, WriteOne DEF QueueTask, ApiWrites
<1>2. CASE PlaceInReview(r)
  BY <1>0, <1>2, WriteOne DEF PlaceInReview, ApiWrites
<1>3. CASE RetryTask(r)
  <2>1. api[r].pc = "commit" /\ \E meta : SetStatusMeta(api[r].task, "queued", meta)
    BY <1>3 DEF RetryTask
  <2> QED BY <1>0, <1>3, <2>1, WriteOne DEF ApiWrites
<1>4. CASE CancelTask(r)
  <2>1. CASE ARow(r).status \in {"running", "claimed"}
    BY <1>0, <1>4, <2>1 DEF CancelTask, TaskRow
  <2>2. CASE ARow(r).status \notin {"running", "claimed"}
    BY <1>0, <1>4, <2>2, WriteOne DEF CancelTask, ApiWrites
  <2> QED BY <2>1, <2>2
<1>5. CASE CancelCleanup(r) \/ HookRead(r) \/ HookPublish(r) \/ HookAck(r) \/ RequestRead(r) \/ RequestCrash(r)
  <2>1. task' = task
    BY <1>5 DEF CancelCleanup, HookRead, HookPublish, HookAck, RequestRead, RequestCrash, dbVars
  <2> QED BY <2>1
<1> QED BY <1>1, <1>2, <1>3, <1>4, <1>5 DEF RequestStep

-----------------------------------------------------------------------------
\* The queue keeps the dispatch key of every task that it holds, that a worker has
\* claimed, or that is completed.
KeyKept ==
    \A t \in Tasks :
        ~Q!InNeitherQueue(t) \/ WorkersOn(t) # {} \/ task[t].status = "completed" => <<t, 0>> \in dispatchKeys

\* Only a publication under a new key brings a task into the queue.
LEMMA PublicationStep ==
    ASSUME Shape, Q!TypeOK, FirstGeneration, Next, NEW t \in Tasks
    PROVE  /\ dispatchKeys \subseteq dispatchKeys'
           /\ Q!InNeitherQueue(t) /\ ~Q!InNeitherQueue(t)' =>
                <<t, 0>> \notin dispatchKeys /\ <<t, 0>> \in dispatchKeys'
<1> USE DEF Q!TypeOK, Q!InNeitherQueue
<1>1. CASE UNCHANGED queueVars
  BY <1>1 DEF queueVars
<1>2. ASSUME NEW w \in Workers, ClaimTask(w)
      PROVE  dispatchKeys' = dispatchKeys /\ (Q!InNeitherQueue(t) => Q!InNeitherQueue(t)')
  BY <1>2 DEF ClaimTask, Q!ClaimNext, Q!ClaimNextReply
<1>3. ASSUME NEW u \in Tasks, Handled(u)
      PROVE  dispatchKeys' = dispatchKeys /\ (Q!InNeitherQueue(t) => Q!InNeitherQueue(t)')
  <2>1. CASE Q!CancelPending(u) \/ Q!LeaseExpires(u) \/ Q!MoveToDeadLetter(u, NoOwner)
    BY <2>1 DEF Q!CancelPending, Q!LeaseExpires, Q!MoveToDeadLetter
  <2>2. ASSUME NEW h \in Holders, Q!Complete(u, h) \/ Q!Fail(u, h) \/ Q!MoveToDeadLetter(u, h)
        PROVE  dispatchKeys' = dispatchKeys /\ (Q!InNeitherQueue(t) => Q!InNeitherQueue(t)')
    BY <2>2 DEF Q!Complete, Q!Fail, Q!MoveToDeadLetter
  <2>3. ASSUME NEW h \in Holders, Q!Release(u, h)
        PROVE  dispatchKeys' = dispatchKeys /\ (Q!InNeitherQueue(t) => Q!InNeitherQueue(t)')
    BY <2>3 DEF Q!Release, Q!ReleaseReply, Q!OwnedProcessingReply, Q!OwnerReply
  <2>4. ASSUME NEW h \in Holders, Q!Recover(u, h)
        PROVE  dispatchKeys' = dispatchKeys /\ (Q!InNeitherQueue(t) => Q!InNeitherQueue(t)')
    BY <2>4 DEF Q!Recover, Q!RecoverReply
  <2> QED BY <1>3, <2>1, <2>2, <2>3, <2>4 DEF Handled
<1>4. ASSUME NEW u \in Tasks, NEW d \in DispatchRow, Publishes(u, d)
      PROVE  /\ dispatchKeys \subseteq dispatchKeys'
             /\ Q!InNeitherQueue(t) /\ ~Q!InNeitherQueue(t)' =>
                  <<t, 0>> \notin dispatchKeys /\ <<t, 0>> \in dispatchKeys'
  <2>1. d.gen = 0
    BY <1>4 DEF Publishes, FirstGeneration
  <2>2. Q!EnqueueIdempotent(u, <<u, 0>>)
    BY <1>4, <2>1 DEF Publishes, Publish, IdempotencyKey
  <2> QED BY <2>2 DEF Q!EnqueueIdempotent, Q!vars, Q!deadVars
<1> QED BY <1>1, <1>2, <1>3, <1>4, QueueUse

\* No step breaks KeyKept: the dispatch key (SET NX in enqueue_idempotent) outlives
\* the payload.
LEMMA KeyKeptStep ==
    ASSUME Shape, Q!TypeOK, FirstGeneration, KeyKept, Next
    PROVE  KeyKept'
<1> SUFFICES ASSUME NEW t \in Tasks,
                    (~Q!InNeitherQueue(t) \/ WorkersOn(t) # {} \/ task[t].status = "completed")'
             PROVE  <<t, 0>> \in dispatchKeys'
  BY DEF KeyKept
<1>0. /\ dispatchKeys \subseteq dispatchKeys'
      /\ Q!InNeitherQueue(t) /\ ~Q!InNeitherQueue(t)' => <<t, 0>> \in dispatchKeys'
  BY PublicationStep
<1>1. CASE ~Q!InNeitherQueue(t)'
  BY <1>0, <1>1 DEF KeyKept
<1>2. CASE WorkersOn(t)' # {}
  <2>1. PICK w \in Workers : worker'[w].task = t
    BY <1>2 DEF WorkersOn
  <2>2. CASE worker[w].task = t
    BY <1>0, <2>2 DEF KeyKept, WorkersOn
  <2>3. CASE worker[w].task # t
    <3>1. ClaimTask(w)
      <4>1. WorkerStep(w) \/ WorkerCrash(w)
        BY <2>1, <2>3, WorkerLocal, MaintLocal, ApiLocal DEF Next, LeaseKeyExpires, procVars
      <4>2. t # NoTask
        BY RuntimeAssumption DEF RuntimeAssumption
      <4> QED BY <2>1, <2>3, <4>1, <4>2, WorkerTasks
    <3>2. t \in pendingPayloads
      <4>1. PICK u \in Tasks : Q!ClaimNext(u, w) /\ worker' = [worker EXCEPT ![w].pc = "read", ![w].task = u]
        BY <3>1 DEF ClaimTask
      <4>2. u = t
        BY <2>1, <4>1 DEF Shape, FramesOK, WorkerFrames
      <4> QED BY <4>1, <4>2 DEF Q!ClaimNext, Q!ClaimNextReply
    <3> QED BY <1>0, <3>2 DEF KeyKept, Q!InNeitherQueue
  <2> QED BY <2>2, <2>3
<1>3. CASE task'[t].status = "completed"
  <2>1. task[t].status = "completed" \/ \E w \in Workers : worker[w].task = t
    BY <1>3, WorkerStatus, MaintStatus, ApiStatus DEF Next, WorkerWrites, MaintWrites, ApiWrites,
       LeaseKeyExpires, dbVars
  <2> QED BY <1>0, <2>1 DEF KeyKept, WorkersOn
<1> QED BY <1>1, <1>2, <1>3

\* Without operator retries the first dispatch keys are kept in every state.
LEMMA KeyInvariant == ASSUME "retry" \notin Ops PROVE Spec => [](FirstGeneration /\ KeyKept)
<1>1. Init => FirstGeneration /\ KeyKept
  BY RuntimeAssumption DEF RuntimeAssumption, Init, FirstGeneration, NoDispatch, IdleMaint, IdleApi,
     IdleWorker, KeyKept,
     Q!Init, Q!InNeitherQueue, WorkersOn, NewTask
<1>2. Shape /\ Q!TypeOK /\ FirstGeneration /\ KeyKept /\ [Next]_vars => (FirstGeneration /\ KeyKept)'
  <2>1. ASSUME FirstGeneration, KeyKept, UNCHANGED vars PROVE (FirstGeneration /\ KeyKept)'
    BY <2>1 DEF vars, queueVars, FirstGeneration, KeyKept, Q!InNeitherQueue, WorkersOn
  <2> QED BY <2>1, FirstGenerationStep, KeyKeptStep
<1> QED BY <1>1, <1>2, ShapeInvariant, QueueTypes, PTL DEF Spec

\* Once the payload of a completed task has left the queue nothing makes it pending
\* again: the hook of a request and publish_due may both still hold the dispatch as
\* pending, and the idempotency key makes the later publication a no-op.  Without
\* operator retries, which publish under a new key on purpose; every kind of fault,
\* any number of passes and no assumption on time.
THEOREM CompletedNeverRedelivered == ASSUME "retry" \notin Ops PROVE Spec => CompletedIsNotRedelivered
<1>1. Shape /\ Q!TypeOK /\ FirstGeneration /\ KeyKept /\ [Next]_vars =>
        [\A t \in Tasks : task[t].status = "completed" /\ Q!InNeitherQueue(t) => t \notin pendingPayloads']_vars
  <2> SUFFICES ASSUME Shape, Q!TypeOK, FirstGeneration, KeyKept, Next, NEW t \in Tasks,
                      task[t].status = "completed", Q!InNeitherQueue(t)
               PROVE  t \notin pendingPayloads'
    OBVIOUS
  <2>1. <<t, 0>> \in dispatchKeys
    BY DEF KeyKept
  <2>2. Q!InNeitherQueue(t)'
    BY <2>1, PublicationStep
  <2> QED BY <2>2 DEF Q!InNeitherQueue
<1> QED BY <1>1, KeyInvariant, ShapeInvariant, QueueTypes, PTL DEF Spec, CompletedIsNotRedelivered

-----------------------------------------------------------------------------
\* The calm setting: one maintenance pass at a time, tasks are only admitted,
\* and of the faults only the death of a worker or of an API process and a claim
\* that does not commit.  A pass that dies between the queue and the rows, or a
\* second pass at the same time, breaks these properties: see the runs.
CalmSetting ==
    /\ Timely
    /\ \A m, n \in Maintainers : m = n
    /\ Ops \subseteq {"admit"}
    /\ FaultKinds \subseteq {"worker", "request", "claim"}

\* The queue has taken the first dispatch of the task; it holds the task's payload;
\* the dispatch that an admission arms.
Published(t) == <<t, 0>> \in dispatchKeys
Live(t) == ~Q!InNeitherQueue(t)
Fresh == NewDispatch("pending")

\* Where a worker stands on a task: it works on it, or has it in hand already, or
\* is reporting an outcome that it committed.
WorkPCs == {"run", "complete", "complete_commit", "block", "block_commit", "fail", "fail_commit"}
InHandPCs == WorkPCs \cup {"heartbeat", "start"}
ReportPCs == {"complete_queue", "fail_queue", "stale_queue", "cleanup"}

\* A pass has moved the payload of a held task and not yet committed the row.
Moving(t) == \E m \in Maintainers : maint[m].task = t /\ maint[m].pc = "requeue"

\* Nobody works on the task, its payload waits in processing for a recovery from w.
Abandoned(t, w) ==
    /\ \A v \in Workers : worker[v].task # t
    /\ t \in processingPayloads
    /\ leaseKey[t] \in {w, NoOwner}

\* The row of a task, its dispatch and its payload agree.
TaskFits(t) ==
    LET s == task[t].status  d == dispatch[t] IN
    /\ s \notin {"recovering", "pending_review"}
    /\ s = "planned" => ~Published(t) /\ d.status = "none"
    /\ ~Published(t) => s \in {"planned", "queued"} /\ ~Live(t) /\ (s = "queued" => d.status = "pending")
    /\ s = "queued" /\ Published(t) => Live(t)
    /\ t \in pendingPayloads => s = "queued" \/ Moving(t)
    /\ s = "dead_lettered" => ~Live(t) /\ deadPayloads[t] = "message"
    /\ s \in Recoverable => t \notin Clarifying
    /\ d.status = "pending" => d = Fresh
    /\ d.status = "cancelled" /\ ~d.cleaned => s = "cancelled"
    /\ leaseKey[t] # MaintainerId
    /\ task[t].retry <= MaxRetries

\* A lease row is held by one worker: it works on the task, or has abandoned it, or a
\* pass is between the queue and the row of its recovery.
LeaseFits(t, w) ==
    Holds(t, w) =>
      /\ task[t].status \in Recoverable
      /\ \A v \in Workers : Holds(t, v) => v = w
      /\ \/ worker[w].task = t /\ worker[w].pc \in InHandPCs
         \/ Abandoned(t, w)
         \/ \E m \in Maintainers :
              maint[m].task = t /\ maint[m].holder = w /\ maint[m].pc \in {"requeue", "bury"}

\* A worker on the task owns its lease key, and the row has the status of its step.
WorkerFits(t, w) ==
    LET pc == worker[w].pc  s == task[t].status IN
    worker[w].task = t =>
      /\ pc \notin {"discard", "release", "release_commit"}
      /\ pc \notin ReportPCs => leaseKey[t] = w
      /\ pc \in {"read", "compensate"} => s = "queued" \/ Moving(t)
      /\ pc \in {"claim", "stale"} => s = "queued"
      /\ pc = "claim" => t \notin Clarifying
      /\ pc \in {"heartbeat", "start"} => s = "claimed"
      /\ pc \in WorkPCs => s = "running"
      /\ pc = "complete_queue" => s \in {"completed", "blocked"}
      /\ pc = "fail_queue" => s = "failed"
      /\ pc \in {"stale_queue", "cleanup"} => s = "cancelled"

\* What a pass has read of the task still holds of it, or the queue will refuse.
MaintFits(t, m) ==
    LET f == maint[m]  s == task[t].status IN
    f.task = t =>
      /\ f.pc = "due" => s # "planned" /\ f.disp = Fresh
      /\ f.pc = "ack" => Published(t) /\ f.disp = Fresh
      /\ f.pc \in RecoveryPCs => f.latest /\ Holds(t, f.holder) /\ f.row.status = s
      /\ f.pc = "recover" => Abandoned(t, f.holder)
      /\ f.pc = "requeue" =>
           Live(t) /\ \A w \in Workers : worker[w].task = t => worker[w].pc \in {"read", "compensate"}
      /\ f.pc = "bury" => ~Live(t) /\ deadPayloads[t] = "message"
      /\ f.pc \in {"loaded", "reconcile"} =>
           /\ Published(t)
           /\ f.row.status \in {"queued"} \cup Recoverable \cup (TerminalStates \ {"dead_lettered"})
           /\ \A w \in Workers : worker[w].task = t => w \in f.since
           /\ f.row.status \in Recoverable => s # "queued"
           /\ f.row.status \in TerminalStates => s = f.row.status
           /\ t \in processingPayloads /\ leaseKey[t] \notin f.since =>
                /\ s = f.row.status
                /\ f.pc = "reconcile" => s \notin Recoverable
      /\ f.pc = "orphan" => f.row.status = "queued"

\* A request in flight admits the task, or publishes what it admitted.
RequestFits(t, r) ==
    LET f == api[r]  s == task[t].status IN
    f.task = t =>
      /\ f.pc # "cleanup"
      /\ f.pc = "commit" =>
           /\ f.op = "admit" /\ s = "planned"
           /\ \A q \in Requests : api[q].task = t /\ api[q].pc = "commit" => q = r
      /\ f.pc \in {"publish", "send", "ack"} => s # "planned"
      /\ f.pc \in {"send", "ack"} => f.disp = Fresh
      /\ f.pc = "ack" => Published(t)

\* All that concerns one task, and the inductive invariant of the calm setting.
CalmAt(t) ==
    /\ TaskFits(t)
    /\ \A w \in Workers : LeaseFits(t, w) /\ WorkerFits(t, w)
    /\ \A m \in Maintainers : MaintFits(t, m)
    /\ \A r \in Requests : RequestFits(t, r)

Calm == \A t \in Tasks : CalmAt(t)

-----------------------------------------------------------------------------
\* A step that leaves everything about a task as it is leaves it calm.
SameWorkers(t) == \A w \in Workers : worker'[w] = worker[w] \/ t \notin {worker[w].task, worker'[w].task}
SameMaints(t) == \A m \in Maintainers : maint'[m] = maint[m] \/ t \notin {maint[m].task, maint'[m].task}
SameRequests(t) == \A r \in Requests : api'[r] = api[r] \/ t \notin {api[r].task, api'[r].task}
SameQueue(t) ==
    /\ leaseKey'[t] = leaseKey[t] /\ deadPayloads'[t] = deadPayloads[t]
    /\ t \in pendingPayloads' <=> t \in pendingPayloads
    /\ t \in processingPayloads' <=> t \in processingPayloads
    /\ <<t, 0>> \in dispatchKeys' <=> <<t, 0>> \in dispatchKeys
SameRows(t) == task'[t] = task[t] /\ lease'[t] = lease[t] /\ dispatch'[t] = dispatch[t]

Untouched(t) == SameRows(t) /\ SameQueue(t) /\ SameWorkers(t) /\ SameMaints(t) /\ SameRequests(t)

\* A step that does not concern a task keeps what the invariant says of it.
LEMMA UntouchedStays ==
    ASSUME NEW t \in Tasks, CalmAt(t), Untouched(t)
    PROVE  CalmAt(t)'
<1> USE DEF Untouched, SameRows, SameQueue, CalmAt
<1>1. /\ Published(t)' = Published(t) /\ Live(t)' = Live(t) /\ Moving(t)' = Moving(t)
      /\ \A w : Holds(t, w)' = Holds(t, w) /\ Abandoned(t, w)' = Abandoned(t, w)
  BY DEF SameWorkers, SameMaints, Published, Live, Q!InNeitherQueue, Moving, Holds, Abandoned
<1>2. TaskFits(t)'
  BY <1>1 DEF TaskFits
<1>3. ASSUME NEW w \in Workers PROVE LeaseFits(t, w)'
  BY <1>1 DEF LeaseFits, SameWorkers, SameMaints
<1>4. ASSUME NEW w \in Workers PROVE WorkerFits(t, w)'
  BY <1>1 DEF WorkerFits, SameWorkers
<1>5. ASSUME NEW m \in Maintainers PROVE MaintFits(t, m)'
  <2>1. CASE maint'[m].task = t
    <3>1. maint'[m] = maint[m]
      BY <2>1 DEF SameMaints
    <3>2. \A w \in Workers : worker'[w].task = t => worker'[w] = worker[w]
      BY DEF SameWorkers
    <3>3. MaintFits(t, m)
      OBVIOUS
    <3> HIDE DEF CalmAt
    <3> QED BY <1>1, <2>1, <3>1, <3>2, <3>3 DEF MaintFits
  <2> QED BY <2>1 DEF MaintFits
<1>6. ASSUME NEW r \in Requests PROVE RequestFits(t, r)'
  BY <1>1 DEF RequestFits, SameRequests
<1> QED BY <1>2, <1>3, <1>4, <1>5, <1>6

-----------------------------------------------------------------------------
\* A script on the queue touches what the queue holds of one task.
LEMMA OtherQueue ==
    ASSUME Q!TypeOK, NEW u \in Tasks, NEW t \in Tasks, u # t,
           Handled(u) \/ (\E h \in Holders : Q!ClaimNext(u, h)) \/ (\E d : Publish(u, d))
    PROVE  SameQueue(t)
<1> USE DEF SameQueue, Q!TypeOK
<1>1. CASE Handled(u)
  BY <1>1 DEF Handled, Q!CancelPending, Q!LeaseExpires, Q!Complete, Q!Fail, Q!Release, Q!Recover,
     Q!MoveToDeadLetter, Q!DelLease, Q!SetLease, Q!deadVars
<1>2. ASSUME NEW h \in Holders, Q!ClaimNext(u, h) PROVE SameQueue(t)
  BY <1>2 DEF Q!ClaimNext, Q!SetLease, Q!deadVars
<1>3. ASSUME NEW d, Publish(u, d) PROVE SameQueue(t)
  BY <1>3 DEF Publish, queueVars, Q!vars, Q!RetryDeadLetter, Q!EnqueueIdempotent, Q!deadVars,
     IdempotencyKey
<1> QED BY <1>1, <1>2, <1>3

\* A step that leaves the Redis keys alone leaves those of each task alone.
LEMMA SameQueueVars == ASSUME UNCHANGED queueVars, NEW t PROVE SameQueue(t)
  BY DEF queueVars, SameQueue

\* The rows that a worker's step writes are those of its task.
LEMMA WorkerRows ==
    ASSUME Shape, NEW w \in Workers, WorkerStep(w) \/ WorkerCrash(w), NEW t \in Tasks,
           t # worker[w].task
    PROVE  SameRows(t)
<1> USE DEF At, Task, Shape, RowsOK, SameRows, dbVars, leaseVars
<1>1. CASE CommitClaim(w)
  BY <1>1 DEF CommitClaim, SetStatusMeta, InsertLease, PutLease
<1>2. CASE \/ Heartbeat(w) \/ ReleaseCommit(w) \/ CompleteCommit(w) \/ BlockCommit(w) \/ FailCommit(w) \/ StartExecution(w)
  BY <1>2 DEF Heartbeat, ReleaseCommit, CompleteCommit, BlockCommit, FailCommit, StartExecution,
     SetStatus, SetStatusMeta, PutLease
<1>3. CASE CancelStale(w) \/ StaleCleanup(w)
  BY <1>3 DEF CancelStale, StaleCleanup, SetStatus, PutDispatch, CleanupAfterCancel, ReconcileCancelled
<1>4. CASE \/ ClaimTask(w) \/ ClaimRead(w) \/ DiscardTerminal(w) \/ StaleQueue(w)
           \/ CommitClaimFails(w) \/ Compensate(w) \/ HeartbeatRefused(w) \/ StartFails(w) \/ Release(w)
  BY <1>4 DEF ClaimTask, ClaimRead, DiscardTerminal, StaleQueue, CommitClaimFails, Compensate,
     HeartbeatRefused, StartFails, Release
<1>5. CASE \/ HandlerReturns(w) \/ HandlerFails(w) \/ CompleteRead(w) \/ CompleteFails(w)
           \/ CompleteQueue(w) \/ BlockRead(w) \/ FailRead(w) \/ FailQueue(w) \/ WorkerCrash(w)
  BY <1>5 DEF HandlerReturns, HandlerFails, CompleteRead, CompleteFails, CompleteQueue, BlockRead,
     FailRead, FailQueue, WorkerCrash
<1> QED BY <1>1, <1>2, <1>3, <1>4, <1>5 DEF WorkerStep

\* A handler of a worker concerns its task only.
LEMMA WorkerElsewhere ==
    ASSUME Shape, Q!TypeOK, NEW w \in Workers, WorkerStep(w) \/ WorkerCrash(w),
           NEW t \in Tasks, t # worker[w].task, t # worker'[w].task
    PROVE  Untouched(t)
<1>1. SameRows(t)
  BY WorkerRows
<1>2. SameWorkers(t)
  BY WorkerLocal DEF SameWorkers
<1>3. SameQueue(t)
  <2>1. CASE ClaimTask(w)
    <3>1. PICK u \in Tasks : Q!ClaimNext(u, w) /\ worker' = [worker EXCEPT ![w].pc = "read", ![w].task = u]
      BY <2>1 DEF ClaimTask
    <3>2. u # t /\ w \in Holders
      BY <3>1 DEF Shape, FramesOK, WorkerFrames, Holders
    <3> QED BY <3>1, <3>2, OtherQueue
  <2>2. CASE UNCHANGED queueVars
    BY <2>2, SameQueueVars
  <2>3. CASE worker[w].task \in Tasks /\ Handled(worker[w].task)
    BY <2>3, OtherQueue
  <2> QED BY <2>1, <2>2, <2>3, WorkerQueueUse DEF Shape
<1>4. SameMaints(t) /\ SameRequests(t)
  <2>1. CASE CommitClaim(w)
    <3>1. ASSUME NEW m \in Maintainers PROVE maint'[m] = maint[m] \/ t \notin {maint[m].task, maint'[m].task}
      <4>0. maint[m] \in MaintFrames
        BY DEF Shape, FramesOK
      <4>1. maint'[m] = [maint[m] EXCEPT !.latest = @ /\ <<maint[m].task, maint[m].holder>> # <<worker[w].task, w>>]
        BY <2>1 DEF CommitClaim, InsertLease, Task
      <4>2. CASE maint[m].task = t
        <5>1. <<maint[m].task, maint[m].holder>> # <<worker[w].task, w>>
          BY <4>2
        <5>2. maint'[m] = [maint[m] EXCEPT !.latest = maint[m].latest]
          BY <4>0, <4>1, <5>1 DEF MaintFrames
        <5> QED BY <4>0, <5>2 DEF MaintFrames
      <4>3. maint'[m].task = maint[m].task
        BY <2>1, InsertForgets
      <4> QED BY <4>2, <4>3
    <3>2. ASSUME NEW r \in Requests PROVE api'[r] = api[r] \/ t \notin {api[r].task, api'[r].task}
      <4>1. api[r] \in ApiFrames
        BY DEF Shape, FramesOK
      <4>2. api'[r] = IF api[r].task = Task(w) /\ api[r].row.meta.ref = w
                        THEN [api[r] EXCEPT !.row.meta.ref = NoOwner] ELSE api[r]
        BY <2>1 DEF CommitClaim, InsertLease
      <4> QED BY <4>1, <4>2 DEF ApiFrames, Task
    <3> QED BY <3>1, <3>2 DEF SameMaints, SameRequests
  <2>2. CASE ClaimTask(w)
    <3>1. \A m \in Maintainers : maint[m].task = t => maint'[m] = maint[m]
      BY <2>2, ClaimSeen
    <3>2. \A m \in Maintainers : maint'[m].task = maint[m].task
      BY <2>2, ClaimSeen
    <3>3. api' = api
      BY <2>2 DEF ClaimTask
    <3> QED BY <3>1, <3>2, <3>3 DEF SameMaints, SameRequests
  <2> QED BY <2>1, <2>2, WorkerLocal DEF SameMaints, SameRequests
<1> QED BY <1>1, <1>2, <1>3, <1>4 DEF Untouched

\* The clean-up of a cancelled dispatch concerns its task only.
LEMMA CleanupRows ==
    ASSUME Shape, NEW u \in Tasks, NEW t \in Tasks, u # t,
           ReconcileCancelled(u) \/ CleanupAfterCancel(u)
    PROVE  dispatch'[t] = dispatch[t]
  BY DEF ReconcileCancelled, CleanupAfterCancel, Shape, RowsOK

\* A maintenance step concerns the task that it reads or has read only.
LEMMA MaintElsewhere ==
    ASSUME Shape, Q!TypeOK, NEW m \in Maintainers, MaintStep(m) \/ MaintCrash(m), ~CleanCancelled(m),
           NEW t \in Tasks, t # maint[m].task, t # maint'[m].task
    PROVE  Untouched(t)
<1> USE DEF MAt, MTask, MRow, Holder
<1>1. SameMaints(t) /\ SameWorkers(t) /\ SameRequests(t)
  BY MaintLocal DEF SameMaints, SameWorkers, SameRequests
<1>0. maint[m].pc # "idle" => maint[m].task \in Tasks
  BY DEF Shape, FramesOK, MaintFrameOK, MaintFrames
<1>2. SameRows(t)
  <2> USE DEF Shape, RowsOK, SameRows, dbVars, leaseVars
  <2>1. CASE DropDispatch(m) \/ PublishDueAck(m)
    BY <2>1 DEF DropDispatch, PublishDueAck, AckPublished, PutDispatch
  <2>2. CASE RecoverUnsupported(m) \/ RequeueCommit(m) \/ DeadLetterCommit(m)
    BY <2>2 DEF RecoverUnsupported, RequeueCommit, DeadLetterCommit, ExpireLease, PutLease,
       SetStatus, SetStatusRetry
  <2>3. CASE OrphanCommit(m)
    BY <2>3 DEF OrphanCommit, SetStatus, SetStatusRetry
  <2>4. CASE \/ ListDue(m) \/ PublishDue(m) \/ RecoverRead(m) \/ RecoverForRetry(m) \/ RecoverToDeadLetter(m)
             \/ ReconcileLoad(m) \/ ReconcileCheck(m) \/ ReconcileTerminal(m) \/ ReconcileFailed(m)
             \/ ReconcileOrphan(m) \/ MaintCrash(m)
    BY <2>4 DEF ListDue, PublishDue, RecoverRead, RecoverForRetry, RecoverToDeadLetter,
       ReconcileLoad, ReconcileCheck,
       ReconcileTerminal, ReconcileFailed, ReconcileOrphan, MaintCrash
  <2> QED BY <2>1, <2>2, <2>3, <2>4 DEF MaintStep
<1>3. SameQueue(t)
  <2>1. CASE UNCHANGED queueVars
    BY <2>1, SameQueueVars
  <2>2. ASSUME maint[m].task \in Tasks, Handled(maint[m].task) \/ Publish(maint[m].task, maint[m].disp)
        PROVE  SameQueue(t)
    BY <2>2, OtherQueue
  <2>3. CASE PublishDue(m)
    BY <1>0, <2>1, <2>2, <2>3 DEF PublishDue
  <2>h. /\ maint[m].pc # "idle" => CleanupHolder(maint[m].task) \in Holders
        /\ maint[m].pc = "recover" => maint[m].holder \in Holders
        /\ MaintainerId \in Holders
    BY <1>0 DEF Shape, FramesOK, MaintFrameOK, MaintFrames, RowsOK, CleanupHolder, Holders
  <2>4. CASE RecoverForRetry(m) \/ RecoverToDeadLetter(m)
    BY <1>0, <2>1, <2>2, <2>h, <2>4 DEF RecoverForRetry, RecoverToDeadLetter, Handled
  <2>5. CASE ReconcileTerminal(m) \/ ReconcileFailed(m) \/ ReconcileOrphan(m)
    BY <1>0, <2>1, <2>2, <2>h, <2>5 DEF ReconcileTerminal, ReconcileFailed, ReconcileOrphan, Attempt,
       Handled
  <2>6. CASE \/ ListDue(m) \/ DropDispatch(m) \/ PublishDueAck(m) \/ RecoverRead(m) \/ RecoverUnsupported(m)
             \/ RequeueCommit(m) \/ DeadLetterCommit(m) \/ ReconcileLoad(m) \/ ReconcileCheck(m)
             \/ OrphanCommit(m) \/ MaintCrash(m)
    BY <2>1, <2>6 DEF ListDue, DropDispatch, PublishDueAck, RecoverRead, RecoverUnsupported,
       RequeueCommit,
       DeadLetterCommit, ReconcileLoad, ReconcileCheck, OrphanCommit, MaintCrash
  <2> QED BY <2>3, <2>4, <2>5, <2>6 DEF MaintStep
<1> QED BY <1>1, <1>2, <1>3 DEF Untouched

\* reconcile_cancelled in a pass concerns only the task of the dispatch that it picks.
LEMMA CleanElsewhere ==
    ASSUME Shape, Q!TypeOK, NEW m \in Maintainers, CleanCancelled(m)
    PROVE  \E u \in Tasks : ReconcileCancelled(u) /\ \A t \in Tasks \ {u} : Untouched(t)
<1>1. PICK u \in Tasks : ReconcileCancelled(u)
  BY DEF CleanCancelled
<1>2. ASSUME NEW t \in Tasks \ {u} PROVE Untouched(t)
  <2>1. SameRows(t) /\ SameWorkers(t) /\ SameMaints(t) /\ SameRequests(t)
    BY <1>1, CleanupRows DEF CleanCancelled, leaseVars, procVars, SameRows, SameWorkers, SameMaints,
       SameRequests
  <2>2. SameQueue(t)
    BY <1>1, CleanupUse, OtherQueue, SameQueueVars
  <2> QED BY <2>1, <2>2 DEF Untouched
<1> QED BY <1>1, <1>2

\* A request concerns the task that it was made for only.
LEMMA ApiElsewhere ==
    ASSUME Shape, Q!TypeOK, NEW r \in Requests, RequestRead(r) \/ RequestStep(r) \/ RequestCrash(r),
           NEW t \in Tasks, t # api[r].task, t # api'[r].task
    PROVE  Untouched(t)
<1> USE DEF AAt, ATask, ARow
<1>0. api[r].pc # "idle" => api[r].task \in Tasks
  BY DEF Shape, FramesOK, ApiFrameOK, ApiFrames
<1>1. SameRequests(t)
  <2>1. \A f : api' = [api EXCEPT ![r] = f] => SameRequests(t)
    BY DEF Shape, FramesOK, SameRequests
  <2>2. ADone(r) => SameRequests(t)
    BY <2>1 DEF ADone
  <2>3. \A pc : AGoto(r, pc) => SameRequests(t)
    BY DEF AGoto, Shape, FramesOK, SameRequests
  <2>4. CASE RequestRead(r) \/ HookRead(r)
    BY <2>1, <2>2, <2>4 DEF RequestRead, HookRead
  <2>5. CASE \/ QueueTask(r) \/ PlaceInReview(r) \/ RetryTask(r) \/ CancelTask(r) \/ CancelCleanup(r)
             \/ HookPublish(r) \/ HookAck(r) \/ RequestCrash(r)
    BY <2>2, <2>3, <2>5 DEF QueueTask, Admit, PlaceInReview, RetryTask, CancelTask, CancelCleanup,
       HookPublish,
       HookAck, RequestCrash
  <2> QED BY <2>4, <2>5 DEF RequestStep
<1>2. SameWorkers(t) /\ SameMaints(t)
  BY ApiLocal DEF SameWorkers, SameMaints
<1>3. SameRows(t)
  <2> USE DEF Shape, RowsOK, SameRows, dbVars, leaseVars
  <2>1. CASE QueueTask(r) \/ PlaceInReview(r) \/ RetryTask(r)
    BY <2>1 DEF QueueTask, Admit, PlaceInReview, RetryTask, SetStatus, SetStatusMeta
  <2>2. CASE CancelTask(r)
    BY <2>2 DEF CancelTask, SetStatusMeta, PutDispatch
  <2>3. CASE CancelCleanup(r)
    BY <1>0, <2>3, CleanupRows DEF CancelCleanup
  <2>4. CASE HookAck(r)
    BY <2>4 DEF HookAck, AckPublished, PutDispatch
  <2>5. CASE RequestRead(r) \/ HookRead(r) \/ HookPublish(r) \/ RequestCrash(r)
    BY <2>5 DEF RequestRead, HookRead, HookPublish, RequestCrash
  <2> QED BY <2>1, <2>2, <2>3, <2>4, <2>5 DEF RequestStep
<1>4. SameQueue(t)
  <2>1. CASE CancelCleanup(r)
    BY <1>0, <2>1, CleanupUse, OtherQueue, SameQueueVars DEF CancelCleanup
  <2>2. CASE HookPublish(r)
    BY <1>0, <2>2, OtherQueue, SameQueueVars DEF HookPublish
  <2>3. CASE \/ RequestRead(r) \/ QueueTask(r) \/ PlaceInReview(r) \/ RetryTask(r) \/ CancelTask(r)
             \/ HookRead(r) \/ HookAck(r) \/ RequestCrash(r)
    BY <2>3, SameQueueVars DEF RequestRead, QueueTask, PlaceInReview, RetryTask, CancelTask,
       HookRead, HookAck, RequestCrash
  <2> QED BY <2>1, <2>2, <2>3 DEF RequestStep
<1> QED BY <1>1, <1>2, <1>3, <1>4 DEF Untouched

-----------------------------------------------------------------------------
\* What a calm task with a worker on it looks like.
Nonterminal == {"queued"} \cup Recoverable

\* A worker that is still to report on a task owns it: its lease key, the payload in
\* processing, no other worker that could commit, no other lease row.
LEMMA Alone ==
    ASSUME Shape, Q!KeysConsistent, NEW t \in Tasks, CalmAt(t),
           NEW w \in Workers, worker[w].task = t, worker[w].pc \notin ReportPCs
    PROVE  /\ leaseKey[t] = w /\ t \in processingPayloads /\ t \notin pendingPayloads
           /\ Published(t) /\ Live(t)
           /\ task[t].status \in Nonterminal
           /\ \A v \in Workers : worker[v].task = t => v = w
<1>1. worker[w].pc \in WorkerPCs \ {"idle"}
  BY RuntimeAssumption DEF RuntimeAssumption, Shape, FramesOK, WorkerFrameOK, WorkerFrames
<1>2. leaseKey[t] = w /\ w # NoOwner
  BY RuntimeAssumption DEF RuntimeAssumption, CalmAt, WorkerFits
<1>3. t \in processingPayloads /\ t \notin pendingPayloads
  BY <1>2 DEF Q!KeysConsistent, Q!OneLiveCopy, Q!LeaseImpliesProcessing
<1>4. Live(t) /\ Published(t)
  BY <1>3 DEF Live, Q!InNeitherQueue, CalmAt, TaskFits
<1>5. Moving(t) => task[t].status \in Recoverable
  <2>1. \A m \in Maintainers : maint[m].task = t /\ maint[m].pc = "requeue" =>
           Holds(t, maint[m].holder) /\ maint[m].holder \in Workers
    BY DEF CalmAt, MaintFits, RecoveryPCs, Shape, FramesOK, MaintFrameOK
  <2> QED BY <2>1 DEF Moving, CalmAt, LeaseFits
<1>6. task[t].status \in Nonterminal
  BY <1>1, <1>5 DEF WorkerPCs, ReportPCs, CalmAt, WorkerFits, WorkPCs, Nonterminal, Recoverable
<1>7. ASSUME NEW v \in Workers, worker[v].task = t, v # w PROVE FALSE
  <2>1. worker[v].pc \in ReportPCs
    BY <1>2, <1>7 DEF CalmAt, WorkerFits
  <2>2. task[t].status \in {"completed", "blocked", "failed", "cancelled"}
    BY <1>7, <2>1 DEF CalmAt, WorkerFits, ReportPCs
  <2> QED BY <1>6, <2>2 DEF Nonterminal, Recoverable
<1> QED BY <1>2, <1>3, <1>4, <1>6, <1>7

\* No pass recovers a task that its worker has in hand, or that is queued.
LEMMA NoRecovery ==
    ASSUME Shape, Q!KeysConsistent, NEW t \in Tasks, CalmAt(t),
           \/ \E w \in Workers : worker[w].task = t /\ worker[w].pc \in InHandPCs
           \/ task[t].status \notin Recoverable
    PROVE  \A m \in Maintainers : maint[m].task = t => maint[m].pc \notin RecoveryPCs
<1> SUFFICES ASSUME NEW m \in Maintainers, maint[m].task = t, maint[m].pc \in RecoveryPCs PROVE FALSE
  OBVIOUS
<1>1. maint[m].holder \in Workers /\ Holds(t, maint[m].holder)
  BY DEF CalmAt, MaintFits, RecoveryPCs, Shape, FramesOK, MaintFrameOK
<1>2. task[t].status \in Recoverable
  BY <1>1 DEF CalmAt, LeaseFits
<1>3. PICK w \in Workers : worker[w].task = t /\ worker[w].pc \in InHandPCs
  BY <1>2
<1>4. worker[w].pc \notin ReportPCs /\ worker[w].pc \notin {"read", "compensate"}
  BY <1>3 DEF InHandPCs, WorkPCs, ReportPCs
<1>5. Live(t)
  BY <1>3, <1>4, Alone
<1> QED BY <1>3, <1>4, <1>5 DEF CalmAt, MaintFits, RecoveryPCs, Abandoned

\* How the frame of a worker changes.
LEMMA FrameMoves ==
    ASSUME Shape, NEW w \in Workers
    PROVE  /\ \A pc : Goto(w, pc) => /\ worker'[w].task = worker[w].task /\ worker'[w].pc = pc
                                     /\ \A v \in Workers \ {w} : worker'[v] = worker[v]
           /\ \A pc, meta : GotoWith(w, pc, meta) => /\ worker'[w].task = worker[w].task /\ worker'[w].pc = pc
                                                     /\ \A v \in Workers \ {w} : worker'[v] = worker[v]
           /\ Done(w) => /\ worker'[w] = IdleWorker /\ worker'[w].task = NoTask /\ worker'[w].pc = "idle"
                         /\ \A v \in Workers \ {w} : worker'[v] = worker[v]
<1>1. worker \in [Workers -> WorkerFrames]
  BY DEF Shape, FramesOK
<1>2. ASSUME NEW pc, Goto(w, pc)
      PROVE  /\ worker'[w].task = worker[w].task /\ worker'[w].pc = pc
             /\ \A v \in Workers \ {w} : worker'[v] = worker[v]
  BY <1>1, <1>2 DEF Goto, WorkerFrames
<1>3. ASSUME NEW pc, NEW meta, GotoWith(w, pc, meta)
      PROVE  /\ worker'[w].task = worker[w].task /\ worker'[w].pc = pc
             /\ \A v \in Workers \ {w} : worker'[v] = worker[v]
  BY <1>1, <1>3 DEF GotoWith, WorkerFrames
<1>4. Done(w) => /\ worker'[w] = IdleWorker /\ worker'[w].task = NoTask /\ worker'[w].pc = "idle"
                 /\ \A v \in Workers \ {w} : worker'[v] = worker[v]
  BY <1>1 DEF Done, IdleWorker
<1> QED BY <1>2, <1>3, <1>4

\* The worker w on the task t moves, and nobody else does anything on t.
Mine(t, w) ==
    /\ worker[w].task = t /\ worker'[w].task = t
    /\ \A v \in Workers \ {w} : worker'[v] = worker[v]
    /\ SameMaints(t) /\ SameRequests(t)

\* Steps of a worker that neither write the row nor touch the queue.
OwnSteps == ({"read"} \X {"claim", "stale", "compensate"}) \cup {<<"claim", "compensate">>}
              \cup (WorkPCs \X WorkPCs) \cup {<<"heartbeat", "start">>}

\* A worker moves on without a write: the handler runs, a heartbeat is refused or
\* accepted, a claimed payload turns out stale.
LEMMA OwnMove ==
    ASSUME Shape, Q!KeysConsistent, NEW t \in Tasks, CalmAt(t), NEW w \in Workers, Mine(t, w),
           <<worker[w].pc, worker'[w].pc>> \in OwnSteps,
           worker'[w].pc \in {"claim", "stale"} => task[t].status = "queued",
           worker'[w].pc = "claim" => t \notin Clarifying,
           task'[t] = task[t], dispatch'[t] = dispatch[t], SameQueue(t),
           \A v : Holds(t, v)' = Holds(t, v)
    PROVE  CalmAt(t)'
<1> USE DEF CalmAt
<1>1. Published(t)' = Published(t) /\ Live(t)' = Live(t) /\ Moving(t)' = Moving(t)
  BY DEF SameQueue, Mine, SameMaints, Published, Live, Q!InNeitherQueue, Moving
<1>2. /\ worker[w].pc \notin ReportPCs /\ worker'[w].pc \notin ReportPCs
      /\ worker[w].pc \in InHandPCs <=> worker'[w].pc \in InHandPCs
      /\ worker'[w].pc \notin {"discard", "release", "release_commit", "read", "heartbeat"}
  BY DEF OwnSteps, ReportPCs, InHandPCs, WorkPCs
<1>3. worker[w].task = t /\ worker'[w].task = t /\ \A v \in Workers \ {w} : worker'[v] = worker[v]
  BY DEF Mine
<1>4. /\ leaseKey[t] = w /\ task[t].status \in Nonterminal
      /\ \A v \in Workers : worker'[v].task = t => v = w
      /\ \A v \in Workers : worker[v].task = t => v = w
  BY <1>2, <1>3, Alone
<1>5. TaskFits(t)'
  BY <1>1 DEF TaskFits, SameQueue
<1>6. ASSUME NEW v \in Workers PROVE LeaseFits(t, v)'
  <2>1. ~Abandoned(t, v)
    BY <1>3 DEF Abandoned
  <2> QED BY <1>1, <1>2, <1>3, <2>1 DEF LeaseFits, Mine, SameMaints
<1>7. ASSUME NEW v \in Workers PROVE WorkerFits(t, v)'
  <2>1. CASE v = w
    <3>1. worker'[w].pc = "compensate" => task[t].status = "queued" \/ Moving(t)
      BY <1>3 DEF OwnSteps, WorkPCs, WorkerFits
    <3>2. worker'[w].pc = "start" => task[t].status = "claimed"
      BY <1>3 DEF OwnSteps, WorkPCs, WorkerFits
    <3>3. worker'[w].pc \in WorkPCs => task[t].status = "running"
      BY <1>3 DEF OwnSteps, WorkPCs, WorkerFits
    <3> QED BY <1>1, <1>2, <1>4, <2>1, <3>1, <3>2, <3>3 DEF WorkerFits, SameQueue, ReportPCs
  <2>2. CASE v # w
    BY <1>4, <2>2 DEF WorkerFits
  <2> QED BY <2>1, <2>2
<1>8. ASSUME NEW m \in Maintainers PROVE MaintFits(t, m)'
  <2>1. CASE maint'[m].task = t
    <3>1. maint'[m] = maint[m] /\ MaintFits(t, m)
      BY <2>1 DEF Mine, SameMaints
    <3>2. maint[m].pc # "recover"
      BY <1>3, <2>1, <3>1 DEF MaintFits, Abandoned
    <3>3. maint[m].pc = "requeue" => task[t].status # "queued" /\ worker[w].pc \in {"read", "compensate"}
      <4>1. maint[m].pc = "requeue" => Holds(t, maint[m].holder) /\ maint[m].holder \in Workers
        BY <2>1, <3>1 DEF MaintFits, RecoveryPCs, Shape, FramesOK, MaintFrameOK
      <4> QED BY <1>3, <2>1, <3>1, <4>1 DEF LeaseFits, MaintFits, Recoverable
    <3>4. maint[m].pc = "requeue" => worker'[w].pc \in {"read", "compensate"}
      BY <3>3 DEF OwnSteps, WorkPCs
    <3> HIDE DEF CalmAt
    <3>5. /\ leaseKey'[t] = leaseKey[t] /\ deadPayloads'[t] = deadPayloads[t]
          /\ t \in processingPayloads' <=> t \in processingPayloads
      BY DEF SameQueue
    <3> QED BY <1>1, <1>3, <1>4, <2>1, <3>1, <3>2, <3>4, <3>5 DEF MaintFits
  <2> QED BY <2>1 DEF MaintFits
<1>9. ASSUME NEW r \in Requests PROVE RequestFits(t, r)'
  BY <1>1 DEF RequestFits, Mine, SameRequests
<1> QED BY <1>5, <1>6, <1>7, <1>8, <1>9

-----------------------------------------------------------------------------
\* The step of a pass on a task that is not under recovery reads and leaves alone.
SameMaintReads(t) ==
    \A m \in Maintainers : maint'[m].task = t =>
        /\ maint[m].task = t /\ maint'[m].pc = maint[m].pc /\ maint'[m].disp = maint[m].disp
        /\ maint'[m].row = maint[m].row /\ maint'[m].since = maint[m].since
SameRequestReads(t) ==
    \A r \in Requests : api'[r].task = t =>
        /\ api[r].task = t /\ api'[r].pc = api[r].pc /\ api'[r].op = api[r].op /\ api'[r].disp = api[r].disp

\* What the dispatch of a task may be, given the status of the task.
DispatchFits(d, s) ==
    /\ d.status = "pending" => d = Fresh
    /\ d.status = "cancelled" /\ ~d.cleaned => s = "cancelled"

\* The worker that has the task in hand commits a new status.
LEMMA WriteMove ==
    ASSUME Shape, Q!KeysConsistent, NEW t \in Tasks, CalmAt(t), NEW w \in Workers,
           worker[w].task = t, worker[w].pc \notin ReportPCs, worker'[w].task = t,
           \A v \in Workers \ {w} : worker'[v] = worker[v],
           SameMaintReads(t), SameRequestReads(t), SameQueue(t),
           \A m \in Maintainers : maint[m].task = t => maint[m].pc \notin RecoveryPCs,
           task'[t].status \in Recoverable \cup {"completed", "blocked", "failed", "cancelled"},
           task'[t].status \in Recoverable => t \notin Clarifying,
           task'[t].retry = task[t].retry,
           DispatchFits(dispatch'[t], task'[t].status),
           \A v \in Workers : Holds(t, v)' => v = w /\ task'[t].status \in Recoverable /\ worker'[w].pc \in InHandPCs,
           WorkerFits(t, w)'
    PROVE  CalmAt(t)'
<1> USE DEF CalmAt
<1>1. Published(t)' = Published(t) /\ Live(t)' = Live(t)
  BY DEF SameQueue, Published, Live, Q!InNeitherQueue
<1>2. /\ leaseKey[t] = w /\ t \notin pendingPayloads /\ Published(t) /\ Live(t)
      /\ task[t].status \in Nonterminal
      /\ \A v \in Workers : worker[v].task = t => v = w
  BY Alone
<1>5. TaskFits(t)'
  BY <1>1, <1>2 DEF TaskFits, SameQueue, DispatchFits, Recoverable
<1>6. ASSUME NEW v \in Workers PROVE LeaseFits(t, v)'
  BY DEF LeaseFits
<1>7. ASSUME NEW v \in Workers PROVE WorkerFits(t, v)'
  <2>1. CASE v # w
    BY <1>2, <2>1 DEF WorkerFits
  <2> QED BY <2>1
<1>8. ASSUME NEW m \in Maintainers PROVE MaintFits(t, m)'
  <2>1. CASE maint'[m].task = t
    <3>1. /\ maint[m].task = t /\ maint'[m].pc = maint[m].pc /\ maint'[m].disp = maint[m].disp
          /\ maint'[m].row = maint[m].row /\ maint'[m].since = maint[m].since
          /\ maint[m].pc \notin RecoveryPCs
      BY <2>1 DEF SameMaintReads
    <3>2. MaintFits(t, m) /\ leaseKey'[t] = w
      BY <1>2 DEF SameQueue
    <3>3. maint[m].pc \in {"loaded", "reconcile"} => w \in maint[m].since
      BY <3>1, <3>2 DEF MaintFits
    <3>4. task[t].status \notin TerminalStates /\ task'[t].status \notin {"planned", "queued"}
      BY <1>2 DEF Nonterminal, Recoverable, TerminalStates
    <3>5. \A v \in Workers : worker'[v].task = t => v = w
      BY <1>2
    <3> HIDE DEF CalmAt
    <3> QED BY <1>1, <1>2, <2>1, <3>1, <3>2, <3>3, <3>4, <3>5 DEF MaintFits, RecoveryPCs
  <2> QED BY <2>1 DEF MaintFits
<1>9. ASSUME NEW r \in Requests PROVE RequestFits(t, r)'
  <2>1. task[t].status # "planned" /\ task'[t].status # "planned"
    BY <1>2 DEF Nonterminal, Recoverable
  <2> QED BY <1>1, <2>1 DEF RequestFits, SameRequestReads
<1> QED BY <1>5, <1>6, <1>7, <1>8, <1>9

\* A task that no worker and no pass is about to change.
Settled == {"completed", "blocked", "failed", "cancelled"}

\* A task that is neither claimed nor running has no lease row, nor a pass that would
\* write its status.
LEMMA NobodyHolds ==
    ASSUME Shape, Q!KeysConsistent, NEW t \in Tasks, CalmAt(t), task[t].status \notin Recoverable
    PROVE  /\ \A w \in Workers : ~Holds(t, w)
           /\ \A m \in Maintainers : maint[m].task = t => maint[m].pc \notin RecoveryPCs
           /\ ~Moving(t)
<1>1. \A w \in Workers : ~Holds(t, w)
  BY DEF CalmAt, LeaseFits
<1>2. \A m \in Maintainers : maint[m].task = t => maint[m].pc \notin RecoveryPCs
  BY NoRecovery
<1> QED BY <1>1, <1>2 DEF Moving, RecoveryPCs

\* The payload of a task is no longer in the queue.
Gone(t) ==
    /\ t \notin pendingPayloads' /\ t \notin processingPayloads' /\ leaseKey'[t] = NoOwner
    /\ <<t, 0>> \in dispatchKeys' <=> <<t, 0>> \in dispatchKeys

\* A settled task is left alone, but for its payload, its dispatch and its workers.
LEMMA SettledMove ==
    ASSUME Shape, Q!KeysConsistent, NEW t \in Tasks, CalmAt(t), task[t].status \in Settled,
           task'[t] = task[t], lease'[t] = lease[t], DispatchFits(dispatch'[t], task[t].status),
           SameQueue(t) \/ Gone(t),
           \A v \in Workers : worker'[v].task = t => worker[v].task = t /\ worker'[v].pc \in ReportPCs /\ WorkerFits(t, v)',
           \A m \in Maintainers : maint'[m].task = t => maint'[m] = maint[m],
           SameRequests(t)
    PROVE  CalmAt(t)'
<1> USE DEF CalmAt
<1>0. task[t].status \notin Recoverable
  BY DEF Settled, Recoverable
<1>1. /\ \A w \in Workers : ~Holds(t, w)
      /\ \A m \in Maintainers : maint[m].task = t => maint[m].pc \notin RecoveryPCs
      /\ ~Moving(t)
  BY <1>0, NobodyHolds
<1>2. t \notin pendingPayloads /\ t \notin pendingPayloads' /\ Published(t) /\ Published(t)'
  BY <1>1 DEF Settled, TaskFits, SameQueue, Gone, Published
<1>5. TaskFits(t)'
  BY <1>0, <1>2, RuntimeAssumption DEF RuntimeAssumption, TaskFits, SameQueue, Gone, DispatchFits,
     Settled, Recoverable
<1>6. ASSUME NEW v \in Workers PROVE LeaseFits(t, v)'
  BY <1>1 DEF LeaseFits, Holds
<1>7. ASSUME NEW v \in Workers PROVE WorkerFits(t, v)'
  BY DEF WorkerFits
<1>8. ASSUME NEW m \in Maintainers PROVE MaintFits(t, m)'
  <2>1. CASE maint'[m].task = t
    <3>1. maint'[m] = maint[m] /\ MaintFits(t, m) /\ maint[m].pc \notin RecoveryPCs
      BY <1>1, <2>1
    <3>2. t \in processingPayloads' => t \in processingPayloads /\ leaseKey'[t] = leaseKey[t]
      BY DEF SameQueue, Gone
    <3> HIDE DEF CalmAt
    <3> QED BY <1>2, <2>1, <3>1, <3>2 DEF MaintFits, RecoveryPCs
  <2> QED BY <2>1 DEF MaintFits
<1>9. ASSUME NEW r \in Requests PROVE RequestFits(t, r)'
  BY <1>2 DEF RequestFits, SameRequests
<1> QED BY <1>5, <1>6, <1>7, <1>8, <1>9

\* A worker leaves a task, and nothing else changes.
LEMMA LetGo ==
    ASSUME Shape, Q!KeysConsistent, NEW t \in Tasks, CalmAt(t), NEW w \in Workers,
           worker[w].task = t, worker'[w].task # t,
           \A v \in Workers \ {w} : worker'[v] = worker[v],
           SameRows(t), SameQueue(t), SameMaints(t), SameRequests(t)
    PROVE  CalmAt(t)'
<1> USE DEF CalmAt, SameRows
<1>1. Published(t)' = Published(t) /\ Live(t)' = Live(t) /\ Moving(t)' = Moving(t)
  BY DEF SameQueue, SameMaints, Published, Live, Q!InNeitherQueue, Moving
<1>2. \A v : Holds(t, v)' = Holds(t, v)
  BY DEF Holds
<1>3. \A v \in Workers : worker'[v].task = t => worker'[v] = worker[v] /\ worker[v].task = t
  OBVIOUS
<1>5. TaskFits(t)'
  BY <1>1 DEF TaskFits, SameQueue
<1>6. ASSUME NEW v \in Workers PROVE LeaseFits(t, v)'
  <2>1. ~Abandoned(t, v)
    BY DEF Abandoned
  <2>2. CASE worker[v].task = t /\ worker[v].pc \in InHandPCs
    <3>1. worker[v].pc \notin ReportPCs
      BY <2>2 DEF InHandPCs, WorkPCs, ReportPCs
    <3>2. leaseKey[t] = v /\ t \in processingPayloads /\ \A u \in Workers : worker[u].task = t => u = v
      BY <2>2, <3>1, Alone
    <3>3. Abandoned(t, v)'
      BY <3>2 DEF Abandoned, SameQueue
    <3> QED BY <1>2, <3>3 DEF LeaseFits
  <2>3. CASE \E m \in Maintainers : maint[m].task = t /\ maint[m].holder = v /\ maint[m].pc \in {"requeue", "bury"}
    BY <1>2, <2>3 DEF LeaseFits, SameMaints
  <2> QED BY <1>2, <2>1, <2>2, <2>3 DEF LeaseFits
<1>7. ASSUME NEW v \in Workers PROVE WorkerFits(t, v)'
  BY <1>1, <1>3 DEF WorkerFits, SameQueue
<1>8. ASSUME NEW m \in Maintainers PROVE MaintFits(t, m)'
  <2>1. CASE maint'[m].task = t
    <3>1. maint'[m] = maint[m] /\ MaintFits(t, m)
      BY <2>1 DEF SameMaints
    <3>2. maint[m].pc # "recover"
      BY <2>1, <3>1 DEF MaintFits, Abandoned
    <3>5. /\ leaseKey'[t] = leaseKey[t] /\ deadPayloads'[t] = deadPayloads[t]
          /\ t \in processingPayloads' <=> t \in processingPayloads
      BY DEF SameQueue
    <3> HIDE DEF CalmAt
    <3> QED BY <1>1, <1>2, <1>3, <2>1, <3>1, <3>2, <3>5 DEF MaintFits
  <2> QED BY <2>1 DEF MaintFits
<1>9. ASSUME NEW r \in Requests PROVE RequestFits(t, r)'
  BY <1>1 DEF RequestFits, SameRequests
<1> QED BY <1>5, <1>6, <1>7, <1>8, <1>9

\* A worker that could not record its claim gives the payload back.
LEMMA GiveBack ==
    ASSUME Shape, Q!KeysConsistent, NEW t \in Tasks, CalmAt(t), NEW w \in Workers,
           worker[w].task = t, worker[w].pc = "compensate", worker'[w].task # t,
           \A v \in Workers \ {w} : worker'[v] = worker[v],
           SameRows(t), SameMaints(t), SameRequests(t),
           t \in pendingPayloads', t \notin processingPayloads', leaseKey'[t] = NoOwner,
           <<t, 0>> \in dispatchKeys' <=> <<t, 0>> \in dispatchKeys
    PROVE  CalmAt(t)'
<1> USE DEF CalmAt, SameRows
<1>0. /\ leaseKey[t] = w /\ t \in processingPayloads /\ Live(t) /\ Published(t)
      /\ \A v \in Workers : worker[v].task = t => v = w
  BY Alone DEF ReportPCs
<1>1. Published(t)' /\ Live(t)' /\ Moving(t)' = Moving(t)
  BY <1>0 DEF SameMaints, Published, Live, Q!InNeitherQueue, Moving
<1>2. /\ \A v : Holds(t, v)' = Holds(t, v)
      /\ \A v \in Workers : worker'[v].task # t
  BY <1>0 DEF Holds
<1>3. task[t].status = "queued" \/ Moving(t)
  BY DEF WorkerFits
<1>4. Moving(t) => task[t].status \in Recoverable
  BY NobodyHolds
<1>5. TaskFits(t)'
  BY <1>1, <1>3, <1>4, RuntimeAssumption DEF RuntimeAssumption, TaskFits, Recoverable
<1>6. ASSUME NEW v \in Workers PROVE LeaseFits(t, v)'
  <2>1. ~Abandoned(t, v) /\ ~(worker[v].task = t /\ worker[v].pc \in InHandPCs)
    BY <1>0 DEF Abandoned, InHandPCs, WorkPCs
  <2> QED BY <1>2, <2>1 DEF LeaseFits, SameMaints
<1>7. ASSUME NEW v \in Workers PROVE WorkerFits(t, v)'
  BY <1>2 DEF WorkerFits
<1>8. ASSUME NEW m \in Maintainers PROVE MaintFits(t, m)'
  <2>1. CASE maint'[m].task = t
    <3>1. maint'[m] = maint[m] /\ MaintFits(t, m)
      BY <2>1 DEF SameMaints
    <3>2. maint[m].pc # "recover"
      BY <2>1, <3>1 DEF MaintFits, Abandoned
    <3> HIDE DEF CalmAt
    <3> QED BY <1>0, <1>1, <1>2, <2>1, <3>1, <3>2 DEF MaintFits
  <2> QED BY <2>1 DEF MaintFits
<1>9. ASSUME NEW r \in Requests PROVE RequestFits(t, r)'
  BY <1>1 DEF RequestFits, SameRequests
<1> QED BY <1>5, <1>6, <1>7, <1>8, <1>9

\* Nobody works on a task whose payload is pending.
LEMMA PendingIsFree ==
    ASSUME Shape, Q!KeysConsistent, NEW t \in Tasks, CalmAt(t),
           leaseKey[t] = NoOwner, task[t].status \in Nonterminal
    PROVE  \A w \in Workers : worker[w].task # t
<1> SUFFICES ASSUME NEW w \in Workers, worker[w].task = t PROVE FALSE
  OBVIOUS
<1>1. worker[w].pc \in ReportPCs
  BY Alone, RuntimeAssumption DEF RuntimeAssumption
<1> QED BY <1>1 DEF CalmAt, WorkerFits, ReportPCs, Nonterminal, Recoverable

\* A worker takes up a task.
LEMMA TakeUp ==
    ASSUME Shape, Q!KeysConsistent, NEW t \in Tasks, CalmAt(t), NEW w \in Workers,
           worker'[w].task = t, worker'[w].pc = "read",
           \A v \in Workers \ {w} : worker'[v] = worker[v],
           t \in pendingPayloads,
           SameRows(t), SameRequests(t), deadPayloads'[t] = deadPayloads[t],
           \A m \in Maintainers :
              /\ maint'[m].pc = maint[m].pc /\ maint'[m].task = maint[m].task
              /\ maint'[m].holder = maint[m].holder /\ maint'[m].row = maint[m].row
              /\ maint'[m].disp = maint[m].disp /\ maint'[m].latest = maint[m].latest
              /\ maint[m].task = t => w \in maint'[m].since,
           t \notin pendingPayloads', t \in processingPayloads', leaseKey'[t] = w,
           <<t, 0>> \in dispatchKeys' <=> <<t, 0>> \in dispatchKeys
    PROVE  CalmAt(t)'
<1> USE DEF CalmAt, SameRows
<1>0. leaseKey[t] = NoOwner /\ t \notin processingPayloads /\ Live(t)
  BY DEF Q!KeysConsistent, Q!OneLiveCopy, Q!LeaseImpliesProcessing, Live, Q!InNeitherQueue
<1>1. Published(t) /\ Published(t)' /\ Live(t)' /\ Moving(t)' = Moving(t)
  BY <1>0 DEF Published, Live, Q!InNeitherQueue, Moving, TaskFits
<1>2. task[t].status = "queued" \/ Moving(t)
  BY DEF TaskFits
<1>3. Moving(t) => task[t].status \in Recoverable
  BY NobodyHolds
<1>4. /\ \A v : Holds(t, v)' = Holds(t, v)
      /\ \A v \in Workers : worker[v].task # t
      /\ \A v \in Workers : worker'[v].task = t => v = w
  BY <1>0, <1>2, <1>3, PendingIsFree DEF Holds, Nonterminal
<1>5. TaskFits(t)'
  BY <1>1, <1>2, <1>3, RuntimeAssumption DEF RuntimeAssumption, TaskFits, Recoverable
<1>6. ASSUME NEW v \in Workers PROVE LeaseFits(t, v)'
  <2>1. ~Abandoned(t, v) /\ worker[v].task # t
    BY <1>0, <1>4 DEF Abandoned
  <2> QED BY <1>4, <2>1 DEF LeaseFits
<1>7. ASSUME NEW v \in Workers PROVE WorkerFits(t, v)'
  BY <1>1, <1>2, <1>4 DEF WorkerFits, ReportPCs, WorkPCs
<1>8. ASSUME NEW m \in Maintainers PROVE MaintFits(t, m)'
  <2>1. CASE maint'[m].task = t
    <3>1. /\ MaintFits(t, m) /\ maint[m].task = t
          /\ maint'[m].pc = maint[m].pc
          /\ maint'[m].holder = maint[m].holder /\ maint'[m].row = maint[m].row
          /\ maint'[m].disp = maint[m].disp /\ maint'[m].latest = maint[m].latest
          /\ w \in maint'[m].since
      BY <2>1
    <3>2. maint[m].pc # "recover" /\ maint[m].pc # "bury"
      BY <1>0, <3>1 DEF MaintFits, Abandoned
    <3>3. worker'[w].pc = "read" /\ leaseKey'[t] = w /\ task'[t] = task[t]
      OBVIOUS
    <3> HIDE DEF CalmAt
    <3> QED BY <1>1, <1>4, <2>1, <3>1, <3>2, <3>3 DEF MaintFits
  <2> QED BY <2>1 DEF MaintFits
<1>9. ASSUME NEW r \in Requests PROVE RequestFits(t, r)'
  BY <1>1 DEF RequestFits, SameRequests
<1> QED BY <1>5, <1>6, <1>7, <1>8, <1>9

-----------------------------------------------------------------------------
\* A pass takes a task up, reads more of it, or is done with it; it may write the
\* dispatch.
LEMMA PassMove ==
    ASSUME Shape, NEW t \in Tasks, CalmAt(t), NEW m \in Maintainers,
           {maint[m].pc, maint'[m].pc} \cap {"requeue", "bury"} = {},
           \A n \in Maintainers \ {m} : maint'[n] = maint[n],
           task'[t] = task[t], lease'[t] = lease[t], SameQueue(t), SameWorkers(t), SameRequests(t),
           DispatchFits(dispatch'[t], task[t].status),
           dispatch'[t] = dispatch[t] \/ Published(t),
           MaintFits(t, m)'
    PROVE  CalmAt(t)'
<1> USE DEF CalmAt
<1>a. Published(t)' = Published(t) /\ Live(t)' = Live(t)
  BY DEF SameQueue, Published, Live, Q!InNeitherQueue
<1>b. Moving(t)' = Moving(t)
  <2>1. maint[m].pc # "requeue" /\ maint'[m].pc # "requeue"
    OBVIOUS
  <2> HIDE DEF CalmAt
  <2> QED BY <2>1 DEF Moving
<1>c. \A v : Holds(t, v)' = Holds(t, v) /\ Abandoned(t, v)' = Abandoned(t, v)
  BY DEF SameQueue, SameWorkers, Holds, Abandoned
<1>1. /\ Published(t)' = Published(t) /\ Live(t)' = Live(t) /\ Moving(t)' = Moving(t)
      /\ \A v : Holds(t, v)' = Holds(t, v) /\ Abandoned(t, v)' = Abandoned(t, v)
  BY <1>a, <1>b, <1>c
<1>5. TaskFits(t)'
  BY <1>1 DEF TaskFits, SameQueue, DispatchFits
<1>6. ASSUME NEW v \in Workers PROVE LeaseFits(t, v)'
  <2>1. (\E n \in Maintainers : maint[n].task = t /\ maint[n].holder = v /\ maint[n].pc \in {"requeue", "bury"})
         => (\E n \in Maintainers : maint'[n].task = t /\ maint'[n].holder = v /\ maint'[n].pc \in {"requeue", "bury"})
    OBVIOUS
  <2> QED BY <1>1, <2>1 DEF LeaseFits, SameWorkers
<1>7. ASSUME NEW v \in Workers PROVE WorkerFits(t, v)'
  BY <1>1 DEF WorkerFits, SameQueue, SameWorkers
<1>8. ASSUME NEW n \in Maintainers PROVE MaintFits(t, n)'
  <2>1. CASE n # m /\ maint'[n].task = t
    <3>1. maint'[n] = maint[n] /\ MaintFits(t, n)
      BY <2>1
    <3>2. \A w \in Workers : worker'[w].task = t => worker'[w] = worker[w]
      BY DEF SameWorkers
    <3>3. /\ leaseKey'[t] = leaseKey[t] /\ deadPayloads'[t] = deadPayloads[t] /\ task'[t] = task[t]
          /\ t \in processingPayloads' <=> t \in processingPayloads
      BY DEF SameQueue
    <3> HIDE DEF CalmAt
    <3> QED BY <1>1, <2>1, <3>1, <3>2, <3>3 DEF MaintFits
  <2> QED BY <2>1 DEF MaintFits
<1>9. ASSUME NEW r \in Requests PROVE RequestFits(t, r)'
  BY <1>1 DEF RequestFits, SameRequests
<1> QED BY <1>5, <1>6, <1>7, <1>8, <1>9

\* A publication under a new key brings the payload into the queue.
LEMMA FirstPublication ==
    ASSUME Shape, Q!KeysConsistent, NEW t \in Tasks, CalmAt(t),
           ~Published(t), task[t].status = "queued", Published(t)',
           t \in pendingPayloads', leaseKey'[t] = leaseKey[t], deadPayloads'[t] = deadPayloads[t],
           SameRows(t), SameWorkers(t),
           \A m \in Maintainers : maint'[m].task = t =>
              maint'[m] = maint[m] \/ (maint'[m].pc = "ack" /\ maint'[m].disp = Fresh),
           \A r \in Requests : api'[r].task = t =>
              api'[r] = api[r] \/ (api'[r].pc = "ack" /\ api'[r].disp = Fresh)
    PROVE  CalmAt(t)'
<1> USE DEF CalmAt, SameRows
<1>0. ~Live(t) /\ t \notin processingPayloads /\ leaseKey[t] = NoOwner /\ Live(t)'
  BY DEF TaskFits, Live, Q!InNeitherQueue, Q!KeysConsistent, Q!LeaseImpliesProcessing
<1>1. /\ \A v \in Workers : ~Holds(t, v) /\ ~Holds(t, v)'
      /\ \A m \in Maintainers : maint[m].task = t => maint[m].pc \notin RecoveryPCs
  BY NobodyHolds DEF Recoverable, Holds
<1>2. \A v \in Workers : worker[v].task # t /\ worker'[v].task # t
  BY <1>0, PendingIsFree DEF Nonterminal, SameWorkers
<1>5. TaskFits(t)'
  BY <1>0 DEF TaskFits
<1>6. ASSUME NEW v \in Workers PROVE LeaseFits(t, v)'
  BY <1>1 DEF LeaseFits
<1>7. ASSUME NEW v \in Workers PROVE WorkerFits(t, v)'
  BY <1>2 DEF WorkerFits
<1>8. ASSUME NEW m \in Maintainers PROVE MaintFits(t, m)'
  <2>1. CASE maint'[m].task = t /\ maint'[m] = maint[m]
    <3>1. MaintFits(t, m) /\ maint[m].pc \notin RecoveryPCs
      BY <1>1, <2>1
    <3>2. maint[m].pc \notin {"loaded", "reconcile", "ack"}
      BY <2>1, <3>1 DEF MaintFits
    <3> HIDE DEF CalmAt
    <3> QED BY <2>1, <3>1, <3>2 DEF MaintFits, RecoveryPCs
  <2>2. CASE maint'[m].task = t /\ maint'[m].pc = "ack" /\ maint'[m].disp = Fresh
    BY <2>2 DEF MaintFits, RecoveryPCs
  <2> QED BY <2>1, <2>2 DEF MaintFits
<1>9. ASSUME NEW r \in Requests PROVE RequestFits(t, r)'
  <2>1. CASE api'[r].task = t /\ api'[r] = api[r]
    <3>1. RequestFits(t, r) /\ api[r].pc # "commit"
      BY <2>1 DEF RequestFits
    <3> HIDE DEF CalmAt
    <3> QED BY <2>1, <3>1 DEF RequestFits
  <2>2. CASE api'[r].task = t /\ api'[r].pc = "ack" /\ api'[r].disp = Fresh
    BY <2>2 DEF RequestFits
  <2> QED BY <2>1, <2>2 DEF RequestFits
<1> QED BY <1>5, <1>6, <1>7, <1>8, <1>9

\* The pass is alone.
OnePass == \A m, n \in Maintainers : m = n

\* The one pass moves the payload of an abandoned task, before it writes the rows.
LEMMA RecoverMove ==
    ASSUME Shape, OnePass, NEW t \in Tasks, CalmAt(t), NEW m \in Maintainers,
           maint[m].task = t, maint[m].pc = "recover", maint[m].row.status \in Recoverable,
           maint'[m].task = t, maint'[m].holder = maint[m].holder, maint'[m].latest = maint[m].latest,
           maint'[m].row = maint[m].row,
           SameRows(t), SameWorkers(t), SameRequests(t), leaseKey'[t] = NoOwner,
           <<t, 0>> \in dispatchKeys' <=> <<t, 0>> \in dispatchKeys,
           \/ /\ maint'[m].pc = "requeue"
              /\ t \in pendingPayloads' /\ t \notin processingPayloads'
           \/ /\ maint'[m].pc = "bury" /\ deadPayloads'[t] = "message"
              /\ t \notin pendingPayloads' /\ t \notin processingPayloads'
    PROVE  CalmAt(t)'
<1> USE DEF CalmAt, SameRows
<1>0. /\ Abandoned(t, maint[m].holder) /\ Holds(t, maint[m].holder) /\ maint[m].latest
      /\ task[t].status \in Recoverable /\ maint[m].row.status = task[t].status /\ maint[m].holder \in Workers
  BY DEF MaintFits, RecoveryPCs, Shape, FramesOK, MaintFrameOK
<1>1. /\ Published(t) /\ Published(t)'
      /\ \A v : Holds(t, v)' = Holds(t, v)
      /\ \A v \in Workers : worker[v].task # t /\ worker'[v].task # t
  BY <1>0 DEF Published, Holds, Abandoned, SameWorkers, TaskFits, Recoverable
<1>2. \A n \in Maintainers : n = m
  BY DEF OnePass
<1>3. Moving(t)' <=> maint'[m].pc = "requeue"
  BY <1>2 DEF Moving
<1>4. task[t].status \notin {"queued", "planned", "dead_lettered", "cancelled"}
  BY <1>0 DEF Recoverable
<1>5. TaskFits(t)'
  <2>1. TaskFits(t)
    OBVIOUS
  <2> HIDE DEF CalmAt
  <2> QED BY <1>1, <1>3, <1>4, <2>1, RuntimeAssumption DEF RuntimeAssumption, TaskFits
<1>6. ASSUME NEW v \in Workers PROVE LeaseFits(t, v)'
  <2>1. Holds(t, v) => v = maint[m].holder
    BY <1>0 DEF LeaseFits
  <2> QED BY <1>0, <1>1, <2>1 DEF LeaseFits
<1>7. ASSUME NEW v \in Workers PROVE WorkerFits(t, v)'
  BY <1>1 DEF WorkerFits
<1>8. ASSUME NEW n \in Maintainers PROVE MaintFits(t, n)'
  <2>1. n = m /\ maint'[m].pc \in {"requeue", "bury"}
    BY <1>2
  <2>2. maint'[m].pc = "requeue" => Live(t)'
    BY DEF Live, Q!InNeitherQueue
  <2>3. maint'[m].pc = "bury" => ~Live(t)' /\ deadPayloads'[t] = "message"
    BY DEF Live, Q!InNeitherQueue
  <2> HIDE DEF CalmAt
  <2> QED BY <1>0, <1>1, <2>1, <2>2, <2>3 DEF MaintFits, RecoveryPCs
<1>9. ASSUME NEW r \in Requests PROVE RequestFits(t, r)'
  BY <1>1 DEF RequestFits, SameRequests
<1> QED BY <1>5, <1>6, <1>7, <1>8, <1>9

\* The pass commits the rows of the task whose payload it moved.
LEMMA RecoveryCommit ==
    ASSUME Shape, Q!KeysConsistent, OnePass, NEW t \in Tasks, CalmAt(t), NEW m \in Maintainers,
           maint[m].task = t, maint'[m].task # t,
           SameQueue(t), SameWorkers(t), SameRequests(t), dispatch'[t] = dispatch[t],
           \A v \in Workers : Holds(t, v)' => Holds(t, v) /\ v # maint[m].holder,
           \/ maint[m].pc = "requeue" /\ task'[t].status = "queued" /\ task'[t].retry <= MaxRetries
           \/ maint[m].pc = "bury" /\ task'[t].status = "dead_lettered" /\ task'[t].retry = task[t].retry
    PROVE  CalmAt(t)'
<1> USE DEF CalmAt
<1>0. /\ Holds(t, maint[m].holder) /\ maint[m].holder \in Workers
      /\ task[t].status \in Recoverable
  BY DEF MaintFits, RecoveryPCs, Shape, FramesOK, MaintFrameOK, LeaseFits
<1>1. Published(t)' = Published(t) /\ Live(t)' = Live(t)
  BY DEF SameQueue, Published, Live, Q!InNeitherQueue
<1>2. \A n \in Maintainers : n = m
  BY DEF OnePass
<1>3. \A v \in Workers : ~Holds(t, v)'
  BY <1>0 DEF LeaseFits
<1>4. task[t].status \notin {"queued", "planned", "dead_lettered", "cancelled"} /\ Published(t) /\ ~Moving(t)'
  BY <1>0, <1>2 DEF Recoverable, TaskFits, Moving
<1>a. maint[m].pc = "bury" => ~Live(t) /\ deadPayloads[t] = "message" /\ \A v \in Workers : worker[v].task # t
  <2> SUFFICES ASSUME maint[m].pc = "bury", NEW v \in Workers, worker[v].task = t
               PROVE  FALSE
    BY DEF MaintFits
  <2>1. worker[v].pc \in ReportPCs
    BY Alone DEF MaintFits
  <2> QED BY <1>0, <2>1 DEF WorkerFits, ReportPCs, Recoverable
<1>b. maint[m].pc = "requeue" => Live(t) /\ \A v \in Workers : worker[v].task = t => worker[v].pc \in {"read", "compensate"}
  BY DEF MaintFits
<1>5. TaskFits(t)'
  <2>1. TaskFits(t)
    OBVIOUS
  <2>2. t \in pendingPayloads' => Live(t)
    BY <1>1 DEF Live, Q!InNeitherQueue
  <2> HIDE DEF CalmAt
  <2> QED BY <1>1, <1>4, <1>a, <1>b, <2>1, <2>2 DEF TaskFits, SameQueue, Recoverable
<1>6. ASSUME NEW v \in Workers PROVE LeaseFits(t, v)'
  BY <1>3 DEF LeaseFits
<1>7. ASSUME NEW v \in Workers PROVE WorkerFits(t, v)'
  <2>1. CASE worker'[v].task = t
    <3>1. /\ worker'[v] = worker[v] /\ worker[v].pc \in {"read", "compensate"} /\ WorkerFits(t, v)
          /\ task'[t].status = "queued"
      BY <1>a, <1>b, <2>1 DEF SameWorkers
    <3> HIDE DEF CalmAt
    <3> QED BY <1>1, <2>1, <3>1 DEF WorkerFits, SameQueue, ReportPCs, WorkPCs
  <2> QED BY <2>1 DEF WorkerFits
<1>8. ASSUME NEW n \in Maintainers PROVE MaintFits(t, n)'
  BY <1>2 DEF MaintFits
<1>9. ASSUME NEW r \in Requests PROVE RequestFits(t, r)'
  BY <1>1, <1>4 DEF RequestFits, SameRequests
<1> QED BY <1>5, <1>6, <1>7, <1>8, <1>9

\* The pass makes the payload of a queued task, which nobody works on, pending again.
LEMMA OrphanMove ==
    ASSUME Shape, Q!KeysConsistent, OnePass, NEW t \in Tasks, CalmAt(t), NEW m \in Maintainers,
           maint'[m].task = t, maint'[m].pc = "orphan", maint'[m].row.status = "queued",
           task[t].status = "queued", leaseKey[t] = NoOwner, Live(t),
           SameRows(t), SameWorkers(t), SameRequests(t), deadPayloads'[t] = deadPayloads[t],
           t \in pendingPayloads', leaseKey'[t] = NoOwner,
           <<t, 0>> \in dispatchKeys' <=> <<t, 0>> \in dispatchKeys
    PROVE  CalmAt(t)'
<1> USE DEF CalmAt, SameRows
<1>1. Published(t)' = Published(t) /\ Live(t)'
  BY DEF Published, Live, Q!InNeitherQueue
<1>2. \A n \in Maintainers : n = m
  BY DEF OnePass
<1>3. \A v \in Workers : ~Holds(t, v)'
  BY NobodyHolds DEF Recoverable, Holds
<1>4. \A v \in Workers : worker'[v].task # t
  BY PendingIsFree DEF Nonterminal, SameWorkers
<1>5. TaskFits(t)'
  BY <1>1, RuntimeAssumption DEF RuntimeAssumption, TaskFits
<1>6. ASSUME NEW v \in Workers PROVE LeaseFits(t, v)'
  BY <1>3 DEF LeaseFits
<1>7. ASSUME NEW v \in Workers PROVE WorkerFits(t, v)'
  BY <1>4 DEF WorkerFits
<1>8. ASSUME NEW n \in Maintainers PROVE MaintFits(t, n)'
  BY <1>2 DEF MaintFits, RecoveryPCs
<1>9. ASSUME NEW r \in Requests PROVE RequestFits(t, r)'
  BY <1>1 DEF RequestFits, SameRequests
<1> QED BY <1>5, <1>6, <1>7, <1>8, <1>9

-----------------------------------------------------------------------------
\* A request reads, or is done; it may write the dispatch.
LEMMA RequestMove ==
    ASSUME Shape, NEW t \in Tasks, CalmAt(t), NEW r \in Requests,
           \A q \in Requests \ {r} : api'[q] = api[q],
           task'[t] = task[t], lease'[t] = lease[t], SameQueue(t), SameWorkers(t), SameMaints(t),
           DispatchFits(dispatch'[t], task[t].status),
           dispatch'[t] = dispatch[t] \/ Published(t),
           RequestFits(t, r)'
    PROVE  CalmAt(t)'
<1> USE DEF CalmAt
<1>a. Published(t)' = Published(t) /\ Live(t)' = Live(t)
  BY DEF SameQueue, Published, Live, Q!InNeitherQueue
<1>b. Moving(t)' = Moving(t)
  BY DEF Moving, SameMaints
<1>c. \A v : Holds(t, v)' = Holds(t, v) /\ Abandoned(t, v)' = Abandoned(t, v)
  BY DEF SameQueue, SameWorkers, Holds, Abandoned
<1>5. TaskFits(t)'
  BY <1>a, <1>b DEF TaskFits, SameQueue, DispatchFits
<1>6. ASSUME NEW v \in Workers PROVE LeaseFits(t, v)'
  BY <1>c DEF LeaseFits, SameWorkers, SameMaints
<1>7. ASSUME NEW v \in Workers PROVE WorkerFits(t, v)'
  BY <1>b DEF WorkerFits, SameQueue, SameWorkers
<1>8. ASSUME NEW n \in Maintainers PROVE MaintFits(t, n)'
  <2>1. CASE maint'[n].task = t
    <3>1. maint'[n] = maint[n] /\ MaintFits(t, n)
      BY <2>1 DEF SameMaints
    <3>2. \A w \in Workers : worker'[w].task = t => worker'[w] = worker[w]
      BY DEF SameWorkers
    <3>3. /\ leaseKey'[t] = leaseKey[t] /\ deadPayloads'[t] = deadPayloads[t] /\ task'[t] = task[t]
          /\ t \in processingPayloads' <=> t \in processingPayloads
      BY DEF SameQueue
    <3> HIDE DEF CalmAt
    <3> QED BY <1>a, <1>c, <2>1, <3>1, <3>2, <3>3 DEF MaintFits
  <2> QED BY <2>1 DEF MaintFits
<1>9. ASSUME NEW q \in Requests PROVE RequestFits(t, q)'
  <2>1. CASE q # r
    <3>1. /\ api'[q] = api[q] /\ RequestFits(t, q) /\ RequestFits(t, r)'
          /\ \A p \in Requests \ {r} : api'[p] = api[p]
      BY <2>1
    <3> HIDE DEF CalmAt
    <3> QED BY <1>a, <3>1 DEF RequestFits
  <2> QED BY <2>1
<1> QED BY <1>5, <1>6, <1>7, <1>8, <1>9

\* A mission admission queues a planned task and arms its first dispatch.
LEMMA AdmitMove ==
    ASSUME Shape, Q!KeysConsistent, NEW t \in Tasks, CalmAt(t), NEW r \in Requests,
           task[t].status = "planned", api[r].task = t, api[r].pc = "commit",
           \A q \in Requests \ {r} : api'[q] = api[q],
           api'[r].task = t, api'[r].pc = "publish",
           task'[t].status = "queued", task'[t].retry = task[t].retry,
           dispatch'[t] = Fresh, lease'[t] = lease[t],
           SameQueue(t), SameWorkers(t), SameMaints(t)
    PROVE  CalmAt(t)'
<1> USE DEF CalmAt
<1>1. ~Published(t) /\ ~Published(t)' /\ ~Live(t) /\ ~Live(t)'
  BY DEF SameQueue, Published, Live, Q!InNeitherQueue, TaskFits
<1>2. \A v \in Workers : ~Holds(t, v)'
  BY NobodyHolds DEF Recoverable, Holds
<1>3. \A v \in Workers : worker'[v].task # t
  <2>1. ASSUME NEW v \in Workers, worker[v].task = t PROVE FALSE
    <3>1. worker[v].pc \in WorkerPCs \ {"idle"}
      BY <2>1, RuntimeAssumption DEF RuntimeAssumption, Shape, FramesOK, WorkerFrameOK, WorkerFrames
    <3>2. ~Moving(t)
      BY NobodyHolds DEF Recoverable
    <3> QED BY <2>1, <3>1, <3>2 DEF WorkerFits, WorkerPCs, WorkPCs
  <2> QED BY <2>1 DEF SameWorkers
<1>4. \A m \in Maintainers : maint[m].task = t => maint[m].pc \notin RecoveryPCs
  BY NobodyHolds DEF Recoverable
<1>5. TaskFits(t)'
  BY <1>1, RuntimeAssumption DEF TaskFits, SameQueue, Fresh, NewDispatch, NoDispatch, Recoverable,
     Live, Q!InNeitherQueue
<1>6. ASSUME NEW v \in Workers PROVE LeaseFits(t, v)'
  BY <1>2 DEF LeaseFits
<1>7. ASSUME NEW v \in Workers PROVE WorkerFits(t, v)'
  BY <1>3 DEF WorkerFits
<1>8. ASSUME NEW m \in Maintainers PROVE MaintFits(t, m)'
  <2>1. CASE maint'[m].task = t
    <3>1. maint'[m] = maint[m] /\ MaintFits(t, m) /\ maint[m].pc \notin RecoveryPCs
      BY <1>4, <2>1 DEF SameMaints
    <3>2. maint[m].pc \notin {"due", "ack", "loaded", "reconcile"}
      BY <1>1, <2>1, <3>1 DEF MaintFits
    <3> HIDE DEF CalmAt
    <3> QED BY <2>1, <3>1, <3>2 DEF MaintFits, RecoveryPCs
  <2> QED BY <2>1 DEF MaintFits
<1>9. ASSUME NEW q \in Requests PROVE RequestFits(t, q)'
  <2>1. CASE q # r /\ api'[q].task = t
    <3>1. api'[q] = api[q] /\ api[q].pc \notin {"commit", "publish", "send", "ack", "cleanup"}
      BY <2>1 DEF RequestFits
    <3> HIDE DEF CalmAt
    <3> QED BY <3>1 DEF RequestFits
  <2>2. CASE q = r
    BY <2>2 DEF RequestFits
  <2> QED BY <2>1, <2>2 DEF RequestFits
<1> QED BY <1>5, <1>6, <1>7, <1>8, <1>9

\* The lease key of a worker that is off the task expires.
LEMMA KeyLapse ==
    ASSUME Shape, Q!KeysConsistent, NEW t \in Tasks, CalmAt(t), NEW h \in Workers,
           leaseKey[t] = h, worker[h].task # t,
           \A m \in Maintainers : maint[m].task = t => h \notin maint[m].since,
           SameRows(t), SameWorkers(t), SameMaints(t), SameRequests(t),
           leaseKey'[t] = NoOwner, deadPayloads'[t] = deadPayloads[t],
           t \in pendingPayloads' <=> t \in pendingPayloads,
           t \in processingPayloads' <=> t \in processingPayloads,
           <<t, 0>> \in dispatchKeys' <=> <<t, 0>> \in dispatchKeys
    PROVE  CalmAt(t)'
<1> USE DEF CalmAt, SameRows
<1>a. Published(t)' = Published(t) /\ Live(t)' = Live(t)
  BY DEF Published, Live, Q!InNeitherQueue
<1>b. Moving(t)' = Moving(t)
  BY DEF Moving, SameMaints
<1>c. \A v : Holds(t, v)' = Holds(t, v) /\ (Abandoned(t, v) => Abandoned(t, v)')
  BY DEF SameWorkers, Holds, Abandoned
<1>d. \A v \in Workers : worker[v].task = t => worker[v].pc \in ReportPCs
  BY DEF WorkerFits
<1>5. TaskFits(t)'
  BY <1>a, <1>b, RuntimeAssumption DEF RuntimeAssumption, TaskFits
<1>6. ASSUME NEW v \in Workers PROVE LeaseFits(t, v)'
  BY <1>c DEF LeaseFits, SameWorkers, SameMaints
<1>7. ASSUME NEW v \in Workers PROVE WorkerFits(t, v)'
  BY <1>b, <1>d DEF WorkerFits, SameWorkers
<1>8. ASSUME NEW n \in Maintainers PROVE MaintFits(t, n)'
  <2>1. CASE maint'[n].task = t
    <3>1. maint'[n] = maint[n] /\ MaintFits(t, n) /\ leaseKey[t] \notin maint[n].since
      BY <2>1 DEF SameMaints
    <3>2. \A w \in Workers : worker'[w].task = t => worker'[w] = worker[w]
      BY DEF SameWorkers
    <3>3. deadPayloads'[t] = deadPayloads[t] /\ task'[t] = task[t]
          /\ (t \in processingPayloads' <=> t \in processingPayloads)
      OBVIOUS
    <3> HIDE DEF CalmAt
    <3> QED BY <1>a, <1>c, <2>1, <3>1, <3>2, <3>3 DEF MaintFits
  <2> QED BY <2>1 DEF MaintFits
<1>9. ASSUME NEW r \in Requests PROVE RequestFits(t, r)'
  BY <1>a DEF RequestFits, SameRequests
<1> QED BY <1>5, <1>6, <1>7, <1>8, <1>9

-----------------------------------------------------------------------------
\* The steps of a worker on its task.
LEMMA OnlyHolder ==
    ASSUME Shape, Q!KeysConsistent, NEW t \in Tasks, CalmAt(t), NEW w \in Workers,
           worker[w].task = t, worker[w].pc \in InHandPCs \cup {"claim", "stale"}
    PROVE  /\ \A v \in Workers : Holds(t, v) => v = w
           /\ \A m \in Maintainers : maint[m].task = t => maint[m].pc \notin RecoveryPCs
<1>1. CASE worker[w].pc \in InHandPCs
  <2>1. \A m \in Maintainers : maint[m].task = t => maint[m].pc \notin RecoveryPCs
    BY <1>1, NoRecovery
  <2>2. worker[w].pc \notin ReportPCs
    BY <1>1 DEF InHandPCs, WorkPCs, ReportPCs
  <2>3. \A v \in Workers : worker[v].task = t => v = w
    BY <2>2, Alone
  <2> QED BY <2>1, <2>3 DEF CalmAt, LeaseFits, Abandoned, RecoveryPCs
<1>2. CASE worker[w].pc \in {"claim", "stale"}
  BY <1>2, NobodyHolds DEF CalmAt, WorkerFits, Recoverable
<1> QED BY <1>1, <1>2

\* A step of a worker that only reads leaves its frame or moves on.
LEMMA WorkerReadsCalm ==
    ASSUME Shape, Q!TypeOK, Q!KeysConsistent, HeldHasLease, NEW t \in Tasks, CalmAt(t),
           NEW w \in Workers,
           worker[w].task = t,
           \/ ClaimRead(w) \/ CommitClaimFails(w) \/ Heartbeat(w) \/ HandlerReturns(w) \/ HandlerFails(w)
           \/ CompleteRead(w) \/ CompleteFails(w) \/ BlockRead(w) \/ FailRead(w) \/ WorkerCrash(w)
    PROVE  CalmAt(t)'
<1> USE DEF At, Task, Row
<1>0. t # NoTask
  BY RuntimeAssumption DEF RuntimeAssumption
<1>o. /\ <<"claim", "compensate">> \in OwnSteps /\ <<"heartbeat", "start">> \in OwnSteps
      /\ \A p, q \in WorkPCs : <<p, q>> \in OwnSteps
      /\ \A p \in {"claim", "stale", "compensate"} : <<"read", p>> \in OwnSteps
      /\ "claim" \notin WorkPCs /\ "stale" \notin WorkPCs
  BY DEF OwnSteps, WorkPCs
<1>1. /\ UNCHANGED <<task, dispatch, queueVars, maint, api>>
      /\ UNCHANGED lease \/ Heartbeat(w)
  BY DEF ClaimRead, CommitClaimFails, Heartbeat, HandlerReturns, HandlerFails, CompleteRead,
     CompleteFails,
     BlockRead, FailRead, WorkerCrash, dbVars
<1>2. SameQueue(t) /\ SameMaints(t) /\ SameRequests(t)
  BY <1>1, SameQueueVars DEF SameMaints, SameRequests
<1>3. ASSUME Done(w), UNCHANGED lease PROVE CalmAt(t)'
  <2>1. worker'[w].task # t /\ (\A v \in Workers \ {w} : worker'[v] = worker[v]) /\ SameRows(t)
    BY <1>0, <1>1, <1>3, FrameMoves DEF SameRows
  <2> QED BY <1>2, <2>1, LetGo
<1>4. ASSUME NEW pc, Goto(w, pc) \/ (\E meta : GotoWith(w, pc, meta)), <<worker[w].pc,
     pc>> \in OwnSteps,
             pc \in {"claim", "stale"} => task[t].status = "queued", pc = "claim" => t \notin Clarifying,
             \A v : Holds(t, v)' = Holds(t, v)
      PROVE  CalmAt(t)'
  <2>1. worker'[w].pc = pc /\ worker'[w].task = t /\ \A v \in Workers \ {w} : worker'[v] = worker[v]
    BY <1>4, FrameMoves
  <2>2. Mine(t, w)
    BY <1>2, <2>1 DEF Mine
  <2> QED BY <1>1, <1>2, <1>4, <2>1, <2>2, OwnMove
<1>5. UNCHANGED lease => \A v : Holds(t, v)' = Holds(t, v)
  BY DEF Holds
<1>6. CASE ClaimRead(w)
  <2>1. worker[w].pc = "read" /\ UNCHANGED lease
    BY <1>6 DEF ClaimRead, dbVars
  <2>2. task[t].status \in Nonterminal
    BY <2>1, Alone DEF ReportPCs
  <2>3. task[t].status \in Recoverable => t \notin Clarifying
    BY DEF CalmAt, TaskFits
  <2>4. ClaimBranch(w) = "stale" => task[t].status = "queued"
    BY <2>2, <2>3 DEF ClaimBranch, Nonterminal
  <2>5. ClaimBranch(w) = "claim" => task[t].status = "queued" /\ t \notin Clarifying
    <3>1. ~CanMove("running", "claimed") /\ ~CanMove("claimed", "claimed")
      BY DEF CanMove, TaskAllowed
    <3>2. ClaimBranch(w) = "claim" => t \notin Clarifying /\ CanMove(task[t].status, "claimed")
      BY DEF ClaimBranch
    <3> QED BY <2>2, <3>1, <3>2 DEF Nonterminal, Recoverable
  <2>6. ClaimBranch(w) \in {"idle", "stale", "claim", "compensate"}
    BY <2>2 DEF ClaimBranch, Nonterminal, Recoverable, TerminalStates
  <2>7. Done(w) \/ (ClaimBranch(w) # "idle" /\ \E meta : GotoWith(w, ClaimBranch(w), meta))
    BY <1>6 DEF ClaimRead
  <2> QED BY <1>o, <1>3, <1>4, <1>5, <2>1, <2>4, <2>5, <2>6, <2>7
<1>7. CASE CommitClaimFails(w)
  <2>1. worker[w].pc = "claim" /\ GotoWith(w, "compensate", NoMeta) /\ UNCHANGED lease
    BY <1>7 DEF CommitClaimFails, dbVars
  <2> QED BY <1>o, <1>4, <1>5, <2>1
<1>8. CASE Heartbeat(w)
  <2>1. worker[w].pc = "heartbeat" /\ Goto(w, "start") /\ PutLease(t, w, "active")
    BY <1>8 DEF Heartbeat
  <2>2. Holds(t, w)
    BY <2>1 DEF HeldHasLease, HeldPCs
  <2>3. lease'[t] = [lease[t] EXCEPT ![w] = "active"]
    BY <2>1 DEF PutLease, Shape, RowsOK
  <2>4. \A v : Holds(t, v)' = Holds(t, v)
    <3>1. \A v : v # w => lease'[t][v] = lease[t][v]
      BY <2>3
    <3>2. lease'[t][w] = "active"
      BY <2>3 DEF Shape, RowsOK
    <3> QED BY <2>2, <3>1, <3>2 DEF Holds
  <2> QED BY <1>o, <1>4, <2>1, <2>4
<1>9. CASE HandlerReturns(w) \/ HandlerFails(w)
  <2>1. worker[w].pc = "run" /\ (Goto(w, "complete") \/ Goto(w, "fail")) /\ UNCHANGED lease
    BY <1>9 DEF HandlerReturns, HandlerFails, dbVars
  <2>2. "run" \in WorkPCs /\ "complete" \in WorkPCs /\ "fail" \in WorkPCs
    BY DEF WorkPCs
  <2> QED BY <1>o, <1>4, <1>5, <2>1, <2>2
<1>10. CASE CompleteRead(w) \/ CompleteFails(w)
  <2>1. /\ worker[w].pc \in {"complete", "complete_commit"} /\ UNCHANGED lease
        /\ \E pc \in {"complete_commit", "block", "fail"} : \E meta : GotoWith(w, pc, meta)
    BY <1>10 DEF CompleteRead, CompleteFails, CompletionError, dbVars
  <2>2. {"complete", "complete_commit", "block", "fail"} \subseteq WorkPCs
    BY DEF WorkPCs
  <2> QED BY <1>o, <1>4, <1>5, <2>1, <2>2
<1>11. CASE BlockRead(w) \/ FailRead(w)
  <2>1. /\ worker[w].pc \in {"block", "fail"} /\ UNCHANGED lease
        /\ Done(w) \/ Goto(w, "block_commit") \/ \E meta : GotoWith(w, "fail_commit", meta)
    BY <1>11 DEF BlockRead, FailRead, dbVars
  <2>2. {"block", "fail", "block_commit", "fail_commit"} \subseteq WorkPCs
    BY DEF WorkPCs
  <2> QED BY <1>o, <1>3, <1>4, <1>5, <2>1, <2>2
<1>12. CASE WorkerCrash(w)
  BY <1>3, <1>12 DEF WorkerCrash, dbVars
<1> QED BY <1>6, <1>7, <1>8, <1>9, <1>10, <1>11, <1>12

\* What the rows of its task hold after a worker wrote a status and its lease.
LEMMA WorkerWroteRow ==
    ASSUME Shape, NEW t \in Tasks, NEW w \in Workers
    PROVE  /\ \A s : PutLease(t, w, s) => \A v \in Workers : lease'[t][v] = IF v = w THEN s ELSE lease[t][v]
           /\ \A s, meta : SetStatusMeta(t, s, meta) => task'[t].status = s /\ task'[t].retry = task[t].retry
           /\ \A s : SetStatus(t, s) => task'[t].status = s /\ task'[t].retry = task[t].retry
<1>0. task \in [Tasks -> TaskRow] /\ lease \in [Tasks -> [Workers -> LeaseStatuses]]
  BY DEF Shape, RowsOK
<1>1. ASSUME NEW s, PutLease(t, w, s), NEW v \in Workers PROVE lease'[t][v] = IF v = w THEN s ELSE lease[t][v]
  BY <1>0, <1>1 DEF PutLease
<1>2. ASSUME NEW s, NEW meta, SetStatusMeta(t, s, meta) PROVE task'[t].status = s /\ task'[t].retry = task[t].retry
  BY <1>0, <1>2, WriteOne
<1>3. ASSUME NEW s, SetStatus(t, s) PROVE task'[t].status = s /\ task'[t].retry = task[t].retry
  BY <1>0, <1>3, WriteOne
<1> QED BY <1>1, <1>2, <1>3

\* A new lease row changes nothing of what passes and requests have read of a task
\* but whose lease row it was.
LEMMA InsertReads ==
    ASSUME Shape, NEW t \in Tasks, NEW w \in Workers, InsertLease(t, w), NEW u \in Tasks
    PROVE  SameMaintReads(u) /\ SameRequestReads(u)
<1>1. SameMaintReads(u)
  BY DEF InsertLease, SameMaintReads, Shape, FramesOK, MaintFrames
<1>2. SameRequestReads(u)
  BY DEF InsertLease, SameRequestReads, Shape, FramesOK, ApiFrames
<1> QED BY <1>1, <1>2

\* The commits of a worker: claim, start, completion, block, failure, cancellation
\* of a stale delivery.
LEMMA WorkerWritesCalm ==
    ASSUME Shape, Q!TypeOK, Q!KeysConsistent, NEW t \in Tasks, CalmAt(t), NEW w \in Workers,
           worker[w].task = t,
           \/ CommitClaim(w) \/ StartExecution(w) \/ CompleteCommit(w) \/ BlockCommit(w) \/ FailCommit(w)
           \/ CancelStale(w)
    PROVE  CalmAt(t)'
<1> USE DEF At, Task, Row
<1> DEFINE s == task'[t].status
<1>1. worker[w].pc \in {"claim", "start", "complete_commit", "block_commit", "fail_commit", "stale"}
  BY DEF CommitClaim, StartExecution, CompleteCommit, BlockCommit, FailCommit, CancelStale
<1>2. worker[w].pc \notin ReportPCs /\ worker[w].pc \in InHandPCs \cup {"claim", "stale"}
  BY <1>1 DEF ReportPCs, InHandPCs, WorkPCs
<1>3. /\ \A v \in Workers : Holds(t, v) => v = w
      /\ \A m \in Maintainers : maint[m].task = t => maint[m].pc \notin RecoveryPCs
  BY <1>2, OnlyHolder
<1>4. leaseKey[t] = w /\ task[t].status \in Nonterminal
  BY <1>2, Alone
<1>5. UNCHANGED queueVars
  BY DEF CommitClaim, StartExecution, CompleteCommit, BlockCommit, FailCommit, CancelStale
<1>6. SameQueue(t)
  BY <1>5, SameQueueVars
<1>d. DispatchFits(dispatch[t], task[t].status) /\ (task[t].status \in Recoverable => t \notin Clarifying)
  BY DEF CalmAt, TaskFits, DispatchFits
<1>w. WorkerFits(t, w)
  BY DEF CalmAt
<1>c. task[t].status # "cancelled"
  BY <1>4 DEF Nonterminal, Recoverable
<1>7. \* The conditions of WriteMove for a worker that keeps its task.
      ASSUME NEW pc, Goto(w, pc) \/ (\E meta : GotoWith(w, pc, meta)),
             SameMaintReads(t), SameRequestReads(t),
             s \in Recoverable \cup {"completed", "blocked", "failed", "cancelled"},
             s \in Recoverable => t \notin Clarifying, task'[t].retry = task[t].retry,
             dispatch'[t] = dispatch[t] \/ DispatchFits(dispatch'[t], s),
             \A v \in Workers : Holds(t, v)' => v = w /\ s \in Recoverable /\ pc \in InHandPCs,
             \/ pc = "heartbeat" /\ s = "claimed"
             \/ pc = "run" /\ s = "running"
             \/ pc = "complete_queue" /\ s \in {"completed", "blocked"}
             \/ pc = "fail_queue" /\ s = "failed"
             \/ pc = "stale_queue" /\ s = "cancelled"
      PROVE  CalmAt(t)'
  <2>1. worker'[w].pc = pc /\ worker'[w].task = t /\ \A v \in Workers \ {w} : worker'[v] = worker[v]
    BY <1>7, FrameMoves
  <2>2. leaseKey'[t] = w
    BY <1>4, <1>6 DEF SameQueue
  <2>3. WorkerFits(t, w)'
    BY <1>7, <2>1, <2>2 DEF WorkerFits, WorkPCs, ReportPCs
  <2>4. DispatchFits(dispatch'[t], s)
    BY <1>7, <1>c, <1>d DEF DispatchFits
  <2> HIDE DEF At, Task, Row
  <2> QED BY <1>2, <1>3, <1>6, <1>7, <2>1, <2>3, <2>4, WriteMove
<1> HIDE DEF s
<1>8. UNCHANGED <<maint, api>> => SameMaintReads(t) /\ SameRequestReads(t)
  BY DEF SameMaintReads, SameRequestReads
<1>9. {"heartbeat", "run"} \subseteq InHandPCs /\ {"claimed", "running"} = Recoverable
  BY DEF InHandPCs, WorkPCs, Recoverable
<1>10. CASE CommitClaim(w)
  <2>1. /\ SetStatusMeta(t, "claimed", [cancel |-> worker[w].meta.cancel, ref |-> w]) /\ InsertLease(t, w)
        /\ \E meta : GotoWith(w, "heartbeat", meta)
        /\ dispatch' = dispatch /\ worker[w].pc = "claim"
    BY <1>10 DEF CommitClaim
  <2>2. s = "claimed" /\ task'[t].retry = task[t].retry
    BY <2>1, WorkerWroteRow DEF s
  <2>3. \A v \in Workers : Holds(t, v)' => v = w
    <3>1. \A v \in Workers : lease'[t][v] = IF v = w THEN "claimed" ELSE lease[t][v]
      BY <2>1, WorkerWroteRow DEF InsertLease
    <3> QED BY <1>3, <3>1 DEF Holds
  <2>4. t \notin Clarifying
    BY <1>w, <2>1 DEF WorkerFits
  <2>5. SameMaintReads(t) /\ SameRequestReads(t)
    BY <2>1, InsertReads
  <2> QED BY <1>7, <1>9, <2>1, <2>2, <2>3, <2>4, <2>5
<1>11. CASE StartExecution(w)
  <2>1. /\ SetStatusMeta(t, "running", worker[w].meta)
        /\ \E meta : GotoWith(w, "run", meta)
        /\ UNCHANGED <<dispatch, lease, maint, api>> /\ worker[w].pc = "start"
    BY <1>11 DEF StartExecution
  <2>2. s = "running" /\ task'[t].retry = task[t].retry
    BY <2>1, WorkerWroteRow DEF s
  <2>3. \A v \in Workers : Holds(t, v)' => v = w
    BY <1>3, <2>1 DEF Holds
  <2>4. t \notin Clarifying
    BY <1>w, <1>d, <1>9, <2>1 DEF WorkerFits
  <2> QED BY <1>7, <1>8, <1>9, <2>1, <2>2, <2>3, <2>4
<1>12. CASE CompleteCommit(w) \/ BlockCommit(w) \/ FailCommit(w)
  <2>1. /\ PutLease(t, w, "released") /\ UNCHANGED <<dispatch, maint, api>>
        /\ \/ (\E meta : SetStatusMeta(t, "completed", meta)) /\ (\E meta : GotoWith(w, "complete_queue", meta))
           \/ SetStatus(t, "blocked") /\ Goto(w, "complete_queue")
           \/ (\E meta : SetStatusMeta(t, "failed", meta)) /\ (\E meta : GotoWith(w, "fail_queue", meta))
    BY <1>12 DEF CompleteCommit, BlockCommit, FailCommit
  <2>2. /\ task'[t].retry = task[t].retry
        /\ \/ s = "completed" /\ (\E meta : GotoWith(w, "complete_queue", meta))
           \/ s = "blocked" /\ Goto(w, "complete_queue")
           \/ s = "failed" /\ (\E meta : GotoWith(w, "fail_queue", meta))
    BY <2>1, WorkerWroteRow DEF s
  <2>3. \A v \in Workers : ~Holds(t, v)'
    <3>1. \A v \in Workers : lease'[t][v] = IF v = w THEN "released" ELSE lease[t][v]
      BY <2>1, WorkerWroteRow
    <3> QED BY <1>3, <3>1 DEF Holds
  <2>4. s \notin Recoverable /\ dispatch'[t] = dispatch[t]
    BY <2>1, <2>2 DEF Recoverable
  <2> QED BY <1>7, <1>8, <2>1, <2>2, <2>3, <2>4
<1>13. CASE CancelStale(w)
  <2>1. /\ SetStatus(t, "cancelled") /\ PutDispatch(t, dispatch[t], CancelledDispatch(dispatch[t]))
        /\ Goto(w, "stale_queue") /\ UNCHANGED <<lease, maint, api>> /\ worker[w].pc = "stale"
    BY <1>13 DEF CancelStale, leaseVars
  <2>2. s = "cancelled" /\ task'[t].retry = task[t].retry
    BY <2>1, WorkerWroteRow DEF s
  <2>3. \A v \in Workers : ~Holds(t, v)'
    <3>1. task[t].status \notin Recoverable
      BY <1>w, <2>1 DEF WorkerFits, Recoverable
    <3> QED BY <2>1, <3>1, NobodyHolds DEF Holds
  <2>4. dispatch'[t].status # "pending"
    <3>1. dispatch[t] \in DispatchRow /\ dispatch' = [dispatch EXCEPT ![t] = Flush(dispatch[t], dispatch[t], CancelledDispatch(dispatch[t]))]
      BY <2>1 DEF PutDispatch, Shape, RowsOK
    <3>2. dispatch'[t].status = CancelledDispatch(dispatch[t]).status
      BY <3>1 DEF Flush, DispatchRow, Shape, RowsOK
    <3>3. CancelledDispatch(dispatch[t]).status # "pending"
      BY <3>1 DEF CancelledDispatch, DispatchRow
    <3> QED BY <3>2, <3>3
  <2>5. DispatchFits(dispatch'[t], s) /\ s \notin Recoverable
    BY <2>2, <2>4 DEF DispatchFits, Recoverable
  <2> QED BY <1>7, <1>8, <2>1, <2>2, <2>3, <2>5
<1> QED BY <1>10, <1>11, <1>12, <1>13

\* The scripts that remove a payload leave nothing of it.
LEMMA RemovalScripts ==
    ASSUME Q!TypeOK, Q!KeysConsistent, NEW t \in Tasks, NEW h,
           Q!Complete(t, h) \/ Q!Fail(t, h) \/ Q!MoveToDeadLetter(t, h)
    PROVE  Gone(t)
<1> USE DEF Q!TypeOK, Gone, Q!DelLease, Q!SetLease
<1>1. CASE Q!Complete(t, h)
  <2>1. t \in processingPayloads
    BY <1>1 DEF Q!Complete, Q!CompleteReply, Q!OwnedProcessingReply, Q!OwnerReply
  <2> QED BY <1>1, <2>1 DEF Q!Complete, Q!KeysConsistent, Q!OneLiveCopy
<1>2. CASE Q!Fail(t, h)
  <2>1. t \in processingPayloads
    BY <1>2 DEF Q!Fail, Q!FailReply, Q!OwnedProcessingReply, Q!OwnerReply
  <2> QED BY <1>2, <2>1 DEF Q!Fail, Q!KeysConsistent, Q!OneLiveCopy
<1>3. CASE Q!MoveToDeadLetter(t, h)
  BY <1>3 DEF Q!MoveToDeadLetter
<1> QED BY <1>1, <1>2, <1>3

\* The clean-up of a cancelled dispatch.
LEMMA CleanupCalm ==
    ASSUME Shape, Q!TypeOK, Q!KeysConsistent, NEW t \in Tasks, CalmAt(t),
           ReconcileCancelled(t) \/ (task[t].status = "cancelled" /\ CleanupAfterCancel(t))
    PROVE  /\ task[t].status = "cancelled" /\ SameQueue(t)
           /\ DispatchFits(dispatch'[t], "cancelled")
<1>1. CASE UNCHANGED <<queueVars, dispatch>> /\ ~ReconcileCancelled(t)
  BY <1>1, SameQueueVars DEF CalmAt, TaskFits, DispatchFits
<1>2. CASE ReconcileCancelled(t)
  <2>1. task[t].status = "cancelled"
    BY <1>2 DEF ReconcileCancelled, NeedsCancelCleanup, CalmAt, TaskFits
  <2>2. DispatchFits(dispatch'[t], "cancelled")
    BY <1>2 DEF ReconcileCancelled, NeedsCancelCleanup, DispatchFits, Shape, RowsOK, DispatchRow
  <2>3. t \notin pendingPayloads
    BY <2>1, NobodyHolds DEF CalmAt, TaskFits, Recoverable
  <2>4. SameQueue(t)
    BY <1>2, <2>3, SameQueueVars DEF ReconcileCancelled, Q!CancelPending, SameQueue, Q!deadVars
  <2> QED BY <2>1, <2>2, <2>4
<1> QED BY <1>1, <1>2 DEF CleanupAfterCancel

\* The queue calls that follow a worker's commits, and the compensation of a claim
\* that could not be recorded.
LEMMA WorkerQueueCalm ==
    ASSUME Shape, Q!TypeOK, Q!KeysConsistent, NEW t \in Tasks, CalmAt(t), NEW w \in Workers,
           worker[w].task = t,
           StaleQueue(w) \/ StaleCleanup(w) \/ CompleteQueue(w) \/ FailQueue(w) \/ Compensate(w)
    PROVE  CalmAt(t)'
<1> USE DEF At, Task
<1>0. t # NoTask
  BY RuntimeAssumption DEF RuntimeAssumption
<1>1. /\ UNCHANGED <<task, lease, maint, api>>
      /\ UNCHANGED dispatch \/ StaleCleanup(w)
      /\ worker[w].pc \in {"stale_queue", "cleanup", "complete_queue", "fail_queue", "compensate"}
  BY DEF StaleQueue, StaleCleanup, CompleteQueue, FailQueue, Compensate, dbVars, leaseVars
<1>w. WorkerFits(t, w) /\ DispatchFits(dispatch[t], task[t].status)
  BY DEF CalmAt, TaskFits, DispatchFits
<1>2. /\ Done(w) => worker'[w].task # t /\ (\A v \in Workers \ {w} : worker'[v] = worker[v])
      /\ Goto(w, "cleanup") => /\ worker'[w].task = t /\ worker'[w].pc = "cleanup"
                               /\ \A v \in Workers \ {w} : worker'[v] = worker[v]
  BY <1>0, FrameMoves
<1>3. SameMaints(t) /\ SameRequests(t)
  BY <1>1 DEF SameMaints, SameRequests
<1>4. CASE ~Compensate(w)
  <2>1. task[t].status \in Settled
    BY <1>4, <1>w DEF StaleQueue, StaleCleanup, CompleteQueue, FailQueue, WorkerFits, Settled
  <2>2. \A v \in Workers : worker[v].task = t => worker[v].pc \in ReportPCs
    BY <2>1, Alone DEF Settled, Nonterminal, Recoverable
  <2>3. (SameQueue(t) \/ Gone(t)) /\ DispatchFits(dispatch'[t], task[t].status)
    <3>1. CASE StaleQueue(w) \/ CompleteQueue(w) \/ FailQueue(w)
      <4>1. UNCHANGED <<queueVars, dispatch>> \/ ((Q!Complete(t, w) \/ Q!Fail(t, w)) /\ UNCHANGED dispatch)
        BY <3>1 DEF StaleQueue, CompleteQueue, FailQueue, Attempt, dbVars
      <4> QED BY <1>w, <4>1, SameQueueVars, RemovalScripts
    <3>2. CASE StaleCleanup(w)
      <4>1. task[t].status = "cancelled" /\ CleanupAfterCancel(t)
        BY <1>w, <3>2 DEF StaleCleanup, WorkerFits
      <4> QED BY <4>1, CleanupCalm
    <3> QED BY <1>4, <3>1, <3>2
  <2>4. CASE StaleQueue(w)
    <3>1. task[t].status = "cancelled" /\ Goto(w, "cleanup")
      BY <1>w, <2>4 DEF StaleQueue, WorkerFits
    <3>2. \A v \in Workers : worker'[v].task = t =>
             worker[v].task = t /\ worker'[v].pc \in ReportPCs /\ WorkerFits(t, v)'
      <4> SUFFICES ASSUME NEW v \in Workers, worker'[v].task = t
                   PROVE  worker[v].task = t /\ worker'[v].pc \in ReportPCs /\ WorkerFits(t, v)'
        OBVIOUS
      <4>1. worker[v].task = t /\ worker'[v].pc \in ReportPCs
        BY <1>2, <2>2, <3>1 DEF ReportPCs
      <4>2. CASE v = w
        BY <1>1, <1>2, <3>1, <4>2 DEF WorkerFits, ReportPCs, WorkPCs
      <4>3. CASE v # w
        <5>1. worker'[v] = worker[v] /\ WorkerFits(t, v)
          BY <1>2, <3>1, <4>3 DEF CalmAt
        <5> QED BY <1>1, <4>1, <5>1 DEF WorkerFits, ReportPCs
      <4> QED BY <4>1, <4>2, <4>3
    <3> QED BY <1>1, <1>3, <2>1, <2>3, <3>2, SettledMove
  <2>5. CASE Done(w)
    <3>2. \A v \in Workers : worker'[v].task = t =>
             worker[v].task = t /\ worker'[v].pc \in ReportPCs /\ WorkerFits(t, v)'
      <4> SUFFICES ASSUME NEW v \in Workers, worker'[v].task = t
                   PROVE  worker[v].task = t /\ worker'[v].pc \in ReportPCs /\ WorkerFits(t, v)'
        OBVIOUS
      <4>1. worker'[v] = worker[v] /\ WorkerFits(t, v) /\ worker[v].pc \in ReportPCs
        BY <1>2, <2>2, <2>5 DEF CalmAt
      <4> QED BY <1>1, <4>1 DEF WorkerFits, ReportPCs
    <3> QED BY <1>1, <1>3, <2>1, <2>3, <3>2, SettledMove
  <2> QED BY <1>4, <2>4, <2>5 DEF StaleCleanup, CompleteQueue, FailQueue
<1>5. CASE Compensate(w)
  <2>1. Done(w) /\ SameRows(t) /\ worker[w].pc = "compensate"
    BY <1>5 DEF Compensate, dbVars, SameRows
  <2>2. CASE UNCHANGED queueVars
    BY <1>2, <1>3, <2>1, <2>2, SameQueueVars, LetGo
  <2>3. CASE Q!Release(t, w)
    <3>1. /\ t \in pendingPayloads' /\ t \notin processingPayloads' /\ leaseKey'[t] = NoOwner
          /\ <<t, 0>> \in dispatchKeys' <=> <<t, 0>> \in dispatchKeys
      BY <2>3 DEF Q!Release, Q!TypeOK, Q!DelLease, Q!SetLease
    <3> QED BY <1>2, <1>3, <2>1, <3>1, GiveBack
  <2> QED BY <1>5, <2>2, <2>3 DEF Compensate, Attempt
<1> QED BY <1>4, <1>5

\* claim_next hands a pending payload to a worker.
LEMMA WorkerClaimCalm ==
    ASSUME Shape, Q!TypeOK, Q!KeysConsistent, NEW t \in Tasks, CalmAt(t), NEW w \in Workers,
           worker'[w].task = t, ClaimTask(w)
    PROVE  CalmAt(t)'
<1>1. PICK u \in Tasks : Q!ClaimNext(u, w) /\ worker' = [worker EXCEPT ![w].pc = "read", ![w].task = u]
  BY DEF ClaimTask
<1>2. u = t /\ worker'[w].pc = "read" /\ \A v \in Workers \ {w} : worker'[v] = worker[v]
  BY <1>1 DEF Shape, FramesOK, WorkerFrames
<1>3. /\ t \in pendingPayloads /\ t \notin pendingPayloads' /\ t \in processingPayloads' /\ leaseKey'[t] = w
      /\ <<t, 0>> \in dispatchKeys' <=> <<t, 0>> \in dispatchKeys
      /\ deadPayloads'[t] = deadPayloads[t]
  BY <1>1, <1>2 DEF Q!ClaimNext, Q!ClaimNextReply, Q!TypeOK, Q!SetLease, Q!deadVars
<1>4. SameRows(t) /\ SameRequests(t)
  BY DEF ClaimTask, dbVars, SameRows, SameRequests
<1>5. \A m \in Maintainers :
        /\ maint'[m].pc = maint[m].pc /\ maint'[m].task = maint[m].task
        /\ maint'[m].holder = maint[m].holder /\ maint'[m].row = maint[m].row
        /\ maint'[m].disp = maint[m].disp /\ maint'[m].latest = maint[m].latest
        /\ maint[m].task = t => w \in maint'[m].since
  BY ClaimSeen
<1> QED BY <1>2, <1>3, <1>4, <1>5, TakeUp

\* The steps that do not happen in the calm setting.
LEMMA WorkerNever ==
    ASSUME CalmSetting, Shape, Q!KeysConsistent, NEW t \in Tasks, CalmAt(t), NEW w \in Workers,
           worker[w].task = t
    PROVE  /\ ~DiscardTerminal(w) /\ ~HeartbeatRefused(w) /\ ~StartFails(w)
           /\ ~Release(w) /\ ~ReleaseCommit(w)
<1> USE DEF At, Task
<1>1. WorkerFits(t, w)
  BY DEF CalmAt
<1>2. ~DiscardTerminal(w) /\ ~Release(w) /\ ~ReleaseCommit(w)
  BY <1>1 DEF DiscardTerminal, Release, ReleaseCommit, WorkerFits
<1>3. ~HeartbeatRefused(w)
  <2> SUFFICES ASSUME HeartbeatRefused(w) PROVE FALSE
    OBVIOUS
  <2>1. worker[w].pc = "heartbeat" /\ Q!HeartbeatReply(t, w) # "ok"
    BY DEF HeartbeatRefused
  <2>2. leaseKey[t] = w /\ w # NoOwner
    BY <1>1, <2>1, RuntimeAssumption DEF RuntimeAssumption, WorkerFits, ReportPCs
  <2> QED BY <2>1, <2>2 DEF Q!HeartbeatReply, Q!OwnerReply
<1>4. ~StartFails(w)
  BY DEF CalmSetting, StartFails, Fault
<1> QED BY <1>2, <1>3, <1>4

\* Every step of a worker, and its crash, keeps every task calm.
LEMMA WorkerCalm ==
    ASSUME CalmSetting, Shape, Q!TypeOK, Q!KeysConsistent, HeldHasLease, NEW t \in Tasks, CalmAt(t),
           NEW w \in Workers, WorkerStep(w) \/ WorkerCrash(w)
    PROVE  CalmAt(t)'
<1>0. t # NoTask
  BY RuntimeAssumption DEF RuntimeAssumption
<1>1. CASE t # worker[w].task /\ t # worker'[w].task
  BY <1>1, WorkerElsewhere, UntouchedStays
<1>2. CASE t # worker[w].task /\ t = worker'[w].task
  BY <1>0, <1>2, WorkerTasks, WorkerClaimCalm
<1>3. CASE worker[w].task = t
  <2>1. ~ClaimTask(w)
    BY <1>0, <1>3 DEF ClaimTask, At, Shape, FramesOK, WorkerFrameOK
  <2> QED BY <1>3, <2>1, WorkerNever, WorkerReadsCalm, WorkerWritesCalm, WorkerQueueCalm DEF WorkerStep
<1> QED BY <1>1, <1>2, <1>3

-----------------------------------------------------------------------------
\* The steps of a pass.
LEMMA PassFrames ==
    ASSUME Shape, NEW m \in Maintainers
    PROVE  /\ \A pc : MGoto(m, pc) => /\ maint'[m] = [maint[m] EXCEPT !.pc = pc]
                                      /\ maint'[m].pc = pc /\ maint'[m].task = maint[m].task
                                      /\ maint'[m].holder = maint[m].holder /\ maint'[m].row = maint[m].row
                                      /\ maint'[m].disp = maint[m].disp /\ maint'[m].since = maint[m].since
                                      /\ maint'[m].latest = maint[m].latest
                                      /\ \A n \in Maintainers \ {m} : maint'[n] = maint[n]
           /\ MDone(m) => /\ maint'[m].task = NoTask /\ maint'[m].pc = "idle"
                          /\ \A n \in Maintainers \ {m} : maint'[n] = maint[n]
<1>1. maint \in [Maintainers -> MaintFrames]
  BY DEF Shape, FramesOK
<1>2. ASSUME NEW pc, MGoto(m, pc)
      PROVE  /\ maint'[m] = [maint[m] EXCEPT !.pc = pc]
             /\ maint'[m].pc = pc /\ maint'[m].task = maint[m].task
             /\ maint'[m].holder = maint[m].holder /\ maint'[m].row = maint[m].row
             /\ maint'[m].disp = maint[m].disp /\ maint'[m].since = maint[m].since
             /\ maint'[m].latest = maint[m].latest
             /\ \A n \in Maintainers \ {m} : maint'[n] = maint[n]
  BY <1>1, <1>2 DEF MGoto, MaintFrames
<1>3. MDone(m) => /\ maint'[m].task = NoTask /\ maint'[m].pc = "idle"
                  /\ \A n \in Maintainers \ {m} : maint'[n] = maint[n]
  BY <1>1 DEF MDone, IdleMaint
<1> QED BY <1>2, <1>3

\* A pass takes a task up.
LEMMA PassReadsCalm ==
    ASSUME CalmSetting, Shape, Q!TypeOK, NEW t \in Tasks, CalmAt(t), NEW m \in Maintainers,
           maint'[m].task = t, ListDue(m) \/ RecoverRead(m) \/ ReconcileLoad(m)
    PROVE  CalmAt(t)'
<1> USE DEF MAt
<1>0. maint \in [Maintainers -> MaintFrames] /\ maint[m].pc = "idle"
  BY DEF Shape, FramesOK, ListDue, RecoverRead, ReconcileLoad
<1>1. UNCHANGED <<task, lease, dispatch, queueVars, worker, api>>
  BY DEF ListDue, RecoverRead, ReconcileLoad, dbVars
<1>2. SameQueue(t) /\ SameWorkers(t) /\ SameRequests(t) /\ DispatchFits(dispatch'[t], task[t].status)
  BY <1>1, SameQueueVars DEF SameWorkers, SameRequests, CalmAt, TaskFits, DispatchFits
<1>3. (\A n \in Maintainers \ {m} : maint'[n] = maint[n]) /\ maint'[m].pc # "requeue" /\ maint'[m].pc # "bury"
      /\ MaintFits(t, m)'
  <2>t. TaskFits(t)
    BY DEF CalmAt
  <2>1. CASE ListDue(m)
    <3>1. PICK u \in Tasks : /\ dispatch[u].status = "pending"
                             /\ maint' = [maint EXCEPT ![m] = [IdleMaint EXCEPT !.pc = "due", !.task = u, !.disp = dispatch[u]]]
      BY <2>1 DEF ListDue
    <3>2. /\ maint'[m] = [IdleMaint EXCEPT !.pc = "due", !.task = u, !.disp = dispatch[u]]
          /\ \A n \in Maintainers \ {m} : maint'[n] = maint[n]
      BY <1>0, <3>1
    <3>3. maint'[m].pc = "due" /\ maint'[m].task = u /\ maint'[m].disp = dispatch[u] /\ u = t
      BY <3>2 DEF IdleMaint
    <3>4. task'[t].status # "planned" /\ dispatch[t] = Fresh
      BY <1>1, <2>t, <3>1, <3>3 DEF TaskFits
    <3> QED BY <3>2, <3>3, <3>4 DEF MaintFits, RecoveryPCs
  <2>2. CASE RecoverRead(m)
    <3>1. PICK u \in Tasks, w \in Workers :
             /\ lease[u][w] \in {"claimed", "active"} /\ MayLapse(u, w)
             /\ maint' = [maint EXCEPT ![m] = [IdleMaint EXCEPT !.pc = "recover", !.task = u, !.holder = w,
                                                                 !.row = Seen(u), !.since = WorkersOn(u)]]
      BY <2>2 DEF RecoverRead
    <3>2. /\ maint'[m] = [IdleMaint EXCEPT !.pc = "recover", !.task = u, !.holder = w,
                                           !.row = Seen(u), !.since = WorkersOn(u)]
          /\ \A n \in Maintainers \ {m} : maint'[n] = maint[n]
      BY <1>0, <3>1
    <3>3. /\ maint'[m].pc = "recover" /\ maint'[m].task = u /\ maint'[m].holder = w /\ maint'[m].latest
          /\ maint'[m].row = Seen(u) /\ u = t
      BY <3>2 DEF IdleMaint
    <3>4. maint'[m].row.status = task'[t].status
      BY <1>1, <3>3 DEF Seen, Shape, RowsOK, TaskRow
    <3>5. Holds(t, w) /\ worker[w].task # t
      BY <3>1, <3>3 DEF Holds, MayLapse, WorkersOn, CalmSetting
    <3>6. Abandoned(t, w)
      <4>1. \A n \in Maintainers : maint[n].pc = "idle"
        BY <1>0 DEF CalmSetting
      <4> QED BY <3>5, <4>1 DEF CalmAt, LeaseFits
    <3>7. Holds(t, w)' /\ Abandoned(t, w)'
      BY <1>1, <3>5, <3>6 DEF Holds, Abandoned, queueVars
    <3> QED BY <3>2, <3>3, <3>4, <3>7 DEF MaintFits, RecoveryPCs
  <2>3. CASE ReconcileLoad(m)
    <3>1. PICK u \in Tasks :
             /\ u \in processingPayloads
             /\ maint' = [maint EXCEPT ![m] = [IdleMaint EXCEPT !.pc = "loaded", !.task = u,
                                                                 !.row = Seen(u), !.since = WorkersOn(u)]]
      BY <2>3 DEF ReconcileLoad
    <3>2. /\ maint'[m] = [IdleMaint EXCEPT !.pc = "loaded", !.task = u, !.row = Seen(u), !.since = WorkersOn(u)]
          /\ \A n \in Maintainers \ {m} : maint'[n] = maint[n]
      BY <1>0, <3>1
    <3>3. /\ maint'[m].pc = "loaded" /\ maint'[m].task = u /\ maint'[m].row = Seen(u)
          /\ maint'[m].since = WorkersOn(u) /\ u = t
      BY <3>2 DEF IdleMaint
    <3>4. maint'[m].row.status = task'[t].status
      BY <1>1, <3>3 DEF Seen, Shape, RowsOK, TaskRow
    <3>5. Live(t)
      BY <3>1, <3>3 DEF Live, Q!InNeitherQueue
    <3>6. Published(t)'
      BY <1>1, <2>t, <3>5 DEF Published, queueVars, TaskFits
    <3>7. task'[t].status \in {"queued"} \cup Recoverable \cup (TerminalStates \ {"dead_lettered"})
      <4>1. task[t].status \in Statuses /\ Published(t)
        BY <2>t, <3>5 DEF Shape, RowsOK, TaskRow, TaskFits
      <4>2. task[t].status \notin {"planned", "recovering", "pending_review", "dead_lettered"}
        BY <2>t, <3>5, <4>1 DEF TaskFits
      <4> QED BY <1>1, <4>1, <4>2 DEF Statuses, TaskAllowed, Recoverable, TerminalStates
    <3>8. \A w \in Workers : worker'[w].task = t => w \in maint'[m].since
      BY <1>1, <3>3 DEF WorkersOn
    <3>9. task'[t].status \in Recoverable => task'[t].status # "queued"
      BY DEF Recoverable
    <3> QED BY <3>2, <3>3, <3>4, <3>6, <3>7, <3>8, <3>9 DEF MaintFits, RecoveryPCs
  <2> QED BY <2>1, <2>2, <2>3
<1> QED BY <1>0, <1>1, <1>2, <1>3, PassMove

\* A pass goes on to the next step on its task, or is done with it.
LEMMA PassGoesOn ==
    ASSUME Shape, NEW t \in Tasks, CalmAt(t), NEW m \in Maintainers, maint[m].task = t,
           maint[m].pc \notin {"requeue", "bury"},
           UNCHANGED <<task, lease, queueVars, worker, api>>,
           DispatchFits(dispatch'[t], task[t].status), dispatch' = dispatch \/ Published(t),
           \/ MDone(m)
           \/ /\ \A n \in Maintainers \ {m} : maint'[n] = maint[n]
              /\ maint'[m].pc \notin {"requeue", "bury"} /\ MaintFits(t, m)'
    PROVE  CalmAt(t)'
<1>0. t # NoTask
  BY RuntimeAssumption DEF RuntimeAssumption
<1>1. SameQueue(t) /\ SameWorkers(t) /\ SameRequests(t)
  BY SameQueueVars DEF SameWorkers, SameRequests
<1>2. (\A n \in Maintainers \ {m} : maint'[n] = maint[n]) /\ maint'[m].pc \notin {"requeue", "bury"} /\ MaintFits(t, m)'
  BY <1>0, PassFrames DEF MaintFits
<1> QED BY <1>1, <1>2, PassMove

\* The dispatch that a publication acknowledges, or that a pass drops.
LEMMA AckFits ==
    ASSUME Shape, NEW t \in Tasks, CalmAt(t), Published(t), AckPublished(t, Fresh)
    PROVE  DispatchFits(dispatch'[t], task[t].status)
<1>1. dispatch[t] \in DispatchRow /\ dispatch' = [dispatch EXCEPT ![t] = Flush(dispatch[t], Fresh, [Fresh EXCEPT !.status = "published", !.sent = TRUE])]
  BY DEF AckPublished, PutDispatch, Shape, RowsOK
<1>2. dispatch'[t].status = "published"
  BY <1>1 DEF Flush, DispatchRow, Shape, RowsOK, Fresh, NewDispatch, NoDispatch
<1> QED BY <1>2 DEF DispatchFits

\* A dispatch that publish_due drops (its task is no longer queued) leaves a row that
\* fits.
LEMMA DropFits ==
    ASSUME Shape, NEW t \in Tasks, CalmAt(t),
           PutDispatch(t, Fresh, [Fresh EXCEPT !.status = "cancelled", !.cleaned = ~Fresh.sent])
    PROVE  DispatchFits(dispatch'[t], task[t].status)
<1>1. dispatch[t] \in DispatchRow /\ dispatch' = [dispatch EXCEPT ![t] = Flush(dispatch[t], Fresh, [Fresh EXCEPT !.status = "cancelled", !.cleaned = ~Fresh.sent])]
  BY DEF PutDispatch, Shape, RowsOK
<1>2. dispatch'[t].status = "cancelled" /\ dispatch'[t].cleaned
  BY <1>1 DEF Flush, DispatchRow, Shape, RowsOK, Fresh, NewDispatch, NoDispatch
<1> QED BY <1>2 DEF DispatchFits

\* A first publication of the dispatch that a process has read.
LEMMA PublishFresh ==
    ASSUME Shape, Q!TypeOK, NEW t \in Tasks, Publish(t, Fresh)
    PROVE  /\ Published(t) => UNCHANGED queueVars
           /\ ~Published(t) => /\ Published(t)' /\ t \in pendingPayloads'
                               /\ leaseKey'[t] = leaseKey[t] /\ deadPayloads'[t] = deadPayloads[t]
<1>1. Fresh.gen = 0
  BY DEF Fresh, NewDispatch, NoDispatch
<1>2. Q!EnqueueIdempotent(t, <<t, 0>>)
  BY <1>1 DEF Publish, IdempotencyKey
<1>3. Published(t) => UNCHANGED queueVars
  BY <1>2 DEF Q!EnqueueIdempotent, Published, queueVars, Q!vars
<1>4. ~Published(t) => /\ Published(t)' /\ t \in pendingPayloads'
                       /\ leaseKey'[t] = leaseKey[t] /\ deadPayloads'[t] = deadPayloads[t]
  BY <1>2 DEF Q!EnqueueIdempotent, Published, Q!deadVars
<1> QED BY <1>3, <1>4

\* publish_due: a dispatch is dropped, published, acknowledged.
LEMMA PassPublishesCalm ==
    ASSUME Shape, Q!TypeOK, Q!KeysConsistent, NEW t \in Tasks, CalmAt(t), NEW m \in Maintainers,
           maint[m].task = t,
           DropDispatch(m) \/ PublishDue(m) \/ PublishDueAck(m)
    PROVE  CalmAt(t)'
<1> USE DEF MAt, MTask
<1>f. MaintFits(t, m) /\ TaskFits(t) /\ DispatchFits(dispatch[t], task[t].status)
  BY DEF CalmAt, TaskFits, DispatchFits
<1>1. CASE DropDispatch(m)
  <2>1. /\ maint[m].pc = "due" /\ maint[m].disp = Fresh /\ MDone(m)
        /\ UNCHANGED <<task, lease, queueVars, worker, api>>
        /\ task[t].status # "queued" /\ task[t].status # "planned"
    BY <1>1, <1>f DEF DropDispatch, MaintFits, leaseVars
  <2>2. Published(t)
    BY <1>f, <2>1 DEF TaskFits
  <2>3. PutDispatch(t, Fresh, [Fresh EXCEPT !.status = "cancelled", !.cleaned = ~Fresh.sent])
    BY <1>1, <2>1 DEF DropDispatch
  <2>4. DispatchFits(dispatch'[t], task[t].status)
    BY <2>3, DropFits
  <2> QED BY <2>1, <2>2, <2>4, PassGoesOn
<1>2. CASE PublishDueAck(m)
  <2>1. /\ maint[m].pc = "ack" /\ maint[m].disp = Fresh /\ MDone(m) /\ AckPublished(t, Fresh)
        /\ UNCHANGED <<task, lease, queueVars, worker, api>> /\ Published(t)
    BY <1>2, <1>f DEF PublishDueAck, MaintFits, leaseVars
  <2> QED BY <2>1, AckFits, PassGoesOn
<1>3. CASE PublishDue(m)
  <2>1. /\ maint[m].pc = "due" /\ maint[m].disp = Fresh /\ task[t].status = "queued"
        /\ UNCHANGED <<task, lease, dispatch, worker, api>>
        /\ (Publish(t, Fresh) /\ MGoto(m, "ack")) \/ (UNCHANGED queueVars /\ MDone(m))
    BY <1>3, <1>f DEF PublishDue, MaintFits, dbVars
  <2>2. CASE UNCHANGED queueVars /\ MDone(m)
    BY <1>f, <2>1, <2>2, PassGoesOn
  <2>3. CASE Publish(t, Fresh) /\ MGoto(m, "ack")
    <3>1. /\ maint'[m].pc = "ack" /\ maint'[m].disp = Fresh /\ maint'[m].task = t
          /\ \A n \in Maintainers \ {m} : maint'[n] = maint[n]
      BY <2>1, <2>3, PassFrames
    <3>2. CASE Published(t)
      <4>1. UNCHANGED queueVars
        BY <2>3, <3>2, PublishFresh
      <4>2. MaintFits(t, m)'
        BY <3>1, <3>2, <4>1 DEF MaintFits, RecoveryPCs, Published, queueVars
      <4> QED BY <1>f, <2>1, <3>1, <4>1, <4>2, PassGoesOn
    <3>3. CASE ~Published(t)
      <4>1. /\ Published(t)' /\ t \in pendingPayloads'
            /\ leaseKey'[t] = leaseKey[t] /\ deadPayloads'[t] = deadPayloads[t]
        BY <2>3, <3>3, PublishFresh
      <4>2. SameRows(t) /\ SameWorkers(t) /\ api' = api
        BY <2>1 DEF SameRows, SameWorkers
      <4> QED BY <2>1, <3>1, <3>3, <4>1, <4>2, FirstPublication
    <3> QED BY <3>2, <3>3
  <2> QED BY <2>1, <2>2, <2>3
<1> QED BY <1>1, <1>2, <1>3

\* recover_expired_leases: the payload moves, then the rows follow; the pass may die
\* in between only by a fault that the calm setting excludes.
LEMMA PassRecoversCalm ==
    ASSUME CalmSetting, Shape, Q!TypeOK, Q!KeysConsistent, NEW t \in Tasks, CalmAt(t),
           NEW m \in Maintainers, maint[m].task = t,
           \/ RecoverUnsupported(m) \/ RecoverForRetry(m) \/ RecoverToDeadLetter(m)
           \/ RequeueCommit(m) \/ DeadLetterCommit(m)
    PROVE  CalmAt(t)'
<1> USE DEF MAt, MTask, MRow, Holder
<1>o. OnePass /\ t # NoTask
  BY RuntimeAssumption DEF RuntimeAssumption, CalmSetting, OnePass
<1>f. MaintFits(t, m) /\ TaskFits(t) /\ DispatchFits(dispatch[t], task[t].status)
  BY DEF CalmAt, TaskFits, DispatchFits
<1>1. maint[m].pc \in RecoveryPCs
  BY DEF RecoverUnsupported, RecoverForRetry, RecoverToDeadLetter, RequeueCommit, DeadLetterCommit,
     RecoveryPCs
<1>2. /\ maint[m].latest /\ Holds(t, maint[m].holder) /\ maint[m].row.status = task[t].status
      /\ maint[m].holder \in Workers /\ task[t].status \in Recoverable
  BY <1>1, <1>f DEF MaintFits, Shape, FramesOK, MaintFrameOK, RecoveryPCs, CalmAt, LeaseFits
<1>3. ~RecoverUnsupported(m)
  BY <1>2 DEF RecoverUnsupported
<1>4. CASE RecoverForRetry(m) \/ RecoverToDeadLetter(m)
  <2>1. /\ maint[m].pc = "recover" /\ maint[m].row.status \in Recoverable
        /\ UNCHANGED <<task, lease, dispatch, worker, api>>
        /\ \/ UNCHANGED queueVars /\ MDone(m)
           \/ Q!Recover(t, maint[m].holder) /\ MGoto(m, "requeue")
           \/ Q!MoveToDeadLetter(t, maint[m].holder) /\ MGoto(m, "bury")
    BY <1>4 DEF RecoverForRetry, RecoverToDeadLetter, dbVars
  <2>2. CASE UNCHANGED queueVars /\ MDone(m)
    BY <1>f, <2>1, <2>2, PassGoesOn
  <2>3. Abandoned(t, maint[m].holder) /\ t \in processingPayloads /\ SameRows(t) /\ SameWorkers(t) /\ SameRequests(t)
    BY <1>f, <2>1 DEF MaintFits, Abandoned, SameRows, SameWorkers, SameRequests
  <2>4. ASSUME NEW pc, MGoto(m, pc)
        PROVE  /\ maint'[m].task = t /\ maint'[m].holder = maint[m].holder /\ maint'[m].latest = maint[m].latest
               /\ maint'[m].row = maint[m].row /\ maint'[m].pc = pc
    BY <2>4, PassFrames
  <2>5. CASE Q!Recover(t, maint[m].holder) /\ MGoto(m, "requeue")
    <3>1. /\ t \in pendingPayloads' /\ t \notin processingPayloads' /\ leaseKey'[t] = NoOwner
          /\ <<t, 0>> \in dispatchKeys' <=> <<t, 0>> \in dispatchKeys
      BY <2>5 DEF Q!Recover, Q!TypeOK, Q!DelLease, Q!SetLease
    <3> QED BY <1>o, <2>1, <2>3, <2>4, <2>5, <3>1, RecoverMove
  <2>6. CASE Q!MoveToDeadLetter(t, maint[m].holder) /\ MGoto(m, "bury")
    <3>1. Gone(t)
      BY <2>6, RemovalScripts
    <3>2. deadPayloads'[t] = "message"
      BY <2>3, <2>6 DEF Q!MoveToDeadLetter, Q!DeadLetterPayload, Q!InNeitherQueue, Q!TypeOK
    <3> QED BY <1>o, <2>1, <2>3, <2>4, <2>6, <3>1, <3>2, RecoverMove DEF Gone
  <2> QED BY <2>1, <2>2, <2>5, <2>6
<1>5. CASE RequeueCommit(m) \/ DeadLetterCommit(m)
  <2>1. /\ UNCHANGED <<dispatch, queueVars, worker, api>> /\ MDone(m) /\ PutLease(t, maint[m].holder, "expired")
        /\ \/ maint[m].pc = "requeue" /\ SetStatusRetry(t, "queued", maint[m].row.retry + 1)
           \/ maint[m].pc = "bury" /\ SetStatus(t, "dead_lettered")
    BY <1>2, <1>5 DEF RequeueCommit, DeadLetterCommit, ExpireLease
  <2>2. SameQueue(t) /\ SameWorkers(t) /\ SameRequests(t) /\ dispatch'[t] = dispatch[t] /\ maint'[m].task # t
    BY <1>o, <2>1, PassFrames, SameQueueVars DEF SameWorkers, SameRequests
  <2>3. \A v \in Workers : Holds(t, v)' => Holds(t, v) /\ v # maint[m].holder
    <3>1. \A v \in Workers : lease'[t][v] = IF v = maint[m].holder THEN "expired" ELSE lease[t][v]
      BY <1>2, <2>1, WorkerWroteRow
    <3> QED BY <3>1 DEF Holds
  <2>4. CASE maint[m].pc = "requeue" /\ SetStatusRetry(t, "queued", maint[m].row.retry + 1)
    <3>1. maint[m].row.retry < MaxRetries /\ maint[m].row.retry \in Nat /\ MaxRetries \in Nat
      BY <2>4, RuntimeAssumption DEF RuntimeAssumption, Shape, FramesOK, MaintFrameOK, MaintFrames,
         TaskRow
    <3>2. task'[t].status = "queued" /\ task'[t].retry = maint[m].row.retry + 1
      <4> DEFINE n == maint[m].row.retry + 1
      <4>1. SetStatusRetry(t, "queued", n) /\ task \in [Tasks -> TaskRow]
        BY <2>4 DEF Shape, RowsOK
      <4> HIDE DEF n
      <4>2. task'[t].status = "queued" /\ task'[t].retry = n
        BY <4>1, WriteOne
      <4> QED BY <4>2 DEF n
    <3>3. task'[t].retry <= MaxRetries
      BY <3>1, <3>2
    <3> QED BY <1>o, <2>2, <2>3, <2>4, <3>2, <3>3, RecoveryCommit
  <2>5. CASE maint[m].pc = "bury" /\ SetStatus(t, "dead_lettered")
    <3>1. task'[t].status = "dead_lettered" /\ task'[t].retry = task[t].retry
      <4>1. \E w \in Workers : TRUE
        BY <1>2
      <4> QED BY <2>5, <4>1, WorkerWroteRow
    <3> QED BY <1>o, <2>2, <2>3, <2>5, <3>1, RecoveryCommit
  <2> QED BY <2>1, <2>4, <2>5
<1> QED BY <1>3, <1>4, <1>5

\* reconcile_orphaned_processing acts on rows that it read before: what it read is
\* still so, or the queue refuses.
LEMMA PassReconcilesCalm ==
    ASSUME CalmSetting, Shape, Q!TypeOK, Q!KeysConsistent, HeldIsRecoverable, NEW t \in Tasks,
           CalmAt(t),
           NEW m \in Maintainers, maint[m].task = t,
           ReconcileCheck(m) \/ ReconcileTerminal(m) \/ ReconcileFailed(m) \/ ReconcileOrphan(m) \/ OrphanCommit(m)
    PROVE  CalmAt(t)'
<1> USE DEF MAt, MTask, MRow
<1>o. OnePass /\ t # NoTask
  BY RuntimeAssumption DEF RuntimeAssumption, CalmSetting, OnePass
<1>f. MaintFits(t, m) /\ TaskFits(t) /\ DispatchFits(dispatch[t], task[t].status)
  BY DEF CalmAt, TaskFits, DispatchFits
<1>1. /\ UNCHANGED <<lease, dispatch, worker, api>>
      /\ maint[m].pc \in {"loaded", "reconcile", "orphan"}
      /\ UNCHANGED task \/ OrphanCommit(m)
  BY DEF ReconcileCheck, ReconcileTerminal, ReconcileFailed, ReconcileOrphan, OrphanCommit, dbVars,
     leaseVars
<1>2. UNCHANGED <<task, queueVars>> /\ MDone(m) => CalmAt(t)'
  BY <1>1, <1>f, PassGoesOn
<1>3. CASE ReconcileCheck(m)
  <2>1. CASE MDone(m)
    BY <1>2, <1>3, <2>1 DEF ReconcileCheck, dbVars
  <2>2. CASE MGoto(m, "reconcile") /\ t \in processingPayloads /\ ~ActiveLease(t)
    <3>1. UNCHANGED <<task, queueVars>> /\ maint[m].pc = "loaded"
      BY <1>3 DEF ReconcileCheck, dbVars
    <3>2. /\ maint'[m].pc = "reconcile" /\ maint'[m].task = t /\ maint'[m].row = maint[m].row
          /\ maint'[m].since = maint[m].since
          /\ \A n \in Maintainers \ {m} : maint'[n] = maint[n]
      BY <2>2, PassFrames
    <3>3. task[t].status \notin Recoverable
      BY <2>2 DEF HeldIsRecoverable
    <3>4. MaintFits(t, m)'
      <4>1. /\ task' = task /\ worker' = worker /\ processingPayloads' = processingPayloads
            /\ leaseKey' = leaseKey /\ Published(t)' = Published(t)
        BY <1>1, <3>1 DEF queueVars, Published
      <4> QED BY <1>f, <3>1, <3>2, <3>3, <4>1 DEF MaintFits, RecoveryPCs
    <3> QED BY <1>1, <1>f, <3>1, <3>2, <3>4, PassGoesOn
  <2> QED BY <1>3, <2>1, <2>2 DEF ReconcileCheck
<1>4. CASE ReconcileTerminal(m) \/ ReconcileFailed(m)
  <2>1. /\ MDone(m) /\ UNCHANGED task /\ maint[m].pc = "reconcile" /\ maint[m].row.status \in TerminalStates
        /\ UNCHANGED queueVars \/ \E h : Q!Complete(t, h) \/ Q!MoveToDeadLetter(t, h)
    BY <1>4 DEF ReconcileTerminal, ReconcileFailed, Attempt, TerminalStates, dbVars
  <2>2. task[t].status \in Settled
    BY <1>f, <2>1 DEF MaintFits, Settled, TerminalStates, Recoverable
  <2>3. CASE \E h : Q!Complete(t, h) \/ Q!MoveToDeadLetter(t, h)
    <3>1. Gone(t)
      BY <2>3, RemovalScripts
    <3>2. \A v \in Workers : worker'[v].task = t => worker[v].task = t /\ worker'[v].pc \in ReportPCs /\ WorkerFits(t, v)'
      <4> SUFFICES ASSUME NEW v \in Workers, worker[v].task = t
                   PROVE  worker[v].pc \in ReportPCs /\ WorkerFits(t, v)'
        BY <1>1
      <4>1. worker[v].pc \in ReportPCs /\ WorkerFits(t, v)
        BY <2>2, Alone DEF Settled, Nonterminal, Recoverable, CalmAt
      <4> QED BY <1>1, <2>1, <4>1 DEF WorkerFits, ReportPCs
    <3>3. \A n \in Maintainers : maint'[n].task = t => maint'[n] = maint[n]
      BY <1>o, <2>1, PassFrames
    <3>4. SameRequests(t) /\ task'[t] = task[t] /\ lease'[t] = lease[t] /\ DispatchFits(dispatch'[t], task[t].status)
      BY <1>1, <1>f, <2>1 DEF SameRequests
    <3> QED BY <2>2, <3>1, <3>2, <3>3, <3>4, SettledMove
  <2> QED BY <1>2, <2>1, <2>3
<1>5. CASE ReconcileOrphan(m)
  <2>1. /\ UNCHANGED task /\ maint[m].pc = "reconcile" /\ maint[m].row.status \notin TerminalStates
        /\ \/ UNCHANGED queueVars /\ MDone(m)
           \/ Q!Recover(t, MaintainerId) /\ MGoto(m, "orphan")
    BY <1>5 DEF ReconcileOrphan, dbVars
  <2>2. CASE Q!Recover(t, MaintainerId) /\ MGoto(m, "orphan")
    <3>1. leaseKey[t] \in {NoOwner, MaintainerId} /\ Live(t)
      BY <2>2 DEF Q!Recover, Q!RecoverReply, Live, Q!InNeitherQueue
    <3>2. leaseKey[t] = NoOwner /\ leaseKey[t] \notin maint[m].since
      BY <1>f, <3>1, RuntimeAssumption DEF RuntimeAssumption, TaskFits, Shape, FramesOK, MaintFrames
    <3>3. task[t].status = "queued" /\ maint[m].row.status = "queued"
      <4>1. CASE t \in processingPayloads
        BY <1>f, <2>1, <3>2, <4>1 DEF MaintFits
      <4>2. CASE t \in pendingPayloads
        <5>1. ~Moving(t)
          BY <1>o, <2>1 DEF OnePass, Moving
        <5>2. task[t].status = "queued"
          BY <1>f, <4>2, <5>1 DEF TaskFits
        <5> QED BY <1>f, <2>1, <5>2 DEF MaintFits
      <4> QED BY <3>1, <4>1, <4>2 DEF Live, Q!InNeitherQueue
    <3>4. /\ t \in pendingPayloads' /\ leaseKey'[t] = NoOwner /\ deadPayloads'[t] = deadPayloads[t]
          /\ <<t, 0>> \in dispatchKeys' <=> <<t, 0>> \in dispatchKeys
      BY <2>2 DEF Q!Recover, Q!TypeOK, Q!DelLease, Q!SetLease, Q!deadVars
    <3>5. maint'[m].task = t /\ maint'[m].pc = "orphan" /\ maint'[m].row.status = "queued"
      BY <2>2, <3>3, PassFrames
    <3>6. SameRows(t) /\ SameWorkers(t) /\ SameRequests(t)
      BY <1>1, <2>1 DEF SameRows, SameWorkers, SameRequests
    <3> QED BY <1>o, <3>1, <3>2, <3>3, <3>4, <3>5, <3>6, OrphanMove
  <2> QED BY <1>2, <2>1, <2>2
<1>6. CASE OrphanCommit(m)
  <2>1. maint[m].row.status = "queued"
    BY <1>6, <1>f DEF OrphanCommit, MaintFits
  <2>2. UNCHANGED <<task, queueVars>> /\ MDone(m)
    BY <1>6, <2>1 DEF OrphanCommit
  <2> QED BY <1>2, <2>2
<1> QED BY <1>3, <1>4, <1>5, <1>6

\* Every step of the maintenance pass keeps every task calm.
LEMMA PassCalm ==
    ASSUME CalmSetting, Shape, Q!TypeOK, Q!KeysConsistent, HeldIsRecoverable, NEW t \in Tasks,
           CalmAt(t),
           NEW m \in Maintainers, MaintStep(m) \/ MaintCrash(m)
    PROVE  CalmAt(t)'
<1>0. t # NoTask /\ ~MaintCrash(m)
  BY RuntimeAssumption DEF RuntimeAssumption, CalmSetting, MaintCrash, Fault
<1>1. CASE CleanCancelled(m)
  <2>1. PICK u \in Tasks : ReconcileCancelled(u) /\ \A v \in Tasks \ {u} : Untouched(v)
    BY <1>1, CleanElsewhere
  <2>2. CASE t # u
    BY <2>1, <2>2, UntouchedStays
  <2>3. CASE t = u
    <3>1. UNCHANGED <<task, lease, worker, maint, api>>
      BY <1>1 DEF CleanCancelled, leaseVars, procVars
    <3>2. task[t].status = "cancelled" /\ SameQueue(t) /\ DispatchFits(dispatch'[t], "cancelled")
      BY <2>1, <2>3, CleanupCalm
    <3>3. \A v \in Workers : worker'[v].task = t => worker[v].task = t /\ worker'[v].pc \in ReportPCs /\ WorkerFits(t, v)'
      <4> SUFFICES ASSUME NEW v \in Workers, worker[v].task = t
                   PROVE  worker[v].pc \in ReportPCs /\ WorkerFits(t, v)'
        BY <3>1
      <4>1. worker[v].pc \in ReportPCs /\ WorkerFits(t, v)
        BY <3>2, Alone DEF Nonterminal, Recoverable, CalmAt
      <4> QED BY <3>1, <4>1 DEF WorkerFits, ReportPCs
    <3>4. SameRequests(t) /\ task'[t] = task[t] /\ lease'[t] = lease[t] /\ "cancelled" \in Settled
      BY <3>1 DEF SameRequests, Settled
    <3> QED BY <3>1, <3>2, <3>3, <3>4, SettledMove
  <2> QED BY <2>2, <2>3
<1>2. CASE ~CleanCancelled(m) /\ t # maint[m].task /\ t # maint'[m].task
  BY <1>2, MaintElsewhere, UntouchedStays
<1>3. CASE ~CleanCancelled(m) /\ t = maint'[m].task /\ t # maint[m].task
  <2>1. ASSUME NEW pc, MGoto(m, pc) PROVE FALSE
    BY <1>3, <2>1, PassFrames
  <2>2. ~MDone(m)
    BY <1>0, <1>3, PassFrames
  <2>3. ListDue(m) \/ RecoverRead(m) \/ ReconcileLoad(m)
    BY <1>0, <1>3, <2>1, <2>2 DEF MaintStep, DropDispatch, PublishDue, PublishDueAck,
       RecoverUnsupported,
       RecoverForRetry, RequeueCommit, RecoverToDeadLetter, DeadLetterCommit, ReconcileCheck, ReconcileTerminal,
       ReconcileFailed, ReconcileOrphan, OrphanCommit
  <2> QED BY <1>3, <2>3, PassReadsCalm
<1>4. CASE ~CleanCancelled(m) /\ t = maint[m].task
  <2>1. ~ListDue(m) /\ ~RecoverRead(m) /\ ~ReconcileLoad(m)
    BY <1>0, <1>4 DEF ListDue, RecoverRead, ReconcileLoad, MAt, Shape, FramesOK, MaintFrameOK
  <2> QED BY <1>0, <1>4, <2>1, PassPublishesCalm, PassRecoversCalm, PassReconcilesCalm DEF MaintStep
<1> QED BY <1>1, <1>2, <1>3, <1>4

-----------------------------------------------------------------------------
\* The steps of a request, and the expiry of a lease key.
LEMMA RequestFrames ==
    ASSUME Shape, NEW r \in Requests
    PROVE  /\ \A pc : AGoto(r, pc) => /\ api'[r].pc = pc /\ api'[r].task = api[r].task
                                      /\ api'[r].op = api[r].op /\ api'[r].disp = api[r].disp
                                      /\ \A q \in Requests \ {r} : api'[q] = api[q]
           /\ ADone(r) => /\ api'[r].task = NoTask /\ api'[r].pc = "idle"
                          /\ \A q \in Requests \ {r} : api'[q] = api[q]
<1>1. api \in [Requests -> ApiFrames]
  BY DEF Shape, FramesOK
<1>2. ASSUME NEW pc, AGoto(r, pc)
      PROVE  /\ api'[r].pc = pc /\ api'[r].task = api[r].task
             /\ api'[r].op = api[r].op /\ api'[r].disp = api[r].disp
             /\ \A q \in Requests \ {r} : api'[q] = api[q]
  BY <1>1, <1>2 DEF AGoto, ApiFrames
<1>3. ADone(r) => /\ api'[r].task = NoTask /\ api'[r].pc = "idle"
                  /\ \A q \in Requests \ {r} : api'[q] = api[q]
  BY <1>1 DEF ADone, IdleApi
<1> QED BY <1>2, <1>3

\* A request reads the task that it is about.
LEMMA RequestReadCalm ==
    ASSUME CalmSetting, Shape, NEW t \in Tasks, CalmAt(t), NEW r \in Requests, api'[r].task = t,
           RequestRead(r)
    PROVE  CalmAt(t)'
<1> USE DEF AAt, ATask
<1>1. PICK u \in Tasks, op \in Ops :
         /\ Accepts(op, task[u])
         /\ op = "admit" => ~MissionLocked(u)
         /\ api' = [api EXCEPT ![r] = [pc |-> "commit", op |-> op, task |-> u, row |-> task[u], disp |-> dispatch[u]]]
  BY DEF RequestRead
<1>2. op = "admit"
  BY DEF CalmSetting
<1>3. api'[r] = [pc |-> "commit", op |-> op, task |-> u, row |-> task[u], disp |-> dispatch[u]]
      /\ \A q \in Requests \ {r} : api'[q] = api[q]
  BY <1>1 DEF Shape, FramesOK
<1>4. u = t /\ api'[r].pc = "commit" /\ api'[r].op = "admit"
  BY <1>2, <1>3
<1>5. task[t].status = "planned" /\ ~MissionLocked(t)
  BY <1>1, <1>2, <1>4 DEF Accepts
<1>6. UNCHANGED <<task, lease, dispatch, queueVars, worker, maint>>
  BY DEF RequestRead, dbVars
<1>7. ASSUME NEW q \in Requests, api'[q].task = t, api'[q].pc = "commit", q # r PROVE FALSE
  <2>1. api[q].task = t /\ api[q].pc = "commit" /\ api[q].op = "admit"
    BY <1>3, <1>7 DEF CalmAt, RequestFits
  <2> QED BY <1>5, <2>1 DEF MissionLocked
<1>8. RequestFits(t, r)'
  BY <1>4, <1>5, <1>6, <1>7 DEF RequestFits
<1>9. /\ SameQueue(t) /\ SameWorkers(t) /\ SameMaints(t) /\ DispatchFits(dispatch'[t], task[t].status)
  BY <1>6, SameQueueVars DEF SameWorkers, SameMaints, CalmAt, TaskFits, DispatchFits
<1> QED BY <1>3, <1>6, <1>8, <1>9, RequestMove

\* An admission commits and its hook publishes; the API process may die between.
LEMMA RequestStepCalm ==
    ASSUME CalmSetting, Shape, Q!TypeOK, Q!KeysConsistent, NEW t \in Tasks, CalmAt(t),
           NEW r \in Requests, api[r].task = t, RequestStep(r) \/ RequestCrash(r)
    PROVE  CalmAt(t)'
<1> USE DEF AAt, ATask, ARow
<1>0. t # NoTask
  BY RuntimeAssumption DEF RuntimeAssumption
<1>f. RequestFits(t, r) /\ TaskFits(t) /\ DispatchFits(dispatch[t], task[t].status)
  BY DEF CalmAt, TaskFits, DispatchFits
<1>1. ~PlaceInReview(r) /\ ~RetryTask(r) /\ ~CancelTask(r) /\ ~CancelCleanup(r)
  BY <1>f DEF PlaceInReview, RetryTask, CancelTask, CancelCleanup, RequestFits
<1>2. \* The conditions of RequestMove.
      ASSUME UNCHANGED <<task, lease, queueVars, worker, maint>>,
             DispatchFits(dispatch'[t], task[t].status), dispatch' = dispatch \/ Published(t),
             \/ ADone(r)
             \/ RequestFits(t, r)' /\ \A q \in Requests \ {r} : api'[q] = api[q]
      PROVE  CalmAt(t)'
  <2>1. SameQueue(t) /\ SameWorkers(t) /\ SameMaints(t)
    BY <1>2, SameQueueVars DEF SameWorkers, SameMaints
  <2>2. RequestFits(t, r)' /\ \A q \in Requests \ {r} : api'[q] = api[q]
    BY <1>0, <1>2, RequestFrames DEF RequestFits
  <2> QED BY <1>2, <2>1, <2>2, RequestMove
<1>3. CASE QueueTask(r)
  <2>1. /\ api[r].pc = "commit" /\ api[r].op = "admit" /\ task[t].status = "planned"
        /\ dispatch[t].status = "none"
    BY <1>3, <1>f DEF QueueTask, RequestFits, TaskFits
  <2>2. /\ SetStatus(t, "queued") /\ dispatch' = [dispatch EXCEPT ![t] = Fresh] /\ AGoto(r, "publish")
        /\ UNCHANGED <<lease, queueVars, worker, maint>>
    BY <1>3, <2>1 DEF QueueTask, Admit, Fresh, leaseVars
  <2>3. task'[t].status = "queued" /\ task'[t].retry = task[t].retry /\ dispatch'[t] = Fresh
    BY <2>2, WriteOne DEF Shape, RowsOK
  <2>4. SameQueue(t) /\ SameWorkers(t) /\ SameMaints(t)
    BY <2>2, SameQueueVars DEF SameWorkers, SameMaints
  <2>5. /\ api'[r].task = t /\ api'[r].pc = "publish" /\ \A q \in Requests \ {r} : api'[q] = api[q]
    BY <2>2, RequestFrames
  <2> QED BY <2>1, <2>2, <2>3, <2>4, <2>5, AdmitMove
<1>4. CASE HookRead(r)
  <2>1. UNCHANGED <<task, lease, dispatch, queueVars, worker, maint>> /\ api[r].pc = "publish"
    BY <1>4 DEF HookRead, dbVars
  <2>2. CASE ADone(r)
    BY <1>2, <1>f, <2>1, <2>2
  <2>3. CASE dispatch[t].status = "pending"
    <3>1. api' = [api EXCEPT ![r] = [IdleApi EXCEPT !.pc = "send", !.task = t, !.disp = dispatch[t]]]
      BY <1>4, <2>3 DEF HookRead
    <3>2. /\ api'[r] = [IdleApi EXCEPT !.pc = "send", !.task = t, !.disp = dispatch[t]]
          /\ \A q \in Requests \ {r} : api'[q] = api[q]
      BY <3>1 DEF Shape, FramesOK
    <3>3. api'[r].pc = "send" /\ api'[r].disp = Fresh /\ task'[t].status # "planned"
      BY <1>f, <2>1, <2>3, <3>2 DEF IdleApi, RequestFits, DispatchFits
    <3>4. RequestFits(t, r)'
      BY <3>3 DEF RequestFits
    <3> QED BY <1>2, <1>f, <2>1, <3>2, <3>4
  <2> QED BY <1>4, <2>2, <2>3 DEF HookRead
<1>5. CASE HookPublish(r)
  <2>1. /\ api[r].pc = "send" /\ api[r].disp = Fresh /\ task[t].status # "planned"
        /\ UNCHANGED <<task, lease, dispatch, worker, maint>>
        /\ (Publish(t, Fresh) /\ AGoto(r, "ack")) \/ (UNCHANGED queueVars /\ ADone(r))
    BY <1>5, <1>f DEF HookPublish, RequestFits, dbVars
  <2>2. CASE UNCHANGED queueVars /\ ADone(r)
    BY <1>2, <1>f, <2>1, <2>2
  <2>3. CASE Publish(t, Fresh) /\ AGoto(r, "ack")
    <3>1. /\ api'[r].pc = "ack" /\ api'[r].disp = Fresh /\ api'[r].task = t
          /\ \A q \in Requests \ {r} : api'[q] = api[q]
      BY <2>1, <2>3, RequestFrames
    <3>2. CASE Published(t)
      <4>1. UNCHANGED queueVars
        BY <2>3, <3>2, PublishFresh
      <4>2. RequestFits(t, r)'
        BY <2>1, <3>1, <3>2, <4>1 DEF RequestFits, Published, queueVars
      <4> QED BY <1>2, <1>f, <2>1, <3>1, <4>1, <4>2
    <3>3. CASE ~Published(t)
      <4>1. /\ Published(t)' /\ t \in pendingPayloads'
            /\ leaseKey'[t] = leaseKey[t] /\ deadPayloads'[t] = deadPayloads[t]
        BY <2>3, <3>3, PublishFresh
      <4>2. SameRows(t) /\ SameWorkers(t) /\ maint' = maint
        BY <2>1 DEF SameRows, SameWorkers
      <4>3. task[t].status = "queued"
        BY <1>f, <2>1, <3>3 DEF TaskFits
      <4> QED BY <3>1, <3>3, <4>1, <4>2, <4>3, FirstPublication
    <3> QED BY <3>2, <3>3
  <2> QED BY <2>1, <2>2, <2>3
<1>6. CASE HookAck(r)
  <2>1. /\ api[r].pc = "ack" /\ api[r].disp = Fresh /\ ADone(r) /\ AckPublished(t, Fresh) /\ Published(t)
        /\ UNCHANGED <<task, lease, queueVars, worker, maint>>
    BY <1>6, <1>f DEF HookAck, RequestFits, leaseVars
  <2> QED BY <1>2, <2>1, AckFits
<1>7. CASE RequestCrash(r)
  BY <1>2, <1>7, <1>f DEF RequestCrash, dbVars
<1> QED BY <1>1, <1>3, <1>4, <1>5, <1>6, <1>7 DEF RequestStep

\* Every step of a request, and its crash, keeps every task calm.
LEMMA RequestCalm ==
    ASSUME CalmSetting, Shape, Q!TypeOK, Q!KeysConsistent, NEW t \in Tasks, CalmAt(t),
           NEW r \in Requests, RequestRead(r) \/ RequestStep(r) \/ RequestCrash(r)
    PROVE  CalmAt(t)'
<1>0. t # NoTask
  BY RuntimeAssumption DEF RuntimeAssumption
<1>1. CASE t # api[r].task /\ t # api'[r].task
  BY <1>1, ApiElsewhere, UntouchedStays
<1>2. CASE t = api[r].task
  <2>1. ~RequestRead(r)
    BY <1>0, <1>2 DEF RequestRead, AAt, Shape, FramesOK, ApiFrameOK
  <2> QED BY <1>2, <2>1, RequestStepCalm
<1>3. CASE t # api[r].task /\ t = api'[r].task
  <2>1. (\A pc : ~AGoto(r, pc)) /\ ~ADone(r)
    BY <1>0, <1>3, RequestFrames
  <2>2. ~HookRead(r)
    <3> SUFFICES ASSUME HookRead(r) PROVE FALSE
      OBVIOUS
    <3>1. api' = [api EXCEPT ![r] = [IdleApi EXCEPT !.pc = "send", !.task = api[r].task, !.disp = dispatch[api[r].task]]]
      BY <2>1 DEF HookRead, ATask
    <3>2. api'[r].task = api[r].task
      BY <3>1 DEF Shape, FramesOK, IdleApi
    <3> QED BY <1>3, <3>2
  <2>3. RequestRead(r)
    BY <2>1, <2>2 DEF RequestStep, QueueTask, Admit, PlaceInReview, RetryTask, CancelTask,
       CancelCleanup, HookPublish, HookAck, RequestCrash
  <2> QED BY <1>3, <2>3, RequestReadCalm
<1> QED BY <1>1, <1>2, <1>3

\* The expiry of a lease key keeps every task calm: its holder is off the task.
LEMMA LapseCalm ==
    ASSUME CalmSetting, Shape, Q!TypeOK, Q!KeysConsistent, NEW t \in Tasks, CalmAt(t),
           NEW u \in Tasks, LeaseKeyExpires(u)
    PROVE  CalmAt(t)'
<1>1. UNCHANGED <<task, lease, dispatch, worker, maint, api>> /\ Q!LeaseExpires(u)
  BY DEF LeaseKeyExpires, dbVars, procVars
<1>2. SameRows(t) /\ SameWorkers(t) /\ SameMaints(t) /\ SameRequests(t)
  BY <1>1 DEF SameRows, SameWorkers, SameMaints, SameRequests
<1>3. CASE t # u
  <2>1. SameQueue(t)
    BY <1>1, <1>3, OtherQueue DEF Handled
  <2> QED BY <1>2, <2>1, UntouchedStays DEF Untouched
<1>4. CASE t = u
  <2>1. /\ leaseKey[t] \in Workers /\ worker[leaseKey[t]].task # t
        /\ \A m \in Maintainers : maint[m].task = t => leaseKey[t] \notin maint[m].since
    BY <1>4 DEF LeaseKeyExpires, MayLapse, WorkersOn, CalmSetting
  <2>2. /\ leaseKey'[t] = NoOwner /\ deadPayloads'[t] = deadPayloads[t]
        /\ t \in pendingPayloads' <=> t \in pendingPayloads
        /\ t \in processingPayloads' <=> t \in processingPayloads
        /\ <<t, 0>> \in dispatchKeys' <=> <<t, 0>> \in dispatchKeys
    BY <1>1, <1>4 DEF Q!LeaseExpires, Q!TypeOK, Q!DelLease, Q!SetLease, Q!deadVars
  <2> QED BY <1>2, <2>1, <2>2, KeyLapse
<1> QED BY <1>3, <1>4

-----------------------------------------------------------------------------
\* The empty database is calm.
LEMMA CalmInit == Init => Calm
<1> SUFFICES ASSUME Init, NEW t \in Tasks PROVE CalmAt(t)
  BY DEF Calm
<1>0. t # NoTask /\ NoOwner # MaintainerId /\ 0 <= MaxRetries
  BY RuntimeAssumption DEF RuntimeAssumption
<1>1. /\ task[t].status = "planned" /\ task[t].retry = 0 /\ dispatch[t].status = "none"
      /\ t \notin pendingPayloads /\ t \notin processingPayloads /\ leaseKey[t] = NoOwner /\ dispatchKeys = {}
      /\ \A w \in Workers : lease[t][w] = "none" /\ worker[w].task # t
      /\ \A m \in Maintainers : maint[m].task # t
      /\ \A r \in Requests : api[r].task # t
  BY <1>0 DEF Init, Q!Init, NewTask, NoDispatch, IdleWorker, IdleMaint, IdleApi
<1> QED
  BY <1>0, <1>1 DEF CalmAt, TaskFits, LeaseFits, WorkerFits, MaintFits, RequestFits, Published, Live,
     Q!InNeitherQueue, Holds, Recoverable

\* Every step keeps every task calm.
LEMMA CalmStep ==
    ASSUME CalmSetting, Shape, Q!TypeOK, Q!KeysConsistent, HeldHasLease, HeldIsRecoverable, Calm,
           [Next]_vars
    PROVE  Calm'
<1> SUFFICES ASSUME NEW t \in Tasks PROVE CalmAt(t)'
  BY DEF Calm
<1>0. CalmAt(t)
  BY DEF Calm
<1>1. CASE UNCHANGED vars
  <2>1. Untouched(t)
    BY <1>1 DEF vars, queueVars, Untouched, SameRows, SameQueue, SameWorkers, SameMaints, SameRequests
  <2> QED BY <1>0, <2>1, UntouchedStays
<1>2. CASE Next
  BY <1>0, <1>2, WorkerCalm, PassCalm, RequestCalm, LapseCalm DEF Next
<1> QED BY <1>1, <1>2

\* In the calm setting every task is calm in every state.
LEMMA CalmInvariant == ASSUME CalmSetting PROVE Spec => []Calm
<1>0. Timely
  BY DEF CalmSetting
<1>1. Spec => []HeldIsRecoverable
  BY <1>0, HeldAlwaysRecoverable
<1>2. Spec => []StartInv
  BY <1>0, StartInvariant
<1>3. Shape /\ Q!TypeOK /\ Q!KeysConsistent /\ StartInv /\ HeldIsRecoverable /\ Calm /\ [Next]_vars => Calm'
  BY CalmStep DEF StartInv
<1> QED BY <1>1, <1>2, <1>3, CalmInit, ShapeInvariant, QueueTypes, RuntimeKeysConsistent, PTL DEF Spec

\* In the calm setting a queued task that nobody is working on has its payload in the
\* queue or a dispatch that waits for publish_due: neither a hook lost with its API
\* process, nor a crashed worker, nor a recovery leaves a task that no one will
\* deliver.
THEOREM QueuedAlwaysHasDelivery == ASSUME CalmSetting PROVE Spec => []QueuedHasDelivery
<1>1. Calm => QueuedHasDelivery
  BY DEF Calm, CalmAt, TaskFits, Live, QueuedHasDelivery
<1> QED BY <1>1, CalmInvariant, PTL

\* In the calm setting at most one worker holds a claimed or active lease row of a
\* task, through any number of crashes, recoveries and new claims.
THEOREM OneLeaseAtATime == ASSUME CalmSetting PROVE Spec => []OneActiveLease
<1>1. Calm => OneActiveLease
  BY DEF Calm, CalmAt, LeaseFits, OneActiveLease
<1> QED BY <1>1, CalmInvariant, PTL

\* In the calm setting a held task that nobody is working on still has its payload in
\* the queue, so the recovery scripts do not refuse it and maintenance does not raise
\* on it for ever.
THEOREM RecoveryAlwaysFindsPayload == ASSUME CalmSetting PROVE Spec => []RecoveryFindsPayload
<1>0. Timely
  BY DEF CalmSetting
<1>1. Spec => []HeldIsRecoverable
  BY <1>0, HeldAlwaysRecoverable
<1>2. Calm /\ HeldIsRecoverable => RecoveryFindsPayload
  <2> SUFFICES ASSUME Calm, HeldIsRecoverable, NEW t \in Tasks, task[t].status \in Recoverable, ~Busy(t)
               PROVE  ~Q!InNeitherQueue(t)
    BY DEF RecoveryFindsPayload
  <2>1. PICK w \in Workers : Holds(t, w)
    BY DEF HeldIsRecoverable, ActiveLease, Holds
  <2>2. Abandoned(t, w)
    BY <2>1 DEF Calm, CalmAt, LeaseFits, Busy, WorkersOn
  <2> QED BY <2>2 DEF Abandoned, Q!InNeitherQueue
<1> QED BY <1>1, <1>2, CalmInvariant, PTL

\* In the calm setting the dead letter of a dead-lettered task is the message that
\* was delivered: move_to_dead_letter found the payload and did not make one up.
THEOREM DeadLetterAlwaysKept == ASSUME CalmSetting PROVE Spec => []DeadLetterKept
<1>1. Calm => DeadLetterKept
  BY DEF Calm, CalmAt, TaskFits, DeadLetterKept
<1> QED BY <1>1, CalmInvariant, PTL

\* The status changes that remain in the calm setting.
LEMMA CalmWrites ==
    ASSUME CalmSetting, Shape, Q!KeysConsistent, Calm, Next, NEW t \in Tasks,
           task'[t].status # task[t].status
    PROVE  \/ \E w \in Workers :
                /\ worker[w].task = t /\ worker[w].pc \notin ReportPCs /\ worker'[w] # worker[w]
                /\ <<task[t].status, task'[t].status>> \in
                     {<<"queued", "cancelled">>, <<"queued", "claimed">>, <<"claimed", "running">>,
                      <<"running", "completed">>, <<"running", "blocked">>, <<"running", "failed">>}
           \/ \E m \in Maintainers :
                /\ maint[m].task = t /\ maint[m].pc \in RecoveryPCs
                /\ task[t].status \in Recoverable /\ task'[t].status \in {"queued", "dead_lettered"}
           \/ task[t].status = "planned" /\ task'[t].status = "queued"
<1> DEFINE s == task[t].status  n == task'[t].status
<1>f. CalmAt(t)
  BY DEF Calm
<1>1. ASSUME NEW w \in Workers, WorkerStep(w) \/ WorkerCrash(w)
      PROVE  /\ worker[w].task = t /\ worker[w].pc \notin ReportPCs /\ worker'[w] # worker[w]
             /\ <<s, n>> \in {<<"queued", "cancelled">>, <<"queued", "claimed">>, <<"claimed", "running">>,
                              <<"running", "completed">>, <<"running", "blocked">>, <<"running", "failed">>}
  <2>1. WorkerWrites(w, t, n) /\ worker[w].task = t
    BY <1>1, WorkerStatus DEF WorkerWrites
  <2>2. WorkerFits(t, w)
    BY <1>f DEF CalmAt
  <2>3. ~ReleaseCommit(w)
    BY <1>f, <2>1, WorkerNever
  <2>4. \/ n = "cancelled" /\ worker[w].pc = "stale" /\ Goto(w, "stale_queue")
        \/ n = "claimed" /\ worker[w].pc = "claim" /\ \E meta : GotoWith(w, "heartbeat", meta)
        \/ n = "running" /\ worker[w].pc = "start" /\ \E meta : GotoWith(w, "run", meta)
        \/ n = "completed" /\ worker[w].pc = "complete_commit" /\ \E meta : GotoWith(w, "complete_queue", meta)
        \/ n = "blocked" /\ worker[w].pc = "block_commit" /\ Goto(w, "complete_queue")
        \/ n = "failed" /\ worker[w].pc = "fail_commit" /\ \E meta : GotoWith(w, "fail_queue", meta)
    BY <2>1, <2>3 DEF WorkerWrites, CancelStale, CommitClaim, StartExecution, CompleteCommit,
       BlockCommit, FailCommit, At
  <2>5. worker'[w].pc # worker[w].pc
    BY <2>4, FrameMoves
  <2> HIDE DEF n
  <2> QED BY <2>1, <2>2, <2>4, <2>5 DEF WorkerFits, WorkPCs, ReportPCs
<1>2. ASSUME NEW m \in Maintainers, MaintStep(m) \/ MaintCrash(m)
      PROVE  /\ maint[m].task = t /\ maint[m].pc \in RecoveryPCs
             /\ s \in Recoverable /\ n \in {"queued", "dead_lettered"}
  <2>1. MaintWrites(m, t, n)
    BY <1>2, MaintStatus
  <2>2. MaintFits(t, m) /\ maint[m].task = t
    BY <1>f, <2>1 DEF CalmAt, MaintWrites
  <2>3. ~OrphanCommit(m)
    <3> SUFFICES ASSUME OrphanCommit(m) PROVE FALSE
      OBVIOUS
    <3>1. maint[m].row.status = "queued"
      BY <2>2 DEF OrphanCommit, MAt, MaintFits
    <3>2. task' = task
      BY <3>1 DEF OrphanCommit, MRow
    <3> QED BY <3>2
  <2>4. maint[m].pc \in RecoveryPCs /\ n \in {"queued", "dead_lettered"}
    BY <2>1, <2>3 DEF MaintWrites, RequeueCommit, DeadLetterCommit, MAt, RecoveryPCs
  <2>5. s \in Recoverable
    BY <1>f, <2>2, <2>4, NoRecovery
  <2> QED BY <2>2, <2>4, <2>5
<1>3. ASSUME NEW r \in Requests, RequestRead(r) \/ RequestStep(r) \/ RequestCrash(r)
      PROVE  s = "planned" /\ n = "queued"
  <2>1. ApiWrites(r, t, n)
    BY <1>3, ApiStatus
  <2>2. RequestFits(t, r) /\ api[r].task = t /\ api[r].pc = "commit"
    BY <1>f, <2>1 DEF CalmAt, ApiWrites
  <2>3. ~PlaceInReview(r) /\ ~CancelTask(r)
    BY <2>2 DEF PlaceInReview, CancelTask, RequestFits
  <2> QED BY <2>1, <2>2, <2>3 DEF ApiWrites, RequestFits
<1>4. ASSUME NEW u \in Tasks, LeaseKeyExpires(u) PROVE FALSE
  BY <1>4 DEF LeaseKeyExpires, dbVars
<1> QED BY <1>1, <1>2, <1>3, <1>4 DEF Next

\* In the calm setting every committed change of a status is one that StateMachine
\* allows from the status in the database, although no session locks or re-reads
\* the row it decided on.
THEOREM StatusAlwaysFollowsTable == ASSUME CalmSetting PROVE Spec => StatusFollowsTable
<1> DEFINE Follows == \A t \in Tasks :
              LET s == task[t].status  n == task'[t].status IN
              s # n => CanMove(s, n) \/ (s = "running" /\ CanMove("recovering", n))
<1>1. Shape /\ Q!KeysConsistent /\ Calm /\ [Next]_vars => [Follows]_vars
  <2> SUFFICES ASSUME Shape, Q!KeysConsistent, Calm, Next, NEW t \in Tasks,
       task[t].status # task'[t].status
               PROVE  \/ CanMove(task[t].status, task'[t].status)
                      \/ task[t].status = "running" /\ CanMove("recovering", task'[t].status)
    OBVIOUS
  <2>1. /\ CanMove("queued", "cancelled") /\ CanMove("queued", "claimed") /\ CanMove("claimed", "running")
        /\ CanMove("running", "completed") /\ CanMove("running", "blocked") /\ CanMove("running", "failed")
        /\ CanMove("claimed", "queued") /\ CanMove("claimed", "dead_lettered")
        /\ CanMove("recovering", "queued") /\ CanMove("recovering", "dead_lettered")
        /\ CanMove("planned", "queued")
    BY DEF CanMove, TaskAllowed
  <2> QED BY <2>1, CalmWrites DEF Recoverable
<1> QED BY <1>1, CalmInvariant, ShapeInvariant, RuntimeKeysConsistent, PTL DEF Spec, StatusFollowsTable

\* In the calm setting maintenance never changes the status of a task while a worker
\* executes it, although the pass decides on lease rows and on a task list that it
\* read before the worker took the task up.
THEOREM HealthyWorkAlwaysKept == ASSUME CalmSetting PROVE Spec => HealthyWorkIsKept
<1> DEFINE Kept == \A t \in Tasks, w \in Workers :
              Executing(t, w) /\ worker'[w] = worker[w] /\ task[t].status = "running"
                => task'[t].status = "running"
<1>1. Shape /\ Q!KeysConsistent /\ Calm /\ [Next]_vars => [Kept]_vars
  <2> SUFFICES ASSUME Shape, Q!KeysConsistent, Calm, Next, NEW t \in Tasks, NEW w \in Workers,
                      Executing(t, w), worker'[w] = worker[w], task[t].status = "running",
                      task'[t].status # task[t].status
               PROVE  FALSE
    OBVIOUS
  <2>1. CalmAt(t) /\ worker[w].task = t /\ worker[w].pc \in InHandPCs /\ worker[w].pc \notin ReportPCs
    BY DEF Calm, Executing, InHandPCs, WorkPCs, ReportPCs
  <2>2. /\ \A v \in Workers : worker[v].task = t => v = w
        /\ \A m \in Maintainers : maint[m].task = t => maint[m].pc \notin RecoveryPCs
    BY <2>1, Alone, NoRecovery
  <2> QED BY <2>2, CalmWrites
<1> QED BY <1>1, CalmInvariant, ShapeInvariant, RuntimeKeysConsistent, PTL DEF Spec, HealthyWorkIsKept

-----------------------------------------------------------------------------
\* The setting of RetriesAreBounded: every kind of fault, a pass that dies between
\* the queue and its commit among them.
OnePassSetting ==
    /\ Timely
    /\ \A m, n \in Maintainers : m = n
    /\ Ops \subseteq {"admit"}

\* The payload has left the queue and no publication brings it back.
Finished(t) == Q!InNeitherQueue(t) /\ Published(t)

\* Before the start, but with the power to get there or to give the task back.
LatePCs == {"claim", "heartbeat", "start", "release"}

\* The owner of the payload works on the task, in one of the steps P.
OwnerIn(t, P) == \E w \in Workers : worker[w].task = t /\ leaseKey[t] = w /\ worker[w].pc \in P
Releasing(t) == \E w \in Workers : worker[w].task = t /\ worker[w].pc = "release_commit"

\* No worker that holds the task can still make it queued or start it anew ...
NoneLate(t) == ~Releasing(t) /\ ~OwnerIn(t, LatePCs)
\* ... nor report an outcome.
NoneOwns(t) == ~Releasing(t) /\ ~OwnerIn(t, LatePCs \cup StartedPCs)

\* A planned task is known to nobody but its admission.
Unseen(t) ==
    task[t].status = "planned" =>
      /\ Q!InNeitherQueue(t) /\ dispatch[t].status = "none" /\ ~ActiveLease(t)
      /\ \A w \in Workers : worker[w].task # t
      /\ \A m \in Maintainers : maint[m].task # t
      /\ \A r \in Requests : api[r].task = t => api[r].pc = "commit"

\* One admission of a task at a time, and the task is planned until it commits.
Admitting(r) ==
    api[r].pc = "commit" =>
      /\ api[r].op = "admit" /\ task[api[r].task].status = "planned"
      /\ \A q \in Requests : api[q].pc = "commit" /\ api[q].task = api[r].task => q = r

\* No task of a clarifying mission is claimed, and no other is cancelled as stale.
Withheld ==
    /\ \A w \in Workers : worker[w].pc = "stale" => worker[w].task \in Clarifying
    /\ \A w \in Workers : worker[w].pc \notin (EarlyPCs \ {"claim"}) \cup {"idle"} => worker[w].task \notin Clarifying
    /\ \A t \in Tasks : task[t].status \in Recoverable => t \notin Clarifying

\* Lease rows: published tasks only; none of a worker about to claim; the one that a
\* pass recovers is the latest.
LeaseRows ==
    /\ \A t \in Tasks : ActiveLease(t) => Published(t)
    /\ \A w \in Workers : worker[w].pc = "claim" => ~Holds(worker[w].task, w)
    /\ \A w \in Workers : worker[w].pc = "release_commit" => Holds(worker[w].task, w)
    /\ \A m \in Maintainers : maint[m].pc \in RecoveryPCs => maint[m].latest /\ Holds(maint[m].task, maint[m].holder)

\* A worker that has started owns the payload; nobody does while a claim is released.
Owners ==
    /\ \A w \in Workers : worker[w].pc \in StartedPCs => leaseKey[worker[w].task] = w
    /\ \A t \in Tasks : Releasing(t) => ~OwnerIn(t, LatePCs \cup StartedPCs)

\* A task that runs is not given back; one that has ended is not taken up again.
Sealed(t) ==
    /\ task[t].status = "running" => NoneLate(t)
    /\ task[t].status \in TerminalStates => Finished(t) \/ NoneOwns(t)

\* The queue refuses to give a task back that its worker in S has ended.
Closed(t, S) ==
    \/ Finished(t)
    \/ leaseKey[t] \in S /\ ~Releasing(t) /\ ~OwnerIn(t, WorkerPCs \ {"complete_queue", "fail_queue"})

\* What a pass has read of a task.
PassSealed(m) ==
    LET f == maint[m]  t == f.task  s == task[t].status IN
    /\ f.pc \in {"loaded", "reconcile"} =>
         /\ \A w \in Workers : worker[w].task = t => w \in f.since
         /\ f.row.status \in TerminalStates =>
              Finished(t) \/ (NoneOwns(t) /\ s \in TerminalStates \cup Recoverable)
         /\ f.row.status = "running" =>
              Closed(t, f.since) \/ (f.pc = "loaded" /\ s \in Recoverable /\ NoneLate(t))
    /\ f.pc = "bury" => Finished(t)
    /\ f.pc = "orphan" => f.row.status # "running"

SealInv ==
    /\ \A t \in Tasks : Unseen(t) /\ Sealed(t)
    /\ \A r \in Requests : Admitting(r)
    /\ Withheld /\ LeaseRows /\ Owners
    /\ \A m \in Maintainers : PassSealed(m)

-----------------------------------------------------------------------------
\* A step of the system is a step of one actor, as far as a worker is concerned.
LEMMA WorkerMove ==
    ASSUME Shape, Next, NEW w \in Workers
    PROVE  worker'[w] = worker[w] \/ WorkerStep(w) \/ WorkerCrash(w)
<1>1. ASSUME NEW v \in Workers, v # w, WorkerStep(v) \/ WorkerCrash(v) PROVE worker'[w] = worker[w]
  BY <1>1, WorkerLocal
<1>2. ASSUME NEW m \in Maintainers, MaintStep(m) \/ MaintCrash(m) PROVE worker'[w] = worker[w]
  BY <1>2, MaintLocal
<1>3. ASSUME NEW r \in Requests, RequestRead(r) \/ RequestStep(r) \/ RequestCrash(r) PROVE worker'[w] = worker[w]
  BY <1>3, ApiLocal
<1>4. ASSUME NEW t \in Tasks, LeaseKeyExpires(t) PROVE worker'[w] = worker[w]
  BY <1>4 DEF LeaseKeyExpires, procVars
<1> QED BY <1>1, <1>2, <1>3, <1>4 DEF Next

\* A worker gets a lease key by claiming a pending payload, and is then at its first step.
LEMMA KeyMove ==
    ASSUME Shape, Q!TypeOK, Next, NEW t \in Tasks, NEW w \in Workers, leaseKey'[t] = w
    PROVE  \/ leaseKey[t] = w
           \/ ClaimTask(w) /\ t \in pendingPayloads /\ worker'[w].task = t /\ worker'[w].pc = "read"
<1>1. CASE KeyOnlyDropped
  BY <1>1, RuntimeAssumption DEF KeyOnlyDropped, RuntimeAssumption
<1>2. ASSUME NEW v \in Workers, ClaimTask(v)
      PROVE  \/ leaseKey[t] = w
             \/ ClaimTask(w) /\ t \in pendingPayloads /\ worker'[w].task = t /\ worker'[w].pc = "read"
  <2>1. PICK u \in Tasks : Q!ClaimNext(u, v) /\ worker' = [worker EXCEPT ![v].pc = "read", ![v].task = u]
    BY <1>2 DEF ClaimTask
  <2>2. leaseKey' = [leaseKey EXCEPT ![u] = v] /\ u \in pendingPayloads
    BY <2>1 DEF Q!ClaimNext, Q!SetLease, Q!ClaimNextReply
  <2>3. CASE u = t
    <3>1. v = w
      BY <2>2, <2>3 DEF Q!TypeOK
    <3> QED BY <1>2, <2>1, <2>2, <2>3, <3>1 DEF Shape, FramesOK, WorkerFrames
  <2>4. CASE u # t
    BY <2>2, <2>4 DEF Q!TypeOK
  <2> QED BY <2>3, <2>4
<1> QED BY <1>1, <1>2, KeyStep

\* How a worker gets to the steps that the invariant is about.
LEMMA LateMoves ==
    ASSUME Shape, NEW w \in Workers, WorkerStep(w) \/ WorkerCrash(w)
    PROVE  /\ worker'[w].pc = "start" => Heartbeat(w)
           /\ worker'[w].pc = "release" => worker[w].pc \in {"heartbeat", "start"}
           /\ worker'[w].pc = "release_commit" =>
                Release(w) /\ Releasable(w) /\ Q!ReleaseReply(Task(w), w) = "ok" /\ Q!Release(Task(w), w)
           /\ worker'[w].pc \in StartedPCs \ {"start"} => worker[w].pc \in StartedPCs
           /\ worker'[w].pc \in {"complete_queue", "fail_queue"} =>
                \/ worker[w].pc = "complete_commit" /\ CompleteCommit(w)
                \/ worker[w].pc = "block_commit" /\ BlockCommit(w)
                \/ worker[w].pc = "fail_commit" /\ FailCommit(w)
<1> USE FrameMoves DEF At, StartedPCs
<1>1. CASE CommitClaim(w)
  BY <1>1 DEF CommitClaim
<1>2. CASE \/ Heartbeat(w) \/ ReleaseCommit(w) \/ CompleteCommit(w) \/ BlockCommit(w) \/ FailCommit(w)
  BY <1>2 DEF Heartbeat, ReleaseCommit, CompleteCommit, BlockCommit, FailCommit
<1>3. CASE ClaimTask(w)
  BY <1>3, ClaimMoves
<1>4. CASE ClaimRead(w)
  <2>1. worker'[w].pc \in {"discard", "stale", "idle", "claim", "compensate"}
    BY <1>4 DEF ClaimRead, ClaimBranch
  <2> QED BY <2>1
<1>5. CASE \/ DiscardTerminal(w) \/ CancelStale(w) \/ StaleQueue(w) \/ StaleCleanup(w)
           \/ CommitClaimFails(w) \/ Compensate(w) \/ StartExecution(w) \/ HeartbeatRefused(w) \/ StartFails(w)
  BY <1>5 DEF DiscardTerminal, CancelStale, StaleQueue, StaleCleanup, CommitClaimFails, Compensate,
     StartExecution, HeartbeatRefused, StartFails
<1>6. CASE Release(w)
  BY <1>6 DEF Release
<1>7. CASE \/ HandlerReturns(w) \/ HandlerFails(w) \/ CompleteRead(w) \/ CompleteFails(w)
           \/ CompleteQueue(w) \/ BlockRead(w) \/ FailRead(w) \/ FailQueue(w) \/ WorkerCrash(w)
  BY <1>7 DEF HandlerReturns, HandlerFails, CompleteRead, CompleteFails, CompletionError,
     CompleteQueue, BlockRead, FailRead, FailQueue, WorkerCrash
<1> QED
  BY <1>1, <1>2, <1>3, <1>4, <1>5, <1>6, <1>7 DEF WorkerStep

\* Only the reading of a claimed task leads to its stale branch.
LEMMA StaleMove ==
    ASSUME Shape, NEW w \in Workers, WorkerStep(w) \/ WorkerCrash(w), worker'[w].pc = "stale"
    PROVE  ClaimRead(w)
<1> USE FrameMoves DEF At
<1>1. CASE \/ Heartbeat(w) \/ ReleaseCommit(w) \/ CompleteCommit(w) \/ BlockCommit(w) \/ FailCommit(w) \/ CommitClaim(w)
  BY <1>1 DEF Heartbeat, ReleaseCommit, CompleteCommit, BlockCommit, FailCommit, CommitClaim
<1>2. CASE ClaimTask(w)
  BY <1>2, ClaimMoves
<1>3. CASE \/ DiscardTerminal(w) \/ CancelStale(w) \/ StaleQueue(w) \/ StaleCleanup(w) \/ Release(w)
           \/ CommitClaimFails(w) \/ Compensate(w) \/ StartExecution(w) \/ HeartbeatRefused(w) \/ StartFails(w)
  BY <1>3 DEF DiscardTerminal, CancelStale, StaleQueue, StaleCleanup, CommitClaimFails, Compensate,
     StartExecution, HeartbeatRefused, StartFails, Release
<1>4. CASE \/ HandlerReturns(w) \/ HandlerFails(w) \/ CompleteRead(w) \/ CompleteFails(w)
           \/ CompleteQueue(w) \/ BlockRead(w) \/ FailRead(w) \/ FailQueue(w) \/ WorkerCrash(w)
  BY <1>4 DEF HandlerReturns, HandlerFails, CompleteRead, CompleteFails, CompletionError,
     CompleteQueue, BlockRead, FailRead, FailQueue, WorkerCrash
<1> QED BY <1>1, <1>2, <1>3, <1>4 DEF WorkerStep

\* A worker decides to claim a queued task without an active lease.
LEMMA ClaimDecision ==
    ASSUME Shape, NEW w \in Workers, ClaimRead(w), worker'[w].pc = "claim"
    PROVE  /\ task[worker[w].task].status = "queued" /\ ~ActiveLease(worker[w].task)
           /\ worker[w].task \notin Clarifying /\ worker'[w].task = worker[w].task
<1>1. worker[w].task \in Tasks /\ task[worker[w].task].status \in Statuses
  BY RowHasMeta, RowTypes DEF ClaimRead, At, Shape, RowsOK, Task
<1>2. ClaimBranch(w) = "claim" /\ worker'[w].task = worker[w].task
  BY FrameMoves DEF ClaimRead
<1>3. ~ActiveLease(Task(w)) /\ CanMove(Row(w).status, "claimed") /\ Task(w) \notin Clarifying
  BY <1>2 DEF ClaimBranch
<1>4. \A s \in Statuses : CanMove(s, "claimed") => s = "queued"
  BY RowTypes DEF CanMove, TaskAllowed
<1> QED BY <1>1, <1>2, <1>3, <1>4 DEF Row, Task

\* A worker that holds the payload gets to a late step by a decision to claim only.
LEMMA OwnerStep ==
    ASSUME Shape, Q!TypeOK, Next, NEW t \in Tasks,
           NEW P \in {LatePCs, LatePCs \cup StartedPCs}, OwnerIn(t, P)'
    PROVE  OwnerIn(t, P) \/ (task[t].status = "queued" /\ ~ActiveLease(t))
<1> USE DEF LatePCs, StartedPCs
<1>1. PICK w \in Workers : worker'[w].task = t /\ leaseKey'[t] = w /\ worker'[w].pc \in P
  BY DEF OwnerIn
<1>2. leaseKey[t] = w
  BY <1>1, KeyMove
<1>3. CASE worker'[w] = worker[w]
  BY <1>1, <1>2, <1>3 DEF OwnerIn
<1>4. CASE WorkerStep(w) \/ WorkerCrash(w)
  <2>1. worker'[w].pc \notin EarlyPCs \ {"claim"} /\ worker'[w].task # NoTask
    BY <1>1, RuntimeAssumption DEF EarlyPCs, RuntimeAssumption
  <2>2. CASE worker'[w].pc = "claim"
    BY <1>1, <1>4, <2>2, WorkerPhases, ClaimDecision
  <2>3. CASE worker'[w].pc # "claim"
    <3>1. worker[w].task = t
      BY <1>1, <1>4, <2>1, <2>3, WorkerPhases DEF EarlyPCs
    <3>2. worker[w].pc \in P
      <4>1. CASE worker'[w].pc = "heartbeat"
        BY <1>4, <4>1, WorkerPhases DEF CommitClaim, At
      <4>2. CASE worker'[w].pc \in {"start", "release"}
        BY <1>1, <1>4, <4>2, LateMoves DEF Heartbeat, At
      <4>3. CASE worker'[w].pc \in StartedPCs \ {"start"}
        BY <1>1, <1>4, <4>3, LateMoves
      <4> QED BY <1>1, <2>3, <4>1, <4>2, <4>3
    <3> QED BY <1>2, <3>1, <3>2 DEF OwnerIn
  <2> QED BY <2>2, <2>3
<1> QED BY <1>3, <1>4, WorkerMove

\* Only the owner of the payload begins to give it back.
LEMMA ReleasingStep ==
    ASSUME Shape, Next, NEW t \in Tasks, Releasing(t)'
    PROVE  Releasing(t) \/ OwnerIn(t, {"release"})
<1>1. PICK w \in Workers : worker'[w].task = t /\ worker'[w].pc = "release_commit"
  BY DEF Releasing
<1>2. CASE worker'[w] = worker[w]
  BY <1>1, <1>2 DEF Releasing
<1>3. CASE WorkerStep(w) \/ WorkerCrash(w)
  <2>1. Release(w) /\ Q!ReleaseReply(Task(w), w) = "ok"
    BY <1>1, <1>3, LateMoves
  <2>2. worker[w].task = t /\ worker[w].pc = "release"
    BY <1>1, <1>3, <2>1, WorkerPhases, RuntimeAssumption DEF EarlyPCs, RuntimeAssumption, Release, At
  <2>3. leaseKey[t] = w
    BY <2>1, <2>2 DEF Q!ReleaseReply, Q!OwnedProcessingReply, Q!OwnerReply, Task
  <2> QED BY <2>2, <2>3 DEF OwnerIn
<1> QED BY <1>2, <1>3, WorkerMove

\* While a task is not queued, or leased, nobody gets hold of it who is not already.
LEMMA NoneStep ==
    ASSUME Shape, Q!TypeOK, Next, NEW t \in Tasks, task[t].status # "queued" \/ ActiveLease(t)
    PROVE  /\ NoneLate(t) => NoneLate(t)'
           /\ NoneOwns(t) => NoneOwns(t)'
<1>1. \A P, S : P \subseteq S /\ OwnerIn(t, P) => OwnerIn(t, S)
  BY DEF OwnerIn
<1>2. ASSUME NoneLate(t) PROVE NoneLate(t)'
  <2>1. ~Releasing(t)'
    BY <1>1, <1>2, ReleasingStep DEF NoneLate, LatePCs
  <2>2. ~OwnerIn(t, LatePCs)'
    BY <1>2, OwnerStep DEF NoneLate
  <2> QED BY <2>1, <2>2 DEF NoneLate, LatePCs
<1>3. ASSUME NoneOwns(t) PROVE NoneOwns(t)'
  <2>1. ~Releasing(t)'
    BY <1>1, <1>3, ReleasingStep DEF NoneOwns, LatePCs
  <2>2. ~OwnerIn(t, LatePCs \cup StartedPCs)'
    BY <1>3, OwnerStep DEF NoneOwns
  <2> QED BY <2>1, <2>2 DEF NoneOwns, LatePCs, StartedPCs
<1> QED BY <1>2, <1>3

\* What has left the queue for good stays out.
LEMMA FinishedStep ==
    ASSUME Shape, Q!TypeOK, FirstGeneration, Next, NEW t \in Tasks, Finished(t)
    PROVE  Finished(t)'
  BY PublicationStep DEF Finished, Published

-----------------------------------------------------------------------------
\* No step makes a task planned.
LEMMA PlannedBefore ==
    ASSUME Shape, Next, NEW t \in Tasks, task'[t].status = "planned"
    PROVE  task[t].status = "planned"
<1>1. ASSUME NEW u \in Tasks, LeaseKeyExpires(u) PROVE task' = task
  BY <1>1 DEF LeaseKeyExpires, dbVars
<1> QED BY <1>1, WorkerStatus, MaintStatus, ApiStatus DEF Next, WorkerWrites, MaintWrites, ApiWrites

\* The requests of the setting: admissions and their publications.
LEMMA AdmissionOnly ==
    ASSUME OnePassSetting, Shape, NEW r \in Requests
    PROVE  /\ ~PlaceInReview(r) /\ ~RetryTask(r) /\ ~CancelTask(r)
           /\ QueueTask(r) => SetStatus(ATask(r), "queued") /\ Admit(r, ATask(r)) /\ api[r].pc = "commit"
           /\ RequestRead(r) =>
                \E t \in Tasks : /\ task[t].status = "planned" /\ ~MissionLocked(t)
                                 /\ api' = [api EXCEPT ![r] = [pc |-> "commit", op |-> "admit", task |-> t,
                                                               row |-> task[t], disp |-> dispatch[t]]]
<1>1. api[r].op \in {"admit", "none"}
  BY DEF OnePassSetting, Shape, FramesOK, ApiFrames
<1>2. \A t \in Tasks : Accepts("admit", task[t]) <=> task[t].status = "planned"
  BY DEF Accepts
<1> QED BY <1>1, <1>2 DEF PlaceInReview, RetryTask, CancelTask, QueueTask, RequestRead, AAt, OnePassSetting

\* A pass takes up a task whose dispatch is due, whose lease row is held, or whose
\* payload is in processing.
LEMMA MaintTakes ==
    ASSUME Shape, NEW m \in Maintainers, MaintStep(m) \/ MaintCrash(m), NEW t \in Tasks,
           maint'[m].task = t, maint[m].task # t
    PROVE  \/ ListDue(m) /\ dispatch[t].status = "pending"
           \/ RecoverRead(m) /\ ActiveLease(t)
           \/ ReconcileLoad(m) /\ t \in processingPayloads
<1> USE DEF MAt
<1>0. /\ maint \in [Maintainers -> MaintFrames] /\ t # NoTask
      /\ \A pc : MGoto(m, pc) => maint'[m].task = maint[m].task
      /\ MDone(m) => maint'[m].task = NoTask
  BY PassFrames, RuntimeAssumption DEF Shape, FramesOK, RuntimeAssumption
<1>1. CASE ListDue(m)
  BY <1>0, <1>1 DEF ListDue, IdleMaint
<1>2. CASE RecoverRead(m)
  BY <1>0, <1>2 DEF RecoverRead, IdleMaint, ActiveLease
<1>3. CASE ReconcileLoad(m)
  BY <1>0, <1>3 DEF ReconcileLoad, IdleMaint
<1>4. CASE CleanCancelled(m)
  BY <1>4 DEF CleanCancelled, procVars
<1>5. CASE \/ DropDispatch(m) \/ PublishDue(m) \/ PublishDueAck(m) \/ RecoverUnsupported(m)
           \/ RecoverForRetry(m) \/ RequeueCommit(m) \/ RecoverToDeadLetter(m) \/ DeadLetterCommit(m)
  BY <1>0, <1>5 DEF DropDispatch, PublishDue, PublishDueAck, RecoverUnsupported, RecoverForRetry,
     RequeueCommit, RecoverToDeadLetter, DeadLetterCommit
<1>6. CASE \/ ReconcileCheck(m) \/ ReconcileTerminal(m) \/ ReconcileFailed(m) \/ ReconcileOrphan(m)
           \/ OrphanCommit(m) \/ MaintCrash(m)
  BY <1>0, <1>6 DEF ReconcileCheck, ReconcileTerminal, ReconcileFailed, ReconcileOrphan, OrphanCommit,
     MaintCrash
<1> QED BY <1>1, <1>2, <1>3, <1>4, <1>5, <1>6 DEF MaintStep

\* A request takes up a task by reading it.
LEMMA RequestTakes ==
    ASSUME Shape, NEW r \in Requests, RequestRead(r) \/ RequestStep(r) \/ RequestCrash(r),
           api'[r].task \notin {api[r].task, NoTask}
    PROVE  RequestRead(r)
<1> USE RequestFrames
<1>1. CASE QueueTask(r) \/ PlaceInReview(r) \/ RetryTask(r) \/ CancelTask(r) \/ CancelCleanup(r)
  BY <1>1 DEF QueueTask, Admit, PlaceInReview, RetryTask, CancelTask, CancelCleanup
<1>2. CASE HookRead(r)
  BY <1>2 DEF HookRead, IdleApi, ATask, Shape, FramesOK
<1>3. CASE HookPublish(r) \/ HookAck(r) \/ RequestCrash(r)
  BY <1>3 DEF HookPublish, HookAck, RequestCrash
<1> QED BY <1>1, <1>2, <1>3 DEF RequestStep

\* A request moves its own frame only, and gets to its commit by reading a task only.
LEMMA RequestOwn ==
    ASSUME Shape, NEW r \in Requests, RequestRead(r) \/ RequestStep(r) \/ RequestCrash(r)
    PROVE  /\ \A q \in Requests \ {r} : api'[q] = api[q]
           /\ api'[r].pc = "commit" => api'[r] = api[r] \/ RequestRead(r)
<1> USE RequestFrames
<1>1. CASE RequestRead(r)
  BY <1>1 DEF RequestRead, Shape, FramesOK
<1>2. CASE QueueTask(r) \/ PlaceInReview(r) \/ RetryTask(r) \/ CancelTask(r) \/ CancelCleanup(r)
  BY <1>2 DEF QueueTask, Admit, PlaceInReview, RetryTask, CancelTask, CancelCleanup
<1>3. CASE HookRead(r)
  BY <1>3 DEF HookRead, IdleApi, ATask, Shape, FramesOK
<1>4. CASE HookPublish(r) \/ HookAck(r) \/ RequestCrash(r)
  BY <1>4 DEF HookPublish, HookAck, RequestCrash
<1> QED BY <1>1, <1>2, <1>3, <1>4 DEF RequestStep

\* A committed claim takes from the requests at most a stale reference to the lease.
LEMMA OthersAdmit ==
    ASSUME Shape, Next, NEW r \in Requests, \A q \in Requests : ~(RequestRead(q) \/ RequestStep(q) \/ RequestCrash(q))
    PROVE  /\ api'[r].pc = api[r].pc /\ api'[r].task = api[r].task /\ api'[r].op = api[r].op
<1>1. ASSUME NEW w \in Workers, CommitClaim(w)
      PROVE  api'[r].pc = api[r].pc /\ api'[r].task = api[r].task /\ api'[r].op = api[r].op
  BY <1>1 DEF CommitClaim, InsertLease, Shape, FramesOK, ApiFrames
<1>2. ASSUME NEW w \in Workers, ClaimTask(w) PROVE api' = api
  BY <1>2 DEF ClaimTask
<1>3. ASSUME NEW w \in Workers, WorkerStep(w) \/ WorkerCrash(w), ~CommitClaim(w), ~ClaimTask(w) PROVE api' = api
  BY <1>3, WorkerLocal
<1>4. ASSUME NEW t \in Tasks, LeaseKeyExpires(t) PROVE api' = api
  BY <1>4 DEF LeaseKeyExpires, procVars
<1> QED BY <1>1, <1>2, <1>3, <1>4, MaintLocal DEF Next

\* A planned task stays unseen: nothing of it is in the queue, due, leased or read.
LEMMA UnseenStep ==
    ASSUME OnePassSetting, Shape, Q!TypeOK, SealInv, Next, NEW t \in Tasks
    PROVE  Unseen(t)'
<1> SUFFICES ASSUME task'[t].status = "planned" PROVE Unseen(t)'
  BY DEF Unseen
<1>0. task[t].status = "planned" /\ t # NoTask
  BY PlannedBefore, RuntimeAssumption DEF RuntimeAssumption
<1>1. /\ Q!InNeitherQueue(t) /\ dispatch[t].status = "none" /\ ~ActiveLease(t)
      /\ \A w \in Workers : worker[w].task # t
      /\ \A m \in Maintainers : maint[m].task # t
      /\ \A r \in Requests : api[r].task = t => api[r].pc = "commit"
  BY <1>0 DEF SealInv, Unseen
<1>2. ASSUME Untouched(t) PROVE Unseen(t)'
  BY <1>1, <1>2 DEF Unseen, Untouched, SameRows, SameQueue, SameWorkers, SameMaints, SameRequests,
     Q!InNeitherQueue, ActiveLease
<1>3. ASSUME NEW w \in Workers, WorkerStep(w) \/ WorkerCrash(w) PROVE Unseen(t)'
  <2>1. worker'[w].task # t
    <3>1. ASSUME worker'[w].task = t PROVE FALSE
      <4>1. ClaimTask(w)
        BY <1>0, <1>1, <1>3, <3>1, WorkerTasks
      <4>2. PICK u \in Tasks : Q!ClaimNext(u, w) /\ worker' = [worker EXCEPT ![w].pc = "read", ![w].task = u]
        BY <4>1 DEF ClaimTask
      <4>3. u = t
        BY <3>1, <4>2 DEF Shape, FramesOK, WorkerFrames
      <4> QED BY <1>1, <4>2, <4>3 DEF Q!ClaimNext, Q!ClaimNextReply, Q!InNeitherQueue
    <3> QED BY <3>1
  <2> QED BY <1>1, <1>2, <1>3, <2>1, WorkerElsewhere
<1>4. ASSUME NEW m \in Maintainers, MaintStep(m) \/ MaintCrash(m) PROVE Unseen(t)'
  <2>1. CASE CleanCancelled(m)
    <3>1. PICK u \in Tasks : ReconcileCancelled(u) /\ \A v \in Tasks \ {u} : Untouched(v)
      BY <2>1, CleanElsewhere
    <3>2. u # t
      BY <1>1, <3>1 DEF ReconcileCancelled, NeedsCancelCleanup
    <3> QED BY <1>2, <3>1, <3>2
  <2>2. CASE ~CleanCancelled(m)
    <3>1. maint'[m].task # t
      BY <1>1, <1>4, MaintTakes DEF Q!InNeitherQueue
    <3> QED BY <1>1, <1>2, <1>4, <2>2, <3>1, MaintElsewhere
  <2> QED BY <2>1, <2>2
<1>5. ASSUME NEW r \in Requests, RequestRead(r) \/ RequestStep(r) \/ RequestCrash(r) PROVE Unseen(t)'
  <2>1. CASE api[r].task = t
    <3>1. api[r].pc = "commit"
      BY <1>1, <2>1
    <3>2. ~QueueTask(r)
      <4>1. ASSUME QueueTask(r) PROVE task'[t].status = "queued"
        BY <2>1, <4>1, AdmissionOnly, WriteOne DEF ATask, Shape, RowsOK
      <4> QED BY <4>1
    <3>3. RequestCrash(r)
      BY <1>5, <3>1, <3>2, AdmissionOnly
         DEF RequestStep, RequestRead, CancelCleanup, HookRead, HookPublish, HookAck, AAt
    <3>4. UNCHANGED <<dbVars, queueVars, worker, maint>> /\ ADone(r)
      BY <3>3 DEF RequestCrash
    <3>5. \A q \in Requests : api'[q].task = t => api'[q].pc = "commit"
      BY <1>0, <1>1, <3>4, RequestFrames
    <3> QED BY <1>1, <3>4, <3>5 DEF Unseen, dbVars, queueVars, Q!InNeitherQueue, ActiveLease
  <2>2. CASE api[r].task # t /\ api'[r].task # t
    BY <1>2, <1>5, <2>2, ApiElsewhere
  <2>3. CASE api[r].task # t /\ api'[r].task = t
    <3>1. RequestRead(r)
      BY <1>0, <1>5, <2>3, RequestTakes
    <3>2. api'[r].pc = "commit" /\ \A q \in Requests \ {r} : api'[q] = api[q]
      BY <3>1, AdmissionOnly DEF Shape, FramesOK
    <3>3. UNCHANGED <<dbVars, queueVars, worker, maint>>
      BY <3>1 DEF RequestRead
    <3> QED BY <1>1, <3>2, <3>3 DEF Unseen, dbVars, queueVars, Q!InNeitherQueue, ActiveLease
  <2> QED BY <2>1, <2>2, <2>3
<1>6. ASSUME NEW u \in Tasks, LeaseKeyExpires(u) PROVE Unseen(t)'
  BY <1>1, <1>6 DEF LeaseKeyExpires, Q!LeaseExpires, dbVars, procVars, Unseen, Q!InNeitherQueue, ActiveLease
<1> QED BY <1>3, <1>4, <1>5, <1>6 DEF Next

\* While an admission is under way its task stays planned, and no other begins.
LEMMA AdmittingStep ==
    ASSUME OnePassSetting, Shape, Q!TypeOK, SealInv, Next, NEW r \in Requests
    PROVE  Admitting(r)'
<1> SUFFICES ASSUME api'[r].pc = "commit" PROVE Admitting(r)'
  BY DEF Admitting
<1> DEFINE Same(q) == api'[q].pc = api[q].pc /\ api'[q].task = api[q].task /\ api'[q].op = api[q].op
<1>1. Same(r) \/ RequestRead(r)
  <2>1. ASSUME NEW q \in Requests, q # r, RequestRead(q) \/ RequestStep(q) \/ RequestCrash(q) PROVE Same(r)
    BY <2>1, RequestOwn
  <2>2. ASSUME RequestStep(r) \/ RequestCrash(r) PROVE Same(r) \/ RequestRead(r)
    BY <2>2, RequestOwn
  <2> QED BY <2>1, <2>2, OthersAdmit DEF Next
<1>2. CASE RequestRead(r)
  <2>1. PICK u \in Tasks : /\ task[u].status = "planned" /\ ~MissionLocked(u)
                           /\ api' = [api EXCEPT ![r] = [pc |-> "commit", op |-> "admit", task |-> u,
                                                         row |-> task[u], disp |-> dispatch[u]]]
    BY <1>2, AdmissionOnly
  <2>2. api'[r].op = "admit" /\ api'[r].task = u /\ \A q \in Requests \ {r} : api'[q] = api[q]
    BY <2>1 DEF Shape, FramesOK
  <2>3. task' = task
    BY <1>2 DEF RequestRead, dbVars
  <2>4. ASSUME NEW q \in Requests, q # r, api'[q].pc = "commit", api'[q].task = u PROVE FALSE
    <3>1. api[q].pc = "commit" /\ api[q].op = "admit" /\ api[q].task = u
      BY <2>2, <2>4 DEF SealInv, Admitting
    <3> QED BY <2>1, <3>1 DEF MissionLocked, AAt, ATask
  <2> QED BY <2>1, <2>2, <2>3, <2>4 DEF Admitting
<1>3. CASE Same(r)
  <2>1. /\ api[r].pc = "commit" /\ api[r].op = "admit" /\ api[r].task \in Tasks
        /\ task[api[r].task].status = "planned"
        /\ \A q \in Requests : api[q].pc = "commit" /\ api[q].task = api[r].task => q = r
    BY <1>3 DEF SealInv, Admitting, Shape, FramesOK, ApiFrameOK, ApiFrames
  <2>2. task'[api[r].task].status = "planned"
    <3>1. Unseen(api[r].task)
      BY <2>1 DEF SealInv
    <3>2. ASSUME task'[api[r].task].status # "planned" PROVE FALSE
      <4>1. PICK q \in Requests : ApiWrites(q, api[r].task, task'[api[r].task].status)
        BY <2>1, <3>1, <3>2, WorkerStatus, MaintStatus, ApiStatus
           DEF Next, WorkerWrites, MaintWrites, Unseen, LeaseKeyExpires, dbVars
      <4>2. q = r
        BY <2>1, <4>1 DEF ApiWrites
      <4>3. QueueTask(r)
        BY <4>1, <4>2, AdmissionOnly DEF ApiWrites
      <4>4. api'[r].pc # "commit"
        BY <4>3, AdmissionOnly, RequestFrames DEF Admit
      <4> QED BY <4>4
    <3> QED BY <3>2
  <2>3. ASSUME NEW q \in Requests, q # r, api'[q].pc = "commit", api'[q].task = api[r].task PROVE FALSE
    <3>1. Same(q) \/ RequestRead(q)
      <4>1. ASSUME NEW p \in Requests, p # q, RequestRead(p) \/ RequestStep(p) \/ RequestCrash(p) PROVE Same(q)
        BY <4>1, RequestOwn
      <4>2. ASSUME RequestStep(q) \/ RequestCrash(q) PROVE Same(q) \/ RequestRead(q)
        BY <2>3, <4>2, RequestOwn
      <4> QED BY <2>3, <4>1, <4>2, OthersAdmit DEF Next
    <3>2. CASE Same(q)
      BY <2>1, <2>3, <3>2
    <3>3. CASE RequestRead(q)
      <4>1. PICK u \in Tasks : /\ ~MissionLocked(u)
                               /\ api' = [api EXCEPT ![q] = [pc |-> "commit", op |-> "admit", task |-> u,
                                                             row |-> task[u], disp |-> dispatch[u]]]
        BY <3>3, AdmissionOnly
      <4>2. u = api[r].task
        BY <2>3, <4>1 DEF Shape, FramesOK
      <4> QED BY <2>1, <4>1, <4>2 DEF MissionLocked, AAt, ATask
    <3> QED BY <3>1, <3>2, <3>3
  <2> QED BY <1>3, <2>1, <2>2, <2>3 DEF Admitting
<1> QED BY <1>1, <1>2, <1>3

\* No step takes a task of a clarifying mission past the stale branch.
LEMMA WithheldStep ==
    ASSUME Shape, SealInv, Next
    PROVE  Withheld'
<1>1. ASSUME NEW w \in Workers, worker'[w].pc \notin (EarlyPCs \ {"claim"}) \cup {"idle"}
      PROVE  worker'[w].task \notin Clarifying
  <2>1. CASE worker'[w] = worker[w]
    BY <1>1, <2>1 DEF SealInv, Withheld
  <2>2. CASE WorkerStep(w) \/ WorkerCrash(w)
    <3>1. CASE worker'[w].pc = "claim"
      BY <2>2, <3>1, WorkerPhases, ClaimDecision
    <3>2. CASE worker'[w].pc # "claim"
      <4>1. worker'[w].pc \notin EarlyPCs
        BY <1>1, <3>2
      <4>2. worker'[w].task # NoTask
        BY <1>1, <2>2, ShapeStep DEF Shape, FramesOK, WorkerFrameOK
      <4>3. worker'[w].task = worker[w].task /\ (worker[w].pc \notin EarlyPCs \/ worker[w].pc = "claim")
        BY <2>2, <4>1, <4>2, WorkerPhases DEF CommitClaim, At
      <4>4. worker[w].pc # "idle"
        BY <4>2, <4>3 DEF Shape, FramesOK, WorkerFrameOK
      <4> QED BY <4>3, <4>4 DEF SealInv, Withheld
    <3> QED BY <3>1, <3>2
  <2> QED BY <2>1, <2>2, WorkerMove
<1>3. ASSUME NEW w \in Workers, worker'[w].pc = "stale" PROVE worker'[w].task \in Clarifying
  <2>1. CASE worker'[w] = worker[w]
    BY <1>3, <2>1 DEF SealInv, Withheld
  <2>2. CASE WorkerStep(w) \/ WorkerCrash(w)
    <3>1. ClaimRead(w)
      BY <1>3, <2>2, StaleMove
    <3> QED BY <1>3, <3>1, FrameMoves DEF ClaimRead, ClaimBranch, Task
  <2> QED BY <2>1, <2>2, WorkerMove
<1>2. ASSUME NEW t \in Tasks, task'[t].status \in Recoverable PROVE t \notin Clarifying
  <2>1. CASE task'[t].status = task[t].status
    BY <1>2, <2>1 DEF SealInv, Withheld
  <2>2. CASE task'[t].status # task[t].status
    <3>1. PICK w \in Workers : worker[w].task = t /\ worker[w].pc \in {"claim", "start"}
      BY <1>2, <2>2, WorkerStatus, MaintStatus, ApiStatus
         DEF Next, WorkerWrites, MaintWrites, ApiWrites, LeaseKeyExpires, dbVars, Recoverable, CommitClaim,
             StartExecution, At
    <3> QED BY <3>1 DEF SealInv, Withheld, EarlyPCs
  <2> QED BY <2>1, <2>2
<1> QED BY <1>1, <1>2, <1>3 DEF Withheld

\* A lease row becomes held by the claim or the heartbeat of its worker ...
LEMMA LeaseGrows ==
    ASSUME Shape, Next, NEW t \in Tasks, NEW w \in Workers, Holds(t, w)', ~Holds(t, w)
    PROVE  worker[w].task = t /\ worker'[w].pc \in {"heartbeat", "start"}
<1> USE DEF Holds
<1>0. lease \in [Tasks -> [Workers -> LeaseStatuses]]
  BY DEF Shape, RowsOK
<1>1. ASSUME NEW v \in Workers, WorkerStep(v) \/ WorkerCrash(v)
      PROVE  worker[w].task = t /\ worker'[w].pc \in {"heartbeat", "start"}
  <2>1. v = w /\ worker[w].task = t
    BY <1>1, WorkerLocal
  <2>2. CASE CommitClaim(w) \/ Heartbeat(w)
    BY <2>1, <2>2, FrameMoves DEF CommitClaim, Heartbeat
  <2>3. CASE ~(CommitClaim(w) \/ Heartbeat(w))
    <3>1. lease' = lease \/ \E s \in {"released"} : lease' = [lease EXCEPT ![t][w] = s]
      <4>1. CASE ReleaseCommit(w) \/ CompleteCommit(w) \/ BlockCommit(w) \/ FailCommit(w)
        BY <2>1, <4>1 DEF ReleaseCommit, CompleteCommit, BlockCommit, FailCommit, PutLease, Task
      <4>2. CASE \/ ClaimTask(w) \/ ClaimRead(w) \/ DiscardTerminal(w) \/ CancelStale(w) \/ StaleQueue(w)
                 \/ StaleCleanup(w) \/ CommitClaimFails(w) \/ Compensate(w) \/ StartExecution(w)
                 \/ HeartbeatRefused(w) \/ StartFails(w) \/ Release(w)
        BY <4>2 DEF ClaimTask, ClaimRead, DiscardTerminal, CancelStale, StaleQueue, StaleCleanup,
           CommitClaimFails, Compensate, StartExecution, HeartbeatRefused, StartFails, Release, dbVars, leaseVars
      <4>3. CASE \/ HandlerReturns(w) \/ HandlerFails(w) \/ CompleteRead(w) \/ CompleteFails(w)
                 \/ CompleteQueue(w) \/ BlockRead(w) \/ FailRead(w) \/ FailQueue(w) \/ WorkerCrash(w)
        BY <4>3 DEF HandlerReturns, HandlerFails, CompleteRead, CompleteFails, CompleteQueue, BlockRead,
           FailRead, FailQueue, WorkerCrash, dbVars
      <4> QED BY <1>1, <2>1, <2>3, <4>1, <4>2, <4>3 DEF WorkerStep
    <3> QED BY <1>0, <3>1
  <2> QED BY <2>2, <2>3
<1>2. ASSUME NEW m \in Maintainers, MaintStep(m) \/ MaintCrash(m) PROVE FALSE
  <2>1. ExpireLease(m) /\ maint[m].pc \in RecoveryPCs
    BY <1>2, MaintLocal
  <2>2. lease' = [lease EXCEPT ![maint[m].task][maint[m].holder] =
                    IF maint[m].latest THEN "expired" ELSE lease[maint[m].task][maint[m].holder]]
    BY <2>1 DEF ExpireLease, PutLease, MTask, Holder
  <2> QED BY <1>0, <2>2
<1>3. ASSUME NEW u \in Tasks, LeaseKeyExpires(u) PROVE FALSE
  BY <1>3 DEF LeaseKeyExpires, dbVars
<1> QED BY <1>1, <1>2, <1>3, ApiLocal DEF Next

\* ... and is given up by the release or the outcome of its worker, or expired by a pass.
LEMMA LeaseShrinks ==
    ASSUME Shape, Next, NEW t \in Tasks, NEW w \in Workers, Holds(t, w), ~Holds(t, w)'
    PROVE  \/ /\ worker[w].task = t /\ worker[w].pc \notin EarlyPCs \ {"claim"}
              /\ worker'[w].pc \notin {"release_commit", "claim"}
           \/ \E m \in Maintainers : /\ maint[m].pc \in RecoveryPCs /\ maint'[m] = IdleMaint
                                     /\ maint[m].task = t /\ maint[m].holder = w /\ maint[m].latest
<1> USE DEF Holds
<1>0. lease \in [Tasks -> [Workers -> LeaseStatuses]]
  BY DEF Shape, RowsOK
<1>1. ASSUME NEW v \in Workers, WorkerStep(v) \/ WorkerCrash(v)
      PROVE  /\ worker[w].task = t /\ worker[w].pc \notin EarlyPCs \ {"claim"}
             /\ worker'[w].pc \notin {"release_commit", "claim"}
  <2>1. v = w /\ worker[w].task = t
    BY <1>1, WorkerLocal
  <2>2. CASE CommitClaim(w) \/ Heartbeat(w) \/ ReleaseCommit(w) \/ CompleteCommit(w) \/ BlockCommit(w) \/ FailCommit(w)
    BY <2>1, <2>2, FrameMoves
       DEF CommitClaim, Heartbeat, ReleaseCommit, CompleteCommit, BlockCommit, FailCommit, At, EarlyPCs
  <2>3. CASE \/ ClaimTask(w) \/ ClaimRead(w) \/ DiscardTerminal(w) \/ CancelStale(w) \/ StaleQueue(w)
             \/ StaleCleanup(w) \/ CommitClaimFails(w) \/ Compensate(w) \/ StartExecution(w)
             \/ HeartbeatRefused(w) \/ StartFails(w) \/ Release(w)
    BY <2>3 DEF ClaimTask, ClaimRead, DiscardTerminal, CancelStale, StaleQueue, StaleCleanup,
       CommitClaimFails, Compensate, StartExecution, HeartbeatRefused, StartFails, Release, dbVars, leaseVars
  <2>4. CASE \/ HandlerReturns(w) \/ HandlerFails(w) \/ CompleteRead(w) \/ CompleteFails(w)
             \/ CompleteQueue(w) \/ BlockRead(w) \/ FailRead(w) \/ FailQueue(w) \/ WorkerCrash(w)
    BY <2>4 DEF HandlerReturns, HandlerFails, CompleteRead, CompleteFails, CompleteQueue, BlockRead,
       FailRead, FailQueue, WorkerCrash, dbVars
  <2> QED BY <1>1, <2>1, <2>2, <2>3, <2>4 DEF WorkerStep
<1>2. ASSUME NEW m \in Maintainers, MaintStep(m) \/ MaintCrash(m)
      PROVE  /\ maint[m].pc \in RecoveryPCs /\ maint'[m] = IdleMaint
             /\ maint[m].task = t /\ maint[m].holder = w /\ maint[m].latest
  <2>1. ExpireLease(m) /\ maint[m].pc \in RecoveryPCs /\ maint'[m] = IdleMaint
    BY <1>2, MaintLocal
  <2>2. lease' = [lease EXCEPT ![maint[m].task][maint[m].holder] =
                    IF maint[m].latest THEN "expired" ELSE lease[maint[m].task][maint[m].holder]]
    BY <2>1 DEF ExpireLease, PutLease, MTask, Holder
  <2> QED BY <1>0, <2>1, <2>2
<1>3. ASSUME NEW u \in Tasks, LeaseKeyExpires(u) PROVE FALSE
  BY <1>3 DEF LeaseKeyExpires, dbVars
<1> QED BY <1>1, <1>2, <1>3, ApiLocal DEF Next

\* How the frame of a pass changes: by its own step, or by a claim that shows in it.
LEMMA PassMoves ==
    ASSUME Shape, Next, NEW m \in Maintainers
    PROVE  \/ MaintStep(m) \/ MaintCrash(m)
           \/ /\ maint'[m].pc = maint[m].pc /\ maint'[m].task = maint[m].task
              /\ maint'[m].holder = maint[m].holder /\ maint'[m].row = maint[m].row
              /\ maint[m].since \subseteq maint'[m].since
              /\ maint'[m].latest # maint[m].latest =>
                   \E w \in Workers : CommitClaim(w) /\ maint[m].task = worker[w].task /\ maint[m].holder = w
              /\ \A w \in Workers : ClaimTask(w) /\ maint[m].task = worker'[w].task => w \in maint'[m].since
<1> DEFINE Kept == /\ maint'[m].pc = maint[m].pc /\ maint'[m].task = maint[m].task
                   /\ maint'[m].holder = maint[m].holder /\ maint'[m].row = maint[m].row
                   /\ maint[m].since \subseteq maint'[m].since
           Stale == maint'[m].latest # maint[m].latest =>
                      \E w \in Workers : CommitClaim(w) /\ maint[m].task = worker[w].task /\ maint[m].holder = w
           SeenBy == \A w \in Workers : ClaimTask(w) /\ maint[m].task = worker'[w].task => w \in maint'[m].since
<1>0. maint \in [Maintainers -> MaintFrames]
  BY DEF Shape, FramesOK
<1>1. SeenBy
  BY ClaimSeen
<1>2. ASSUME NEW w \in Workers, CommitClaim(w) PROVE Kept /\ Stale
  BY <1>0, <1>2 DEF CommitClaim, InsertLease, MaintFrames, Task
<1>3. ASSUME NEW w \in Workers, ClaimTask(w) PROVE Kept /\ Stale
  BY <1>3, ClaimSeen
<1>4. ASSUME maint'[m] = maint[m] PROVE Kept /\ Stale
  BY <1>4
<1>5. ASSUME NEW w \in Workers, WorkerStep(w) \/ WorkerCrash(w) PROVE Kept /\ Stale
  BY <1>2, <1>3, <1>4, <1>5, WorkerLocal
<1>6. ASSUME NEW n \in Maintainers, n # m, MaintStep(n) \/ MaintCrash(n) PROVE maint'[m] = maint[m]
  BY <1>6, MaintLocal
<1>7. ASSUME NEW t \in Tasks, LeaseKeyExpires(t) PROVE maint' = maint
  BY <1>7 DEF LeaseKeyExpires, procVars
<1> HIDE DEF Kept, Stale, SeenBy
<1>8. MaintStep(m) \/ MaintCrash(m) \/ (Kept /\ Stale)
  BY <1>4, <1>5, <1>6, <1>7, ApiLocal DEF Next
<1> QED BY <1>1, <1>8 DEF Kept, Stale, SeenBy

\* What LeaseRows says of the lease rows stays true.
LEMMA LeaseRowsStep ==
    ASSUME OnePassSetting, Shape, Q!TypeOK, StartInv, FirstGeneration, KeyKept, SealInv, Next
    PROVE  LeaseRows'
<1> USE DEF Holds
<1>0. LeaseRows /\ OnePassSetting
  BY DEF SealInv
<1>1. ASSUME NEW t \in Tasks, ActiveLease(t)' PROVE Published(t)'
  <2>1. PICK w \in Workers : Holds(t, w)'
    BY <1>1 DEF ActiveLease
  <2>2. Published(t)
    <3>1. CASE Holds(t, w)
      BY <1>0, <3>1 DEF LeaseRows, ActiveLease
    <3>2. CASE ~Holds(t, w)
      <4>1. worker[w].task = t
        BY <2>1, <3>2, LeaseGrows
      <4> QED BY <4>1 DEF KeyKept, WorkersOn, Published
    <3> QED BY <3>1, <3>2
  <2> QED BY <2>2, PublicationStep DEF Published
<1>2. ASSUME NEW w \in Workers, worker'[w].pc = "claim" PROVE ~Holds(worker[w].task, w)' /\ worker'[w].task = worker[w].task
  <2>1. worker[w].task \in Tasks /\ worker'[w].task = worker[w].task /\ ~Holds(worker[w].task, w)
    <3>1. CASE worker'[w] = worker[w]
      BY <1>0, <1>2, <3>1 DEF LeaseRows, Shape, FramesOK, WorkerFrameOK, WorkerFrames
    <3>2. CASE WorkerStep(w) \/ WorkerCrash(w)
      <4>1. ClaimRead(w)
        BY <1>2, <3>2, WorkerPhases
      <4> QED BY <1>2, <4>1, ClaimDecision
              DEF ActiveLease, Shape, FramesOK, WorkerFrameOK, WorkerFrames, ClaimRead, At
    <3> QED BY <3>1, <3>2, WorkerMove
  <2> QED BY <1>2, <2>1, LeaseGrows
<1>3. ASSUME NEW w \in Workers, worker'[w].pc = "release_commit"
      PROVE  Holds(worker[w].task, w)' /\ worker'[w].task = worker[w].task
  <2>1. /\ worker[w].task \in Tasks /\ worker'[w].task = worker[w].task /\ Holds(worker[w].task, w)
        /\ worker[w].pc \in {"release", "release_commit"}
    <3>1. CASE worker'[w] = worker[w]
      BY <1>0, <1>3, <3>1 DEF LeaseRows, Shape, FramesOK, WorkerFrameOK, WorkerFrames
    <3>2. CASE WorkerStep(w) \/ WorkerCrash(w)
      <4>1. Release(w) /\ Releasable(w)
        BY <1>3, <3>2, LateMoves
      <4>2. worker'[w].task = worker[w].task
        BY <1>3, <4>1, FrameMoves DEF Release
      <4> QED BY <4>1, <4>2 DEF Releasable, Release, At, Task, Shape, FramesOK, WorkerFrameOK, WorkerFrames
    <3> QED BY <3>1, <3>2, WorkerMove
  <2>2. ASSUME ~Holds(worker[w].task, w)' PROVE FALSE
    <3>1. PICK m \in Maintainers : /\ maint[m].pc \in RecoveryPCs /\ maint[m].latest
                                   /\ maint[m].task = worker[w].task /\ maint[m].holder = w
      BY <1>3, <2>1, <2>2, LeaseShrinks
    <3>2. worker[w].pc \in EarlyPCs
      BY <3>1 DEF StartInv, StaleRecovery
    <3> QED BY <2>1, <3>2 DEF EarlyPCs
  <2> QED BY <2>1, <2>2
<1>4. ASSUME NEW m \in Maintainers, maint'[m].pc \in RecoveryPCs
      PROVE  maint'[m].latest /\ Holds(maint[m].task, maint[m].holder)'
  <2>0. ~(maint'[m] = IdleMaint)
    BY <1>4 DEF RecoveryPCs, IdleMaint
  <2>1. CASE RecoverRead(m)
    <3>1. PICK t \in Tasks, w \in Workers :
             /\ lease[t][w] \in {"claimed", "active"}
             /\ maint' = [maint EXCEPT ![m] = [IdleMaint EXCEPT !.pc = "recover", !.task = t, !.holder = w,
                                                                !.row = Seen(t), !.since = WorkersOn(t)]]
      BY <2>1 DEF RecoverRead
    <3>2. maint'[m].task = t /\ maint'[m].holder = w /\ maint'[m].latest
      BY <3>1 DEF IdleMaint, Shape, FramesOK
    <3> QED BY <2>1, <3>1, <3>2 DEF RecoverRead, dbVars
  <2>2. CASE ~RecoverRead(m)
    <3>1. /\ maint[m].pc \in RecoveryPCs /\ maint'[m].task = maint[m].task /\ maint'[m].holder = maint[m].holder
          /\ maint'[m].latest # maint[m].latest =>
               \E w \in Workers : CommitClaim(w) /\ maint[m].task = worker[w].task /\ maint[m].holder = w
      <4>1. CASE MaintStep(m) \/ MaintCrash(m)
        <5>1. \/ maint'[m] = maint[m]
              \/ maint[m].pc = "recover" /\ maint'[m] = [maint[m] EXCEPT !.pc = maint'[m].pc]
          BY <1>4, <2>2, <4>1, MaintLocal
        <5> QED BY <1>4, <5>1 DEF RecoveryPCs, Shape, FramesOK, MaintFrames
      <4> QED BY <1>4, <4>1, PassMoves
    <3>2. PICK t \in Tasks, w \in Workers :
             t = maint[m].task /\ w = maint[m].holder /\ maint[m].latest /\ Holds(t, w)
      BY <1>0, <3>1 DEF LeaseRows, Shape, FramesOK, MaintFrameOK, MaintFrames, RecoveryPCs
    <3>3. maint'[m].latest
      BY <1>0, <3>1, <3>2 DEF LeaseRows, CommitClaim, At
    <3>4. ASSUME ~Holds(t, w)' PROVE FALSE
      <4>1. CASE \E n \in Maintainers : maint'[n] = IdleMaint
        BY <1>0, <2>0, <4>1 DEF OnePassSetting
      <4>2. CASE worker[w].task = t /\ worker[w].pc \notin EarlyPCs \ {"claim"}
        <5>1. worker[w].pc \in EarlyPCs
          BY <3>1, <3>2, <4>2 DEF StartInv, StaleRecovery
        <5> QED BY <1>0, <3>2, <4>2, <5>1 DEF LeaseRows
      <4> HIDE DEF Holds
      <4> QED BY <3>2, <3>4, <4>1, <4>2, LeaseShrinks
    <3> QED BY <3>1, <3>2, <3>3, <3>4
  <2> QED BY <2>1, <2>2
<1> QED BY <1>1, <1>2, <1>3, <1>4 DEF LeaseRows

-----------------------------------------------------------------------------
\* How a worker loses its lease key: it lapses, the worker reports or gives back, or a
\* pass recovers or cleans up in its name.
LEMMA KeyLost ==
    ASSUME Shape, Q!TypeOK, Next, NEW t \in Tasks, NEW w \in Workers, leaseKey[t] = w, leaseKey'[t] # w
    PROVE  \/ LeaseKeyExpires(t)
           \/ /\ WorkerStep(w) /\ worker[w].task = t
              /\ worker[w].pc \in {"discard", "stale_queue", "compensate", "release", "complete_queue", "fail_queue"}
              /\ worker'[w].pc \in {"idle", "cleanup", "release_commit"}
           \/ \E m \in Maintainers :
                /\ maint[m].task = t
                /\ \/ maint[m].pc = "recover" /\ maint[m].holder = w
                   \/ maint[m].pc = "reconcile" /\ maint[m].row.status \in TerminalStates
<1> USE DEF Q!TypeOK, Q!DelLease, Q!SetLease
<1>0. w # NoOwner /\ w # MaintainerId
  BY RuntimeAssumption DEF RuntimeAssumption
<1>1. ASSUME NEW v \in Workers, WorkerStep(v) \/ WorkerCrash(v)
      PROVE  /\ WorkerStep(w) /\ worker[w].task = t
             /\ worker[w].pc \in {"discard", "stale_queue", "compensate", "release", "complete_queue", "fail_queue"}
             /\ worker'[w].pc \in {"idle", "cleanup", "release_commit"}
  <2>1. CASE \/ DiscardTerminal(v) \/ StaleQueue(v) \/ Compensate(v) \/ Release(v) \/ CompleteQueue(v) \/ FailQueue(v)
    <3>1. \/ UNCHANGED queueVars
          \/ Q!Complete(worker[v].task, v) \/ Q!Release(worker[v].task, v) \/ Q!Fail(worker[v].task, v)
      BY <2>1 DEF DiscardTerminal, StaleQueue, Compensate, Release, CompleteQueue, FailQueue, Attempt, Task
    <3>2. worker[v].task = t /\ v = w
      BY <3>1 DEF queueVars, Q!Complete, Q!CompleteReply, Q!Release, Q!ReleaseReply, Q!Fail, Q!FailReply,
         Q!OwnedProcessingReply, Q!OwnerReply
    <3>3. worker[w].pc \in {"discard", "stale_queue", "compensate", "release", "complete_queue", "fail_queue"}
      BY <2>1, <3>2 DEF DiscardTerminal, StaleQueue, Compensate, Release, CompleteQueue, FailQueue, At
    <3>4. worker'[w].pc \in {"idle", "cleanup", "release_commit"}
      BY <2>1, <3>2, FrameMoves DEF DiscardTerminal, StaleQueue, Compensate, Release, CompleteQueue, FailQueue
    <3> QED BY <2>1, <3>2, <3>3, <3>4 DEF WorkerStep
  <2>2. CASE StaleCleanup(v)
    BY <2>2 DEF StaleCleanup, CleanupAfterCancel, ReconcileCancelled, Q!CancelPending, queueVars
  <2>3. CASE ClaimTask(v)
    BY <1>0, <2>3 DEF ClaimTask, Q!ClaimNext, Q!ClaimNextReply
  <2>4. CASE \/ ClaimRead(v) \/ CancelStale(v) \/ CommitClaim(v) \/ CommitClaimFails(v) \/ Heartbeat(v)
             \/ StartExecution(v) \/ HeartbeatRefused(v) \/ StartFails(v) \/ ReleaseCommit(v)
             \/ HandlerReturns(v) \/ HandlerFails(v) \/ CompleteRead(v) \/ CompleteFails(v) \/ CompleteCommit(v)
             \/ BlockRead(v) \/ BlockCommit(v) \/ FailRead(v) \/ FailCommit(v) \/ WorkerCrash(v)
    BY <2>4 DEF ClaimRead, CancelStale, CommitClaim, CommitClaimFails, Heartbeat, StartExecution,
       HeartbeatRefused, StartFails, ReleaseCommit, HandlerReturns, HandlerFails, CompleteRead, CompleteFails,
       CompleteCommit, BlockRead, BlockCommit, FailRead, FailCommit, WorkerCrash, queueVars
  <2> QED BY <1>1, <2>1, <2>2, <2>3, <2>4 DEF WorkerStep
<1>2. ASSUME NEW m \in Maintainers, MaintStep(m) \/ MaintCrash(m)
      PROVE  /\ maint[m].task = t
             /\ \/ maint[m].pc = "recover" /\ maint[m].holder = w
                \/ maint[m].pc = "reconcile" /\ maint[m].row.status \in TerminalStates
  <2> USE DEF MAt, MTask, MRow, Holder
  <2>1. CASE RecoverForRetry(m) \/ RecoverToDeadLetter(m)
    BY <1>0, <2>1 DEF RecoverForRetry, RecoverToDeadLetter, Q!Recover, Q!RecoverReply, Q!MoveToDeadLetter,
       Q!DeadLetterReply, queueVars
  <2>2. CASE ReconcileTerminal(m) \/ ReconcileFailed(m)
    BY <1>0, <2>2 DEF ReconcileTerminal, ReconcileFailed, Attempt, Q!Complete, Q!MoveToDeadLetter, queueVars,
       TerminalStates
  <2>3. CASE ReconcileOrphan(m)
    BY <1>0, <2>3 DEF ReconcileOrphan, Q!Recover, Q!RecoverReply, queueVars
  <2>4. CASE PublishDue(m)
    BY <2>4 DEF PublishDue, Publish, queueVars, Q!vars, Q!RetryDeadLetter, Q!EnqueueIdempotent
  <2>5. CASE CleanCancelled(m)
    BY <2>5 DEF CleanCancelled, ReconcileCancelled, Q!CancelPending, queueVars
  <2>6. CASE \/ ListDue(m) \/ DropDispatch(m) \/ PublishDueAck(m) \/ RecoverRead(m) \/ RecoverUnsupported(m)
             \/ RequeueCommit(m) \/ DeadLetterCommit(m) \/ ReconcileLoad(m) \/ ReconcileCheck(m)
             \/ OrphanCommit(m) \/ MaintCrash(m)
    BY <2>6 DEF ListDue, DropDispatch, PublishDueAck, RecoverRead, RecoverUnsupported, RequeueCommit,
       DeadLetterCommit, ReconcileLoad, ReconcileCheck, OrphanCommit, MaintCrash, queueVars
  <2> QED BY <1>2, <2>1, <2>2, <2>3, <2>4, <2>5, <2>6 DEF MaintStep
<1>3. ASSUME NEW r \in Requests, RequestRead(r) \/ RequestStep(r) \/ RequestCrash(r) PROVE FALSE
  <2>1. CASE HookPublish(r)
    BY <2>1 DEF HookPublish, Publish, queueVars, Q!vars, Q!RetryDeadLetter, Q!EnqueueIdempotent
  <2>2. CASE CancelCleanup(r)
    BY <2>2 DEF CancelCleanup, CleanupAfterCancel, ReconcileCancelled, Q!CancelPending, queueVars
  <2>3. CASE \/ RequestRead(r) \/ QueueTask(r) \/ PlaceInReview(r) \/ RetryTask(r) \/ CancelTask(r)
             \/ HookRead(r) \/ HookAck(r) \/ RequestCrash(r)
    BY <2>3 DEF RequestRead, QueueTask, PlaceInReview, RetryTask, CancelTask, HookRead, HookAck,
       RequestCrash, queueVars
  <2> QED BY <1>3, <2>1, <2>2, <2>3 DEF RequestStep
<1>4. ASSUME NEW u \in Tasks, LeaseKeyExpires(u) PROVE u = t
  BY <1>4 DEF LeaseKeyExpires, Q!LeaseExpires
<1> QED BY <1>1, <1>2, <1>3, <1>4 DEF Next

\* A worker keeps its lease key while it works on the task, and nobody owns a payload
\* that is being given back.
LEMMA OwnersStep ==
    ASSUME OnePassSetting, Shape, Q!TypeOK, Q!KeysConsistent, StartInv, SealInv, Next
    PROVE  Owners'
<1>0. LeaseRows /\ Owners /\ OnePassSetting
  BY DEF SealInv
<1>1. ASSUME NEW w \in Workers, worker'[w].pc \in StartedPCs
      PROVE  worker'[w].task = worker[w].task /\ leaseKey'[worker[w].task] = w
  <2>1. CASE worker[w].pc \in StartedPCs
    <3>1. worker[w].task \in Tasks /\ leaseKey[worker[w].task] = w /\ worker'[w].task = worker[w].task
      <4>1. CASE worker'[w] = worker[w]
        BY <1>0, <2>1, <4>1 DEF Owners, Shape, FramesOK, WorkerFrameOK, WorkerFrames, StartedPCs
      <4>2. CASE WorkerStep(w) \/ WorkerCrash(w)
        BY <1>0, <1>1, <2>1, <4>2, WorkerPhases
           DEF Owners, Shape, FramesOK, WorkerFrameOK, WorkerFrames, StartedPCs, HeldPCs
      <4> QED BY <4>1, <4>2, WorkerMove
    <3>2. PICK t \in Tasks : t = worker[w].task
      BY <3>1
    <3>3. ASSUME leaseKey'[t] # w PROVE FALSE
      <4>1. CASE LeaseKeyExpires(t)
        BY <1>0, <3>1, <3>2, <4>1 DEF LeaseKeyExpires, MayLapse, WorkersOn, OnePassSetting
      <4>2. CASE worker[w].pc \in {"discard", "stale_queue", "compensate", "release", "complete_queue", "fail_queue"}
        BY <2>1, <4>2 DEF StartedPCs
      <4>3. ASSUME NEW m \in Maintainers, maint[m].task = t, maint[m].pc = "recover", maint[m].holder = w
            PROVE  FALSE
        <5>1. maint[m].latest
          BY <1>0, <4>3 DEF LeaseRows, RecoveryPCs
        <5> QED BY <2>1, <3>2, <4>3, <5>1 DEF StartInv, StaleRecovery, RecoveryPCs, StartedPCs, EarlyPCs
      <4>4. ASSUME NEW m \in Maintainers, maint[m].task = t, maint[m].pc = "reconcile",
                   maint[m].row.status \in TerminalStates
            PROVE  FALSE
        <5>1. Finished(t) \/ NoneOwns(t)
          BY <4>4 DEF SealInv, PassSealed
        <5>2. ~NoneOwns(t)
          BY <2>1, <3>1, <3>2 DEF NoneOwns, OwnerIn
        <5>3. t \in processingPayloads
          BY <3>1, <3>2, RuntimeAssumption DEF Q!KeysConsistent, Q!LeaseImpliesProcessing, RuntimeAssumption
        <5> QED BY <5>1, <5>2, <5>3 DEF Finished, Q!InNeitherQueue
      <4> QED BY <3>1, <3>2, <3>3, <4>1, <4>2, <4>3, <4>4, KeyLost
    <3> QED BY <3>1, <3>2, <3>3
  <2>2. CASE worker[w].pc \notin StartedPCs
    <3>1. Heartbeat(w)
      BY <1>1, <2>2, WorkerMove, WorkerPhases
    <3> QED BY <3>1, FrameMoves DEF Heartbeat, Q!HeartbeatReply, Q!OwnerReply, queueVars, Task
  <2> QED BY <2>1, <2>2
<1>2. ASSUME NEW t \in Tasks, Releasing(t)', OwnerIn(t, LatePCs \cup StartedPCs)' PROVE FALSE
  <2>1. CASE Releasing(t)
    <3>1. ActiveLease(t)
      BY <1>0, <2>1 DEF Releasing, LeaseRows, ActiveLease, Holds
    <3> QED BY <1>0, <1>2, <2>1, <3>1, OwnerStep DEF Owners
  <2>2. CASE ~Releasing(t)
    <3>1. PICK w \in Workers : worker'[w].task = t /\ worker'[w].pc = "release_commit"
      BY <1>2 DEF Releasing
    <3>2. WorkerStep(w) \/ WorkerCrash(w)
      BY <2>2, <3>1, WorkerMove DEF Releasing
    <3>3. Release(w) /\ Q!Release(Task(w), w)
      BY <3>1, <3>2, LateMoves
    <3>4. Task(w) = t
      BY <3>1, <3>3, FrameMoves DEF Release, Task
    <3>5. leaseKey'[t] = NoOwner
      BY <3>3, <3>4 DEF Q!Release, Q!DelLease, Q!SetLease, Q!TypeOK
    <3> QED BY <1>2, <3>5, RuntimeAssumption DEF OwnerIn, RuntimeAssumption
  <2> QED BY <2>1, <2>2
<1> QED BY <1>1, <1>2 DEF Owners

\* Only the worker that has started a task reports on it.
LEMMA Reporter ==
    ASSUME Shape, Q!TypeOK, SealInv, Next, NEW t \in Tasks, NEW w \in Workers,
           worker[w].task = t, worker[w].pc \in StartedPCs, UNCHANGED queueVars
    PROVE  /\ leaseKey'[t] = w /\ ~Releasing(t)'
           /\ \A P : OwnerIn(t, P)' => worker'[w].pc \in P
<1>1. leaseKey[t] = w /\ leaseKey' = leaseKey
  BY DEF SealInv, Owners, queueVars
<1>2. OwnerIn(t, LatePCs \cup StartedPCs)
  BY <1>1 DEF OwnerIn
<1>3. ~Releasing(t)
  BY <1>2 DEF SealInv, Owners
<1>4. ~OwnerIn(t, {"release"})
  BY <1>1 DEF OwnerIn, StartedPCs
<1>5. ~Releasing(t)'
  BY <1>3, <1>4, ReleasingStep
<1>6. \A P : OwnerIn(t, P)' => worker'[w].pc \in P
  BY <1>1 DEF OwnerIn
<1> QED BY <1>1, <1>5, <1>6

\* A status written by a worker that has started the task.
LEMMA OutcomeWrites ==
    ASSUME Shape, NEW t \in Tasks, NEW w \in Workers, NEW s \in {"running", "completed", "blocked", "failed"},
           WorkerWrites(w, t, s)
    PROVE  /\ worker[w].task = t /\ worker[w].pc \in StartedPCs /\ UNCHANGED queueVars
           /\ worker'[w].pc = IF s = "running" THEN "run"
                              ELSE IF s = "failed" THEN "fail_queue" ELSE "complete_queue"
  BY FrameMoves DEF WorkerWrites, StartExecution, CompleteCommit, BlockCommit, FailCommit, StartedPCs, At

\* A running task stays out of reach of late claims and releases, and a task that has
\* ended out of reach of every report.
LEMMA SealedStep ==
    ASSUME OnePassSetting, Shape, Q!TypeOK, FirstGeneration, SealInv, Next, Withheld', NEW t \in Tasks
    PROVE  Sealed(t)'
<1>0. Sealed(t)
  BY DEF SealInv
<1>a. ASSUME task'[t].status # task[t].status
      PROVE  \/ \E w \in Workers : WorkerWrites(w, t, task'[t].status)
             \/ \E m \in Maintainers : MaintWrites(m, t, task'[t].status)
             \/ \E r \in Requests : ApiWrites(r, t, task'[t].status)
  BY <1>a, WorkerStatus, MaintStatus, ApiStatus DEF Next, LeaseKeyExpires, dbVars
<1>1. ASSUME task'[t].status = "running" PROVE NoneLate(t)'
  <2>1. CASE task[t].status = "running"
    BY <1>0, <2>1, NoneStep DEF Sealed
  <2>2. CASE task[t].status # "running"
    <3>1. PICK w \in Workers : WorkerWrites(w, t, "running")
      BY <1>a, <1>1, <2>2 DEF MaintWrites, ApiWrites
    <3>2. worker[w].task = t /\ worker[w].pc \in StartedPCs /\ UNCHANGED queueVars /\ worker'[w].pc = "run"
      BY <3>1, OutcomeWrites
    <3>3. ~Releasing(t)' /\ ~OwnerIn(t, LatePCs)'
      BY <3>2, Reporter DEF LatePCs
    <3> QED BY <3>3 DEF NoneLate, LatePCs
  <2> QED BY <2>1, <2>2
<1>2. ASSUME task'[t].status \in TerminalStates PROVE (Finished(t) \/ NoneOwns(t))'
  <2>1. CASE task[t].status \in TerminalStates
    BY <1>0, <2>1, NoneStep, FinishedStep DEF Sealed, TerminalStates
  <2>2. CASE task[t].status \notin TerminalStates
    <3>1. ASSUME NEW w \in Workers, WorkerWrites(w, t, task'[t].status),
                 task'[t].status \in {"completed", "blocked", "failed"}
          PROVE  NoneOwns(t)'
      <4>1. /\ worker[w].task = t /\ worker[w].pc \in StartedPCs /\ UNCHANGED queueVars
            /\ worker'[w].pc \in {"complete_queue", "fail_queue"}
        BY <3>1, OutcomeWrites
      <4>2. ~Releasing(t)' /\ ~OwnerIn(t, LatePCs \cup StartedPCs)'
        BY <4>1, Reporter DEF LatePCs, StartedPCs
      <4> QED BY <4>2 DEF NoneOwns, LatePCs, StartedPCs
    <3>2. ASSUME NEW w \in Workers, WorkerWrites(w, t, "cancelled") PROVE NoneOwns(t)'
      <4>1. t \in Clarifying
        BY <3>2 DEF WorkerWrites, CancelStale, At, SealInv, Withheld
      <4>2. \A v \in Workers : worker'[v].task = t => worker'[v].pc \in (EarlyPCs \ {"claim"}) \cup {"idle"}
        BY <4>1 DEF Withheld
      <4> QED BY <4>2 DEF NoneOwns, Releasing, OwnerIn, LatePCs, StartedPCs, EarlyPCs
    <3>3. ASSUME NEW m \in Maintainers, MaintWrites(m, t, "dead_lettered") PROVE Finished(t)'
      <4>1. Finished(t)
        BY <3>3 DEF MaintWrites, DeadLetterCommit, MAt, SealInv, PassSealed
      <4> QED BY <4>1, FinishedStep
    <3>4. \A r \in Requests : ~ApiWrites(r, t, task'[t].status)
      BY <1>2, AdmissionOnly DEF ApiWrites, TerminalStates
    <3>5. PICK s \in TerminalStates : task'[t].status = s
      BY <1>2
    <3>6. /\ \A w \in Workers : WorkerWrites(w, t, s) => s \in {"completed", "blocked", "failed", "cancelled"}
          /\ \A m \in Maintainers : MaintWrites(m, t, s) => s = "dead_lettered"
      BY DEF WorkerWrites, MaintWrites, TerminalStates
    <3> QED BY <1>a, <2>2, <3>1, <3>2, <3>3, <3>4, <3>5, <3>6
  <2> QED BY <2>1, <2>2
<1> QED BY <1>1, <1>2 DEF Sealed

\* A worker takes up a task by claiming its pending payload.
LEMMA TaskMove ==
    ASSUME Shape, Next, NEW t \in Tasks, NEW w \in Workers, worker'[w].task = t, worker[w].task # t
    PROVE  ClaimTask(w) /\ t \in pendingPayloads
<1>1. ClaimTask(w)
  BY WorkerMove, WorkerTasks, RuntimeAssumption DEF RuntimeAssumption
<1>2. PICK u \in Tasks : Q!ClaimNext(u, w) /\ worker' = [worker EXCEPT ![w].pc = "read", ![w].task = u]
  BY <1>1 DEF ClaimTask
<1>3. u = t
  BY <1>2 DEF Shape, FramesOK, WorkerFrames
<1> QED BY <1>1, <1>2, <1>3 DEF Q!ClaimNext, Q!ClaimNextReply

\* After its report to the queue a worker is idle, and if that changed its lease key the
\* payload is gone for good.
LEMMA ReportEnds ==
    ASSUME Shape, Q!TypeOK, Q!KeysConsistent, FirstGeneration, KeyKept, Next, NEW w \in Workers,
           WorkerStep(w) \/ WorkerCrash(w), worker[w].pc \in {"complete_queue", "fail_queue"}
    PROVE  /\ worker'[w].pc = "idle" /\ worker'[w].task = NoTask
           /\ \A t \in Tasks : worker[w].task = t /\ leaseKey'[t] # leaseKey[t] => Finished(t)'
<1>1. CompleteQueue(w) \/ FailQueue(w) \/ WorkerCrash(w)
  BY DEF WorkerStep, ClaimTask, ClaimRead, DiscardTerminal, CancelStale, StaleQueue, StaleCleanup, CommitClaim,
     CommitClaimFails, Compensate, Heartbeat, StartExecution, HeartbeatRefused, StartFails, Release, ReleaseCommit,
     HandlerReturns, HandlerFails, CompleteRead, CompleteFails, CompleteCommit, BlockRead, BlockCommit,
     FailRead, FailCommit, At
<1>2. worker'[w].pc = "idle" /\ worker'[w].task = NoTask
  BY <1>1, FrameMoves DEF CompleteQueue, FailQueue, WorkerCrash
<1>3. ASSUME NEW t \in Tasks, worker[w].task = t, leaseKey'[t] # leaseKey[t] PROVE Finished(t)'
  <2>1. Q!Complete(t, w) \/ Q!Fail(t, w)
    BY <1>1, <1>3 DEF CompleteQueue, FailQueue, WorkerCrash, Attempt, Task, queueVars
  <2>2. Gone(t)
    BY <2>1, RemovalScripts
  <2>3. Published(t)
    BY <1>3 DEF KeyKept, WorkersOn, Published
  <2>4. Published(t)'
    BY <2>3, PublicationStep DEF Published
  <2> QED BY <2>2, <2>4 DEF Gone, Finished, Q!InNeitherQueue
<1> QED BY <1>2, <1>3

\* While a pass has the task in hand, the lease of the worker that has ended it stays.
LEMMA ClosedStep ==
    ASSUME OnePassSetting, Shape, Q!TypeOK, Q!KeysConsistent, FirstGeneration, KeyKept, SealInv, Next,
           NEW m \in Maintainers, NEW t \in Tasks, NEW S, NEW T, Closed(t, S), S \subseteq T, S \subseteq maint[m].since,
           maint[m].task = t, maint[m].pc \in {"loaded", "reconcile"}, maint[m].row.status = "running"
    PROVE  Closed(t, T)'
<1> SUFFICES ASSUME ~Finished(t)' PROVE Closed(t, T)'
  BY DEF Closed
<1>0. OnePassSetting /\ ~Finished(t)
  BY FinishedStep
<1>1. /\ leaseKey[t] \in S /\ leaseKey[t] \in Workers /\ ~Releasing(t)
      /\ \A w \in Workers : worker[w].task = t /\ leaseKey[t] = w => worker[w].pc \in {"complete_queue", "fail_queue"}
  BY <1>0 DEF Closed, OwnerIn, Shape, FramesOK, MaintFrames, WorkerFrames
<1>2. t \notin pendingPayloads
  BY <1>1, RuntimeAssumption DEF RuntimeAssumption, Q!KeysConsistent, Q!LeaseImpliesProcessing, Q!OneLiveCopy
<1>3. PICK h \in Workers : leaseKey[t] = h
  BY <1>1
<1>4. leaseKey'[t] = h
  <2>1. ASSUME leaseKey'[t] # h PROVE FALSE
    <3>1. ~LeaseKeyExpires(t)
      BY <1>0, <1>1 DEF LeaseKeyExpires, MayLapse, OnePassSetting
    <3>2. ~(WorkerStep(h) /\ worker[h].task = t)
      BY <1>1, <1>3, <2>1, ReportEnds
    <3>3. ASSUME NEW n \in Maintainers
          PROVE  ~(maint[n].pc = "recover" \/ (maint[n].pc = "reconcile" /\ maint[n].row.status \in TerminalStates))
      <4>1. n = m
        BY <1>0 DEF OnePassSetting
      <4> QED BY <4>1 DEF TerminalStates
    <3> QED BY <1>3, <2>1, <3>1, <3>2, <3>3, KeyLost
  <2> QED BY <2>1
<1>5. ~Releasing(t)'
  BY <1>1, ReleasingStep DEF OwnerIn
<1>6. ~OwnerIn(t, WorkerPCs \ {"complete_queue", "fail_queue"})'
  <2>1. ASSUME worker'[h].task = t PROVE worker'[h].pc \in {"complete_queue", "fail_queue"}
    <3>1. worker[h].task = t
      BY <1>2, <2>1, TaskMove
    <3>2. worker[h].pc \in {"complete_queue", "fail_queue"}
      BY <1>1, <1>3, <3>1
    <3>3. worker'[h] = worker[h]
      BY <2>1, <3>2, WorkerMove, ReportEnds, RuntimeAssumption DEF RuntimeAssumption
    <3> QED BY <3>2, <3>3
  <2> QED BY <1>4, <2>1 DEF OwnerIn
<1> QED BY <1>1, <1>3, <1>4, <1>5, <1>6 DEF Closed

\* How a pass gets to the steps that PassSealed is about.
LEMMA PassPhases ==
    ASSUME Shape, NEW m \in Maintainers, MaintStep(m) \/ MaintCrash(m)
    PROVE  /\ maint'[m].pc = "loaded" => ReconcileLoad(m)
           /\ maint'[m].pc = "reconcile" => ReconcileCheck(m)
           /\ maint'[m].pc = "bury" => RecoverToDeadLetter(m)
           /\ maint'[m].pc = "orphan" => ReconcileOrphan(m)
<1> USE DEF MAt
<1>0. /\ maint \in [Maintainers -> MaintFrames]
      /\ \A pc : MGoto(m, pc) => maint'[m].pc = pc
      /\ MDone(m) => maint'[m].pc = "idle"
  BY PassFrames DEF Shape, FramesOK
<1>1. CASE \/ DropDispatch(m) \/ PublishDue(m) \/ PublishDueAck(m) \/ RecoverUnsupported(m)
           \/ RecoverForRetry(m) \/ RequeueCommit(m) \/ RecoverToDeadLetter(m) \/ DeadLetterCommit(m)
  BY <1>0, <1>1 DEF DropDispatch, PublishDue, PublishDueAck, RecoverUnsupported, RecoverForRetry,
     RequeueCommit, RecoverToDeadLetter, DeadLetterCommit
<1>2. CASE \/ ReconcileCheck(m) \/ ReconcileTerminal(m) \/ ReconcileFailed(m) \/ ReconcileOrphan(m)
           \/ OrphanCommit(m) \/ MaintCrash(m)
  BY <1>0, <1>2 DEF ReconcileCheck, ReconcileTerminal, ReconcileFailed, ReconcileOrphan, OrphanCommit, MaintCrash
<1>3. CASE CleanCancelled(m)
  BY <1>3 DEF CleanCancelled, procVars
<1>4. CASE ListDue(m)
  BY <1>0, <1>4 DEF ListDue, IdleMaint
<1>5. CASE RecoverRead(m)
  BY <1>0, <1>5 DEF RecoverRead, IdleMaint
<1>6. CASE ReconcileLoad(m)
  BY <1>0, <1>6 DEF ReconcileLoad, IdleMaint
<1> QED BY <1>1, <1>2, <1>3, <1>4, <1>5, <1>6 DEF MaintStep

\* While no pass gives a task back, its status changes by an outcome, by a stale
\* claim, or by a claim, a start or a release.
LEMMA QuietStatus ==
    ASSUME OnePassSetting, Shape, SealInv, Next, NEW t \in Tasks,
           \A n \in Maintainers : maint[n].pc \notin {"requeue", "orphan", "bury"},
           task[t].status # "planned", ~Releasing(t), task'[t].status # task[t].status
    PROVE  \E w \in Workers, s \in Recoverable \cup (TerminalStates \ {"dead_lettered"}) :
              task'[t].status = s /\ WorkerWrites(w, t, s)
<1>1. \/ \E w \in Workers : WorkerWrites(w, t, task'[t].status)
      \/ \E m \in Maintainers : MaintWrites(m, t, task'[t].status)
      \/ \E r \in Requests : ApiWrites(r, t, task'[t].status)
  BY WorkerStatus, MaintStatus, ApiStatus DEF Next, LeaseKeyExpires, dbVars
<1>2. \A m \in Maintainers : ~MaintWrites(m, t, task'[t].status)
  BY DEF MaintWrites, RequeueCommit, OrphanCommit, DeadLetterCommit, MAt
<1>3. \A r \in Requests : ~ApiWrites(r, t, task'[t].status)
  BY AdmissionOnly DEF ApiWrites, SealInv, Admitting
<1>4. PICK w \in Workers : WorkerWrites(w, t, task'[t].status)
  BY <1>1, <1>2, <1>3
<1>5. ~ReleaseCommit(w)
  BY <1>4 DEF WorkerWrites, ReleaseCommit, At, Releasing
<1> QED BY <1>4, <1>5 DEF WorkerWrites, Recoverable, TerminalStates

\* A task that a pass has read as ended stays out of reach.
LEMMA EndedRow ==
    ASSUME OnePassSetting, Shape, Q!TypeOK, FirstGeneration, SealInv, Next, NEW t \in Tasks,
           \A n \in Maintainers : maint[n].pc \notin {"requeue", "orphan", "bury"},
           Finished(t) \/ (NoneOwns(t) /\ task[t].status \in TerminalStates \cup Recoverable)
    PROVE  (Finished(t) \/ (NoneOwns(t) /\ task[t].status \in TerminalStates \cup Recoverable))'
<1>1. CASE Finished(t)
  BY <1>1, FinishedStep
<1>2. CASE NoneOwns(t) /\ task[t].status \in TerminalStates \cup Recoverable
  <2>1. NoneOwns(t)'
    BY <1>2, NoneStep DEF TerminalStates, Recoverable
  <2>2. task'[t].status \in TerminalStates \cup Recoverable
    BY <1>2, QuietStatus DEF NoneOwns, TerminalStates, Recoverable
  <2> QED BY <2>1, <2>2
<1> QED BY <1>1, <1>2

\* A task that a pass has read as running ends by a worker that the pass knows of.
LEMMA RunningRow ==
    ASSUME OnePassSetting, Shape, Q!TypeOK, SealInv, Next, NEW t \in Tasks, NEW S,
           \A n \in Maintainers : maint[n].pc \notin {"requeue", "orphan", "bury"},
           \A w \in Workers : worker[w].task = t => w \in S,
           task[t].status \in Recoverable, NoneLate(t)
    PROVE  Closed(t, S)' \/ (task[t].status \in Recoverable /\ NoneLate(t))'
<1>1. NoneLate(t)'
  BY NoneStep DEF Recoverable
<1>2. CASE task'[t].status \notin Recoverable
  <2>1. PICK w \in Workers, s \in Recoverable \cup (TerminalStates \ {"dead_lettered"}) :
           task'[t].status = s /\ WorkerWrites(w, t, s)
    BY <1>2, QuietStatus DEF NoneLate, Recoverable
  <2>2. s \in {"completed", "blocked", "failed"}
    <3>1. s # "cancelled"
      BY <2>1 DEF WorkerWrites, CancelStale, At, SealInv, Withheld
    <3> QED BY <1>2, <2>1, <3>1 DEF TerminalStates
  <2>3. /\ worker[w].task = t /\ worker[w].pc \in StartedPCs /\ UNCHANGED queueVars
        /\ worker'[w].pc \in {"complete_queue", "fail_queue"}
    BY <2>1, <2>2, OutcomeWrites
  <2>4. leaseKey'[t] = w /\ ~Releasing(t)' /\ ~OwnerIn(t, WorkerPCs \ {"complete_queue", "fail_queue"})'
    BY <2>3, Reporter
  <2> QED BY <2>3, <2>4 DEF Closed
<1> QED BY <1>1, <1>2

\* What PassSealed says of a pass that looks at a processing payload, after a step that
\* is not its own.
LEMMA WaitingPass ==
    ASSUME OnePassSetting, Shape, Q!TypeOK, Q!KeysConsistent, FirstGeneration, KeyKept, SealInv, Next,
           NEW m \in Maintainers, ~(MaintStep(m) \/ MaintCrash(m)), maint[m].pc \in {"loaded", "reconcile"}
    PROVE  PassSealed(m)'
<1>1. /\ maint'[m].pc = maint[m].pc /\ maint'[m].task = maint[m].task /\ maint'[m].row = maint[m].row
      /\ maint[m].since \subseteq maint'[m].since
      /\ \A w \in Workers : ClaimTask(w) /\ maint[m].task = worker'[w].task => w \in maint'[m].since
  BY PassMoves
<1>2. PICK t \in Tasks : t = maint[m].task
  BY DEF Shape, FramesOK, MaintFrameOK, MaintFrames
<1>3. \A n \in Maintainers : maint[n].pc \notin {"requeue", "orphan", "bury"}
  BY DEF OnePassSetting
<1>4. PassSealed(m)
  BY DEF SealInv
<1>5. \A w \in Workers : worker[w].task = t => w \in maint[m].since
  BY <1>2, <1>4 DEF PassSealed
<1>6. \A w \in Workers : worker'[w].task = t => w \in maint'[m].since
  BY <1>1, <1>2, <1>5, TaskMove
<1>7. ASSUME maint[m].row.status \in TerminalStates
      PROVE  (Finished(t) \/ (NoneOwns(t) /\ task[t].status \in TerminalStates \cup Recoverable))'
  <2>1. Finished(t) \/ (NoneOwns(t) /\ task[t].status \in TerminalStates \cup Recoverable)
    BY <1>2, <1>4, <1>7 DEF PassSealed
  <2> QED BY <1>3, <2>1, EndedRow
<1>8. PICK S, T : S = maint[m].since /\ T = maint'[m].since
  OBVIOUS
<1>9. ASSUME maint[m].row.status = "running"
      PROVE  Closed(t, T)' \/ (maint[m].pc = "loaded" /\ (task[t].status \in Recoverable /\ NoneLate(t))')
  <2>1. CASE Closed(t, S)
    BY <1>1, <1>2, <1>8, <1>9, <2>1, ClosedStep
  <2>2. CASE maint[m].pc = "loaded" /\ task[t].status \in Recoverable /\ NoneLate(t)
    <3>1. Closed(t, S)' \/ (task[t].status \in Recoverable /\ NoneLate(t))'
      BY <1>3, <1>5, <1>8, <2>2, RunningRow
    <3> QED BY <1>1, <1>8, <2>2, <3>1 DEF Closed
  <2> QED BY <1>2, <1>4, <1>8, <1>9, <2>1, <2>2 DEF PassSealed
<1> QED BY <1>1, <1>2, <1>6, <1>7, <1>8, <1>9 DEF PassSealed

\* PassSealed of the pass that takes a step.
LEMMA OwnPass ==
    ASSUME OnePassSetting, Shape, Q!TypeOK, Q!KeysConsistent, FirstGeneration, HeldIsRecoverable, SealInv, Next,
           NEW m \in Maintainers, MaintStep(m) \/ MaintCrash(m)
    PROVE  PassSealed(m)'
<1> USE PassFrames
<1>1. CASE maint'[m].pc = "loaded"
  <2>1. ReconcileLoad(m)
    BY <1>1, PassPhases
  <2>2. PICK t \in Tasks : maint' = [maint EXCEPT ![m] = [IdleMaint EXCEPT !.pc = "loaded", !.task = t,
                                                                          !.row = Seen(t), !.since = WorkersOn(t)]]
    BY <2>1 DEF ReconcileLoad
  <2>3. /\ maint'[m].task = t /\ maint'[m].row = Seen(t) /\ maint'[m].since = WorkersOn(t)
    BY <2>2 DEF Shape, FramesOK, IdleMaint
  <2>4. maint'[m].row.status = task[t].status
    BY <2>3 DEF Seen, Shape, RowsOK, TaskRow
  <2>5. UNCHANGED <<task, worker, pendingPayloads, processingPayloads, leaseKey, dispatchKeys>>
    BY <2>1 DEF ReconcileLoad, dbVars, queueVars
  <2>6. Sealed(t)
    BY DEF SealInv
  <2>7. /\ task'[t].status = "running" => NoneLate(t)'
        /\ task'[t].status \in TerminalStates => (Finished(t) \/ NoneOwns(t))'
    BY <2>5, <2>6 DEF Sealed, NoneLate, NoneOwns, Finished, Published, Releasing, OwnerIn, Q!InNeitherQueue
  <2> QED BY <1>1, <2>3, <2>4, <2>5, <2>7 DEF PassSealed, WorkersOn, Recoverable
<1>2. CASE maint'[m].pc = "reconcile"
  <2>1. ReconcileCheck(m) /\ maint[m].pc = "loaded" /\ ~ActiveLease(maint[m].task)
    BY <1>2, PassPhases DEF ReconcileCheck, MAt, MTask
  <2>2. UNCHANGED <<task, worker, pendingPayloads, processingPayloads, leaseKey, dispatchKeys>>
    BY <2>1 DEF ReconcileCheck, dbVars, queueVars
  <2>3. maint'[m].task = maint[m].task /\ maint'[m].row = maint[m].row /\ maint'[m].since = maint[m].since
    BY <1>2, <2>1 DEF ReconcileCheck
  <2>4. PICK t \in Tasks : t = maint[m].task
    BY <2>1 DEF Shape, FramesOK, MaintFrameOK, MaintFrames
  <2>5. task[t].status \notin Recoverable
    BY <2>1, <2>4 DEF HeldIsRecoverable
  <2>6. PICK S : S = maint[m].since
    OBVIOUS
  <2>7. /\ \A w \in Workers : worker[w].task = t => w \in S
        /\ maint[m].row.status \in TerminalStates =>
             Finished(t) \/ (NoneOwns(t) /\ task[t].status \in TerminalStates \cup Recoverable)
        /\ maint[m].row.status = "running" => Closed(t, S)
    BY <2>1, <2>4, <2>5, <2>6 DEF SealInv, PassSealed
  <2>8. /\ Finished(t)' <=> Finished(t)
        /\ NoneOwns(t)' <=> NoneOwns(t)
        /\ Closed(t, S)' <=> Closed(t, S)
    BY <2>2 DEF Closed, NoneOwns, Finished, Published, Releasing, OwnerIn, Q!InNeitherQueue
  <2> QED BY <1>2, <2>2, <2>3, <2>4, <2>6, <2>7, <2>8 DEF PassSealed, Closed
<1>3. CASE maint'[m].pc = "bury"
  <2>1. RecoverToDeadLetter(m) /\ maint[m].pc = "recover"
    BY <1>3, PassPhases DEF RecoverToDeadLetter, MAt
  <2>2. maint'[m].task = maint[m].task /\ Q!MoveToDeadLetter(maint[m].task, maint[m].holder)
    BY <1>3, <2>1 DEF RecoverToDeadLetter, MTask, Holder
  <2>3. PICK t \in Tasks, h \in Workers : t = maint[m].task /\ h = maint[m].holder
    BY <2>1 DEF Shape, FramesOK, MaintFrameOK, MaintFrames
  <2>4. Published(t)
    BY <2>1, <2>3 DEF SealInv, LeaseRows, RecoveryPCs, ActiveLease, Holds
  <2>5. Gone(t)
    BY <2>2, <2>3, RemovalScripts
  <2>6. Finished(t)'
    BY <2>4, <2>5 DEF Gone, Finished, Published, Q!InNeitherQueue
  <2> QED BY <1>3, <2>2, <2>3, <2>6 DEF PassSealed
<1>4. CASE maint'[m].pc = "orphan"
  <2>1. ReconcileOrphan(m) /\ maint[m].pc = "reconcile"
    BY <1>4, PassPhases DEF ReconcileOrphan, MAt
  <2>2. maint'[m].row = maint[m].row /\ Q!RecoverReply(maint[m].task, MaintainerId) = "ok"
    BY <1>4, <2>1 DEF ReconcileOrphan, MTask
  <2>3. ASSUME maint[m].row.status = "running" PROVE FALSE
    <3>1. Closed(maint[m].task, maint[m].since)
      BY <2>1, <2>3 DEF SealInv, PassSealed
    <3>2. leaseKey[maint[m].task] \in {NoOwner, MaintainerId} /\ ~Q!InNeitherQueue(maint[m].task)
      BY <2>2 DEF Q!RecoverReply
    <3>3. maint[m].since \subseteq Workers
      BY DEF Shape, FramesOK, MaintFrames
    <3> QED BY <3>1, <3>2, <3>3, RuntimeAssumption DEF Closed, Finished, RuntimeAssumption
  <2> QED BY <1>4, <2>2, <2>3 DEF PassSealed
<1> QED BY <1>1, <1>2, <1>3, <1>4 DEF PassSealed

\* What a pass has read stays as PassSealed says.
LEMMA PassSealedStep ==
    ASSUME OnePassSetting, Shape, Q!TypeOK, Q!KeysConsistent, FirstGeneration, KeyKept, HeldIsRecoverable,
           SealInv, Next, NEW m \in Maintainers
    PROVE  PassSealed(m)'
<1>1. CASE MaintStep(m) \/ MaintCrash(m)
  BY <1>1, OwnPass
<1>2. CASE ~(MaintStep(m) \/ MaintCrash(m))
  <2>1. maint'[m].pc = maint[m].pc /\ maint'[m].task = maint[m].task /\ maint'[m].row = maint[m].row
    BY <1>2, PassMoves
  <2>2. CASE maint[m].pc \in {"loaded", "reconcile"}
    BY <1>2, <2>2, WaitingPass
  <2>3. CASE maint[m].pc = "bury"
    <3>1. PICK t \in Tasks : t = maint[m].task
      BY <2>3 DEF Shape, FramesOK, MaintFrameOK, MaintFrames
    <3>2. Finished(t)'
      BY <2>3, <3>1, FinishedStep DEF SealInv, PassSealed
    <3> QED BY <2>1, <2>3, <3>1, <3>2 DEF PassSealed
  <2>4. CASE maint[m].pc \notin {"loaded", "reconcile", "bury"}
    BY <2>1, <2>4 DEF SealInv, PassSealed
  <2> QED BY <2>2, <2>3, <2>4
<1> QED BY <1>1, <1>2

\* At the start nothing is seen of any task.
LEMMA SealInit == Init => SealInv
<1> SUFFICES ASSUME Init PROVE SealInv
  OBVIOUS
<1> USE RuntimeAssumption DEF RuntimeAssumption, Init, Q!Init, NewTask, IdleWorker, IdleMaint, IdleApi, NoDispatch
<1>1. /\ \A t \in Tasks : task[t].status = "planned"
      /\ \A t \in Tasks : ~ActiveLease(t)
      /\ \A w \in Workers : worker[w].pc = "idle" /\ worker[w].task = NoTask
      /\ \A m \in Maintainers : maint[m].pc = "idle" /\ maint[m].task = NoTask
      /\ \A r \in Requests : api[r].pc = "idle" /\ api[r].task = NoTask
      /\ \A t \in Tasks : Q!InNeitherQueue(t) /\ dispatch[t].status = "none"
  BY DEF ActiveLease, Q!InNeitherQueue
<1>2. \A t \in Tasks : Unseen(t) /\ Sealed(t)
  BY <1>1 DEF Unseen, Sealed, TerminalStates
<1>3. \A r \in Requests : Admitting(r)
  BY <1>1 DEF Admitting
<1>4. Withheld /\ LeaseRows
  BY <1>1 DEF Withheld, LeaseRows, Recoverable, RecoveryPCs
<1>5. Owners
  BY <1>1 DEF Owners, StartedPCs, Releasing
<1>6. \A m \in Maintainers : PassSealed(m)
  BY <1>1 DEF PassSealed
<1> QED BY <1>2, <1>3, <1>4, <1>5, <1>6 DEF SealInv

\* Every step keeps it.
LEMMA SealStep ==
    ASSUME OnePassSetting, Shape, Q!TypeOK, Q!KeysConsistent, FirstGeneration, KeyKept, StartInv,
           HeldIsRecoverable, SealInv, [Next]_vars
    PROVE  SealInv'
<1>1. CASE Next
  <2>1. Withheld'
    BY <1>1, WithheldStep
  <2>2. \A t \in Tasks : Unseen(t)'
    BY <1>1, UnseenStep
  <2>3. \A t \in Tasks : Sealed(t)'
    BY <1>1, <2>1, SealedStep
  <2>4. \A r \in Requests : Admitting(r)'
    BY <1>1, AdmittingStep
  <2>5. LeaseRows'
    BY <1>1, LeaseRowsStep
  <2>6. Owners'
    BY <1>1, OwnersStep
  <2>7. \A m \in Maintainers : PassSealed(m)'
    BY <1>1, PassSealedStep
  <2> QED BY <2>1, <2>2, <2>3, <2>4, <2>5, <2>6, <2>7 DEF SealInv
<1>2. CASE UNCHANGED vars
  <2>1. UNCHANGED <<task, lease, dispatch, pendingPayloads, processingPayloads, leaseKey, dispatchKeys, worker, maint, api>>
    BY <1>2 DEF vars, queueVars
  <2>2. \A t \in Tasks : (Unseen(t) /\ Sealed(t))'
    BY <2>1 DEF SealInv, Unseen, Sealed, ActiveLease, NoneLate, NoneOwns, Releasing, OwnerIn, Finished, Published,
       Q!InNeitherQueue
  <2>3. (\A r \in Requests : Admitting(r))' /\ Withheld'
    BY <2>1 DEF SealInv, Admitting, Withheld
  <2>4. LeaseRows' /\ Owners'
    BY <2>1 DEF SealInv, LeaseRows, Owners, ActiveLease, Holds, Releasing, OwnerIn, Published
  <2>5. \A m \in Maintainers : PassSealed(m)'
    BY <2>1 DEF SealInv, PassSealed, Closed, NoneLate, NoneOwns, Releasing, OwnerIn, Finished, Published,
       Q!InNeitherQueue
  <2> QED BY <2>2, <2>3, <2>4, <2>5 DEF SealInv
<1> QED BY <1>1, <1>2

\* With one pass at a time and admissions only, every state is sealed, whatever fails.
LEMMA SealInvariant == ASSUME OnePassSetting PROVE Spec => []SealInv
<1>0. Timely /\ "retry" \notin Ops
  BY DEF OnePassSetting
<1>1. Spec => []HeldIsRecoverable
  BY <1>0, HeldAlwaysRecoverable
<1>2. Spec => []StartInv
  BY <1>0, StartInvariant
<1>3. Spec => [](FirstGeneration /\ KeyKept)
  BY <1>0, KeyInvariant
<1>4. /\ Shape /\ Q!TypeOK /\ Q!KeysConsistent /\ (FirstGeneration /\ KeyKept) /\ StartInv
      /\ HeldIsRecoverable /\ SealInv /\ [Next]_vars
      => SealInv'
  BY SealStep
<1> QED BY <1>1, <1>2, <1>3, <1>4, SealInit, ShapeInvariant, QueueTypes, RuntimeKeysConsistent, PTL DEF Spec

\* With one pass at a time no task is retried automatically more than max_retries
\* times, whatever crashes, although reconcile_orphaned_processing does not compare the
\* counter with max_retries: the only step that could exceed it, the reconciliation of
\* a task read as running, is refused by the queue.
THEOREM RetriesStayBounded == ASSUME OnePassSetting PROVE Spec => []RetriesAreBounded
<1>1. Init => RetriesAreBounded
  BY RuntimeAssumption DEF RuntimeAssumption, Init, NewTask, RetriesAreBounded
<1>2. ASSUME Shape, SealInv, RetriesAreBounded, [Next]_vars PROVE RetriesAreBounded'
  <2> SUFFICES ASSUME NEW t \in Tasks, task'[t].retry # task[t].retry PROVE task'[t].retry <= MaxRetries
    BY <1>2 DEF RetriesAreBounded
  <2>1. Next
    BY <1>2 DEF vars
  <2>2. PICK m \in Maintainers : MaintStep(m) \/ MaintCrash(m)
    BY <1>2, <2>1, WorkerStatus, ApiStatus DEF Next, LeaseKeyExpires, dbVars
  <2>3. /\ task'[t].retry = maint[m].row.retry + 1
        /\ RequeueCommit(m) \/ (OrphanCommit(m) /\ maint[m].row.status = "running")
    BY <1>2, <2>2, MaintStatus
  <2>4. RequeueCommit(m)
    BY <1>2, <2>3 DEF OrphanCommit, MAt, SealInv, PassSealed
  <2>5. maint[m].row.retry < MaxRetries /\ maint[m].row.retry \in Nat
    BY <1>2, <2>4, RuntimeAssumption
       DEF RuntimeAssumption, RequeueCommit, MAt, Shape, FramesOK, MaintFrameOK, MaintFrames, TaskRow
  <2> QED BY <2>3, <2>5, RuntimeAssumption DEF RuntimeAssumption
<1> QED BY <1>1, <1>2, SealInvariant, ShapeInvariant, PTL DEF Spec
=============================================================================

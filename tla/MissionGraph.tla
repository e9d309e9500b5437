---------------------------- MODULE MissionGraph ----------------------------
(***************************************************************************)
(* A mission is a graph of tasks.  Workers run the tasks of one mission    *)
(* through claim_next_task, complete, fail and block_completion_failure of *)
(* worker_runtime_service.py; each report ends in the mission rollup of    *)
(* worker_runtime_rollup.py, which re-admits, re-dispatches or blocks      *)
(* dependents and settles the mission.  Operators cancel and retry.        *)
(*                                                                         *)
(* A session keeps the first copy it reads of a row (the identity map);    *)
(* frame[p].map is that map, and a commit writes the columns the session   *)
(* changed over whatever the row has become.  The queue is QueueContract,  *)
(* which RedisQueue implements.  A publisher (the hook after a commit, or  *)
(* a publish_due pass) reads a dispatch, hands the task to the queue and   *)
(* commits the acknowledgement in three steps.  Faults of the queue and of *)
(* the maintainer are the subject of TaskRuntime, and here a lost worker   *)
(* and its recovery are one step.                                          *)
(***************************************************************************)
EXTENDS Naturals, FiniteSets

CONSTANTS
    Nodes,     \* the tasks of the mission, one per graph node
    Deps,      \* Deps[n]: dependency_keys of node n
    Workers, Operator, NoOwner, NoNode,
    Publishers,   \* dispatch rows that hooks and passes may hold at a time
    Ops,       \* what may happen besides completing and failing
    MaxOps,    \* bound on the kinds of operator call and fault in one behaviour
    MaxGen     \* bound on the retry generation of a dispatch

ASSUME GraphAssumption ==
    /\ Deps \in [Nodes -> SUBSET Nodes]
    /\ Operator \notin Workers /\ NoNode \notin Nodes
    /\ MaxOps \in Nat /\ MaxGen \in Nat

VARIABLES
    row,       \* row[n] = [st, mt]: status, and the facts kept in metadata_json
    mission,   \* status of the mission row
    outbox,    \* outbox[n] = [st, gen]: the runtime_queue_dispatches row
    live, owner, dead, spent,   \* the queue (QueueContract)
    frame,     \* the call each worker and the operator is in
    pub,       \* pub[x] = [pc, node, gen]: the copy of a dispatch a publisher holds
    produced,  \* nodes whose completion has been committed (history)
    ops        \* which operator calls and faults have happened, each at most once

Actors == Workers \cup {Operator}
queueVars == <<live, owner, dead, spent>>
dbVars == <<row, mission, outbox, produced>>
vars == <<row, mission, outbox, live, owner, dead, spent, frame, pub, produced, ops>>

Q == INSTANCE QueueContract WITH Tasks <- Nodes, DispatchKeys <- Nodes \X Nat

TaskStates == {"queued", "claimed", "running", "completed", "failed", "blocked",
               "cancelled", "dead_lettered"}
Terminal == {"completed", "failed", "cancelled", "dead_lettered", "blocked"}
Failedish == {"failed", "dead_lettered", "blocked"}

\* dependency_deferral, the DEPENDENCY_FAILED failure with
\* blocked_by_dependency_failure, and cancel_requested.
Facts == {"deferred", "dep_failed", "cancel"}
Rows == [st : TaskStates, mt : SUBSET Facts]

MissionStates == {"planned", "running", "completed", "failed", "cancelled"}
MissionTerminal == {"completed", "failed", "cancelled"}

EmptyMap == [n \in {} |-> [st |-> "queued", mt |-> {}]]
Idle == [pc |-> "idle", node |-> NoNode, out |-> "none", map |-> EmptyMap,
         ms |-> "planned", todo |-> {}]
IdlePublisher == [pc |-> "idle", node |-> NoNode, gen |-> 0]

Init ==
    /\ row = [n \in Nodes |-> [st |-> "queued", mt |-> {}]]
    /\ mission = "planned"
    /\ outbox = [n \in Nodes |-> [st |-> "pending", gen |-> 0]]
    /\ Q!Init
    /\ frame = [p \in Actors |-> Idle]
    /\ pub = [x \in Publishers |-> IdlePublisher]
    /\ produced = {}
    /\ ops = {}

-----------------------------------------------------------------------------
\* The rollup, on the rows map of a session.
Satisfied(map, n) == Deps[n] # {} /\ \A d \in Deps[n] : map[d].st = "completed"

\* Dependents that an earlier rollup blocked and that every dependency now allows.
RecoveredDependents(map) ==
    {n \in Nodes : map[n].st = "blocked" /\ "dep_failed" \in map[n].mt /\ Satisfied(map, n)}

\* Deferred dependents, those just recovered included, that are now ready.
RedispatchedDependents(map) ==
    {n \in Nodes : /\ map[n].st = "queued" \/ n \in RecoveredDependents(map)
                   /\ "deferred" \in map[n].mt /\ Satisfied(map, n)}

\* Mutant: failures reach direct dependents only.
DoomedDependentsDirect(map) ==
    {n \in Nodes : /\ map[n].st \in {"queued", "claimed"}
                   /\ \E d \in Deps[n] : map[d].st \in Failedish /\ "dep_failed" \notin map[d].mt}

\* A failed node makes its open dependents impossible, and theirs in turn: the
\* least set that is closed under "an open node with a failed or doomed
\* dependency", which the code reaches by running the rollup again.
DoomedDependents(map) ==
    LET Failed == {n \in Nodes : map[n].st \in Failedish} \ RecoveredDependents(map)
        Open == {n \in Nodes : map[n].st \in {"queued", "claimed"}}
        Closed(D) == \A n \in Open : Deps[n] \cap (D \cup Failed) # {} => n \in D
    IN {n \in Open : \A D \in SUBSET Open : Closed(D) => n \in D}

Pass == [recovered |-> {}, redispatched |-> {}, doomed |-> {}]

\* The changes one rollup makes; a terminal mission is not rolled up.
Rollup(map, ms) ==
    IF ms \in MissionTerminal THEN Pass
    ELSE [recovered |-> RecoveredDependents(map),
          redispatched |-> RedispatchedDependents(map),
          doomed |-> DoomedDependents(map)]

\* The rows after the changes r.
Rolled(map, r) ==
    [n \in Nodes |->
       [st |-> IF n \in r.doomed THEN "blocked" ELSE IF n \in r.recovered THEN "queued" ELSE map[n].st,
        mt |-> (map[n].mt \ {f \in Facts : \/ f = "dep_failed" /\ n \in r.recovered
                                           \/ f = "deferred" /\ n \in r.redispatched})
               \cup {f \in {"dep_failed"} : n \in r.doomed}]]

\* How often the rollup has re-armed the dispatch of n.
Rearmed(r, n) == (IF n \in r.recovered THEN 1 ELSE 0) + (IF n \in r.redispatched THEN 1 ELSE 0)

\* Mutant: failed nodes do not count against acceptance.
VerdictsNoFailures(rows, ms) ==
    IF ms \in MissionTerminal THEN {ms}
    ELSE IF \E n \in Nodes : rows[n].st \notin Terminal THEN {"running"}
    ELSE {"failed", "completed"}

\* Mutant: only queued nodes count as open.
VerdictsQueuedOnly(rows, ms) ==
    IF ms \in MissionTerminal THEN {ms}
    ELSE IF \E n \in Nodes : rows[n].st = "queued" THEN {"running"}
    ELSE IF \E n \in Nodes : rows[n].st \in Failedish THEN {"failed"}
    ELSE {"failed", "completed"}

\* The mission statuses a rollup may leave: running while a node is open, then
\* failed or, if acceptance is met as well, completed.
Verdicts(rows, ms) ==
    IF ms \in MissionTerminal THEN {ms}
    ELSE IF \E n \in Nodes : rows[n].st \notin Terminal THEN {"running"}
    ELSE IF \E n \in Nodes : rows[n].st \in Failedish THEN {"failed"}
    ELSE {"failed", "completed"}

-----------------------------------------------------------------------------
At(p, pc) == frame[p].pc = pc
Node(p) == frame[p].node
Goto(p, pc) == frame' = [frame EXCEPT ![p].pc = pc]
Done(p) == frame' = [frame EXCEPT ![p] = Idle]

\* A flushed UPDATE locks its row until the transaction ends.
LockedBy(p) ==
    IF frame[p].pc \in {"siblings", "defer", "keep", "rollup", "commit"}
      THEN {frame[p].node} ELSE {}
Free(n, p) == \A q \in Actors \ {p} : n \notin LockedBy(q)

\* lock_for_tenant of cancel_mission holds the mission row until the first commit.
MissionFree(p) == \A q \in Actors \ {p} : ~At(q, "sweep_locked")

\* The session reads the rows S; rows it has already read keep their old copy.
Loaded(map, S) ==
    [n \in S \cup DOMAIN map |-> IF n \in DOMAIN map THEN map[n] ELSE row[n]]

\* Mutant: every row the session has read is written back.
WrittenWhole(old, new, own) == new

\* The columns of row n that a session writes when it leaves new where it had
\* read old; its own task's metadata is always written.
Written(old, new, own) ==
    [n \in Nodes |->
       [st |-> IF new[n].st = old[n].st THEN row[n].st ELSE new[n].st,
        mt |-> IF n # own /\ new[n].mt = old[n].mt THEN row[n].mt ELSE new[n].mt]]

\* RuntimeQueueDispatchService.retry, k times: a new generation to publish.
Retried(d, k) == IF k = 0 THEN d ELSE [st |-> "pending", gen |-> d.gen + k]

\* RuntimeQueueDispatchService.cancel: a dispatch that was never published needs
\* no cleanup of the queue.
Cancelled(d) ==
    IF d.st = "pending" THEN [d EXCEPT !.st = "cleaned"]
    ELSE IF d.st = "published" THEN [d EXCEPT !.st = "cancelled"] ELSE d

\* A queue operation that is refused changes nothing.
Consume(n, w) ==
    IF live[n] = "processing" /\ owner[n] = w THEN Q!Finish(n, w) ELSE UNCHANGED queueVars

-----------------------------------------------------------------------------
\* claim_next_task: claim on the queue, then read the row.  A terminal task's
\* payload is consumed.  (A claimed or running task's payload would be released,
\* but with one copy per task and its owner's lease kept, none is delivered.)
ClaimNext(w) ==
    /\ At(w, "idle")
    /\ \E n \in Nodes :
         /\ Q!Claim(n, w)
         /\ frame' = [frame EXCEPT ![w].pc = "read", ![w].node = n]
    /\ UNCHANGED <<dbVars, pub, ops>>

ReadTask(w) ==
    LET n == Node(w) IN
    /\ At(w, "read")
    /\ \/ row[n].st \in Terminal /\ Goto(w, "consume")
       \/ /\ row[n].st = "queued"
          /\ frame' = [frame EXCEPT ![w].pc = "lock", ![w].map = Loaded(EmptyMap, {n})]
    /\ UNCHANGED <<dbVars, queueVars, pub, ops>>

\* The flush of the claimed row.
LockTask(w) ==
    /\ At(w, "lock")
    /\ Free(Node(w), w)
    /\ Goto(w, "siblings")
    /\ UNCHANGED <<dbVars, queueVars, pub, ops>>

\* Mutant: a dependency that has ended in any way no longer holds its
\* dependents back.
PendingDependencyKeysTerminal(n) == {d \in Deps[n] : row[d].st \notin Terminal}

\* pending_dependency_keys
PendingDependencyKeys(n) == {d \in Deps[n] : row[d].st # "completed"}

ReadDependencies(w) ==
    /\ At(w, "siblings")
    /\ Goto(w, IF PendingDependencyKeys(Node(w)) = {} THEN "keep" ELSE "defer")
    /\ UNCHANGED <<dbVars, queueVars, pub, ops>>

\* The deferral commits, and then consumes the delivery.
DeferCommit(w) ==
    LET n == Node(w) IN
    /\ At(w, "defer")
    /\ row' = [row EXCEPT ![n] = [st |-> "queued", mt |-> frame[w].map[n].mt \cup {"deferred"}]]
    /\ frame' = [frame EXCEPT ![w].pc = "consume", ![w].map = EmptyMap]
    /\ UNCHANGED <<mission, outbox, produced, queueVars, pub, ops>>

ClaimCommit(w) ==
    LET n == Node(w) IN
    /\ At(w, "keep")
    /\ row' = [row EXCEPT ![n] = [st |-> "claimed", mt |-> frame[w].map[n].mt]]
    /\ Goto(w, "start")
    /\ UNCHANGED <<mission, outbox, produced, queueVars, pub, ops>>

\* start_execution, in the session of the claim.
StartExecution(w) ==
    LET n == Node(w) IN
    /\ At(w, "start")
    /\ Free(n, w)
    /\ row' = [row EXCEPT ![n] = [st |-> "running", mt |-> frame[w].map[n].mt]]
    /\ frame' = [frame EXCEPT ![w].pc = "run", ![w].map = EmptyMap]
    /\ UNCHANGED <<mission, outbox, produced, queueVars, pub, ops>>

\* complete_task, after a completion, a block, a deferral or on a terminal task.
ConsumeDelivery(w) ==
    /\ At(w, "consume")
    /\ Consume(Node(w), w)
    /\ Done(w)
    /\ UNCHANGED <<dbVars, pub, ops>>

\* fail_task, after a failure.
BuryDelivery(w) ==
    LET n == Node(w) IN
    /\ At(w, "bury")
    /\ IF live[n] = "processing" /\ owner[n] = w THEN Q!DeadLetter(n, w)
                                                 ELSE UNCHANGED queueVars
    /\ Done(w)
    /\ UNCHANGED <<dbVars, pub, ops>>

-----------------------------------------------------------------------------
\* complete and fail read the task and the mission, and flush the task.  When
\* complete raises (here: cancel_requested, or a deadlock) the dispatcher fails
\* or blocks the task instead.
BeginReport(w, out) ==
    LET n == Node(w) IN
    /\ At(w, "run")
    /\ row[n].st = "running"
    /\ out = "completed" => "cancel" \notin row[n].mt /\ frame[w].out # "error"
    /\ Free(n, w)
    /\ frame' = [frame EXCEPT ![w].pc = "rollup", ![w].out = out,
                              ![w].map = Loaded(EmptyMap, {n}), ![w].ms = mission]
    /\ UNCHANGED <<dbVars, queueVars, pub, ops>>

\* Every report is refused: the row is no longer running.
ReportRefused(w) ==
    /\ At(w, "run")
    /\ row[Node(w)].st # "running"
    /\ Done(w)
    /\ UNCHANGED <<dbVars, queueVars, pub, ops>>

\* block_completion_failure, which has no rollup.
BlockCompletionFailure(w) ==
    LET n == Node(w) IN
    /\ At(w, "run") /\ "block" \in Ops
    /\ row[n].st = "running"
    /\ Free(n, w)
    /\ row' = [row EXCEPT ![n].st = "blocked"]
    /\ Goto(w, "consume")
    /\ UNCHANGED <<mission, outbox, produced, queueVars, pub, ops>>

\* The rollup lists the siblings.
RollupRead(p) ==
    /\ At(p, "rollup")
    /\ frame' = [frame EXCEPT ![p].pc = "commit", ![p].map = Loaded(@, Nodes)]
    /\ UNCHANGED <<dbVars, queueVars, pub, ops>>

\* cancel_mission takes the listed tasks in order and skips terminal ones.
SweepTodo == {n \in frame[Operator].todo : frame[Operator].map[n].st \notin Terminal}
SweepNext == CHOOSE n \in SweepTodo : TRUE

\* The own row of a session, as its operation leaves it.
Outcome(r, out) ==
    IF out = "requested" THEN [r EXCEPT !.mt = @ \cup {"cancel"}]
    ELSE IF out = "cancelled" THEN [r EXCEPT !.st = "cancelled"]
    ELSE [st |-> out, mt |-> r.mt \ {"dep_failed"}]

\* The call after the commit: a worker goes on to the queue, cancel_mission to its
\* next task with the copies and the mission status it now holds.
AfterSettle(p, new, verdict) ==
    LET f == frame[p] IN
    IF p = Operator
      THEN IF f.pc = "commit" THEN Idle
           ELSE [f EXCEPT !.pc = "sweep", !.map = new, !.ms = verdict, !.todo = @ \ {SweepNext}]
      ELSE [Idle EXCEPT !.node = f.node, !.pc = IF f.out = "completed" THEN "consume" ELSE "bury"]

\* One transaction: the own row n, the rollup's rows and dispatches, the mission.
\* old is what the session had read.  (Bound to singletons, TLC computes the changes
\* once per step.)
Settle(p, n, out, old, ms) ==
    \E mine \in {[old EXCEPT ![n] = Outcome(@, out)]} :
    \E r \in {Rollup(mine, ms)} :
    \E new \in {Rolled(mine, r)} :
    /\ \A m \in r.recovered \cup r.redispatched \cup r.doomed \cup {n} : Free(m, p)
    /\ row' = Written(old, new, n)
    /\ \E verdict \in Verdicts(new, ms) :
         /\ verdict # ms => MissionFree(p)
         /\ mission' = IF verdict = ms THEN mission ELSE verdict
         /\ frame' = [frame EXCEPT ![p] = AfterSettle(p, new, verdict)]
    /\ outbox' = [m \in Nodes |->
                    Retried(IF m = n /\ out = "cancelled" THEN Cancelled(outbox[m]) ELSE outbox[m],
                            Rearmed(r, m))]
    /\ \A m \in Nodes : outbox[m].gen + Rearmed(r, m) <= MaxGen
    /\ produced' = IF out = "completed" THEN produced \cup {n} ELSE produced

RollupCommit(p) ==
    /\ At(p, "commit")
    /\ Settle(p, Node(p), frame[p].out, frame[p].map, frame[p].ms)
    /\ UNCHANGED <<queueVars, pub, ops>>

-----------------------------------------------------------------------------
Spend(kind) == kind \in Ops \ ops /\ Cardinality(ops) < MaxOps /\ ops' = ops \cup {kind}

\* What cancel_task does to a task it has read in status st.
CancelOutcome(st) == IF st \in {"claimed", "running"} THEN "requested" ELSE "cancelled"

\* cancel_task: an unlocked read ...
CancelRead(n) ==
    /\ At(Operator, "idle")
    /\ Spend("cancel")
    /\ row[n].st \notin Terminal
    /\ frame' = [frame EXCEPT ![Operator] =
         [Idle EXCEPT !.pc = "cancel", !.node = n, !.out = CancelOutcome(row[n].st),
                      !.map = Loaded(EmptyMap, {n})]]
    /\ UNCHANGED <<dbVars, queueVars, pub>>

\* ... then the flush of the task, and the rollup.
CancelFlush ==
    /\ At(Operator, "cancel")
    /\ Free(Node(Operator), Operator)
    /\ frame' = [frame EXCEPT ![Operator].pc = "rollup", ![Operator].ms = mission]
    /\ UNCHANGED <<dbVars, queueVars, pub, ops>>

\* cancel_mission: the mission is locked and the tasks are listed once; the
\* commit of the first cancel_task ends the lock, and every cancel_task works
\* on the copies of that listing.
SweepRead ==
    /\ At(Operator, "idle")
    /\ Spend("cancel")
    /\ frame' = [frame EXCEPT ![Operator] =
         [Idle EXCEPT !.pc = "sweep_locked", !.map = row, !.ms = mission, !.todo = Nodes]]
    /\ UNCHANGED <<dbVars, queueVars, pub>>

Sweeping == frame[Operator].pc \in {"sweep_locked", "sweep"}

SweepTask ==
    LET f == frame[Operator] IN
    /\ Sweeping /\ SweepTodo # {}
    /\ Settle(Operator, SweepNext, CancelOutcome(f.map[SweepNext].st), f.map, f.ms)
    /\ UNCHANGED <<queueVars, pub, ops>>

SweepEnd ==
    /\ Sweeping /\ SweepTodo = {}
    /\ mission' = IF frame[Operator].ms \in MissionTerminal THEN mission ELSE "cancelled"
    /\ Done(Operator)
    /\ UNCHANGED <<row, outbox, produced, queueVars, pub, ops>>

\* The report of w will write the mission row.
WritesMission(w) ==
    LET mine == [frame[w].map EXCEPT ![Node(w)] = Outcome(@, frame[w].out)] IN
    frame[w].ms \notin Verdicts(Rolled(mine, Rollup(mine, frame[w].ms)), frame[w].ms)

\* A report that holds its task and needs the mission, against a sweep that
\* holds the mission and needs the task: the database aborts one of them.
Deadlock(w) ==
    /\ At(w, "commit") /\ At(Operator, "sweep_locked")
    /\ Node(w) \in SweepTodo /\ WritesMission(w)
    /\ \/ Done(Operator)
       \/ frame' = [frame EXCEPT ![w] = [Idle EXCEPT !.pc = "run", !.node = Node(w), !.out = "error"]]
    /\ UNCHANGED <<dbVars, queueVars, pub, ops>>

\* retry_task: task and mission are locked; a failed mission is reopened.
RetryTask(n) ==
    /\ At(Operator, "idle")
    /\ Spend("retry")
    /\ row[n].st \in {"failed", "dead_lettered"}
    /\ Free(n, Operator)
    /\ row' = [row EXCEPT ![n] = [st |-> "queued", mt |-> @.mt \ {"dep_failed"}]]
    /\ mission' = IF mission = "failed" THEN "running" ELSE mission
    /\ outbox' = [outbox EXCEPT ![n] = Retried(@, 1)]
    /\ outbox'[n].gen <= MaxGen
    /\ UNCHANGED <<produced, queueVars, frame, pub>>

\* A worker is lost between claim and report, and the maintainer recovers its
\* task: requeued or, past the retry limit, dead-lettered.  No rollup.
LoseWorker(w) ==
    LET n == Node(w) IN
    /\ At(w, "start") \/ At(w, "run")
    /\ Spend("crash")
    /\ row[n].st \in {"claimed", "running"} /\ Free(n, w)
    /\ \/ Q!Requeue(n, w) /\ row' = [row EXCEPT ![n].st = "queued"]
       \/ Q!DeadLetter(n, w) /\ row' = [row EXCEPT ![n].st = "dead_lettered"]
    /\ Done(w)
    /\ UNCHANGED <<mission, outbox, produced, pub>>

-----------------------------------------------------------------------------
\* _publish, of the copy with generation gen: a re-armed dispatch revives a buried
\* payload, and counts a payload that is already pending or processing as published.
PublishEffect(n, gen) ==
    IF gen > 0 /\ live[n] # "absent" THEN UNCHANGED queueVars
    ELSE IF gen > 0 /\ n \in dead THEN Q!Revive(n)
    ELSE IF live[n] = "absent" /\ <<n, gen>> \notin spent THEN Q!PublishOnce(n, <<n, gen>>)
    ELSE UNCHANGED queueVars

GotoPub(x, pc) == pub' = [pub EXCEPT ![x].pc = pc]

\* A publisher reads a pending dispatch.  The hook takes no lock; a pass locks the
\* rows it lists, and its first commit gives back the locks of all of them.
ReadDispatch(x, n) ==
    /\ pub[x].pc = "idle" /\ outbox[n].st = "pending"
    /\ pub' = [pub EXCEPT ![x] = [pc |-> "read", node |-> n, gen |-> outbox[n].gen]]
    /\ UNCHANGED <<dbVars, queueVars, frame, ops>>

PublishDispatch(x) ==
    /\ pub[x].pc = "read"
    /\ PublishEffect(pub[x].node, pub[x].gen)
    /\ pub' = [pub EXCEPT ![x] = [pc |-> "sent", node |-> pub[x].node, gen |-> 0]]
    /\ UNCHANGED <<dbVars, frame, ops>>

\* Only publish_due looks at the task.
RefuseDispatch(x) ==
    /\ pub[x].pc = "read"
    /\ row[pub[x].node].st # "queued"
    /\ GotoPub(x, "drop")
    /\ UNCHANGED <<dbVars, queueVars, frame, ops>>

\* The commit writes the status, whatever generation the row now has.  (A session that
\* re-arms or cancels a dispatch also reads and flushes it without a lock; there one
\* step is enough, since the columns it leaves alone make an acknowledgement in between
\* end like one right after.)
RecordDispatch(x) ==
    /\ pub[x].pc \in {"sent", "drop"}
    /\ outbox' = [outbox EXCEPT ![pub[x].node].st = IF pub[x].pc = "sent" THEN "published" ELSE "cleaned"]
    /\ pub' = [pub EXCEPT ![x] = IdlePublisher]
    /\ UNCHANGED <<row, mission, produced, queueVars, frame, ops>>

\* reconcile_cancelled: cancel_task is refused while a worker owns the payload.
ReconcileCancelled(n) ==
    /\ outbox[n].st = "cancelled"
    /\ live[n] # "processing"
    /\ IF live[n] = "pending" THEN Q!Withdraw(n) ELSE UNCHANGED queueVars
    /\ outbox' = [outbox EXCEPT ![n].st = "cleaned"]
    /\ UNCHANGED <<row, mission, produced, frame, pub, ops>>

\* The maintainer removes the payload that a refused report left in processing.
\* (The branches for failed and for open rows are in Maintainer: here the payload
\* of such a row is never left behind.)
ReconcileProcessing(n) ==
    /\ live[n] = "processing"
    /\ \A w \in Workers : Node(w) # n
    /\ row[n].st \in {"completed", "blocked", "cancelled"}
    /\ Q!Finish(n, owner[n])
    /\ UNCHANGED <<dbVars, frame, pub, ops>>

-----------------------------------------------------------------------------
WorkerStep(w) ==
    \/ ClaimNext(w) \/ ReadTask(w) \/ LockTask(w) \/ ReadDependencies(w)
    \/ DeferCommit(w) \/ ClaimCommit(w) \/ StartExecution(w)
    \/ ConsumeDelivery(w) \/ BuryDelivery(w)
    \/ BeginReport(w, "completed") \/ BeginReport(w, "failed")
    \/ ReportRefused(w) \/ BlockCompletionFailure(w)
    \/ RollupRead(w) \/ RollupCommit(w)

OperatorStep ==
    \/ RollupRead(Operator) \/ RollupCommit(Operator)
    \/ CancelFlush \/ SweepTask \/ SweepEnd

OperatorCall == \/ SweepRead
                \/ \E n \in Nodes : CancelRead(n) \/ RetryTask(n)

PublisherStep(x) ==
    \/ \E n \in Nodes : ReadDispatch(x, n)
    \/ PublishDispatch(x) \/ RefuseDispatch(x) \/ RecordDispatch(x)

Background(n) == ReconcileCancelled(n) \/ ReconcileProcessing(n)

Next ==
    \/ \E w \in Workers : WorkerStep(w) \/ LoseWorker(w) \/ Deadlock(w)
    \/ OperatorStep \/ OperatorCall
    \/ \E x \in Publishers : PublisherStep(x)
    \/ \E n \in Nodes : Background(n)

Spec == Init /\ [][Next]_vars

\* Every call goes on to its end, workers poll, and the maintainer publishes.
Fairness ==
    /\ \A w \in Workers : WF_vars(WorkerStep(w))
    /\ WF_vars(OperatorStep)
    /\ \A x \in Publishers : WF_vars(PublisherStep(x))
    /\ \A n \in Nodes : WF_vars(Background(n))

FairSpec == Spec /\ Fairness

-----------------------------------------------------------------------------
Maps == UNION {[S -> Rows] : S \in SUBSET Nodes}
WorkerPCs == {"idle", "read", "lock", "siblings", "defer", "keep", "start", "run", "rollup",
              "commit", "consume", "bury"}
OperatorPCs == {"idle", "cancel", "rollup", "commit", "sweep_locked", "sweep"}
Frames == [pc : WorkerPCs \cup OperatorPCs, node : Nodes \cup {NoNode},
           out : {"none", "completed", "failed", "error", "requested", "cancelled"},
           map : Maps, ms : MissionStates, todo : SUBSET Nodes]

\* Type invariant.
TypeOK ==
    /\ row \in [Nodes -> Rows]
    /\ mission \in MissionStates
    /\ outbox \in [Nodes -> [st : {"pending", "published", "cancelled", "cleaned"}, gen : 0..MaxGen]]
    /\ live \in [Nodes -> {"absent", "pending", "processing"}]
    /\ owner \in [Nodes -> Workers \cup {NoOwner}]
    /\ dead \subseteq Nodes /\ spent \subseteq Nodes \X (0..MaxGen)
    /\ produced \subseteq Nodes /\ ops \subseteq Ops
    /\ frame \in [Actors -> Frames]
    /\ pub \in [Publishers -> [pc : {"idle", "read", "sent", "drop"}, node : Nodes \cup {NoNode}, gen : 0..MaxGen]]
    /\ \A x \in Publishers : pub[x].pc # "idle" => pub[x].node \in Nodes

\* Work starts only on results: whatever cancellations, retries, lost workers
\* and stale rollups do, a node is claimed, running or completed only if the
\* completion of every node it depends on has been committed.
WorksOnResults ==
    \A n \in Nodes : row[n].st \in {"claimed", "running", "completed"} => Deps[n] \subseteq produced

\* While no operator has cancelled anything, a completed mission has no failed,
\* blocked or unfinished node, although each rollup decides on rows that other
\* workers, retries and recoveries are changing.
CompletedMissionIsSound ==
    "cancel" \notin ops /\ mission = "completed" => \A n \in Nodes : row[n].st = "completed"

\* While no operator has intervened, the first verdict on the mission is the last
\* one: a slower report with an older view does not overwrite it.
VerdictsAreFinal ==
    [][(mission \in MissionTerminal /\ ops \cap {"cancel", "retry"} = {} /\ ops' = ops)
         => mission' = mission]_vars

\* Unless an operator cancels or retries, a completed node is never put back:
\* neither a late rollup nor a recovery overwrites a result.  (After a retry a late
\* rollup can: ReplaySpec of MCMissionGraph.)
CompletedStays ==
    [][\A n \in Nodes : row[n].st = "completed" /\ ops \cap {"cancel", "retry"} = {}
         => row'[n].st = "completed"]_vars

\* Every mission settles: "Terminalize those descendants now so missions cannot
\* remain running forever behind queued dependency deferrals."
MissionSettles == <>[](mission \in MissionTerminal)

\* A queued task that nobody defers and nobody will deliver: a rollup has re-armed
\* its dispatch between a publication and the acknowledgement of it.
Stranded(n) ==
    /\ row[n].st = "queued" /\ "deferred" \notin row[n].mt
    /\ live[n] = "absent" /\ outbox[n].st # "pending"
    /\ \A x \in Publishers : pub[x].node # n

\* What holds of it with one worker: every mission settles, through deferrals,
\* failures that spread and publishers that are late, unless a late
\* acknowledgement strands a node.
SettlesOrStrands == <>[](mission \in MissionTerminal \/ \E n \in Nodes : Stranded(n))
=============================================================================

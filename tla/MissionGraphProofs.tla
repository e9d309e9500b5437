------------------------- MODULE MissionGraphProofs -------------------------
(***************************************************************************)
(* Proofs about MissionGraph, for every graph, set of workers and bound.   *)
(*                                                                         *)
(* WorksOnResults alone is not inductive: a session may write back what it *)
(* read long ago.  GraphInv therefore says of every copy of a row that is  *)
(* still held in a session what WorksOnResults says of the row itself, and *)
(* what each step of a call has loaded.                                    *)
(*                                                                         *)
(* CompletedMissionIsSound needs more, since a rollup settles the mission  *)
(* on rows that it read before others wrote them.  SoundInv says that the  *)
(* payload of a task has one owner, so that no two workers report on the   *)
(* same row, and that a session which has seen all other nodes completed   *)
(* is never overtaken: while nothing is cancelled, completed rows change   *)
(* only when another session rolls up, retries or is recovered, and each   *)
(* of those starts from a row that is not completed.                       *)
(*                                                                         *)
(* VerdictsAreFinal and CompletedStays are about late rollups.  Settling   *)
(* says which nodes are hopeless: those that ended without a result, and   *)
(* those that wait for a hopeless one.  While no operator intervenes a     *)
(* hopeless node stays so; every row, and every copy of a row however old, *)
(* that says failed or blocked is of a hopeless node; so a rollup blocks   *)
(* no node that could complete, re-admits none that it had blocked, and    *)
(* gives a verdict only when every node is completed or hopeless.          *)
(*                                                                         *)
(* MissionUsesContract is the other half of RedisImplementsContract: the   *)
(* mission asks the queue for nothing that its contract does not offer.    *)
(***************************************************************************)
EXTENDS MissionGraph, TLAPS

Working == {"claimed", "running", "completed"}

\* A row in status st is backed by the results P.
Grounded(st, n, P) ==
    /\ st = "completed" => n \in P
    /\ st \in Working => Deps[n] \subseteq P

WorkerFrameOK(f, P) ==
    /\ f.pc \in WorkerPCs
    /\ f.pc # "idle" => f.node \in Nodes
    /\ f.pc \in {"lock", "siblings", "defer", "keep", "start", "rollup", "commit"} =>
         f.node \in DOMAIN f.map
    /\ f.pc \in {"keep", "start"} => Deps[f.node] \subseteq P
    /\ f.pc \in {"rollup", "commit"} =>
         f.map[f.node].st = "running" /\ f.out \in {"completed", "failed"}

OperatorFrameOK(f) ==
    /\ f.pc \in OperatorPCs
    /\ f.pc \in {"cancel", "rollup", "commit"} =>
         /\ f.node \in Nodes /\ f.node \in DOMAIN f.map
         /\ f.out \in {"requested", "cancelled"}

\* What the frame f of actor p has loaded, given the results P.
FrameOK(p, f, P) ==
    /\ p \in Workers => WorkerFrameOK(f, P)
    /\ p = Operator => OperatorFrameOK(f)
    /\ f.pc \in {"commit", "sweep_locked", "sweep"} => DOMAIN f.map = Nodes
    /\ \A n \in DOMAIN f.map : Grounded(f.map[n].st, n, P)

FramesOK == \A p \in Actors : FrameOK(p, frame[p], produced)
RowsGrounded == \A n \in Nodes : Grounded(row[n].st, n, produced)
GraphInv == TypeOK /\ FramesOK /\ RowsGrounded

-----------------------------------------------------------------------------
\* A function from some of the nodes to rows is a possible identity map.
LEMMA MapIntro ==
    ASSUME NEW S \in SUBSET Nodes, NEW f \in [S -> Rows]
    PROVE  f \in Maps
BY DEF Maps

\* What is known of an identity map.
LEMMA MapElim ==
    ASSUME NEW f \in Maps
    PROVE  /\ DOMAIN f \subseteq Nodes
           /\ f \in [DOMAIN f -> Rows]
           /\ \A n \in DOMAIN f : f[n] \in Rows
BY DEF Maps

\* The empty map, and the map of a session that reads more rows.
LEMMA EmptyMapType == EmptyMap \in Maps /\ DOMAIN EmptyMap = {}
<1>1. EmptyMap \in [{} -> Rows]  BY DEF EmptyMap
<1>2. QED  BY <1>1, MapIntro

\* A process outside any call has read nothing.
LEMMA IdleType == Idle \in Frames /\ Idle.pc = "idle" /\ DOMAIN Idle.map = {}
BY EmptyMapType DEF Idle, Frames, WorkerPCs, MissionStates

\* What a session reads is a map of rows.
LEMMA LoadedType ==
    ASSUME row \in [Nodes -> Rows], NEW map \in Maps, NEW S \in SUBSET Nodes
    PROVE  /\ Loaded(map, S) \in Maps
           /\ DOMAIN Loaded(map, S) = S \cup DOMAIN map
           /\ \A n \in S \cup DOMAIN map :
                Loaded(map, S)[n] = IF n \in DOMAIN map THEN map[n] ELSE row[n]
<1>1. DOMAIN map \subseteq Nodes /\ \A n \in DOMAIN map : map[n] \in Rows  BY MapElim
<1>2. Loaded(map, S) \in [S \cup DOMAIN map -> Rows]  BY <1>1 DEF Loaded
<1>3. S \cup DOMAIN map \in SUBSET Nodes  BY <1>1
<1>4. QED  BY <1>2, <1>3, MapIntro DEF Loaded

\* Reading one row gives the row on disk, or the copy the session has.
LEMMA LoadOne ==
    ASSUME row \in [Nodes -> Rows], NEW n \in Nodes
    PROVE  /\ Loaded(EmptyMap, {n}) \in Maps
           /\ DOMAIN Loaded(EmptyMap, {n}) = {n}
           /\ Loaded(EmptyMap, {n})[n] = row[n]
<1>1. EmptyMap \in Maps /\ DOMAIN EmptyMap = {} /\ {n} \in SUBSET Nodes  BY EmptyMapType
<1>2. /\ Loaded(EmptyMap, {n}) \in Maps
      /\ DOMAIN Loaded(EmptyMap, {n}) = {n} \cup DOMAIN EmptyMap
      /\ \A m \in {n} \cup DOMAIN EmptyMap : Loaded(EmptyMap, {n})[m] =
            IF m \in DOMAIN EmptyMap THEN EmptyMap[m] ELSE row[m]
  BY <1>1, LoadedType
<1> HIDE DEF Loaded, EmptyMap
<1>3. QED  BY <1>1, <1>2

\* What a session leaves in the rows is again a row, and its status is working
\* only where the session's own copy was.
LEMMA RolledType ==
    ASSUME NEW map \in [Nodes -> Rows], NEW r
    PROVE  /\ Rolled(map, r) \in [Nodes -> Rows]
           /\ \A n \in Nodes : Rolled(map, r)[n].st \in {"blocked", "queued", map[n].st}
BY DEF Rolled, Rows, TaskStates, Facts

\* An outcome is a row.
LEMMA OutcomeType ==
    ASSUME NEW rw \in Rows, NEW out \in {"completed", "failed", "requested", "cancelled"}
    PROVE  /\ Outcome(rw, out) \in Rows
           /\ Outcome(rw, out).st = IF out = "requested" THEN rw.st ELSE out
BY DEF Outcome, Rows, TaskStates, Facts

\* A commit writes rows.
LEMMA WrittenType ==
    ASSUME row \in [Nodes -> Rows], NEW old \in [Nodes -> Rows], NEW new \in [Nodes -> Rows], NEW n
    PROVE  /\ Written(old, new, n) \in [Nodes -> Rows]
           /\ \A m \in Nodes : Written(old, new, n)[m].st \in {row[m].st, new[m].st}
BY DEF Written, Rows

-----------------------------------------------------------------------------
\* A step that replaces the frame of p by f, and takes no result away.
LEMMA FrameStep ==
    ASSUME GraphInv, NEW p \in Actors, NEW f \in Frames,
           frame' = [frame EXCEPT ![p] = f], produced \subseteq produced',
           FrameOK(p, f, produced')
    PROVE  frame' \in [Actors -> Frames] /\ FramesOK'
<1>1. frame \in [Actors -> Frames] /\ \A q \in Actors : FrameOK(q, frame[q], produced)
  BY DEF GraphInv, TypeOK, FramesOK
<1>2. frame' \in [Actors -> Frames] /\ frame'[p] = f
  BY <1>1
<1>3. ASSUME NEW q \in Actors, q # p
      PROVE  frame'[q] = frame[q] /\ FrameOK(q, frame[q], produced')
  BY <1>1, <1>3 DEF FrameOK, WorkerFrameOK, OperatorFrameOK, Grounded
<1>4. ASSUME NEW q \in Actors PROVE FrameOK(q, frame'[q], produced')
  <2>1. CASE q = p  BY <2>1, <1>2
  <2>2. CASE q # p  BY <2>2, <1>3
  <2>3. QED  BY <2>1, <2>2
<1>5. QED  BY <1>2, <1>4 DEF FramesOK

\* An idle frame is always in order.
LEMMA IdleOK == ASSUME NEW p \in Actors, NEW P PROVE Idle \in Frames /\ FrameOK(p, Idle, P)
BY IdleType DEF FrameOK, WorkerFrameOK, OperatorFrameOK, WorkerPCs, OperatorPCs

\* Every action of the queue keeps its types.
QueueOK ==
    /\ live \in [Nodes -> {"absent", "pending", "processing"}]
    /\ owner \in [Nodes -> Workers \cup {NoOwner}]
    /\ dead \subseteq Nodes /\ spent \subseteq Nodes \X (0..MaxGen)

\* The queue keeps its types.
LEMMA QueueTypes ==
    ASSUME QueueOK, NEW n \in Nodes, NEW w \in Workers, NEW g \in 0..MaxGen,
           \/ Q!Claim(n, w) \/ Q!Finish(n, w) \/ Q!Finish(n, owner[n]) \/ Q!Requeue(n, w)
           \/ Q!DeadLetter(n, w) \/ Q!Revive(n) \/ Q!Withdraw(n)
           \/ Q!PublishOnce(n, <<n, g>>) \/ UNCHANGED queueVars
    PROVE  QueueOK'
BY DEF QueueOK, Q!Claim, Q!Finish, Q!Requeue, Q!DeadLetter, Q!Revive, Q!Withdraw,
       Q!PublishOnce, Q!Move, queueVars

\* The copies that publishers hold.
PubOK ==
    /\ pub \in [Publishers -> [pc : {"idle", "read", "sent", "drop"}, node : Nodes \cup {NoNode},
                              gen : 0..MaxGen]]
    /\ \A x \in Publishers : pub[x].pc # "idle" => pub[x].node \in Nodes

\* The types apart from the frames.
RestOK ==
    /\ row \in [Nodes -> Rows]
    /\ mission \in MissionStates
    /\ outbox \in [Nodes -> [st : {"pending", "published", "cancelled", "cleaned"}, gen : 0..MaxGen]]
    /\ produced \subseteq Nodes /\ ops \subseteq Ops
    /\ PubOK

\* The type invariant by its parts.
LEMMA TypeParts == TypeOK <=> RestOK /\ QueueOK /\ frame \in [Actors -> Frames]
BY DEF TypeOK, RestOK, QueueOK, PubOK

\* The dispatch rows a settling session leaves.
LEMMA RetriedType ==
    ASSUME GraphAssumption,
           NEW o \in [st : {"pending", "published", "cancelled", "cleaned"}, gen : 0..MaxGen],
           NEW r, NEW n, o.gen + Rearmed(r, n) <= MaxGen
    PROVE  /\ Retried(o, Rearmed(r, n)) \in [st : {"pending", "published", "cancelled", "cleaned"}, gen : 0..MaxGen]
           /\ Cancelled(o) \in [st : {"pending", "published", "cancelled", "cleaned"}, gen : 0..MaxGen]
           /\ Cancelled(o).gen = o.gen
BY DEF Retried, Rearmed, Cancelled, GraphAssumption

\* What the transaction that ends a report or a cancellation leaves.
Settled(p) ==
    /\ row' \in [Nodes -> Rows] /\ mission' \in MissionStates
    /\ outbox' \in [Nodes -> [st : {"pending", "published", "cancelled", "cleaned"}, gen : 0..MaxGen]]
    /\ produced' \subseteq Nodes /\ produced \subseteq produced'
    /\ RowsGrounded'
    /\ \E new \in [Nodes -> Rows], verdict \in MissionStates :
         /\ \A m \in Nodes : Grounded(new[m].st, m, produced')
         /\ frame' = [frame EXCEPT ![p] = AfterSettle(p, new, verdict)]

\* The transaction that ends a report or a cancellation: whatever the session
\* read long ago, the rows it leaves are backed by results.
LEMMA SettleStep ==
    ASSUME GraphAssumption, GraphInv, NEW p \in Actors, NEW n \in Nodes,
           NEW out \in {"completed", "failed", "requested", "cancelled"},
           NEW old \in [Nodes -> Rows], NEW ms \in MissionStates,
           \A m \in Nodes : Grounded(old[m].st, m, produced),
           out = "completed" => Deps[n] \subseteq produced,
           Settle(p, n, out, old, ms)
    PROVE  Settled(p)
<1> DEFINE mine == [old EXCEPT ![n] = Outcome(@, out)]
           r == Rollup(mine, ms)
           new == Rolled(mine, r)
           D(m) == IF m = n /\ out = "cancelled" THEN Cancelled(outbox[m]) ELSE outbox[m]
<1> HIDE DEF r
<1>1. /\ row' = Written(old, new, n)
      /\ \E verdict \in Verdicts(new, ms) :
           /\ mission' = IF verdict = ms THEN mission ELSE verdict
           /\ frame' = [frame EXCEPT ![p] = AfterSettle(p, new, verdict)]
      /\ outbox' = [m \in Nodes |-> Retried(D(m), Rearmed(r, m))]
      /\ \A m \in Nodes : outbox[m].gen + Rearmed(r, m) <= MaxGen
      /\ produced' = IF out = "completed" THEN produced \cup {n} ELSE produced
  BY DEF Settle, r
<1>2. produced' \subseteq Nodes /\ produced \subseteq produced'
  BY <1>1 DEF GraphInv, TypeOK
<1>3. mine \in [Nodes -> Rows] /\ \A m \in Nodes : Grounded(mine[m].st, m, produced')
  <2>1. Outcome(old[n], out) \in Rows
        /\ Outcome(old[n], out).st = (IF out = "requested" THEN old[n].st ELSE out)
    BY OutcomeType
  <2>2. mine \in [Nodes -> Rows] /\ mine[n] = Outcome(old[n], out)
        /\ \A m \in Nodes \ {n} : mine[m] = old[m]
    BY <2>1
  <2>3. Grounded(mine[n].st, n, produced')
    BY <2>1, <2>2, <1>1, <1>2 DEF Grounded, Working
  <2>4. ASSUME NEW m \in Nodes \ {n} PROVE Grounded(mine[m].st, m, produced')
    BY <2>2, <1>2 DEF Grounded
  <2>5. QED  BY <2>2, <2>3, <2>4
<1>4. new \in [Nodes -> Rows] /\ \A m \in Nodes : Grounded(new[m].st, m, produced')
  <2>1. new \in [Nodes -> Rows] /\ \A m \in Nodes : new[m].st \in {"blocked", "queued", mine[m].st}
    BY <1>3, RolledType
  <2>2. QED  BY <2>1, <1>3 DEF Grounded, Working
<1>5. row' \in [Nodes -> Rows] /\ RowsGrounded'
  <2>1. row \in [Nodes -> Rows] /\ \A m \in Nodes : Grounded(row[m].st, m, produced)
    BY DEF GraphInv, TypeOK, RowsGrounded
  <2>2. row' \in [Nodes -> Rows] /\ \A m \in Nodes : row'[m].st \in {row[m].st, new[m].st}
    BY <1>1, <1>4, <2>1, WrittenType
  <2>3. ASSUME NEW m \in Nodes PROVE Grounded(row'[m].st, m, produced')
    BY <2>1, <2>2, <1>2, <1>4 DEF Grounded
  <2>4. QED  BY <2>2, <2>3 DEF RowsGrounded
<1>6. mission' \in MissionStates
      /\ \E verdict \in MissionStates : frame' = [frame EXCEPT ![p] = AfterSettle(p, new, verdict)]
  BY <1>1 DEF Verdicts, MissionStates, GraphInv, TypeOK
<1>7. outbox' \in [Nodes -> [st : {"pending", "published", "cancelled", "cleaned"}, gen : 0..MaxGen]]
  <2>1. outbox \in [Nodes -> [st : {"pending", "published", "cancelled", "cleaned"}, gen : 0..MaxGen]]
    BY DEF GraphInv, TypeOK
  <2>2. ASSUME NEW m \in Nodes
        PROVE  Retried(D(m), Rearmed(r, m)) \in [st : {"pending", "published", "cancelled", "cleaned"}, gen : 0..MaxGen]
    BY <1>1, <2>1, RetriedType DEF Cancelled
  <2>3. QED  BY <2>2, <1>1
<1>8. QED  BY <1>2, <1>4, <1>5, <1>6, <1>7 DEF Settled

-----------------------------------------------------------------------------
\* The facts about one actor's frame that every step starts from.
LEMMA FrameFacts ==
    ASSUME GraphInv, NEW p \in Actors
    PROVE  /\ frame[p] \in Frames /\ FrameOK(p, frame[p], produced)
           /\ frame[p].map \in Maps /\ DOMAIN frame[p].map \subseteq Nodes
           /\ \A n \in DOMAIN frame[p].map : frame[p].map[n] \in Rows
<1>1. frame[p] \in Frames /\ FrameOK(p, frame[p], produced)
  BY DEF GraphInv, TypeOK, FramesOK
<1>2. frame[p].map \in Maps  BY <1>1 DEF Frames
<1>3. QED  BY <1>1, <1>2, MapElim

\* A step that changes no row, mission, dispatch or result.
LEMMA ReadOnlyStep ==
    ASSUME GraphInv, UNCHANGED pub, QueueOK', UNCHANGED <<row, mission, outbox, produced>>, ops' \subseteq Ops,
           NEW p \in Actors, NEW f \in Frames,
           frame' = [frame EXCEPT ![p] = f], FrameOK(p, f, produced)
    PROVE  GraphInv'
<1>1. frame' \in [Actors -> Frames] /\ FramesOK'  BY FrameStep
<1>2. QED  BY <1>1 DEF GraphInv, TypeOK, QueueOK, RowsGrounded

\* A step that also writes row n, to a row that the results back.
LEMMA WriteStep ==
    ASSUME GraphInv, UNCHANGED pub, QueueOK', UNCHANGED <<mission, outbox, produced>>, ops' \subseteq Ops,
           NEW p \in Actors, NEW f \in Frames,
           frame' = [frame EXCEPT ![p] = f], FrameOK(p, f, produced),
           NEW n \in Nodes, NEW rw \in Rows,
           row' = [row EXCEPT ![n] = rw], Grounded(rw.st, n, produced)
    PROVE  GraphInv'
<1>1. frame' \in [Actors -> Frames] /\ FramesOK'  BY FrameStep
<1>2. row \in [Nodes -> Rows] /\ \A m \in Nodes : Grounded(row[m].st, m, produced)
  BY DEF GraphInv, TypeOK, RowsGrounded
<1>3. row' \in [Nodes -> Rows] /\ RowsGrounded'
  BY <1>2 DEF RowsGrounded, Grounded
<1>4. QED  BY <1>1, <1>3 DEF GraphInv, TypeOK, QueueOK

\* The claim: what a worker does before its report.
LEMMA ClaimSteps ==
    ASSUME GraphAssumption, GraphInv, UNCHANGED pub, NEW w \in Workers,
           \/ ClaimNext(w) \/ ReadTask(w) \/ LockTask(w) \/ ReadDependencies(w)
           \/ DeferCommit(w) \/ ClaimCommit(w) \/ StartExecution(w)
           \/ ConsumeDelivery(w) \/ BuryDelivery(w)
    PROVE  GraphInv'
<1> DEFINE f0 == frame[w]
<1>0. /\ w \in Actors /\ QueueOK /\ f0 \in Frames /\ FrameOK(w, f0, produced)
      /\ WorkerFrameOK(f0, produced) /\ f0.map \in Maps
      /\ frame \in [Actors -> Frames] /\ ops \subseteq Ops /\ w # Operator
      /\ row \in [Nodes -> Rows]
  BY FrameFacts DEF Actors, FrameOK, GraphInv, TypeOK, QueueOK, GraphAssumption
<1>q. UNCHANGED queueVars => QueueOK'  BY <1>0 DEF QueueOK, queueVars
<1>1. CASE ClaimNext(w)
  <2>1. PICK n \in Nodes : Q!Claim(n, w)
                           /\ frame' = [frame EXCEPT ![w].pc = "read", ![w].node = n]
    BY <1>1 DEF ClaimNext
  <2> DEFINE f == [f0 EXCEPT !.pc = "read", !.node = n]
  <2>2. f \in Frames /\ frame' = [frame EXCEPT ![w] = f]
    BY <2>1, <1>0 DEF Frames, WorkerPCs
  <2>3. FrameOK(w, f, produced)
    BY <1>0 DEF FrameOK, WorkerFrameOK, WorkerPCs, Frames
  <2>4. QueueOK'
    BY <1>0, <2>1 DEF QueueOK, Q!Claim, Q!Move
  <2>5. QED  BY <1>0, <1>1, <2>2, <2>3, <2>4, ReadOnlyStep DEF ClaimNext, dbVars
<1>2. CASE ReadTask(w)
  <2> DEFINE n == Node(w)
  <2>0. n \in Nodes /\ QueueOK' /\ UNCHANGED <<row, mission, outbox, produced>> /\ ops' \subseteq Ops
    BY <1>0, <1>2, <1>q DEF ReadTask, At, Node, WorkerFrameOK, dbVars
  <2>1. CASE row[n].st \in Terminal /\ Goto(w, "consume")
    <3> DEFINE f == [f0 EXCEPT !.pc = "consume"]
    <3>1. f \in Frames /\ frame' = [frame EXCEPT ![w] = f]
      BY <2>1, <1>0 DEF Frames, WorkerPCs, Goto
    <3>2. FrameOK(w, f, produced)
      BY <1>0, <2>0 DEF FrameOK, WorkerFrameOK, WorkerPCs, Frames, Node
    <3>3. QED  BY <1>0, <2>0, <3>1, <3>2, ReadOnlyStep
  <2>2. CASE row[n].st = "queued"
             /\ frame' = [frame EXCEPT ![w].pc = "lock", ![w].map = Loaded(EmptyMap, {n})]
    <3> DEFINE mp == Loaded(EmptyMap, {n})
               f == [f0 EXCEPT !.pc = "lock", !.map = mp]
    <3>1. mp \in Maps /\ DOMAIN mp = {n} /\ mp[n] = row[n]
      BY <1>0, <2>0, LoadOne
    <3> HIDE DEF mp
    <3>2. f \in Frames /\ frame' = [frame EXCEPT ![w] = f]
      BY <2>2, <1>0, <3>1 DEF Frames, WorkerPCs, mp
    <3>3. Grounded(mp[n].st, n, produced)
      BY <2>2, <3>1 DEF Grounded, Working
    <3>4. FrameOK(w, f, produced)
      BY <1>0, <2>0, <3>1, <3>3 DEF FrameOK, WorkerFrameOK, WorkerPCs, Frames, Node
    <3>5. QED  BY <1>0, <2>0, <3>2, <3>4, ReadOnlyStep
  <2>3. QED  BY <1>2, <2>1, <2>2 DEF ReadTask
<1>3. CASE LockTask(w)
  <2> DEFINE f == [f0 EXCEPT !.pc = "siblings"]
  <2>1. f \in Frames /\ frame' = [frame EXCEPT ![w] = f]
    BY <1>3, <1>0 DEF LockTask, Frames, WorkerPCs, Goto
  <2>2. FrameOK(w, f, produced)
    BY <1>0, <1>3 DEF LockTask, At, FrameOK, WorkerFrameOK, WorkerPCs, Frames
  <2>3. QED  BY <1>0, <1>3, <1>q, <2>1, <2>2, ReadOnlyStep DEF LockTask, dbVars
<1>4. CASE ReadDependencies(w)
  <2> DEFINE pc1 == IF PendingDependencyKeys(Node(w)) = {} THEN "keep" ELSE "defer"
             f == [f0 EXCEPT !.pc = pc1]
  <2>0. f0.pc = "siblings" /\ f0.node \in Nodes  BY <1>0, <1>4 DEF ReadDependencies, At, WorkerFrameOK
  <2>1. pc1 \in {"keep", "defer"}  OBVIOUS
  <2>2. pc1 = "keep" => Deps[f0.node] \subseteq produced
    BY <2>0 DEF PendingDependencyKeys, Node, GraphInv, RowsGrounded, Grounded, GraphAssumption
  <2> HIDE DEF pc1
  <2>3. f \in Frames /\ frame' = [frame EXCEPT ![w] = f]
    BY <1>4, <1>0, <2>1 DEF ReadDependencies, Frames, WorkerPCs, Goto, pc1
  <2>4. FrameOK(w, f, produced)
    BY <1>0, <2>0, <2>1, <2>2 DEF FrameOK, WorkerFrameOK, WorkerPCs, Frames
  <2>5. QED  BY <1>0, <1>4, <1>q, <2>3, <2>4, ReadOnlyStep DEF ReadDependencies, dbVars
<1>5. CASE DeferCommit(w)
  <2> DEFINE n == Node(w)
             rw == [st |-> "queued", mt |-> f0.map[n].mt \cup {"deferred"}]
             f == [f0 EXCEPT !.pc = "consume", !.map = EmptyMap]
  <2>0. n \in Nodes /\ f0.map[n] \in Rows
    BY <1>0, <1>5, FrameFacts DEF DeferCommit, At, Node, WorkerFrameOK
  <2>1. rw \in Rows /\ Grounded(rw.st, n, produced)
    BY <2>0 DEF Rows, TaskStates, Facts, Grounded, Working
  <2>2. f \in Frames /\ frame' = [frame EXCEPT ![w] = f] /\ row' = [row EXCEPT ![n] = rw]
    BY <1>5, <1>0, EmptyMapType DEF DeferCommit, Frames, WorkerPCs
  <2>3. FrameOK(w, f, produced)
    BY <1>0, <2>0, EmptyMapType DEF FrameOK, WorkerFrameOK, WorkerPCs, Frames, Node
  <2>4. QED  BY <1>0, <1>5, <1>q, <2>0, <2>1, <2>2, <2>3, WriteStep DEF DeferCommit
<1>6. CASE ClaimCommit(w)
  <2> DEFINE n == Node(w)
             rw == [st |-> "claimed", mt |-> f0.map[n].mt]
             f == [f0 EXCEPT !.pc = "start"]
  <2>0. n \in Nodes /\ f0.map[n] \in Rows /\ Deps[n] \subseteq produced
    BY <1>0, <1>6, FrameFacts DEF ClaimCommit, At, Node, WorkerFrameOK
  <2>1. rw \in Rows /\ Grounded(rw.st, n, produced)
    BY <2>0 DEF Rows, TaskStates, Facts, Grounded, Working
  <2>2. f \in Frames /\ frame' = [frame EXCEPT ![w] = f] /\ row' = [row EXCEPT ![n] = rw]
    BY <1>6, <1>0 DEF ClaimCommit, Frames, WorkerPCs, Goto
  <2>3. FrameOK(w, f, produced)
    BY <1>0, <1>6, <2>0 DEF ClaimCommit, At, FrameOK, WorkerFrameOK, WorkerPCs, Frames, Node
  <2>4. QED  BY <1>0, <1>6, <1>q, <2>0, <2>1, <2>2, <2>3, WriteStep DEF ClaimCommit
<1>7. CASE StartExecution(w)
  <2> DEFINE n == Node(w)
             rw == [st |-> "running", mt |-> f0.map[n].mt]
             f == [f0 EXCEPT !.pc = "run", !.map = EmptyMap]
  <2>0. n \in Nodes /\ f0.map[n] \in Rows /\ Deps[n] \subseteq produced
    BY <1>0, <1>7, FrameFacts DEF StartExecution, At, Node, WorkerFrameOK
  <2>1. rw \in Rows /\ Grounded(rw.st, n, produced)
    BY <2>0 DEF Rows, TaskStates, Facts, Grounded, Working
  <2>2. f \in Frames /\ frame' = [frame EXCEPT ![w] = f] /\ row' = [row EXCEPT ![n] = rw]
    BY <1>7, <1>0, EmptyMapType DEF StartExecution, Frames, WorkerPCs
  <2>3. FrameOK(w, f, produced)
    BY <1>0, <2>0, EmptyMapType DEF FrameOK, WorkerFrameOK, WorkerPCs, Frames, Node
  <2>4. QED  BY <1>0, <1>7, <1>q, <2>0, <2>1, <2>2, <2>3, WriteStep DEF StartExecution
<1>8. CASE ConsumeDelivery(w)
  <2>0. Node(w) \in Nodes  BY <1>0, <1>8 DEF ConsumeDelivery, At, Node, WorkerFrameOK
  <2>1. QueueOK'  BY <1>0, <1>8, <2>0 DEF ConsumeDelivery, Consume, QueueOK, Q!Finish, Q!Move, queueVars
  <2>2. QED  BY <1>0, <1>8, <2>1, IdleOK, ReadOnlyStep DEF ConsumeDelivery, Done, dbVars
<1>9. CASE BuryDelivery(w)
  <2>0. Node(w) \in Nodes  BY <1>0, <1>9 DEF BuryDelivery, At, Node, WorkerFrameOK
  <2>1. QueueOK'  BY <1>0, <1>9, <2>0 DEF BuryDelivery, QueueOK, Q!DeadLetter, Q!Move, queueVars
  <2>2. QED  BY <1>0, <1>9, <2>1, IdleOK, ReadOnlyStep DEF BuryDelivery, Done, dbVars
<1>10. QED  BY <1>1, <1>2, <1>3, <1>4, <1>5, <1>6, <1>7, <1>8, <1>9

-----------------------------------------------------------------------------
\* Where a settling session goes on is in order again.
LEMMA AfterSettleOK ==
    ASSUME GraphAssumption, NEW p \in Actors, frame[p] \in Frames, NEW P,
           NEW new \in [Nodes -> Rows], NEW verdict \in MissionStates,
           \A m \in Nodes : Grounded(new[m].st, m, P),
           p \in Workers => frame[p].node \in Nodes
    PROVE  /\ AfterSettle(p, new, verdict) \in Frames
           /\ FrameOK(p, AfterSettle(p, new, verdict), P)
<1>0. new \in Maps /\ DOMAIN new = Nodes  BY MapIntro
<1>i. Idle \in Frames /\ FrameOK(p, Idle, P)  BY IdleOK
<1>1. CASE p = Operator
  <2>0. p \notin Workers  BY <1>1 DEF GraphAssumption
  <2>1. CASE frame[p].pc = "commit"
    BY <1>1, <2>1, <1>i DEF AfterSettle
  <2>2. CASE frame[p].pc # "commit"
    <3> DEFINE t == frame[p].todo \ {SweepNext}
               f == [frame[p] EXCEPT !.pc = "sweep", !.map = new, !.ms = verdict, !.todo = t]
    <3>1. AfterSettle(p, new, verdict) = f  BY <1>1, <2>2 DEF AfterSettle
    <3>2. t \in SUBSET Nodes  BY DEF Frames
    <3> HIDE DEF t
    <3>3. f \in Frames /\ f.pc = "sweep" /\ f.map = new
      BY <1>0, <3>2 DEF Frames, OperatorPCs
    <3>4. FrameOK(p, f, P)
      BY <1>0, <2>0, <3>3 DEF FrameOK, OperatorFrameOK, OperatorPCs
    <3>5. QED  BY <3>1, <3>3, <3>4
  <2>3. QED  BY <2>1, <2>2
<1>2. CASE p # Operator
  <2> DEFINE pc1 == IF frame[p].out = "completed" THEN "consume" ELSE "bury"
             f == [Idle EXCEPT !.node = frame[p].node, !.pc = pc1]
  <2>0. p \in Workers  BY <1>2 DEF Actors
  <2>1. AfterSettle(p, new, verdict) = f  BY <1>2 DEF AfterSettle
  <2>2. pc1 \in {"consume", "bury"}  OBVIOUS
  <2> HIDE DEF pc1
  <2>3. f \in Frames /\ f.pc = pc1 /\ f.node = frame[p].node /\ DOMAIN f.map = {}
    BY <1>i, <2>0, <2>2, IdleType DEF Frames, WorkerPCs
  <2> HIDE DEF f
  <2>4. FrameOK(p, f, P)
    BY <1>2, <2>0, <2>2, <2>3 DEF FrameOK, WorkerFrameOK, WorkerPCs
  <2>5. QED  BY <2>1, <2>3, <2>4
<1>3. QED  BY <1>1, <1>2

\* The whole step that ends a report, a cancel_task or one turn of cancel_mission.
LEMMA SettleKeeps ==
    ASSUME GraphAssumption, GraphInv, UNCHANGED pub, NEW p \in Actors, NEW n \in Nodes,
           NEW out \in {"completed", "failed", "requested", "cancelled"},
           NEW old \in [Nodes -> Rows], NEW ms \in MissionStates,
           \A m \in Nodes : Grounded(old[m].st, m, produced),
           out = "completed" => Deps[n] \subseteq produced,
           p \in Workers => frame[p].node \in Nodes,
           Settle(p, n, out, old, ms), UNCHANGED <<queueVars, ops>>
    PROVE  GraphInv'
<1>1. Settled(p)  BY SettleStep
<1>2. PICK new \in [Nodes -> Rows], verdict \in MissionStates :
           /\ \A m \in Nodes : Grounded(new[m].st, m, produced')
           /\ frame' = [frame EXCEPT ![p] = AfterSettle(p, new, verdict)]
  BY <1>1 DEF Settled
<1>3. frame[p] \in Frames  BY FrameFacts
<1>4. AfterSettle(p, new, verdict) \in Frames /\ FrameOK(p, AfterSettle(p, new, verdict), produced')
  BY <1>2, <1>3, AfterSettleOK
<1>5. frame' \in [Actors -> Frames] /\ FramesOK'  BY <1>1, <1>2, <1>4, FrameStep DEF Settled
<1>6. QED  BY <1>1, <1>5 DEF GraphInv, TypeOK, queueVars, Settled

\* The rollup of a report or of cancel_task.
LEMMA RollupSteps ==
    ASSUME GraphAssumption, GraphInv, UNCHANGED pub, NEW p \in Actors, RollupRead(p) \/ RollupCommit(p)
    PROVE  GraphInv'
<1> DEFINE f0 == frame[p]
<1>0. /\ QueueOK /\ f0 \in Frames /\ FrameOK(p, f0, produced)
      /\ f0.map \in Maps /\ DOMAIN f0.map \subseteq Nodes
      /\ frame \in [Actors -> Frames] /\ ops \subseteq Ops
      /\ row \in [Nodes -> Rows] /\ \A n \in Nodes : Grounded(row[n].st, n, produced)
      /\ p \in Workers => WorkerFrameOK(f0, produced)
      /\ p \notin Workers => p = Operator /\ OperatorFrameOK(f0)
  BY FrameFacts DEF Actors, FrameOK, GraphInv, TypeOK, QueueOK, RowsGrounded
<1>1. CASE RollupRead(p)
  <2> DEFINE mp == Loaded(f0.map, Nodes)
             f == [f0 EXCEPT !.pc = "commit", !.map = mp]
  <2>0. f0.pc = "rollup"  BY <1>1 DEF RollupRead, At
  <2>1. /\ mp \in Maps /\ DOMAIN mp = Nodes \cup DOMAIN f0.map
        /\ \A n \in Nodes \cup DOMAIN f0.map :
             mp[n] = IF n \in DOMAIN f0.map THEN f0.map[n] ELSE row[n]
    BY <1>0, LoadedType
  <2>2. DOMAIN mp = Nodes /\ \A n \in DOMAIN mp : Grounded(mp[n].st, n, produced)
    BY <1>0, <2>1 DEF FrameOK
  <2> HIDE DEF mp
  <2>3. f \in Frames /\ frame' = [frame EXCEPT ![p] = f]
    BY <1>0, <1>1, <2>1 DEF RollupRead, Frames, WorkerPCs, mp
  <2>4. f.pc = "commit" /\ f.map = mp /\ f.node = f0.node /\ f.out = f0.out
    BY <1>0 DEF Frames
  <2> HIDE DEF f
  <2>5. p \in Workers => WorkerFrameOK(f, produced)
    BY <1>0, <2>0, <2>1, <2>2, <2>4 DEF WorkerFrameOK, WorkerPCs
  <2>6. p = Operator => OperatorFrameOK(f)
    BY <1>0, <2>0, <2>2, <2>4 DEF FrameOK, OperatorFrameOK, OperatorPCs
  <2>7. FrameOK(p, f, produced)
    BY <2>2, <2>4, <2>5, <2>6 DEF FrameOK
  <2>8. UNCHANGED <<row, mission, outbox, produced>> /\ ops' \subseteq Ops /\ QueueOK'
    BY <1>0, <1>1 DEF RollupRead, dbVars, queueVars, QueueOK
  <2>9. QED  BY <2>3, <2>7, <2>8, ReadOnlyStep
<1>2. CASE RollupCommit(p)
  <2>0. /\ f0.pc = "commit" /\ DOMAIN f0.map = Nodes
        /\ Settle(p, f0.node, f0.out, f0.map, f0.ms) /\ UNCHANGED <<queueVars, ops>>
    BY <1>0, <1>2 DEF RollupCommit, At, Node, FrameOK
  <2>1. f0.map \in [Nodes -> Rows] /\ f0.ms \in MissionStates
        /\ \A m \in Nodes : Grounded(f0.map[m].st, m, produced)
    <3>1. f0.map \in [DOMAIN f0.map -> Rows]  BY <1>0, MapElim
    <3>2. QED  BY <1>0, <2>0, <3>1 DEF FrameOK, Frames
  <2>2. /\ f0.node \in Nodes
        /\ f0.out \in {"completed", "failed", "requested", "cancelled"}
        /\ f0.out = "completed" => Deps[f0.node] \subseteq produced
    <3>1. CASE p \in Workers
      BY <1>0, <2>0, <2>1, <3>1 DEF WorkerFrameOK, Grounded, Working
    <3>2. CASE p \notin Workers
      BY <1>0, <2>0, <3>2 DEF OperatorFrameOK
    <3>3. QED  BY <3>1, <3>2
  <2>3. QED  BY <2>0, <2>1, <2>2, SettleKeeps
<1>3. QED  BY <1>1, <1>2

\* The other steps of a report.
LEMMA ReportSteps ==
    ASSUME GraphAssumption, GraphInv, UNCHANGED pub, NEW w \in Workers,
           \/ BeginReport(w, "completed") \/ BeginReport(w, "failed")
           \/ ReportRefused(w) \/ BlockCompletionFailure(w)
    PROVE  GraphInv'
<1> DEFINE f0 == frame[w]
<1>0. /\ w \in Actors /\ QueueOK /\ f0 \in Frames /\ FrameOK(w, f0, produced)
      /\ WorkerFrameOK(f0, produced) /\ f0.map \in Maps
      /\ frame \in [Actors -> Frames] /\ ops \subseteq Ops /\ w # Operator
      /\ row \in [Nodes -> Rows] /\ mission \in MissionStates
      /\ \A n \in Nodes : Grounded(row[n].st, n, produced)
  BY FrameFacts DEF Actors, FrameOK, GraphInv, TypeOK, QueueOK, GraphAssumption, RowsGrounded
<1>q. UNCHANGED queueVars => QueueOK'  BY <1>0 DEF QueueOK, queueVars
<1>1. ASSUME NEW out \in {"completed", "failed"}, BeginReport(w, out) PROVE GraphInv'
  <2> DEFINE n == Node(w)
             mp == Loaded(EmptyMap, {n})
             f == [f0 EXCEPT !.pc = "rollup", !.out = out, !.map = mp, !.ms = mission]
  <2>0. n \in Nodes /\ n = f0.node /\ row[n].st = "running" /\ QueueOK'
        /\ UNCHANGED <<row, mission, outbox, produced>> /\ ops' \subseteq Ops
    BY <1>0, <1>1, <1>q DEF BeginReport, At, Node, WorkerFrameOK, dbVars
  <2>1. mp \in Maps /\ DOMAIN mp = {n} /\ mp[n] = row[n]  BY <1>0, <2>0, LoadOne
  <2> HIDE DEF mp, n
  <2>2. f \in Frames /\ frame' = [frame EXCEPT ![w] = f]
    BY <1>0, <1>1, <2>1 DEF BeginReport, Frames, WorkerPCs, mp, n
  <2>3. f.pc = "rollup" /\ f.out = out /\ f.map = mp /\ f.node = n
    BY <1>0, <2>0 DEF Frames
  <2> HIDE DEF f
  <2>4. Grounded(mp[n].st, n, produced)  BY <1>0, <2>0, <2>1
  <2>5. FrameOK(w, f, produced)
    BY <1>0, <2>0, <2>1, <2>3, <2>4 DEF FrameOK, WorkerFrameOK, WorkerPCs
  <2>6. QED  BY <1>0, <2>0, <2>2, <2>5, ReadOnlyStep
<1>2. CASE ReportRefused(w)
  BY <1>0, <1>2, <1>q, IdleOK, ReadOnlyStep DEF ReportRefused, Done, dbVars
<1>3. CASE BlockCompletionFailure(w)
  <2> DEFINE n == Node(w)
             rw == [row[n] EXCEPT !.st = "blocked"]
             f == [f0 EXCEPT !.pc = "consume"]
  <2>0. n \in Nodes /\ n = f0.node /\ row' = [row EXCEPT ![n] = rw]
    BY <1>0, <1>3 DEF BlockCompletionFailure, At, Node, WorkerFrameOK
  <2>1. rw \in Rows /\ Grounded(rw.st, n, produced)
    BY <1>0, <2>0 DEF Rows, TaskStates, Grounded, Working
  <2>2. f \in Frames /\ frame' = [frame EXCEPT ![w] = f]
    BY <1>0, <1>3 DEF BlockCompletionFailure, Goto, Frames, WorkerPCs
  <2>3. FrameOK(w, f, produced)
    BY <1>0, <2>0 DEF FrameOK, WorkerFrameOK, WorkerPCs, Frames
  <2>4. QED  BY <1>0, <1>3, <1>q, <2>0, <2>1, <2>2, <2>3, WriteStep DEF BlockCompletionFailure
<1>4. QED  BY <1>1, <1>2, <1>3

-----------------------------------------------------------------------------
\* cancel_task, cancel_mission, retry_task and the deadlock of the two.
LEMMA OperatorSteps ==
    ASSUME GraphAssumption, GraphInv, UNCHANGED pub,
           \/ \E n \in Nodes : CancelRead(n) \/ RetryTask(n)
           \/ \E w \in Workers : Deadlock(w)
           \/ SweepRead \/ CancelFlush \/ SweepTask \/ SweepEnd
    PROVE  GraphInv'
<1> DEFINE p == Operator
           f0 == frame[Operator]
<1>0. /\ p \in Actors /\ p \notin Workers /\ QueueOK /\ f0 \in Frames
      /\ FrameOK(p, f0, produced) /\ OperatorFrameOK(f0) /\ f0.map \in Maps
      /\ frame \in [Actors -> Frames] /\ ops \subseteq Ops
      /\ row \in [Nodes -> Rows] /\ mission \in MissionStates
      /\ \A n \in Nodes : Grounded(row[n].st, n, produced)
  <2>1. p \in Actors  BY DEF Actors
  <2>2. QED  BY <2>1, FrameFacts DEF FrameOK, GraphInv, TypeOK, QueueOK, GraphAssumption, RowsGrounded
<1>q. UNCHANGED queueVars => QueueOK'  BY <1>0 DEF QueueOK, queueVars
<1>1. ASSUME NEW n \in Nodes, CancelRead(n) PROVE GraphInv'
  <2> DEFINE mp == Loaded(EmptyMap, {n})
             out == CancelOutcome(row[n].st)
             f == [Idle EXCEPT !.pc = "cancel", !.node = n, !.out = out, !.map = mp]
  <2>1. mp \in Maps /\ DOMAIN mp = {n} /\ mp[n] = row[n]  BY <1>0, LoadOne
  <2>2. out \in {"requested", "cancelled"}  BY DEF CancelOutcome
  <2>3. frame' = [frame EXCEPT ![p] = f]  BY <1>1 DEF CancelRead
  <2> HIDE DEF mp, out
  <2>4. f \in Frames /\ f.pc = "cancel" /\ f.node = n /\ f.out = out /\ f.map = mp
    BY <2>1, <2>2, IdleType DEF Frames, OperatorPCs
  <2> HIDE DEF f
  <2>5. FrameOK(p, f, produced)
    BY <1>0, <2>1, <2>2, <2>4 DEF FrameOK, OperatorFrameOK, OperatorPCs
  <2>6. UNCHANGED <<row, mission, outbox, produced>> /\ ops' \subseteq Ops /\ QueueOK'
    BY <1>0, <1>1, <1>q DEF CancelRead, Spend, dbVars
  <2>7. QED  BY <1>0, <2>3, <2>4, <2>5, <2>6, ReadOnlyStep
<1>2. ASSUME NEW n \in Nodes, RetryTask(n) PROVE GraphInv'
  <2> DEFINE rw == [st |-> "queued", mt |-> row[n].mt \ {"dep_failed"}]
  <2>1. rw \in Rows /\ Grounded(rw.st, n, produced) /\ row' = [row EXCEPT ![n] = rw]
    BY <1>0, <1>2 DEF RetryTask, Rows, TaskStates, Grounded, Working
  <2>2. row' \in [Nodes -> Rows] /\ RowsGrounded' /\ UNCHANGED <<produced, frame>>
    BY <1>0, <1>2, <2>1 DEF RetryTask, RowsGrounded
  <2>3. mission' \in MissionStates /\ ops' \subseteq Ops /\ QueueOK'
    BY <1>0, <1>2, <1>q DEF RetryTask, Spend, MissionStates
  <2>4. outbox' \in [Nodes -> [st : {"pending", "published", "cancelled", "cleaned"}, gen : 0..MaxGen]]
    <3>1. outbox \in [Nodes -> [st : {"pending", "published", "cancelled", "cleaned"}, gen : 0..MaxGen]]
      BY DEF GraphInv, TypeOK
    <3>2. outbox' = [outbox EXCEPT ![n] = [st |-> "pending", gen |-> outbox[n].gen + 1]]
          /\ outbox'[n].gen <= MaxGen
      BY <1>2 DEF RetryTask, Retried
    <3>3. outbox[n].gen + 1 \in 0..MaxGen
      BY <3>1, <3>2 DEF GraphAssumption
    <3>4. QED  BY <3>1, <3>2, <3>3
  <2>5. FramesOK'  BY <2>2 DEF GraphInv, FramesOK
  <2>6. QED  BY <1>0, <2>2, <2>3, <2>4, <2>5 DEF GraphInv, TypeOK, QueueOK
<1>3. ASSUME NEW w \in Workers, Deadlock(w) PROVE GraphInv'
  <2>0. UNCHANGED <<row, mission, outbox, produced>> /\ ops' \subseteq Ops /\ QueueOK'
    BY <1>0, <1>3, <1>q DEF Deadlock, dbVars
  <2>1. CASE Done(p)
    BY <1>0, <2>0, <2>1, IdleOK, ReadOnlyStep DEF Done
  <2>2. CASE frame' = [frame EXCEPT ![w] = [Idle EXCEPT !.pc = "run", !.node = Node(w), !.out = "error"]]
    <3> DEFINE f == [Idle EXCEPT !.pc = "run", !.node = Node(w), !.out = "error"]
    <3>1. w \in Actors /\ w # Operator  BY DEF Actors, GraphAssumption
    <3>2. FrameOK(w, frame[w], produced)  BY <3>1, FrameFacts
    <3>3. Node(w) \in Nodes
      BY <1>3, <3>2 DEF Deadlock, At, Node, FrameOK, WorkerFrameOK
    <3>4. f \in Frames /\ f.pc = "run" /\ f.node = Node(w) /\ DOMAIN f.map = {}
      BY <3>3, IdleType DEF Frames, WorkerPCs
    <3> HIDE DEF f
    <3>5. FrameOK(w, f, produced)
      BY <3>1, <3>3, <3>4 DEF FrameOK, WorkerFrameOK, WorkerPCs
    <3>6. frame' = [frame EXCEPT ![w] = f]  BY <2>2 DEF f
    <3>7. QED  BY <2>0, <3>1, <3>4, <3>5, <3>6, ReadOnlyStep
  <2>3. QED  BY <1>3, <2>1, <2>2 DEF Deadlock
<1>4. CASE SweepRead
  <2> DEFINE f == [Idle EXCEPT !.pc = "sweep_locked", !.map = row, !.ms = mission, !.todo = Nodes]
  <2>1. row \in Maps /\ DOMAIN row = Nodes  BY <1>0, MapIntro
  <2>2. f \in Frames /\ f.pc = "sweep_locked" /\ f.map = row
    BY <1>0, <2>1, IdleType DEF Frames, OperatorPCs
  <2>3. frame' = [frame EXCEPT ![p] = f]  BY <1>4 DEF SweepRead
  <2> HIDE DEF f
  <2>4. FrameOK(p, f, produced)
    BY <1>0, <2>1, <2>2 DEF FrameOK, OperatorFrameOK, OperatorPCs
  <2>5. UNCHANGED <<row, mission, outbox, produced>> /\ ops' \subseteq Ops /\ QueueOK'
    BY <1>0, <1>4, <1>q DEF SweepRead, Spend, dbVars
  <2>6. QED  BY <1>0, <2>2, <2>3, <2>4, <2>5, ReadOnlyStep
<1>5. CASE CancelFlush
  <2> DEFINE f == [f0 EXCEPT !.pc = "rollup", !.ms = mission]
  <2>0. f0.pc = "cancel"  BY <1>5 DEF CancelFlush, At
  <2>1. f \in Frames /\ frame' = [frame EXCEPT ![p] = f]
    BY <1>0, <1>5 DEF CancelFlush, Frames, OperatorPCs
  <2>2. f.pc = "rollup" /\ f.map = f0.map /\ f.node = f0.node /\ f.out = f0.out
    BY <1>0 DEF Frames
  <2> HIDE DEF f
  <2>3. FrameOK(p, f, produced)
    BY <1>0, <2>0, <2>2 DEF FrameOK, OperatorFrameOK, OperatorPCs
  <2>4. UNCHANGED <<row, mission, outbox, produced>> /\ ops' \subseteq Ops /\ QueueOK'
    BY <1>0, <1>5, <1>q DEF CancelFlush, dbVars
  <2>5. QED  BY <1>0, <2>1, <2>3, <2>4, ReadOnlyStep
<1>6. CASE SweepTask
  <2> DEFINE n == SweepNext
             out == CancelOutcome(f0.map[n].st)
  <2>0. SweepTodo # {} /\ DOMAIN f0.map = Nodes
        /\ Settle(p, n, out, f0.map, f0.ms) /\ UNCHANGED <<queueVars, ops>>
    BY <1>0, <1>6 DEF SweepTask, Sweeping, FrameOK
  <2>1. n \in SweepTodo  BY <2>0 DEF SweepNext
  <2>2. n \in Nodes  BY <1>0, <2>1 DEF SweepTodo, Frames
  <2>3. out \in {"completed", "failed", "requested", "cancelled"} /\ out # "completed"
    BY DEF CancelOutcome
  <2>4. f0.map \in [DOMAIN f0.map -> Rows]  BY <1>0, MapElim
  <2>5. f0.map \in [Nodes -> Rows] /\ f0.ms \in MissionStates
        /\ \A m \in Nodes : Grounded(f0.map[m].st, m, produced)
    BY <1>0, <2>0, <2>4 DEF FrameOK, Frames
  <2> HIDE DEF n, out
  <2>6. /\ out = "completed" => Deps[n] \subseteq produced
        /\ p \in Workers => frame[p].node \in Nodes
    BY <1>0, <2>3
  <2>7. p \in Actors  BY <1>0
  <2>8. out \in {"completed", "failed", "requested", "cancelled"}  BY <2>3
  <2> HIDE DEF p
  <2>9. QED  BY <2>0, <2>2, <2>5, <2>6, <2>7, <2>8, SettleKeeps
<1>7. CASE SweepEnd
  <2>1. mission' \in MissionStates /\ ops' \subseteq Ops /\ QueueOK' /\ UNCHANGED <<row, outbox, produced>>
    BY <1>0, <1>7, <1>q DEF SweepEnd, MissionStates
  <2>2. frame' \in [Actors -> Frames] /\ FramesOK'
    BY <1>0, <1>7, <2>1, IdleOK, FrameStep DEF SweepEnd, Done
  <2>3. QED  BY <2>1, <2>2 DEF GraphInv, TypeOK, QueueOK, RowsGrounded
<1>8. QED  BY <1>1, <1>2, <1>3, <1>4, <1>5, <1>6, <1>7

\* A lost worker and its recovery.
LEMMA LoseStep ==
    ASSUME GraphAssumption, GraphInv, UNCHANGED pub, NEW w \in Workers, LoseWorker(w)
    PROVE  GraphInv'
<1> DEFINE n == Node(w)
<1>0. /\ w \in Actors /\ QueueOK /\ FrameOK(w, frame[w], produced) /\ row \in [Nodes -> Rows]
      /\ ops' \subseteq Ops /\ UNCHANGED <<mission, outbox, produced>>
      /\ frame' = [frame EXCEPT ![w] = Idle]
  BY FrameFacts DEF Actors, GraphInv, TypeOK, QueueOK, LoseWorker, Spend, Done
<1>1. n \in Nodes  BY <1>0 DEF LoseWorker, At, Node, FrameOK, WorkerFrameOK
<1>2. PICK st \in {"queued", "dead_lettered"} :
        (Q!Requeue(n, w) \/ Q!DeadLetter(n, w)) /\ row' = [row EXCEPT ![n] = [@ EXCEPT !.st = st]]
  BY <1>0, <1>1 DEF LoseWorker, Rows
<1> DEFINE rw == [row[n] EXCEPT !.st = st]
<1>3. rw \in Rows /\ Grounded(rw.st, n, produced) /\ row' = [row EXCEPT ![n] = rw]
  BY <1>0, <1>1, <1>2 DEF Rows, TaskStates, Grounded, Working
<1>4. QueueOK'
  BY <1>0, <1>1, <1>2 DEF QueueOK, Q!Requeue, Q!DeadLetter, Q!Move
<1>5. Idle \in Frames /\ FrameOK(w, Idle, produced)  BY <1>0, IdleOK
<1> HIDE DEF rw, n
<1>6. QED  BY <1>0, <1>1, <1>3, <1>4, <1>5, WriteStep

\* Only publishers change what publishers hold.
LEMMA OthersKeepCopies ==
    ASSUME \/ \E w \in Workers : WorkerStep(w) \/ LoseWorker(w) \/ Deadlock(w)
           \/ OperatorStep \/ OperatorCall \/ \E n \in Nodes : Background(n)
    PROVE  UNCHANGED pub
<1>1. ASSUME NEW w \in Workers, WorkerStep(w) PROVE UNCHANGED pub
  BY <1>1 DEF WorkerStep, ClaimNext, ReadTask, LockTask, ReadDependencies, DeferCommit, ClaimCommit,
       StartExecution, ConsumeDelivery, BuryDelivery, BeginReport, ReportRefused,
       BlockCompletionFailure, RollupRead, RollupCommit
<1>2. ASSUME NEW w \in Workers, LoseWorker(w) \/ Deadlock(w) PROVE UNCHANGED pub
  BY <1>2 DEF LoseWorker, Deadlock
<1>3. CASE OperatorStep
  BY <1>3 DEF OperatorStep, RollupRead, RollupCommit, CancelFlush, SweepTask, SweepEnd
<1>4. CASE OperatorCall  BY <1>4 DEF OperatorCall, SweepRead, CancelRead, RetryTask
<1>5. ASSUME NEW n \in Nodes, Background(n) PROVE UNCHANGED pub
  BY <1>5 DEF Background, ReconcileCancelled, ReconcileProcessing
<1>6. QED  BY <1>1, <1>2, <1>3, <1>4, <1>5

\* The maintainer touches the queue and the outbox only.
LEMMA BackgroundSteps ==
    ASSUME GraphAssumption, GraphInv, UNCHANGED pub, NEW n \in Nodes, Background(n)
    PROVE  GraphInv'
<1> DEFINE Boxes == [Nodes -> [st : {"pending", "published", "cancelled", "cleaned"}, gen : 0..MaxGen]]
<1>0. QueueOK /\ outbox \in Boxes  BY DEF GraphInv, TypeOK, QueueOK
<1>1. outbox' \in Boxes /\ UNCHANGED <<row, mission, produced, frame, ops>>
  BY <1>0 DEF Background, ReconcileCancelled, ReconcileProcessing, dbVars
<1>2. QueueOK'
  <2>1. CASE ReconcileCancelled(n)
    BY <1>0, <2>1 DEF ReconcileCancelled, QueueOK, queueVars, Q!Withdraw, Q!Move
  <2>2. CASE ReconcileProcessing(n)
    BY <1>0, <2>2 DEF ReconcileProcessing, QueueOK, Q!Finish, Q!Move
  <2>3. QED  BY <2>1, <2>2 DEF Background
<1>3. FramesOK' /\ RowsGrounded'  BY <1>1 DEF GraphInv, FramesOK, RowsGrounded
<1>4. QED  BY <1>1, <1>2, <1>3 DEF GraphInv, TypeOK, QueueOK

\* A publisher touches its copy, the queue and the dispatch it acknowledges.
LEMMA PublisherKeeps ==
    ASSUME NEW x \in Publishers, PublisherStep(x)
    PROVE  UNCHANGED <<row, mission, produced, frame, ops>>
BY DEF PublisherStep, ReadDispatch, PublishDispatch, RefuseDispatch, RecordDispatch, dbVars

\* It hands the queue the node of its copy, if it does anything to the queue.
LEMMA PublisherQueue ==
    ASSUME GraphInv, NEW x \in Publishers, PublisherStep(x), ~UNCHANGED queueVars
    PROVE  \E n \in Nodes : /\ live[n] # "processing"
                            /\ Q!Revive(n) \/ \E g \in 0..MaxGen : Q!PublishOnce(n, <<n, g>>)
<1>1. PublishDispatch(x)
  BY DEF PublisherStep, ReadDispatch, RefuseDispatch, RecordDispatch
<1>2. pub[x].node \in Nodes /\ pub[x].gen \in 0..MaxGen
  BY <1>1 DEF PublishDispatch, GraphInv, TypeOK
<1>3. /\ live[pub[x].node] # "processing"
      /\ \/ Q!Revive(pub[x].node)
         \/ Q!PublishOnce(pub[x].node, <<pub[x].node, pub[x].gen>>)
  BY <1>1 DEF PublishDispatch, PublishEffect, Q!Revive
<1>4. QED  BY <1>2, <1>3

\* The invariant holds after a step of a publisher.
LEMMA PublisherSteps ==
    ASSUME GraphAssumption, GraphInv, NEW x \in Publishers, PublisherStep(x)
    PROVE  GraphInv'
<1> DEFINE Boxes == [Nodes -> [st : {"pending", "published", "cancelled", "cleaned"}, gen : 0..MaxGen]]
<1>0. QueueOK /\ PubOK /\ outbox \in Boxes  BY DEF GraphInv, TypeOK, QueueOK, PubOK
<1>1. UNCHANGED <<row, mission, produced, frame, ops>>  BY PublisherKeeps
<1>2. QueueOK'
  <2>1. CASE UNCHANGED queueVars  BY <1>0, <2>1 DEF QueueOK, queueVars
  <2>2. ASSUME NEW n \in Nodes, Q!Revive(n) PROVE QueueOK'
    BY <1>0, <2>2 DEF QueueOK, Q!Revive, Q!Move
  <2>3. ASSUME NEW n \in Nodes, NEW g \in 0..MaxGen, Q!PublishOnce(n, <<n, g>>) PROVE QueueOK'
    BY <1>0, <2>3 DEF QueueOK, Q!PublishOnce, Q!Move
  <2>4. QED  BY <2>1, <2>2, <2>3, PublisherQueue
<1>3. outbox' \in Boxes /\ PubOK'
  <2>1. ASSUME NEW n \in Nodes, ReadDispatch(x, n) PROVE outbox' \in Boxes /\ PubOK'
    BY <1>0, <2>1 DEF ReadDispatch, PubOK, dbVars
  <2>2. CASE PublishDispatch(x)
    <3>1. /\ pub[x].node \in Nodes /\ outbox' = outbox
          /\ pub' = [pub EXCEPT ![x] = [pc |-> "sent", node |-> pub[x].node, gen |-> 0]]
      BY <1>0, <2>2 DEF PubOK, PublishDispatch, dbVars
    <3>2. PubOK'  BY <1>0, <3>1, GraphAssumption DEF PubOK
    <3>3. QED  BY <1>0, <3>1, <3>2
  <2>3. CASE RefuseDispatch(x)
    BY <1>0, <2>3 DEF RefuseDispatch, GotoPub, PubOK, dbVars
  <2>4. CASE RecordDispatch(x)
    BY <1>0, <2>4, GraphAssumption DEF RecordDispatch, IdlePublisher, PubOK
  <2>5. QED  BY <2>1, <2>2, <2>3, <2>4 DEF PublisherStep
<1>4. FramesOK' /\ RowsGrounded'  BY <1>1 DEF GraphInv, FramesOK, RowsGrounded
<1>5. QED  BY <1>1, <1>2, <1>3, <1>4 DEF GraphInv, TypeOK, QueueOK, PubOK

\* The invariant holds when the mission is admitted.
LEMMA InitEstablishes == ASSUME GraphAssumption, Init PROVE GraphInv
<1>1. TypeOK
  BY IdleType DEF Init, TypeOK, Q!Init, IdlePublisher, Rows, TaskStates, MissionStates, GraphAssumption
<1>2. RowsGrounded  BY DEF Init, RowsGrounded, Grounded, Working
<1>3. FramesOK  BY IdleOK DEF Init, FramesOK
<1>4. QED  BY <1>1, <1>2, <1>3 DEF GraphInv

-----------------------------------------------------------------------------
\* GraphInv is inductive: no interleaving of claims, reports, stale rollups,
\* cancellations, retries, lost workers and publications breaks it.
THEOREM GraphInvariant == Spec => []GraphInv
<1>1. Init => GraphInv  BY InitEstablishes, GraphAssumption
<1>2. GraphInv /\ [Next]_vars => GraphInv'
  <2> SUFFICES ASSUME GraphInv, [Next]_vars PROVE GraphInv'  OBVIOUS
  <2> USE GraphAssumption
  <2>1. ASSUME NEW w \in Workers, WorkerStep(w) PROVE GraphInv'
    <3>1. w \in Actors  BY DEF Actors
    <3>2. UNCHANGED pub  BY <2>1, OthersKeepCopies
    <3>3. QED  BY <2>1, <3>1, <3>2, ClaimSteps, ReportSteps, RollupSteps DEF WorkerStep
  <2>2. ASSUME NEW w \in Workers, LoseWorker(w) PROVE GraphInv'  BY <2>2, LoseStep, OthersKeepCopies
  <2>3. ASSUME NEW w \in Workers, Deadlock(w) PROVE GraphInv'  BY <2>3, OperatorSteps, OthersKeepCopies
  <2>4. CASE OperatorStep
    <3>1. Operator \in Actors  BY DEF Actors
    <3>2. UNCHANGED pub  BY <2>4, OthersKeepCopies
    <3>3. QED  BY <2>4, <3>1, <3>2, RollupSteps, OperatorSteps DEF OperatorStep
  <2>5. CASE OperatorCall  BY <2>5, OperatorSteps, OthersKeepCopies DEF OperatorCall
  <2>6. ASSUME NEW n \in Nodes, Background(n) PROVE GraphInv'  BY <2>6, BackgroundSteps, OthersKeepCopies
  <2>7. CASE UNCHANGED vars
    BY <2>7 DEF vars, GraphInv, TypeOK, FramesOK, RowsGrounded
  <2>8. ASSUME NEW x \in Publishers, PublisherStep(x) PROVE GraphInv'  BY <2>8, PublisherSteps
  <2>9. QED  BY <2>1, <2>2, <2>3, <2>4, <2>5, <2>6, <2>7, <2>8 DEF Next
<1>3. QED  BY <1>1, <1>2, PTL DEF Spec

\* Rows, dispatches, the queue and every session's copies keep their types.
THEOREM GraphTypeCorrect == Spec => []TypeOK
<1>1. GraphInv => TypeOK  BY DEF GraphInv
<1>2. QED  BY <1>1, GraphInvariant, PTL

\* No task of a mission is ever claimed, run or completed before the results of
\* every task it depends on are committed, for every dependency graph.
THEOREM AlwaysWorksOnResults == Spec => []WorksOnResults
<1>1. GraphInv => WorksOnResults
  BY DEF GraphInv, RowsGrounded, Grounded, Working, WorksOnResults
<1>2. QED  BY <1>1, GraphInvariant, PTL

-----------------------------------------------------------------------------
\* A worker that has a task until its report commits, and one in its report.
Early == {"lock", "siblings", "defer", "keep", "start", "run", "rollup", "commit"}
Reporting == {"rollup", "commit"}

\* A worker in a call owns the payload of its task, whose row is not completed before
\* the worker commits its report, and cannot change while the report is in progress.
Holds(w, f, rw, lv, ow) ==
    /\ f.pc # "idle" => lv[f.node] = "processing" /\ ow[f.node] = w
    /\ f.pc \in Early => rw[f.node].st # "completed"
    /\ f.pc \in Reporting => rw[f.node].st = "running"
    /\ f.pc = "rollup" => DOMAIN f.map = {f.node}

\* All nodes but n are completed.
RestDone(rw, n) == \A m \in Nodes \ {n} : rw[m].st = "completed"

\* What a session f has read, when nothing was cancelled: if it has seen all other nodes
\* completed, they still are.
SeenHolds(f, rw) ==
    /\ \A n \in DOMAIN f.map : f.map[n].st # "cancelled"
    /\ f.pc = "commit" /\ RestDone(f.map, f.node) => RestDone(rw, f.node)

Undisturbed ==
    /\ frame[Operator].pc = "idle"
    /\ \A n \in Nodes : row[n].st # "cancelled"
    /\ \A w \in Workers : SeenHolds(frame[w], row)
    /\ mission = "completed" => \A n \in Nodes : row[n].st = "completed"

\* The inductive invariant of CompletedMissionIsSound, beside GraphInv.
SoundInv ==
    /\ \A w \in Workers : Holds(w, frame[w], row, live, owner)
    /\ "cancel" \notin ops => Undisturbed

-----------------------------------------------------------------------------
\* The queue still says of the other workers' tasks what it said.
Untouched(p) ==
    \A w \in Workers \ {p} : frame[w].pc # "idle" =>
        live'[frame[w].node] = live[frame[w].node] /\ owner'[frame[w].node] = owner[frame[w].node]

\* The frames of the workers after a step of p, which completes no row that another
\* worker works on and changes no row that another worker reports on.
LEMMA OthersHold ==
    ASSUME GraphInv, SoundInv, NEW p \in Actors, NEW f, frame' = [frame EXCEPT ![p] = f],
           \A w \in Workers \ {p} : frame[w].pc \in Early =>
               (row'[frame[w].node].st = "completed" => row[frame[w].node].st = "completed"),
           \A w \in Workers \ {p} : frame[w].pc \in Reporting =>
               row'[frame[w].node].st = row[frame[w].node].st,
           Untouched(p),
           p \in Workers => Holds(p, f, row', live', owner')
    PROVE  \A w \in Workers : Holds(w, frame'[w], row', live', owner')
<1> SUFFICES ASSUME NEW w \in Workers PROVE Holds(w, frame'[w], row', live', owner')
  OBVIOUS
<1>1. frame \in [Actors -> Frames] /\ w \in Actors  BY DEF GraphInv, TypeOK, Actors
<1>2. CASE w = p  BY <1>1, <1>2
<1>3. CASE w # p
  <2>1. frame'[w] = frame[w] /\ Holds(w, frame[w], row, live, owner)
    BY <1>1, <1>3 DEF SoundInv
  <2>2. QED  BY <1>3, <2>1 DEF Holds, Untouched
<1>4. QED  BY <1>2, <1>3

\* A step of p that writes no row and not the mission.
LEMMA QuietStep ==
    ASSUME GraphInv, SoundInv, NEW p \in Actors, NEW f, frame' = [frame EXCEPT ![p] = f],
           UNCHANGED <<row, mission>>, ops \subseteq ops', Untouched(p),
           p \in Workers => Holds(p, f, row, live', owner'),
           "cancel" \notin ops' => IF p = Operator THEN f.pc = "idle" ELSE SeenHolds(f, row)
    PROVE  SoundInv'
<1>1. \A w \in Workers : Holds(w, frame'[w], row', live', owner')
  BY OthersHold
<1>2. ASSUME "cancel" \notin ops' PROVE Undisturbed'
  <2>1. Undisturbed  BY <1>2 DEF SoundInv
  <2>2. frame \in [Actors -> Frames] /\ Operator \in Actors /\ Operator \notin Workers /\ Workers \subseteq Actors
    BY GraphAssumption DEF GraphInv, TypeOK, Actors
  <2>3. frame'[Operator].pc = "idle" /\ \A w \in Workers : SeenHolds(frame'[w], row)
    BY <1>2, <2>1, <2>2 DEF Undisturbed
  <2>4. QED  BY <2>1, <2>3 DEF Undisturbed
<1>3. QED  BY <1>1, <1>2 DEF SoundInv

\* A step of p that writes row k, which is not completed, and perhaps blocks or
\* re-admits others.  If nothing was cancelled, no other worker has seen all other
\* nodes completed, and the mission is not completed.
LEMMA WritingStep ==
    ASSUME GraphInv, SoundInv, NEW p \in Actors, NEW f, frame' = [frame EXCEPT ![p] = f],
           NEW k \in Nodes, row[k].st # "completed",
           \A n \in Nodes \ {k} : row'[n].st = "completed" => row[n].st = "completed",
           \A w \in Workers \ {p} : frame[w].pc \in Early /\ frame[w].node = k => row'[k].st # "completed",
           \A w \in Workers \ {p} : frame[w].pc \in Reporting =>
               frame[w].node # k /\ row'[frame[w].node].st = row[frame[w].node].st,
           ops \subseteq ops', Untouched(p),
           p \in Workers => Holds(p, f, row', live', owner'),
           "cancel" \notin ops' =>
             /\ IF p = Operator THEN f.pc = "idle" ELSE SeenHolds(f, row')
             /\ \A n \in Nodes : row'[n].st # "cancelled"
             /\ mission' = "completed" => mission = "completed" \/ \A n \in Nodes : row'[n].st = "completed"
    PROVE  SoundInv'
<1>0. \A w \in Workers : frame[w].pc \in Early => frame[w].node \in Nodes
  BY DEF GraphInv, FramesOK, FrameOK, WorkerFrameOK, Actors, Early
<1>1. \A w \in Workers : Holds(w, frame'[w], row', live', owner')
  BY <1>0, OthersHold
<1>2. ASSUME "cancel" \notin ops' PROVE Undisturbed'
  <2>1. Undisturbed  BY <1>2 DEF SoundInv
  <2>2. frame \in [Actors -> Frames] /\ Operator \in Actors /\ Operator \notin Workers /\ Workers \subseteq Actors
    BY GraphAssumption DEF GraphInv, TypeOK, Actors
  <2>3. mission # "completed"
    BY <2>1 DEF Undisturbed
  <2>4. ASSUME NEW w \in Workers \ {p} PROVE SeenHolds(frame[w], row')
    <3>1. SeenHolds(frame[w], row)
      BY <2>1 DEF Undisturbed
    <3>2. frame[w].pc = "commit" => frame[w].node # k
      BY DEF Reporting
    <3>3. ~(frame[w].pc = "commit" /\ RestDone(frame[w].map, frame[w].node))
      BY <3>1, <3>2 DEF SeenHolds, RestDone
    <3>4. QED  BY <3>1, <3>3 DEF SeenHolds
  <2>5. frame'[Operator].pc = "idle" /\ \A w \in Workers : SeenHolds(frame'[w], row')
    BY <1>2, <2>1, <2>2, <2>4 DEF Undisturbed
  <2>6. QED  BY <1>2, <2>3, <2>5 DEF Undisturbed
<1>3. QED  BY <1>1, <1>2 DEF SoundInv

\* The queue operations that a worker performs on the task it owns, or claims.
LEMMA OwnQueue ==
    ASSUME GraphInv, SoundInv, NEW w \in Workers, NEW n \in Nodes,
           \/ Q!Claim(n, w)
           \/ owner[n] = w /\ live[n] = "processing"
              /\ (Q!Finish(n, w) \/ Q!DeadLetter(n, w) \/ Q!Requeue(n, w))
           \/ UNCHANGED queueVars
    PROVE  Untouched(w)
<1>1. ASSUME NEW v \in Workers \ {w}, frame[v].pc # "idle"
      PROVE  frame[v].node \in Nodes /\ live[frame[v].node] = "processing" /\ owner[frame[v].node] = v
  BY <1>1 DEF SoundInv, Holds, GraphInv, FramesOK, FrameOK, WorkerFrameOK, Actors
<1>2. CASE UNCHANGED queueVars  BY <1>2 DEF Untouched, queueVars
<1>3. CASE ~UNCHANGED queueVars
  <2>1. /\ live[n] = "pending" \/ owner[n] = w
        /\ \A m \in Nodes \ {n} : live'[m] = live[m] /\ owner'[m] = owner[m]
    BY <1>3 DEF Q!Claim, Q!Finish, Q!DeadLetter, Q!Requeue, Q!Move, GraphInv, TypeOK
  <2>2. QED  BY <1>1, <2>1 DEF Untouched
<1>4. QED  BY <1>2, <1>3

\* Two workers in a call have different tasks.
LEMMA OwnersDiffer ==
    ASSUME SoundInv, NEW v \in Workers, NEW w \in Workers, v # w, frame[v].pc # "idle", frame[w].pc # "idle"
    PROVE  frame[v].node # frame[w].node
  BY DEF SoundInv, Holds

\* What a worker's frame and row are before its step.
LEMMA WorkerFacts ==
    ASSUME GraphInv, SoundInv, NEW w \in Workers
    PROVE  /\ w \in Actors /\ w # Operator /\ frame[w] \in Frames
           /\ WorkerFrameOK(frame[w], produced) /\ Holds(w, frame[w], row, live, owner)
           /\ frame[w].pc # "idle" => frame[w].node \in Nodes
           /\ frame[w].map \in Maps
           /\ row \in [Nodes -> Rows]
           /\ "cancel" \notin ops => Undisturbed /\ SeenHolds(frame[w], row)
  BY GraphAssumption, FrameFacts DEF Actors, GraphInv, TypeOK, FrameOK, WorkerFrameOK, SoundInv, Undisturbed

\* A worker returns to idle, its row and the mission unchanged.
LEMMA SoundIdle ==
    ASSUME GraphInv, SoundInv, NEW w \in Workers, Done(w), UNCHANGED <<row, mission, ops>>, Untouched(w)
    PROVE  SoundInv'
<1>1. Holds(w, Idle, row', live', owner') /\ SeenHolds(Idle, row)
  BY IdleType DEF Holds, SeenHolds, Early, Reporting
<1>2. QED  BY <1>1, WorkerFacts, QuietStep DEF Done

\* A worker writes the row of its task, which it neither completes nor cancels.
LEMMA WriteOwnRow ==
    ASSUME GraphInv, SoundInv, NEW w \in Workers, NEW f, NEW rw,
           frame' = [frame EXCEPT ![w] = f], row' = [row EXCEPT ![frame[w].node] = rw],
           frame[w].pc \in Early, UNCHANGED <<mission, ops, queueVars>>,
           rw.st \notin {"completed", "cancelled"},
           f.pc \in {"consume", "start", "run"}, f.node = frame[w].node,
           DOMAIN f.map = {} \/ f.map = frame[w].map
    PROVE  SoundInv'
<1> DEFINE f0 == frame[w]
           n == f0.node
<1>0. /\ w \in Actors /\ w # Operator /\ n \in Nodes /\ row \in [Nodes -> Rows]
      /\ Holds(w, f0, row, live, owner)
      /\ "cancel" \notin ops => Undisturbed /\ SeenHolds(f0, row)
  BY WorkerFacts DEF Early
<1>1. row[n].st # "completed" /\ row'[n].st = rw.st /\ \A m \in Nodes \ {n} : row'[m] = row[m]
  BY <1>0 DEF Holds
<1>2. \A v \in Workers \ {w} : frame[v].pc \in Reporting =>
          frame[v].node # n /\ row'[frame[v].node].st = row[frame[v].node].st
  BY <1>1, OwnersDiffer, WorkerFacts DEF Early, Reporting
<1>3. Holds(w, f, row', live', owner')
  BY <1>0, <1>1 DEF Holds, Early, Reporting, queueVars
<1>4. "cancel" \notin ops => SeenHolds(f, row') /\ \A m \in Nodes : row'[m].st # "cancelled"
  BY <1>0, <1>1 DEF SeenHolds, Undisturbed
<1>5. /\ ops \subseteq ops' /\ Untouched(w) /\ row'[n].st # "completed"
      /\ \A m \in Nodes \ {n} : row'[m].st = "completed" => row[m].st = "completed"
  BY <1>1 DEF Untouched, queueVars
<1>6. "cancel" \notin ops' =>
        /\ IF w = Operator THEN f.pc = "idle" ELSE SeenHolds(f, row')
        /\ \A m \in Nodes : row'[m].st # "cancelled"
        /\ mission' = "completed" => mission = "completed" \/ \A m \in Nodes : row'[m].st = "completed"
  BY <1>0, <1>4
<1> HIDE DEF n, f0
<1>7. QED  BY <1>0, <1>1, <1>2, <1>3, <1>5, <1>6, WritingStep

\* The claim of a task, up to the start of its execution.
LEMMA SoundClaim ==
    ASSUME GraphInv, SoundInv, NEW w \in Workers,
           \/ ClaimNext(w) \/ ReadTask(w) \/ LockTask(w) \/ ReadDependencies(w)
           \/ DeferCommit(w) \/ ClaimCommit(w) \/ StartExecution(w)
           \/ ConsumeDelivery(w) \/ BuryDelivery(w)
    PROVE  SoundInv'
<1> DEFINE f0 == frame[w]
           n == f0.node
<1>0. /\ w \in Actors /\ w # Operator /\ f0 \in Frames
      /\ Holds(w, f0, row, live, owner) /\ (f0.pc # "idle" => n \in Nodes)
      /\ f0.map \in Maps /\ row \in [Nodes -> Rows]
      /\ "cancel" \notin ops => Undisturbed /\ SeenHolds(f0, row)
  BY WorkerFacts
<1>u. UNCHANGED queueVars => Untouched(w)
  BY DEF Untouched, queueVars
<1>1. CASE ClaimNext(w)
  <2>1. PICK m \in Nodes : Q!Claim(m, w) /\ frame' = [frame EXCEPT ![w].pc = "read", ![w].node = m]
    BY <1>1 DEF ClaimNext
  <2> DEFINE f == [f0 EXCEPT !.pc = "read", !.node = m]
  <2>2. f.pc = "read" /\ f.node = m /\ f.map = f0.map /\ frame' = [frame EXCEPT ![w] = f]
    BY <1>0, <2>1 DEF Frames
  <2> HIDE DEF f
  <2>3. live'[m] = "processing" /\ owner'[m] = w
    BY <2>1 DEF Q!Claim, Q!Move, GraphInv, TypeOK
  <2>4. Holds(w, f, row', live', owner') /\ ("cancel" \notin ops => SeenHolds(f, row))
    BY <1>0, <2>2, <2>3 DEF Holds, SeenHolds, Early, Reporting
  <2>5. Untouched(w) /\ UNCHANGED <<row, mission, ops>>
    BY <1>1, <2>1, OwnQueue DEF ClaimNext, dbVars
  <2>6. QED  BY <1>0, <2>2, <2>4, <2>5, QuietStep
<1>2. ASSUME NEW pc \in {"consume", "siblings", "defer", "keep"}, Goto(w, pc), f0.pc # "idle",
             pc # "consume" => f0.pc \in Early,
             UNCHANGED <<dbVars, queueVars, ops>>
      PROVE SoundInv'
  <2> DEFINE f == [f0 EXCEPT !.pc = pc]
  <2>1. f.pc = pc /\ f.node = n /\ f.map = f0.map /\ frame' = [frame EXCEPT ![w] = f]
    BY <1>0, <1>2 DEF Frames, Goto
  <2> HIDE DEF f
  <2>2. Holds(w, f, row', live', owner') /\ ("cancel" \notin ops => SeenHolds(f, row))
    BY <1>0, <1>2, <2>1 DEF Holds, SeenHolds, Early, Reporting, dbVars, queueVars
  <2>3. QED  BY <1>0, <1>2, <1>u, <2>1, <2>2, QuietStep DEF dbVars
<1>3. CASE ReadTask(w)
  <2>1. f0.pc = "read" /\ n \in Nodes /\ UNCHANGED <<dbVars, queueVars, ops>>
    BY <1>0, <1>3 DEF ReadTask, At
  <2>2. CASE Goto(w, "consume")  BY <1>2, <2>1, <2>2
  <2>3. CASE row[n].st = "queued" /\ frame' = [frame EXCEPT ![w].pc = "lock", ![w].map = Loaded(EmptyMap, {n})]
    <3> DEFINE mp == Loaded(EmptyMap, {n})
               f == [f0 EXCEPT !.pc = "lock", !.map = mp]
    <3>1. DOMAIN mp = {n} /\ mp[n] = row[n]
      BY <1>0, <2>1, LoadOne
    <3> HIDE DEF mp
    <3>2. f.pc = "lock" /\ f.node = n /\ f.map = mp
      BY <1>0 DEF Frames
    <3>3. frame' = [frame EXCEPT ![w] = f]
      BY <2>3 DEF mp
    <3> HIDE DEF f
    <3>4. Holds(w, f, row', live', owner') /\ ("cancel" \notin ops => SeenHolds(f, row))
      BY <1>0, <2>1, <2>3, <3>1, <3>2 DEF Holds, SeenHolds, Early, Reporting, Undisturbed, dbVars, queueVars
    <3>5. QED  BY <1>0, <1>u, <2>1, <3>3, <3>4, QuietStep DEF dbVars
  <2>4. QED  BY <1>3, <2>2, <2>3 DEF ReadTask, Node
<1>4. CASE LockTask(w) \/ ReadDependencies(w)
  BY <1>2, <1>4 DEF LockTask, ReadDependencies, At, Early
<1>5. ASSUME NEW f, NEW rw, frame' = [frame EXCEPT ![w] = f], row' = [row EXCEPT ![n] = rw],
             f0.pc \in Early, UNCHANGED <<mission, ops, queueVars>>,
             rw.st \notin {"completed", "cancelled"}, f.pc \in {"consume", "start", "run"}, f.node = n,
             DOMAIN f.map = {} \/ f.map = f0.map
      PROVE SoundInv'
  BY <1>5, WriteOwnRow
<1>6. CASE DeferCommit(w)
  <2> DEFINE f == [f0 EXCEPT !.pc = "consume", !.map = EmptyMap]
             rw == [st |-> "queued", mt |-> f0.map[n].mt \cup {"deferred"}]
  <2>1. f.pc = "consume" /\ f.node = n /\ DOMAIN f.map = {} /\ rw.st = "queued"
    BY <1>0, EmptyMapType DEF Frames
  <2>2. frame' = [frame EXCEPT ![w] = f] /\ row' = [row EXCEPT ![n] = rw] /\ f0.pc = "defer"
        /\ UNCHANGED <<mission, ops, queueVars>>
    BY <1>6 DEF DeferCommit, At, Node
  <2> HIDE DEF f, rw
  <2>3. QED  BY <1>5, <2>1, <2>2 DEF Early
<1>7. CASE ClaimCommit(w)
  <2> DEFINE f == [f0 EXCEPT !.pc = "start"]
             rw == [st |-> "claimed", mt |-> f0.map[n].mt]
  <2>1. f.pc = "start" /\ f.node = n /\ f.map = f0.map /\ rw.st = "claimed"
    BY <1>0 DEF Frames
  <2>2. frame' = [frame EXCEPT ![w] = f] /\ row' = [row EXCEPT ![n] = rw] /\ f0.pc = "keep"
        /\ UNCHANGED <<mission, ops, queueVars>>
    BY <1>7 DEF ClaimCommit, At, Node, Goto
  <2> HIDE DEF f, rw
  <2>3. QED  BY <1>5, <2>1, <2>2 DEF Early
<1>8. CASE StartExecution(w)
  <2> DEFINE f == [f0 EXCEPT !.pc = "run", !.map = EmptyMap]
             rw == [st |-> "running", mt |-> f0.map[n].mt]
  <2>1. f.pc = "run" /\ f.node = n /\ DOMAIN f.map = {} /\ rw.st = "running"
    BY <1>0, EmptyMapType DEF Frames
  <2>2. frame' = [frame EXCEPT ![w] = f] /\ row' = [row EXCEPT ![n] = rw] /\ f0.pc = "start"
        /\ UNCHANGED <<mission, ops, queueVars>>
    BY <1>8 DEF StartExecution, At, Node
  <2> HIDE DEF f, rw
  <2>3. QED  BY <1>5, <2>1, <2>2 DEF Early
<1>9. CASE ConsumeDelivery(w) \/ BuryDelivery(w)
  <2>1. n \in Nodes /\ Done(w) /\ UNCHANGED <<dbVars, ops>>
    BY <1>0, <1>9 DEF ConsumeDelivery, BuryDelivery, At
  <2>2. \/ owner[n] = w /\ live[n] = "processing" /\ (Q!Finish(n, w) \/ Q!DeadLetter(n, w))
        \/ UNCHANGED queueVars
    BY <1>9 DEF ConsumeDelivery, BuryDelivery, Consume, Node
  <2>3. Untouched(w)
    BY <2>1, <2>2, OwnQueue
  <2>4. QED  BY <2>1, <2>3, SoundIdle DEF dbVars
<1>10. QED  BY <1>1, <1>3, <1>4, <1>6, <1>7, <1>8, <1>9

-----------------------------------------------------------------------------
\* What the commit of a rollup leaves in the rows: its own row, and others that
\* no other session has locked.
LEMMA SettleRows ==
    ASSUME GraphInv, NEW p \in Actors, NEW n \in Nodes,
           NEW out \in {"completed", "failed", "requested", "cancelled"},
           NEW old \in [Nodes -> Rows], NEW ms \in MissionStates,
           Settle(p, n, out, old, ms)
    PROVE  /\ Free(n, p) /\ row' \in [Nodes -> Rows]
           /\ \A m \in Nodes \ {n} : \/ row'[m].st = row[m].st
                                     \/ row'[m].st \in {"queued", "blocked"} /\ Free(m, p)
           /\ \/ row'[n].st = row[n].st
              \/ row'[n].st \in {"queued", "blocked"}
              \/ row'[n].st = out /\ out # "requested"
           /\ mission' = "completed" =>
                \/ mission = "completed"
                \/ /\ \A m \in Nodes \ {n} : old[m].st \in {"completed", "cancelled"}
                   /\ \A m \in Nodes \ {n} : row'[m].st = row[m].st
                   /\ \/ row'[n].st = out /\ out \in {"completed", "cancelled"}
                      \/ row'[n].st = row[n].st /\ old[n].st \in {"completed", "cancelled"}
           /\ frame'[Operator] = frame[Operator] \/ p = Operator
<1> DEFINE mine == [old EXCEPT ![n] = Outcome(@, out)]
           r == Rollup(mine, ms)
           new == Rolled(mine, r)
<1>1. /\ row' = Written(old, new, n)
      /\ \A m \in r.recovered \cup r.redispatched \cup r.doomed \cup {n} : Free(m, p)
      /\ \E verdict \in Verdicts(new, ms) :
           /\ mission' = IF verdict = ms THEN mission ELSE verdict
           /\ frame' = [frame EXCEPT ![p] = AfterSettle(p, new, verdict)]
  BY DEF Settle
<1>2. row \in [Nodes -> Rows] /\ frame \in [Actors -> Frames] /\ Operator \in Actors
  BY DEF GraphInv, TypeOK, Actors
<1>3. /\ mine \in [Nodes -> Rows] /\ \A m \in Nodes \ {n} : mine[m] = old[m]
      /\ mine[n].st = IF out = "requested" THEN old[n].st ELSE out
  BY OutcomeType
<1> HIDE DEF mine
<1>4. \A m \in Nodes : new[m].st = IF m \in r.doomed THEN "blocked" ELSE IF m \in r.recovered THEN "queued" ELSE mine[m].st
  BY <1>3 DEF Rolled
<1>5. new \in [Nodes -> Rows]
  BY <1>3, RolledType
<1> HIDE DEF r, new
<1>6. row' \in [Nodes -> Rows] /\ \A m \in Nodes : row'[m].st = IF new[m].st = old[m].st THEN row[m].st ELSE new[m].st
  <2>1. row' \in [Nodes -> Rows]
    BY <1>1, <1>2, <1>5, WrittenType
  <2>2. \A m \in Nodes : row'[m].st = IF new[m].st = old[m].st THEN row[m].st ELSE new[m].st
    BY <1>1 DEF Written
  <2>3. QED  BY <2>1, <2>2
<1>7. \A m \in Nodes \ {n} : \/ row'[m].st = row[m].st
                             \/ row'[m].st \in {"queued", "blocked"} /\ Free(m, p)
  BY <1>1, <1>3, <1>4, <1>6
<1>8. \/ row'[n].st = row[n].st
      \/ row'[n].st \in {"queued", "blocked"}
      \/ row'[n].st = out /\ out # "requested"
  BY <1>3, <1>4, <1>6
<1>9. ASSUME mission' = "completed", mission # "completed"
      PROVE  /\ \A m \in Nodes \ {n} : old[m].st \in {"completed", "cancelled"}
             /\ \A m \in Nodes \ {n} : row'[m].st = row[m].st
             /\ \/ row'[n].st = out /\ out \in {"completed", "cancelled"}
                \/ row'[n].st = row[n].st /\ old[n].st \in {"completed", "cancelled"}
  <2>1. \A m \in Nodes : new[m].st \in {"completed", "cancelled"}
    <3>1. PICK verdict \in Verdicts(new, ms) : verdict = "completed" /\ verdict # ms
      BY <1>1, <1>9
    <3>2. \A m \in Nodes : new[m].st \in Terminal /\ new[m].st \notin Failedish
      BY <3>1 DEF Verdicts
    <3>3. QED  BY <3>2 DEF Terminal, Failedish
  <2>2. \A m \in Nodes : new[m].st = mine[m].st
    BY <1>4, <2>1
  <2>3. \A m \in Nodes \ {n} : new[m].st = old[m].st /\ old[m].st \in {"completed", "cancelled"}
    BY <1>3, <2>1, <2>2
  <2>4. \A m \in Nodes \ {n} : row'[m].st = row[m].st
    BY <1>6, <2>3
  <2>5. \/ row'[n].st = out /\ out \in {"completed", "cancelled"}
        \/ row'[n].st = row[n].st /\ old[n].st \in {"completed", "cancelled"}
    <3>1. CASE new[n].st = old[n].st
      BY <1>6, <2>1, <3>1
    <3>2. CASE new[n].st # old[n].st
      BY <1>3, <1>6, <2>1, <2>2, <3>2
    <3>3. QED  BY <3>1, <3>2
  <2>6. QED  BY <2>3, <2>4, <2>5
<1>10. frame'[Operator] = frame[Operator] \/ p = Operator
  BY <1>1, <1>2
<1>11. Free(n, p)
  BY <1>1
<1>12. QED  BY <1>6, <1>7, <1>8, <1>9, <1>10, <1>11

\* What a rollup of p does to the tasks of the other workers: it completes none of
\* them, and it leaves alone the rows of those that are reporting.
LEMMA SettleOthers ==
    ASSUME GraphInv, SoundInv, NEW p \in Actors, NEW n \in Nodes,
           NEW out \in {"completed", "failed", "requested", "cancelled"},
           NEW old \in [Nodes -> Rows], NEW ms \in MissionStates,
           Settle(p, n, out, old, ms),
           IF p = Operator THEN out # "completed" ELSE frame[p].pc # "idle" /\ frame[p].node = n
    PROVE  /\ \A v \in Workers \ {p} : frame[v].pc \in Early =>
                (row'[frame[v].node].st = "completed" => row[frame[v].node].st = "completed")
           /\ \A v \in Workers \ {p} : frame[v].pc \in Reporting =>
                frame[v].node # n /\ row'[frame[v].node].st = row[frame[v].node].st
<1>1. /\ Free(n, p)
      /\ \A m \in Nodes \ {n} : \/ row'[m].st = row[m].st
                                \/ row'[m].st \in {"queued", "blocked"} /\ Free(m, p)
      /\ \/ row'[n].st = row[n].st
         \/ row'[n].st \in {"queued", "blocked"}
         \/ row'[n].st = out /\ out # "requested"
  BY SettleRows
<1>2. ASSUME NEW v \in Workers \ {p}
      PROVE  /\ v \in Actors \ {p} /\ (frame[v].pc # "idle" => frame[v].node \in Nodes)
             /\ frame[v].pc \in Reporting => LockedBy(v) = {frame[v].node}
  BY WorkerFacts DEF LockedBy, Reporting
<1>3. ASSUME NEW v \in Workers \ {p}, frame[v].pc \in Early
      PROVE  row'[frame[v].node].st = "completed" => row[frame[v].node].st = "completed"
  <2>1. frame[v].node = n => p = Operator
    BY <1>3, OwnersDiffer DEF Actors, Early
  <2>2. frame[v].node \in Nodes
    BY <1>2, <1>3 DEF Early
  <2>3. QED  BY <1>1, <2>1, <2>2
<1>4. ASSUME NEW v \in Workers \ {p}, frame[v].pc \in Reporting
      PROVE  frame[v].node # n /\ row'[frame[v].node].st = row[frame[v].node].st
  <2>1. \A m \in Nodes : Free(m, p) => m # frame[v].node
    BY <1>2, <1>4 DEF Free
  <2>2. frame[v].node \in Nodes
    BY <1>2, <1>4 DEF Reporting
  <2>3. QED  BY <1>1, <2>1, <2>2
<1>5. QED  BY <1>3, <1>4

\* The reports of a worker, up to their rollup.
LEMMA SoundReport ==
    ASSUME GraphInv, SoundInv, NEW w \in Workers,
           \/ \E out \in {"completed", "failed"} : BeginReport(w, out)
           \/ ReportRefused(w) \/ BlockCompletionFailure(w)
    PROVE  SoundInv'
<1> DEFINE f0 == frame[w]
           n == f0.node
<1>0. /\ w \in Actors /\ w # Operator /\ f0 \in Frames
      /\ Holds(w, f0, row, live, owner) /\ (f0.pc # "idle" => n \in Nodes)
      /\ f0.map \in Maps /\ row \in [Nodes -> Rows]
      /\ "cancel" \notin ops => Undisturbed /\ SeenHolds(f0, row)
  BY WorkerFacts
<1>u. UNCHANGED queueVars => Untouched(w)
  BY DEF Untouched, queueVars
<1>1. ASSUME NEW out \in {"completed", "failed"}, BeginReport(w, out) PROVE SoundInv'
  <2> DEFINE mp == Loaded(EmptyMap, {n})
             f == [f0 EXCEPT !.pc = "rollup", !.out = out, !.map = mp, !.ms = mission]
  <2>1. n \in Nodes /\ row[n].st = "running" /\ f0.pc = "run" /\ UNCHANGED <<dbVars, queueVars, ops>>
        /\ frame' = [frame EXCEPT ![w] = f]
    BY <1>0, <1>1 DEF BeginReport, At, Node
  <2>2. DOMAIN mp = {n} /\ mp[n] = row[n]
    BY <1>0, <2>1, LoadOne
  <2> HIDE DEF mp
  <2>3. f.pc = "rollup" /\ f.node = n /\ f.map = mp
    BY <1>0 DEF Frames
  <2> HIDE DEF f
  <2>4. Holds(w, f, row', live', owner') /\ ("cancel" \notin ops => SeenHolds(f, row))
    BY <1>0, <2>1, <2>2, <2>3 DEF Holds, SeenHolds, Early, Reporting, Undisturbed, dbVars, queueVars
  <2>5. QED  BY <1>0, <1>u, <2>1, <2>4, QuietStep DEF dbVars
<1>2. CASE ReportRefused(w)
  BY <1>2, <1>u, SoundIdle DEF ReportRefused, dbVars
<1>3. CASE BlockCompletionFailure(w)
  <2> DEFINE f == [f0 EXCEPT !.pc = "consume"]
             rw == [row[n] EXCEPT !.st = "blocked"]
  <2>1. f.pc = "consume" /\ f.node = n /\ f.map = f0.map
    BY <1>0 DEF Frames
  <2>2. n \in Nodes /\ f0.pc = "run" /\ frame' = [frame EXCEPT ![w] = f]
        /\ row' = [row EXCEPT ![n] = rw] /\ UNCHANGED <<mission, ops, queueVars>>
    BY <1>0, <1>3 DEF BlockCompletionFailure, At, Node, Goto
  <2>3. rw.st = "blocked"
    BY <1>0, <2>2 DEF Rows
  <2> HIDE DEF f, rw
  <2>4. QED  BY <2>1, <2>2, <2>3, WriteOwnRow DEF Early
<1>4. QED  BY <1>1, <1>2, <1>3

\* The rollup of a worker: if it settles the mission as completed, it has read all
\* other nodes as completed.
LEMMA SoundRollup ==
    ASSUME GraphInv, SoundInv, NEW w \in Workers, RollupRead(w) \/ RollupCommit(w)
    PROVE  SoundInv'
<1> DEFINE f0 == frame[w]
           n == f0.node
<1>0. /\ w \in Actors /\ w # Operator /\ f0 \in Frames
      /\ WorkerFrameOK(f0, produced) /\ FrameOK(w, f0, produced)
      /\ Holds(w, f0, row, live, owner) /\ (f0.pc # "idle" => n \in Nodes)
      /\ f0.map \in Maps /\ row \in [Nodes -> Rows]
      /\ "cancel" \notin ops => Undisturbed /\ SeenHolds(f0, row)
  BY WorkerFacts, FrameFacts
<1>1. CASE RollupRead(w)
  <2> DEFINE mp == Loaded(f0.map, Nodes)
             f == [f0 EXCEPT !.pc = "commit", !.map = mp]
  <2>1. n \in Nodes /\ f0.pc = "rollup" /\ UNCHANGED <<dbVars, queueVars, ops>>
        /\ frame' = [frame EXCEPT ![w] = f] /\ DOMAIN f0.map = {n}
    BY <1>0, <1>1 DEF RollupRead, At, Holds
  <2>2a. /\ DOMAIN mp = Nodes \cup DOMAIN f0.map
         /\ \A m \in Nodes \cup DOMAIN f0.map :
              mp[m] = IF m \in DOMAIN f0.map THEN f0.map[m] ELSE row[m]
    BY <1>0, LoadedType
  <2> HIDE DEF mp
  <2>2. DOMAIN mp = Nodes /\ mp[n] = f0.map[n] /\ \A m \in Nodes \ {n} : mp[m] = row[m]
    BY <2>1, <2>2a
  <2>3. f.pc = "commit" /\ f.node = n /\ f.map = mp
    BY <1>0 DEF Frames
  <2> HIDE DEF f
  <2>4. Holds(w, f, row', live', owner')
    BY <1>0, <2>1, <2>3 DEF Holds, Early, Reporting, dbVars, queueVars
  <2>5. "cancel" \notin ops => SeenHolds(f, row)
    BY <1>0, <2>1, <2>2, <2>3 DEF SeenHolds, Undisturbed, RestDone
  <2>6. Untouched(w)
    BY <2>1 DEF Untouched, queueVars
  <2>7. QED  BY <1>0, <2>1, <2>4, <2>5, <2>6, QuietStep DEF dbVars
<1>2. CASE RollupCommit(w)
  <2> DEFINE out == f0.out
             old == f0.map
             ms == f0.ms
  <2>1. /\ n \in Nodes /\ f0.pc = "commit" /\ Settle(w, n, out, old, ms) /\ UNCHANGED <<queueVars, ops>>
        /\ DOMAIN old = Nodes /\ out \in {"completed", "failed"} /\ old[n].st = "running"
        /\ ms \in MissionStates
    BY <1>0, <1>2 DEF RollupCommit, At, Node, FrameOK, WorkerFrameOK, Frames
  <2>2. old \in [Nodes -> Rows]
    BY <1>0, <2>1, MapElim
  <2>3. PICK f : /\ frame' = [frame EXCEPT ![w] = f]
                 /\ f.pc \in {"consume", "bury"} /\ f.node = n /\ DOMAIN f.map = {}
    <3>1. PICK new, verdict : frame' = [frame EXCEPT ![w] = AfterSettle(w, new, verdict)]
      BY <2>1 DEF Settle
    <3>2. AfterSettle(w, new, verdict) =
            [Idle EXCEPT !.node = n, !.pc = IF out = "completed" THEN "consume" ELSE "bury"]
      BY <1>0 DEF AfterSettle
    <3>3. QED  BY <3>1, <3>2, IdleType DEF Frames
  <2> HIDE DEF out, old, ms
  <2>4. /\ \A v \in Workers \ {w} : frame[v].pc \in Early =>
             (row'[frame[v].node].st = "completed" => row[frame[v].node].st = "completed")
        /\ \A v \in Workers \ {w} : frame[v].pc \in Reporting =>
             frame[v].node # n /\ row'[frame[v].node].st = row[frame[v].node].st
        /\ \A v \in Workers \ {w} : frame[v].pc # "idle" => frame[v].node # n
    BY <1>0, <2>1, <2>2, SettleOthers, OwnersDiffer
  <2>5. /\ row' \in [Nodes -> Rows]
        /\ \A m \in Nodes \ {n} : row'[m].st = row[m].st \/ row'[m].st \in {"queued", "blocked"}
        /\ row'[n].st \in {row[n].st, "queued", "blocked", "completed", "failed"}
        /\ mission' = "completed" =>
             \/ mission = "completed"
             \/ /\ \A m \in Nodes \ {n} : old[m].st \in {"completed", "cancelled"}
                /\ \A m \in Nodes \ {n} : row'[m].st = row[m].st
                /\ row'[n].st = "completed"
    BY <1>0, <2>1, <2>2, SettleRows
  <2>6. row[n].st = "running"
    BY <1>0, <2>1 DEF Holds, Reporting
  <2>7. Holds(w, f, row', live', owner') /\ SeenHolds(f, row')
    BY <1>0, <2>1, <2>3 DEF Holds, SeenHolds, Early, Reporting, queueVars
  <2>8. ASSUME "cancel" \notin ops'
        PROVE  /\ \A m \in Nodes : row'[m].st # "cancelled"
               /\ mission' = "completed" => mission = "completed" \/ \A m \in Nodes : row'[m].st = "completed"
    <3>1. Undisturbed /\ SeenHolds(f0, row)
      BY <1>0, <2>1, <2>8
    <3>2. \A m \in Nodes : row'[m].st # "cancelled"
      BY <2>5, <2>6, <3>1 DEF Undisturbed
    <3>3. ASSUME mission' = "completed", mission # "completed"
          PROVE  \A m \in Nodes : row'[m].st = "completed"
      <4>1. \A m \in Nodes \ {n} : old[m].st = "completed" /\ row'[m].st = row[m].st
        BY <2>1, <2>5, <3>1, <3>3 DEF SeenHolds, old
      <4>2. \A m \in Nodes \ {n} : row[m].st = "completed"
        BY <2>1, <3>1, <4>1 DEF SeenHolds, RestDone, old
      <4>3. QED  BY <2>5, <3>3, <4>1, <4>2
    <3>4. QED  BY <3>2, <3>3
  <2>9. Untouched(w) /\ ops \subseteq ops'
    BY <2>1 DEF Untouched, queueVars
  <2>10. "cancel" \notin ops' =>
           /\ IF w = Operator THEN f.pc = "idle" ELSE SeenHolds(f, row')
           /\ \A m \in Nodes : row'[m].st # "cancelled"
           /\ mission' = "completed" => mission = "completed" \/ \A m \in Nodes : row'[m].st = "completed"
    BY <1>0, <2>7, <2>8
  <2>11. \A m \in Nodes \ {n} : row'[m].st = "completed" => row[m].st = "completed"
    BY <2>5
  <2>12. \A v \in Workers \ {w} : frame[v].pc \in Early /\ frame[v].node = n => row'[n].st # "completed"
    BY <2>4 DEF Early
  <2> HIDE DEF n, f0
  <2>13. QED
    BY <1>0, <2>1, <2>3, <2>4, <2>6, <2>7, <2>9, <2>10, <2>11, <2>12, WritingStep
<1>3. QED  BY <1>1, <1>2

-----------------------------------------------------------------------------
\* While nothing was cancelled, the operator is in no call.
LEMMA OperatorFacts ==
    ASSUME GraphInv, SoundInv
    PROVE  /\ Operator \in Actors /\ Operator \notin Workers
           /\ frame \in [Actors -> Frames] /\ row \in [Nodes -> Rows]
           /\ frame[Operator].pc # "idle" => "cancel" \in ops
           /\ \A w \in Workers : frame[w].pc # "idle" => frame[w].node \in Nodes
  BY GraphAssumption, WorkerFacts DEF Actors, GraphInv, TypeOK, SoundInv, Undisturbed

\* A step of a cancellation that writes no row.
LEMMA CancelQuiet ==
    ASSUME GraphInv, SoundInv, NEW f, frame' = [frame EXCEPT ![Operator] = f],
           UNCHANGED <<row, queueVars>>, "cancel" \in ops'
    PROVE  SoundInv'
<1>1. Untouched(Operator)  BY DEF Untouched, queueVars
<1>2. \A w \in Workers : Holds(w, frame'[w], row', live', owner')
  BY <1>1, OperatorFacts, OthersHold
<1>3. QED  BY <1>2 DEF SoundInv

\* The rollup of a cancellation.
LEMMA CancelRollup ==
    ASSUME GraphInv, SoundInv, NEW n \in Nodes,
           NEW out \in {"requested", "cancelled"},
           NEW old \in [Nodes -> Rows], NEW ms \in MissionStates,
           Settle(Operator, n, out, old, ms), UNCHANGED queueVars, "cancel" \in ops'
    PROVE  SoundInv'
<1>1. PICK f : frame' = [frame EXCEPT ![Operator] = f]
  BY DEF Settle
<1>2. Untouched(Operator)  BY DEF Untouched, queueVars
<1>3. Operator \in Actors /\ Operator \notin Workers  BY OperatorFacts
<1>4. /\ \A v \in Workers \ {Operator} : frame[v].pc \in Early =>
           (row'[frame[v].node].st = "completed" => row[frame[v].node].st = "completed")
      /\ \A v \in Workers \ {Operator} : frame[v].pc \in Reporting =>
           row'[frame[v].node].st = row[frame[v].node].st
  BY <1>3, SettleOthers
<1>5. \A w \in Workers : Holds(w, frame'[w], row', live', owner')
  BY <1>1, <1>2, <1>3, <1>4, OthersHold
<1>6. QED  BY <1>5 DEF SoundInv

\* The operator's calls and their steps.
LEMMA SoundOperator ==
    ASSUME GraphInv, SoundInv,
           \/ \E n \in Nodes : CancelRead(n) \/ RetryTask(n)
           \/ RollupRead(Operator) \/ RollupCommit(Operator)
           \/ SweepRead \/ CancelFlush \/ SweepTask \/ SweepEnd
    PROVE  SoundInv'
<1> DEFINE p == Operator
           f0 == frame[Operator]
<1>0. /\ p \in Actors /\ p \notin Workers /\ f0 \in Frames /\ FrameOK(p, f0, produced)
      /\ OperatorFrameOK(f0) /\ f0.map \in Maps /\ row \in [Nodes -> Rows]
      /\ f0.pc # "idle" => "cancel" \in ops
  BY OperatorFacts, FrameFacts DEF FrameOK
<1>1. ASSUME NEW n \in Nodes, CancelRead(n) PROVE SoundInv'
  BY <1>1, CancelQuiet DEF CancelRead, Spend, dbVars
<1>2. CASE SweepRead
  BY <1>2, CancelQuiet DEF SweepRead, Spend, dbVars
<1>3. CASE CancelFlush \/ RollupRead(Operator)
  <2>1. PICK f : frame' = [frame EXCEPT ![Operator] = f]
    BY <1>3 DEF CancelFlush, RollupRead
  <2>2. UNCHANGED <<row, queueVars>> /\ "cancel" \in ops'
    BY <1>0, <1>3 DEF CancelFlush, RollupRead, At, dbVars
  <2>3. QED  BY <2>1, <2>2, CancelQuiet
<1>4. CASE SweepEnd
  BY <1>0, <1>4, CancelQuiet DEF SweepEnd, Sweeping, Done
<1>5. CASE RollupCommit(Operator)
  <2>1. /\ f0.pc = "commit" /\ DOMAIN f0.map = Nodes
        /\ Settle(Operator, f0.node, f0.out, f0.map, f0.ms) /\ UNCHANGED <<queueVars, ops>>
    BY <1>0, <1>5 DEF RollupCommit, At, Node, FrameOK
  <2>2. f0.map \in [Nodes -> Rows] /\ f0.ms \in MissionStates /\ f0.node \in Nodes
        /\ f0.out \in {"requested", "cancelled"} /\ "cancel" \in ops'
    BY <1>0, <2>1, MapElim DEF Frames, OperatorFrameOK
  <2> HIDE DEF f0
  <2>3. QED  BY <2>1, <2>2, CancelRollup
<1>6. CASE SweepTask
  <2> DEFINE n == SweepNext
             out == CancelOutcome(f0.map[n].st)
  <2>1. /\ SweepTodo # {} /\ DOMAIN f0.map = Nodes /\ f0.pc # "idle"
        /\ Settle(Operator, n, out, f0.map, f0.ms) /\ UNCHANGED <<queueVars, ops>>
    BY <1>0, <1>6 DEF SweepTask, Sweeping, FrameOK
  <2>2. n \in SweepTodo  BY <2>1 DEF SweepNext
  <2>3. n \in Nodes  BY <1>0, <2>2 DEF SweepTodo, Frames
  <2>4. out \in {"requested", "cancelled"} /\ "cancel" \in ops'
    BY <1>0, <2>1 DEF CancelOutcome
  <2>5. f0.map \in [Nodes -> Rows] /\ f0.ms \in MissionStates
    BY <1>0, <2>1, MapElim DEF Frames
  <2> HIDE DEF f0, n, out
  <2>6. QED  BY <2>1, <2>3, <2>4, <2>5, CancelRollup
<1>7. ASSUME NEW n \in Nodes, RetryTask(n) PROVE SoundInv'
  <2>1. /\ frame' = [frame EXCEPT ![p] = f0] /\ f0.pc = "idle"
        /\ row[n].st \in {"failed", "dead_lettered"}
        /\ row'[n].st = "queued" /\ \A m \in Nodes \ {n} : row'[m] = row[m]
        /\ mission' = "completed" => mission = "completed"
        /\ UNCHANGED queueVars /\ ops \subseteq ops'
    BY <1>0, <1>7, OperatorFacts DEF RetryTask, Spend, At
  <2>2. \A w \in Workers \ {p} : frame[w].pc \in Reporting =>
            frame[w].node # n /\ row'[frame[w].node].st = row[frame[w].node].st
    BY <2>1, WorkerFacts DEF Holds, Reporting
  <2>3. Untouched(p)  BY <2>1 DEF Untouched, queueVars
  <2>4. "cancel" \notin ops' =>
          /\ IF p = Operator THEN f0.pc = "idle" ELSE SeenHolds(f0, row')
          /\ \A m \in Nodes : row'[m].st # "cancelled"
          /\ mission' = "completed" => mission = "completed" \/ \A m \in Nodes : row'[m].st = "completed"
    BY <2>1 DEF SoundInv, Undisturbed
  <2>5. /\ row[n].st # "completed"
        /\ \A m \in Nodes \ {n} : row'[m].st = "completed" => row[m].st = "completed"
        /\ row'[n].st # "completed"
    BY <2>1
  <2> HIDE DEF f0
  <2>6. QED  BY <1>0, <2>1, <2>2, <2>3, <2>4, <2>5, WritingStep
<1>8. QED  BY <1>1, <1>2, <1>3, <1>4, <1>5, <1>6, <1>7

\* A report and a sweep that wait for each other: one of them is undone.
LEMMA SoundDeadlock ==
    ASSUME GraphInv, SoundInv, NEW w \in Workers, Deadlock(w)
    PROVE  SoundInv'
<1>1. /\ frame[w].pc = "commit" /\ "cancel" \in ops /\ ops' = ops
      /\ UNCHANGED <<row, mission, queueVars>>
  BY OperatorFacts DEF Deadlock, At, dbVars
<1>2. CASE Done(Operator)
  BY <1>1, <1>2, CancelQuiet DEF Done
<1>3. CASE frame' = [frame EXCEPT ![w] = [Idle EXCEPT !.pc = "run", !.node = Node(w), !.out = "error"]]
  <2> DEFINE f == [Idle EXCEPT !.pc = "run", !.node = Node(w), !.out = "error"]
  <2>1. f.pc = "run" /\ f.node = frame[w].node
    BY IdleType DEF Frames, Node
  <2>2. frame' = [frame EXCEPT ![w] = f]  BY <1>3
  <2> HIDE DEF f
  <2>3. Holds(w, f, row', live', owner')
    BY <1>1, <2>1, WorkerFacts DEF Holds, Early, Reporting, queueVars
  <2>4. Untouched(w)  BY <1>1 DEF Untouched, queueVars
  <2>5. QED  BY <1>1, <2>2, <2>3, <2>4, WorkerFacts, QuietStep
<1>4. QED  BY <1>2, <1>3 DEF Deadlock

\* A lost worker, whose task is recovered.
LEMMA SoundLose ==
    ASSUME GraphInv, SoundInv, NEW w \in Workers, LoseWorker(w)
    PROVE  SoundInv'
<1> DEFINE n == frame[w].node
<1>0. /\ w \in Actors /\ w # Operator /\ n \in Nodes /\ row \in [Nodes -> Rows]
      /\ Holds(w, frame[w], row, live, owner) /\ frame[w].pc \in Early
      /\ "cancel" \notin ops => Undisturbed
  BY WorkerFacts DEF LoseWorker, At, Early
<1>1. /\ row[n].st \in {"claimed", "running"}
      /\ Q!Requeue(n, w) \/ Q!DeadLetter(n, w)
      /\ row' = [row EXCEPT ![n].st = "queued"] \/ row' = [row EXCEPT ![n].st = "dead_lettered"]
      /\ frame' = [frame EXCEPT ![w] = Idle] /\ mission' = mission /\ ops \subseteq ops'
  BY DEF LoseWorker, Node, Spend, Done
<1>2. row'[n].st \in {"queued", "dead_lettered"} /\ \A m \in Nodes \ {n} : row'[m] = row[m]
  BY <1>0, <1>1 DEF Rows
<1>3. owner[n] = w /\ live[n] = "processing"
  BY <1>0 DEF Holds, Early
<1>4. Untouched(w)
  BY <1>0, <1>1, <1>3, OwnQueue
<1>5. \A v \in Workers \ {w} : frame[v].pc \in Reporting =>
          frame[v].node # n /\ row'[frame[v].node].st = row[frame[v].node].st
  BY <1>0, <1>2, OwnersDiffer, WorkerFacts DEF Early, Reporting
<1>6. Holds(w, Idle, row', live', owner') /\ SeenHolds(Idle, row')
  BY IdleType DEF Holds, SeenHolds, Early, Reporting
<1>7. "cancel" \notin ops' =>
        /\ IF w = Operator THEN Idle.pc = "idle" ELSE SeenHolds(Idle, row')
        /\ \A m \in Nodes : row'[m].st # "cancelled"
        /\ mission' = "completed" => mission = "completed" \/ \A m \in Nodes : row'[m].st = "completed"
  BY <1>0, <1>1, <1>2, <1>6 DEF Undisturbed
<1>8. /\ row[n].st # "completed" /\ row'[n].st # "completed"
      /\ \A m \in Nodes \ {n} : row'[m].st = "completed" => row[m].st = "completed"
  BY <1>1, <1>2
<1> HIDE DEF n
<1>9. QED  BY <1>0, <1>1, <1>4, <1>5, <1>6, <1>7, <1>8, WritingStep

\* A step that changes neither rows nor calls nor the payloads of workers.
LEMMA SoundQueue ==
    ASSUME GraphInv, SoundInv, UNCHANGED <<row, mission, frame, ops>>, NEW n \in Nodes,
           \A m \in Nodes \ {n} : live'[m] = live[m] /\ owner'[m] = owner[m],
           \/ UNCHANGED queueVars
           \/ live[n] # "processing"
           \/ \A w \in Workers : Node(w) # n
    PROVE  SoundInv'
<1>1. \A w \in Workers : frame[w].pc # "idle" => frame[w].node \in Nodes /\ live[frame[w].node] = "processing"
  BY WorkerFacts DEF Holds
<1>2. Untouched(Operator)
  BY <1>1 DEF Untouched, Node, queueVars
<1>3. frame' = [frame EXCEPT ![Operator] = frame[Operator]]
  BY OperatorFacts
<1>4. QED
  BY <1>2, <1>3, OperatorFacts, QuietStep

\* The maintainer leaves the payloads of workers alone.
LEMMA SoundBackground ==
    ASSUME GraphInv, SoundInv, NEW n \in Nodes, Background(n)
    PROVE  SoundInv'
<1>1. UNCHANGED <<row, mission, frame, ops>>
  BY DEF Background, ReconcileCancelled, ReconcileProcessing, dbVars
<1>2. live \in [Nodes -> {"absent", "pending", "processing"}] /\ owner \in [Nodes -> Workers \cup {NoOwner}]
  BY DEF GraphInv, TypeOK
<1>3. CASE ReconcileCancelled(n)
  <2>1. /\ \A m \in Nodes \ {n} : live'[m] = live[m] /\ owner'[m] = owner[m]
        /\ live[n] # "processing"
    BY <1>2, <1>3 DEF ReconcileCancelled, Q!Withdraw, Q!Move, queueVars
  <2>2. QED  BY <1>1, <2>1, SoundQueue
<1>4. CASE ReconcileProcessing(n)
  <2>1. /\ \A m \in Nodes \ {n} : live'[m] = live[m] /\ owner'[m] = owner[m]
        /\ \A w \in Workers : Node(w) # n
    BY <1>2, <1>4 DEF ReconcileProcessing, Q!Finish, Q!Move
  <2>2. QED  BY <1>1, <2>1, SoundQueue
<1>5. QED  BY <1>3, <1>4 DEF Background

\* So does a publisher.
LEMMA SoundPublisher ==
    ASSUME GraphInv, SoundInv, NEW x \in Publishers, PublisherStep(x)
    PROVE  SoundInv'
<1>1. UNCHANGED <<row, mission, frame, ops>>  BY PublisherKeeps
<1>2. CASE UNCHANGED queueVars
  <2>1. Untouched(Operator)  BY <1>2 DEF Untouched, queueVars
  <2>2. frame' = [frame EXCEPT ![Operator] = frame[Operator]]  BY <1>1, OperatorFacts
  <2>3. QED  BY <1>1, <2>1, <2>2, OperatorFacts, QuietStep
<1>3. CASE ~UNCHANGED queueVars
  <2>1. PICK n \in Nodes : /\ live[n] # "processing"
                           /\ Q!Revive(n) \/ \E g \in 0..MaxGen : Q!PublishOnce(n, <<n, g>>)
    BY <1>3, PublisherQueue
  <2>2. live \in [Nodes -> {"absent", "pending", "processing"}] /\ owner \in [Nodes -> Workers \cup {NoOwner}]
    BY DEF GraphInv, TypeOK
  <2>3. \A m \in Nodes \ {n} : live'[m] = live[m] /\ owner'[m] = owner[m]
    BY <2>1, <2>2 DEF Q!Revive, Q!PublishOnce, Q!Move
  <2>4. QED  BY <1>1, <2>1, <2>3, SoundQueue
<1>4. QED  BY <1>2, <1>3

-----------------------------------------------------------------------------
\* SoundInv is inductive beside GraphInv.
THEOREM SoundInvariant == Spec => []SoundInv
<1>1. Init => SoundInv
  BY IdleType, GraphAssumption
     DEF Init, SoundInv, Undisturbed, Holds, SeenHolds, Early, Reporting, Actors
<1>2. GraphInv /\ SoundInv /\ [Next]_vars => SoundInv'
  <2> SUFFICES ASSUME GraphInv, SoundInv, [Next]_vars PROVE SoundInv'  OBVIOUS
  <2>1. ASSUME NEW w \in Workers, WorkerStep(w) PROVE SoundInv'
    BY <2>1, SoundClaim, SoundReport, SoundRollup DEF WorkerStep
  <2>2. ASSUME NEW w \in Workers, LoseWorker(w) PROVE SoundInv'  BY <2>2, SoundLose
  <2>3. ASSUME NEW w \in Workers, Deadlock(w) PROVE SoundInv'  BY <2>3, SoundDeadlock
  <2>4. CASE OperatorStep \/ OperatorCall
    BY <2>4, SoundOperator DEF OperatorStep, OperatorCall
  <2>5. ASSUME NEW n \in Nodes, Background(n) PROVE SoundInv'  BY <2>5, SoundBackground
  <2>6. CASE UNCHANGED vars
    BY <2>6 DEF vars, SoundInv, Undisturbed
  <2>7. ASSUME NEW x \in Publishers, PublisherStep(x) PROVE SoundInv'  BY <2>7, SoundPublisher
  <2>8. QED  BY <2>1, <2>2, <2>3, <2>4, <2>5, <2>6, <2>7 DEF Next
<1>3. QED  BY <1>1, <1>2, GraphInvariant, PTL DEF Spec

\* While no operator has cancelled anything, a completed mission has no failed,
\* blocked or unfinished node: a rollup that saw all other nodes completed saw the
\* truth, whatever retries, lost workers and other rollups did in between.
THEOREM CompletedMissionAlwaysSound == Spec => []CompletedMissionIsSound
<1>1. SoundInv => CompletedMissionIsSound
  BY DEF SoundInv, Undisturbed, CompletedMissionIsSound
<1>2. QED  BY <1>1, SoundInvariant, PTL

-----------------------------------------------------------------------------
\* No operator has intervened.
Unattended == ops \cap {"cancel", "retry"} = {}

\* Nodes that have ended without a result: failed, given up on, or blocked by their
\* own worker.
Ended == {n \in Nodes : \/ row[n].st \in {"failed", "dead_lettered"}
                        \/ row[n].st = "blocked" /\ "dep_failed" \notin row[n].mt}

\* Each node of H has ended, or waits for another of H.
Lost(H, E, P) == H \cap P = {} /\ \A n \in H : n \in E \/ Deps[n] \cap H # {}

\* The nodes that can have no result any more, given the ended ones and the results.
Hopeless(E, P) == {n \in Nodes : \E H \in SUBSET Nodes : n \in H /\ Lost(H, E, P)}

\* What a row, or a copy of one, says of node n, when the nodes L are hopeless.
Tells(rw, n, L) ==
    /\ rw.st # "cancelled"
    /\ rw.st \in Failedish => n \in L
    /\ "dep_failed" \in rw.mt => rw.st = "blocked" /\ Deps[n] \cap L # {}

\* A worker before its commit: its task has not ended, and it has claimed it queued.
WorkerTells(f, E, L) ==
    /\ f.pc \in Early => f.node \notin E
    /\ f.pc \in {"lock", "siblings", "defer", "keep", "start"} => f.map[f.node].st = "queued"
    /\ \A n \in DOMAIN f.map : Tells(f.map[n], n, L)

HopelessNow == Hopeless(Ended, produced)

Settling ==
    /\ \A n \in produced : row[n].st = "completed"
    /\ \A n \in Ended : Deps[n] \subseteq produced
    /\ \A n \in Nodes : Tells(row[n], n, HopelessNow)
    /\ \A w \in Workers : WorkerTells(frame[w], Ended, HopelessNow)
    /\ mission \in MissionTerminal => Nodes \subseteq produced \cup HopelessNow

\* The inductive invariant of VerdictsAreFinal and CompletedStays, beside GraphInv
\* and SoundInv.
SettlingInv == Unattended => Settling

-----------------------------------------------------------------------------
\* The hopeless nodes are a lost set, the largest one.
LEMMA HopelessFacts ==
    ASSUME NEW E \in SUBSET Nodes, NEW P \in SUBSET Nodes
    PROVE  /\ Hopeless(E, P) \subseteq Nodes /\ Lost(Hopeless(E, P), E, P)
           /\ E \ P \subseteq Hopeless(E, P)
           /\ \A n \in Nodes \ P : Deps[n] \cap Hopeless(E, P) # {} => n \in Hopeless(E, P)
<1> DEFINE L == Hopeless(E, P)
<1>1. L \subseteq Nodes  BY DEF Hopeless
<1>2. \A H \in SUBSET Nodes : Lost(H, E, P) => H \subseteq L
  BY DEF Hopeless
<1>3. Lost(L, E, P)
  <2>1. ASSUME NEW n \in L PROVE n \notin P /\ (n \in E \/ Deps[n] \cap L # {})
    <3>1. PICK H \in SUBSET Nodes : n \in H /\ Lost(H, E, P)
      BY <2>1 DEF Hopeless
    <3>2. H \subseteq L  BY <1>2, <3>1
    <3>3. QED  BY <3>1, <3>2 DEF Lost
  <2>2. QED  BY <2>1 DEF Lost
<1> HIDE DEF L
<1>4. ASSUME NEW n \in E \ P PROVE n \in L
  <2>1. Lost({n}, E, P)  BY DEF Lost
  <2>2. QED  BY <1>2, <2>1
<1>5. ASSUME NEW n \in Nodes \ P, Deps[n] \cap L # {} PROVE n \in L
  <2>1. Lost(L \cup {n}, E, P)  BY <1>3, <1>5 DEF Lost
  <2>2. L \cup {n} \in SUBSET Nodes  BY <1>1
  <2>3. QED  BY <1>2, <2>1, <2>2
<1>6. QED  BY <1>1, <1>3, <1>4, <1>5 DEF L

\* What has no result any more has none later.
LEMMA HopelessGrows ==
    ASSUME NEW E \in SUBSET Nodes, NEW P \in SUBSET Nodes,
           NEW E1 \in SUBSET Nodes, NEW P1 \in SUBSET Nodes,
           E \subseteq E1, Hopeless(E, P) \cap P1 = {}
    PROVE  Hopeless(E, P) \subseteq Hopeless(E1, P1)
<1> DEFINE L == Hopeless(E, P)
<1>1. L \in SUBSET Nodes /\ Lost(L, E, P)  BY HopelessFacts
<1> HIDE DEF L
<1>2. L \cap P1 = {}  BY DEF L
<1>3. Lost(L, E1, P1)  BY <1>1, <1>2 DEF Lost
<1>4. L \subseteq Hopeless(E1, P1)  BY <1>1, <1>3 DEF Hopeless
<1>5. QED  BY <1>4 DEF L

\* The rollup of rows that tell the truth: it re-admits no blocked node, and blocks
\* only nodes that wait for a hopeless one.
LEMMA TruthfulRollup ==
    ASSUME GraphAssumption, NEW E \in SUBSET Nodes, NEW P \in SUBSET Nodes,
           \A n \in P : Deps[n] \subseteq P,
           NEW map \in [Nodes -> Rows],
           \A n \in Nodes : Tells(map[n], n, Hopeless(E, P)),
           \A n \in Nodes : map[n].st = "completed" => n \in P
    PROVE  /\ RecoveredDependents(map) = {}
           /\ \A n \in DoomedDependents(map) :
                n \in Nodes /\ map[n].st \in {"queued", "claimed"}
                /\ n \in Hopeless(E, P) /\ Deps[n] \cap Hopeless(E, P) # {}
           /\ \A n \in RedispatchedDependents(map) :
                n \in Nodes /\ map[n].st = "queued" /\ Deps[n] \subseteq P
<1> DEFINE L == Hopeless(E, P)
<1>1. /\ L \subseteq Nodes /\ L \cap P = {}
      /\ \A n \in Nodes \ P : Deps[n] \cap L # {} => n \in L
  BY HopelessFacts DEF Lost
<1>2. \A n \in Nodes : Deps[n] \subseteq Nodes  BY DEF GraphAssumption
<1>3. \A n \in Nodes : Tells(map[n], n, L)  OBVIOUS
<1> HIDE DEF L
<1>4. \A n \in Nodes : Satisfied(map, n) => Deps[n] \subseteq P
  BY <1>2 DEF Satisfied
<1>5. RecoveredDependents(map) = {}
  BY <1>1, <1>3, <1>4 DEF RecoveredDependents, Tells
<1>6. \A n \in RedispatchedDependents(map) : n \in Nodes /\ map[n].st = "queued" /\ Deps[n] \subseteq P
  BY <1>4, <1>5 DEF RedispatchedDependents
<1> DEFINE Failed == {n \in Nodes : map[n].st \in Failedish} \ RecoveredDependents(map)
           Open == {n \in Nodes : map[n].st \in {"queued", "claimed"}}
           K == {n \in Open : n \in L /\ Deps[n] \cap L # {}}
<1>7. \A n \in Open : Deps[n] \cap (K \cup Failed) # {} => n \in K
  <2>1. Failed \subseteq L  BY <1>3 DEF Tells
  <2>2. ASSUME NEW n \in Open, Deps[n] \cap (K \cup Failed) # {} PROVE n \in K
    <3>1. Deps[n] \cap L # {}  BY <2>1, <2>2
    <3>2. n \notin P  BY <1>1, <3>1
    <3>3. QED  BY <1>1, <3>1, <3>2
  <2>3. QED  BY <2>2
<1>8. DoomedDependents(map) \subseteq K
  BY <1>7 DEF DoomedDependents
<1>9. QED  BY <1>5, <1>6, <1>8 DEF L

-----------------------------------------------------------------------------
\* What holds before a step that no operator has disturbed.
LEMMA SettlingFacts ==
    ASSUME GraphInv, SoundInv, Settling, Unattended
    PROVE  /\ Ended \in SUBSET Nodes /\ produced \in SUBSET Nodes /\ row \in [Nodes -> Rows]
           /\ HopelessNow \subseteq Nodes /\ HopelessNow \cap produced = {}
           /\ \A n \in Nodes : row[n].st \in Working => Deps[n] \subseteq produced
           /\ \A n \in produced : Deps[n] \subseteq produced
           /\ \A n \in Nodes : row[n].st = "completed" <=> n \in produced
           /\ frame[Operator].pc = "idle"
           /\ \A n \in Nodes : Deps[n] \subseteq produced /\ n \notin Ended => n \notin HopelessNow
<1>1. Ended \in SUBSET Nodes /\ produced \in SUBSET Nodes /\ row \in [Nodes -> Rows]
  BY DEF Ended, GraphInv, TypeOK
<1>2. HopelessNow \subseteq Nodes /\ Lost(HopelessNow, Ended, produced)
  BY <1>1, HopelessFacts DEF HopelessNow
<1>3. \A n \in Nodes : Grounded(row[n].st, n, produced)
  BY DEF GraphInv, RowsGrounded
<1>4. frame[Operator].pc = "idle"
  BY DEF SoundInv, Undisturbed, Unattended
<1>5. QED  BY <1>1, <1>2, <1>3, <1>4 DEF Lost, Grounded, Working, Settling

\* A step of w after which the rows still tell the truth.
LEMMA Advance ==
    ASSUME GraphInv, Settling, NEW w \in Workers, NEW f, frame' = [frame EXCEPT ![w] = f],
           HopelessNow \subseteq HopelessNow',
           \A v \in Workers \ {w} : frame[v].pc \in Early => frame[v].node \notin Ended',
           WorkerTells(f, Ended', HopelessNow'),
           \A n \in produced' : row'[n].st = "completed",
           \A n \in Ended' : Deps[n] \subseteq produced',
           \A n \in Nodes : Tells(row'[n], n, HopelessNow'),
           mission' \in MissionTerminal => Nodes \subseteq produced' \cup HopelessNow'
    PROVE  Settling'
<1>1. frame \in [Actors -> Frames] /\ Workers \subseteq Actors
  BY DEF GraphInv, TypeOK, Actors
<1>2. ASSUME NEW v \in Workers PROVE WorkerTells(frame'[v], Ended', HopelessNow')
  <2>1. CASE v = w  BY <1>1, <2>1
  <2>2. CASE v # w
    <3>1. frame'[v] = frame[v] /\ WorkerTells(frame[v], Ended, HopelessNow)
      BY <1>1, <2>2 DEF Settling
    <3>2. QED  BY <2>2, <3>1 DEF WorkerTells, Tells
  <2>3. QED  BY <2>1, <2>2
<1>3. QED  BY <1>2 DEF Settling

\* A step of w that writes no row, result or mission.
LEMMA SettlingQuiet ==
    ASSUME GraphInv, Settling, NEW w \in Workers, NEW f, frame' = [frame EXCEPT ![w] = f],
           UNCHANGED <<row, produced, mission>>, WorkerTells(f, Ended, HopelessNow)
    PROVE  Settling'
<1>1. Ended' = Ended /\ HopelessNow' = HopelessNow  BY DEF Ended, HopelessNow
<1>2. QED  BY <1>1, Advance DEF Settling, WorkerTells

\* A step of w that writes the row of its task, which it does not complete.
LEMMA SettlingWrite ==
    ASSUME GraphInv, SoundInv, Settling, Unattended, NEW w \in Workers, NEW f, NEW rw \in Rows,
           frame' = [frame EXCEPT ![w] = f], row' = [row EXCEPT ![frame[w].node] = rw],
           frame[w].pc \in Early, UNCHANGED <<mission, produced>>,
           rw.st \notin {"completed", "cancelled"}, "dep_failed" \notin rw.mt,
           rw.st \in Failedish => Deps[frame[w].node] \subseteq produced,
           rw.st \in Failedish => f.pc \notin Early,
           f.node = frame[w].node \/ f.pc \notin Early,
           f.pc \in {"lock", "siblings", "defer", "keep", "start"} => f.map[f.node].st = "queued",
           DOMAIN f.map = {} \/ f.map = frame[w].map
    PROVE  Settling'
<1> DEFINE n == frame[w].node
<1>0. n \in Nodes /\ row[n].st # "completed" /\ n \notin Ended
  BY WorkerFacts DEF Holds, Early, Settling, WorkerTells
<1>1. /\ Ended \in SUBSET Nodes /\ produced \in SUBSET Nodes /\ row \in [Nodes -> Rows]
      /\ HopelessNow \cap produced = {} /\ n \notin produced
  BY <1>0, SettlingFacts
<1>2. row'[n] = rw /\ \A m \in Nodes \ {n} : row'[m] = row[m]
  BY <1>0, <1>1
<1>3. Ended' = IF rw.st \in {"failed", "dead_lettered", "blocked"} THEN Ended \cup {n} ELSE Ended
  BY <1>0, <1>2 DEF Ended
<1>4. Ended \subseteq Ended' /\ Ended' \in SUBSET Nodes /\ produced' = produced
  BY <1>0, <1>1, <1>3
<1>5. HopelessNow \subseteq HopelessNow' /\ Ended' \ produced' \subseteq HopelessNow'
  BY <1>1, <1>4, HopelessGrows, HopelessFacts DEF HopelessNow
<1>6. \A m \in Nodes : Tells(row'[m], m, HopelessNow')
  <2>1. Tells(rw, n, HopelessNow')
    BY <1>0, <1>1, <1>3, <1>4, <1>5 DEF Tells, Failedish
  <2>2. \A m \in Nodes : Tells(row[m], m, HopelessNow)  BY DEF Settling
  <2>3. QED  BY <1>2, <1>5, <2>1, <2>2 DEF Tells
<1>7. \A m \in Ended' : Deps[m] \subseteq produced'
  BY <1>3, <1>4 DEF Settling, Failedish
<1>8. \A v \in Workers \ {w} : frame[v].pc \in Early => frame[v].node \notin Ended'
  BY <1>3, OwnersDiffer DEF Settling, WorkerTells, Early
<1>9. WorkerTells(f, Ended', HopelessNow')
  <2>1. WorkerTells(frame[w], Ended, HopelessNow)  BY DEF Settling
  <2>2. f.pc \in Early => f.node \notin Ended'
    BY <1>0, <1>3 DEF Failedish
  <2>3. \A m \in DOMAIN f.map : Tells(f.map[m], m, HopelessNow')
    BY <1>5, <2>1 DEF WorkerTells, Tells
  <2>4. QED  BY <2>2, <2>3 DEF WorkerTells
<1>10. /\ \A m \in produced' : row'[m].st = "completed"
       /\ mission' \in MissionTerminal => Nodes \subseteq produced' \cup HopelessNow'
  BY <1>1, <1>2, <1>4, <1>5 DEF Settling
<1>11. QED  BY <1>5, <1>6, <1>7, <1>8, <1>9, <1>10, Advance

-----------------------------------------------------------------------------
\* The rollup of a report: what it blocks is hopeless, it re-admits nothing, and a
\* verdict means that every node has its result or is hopeless.
LEMMA SettlingRollup ==
    ASSUME GraphInv, SoundInv, Settling, Unattended, NEW w \in Workers, RollupCommit(w)
    PROVE  Settling'
<1> DEFINE f0 == frame[w]
           n == f0.node
           out == f0.out
           old == f0.map
           ms == f0.ms
           mine == [old EXCEPT ![n] = Outcome(@, out)]
           r == Rollup(mine, ms)
           new == Rolled(mine, r)
           E1 == Ended \cup (IF out = "failed" THEN {n} ELSE {})
           P1 == produced'
           L1 == Hopeless(E1, P1)
<1> USE GraphAssumption
<1>0. /\ w \in Actors /\ w # Operator /\ f0 \in Frames
      /\ WorkerFrameOK(f0, produced) /\ FrameOK(w, f0, produced)
      /\ Holds(w, f0, row, live, owner) /\ (f0.pc # "idle" => n \in Nodes)
      /\ f0.map \in Maps /\ row \in [Nodes -> Rows]
  BY WorkerFacts, FrameFacts
<1>1. /\ n \in Nodes /\ f0.pc = "commit" /\ Settle(w, n, out, old, ms)
      /\ DOMAIN old = Nodes /\ out \in {"completed", "failed"} /\ old[n].st = "running"
      /\ ms \in MissionStates /\ row[n].st = "running"
  BY <1>0 DEF RollupCommit, At, Node, FrameOK, WorkerFrameOK, Frames, Holds, Reporting
<1>2. old \in [Nodes -> Rows] /\ \A m \in Nodes : old[m].st = "completed" => m \in produced
  BY <1>0, <1>1, MapElim DEF FrameOK, Grounded
<1>3. \A m \in Nodes : Tells(old[m], m, HopelessNow)
  BY <1>1 DEF Settling, WorkerTells
<1>4. PICK verdict \in Verdicts(new, ms) :
        /\ row' = Written(old, new, n)
        /\ mission' = IF verdict = ms THEN mission ELSE verdict
        /\ frame' = [frame EXCEPT ![w] = AfterSettle(w, new, verdict)]
        /\ produced' = IF out = "completed" THEN produced \cup {n} ELSE produced
  BY <1>1 DEF Settle
<1> DEFINE f == AfterSettle(w, new, verdict)
<1>5. f.pc \in {"consume", "bury"} /\ f.node = n /\ DOMAIN f.map = {}
  <2>1. f = [Idle EXCEPT !.node = n, !.pc = IF out = "completed" THEN "consume" ELSE "bury"]
    BY <1>0 DEF AfterSettle
  <2>2. QED  BY <2>1, IdleType DEF Frames
<1> HIDE DEF f0, n, out, old, ms, f
\* Before the step, the own node is neither done nor hopeless.
<1>6. /\ Ended \in SUBSET Nodes /\ produced \in SUBSET Nodes
      /\ HopelessNow \subseteq Nodes /\ HopelessNow \cap produced = {}
      /\ \A m \in produced : Deps[m] \subseteq produced
      /\ n \notin produced /\ n \notin Ended /\ Deps[n] \subseteq produced /\ n \notin HopelessNow
      /\ \A m \in Ended : Deps[m] \subseteq produced
      /\ \A m \in Nodes : Tells(row[m], m, HopelessNow)
  <2>1. n \notin Ended  BY <1>1 DEF Ended
  <2>2. Deps[n] \subseteq produced /\ n \notin produced
    BY <1>1, SettlingFacts DEF Working
  <2>3. QED  BY <1>1, <2>1, <2>2, SettlingFacts DEF Settling
<1>7. /\ E1 \in SUBSET Nodes /\ P1 \in SUBSET Nodes /\ Ended \subseteq E1 /\ produced \subseteq P1
      /\ \A m \in P1 : Deps[m] \subseteq P1
      /\ HopelessNow \subseteq L1 /\ L1 \cap P1 = {} /\ L1 \subseteq Nodes
      /\ out = "failed" => n \in L1
  <2>1. E1 \in SUBSET Nodes /\ P1 \in SUBSET Nodes /\ Ended \subseteq E1 /\ produced \subseteq P1
        /\ \A m \in P1 : Deps[m] \subseteq P1
    BY <1>1, <1>4, <1>6
  <2>2. HopelessNow \cap P1 = {}
    BY <1>4, <1>6
  <2> HIDE DEF P1
  <2>3. out = "failed" => n \in E1 \ P1
    BY <1>4, <1>6 DEF P1
  <2> HIDE DEF E1
  <2>4. HopelessNow \subseteq L1
    BY <1>6, <2>1, <2>2, HopelessGrows DEF HopelessNow
  <2>5. L1 \cap P1 = {} /\ L1 \subseteq Nodes /\ E1 \ P1 \subseteq L1
    BY <2>1, HopelessFacts DEF Lost
  <2>6. QED  BY <2>1, <2>3, <2>4, <2>5
<1> HIDE DEF E1, P1, L1
\* The rows on which the rollup decides.
<1>8. /\ mine \in [Nodes -> Rows] /\ \A m \in Nodes \ {n} : mine[m] = old[m]
      /\ mine[n].st = out /\ "dep_failed" \notin mine[n].mt
  <2>1. Outcome(old[n], out) \in Rows /\ Outcome(old[n], out).st = out
        /\ "dep_failed" \notin Outcome(old[n], out).mt
    BY <1>1, <1>2, OutcomeType DEF Outcome
  <2>2. QED  BY <1>1, <1>2, <2>1
<1> HIDE DEF mine
<1>9. /\ \A m \in Nodes : Tells(mine[m], m, L1)
      /\ \A m \in Nodes : mine[m].st = "completed" => m \in P1
  <2>1. ASSUME NEW m \in Nodes \ {n}
        PROVE  Tells(mine[m], m, L1) /\ (mine[m].st = "completed" => m \in P1)
    BY <1>2, <1>3, <1>7, <1>8 DEF Tells
  <2>2. Tells(mine[n], n, L1)
    BY <1>1, <1>7, <1>8 DEF Tells, Failedish
  <2>3. mine[n].st = "completed" => n \in P1
    BY <1>4, <1>8 DEF P1
  <2>4. QED  BY <2>1, <2>2, <2>3
<1>10. /\ r.recovered = {}
       /\ \A m \in r.doomed : /\ m \in Nodes /\ mine[m].st \in {"queued", "claimed"}
                              /\ m \in L1 /\ Deps[m] \cap L1 # {}
       /\ \A m \in r.redispatched : m \in Nodes /\ mine[m].st = "queued" /\ Deps[m] \subseteq P1
  <2>1. CASE ms \in MissionTerminal
    BY <2>1 DEF Rollup, Pass
  <2>2. CASE ms \notin MissionTerminal
    <3>1. \A m \in Nodes : Tells(mine[m], m, Hopeless(E1, P1))
      BY <1>9 DEF L1
    <3>2. /\ RecoveredDependents(mine) = {}
          /\ \A m \in DoomedDependents(mine) :
               m \in Nodes /\ mine[m].st \in {"queued", "claimed"}
               /\ m \in Hopeless(E1, P1) /\ Deps[m] \cap Hopeless(E1, P1) # {}
          /\ \A m \in RedispatchedDependents(mine) :
               m \in Nodes /\ mine[m].st = "queued" /\ Deps[m] \subseteq P1
      BY <1>7, <1>8, <1>9, <3>1, TruthfulRollup
    <3>3. /\ r.recovered = RecoveredDependents(mine) /\ r.doomed = DoomedDependents(mine)
          /\ r.redispatched = RedispatchedDependents(mine)
      BY <2>2 DEF Rollup
    <3>4. QED  BY <3>2, <3>3 DEF L1
  <2>3. QED  BY <2>1, <2>2
<1> HIDE DEF r
<1>11. \A m \in Nodes :
         /\ new[m].st = IF m \in r.doomed THEN "blocked" ELSE mine[m].st
         /\ m \in r.doomed => "dep_failed" \in new[m].mt
         /\ m \notin r.doomed /\ m \notin r.redispatched => new[m].mt = mine[m].mt
         /\ m \notin r.doomed /\ "dep_failed" \in new[m].mt => "dep_failed" \in mine[m].mt
  <2>1. ASSUME NEW m \in Nodes
        PROVE  new[m].mt = (mine[m].mt \ {x \in Facts : x = "deferred" /\ m \in r.redispatched})
                           \cup {x \in {"dep_failed"} : m \in r.doomed}
    BY <1>10 DEF Rolled
  <2>2. \A m \in Nodes : new[m].st = IF m \in r.doomed THEN "blocked" ELSE mine[m].st
    BY <1>10 DEF Rolled
  <2>3. \A m \in Nodes \ r.redispatched : new[m].mt = mine[m].mt \cup {x \in {"dep_failed"} : m \in r.doomed}
    BY <2>1
  <2>4. QED  BY <2>1, <2>2, <2>3
<1>w. \A m \in Nodes :
        /\ row'[m].st = IF new[m].st = old[m].st THEN row[m].st ELSE new[m].st
        /\ row'[m].mt = IF m # n /\ new[m].mt = old[m].mt THEN row[m].mt ELSE new[m].mt
  BY <1>4 DEF Written
<1> HIDE DEF new
\* What it leaves of the other rows, and of its own.
<1>12. ASSUME NEW m \in Nodes \ {n}
       PROVE  \/ /\ m \in L1 /\ Deps[m] \cap L1 # {}
                 /\ row'[m].st = "blocked" /\ "dep_failed" \in row'[m].mt
              \/ /\ row'[m].st = row[m].st
                 /\ "dep_failed" \in row'[m].mt <=> "dep_failed" \in row[m].mt
  <2>1. mine[m] = old[m]  BY <1>8
  <2>2. CASE m \in r.doomed
    <3>1. "dep_failed" \notin old[m].mt /\ old[m].st # "blocked"
      BY <1>3, <1>10, <2>1, <2>2 DEF Tells
    <3>2. row'[m].st = "blocked" /\ "dep_failed" \in row'[m].mt
      BY <1>11, <1>w, <2>2, <3>1
    <3>3. QED  BY <1>10, <2>2, <3>2
  <2>3. CASE m \notin r.doomed
    <3>1. row'[m].st = row[m].st
      BY <1>11, <1>w, <2>1, <2>3
    <3>2. CASE m \in r.redispatched
      <4>1. "dep_failed" \notin old[m].mt /\ "dep_failed" \notin row[m].mt
        BY <1>3, <1>6, <1>7, <1>10, <2>1, <3>2 DEF Tells
      <4>2. "dep_failed" \notin new[m].mt
        BY <1>11, <2>1, <2>3, <4>1
      <4>3. QED  BY <1>w, <3>1, <4>1, <4>2
    <3>3. CASE m \notin r.redispatched
      BY <1>11, <1>w, <2>1, <2>3, <3>1, <3>3
    <3>4. QED  BY <3>2, <3>3
  <2>4. QED  BY <2>2, <2>3
<1>13. row'[n].st = out /\ "dep_failed" \notin row'[n].mt
  <2>1. n \notin r.doomed  BY <1>1, <1>8, <1>10
  <2>2. new[n].st = out /\ "dep_failed" \notin new[n].mt
    BY <1>1, <1>8, <1>11, <2>1
  <2>3. QED  BY <1>1, <1>w, <2>2
<1>14. Ended' = E1
  <2>1. ASSUME NEW m \in Nodes \ {n} PROVE m \in Ended' <=> m \in Ended
    <3>1. m \in L1 /\ Deps[m] \cap L1 # {} => m \notin Ended
      BY <1>6, <1>7
    <3>2. QED  BY <1>12, <3>1 DEF Ended
  <2>2. n \in Ended' <=> out = "failed"
    BY <1>1, <1>13 DEF Ended
  <2>3. Ended' \subseteq Nodes  BY DEF Ended
  <2>4. QED  BY <1>1, <1>6, <1>7, <2>1, <2>2, <2>3 DEF E1
<1>15. HopelessNow' = L1
  BY <1>14 DEF HopelessNow, L1, P1
<1>16. \A m \in produced' : row'[m].st = "completed"
  <2>1. ASSUME NEW m \in produced', m # n PROVE row'[m].st = "completed"
    <3>1. m \in Nodes \ {n} /\ m \in P1 /\ row[m].st = "completed"
      BY <1>4, <1>7, <2>1 DEF P1, Settling
    <3>2. QED  BY <1>7, <1>12, <3>1
  <2>2. n \in produced' => out = "completed"
    BY <1>4, <1>6
  <2>3. QED  BY <1>13, <2>1, <2>2
<1>17. \A m \in Ended' : Deps[m] \subseteq produced'
  BY <1>6, <1>7, <1>14 DEF E1, P1
<1>18. \A m \in Nodes : Tells(row'[m], m, HopelessNow')
  <2>1. ASSUME NEW m \in Nodes \ {n} PROVE Tells(row'[m], m, L1)
    BY <1>6, <1>7, <1>12 DEF Tells, Failedish
  <2>2. Tells(row'[n], n, L1)
    BY <1>1, <1>7, <1>13 DEF Tells, Failedish
  <2>3. QED  BY <1>15, <2>1, <2>2
<1>19. mission' \in MissionTerminal => Nodes \subseteq produced' \cup HopelessNow'
  <2>1. mission \notin MissionTerminal
    BY <1>1, <1>6 DEF Settling
  <2>2. ASSUME mission' \in MissionTerminal, NEW m \in Nodes PROVE m \in P1 \cup L1
    <3>1. verdict # ms /\ verdict \in MissionTerminal
      BY <1>4, <2>1, <2>2
    <3>2. new[m].st \in Terminal
      BY <3>1 DEF Verdicts, MissionTerminal
    <3>3. CASE m \in r.doomed  BY <1>10, <3>3
    <3>4. CASE m \notin r.doomed
      <4>1. mine[m].st \in Terminal /\ Tells(mine[m], m, L1)
            /\ (mine[m].st = "completed" => m \in P1)
        BY <1>9, <1>11, <3>2, <3>4
      <4>2. QED  BY <4>1 DEF Tells, Terminal, Failedish
    <3>5. QED  BY <3>3, <3>4
  <2>3. QED  BY <1>15, <2>2 DEF P1
<1>20. \A v \in Workers \ {w} : frame[v].pc \in Early => frame[v].node \notin Ended'
  <2>1. \A v \in Workers \ {w} : frame[v].pc \in Early => frame[v].node # n /\ frame[v].node \notin Ended
    BY <1>1, OwnersDiffer DEF Settling, WorkerTells, Early, f0, n
  <2>2. QED  BY <1>14, <2>1 DEF E1
<1>21. WorkerTells(f, Ended', HopelessNow')
  BY <1>5 DEF WorkerTells, Early
<1>22. frame' = [frame EXCEPT ![w] = f]
  BY <1>4 DEF f
<1>23. HopelessNow \subseteq HopelessNow'
  BY <1>7, <1>15
<1>24. QED  BY <1>16, <1>17, <1>18, <1>19, <1>20, <1>21, <1>22, <1>23, Advance

\* The other steps of a worker.
LEMMA SettlingWorker ==
    ASSUME GraphInv, SoundInv, Settling, Unattended, NEW w \in Workers,
           WorkerStep(w) \/ LoseWorker(w), ~RollupCommit(w)
    PROVE  Settling'
<1> DEFINE f0 == frame[w]
           n == f0.node
<1>0. /\ w \in Actors /\ f0 \in Frames /\ f0.map \in Maps /\ row \in [Nodes -> Rows]
      /\ WorkerFrameOK(f0, produced) /\ Holds(w, f0, row, live, owner)
      /\ f0.pc # "idle" => n \in Nodes
      /\ WorkerTells(f0, Ended, HopelessNow)
      /\ \A m \in Nodes : Tells(row[m], m, HopelessNow)
      /\ \A m \in Nodes : row[m].st \in Working => Deps[m] \subseteq produced
  BY WorkerFacts, SettlingFacts DEF Settling
<1>1. ASSUME NEW pc \in {"consume", "siblings", "defer", "keep"}, Goto(w, pc),
             pc # "consume" => f0.pc \in {"lock", "siblings"}, UNCHANGED dbVars
      PROVE Settling'
  <2> DEFINE f == [f0 EXCEPT !.pc = pc]
  <2>1. f.pc = pc /\ f.node = n /\ f.map = f0.map /\ frame' = [frame EXCEPT ![w] = f]
    BY <1>0, <1>1 DEF Frames, Goto
  <2> HIDE DEF f
  <2>2. WorkerTells(f, Ended, HopelessNow)
    BY <1>0, <1>1, <2>1 DEF WorkerTells, Early
  <2>3. QED  BY <1>1, <2>1, <2>2, SettlingQuiet DEF dbVars
<1>2. ASSUME Done(w), UNCHANGED dbVars PROVE Settling'
  <2>1. WorkerTells(Idle, Ended, HopelessNow)
    BY IdleType DEF WorkerTells, Early
  <2>2. QED  BY <1>2, <2>1, SettlingQuiet DEF Done, dbVars
<1>3. CASE ClaimNext(w)
  <2>1. PICK m \in Nodes : frame' = [frame EXCEPT ![w].pc = "read", ![w].node = m]
    BY <1>3 DEF ClaimNext
  <2> DEFINE f == [f0 EXCEPT !.pc = "read", !.node = m]
  <2>2. f.pc = "read" /\ f.map = f0.map /\ frame' = [frame EXCEPT ![w] = f]
    BY <1>0, <2>1 DEF Frames
  <2> HIDE DEF f
  <2>3. WorkerTells(f, Ended, HopelessNow)
    BY <1>0, <2>2 DEF WorkerTells, Early
  <2>4. QED  BY <1>3, <2>2, <2>3, SettlingQuiet DEF ClaimNext, dbVars
<1>4. CASE ReadTask(w)
  <2>1. f0.pc = "read" /\ n \in Nodes /\ UNCHANGED dbVars
    BY <1>0, <1>4 DEF ReadTask, At
  <2>2. CASE Goto(w, "consume")  BY <1>1, <2>1, <2>2
  <2>3. CASE row[n].st = "queued" /\ frame' = [frame EXCEPT ![w].pc = "lock", ![w].map = Loaded(EmptyMap, {n})]
    <3> DEFINE mp == Loaded(EmptyMap, {n})
               f == [f0 EXCEPT !.pc = "lock", !.map = mp]
    <3>1. DOMAIN mp = {n} /\ mp[n] = row[n]
      BY <1>0, <2>1, LoadOne
    <3> HIDE DEF mp
    <3>2. f.pc = "lock" /\ f.node = n /\ f.map = mp
      BY <1>0 DEF Frames
    <3>3. frame' = [frame EXCEPT ![w] = f]
      BY <2>3 DEF mp
    <3> HIDE DEF f
    <3>4. WorkerTells(f, Ended, HopelessNow)
      BY <1>0, <2>1, <2>3, <3>1, <3>2 DEF WorkerTells, Early, Ended
    <3>5. QED  BY <2>1, <3>3, <3>4, SettlingQuiet DEF dbVars
  <2>4. QED  BY <1>4, <2>2, <2>3 DEF ReadTask, Node
<1>5. CASE LockTask(w) \/ ReadDependencies(w)
  BY <1>1, <1>5 DEF LockTask, ReadDependencies, At
<1>6. CASE ConsumeDelivery(w) \/ BuryDelivery(w) \/ ReportRefused(w)
  BY <1>2, <1>6 DEF ConsumeDelivery, BuryDelivery, ReportRefused
<1>7. ASSUME f0.pc \in {"lock", "siblings", "defer", "keep", "start"}
      PROVE  /\ f0.map[n].st = "queued" /\ f0.map[n].mt \subseteq Facts
             /\ "dep_failed" \notin f0.map[n].mt
  <2>1. n \in DOMAIN f0.map /\ f0.map[n] \in Rows
    BY <1>0, <1>7, MapElim DEF WorkerFrameOK
  <2>2. QED  BY <1>0, <1>7, <2>1 DEF WorkerTells, Tells, Rows
<1>8. CASE DeferCommit(w)
  <2> DEFINE f == [f0 EXCEPT !.pc = "consume", !.map = EmptyMap]
             rw == [st |-> "queued", mt |-> f0.map[n].mt \cup {"deferred"}]
  <2>1. f.pc = "consume" /\ f.node = n /\ DOMAIN f.map = {}
    BY <1>0, EmptyMapType DEF Frames
  <2>2. frame' = [frame EXCEPT ![w] = f] /\ f0.pc = "defer" /\ UNCHANGED <<mission, produced>>
        /\ row' = [row EXCEPT ![n] = rw]
    BY <1>8 DEF DeferCommit, At, Node
  <2>3. rw \in Rows /\ rw.st = "queued" /\ "dep_failed" \notin rw.mt
    BY <1>7, <2>2 DEF Rows, TaskStates, Facts
  <2>4. /\ rw.st \notin {"completed", "cancelled"} /\ rw.st \notin Failedish /\ f0.pc \in Early
        /\ f.pc \in {"lock", "siblings", "defer", "keep", "start"} => f.map[f.node].st = "queued"
    BY <1>7, <2>1, <2>2, <2>3 DEF Failedish, Early
  <2> HIDE DEF f, rw
  <2>5. QED  BY <2>1, <2>2, <2>3, <2>4, SettlingWrite
<1>9. CASE ClaimCommit(w)
  <2> DEFINE f == [f0 EXCEPT !.pc = "start"]
             rw == [st |-> "claimed", mt |-> f0.map[n].mt]
  <2>1. f.pc = "start" /\ f.node = n /\ f.map = f0.map
    BY <1>0 DEF Frames
  <2>2. frame' = [frame EXCEPT ![w] = f] /\ f0.pc = "keep" /\ UNCHANGED <<mission, produced>>
        /\ row' = [row EXCEPT ![n] = rw]
    BY <1>9 DEF ClaimCommit, At, Node, Goto
  <2>3. rw \in Rows /\ rw.st = "claimed" /\ "dep_failed" \notin rw.mt
    BY <1>7, <2>2 DEF Rows, TaskStates, Facts
  <2>4. /\ rw.st \notin {"completed", "cancelled"} /\ rw.st \notin Failedish /\ f0.pc \in Early
        /\ f.pc \in {"lock", "siblings", "defer", "keep", "start"} => f.map[f.node].st = "queued"
    BY <1>7, <2>1, <2>2, <2>3 DEF Failedish, Early
  <2> HIDE DEF f, rw
  <2>5. QED  BY <2>1, <2>2, <2>3, <2>4, SettlingWrite
<1>10. CASE StartExecution(w)
  <2> DEFINE f == [f0 EXCEPT !.pc = "run", !.map = EmptyMap]
             rw == [st |-> "running", mt |-> f0.map[n].mt]
  <2>1. f.pc = "run" /\ f.node = n /\ DOMAIN f.map = {}
    BY <1>0, EmptyMapType DEF Frames
  <2>2. frame' = [frame EXCEPT ![w] = f] /\ f0.pc = "start" /\ UNCHANGED <<mission, produced>>
        /\ row' = [row EXCEPT ![n] = rw]
    BY <1>10 DEF StartExecution, At, Node
  <2>3. rw \in Rows /\ rw.st = "running" /\ "dep_failed" \notin rw.mt
    BY <1>7, <2>2 DEF Rows, TaskStates, Facts
  <2>4. /\ rw.st \notin {"completed", "cancelled"} /\ rw.st \notin Failedish /\ f0.pc \in Early
        /\ f.pc \in {"lock", "siblings", "defer", "keep", "start"} => f.map[f.node].st = "queued"
    BY <1>7, <2>1, <2>2, <2>3 DEF Failedish, Early
  <2> HIDE DEF f, rw
  <2>5. QED  BY <2>1, <2>2, <2>3, <2>4, SettlingWrite
<1>11. ASSUME NEW out \in {"completed", "failed"}, BeginReport(w, out) PROVE Settling'
  <2> DEFINE mp == Loaded(EmptyMap, {n})
             f == [f0 EXCEPT !.pc = "rollup", !.out = out, !.map = mp, !.ms = mission]
  <2>1. n \in Nodes /\ f0.pc = "run" /\ UNCHANGED dbVars /\ frame' = [frame EXCEPT ![w] = f]
    BY <1>0, <1>11 DEF BeginReport, At, Node
  <2>2. DOMAIN mp = {n} /\ mp[n] = row[n]
    BY <1>0, <2>1, LoadOne
  <2> HIDE DEF mp
  <2>3. f.pc = "rollup" /\ f.node = n /\ f.map = mp
    BY <1>0 DEF Frames
  <2> HIDE DEF f
  <2>4. WorkerTells(f, Ended, HopelessNow)
    BY <1>0, <2>1, <2>2, <2>3 DEF WorkerTells, Early
  <2>5. QED  BY <2>1, <2>4, SettlingQuiet DEF dbVars
<1>12. ASSUME NEW st \in {"queued", "dead_lettered", "blocked"}, NEW f, n \in Nodes,
              f0.pc \in Early, row[n].st \in {"claimed", "running"}, UNCHANGED <<mission, produced>>,
              row' = [row EXCEPT ![n].st = st], frame' = [frame EXCEPT ![w] = f],
              f.pc \in {"idle", "consume"}, DOMAIN f.map = {} \/ f.map = f0.map
       PROVE Settling'
  <2> DEFINE rw == [row[n] EXCEPT !.st = st]
  <2>1. rw \in Rows /\ rw.st = st /\ rw.mt = row[n].mt /\ row' = [row EXCEPT ![n] = rw]
    BY <1>0, <1>12 DEF Rows, TaskStates
  <2>2. "dep_failed" \notin rw.mt /\ Deps[n] \subseteq produced
    BY <1>0, <1>12, <2>1 DEF Tells, Working
  <2> HIDE DEF rw
  <2>3. QED  BY <1>12, <2>1, <2>2, SettlingWrite DEF Early
<1>13. CASE BlockCompletionFailure(w)
  <2> DEFINE f == [f0 EXCEPT !.pc = "consume"]
  <2>1. f.pc = "consume" /\ f.map = f0.map
    BY <1>0 DEF Frames
  <2>2. n \in Nodes /\ f0.pc \in Early /\ row[n].st = "running" /\ UNCHANGED <<mission, produced>>
        /\ row' = [row EXCEPT ![n].st = "blocked"] /\ frame' = [frame EXCEPT ![w] = f]
    BY <1>0, <1>13 DEF BlockCompletionFailure, At, Node, Goto, Early
  <2> HIDE DEF f
  <2>3. QED  BY <1>12, <2>1, <2>2
<1>14. CASE LoseWorker(w)
  <2>1. n \in Nodes /\ f0.pc \in Early /\ row[n].st \in {"claimed", "running"}
        /\ UNCHANGED <<mission, produced>> /\ frame' = [frame EXCEPT ![w] = Idle]
    BY <1>0, <1>14 DEF LoseWorker, At, Node, Done, Early
  <2>2. PICK st \in {"queued", "dead_lettered", "blocked"} : row' = [row EXCEPT ![n].st = st]
    BY <1>14 DEF LoseWorker, Node
  <2>3. Idle.pc \in {"idle", "consume"} /\ DOMAIN Idle.map = {}  BY IdleType
  <2> HIDE DEF f0, n
  <2>4. QED  BY <1>12, <2>1, <2>2, <2>3
<1>15. CASE RollupRead(w)
  <2> DEFINE mp == Loaded(f0.map, Nodes)
             f == [f0 EXCEPT !.pc = "commit", !.map = mp]
  <2>1. n \in Nodes /\ f0.pc = "rollup" /\ UNCHANGED dbVars /\ frame' = [frame EXCEPT ![w] = f]
    BY <1>0, <1>15 DEF RollupRead, At
  <2>2. /\ DOMAIN mp = Nodes \cup DOMAIN f0.map /\ DOMAIN f0.map \subseteq Nodes
        /\ \A m \in Nodes \cup DOMAIN f0.map :
             mp[m] = IF m \in DOMAIN f0.map THEN f0.map[m] ELSE row[m]
    BY <1>0, LoadedType, MapElim
  <2> HIDE DEF mp
  <2>3. f.pc = "commit" /\ f.node = n /\ f.map = mp
    BY <1>0 DEF Frames
  <2> HIDE DEF f
  <2>4. \A m \in DOMAIN mp : Tells(mp[m], m, HopelessNow)
    BY <1>0, <2>2 DEF WorkerTells
  <2>5. WorkerTells(f, Ended, HopelessNow)
    BY <1>0, <2>1, <2>3, <2>4 DEF WorkerTells, Early
  <2>6. QED  BY <2>1, <2>5, SettlingQuiet DEF dbVars
<1>16. QED
  BY <1>3, <1>4, <1>5, <1>6, <1>8, <1>9, <1>10, <1>11, <1>13, <1>14, <1>15 DEF WorkerStep

-----------------------------------------------------------------------------
\* What a step of the system does when no operator intervenes.
UndisturbedStep ==
    \/ \E w \in Workers : RollupCommit(w)
    \/ \E w \in Workers : (WorkerStep(w) \/ LoseWorker(w)) /\ ~RollupCommit(w)
    \/ UNCHANGED <<row, mission, frame, produced>>

\* Without an operator's intervention, before or in the step, the operator does nothing.
LEMMA OperatorIdle ==
    ASSUME GraphInv, SoundInv, [Next]_vars, Unattended'
    PROVE  Unattended /\ UndisturbedStep
<1>1. Unattended
  <2>1. ops \subseteq ops'
    BY DEF Next, vars, WorkerStep, ClaimNext, ReadTask, LockTask, ReadDependencies, DeferCommit,
           ClaimCommit, StartExecution, ConsumeDelivery, BuryDelivery, BeginReport, ReportRefused,
           BlockCompletionFailure, RollupRead, RollupCommit, LoseWorker, Deadlock, OperatorStep,
           CancelFlush, SweepTask, SweepEnd, OperatorCall, SweepRead, CancelRead, RetryTask,
           Background, PublisherStep, ReadDispatch, PublishDispatch, RefuseDispatch, RecordDispatch,
           ReconcileCancelled, ReconcileProcessing, Spend
  <2>2. QED  BY <2>1 DEF Unattended
<1>2. frame[Operator].pc = "idle"
  BY <1>1 DEF Unattended, SoundInv, Undisturbed
<1>3. ~OperatorStep /\ \A w \in Workers : ~Deadlock(w)
  BY <1>2 DEF OperatorStep, RollupRead, RollupCommit, CancelFlush, SweepTask, SweepEnd, Sweeping,
              Deadlock, At
<1>4. ~OperatorCall
  BY DEF OperatorCall, SweepRead, CancelRead, RetryTask, Spend, Unattended
<1>5. ASSUME NEW n \in Nodes, Background(n) PROVE UNCHANGED <<row, mission, frame, produced>>
  BY <1>5 DEF Background, ReconcileCancelled, ReconcileProcessing, dbVars
<1>6. UNCHANGED vars => UNCHANGED <<row, mission, frame, produced>>
  BY DEF vars
<1>7. ASSUME NEW x \in Publishers, PublisherStep(x) PROVE UNCHANGED <<row, mission, frame, produced>>
  BY <1>7, PublisherKeeps
<1>8. UndisturbedStep
  BY <1>3, <1>4, <1>5, <1>6, <1>7 DEF Next, UndisturbedStep
<1>9. QED  BY <1>1, <1>8

\* While no operator intervenes, the rows and the copies of them tell the truth about
\* what can still have a result, and a verdict means that nothing can.
THEOREM SettlingInvariant == Spec => []SettlingInv
<1>1. Init => SettlingInv
  BY IdleType, GraphAssumption
     DEF Init, SettlingInv, Settling, Ended, Tells, WorkerTells, Failedish, Early, MissionTerminal, Actors
<1>2. GraphInv /\ SoundInv /\ SettlingInv /\ [Next]_vars => SettlingInv'
  <2> SUFFICES ASSUME GraphInv, SoundInv, SettlingInv, [Next]_vars, Unattended' PROVE Settling'
    BY DEF SettlingInv
  <2>1. Unattended /\ Settling /\ UndisturbedStep
    BY OperatorIdle DEF SettlingInv
  <2>2. ASSUME NEW w \in Workers, RollupCommit(w) PROVE Settling'
    BY <2>1, <2>2, SettlingRollup
  <2>3. ASSUME NEW w \in Workers, WorkerStep(w) \/ LoseWorker(w), ~RollupCommit(w) PROVE Settling'
    BY <2>1, <2>3, SettlingWorker
  <2>4. CASE UNCHANGED <<row, mission, frame, produced>>
    BY <2>1, <2>4 DEF Settling, Ended, HopelessNow
  <2>5. QED  BY <2>1, <2>2, <2>3, <2>4 DEF UndisturbedStep
<1>3. QED  BY <1>1, <1>2, GraphInvariant, SoundInvariant, PTL DEF Spec

\* The first verdict on a mission is the last one: when it is given every node has its
\* result or is hopeless, so no report is under way that could overwrite it.
THEOREM VerdictsAlwaysFinal == Spec => VerdictsAreFinal
<1>1. GraphInv /\ SoundInv /\ SettlingInv /\ [Next]_vars =>
        (mission \in MissionTerminal /\ ops \cap {"cancel", "retry"} = {} /\ ops' = ops => mission' = mission)
  <2> SUFFICES ASSUME GraphInv, SoundInv, SettlingInv, [Next]_vars, mission \in MissionTerminal,
                      ops \cap {"cancel", "retry"} = {}, ops' = ops
               PROVE  mission' = mission
    OBVIOUS
  <2>1. Unattended /\ Settling /\ UndisturbedStep
    BY OperatorIdle DEF Unattended, SettlingInv
  <2>2. ASSUME NEW w \in Workers, RollupCommit(w) PROVE FALSE
    <3>1. frame[w].pc = "commit" /\ frame[w].node \in Nodes /\ row[frame[w].node].st = "running"
      BY <2>2, WorkerFacts DEF RollupCommit, At, Holds, Reporting
    <3>2. frame[w].node \notin produced /\ frame[w].node \notin HopelessNow
      BY <2>1, <3>1, SettlingFacts DEF Working, Ended
    <3>3. QED  BY <2>1, <3>1, <3>2 DEF Settling
  <2>3. ASSUME NEW w \in Workers, WorkerStep(w) \/ LoseWorker(w), ~RollupCommit(w)
        PROVE  mission' = mission
    BY <2>3 DEF WorkerStep, ClaimNext, ReadTask, LockTask, ReadDependencies, DeferCommit,
                ClaimCommit, StartExecution, ConsumeDelivery, BuryDelivery, BeginReport, ReportRefused,
                BlockCompletionFailure, RollupRead, LoseWorker, dbVars
  <2>4. QED  BY <2>1, <2>2, <2>3 DEF UndisturbedStep
<1>2. GraphInv /\ SoundInv /\ SettlingInv /\ [Next]_vars =>
        [(mission \in MissionTerminal /\ ops \cap {"cancel", "retry"} = {} /\ ops' = ops)
           => mission' = mission]_vars
  BY <1>1
<1>3. QED  BY <1>2, GraphInvariant, SoundInvariant, SettlingInvariant, PTL DEF Spec, VerdictsAreFinal

\* Unless an operator cancels or retries, a completed node stays completed: a late
\* rollup re-admits or blocks only nodes that can have no result.
THEOREM CompletedAlwaysStays == Spec => CompletedStays
<1> DEFINE Stay == \A n \in Nodes : row[n].st = "completed" /\ ops \cap {"cancel", "retry"} = {}
                                      => row'[n].st = "completed"
<1>1. GraphInv /\ SoundInv /\ SettlingInv /\ SettlingInv' /\ [Next]_vars => Stay
  <2> SUFFICES ASSUME GraphInv, SoundInv, SettlingInv, SettlingInv', [Next]_vars,
                      NEW n \in Nodes, row[n].st = "completed", Unattended
               PROVE  row'[n].st = "completed"
    BY DEF Unattended
  <2>1. Settling /\ n \in produced
    BY DEF SettlingInv, GraphInv, RowsGrounded, Grounded
  <2>2. CASE Unattended'
    <3>1. Settling' /\ UndisturbedStep
      BY <2>2, OperatorIdle DEF SettlingInv
    <3>2. produced \subseteq produced'
      BY <3>1 DEF UndisturbedStep, RollupCommit, Settle, WorkerStep, ClaimNext, ReadTask, LockTask,
           ReadDependencies, DeferCommit, ClaimCommit, StartExecution, ConsumeDelivery, BuryDelivery,
           BeginReport, ReportRefused, BlockCompletionFailure, RollupRead, LoseWorker, dbVars
    <3>3. QED  BY <2>1, <3>1, <3>2 DEF Settling
  <2>3. CASE ~Unattended'
    <3>1. ops' # ops /\ ops' # ops \cup {"crash"}
      BY <2>3 DEF Unattended
    <3>2. SweepRead \/ \E m \in Nodes : CancelRead(m) \/ RetryTask(m)
      BY <3>1 DEF Next, vars, WorkerStep, ClaimNext, ReadTask, LockTask, ReadDependencies, DeferCommit,
           ClaimCommit, StartExecution, ConsumeDelivery, BuryDelivery, BeginReport, ReportRefused,
           BlockCompletionFailure, RollupRead, RollupCommit, LoseWorker, Deadlock, OperatorStep,
           CancelFlush, SweepTask, SweepEnd, OperatorCall,
           Background, PublisherStep, ReadDispatch, PublishDispatch, RefuseDispatch, RecordDispatch,
           ReconcileCancelled, ReconcileProcessing, Spend
    <3>3. ASSUME NEW m \in Nodes, RetryTask(m) PROVE row'[n].st = "completed"
      <4>1. m # n /\ \A k \in Nodes \ {m} : row'[k] = row[k]
        BY <3>3 DEF RetryTask, GraphInv, TypeOK
      <4>2. QED  BY <4>1
    <3>4. QED  BY <3>2, <3>3 DEF SweepRead, CancelRead, dbVars
  <2>4. QED  BY <2>2, <2>3
<1>2. GraphInv /\ SoundInv /\ SettlingInv /\ SettlingInv' /\ [Next]_vars => [Stay]_vars
  BY <1>1
<1>3. QED
  BY <1>2, GraphInvariant, SoundInvariant, SettlingInvariant, PTL DEF Spec, CompletedStays

-----------------------------------------------------------------------------
\* What is in processing has a worker as its owner.
Owned == \A n \in Nodes : live[n] = "processing" => owner[n] \in Workers

\* The operations of the contract that workers and background steps use on node n.
ContractMove(n) ==
    \/ \E w \in Workers : Q!Claim(n, w) \/ Q!Finish(n, w) \/ Q!Requeue(n, w) \/ Q!DeadLetter(n, w)
    \/ Q!Revive(n) \/ Q!Withdraw(n)
    \/ \E k \in Nodes \X Nat : Q!PublishOnce(n, k)

\* A step of the mission is one operation on the queue or none; the owner in whose
\* name the maintainer finishes a delivery is a worker.
LEMMA MissionQueueStep ==
    ASSUME GraphInv, Owned, [Next]_vars
    PROVE  (\E n \in Nodes : ContractMove(n)) \/ UNCHANGED queueVars
<1>1. CASE UNCHANGED vars
  BY <1>1 DEF vars, queueVars
<1>2. CASE \E w \in Workers : WorkerStep(w)
  <2>1. PICK w \in Workers : WorkerStep(w)
    BY <1>2
  <2>2. CASE ClaimNext(w)
    BY <2>2 DEF ClaimNext, ContractMove
  <2>3. CASE ConsumeDelivery(w) \/ BuryDelivery(w)
    <3>1. frame[w].node \in Nodes
      BY <2>3 DEF ConsumeDelivery, BuryDelivery, At, GraphInv, FramesOK, FrameOK, WorkerFrameOK, Actors
    <3>2. Q!Finish(frame[w].node, w) \/ Q!DeadLetter(frame[w].node, w) \/ UNCHANGED queueVars
      BY <2>3 DEF ConsumeDelivery, BuryDelivery, Consume, Node
    <3>3. QED  BY <3>1, <3>2 DEF ContractMove
  <2>4. CASE ~(ClaimNext(w) \/ ConsumeDelivery(w) \/ BuryDelivery(w))
    BY <2>1, <2>4 DEF WorkerStep, ReadTask, LockTask, ReadDependencies, DeferCommit, ClaimCommit,
       StartExecution, BeginReport, ReportRefused, BlockCompletionFailure, RollupRead, RollupCommit
  <2>5. QED  BY <2>2, <2>3, <2>4
<1>3. CASE \E w \in Workers : LoseWorker(w)
  <2>1. PICK w \in Workers : LoseWorker(w)
    BY <1>3
  <2>2. frame[w].node \in Nodes
    BY <2>1 DEF LoseWorker, At, GraphInv, FramesOK, FrameOK, WorkerFrameOK, Actors
  <2>3. Q!Requeue(frame[w].node, w) \/ Q!DeadLetter(frame[w].node, w)
    BY <2>1 DEF LoseWorker, Node
  <2>4. QED  BY <2>2, <2>3 DEF ContractMove
<1>4. CASE \/ \E w \in Workers : Deadlock(w)
           \/ OperatorStep \/ OperatorCall
  BY <1>4 DEF Deadlock, OperatorStep, RollupRead, RollupCommit, CancelFlush, SweepTask, SweepEnd,
     OperatorCall, SweepRead, CancelRead, RetryTask
<1>5. CASE \E n \in Nodes : Background(n)
  <2>1. PICK n \in Nodes : Background(n)
    BY <1>5
  <2>2. CASE ReconcileCancelled(n)
    BY <2>2 DEF ReconcileCancelled, ContractMove
  <2>3. CASE ReconcileProcessing(n)
    BY <2>3 DEF ReconcileProcessing, Owned, ContractMove
  <2>4. QED  BY <2>1, <2>2, <2>3 DEF Background
<1>6. CASE \E x \in Publishers : PublisherStep(x)
  <2>1. \A n \in Nodes, g \in 0..MaxGen : <<n, g>> \in Nodes \X Nat
    BY GraphAssumption DEF GraphAssumption
  <2>2. QED  BY <1>6, <2>1, PublisherQueue DEF ContractMove
<1>7. QED  BY <1>1, <1>2, <1>3, <1>4, <1>5, <1>6 DEF Next

\* What a step makes of the queue's ownership.
LEMMA OwnedStep ==
    ASSUME GraphInv, Owned, [Next]_vars
    PROVE  Owned'
<1>1. CASE UNCHANGED queueVars
  BY <1>1 DEF queueVars, Owned
<1>2. ASSUME NEW n \in Nodes, ContractMove(n)
      PROVE  Owned'
  <2>1. ASSUME NEW m \in Nodes, live'[m] = "processing" PROVE owner'[m] \in Workers
    <3>1. /\ live \in [Nodes -> {"absent", "pending", "processing"}]
          /\ owner \in [Nodes -> Workers \cup {NoOwner}]
      BY DEF GraphInv, TypeOK
    <3>2. \/ \E w \in Workers : Q!Move(n, "processing", w)
          \/ \E place \in {"absent", "pending"} : Q!Move(n, place, NoOwner)
      BY <1>2 DEF ContractMove, Q!Claim, Q!Finish, Q!Requeue, Q!DeadLetter, Q!Revive, Q!Withdraw, Q!PublishOnce
    <3>3. CASE m = n
      BY <2>1, <3>1, <3>2, <3>3 DEF Q!Move
    <3>4. CASE m # n
      <4>1. live'[m] = live[m] /\ owner'[m] = owner[m]
        BY <3>1, <3>2, <3>4 DEF Q!Move
      <4>2. QED  BY <2>1, <4>1 DEF Owned
    <3>5. QED  BY <3>3, <3>4
  <2>2. QED  BY <2>1 DEF Owned
<1>3. QED  BY <1>1, <1>2, MissionQueueStep

\* The workers, the operator and the maintainer of a mission use the queue only as
\* its contract allows, so that the mission may stand on any adapter that keeps
\* the contract, as RedisQueue does.
THEOREM MissionUsesContract == Spec => Q!Spec
<1>1. Init => Q!Init /\ Owned
  BY DEF Init, Q!Init, Owned
<1>2. GraphInv /\ Owned /\ [Next]_vars => Owned' /\ [Q!Next]_(Q!cvars)
  <2> SUFFICES ASSUME GraphInv, Owned, [Next]_vars PROVE Owned' /\ [Q!Next]_(Q!cvars)
    OBVIOUS
  <2>1. (\E n \in Nodes : ContractMove(n)) => Q!Next
    BY DEF ContractMove, Q!Next
  <2>2. QED  BY <2>1, OwnedStep, MissionQueueStep DEF queueVars, Q!cvars
<1>3. QED  BY <1>1, <1>2, GraphInvariant, PTL DEF Spec, Q!Spec

\* No two workers are on the same task of a mission, from the claim to the call that
\* consumes the delivery, and the queue says so: whoever holds a task owns its payload.
OneWorkerPerTask ==
    /\ \A w \in Workers : frame[w].pc # "idle" =>
         live[frame[w].node] = "processing" /\ owner[frame[w].node] = w
    /\ \A v, w \in Workers : v # w /\ frame[v].pc # "idle" /\ frame[w].pc # "idle" =>
         frame[v].node # frame[w].node

\* Every worker in a call owns the payload of its task, and no other worker has it.
THEOREM AlwaysOneWorkerPerTask == Spec => []OneWorkerPerTask
<1>1. SoundInv => OneWorkerPerTask
  BY OwnersDiffer DEF SoundInv, Holds, OneWorkerPerTask
<1>2. QED  BY <1>1, SoundInvariant, PTL
=============================================================================

--------------------------- MODULE MCMissionGraph ---------------------------
(***************************************************************************)
(* MissionGraph for TLC.  Join: c needs the independent nodes a and b.     *)
(* Diamond: b and c need a, d needs b and c.  Wide: Join beside two other  *)
(* nodes.                                                                  *)
(***************************************************************************)
EXTENDS MissionGraph, TLC

CONSTANTS a, b, c, d, e

Join == (a :> {}) @@ (b :> {}) @@ (c :> {a, b})
Diamond == (a :> {}) @@ (b :> {a}) @@ (c :> {a}) @@ (d :> {b, c})
Wide == Join @@ (d :> {}) @@ (e :> {})

Symmetry == Permutations(Workers)

\* Wide, along one path: b fails and is retried, a and b report together, and then
\* d and e, which both find c blocked with every dependency completed.  The first of
\* the two reports re-admits c, which is run; the second then queues it again.
Claiming(n) == \E w \in Workers : At(w, "idle") /\ frame'[w].pc = "read" /\ frame'[w].node = n
Committing(w) == At(w, "commit") /\ frame'[w].pc # "commit"
Alone(w) == \A v \in Workers \ {w} : ~At(v, "commit")

Replay ==
    /\ Claiming(a) => "retry" \in ops
    /\ (\E n \in {d, e} : Claiming(n)) => {a, b} \subseteq produced
    /\ Claiming(c) => d \in produced
    /\ \A w \in Workers :
         /\ frame'[w].out = "failed" => Node(w) = b /\ "retry" \notin ops
         /\ Committing(w) =>
              IF "retry" \notin ops THEN TRUE
              ELSE IF produced = {} THEN Node(w) = a /\ ~Alone(w)
              ELSE IF produced = {a, b} THEN Node(w) = d /\ ~Alone(w)
              ELSE Node(w) = e => c \in produced

\* CompletedStays, after retries too.
CompletedStaysRetried ==
    [][\A n \in Nodes : row[n].st = "completed" /\ "cancel" \notin ops => row'[n].st = "completed"]_vars

ReplaySpec == Init /\ [][Next /\ Replay]_vars
=============================================================================

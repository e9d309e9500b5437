------------------------- MODULE ApiRequestsProofs --------------------------
(***************************************************************************)
(* Proofs about ApiRequests, for any number of clients, keys, bodies and   *)
(* tokens, any limit and any number of faults.                             *)
(*                                                                         *)
(* ReplayIsTrue is not inductive: a request that has lost its key may      *)
(* still complete.  ApiInv says what stops it: tokens are distinct, the    *)
(* row of a key it owns carries its own body, and a request that answers   *)
(* "created" has committed.  OvershootIsBounded needs the requests between *)
(* the check and the commit to be counted: QuotaInv.                       *)
(* DuplicatesNeedFaults is a budget: what a key has made, the requests     *)
(* that may still make something, and one more if the key is unguarded,    *)
(* are covered by one and the faults so far: DuplicateInv.                 *)
(***************************************************************************)
EXTENDS ApiRequests, FiniteSetTheorems, TLAPS

\* A request that owns the row r of its key wrote its own body there.
Linked(q, r) == r.st = "claiming" /\ r.owner = q.token => r.body = q.body

\* What holds of a request q when the receipts are rc and the bodies mf.
ReqOK(q, rc, mf) ==
    /\ q.pc = "idle" => q.token = NoToken
    /\ q.pc # "idle" => q.token \in Tokens /\ q.body \in Bodies
    /\ q.pc = "claim" \/ q.beating => q.key \in Keys
    /\ q.key \in Keys =>
         /\ q.pc # "idle"
         /\ q.resp = "created" => q.body \in mf[q.key]
         /\ Linked(q, rc[q.key])

RowOK(r, m) == r.st = "completed" /\ r.resp = "created" => r.body \in m

ReqsOK == \A c \in Clients : ReqOK(req[c], receipt, madeFor)
RowsOK == \A k \in Keys : RowOK(receipt[k], madeFor[k])
TokensDiffer ==
    \A c, d \in Clients : c # d /\ req[c].token # NoToken => req[c].token # req[d].token

ApiInv == TypeOK /\ ReqsOK /\ RowsOK /\ TokensDiffer

-----------------------------------------------------------------------------
\* A step of request c, which leaves it as q.
LEMMA StepKeeps ==
    ASSUME ApiInv, NEW c \in Clients, NEW q \in Requests, req' = [req EXCEPT ![c] = q],
           ReqOK(q, receipt', madeFor'),
           q.token \in {NoToken, req[c].token} \/ q.token \notin InUse,
           receipt' \in [Keys -> Rows], madeFor' \in [Keys -> SUBSET Bodies], RowsOK',
           \A d \in Clients \ {c} : ReqOK(req[d], receipt', madeFor'),
           usage' \in Nat, made' \in [Keys -> Nat], faults' \in 0..MaxFaults
    PROVE  ApiInv'
<1>1. req \in [Clients -> Requests]
  BY DEF ApiInv, TypeOK
<1>2. req'[c] = q /\ \A d \in Clients \ {c} : req'[d] = req[d]
  BY <1>1
<1>3. TypeOK'
  BY <1>1 DEF TypeOK
<1>4. ReqsOK'
  BY <1>2 DEF ReqsOK
<1>5. TokensDiffer'
  <2>1. \A d \in Clients : req[d].token \in InUse
    BY DEF InUse
  <2>2. TokensDiffer
    BY DEF ApiInv
  <2>3. CASE q.token \in {NoToken, req[c].token}
    BY <1>2, <2>2, <2>3 DEF TokensDiffer
  <2>4. CASE q.token \notin InUse
    BY <1>2, <2>1, <2>2, <2>4 DEF TokensDiffer
  <2> QED
    BY <2>3, <2>4
<1> QED
  BY <1>3, <1>4, <1>5 DEF ApiInv

\* A step of c that leaves the row of k as r, and its bodies as m.
LEMMA RowChange ==
    ASSUME ApiInv, ApiAssumption, NEW c \in Clients, NEW k \in Keys, NEW r \in Rows, NEW m \in SUBSET Bodies,
           receipt' = [receipt EXCEPT ![k] = r], madeFor' = [madeFor EXCEPT ![k] = m],
           madeFor[k] \subseteq m, RowOK(r, m),
           r.st = "claiming" =>
             \/ receipt[k].st = "claiming" /\ r.owner = receipt[k].owner /\ r.body = receipt[k].body
             \/ r.owner = req[c].token /\ req[c].token \in Tokens
    PROVE  /\ receipt' \in [Keys -> Rows] /\ madeFor' \in [Keys -> SUBSET Bodies] /\ RowsOK'
           /\ \A d \in Clients \ {c} : ReqOK(req[d], receipt', madeFor')
<1>1. receipt \in [Keys -> Rows] /\ madeFor \in [Keys -> SUBSET Bodies]
  BY DEF ApiInv, TypeOK
<1>2. /\ receipt'[k] = r /\ madeFor'[k] = m
      /\ \A j \in Keys \ {k} : receipt'[j] = receipt[j] /\ madeFor'[j] = madeFor[j]
  BY <1>1
<1>3. RowsOK'
  BY <1>2 DEF RowsOK, ApiInv
<1>4. ASSUME NEW d \in Clients \ {c} PROVE ReqOK(req[d], receipt', madeFor')
  <2>1. ReqOK(req[d], receipt, madeFor)
    BY DEF ApiInv, ReqsOK
  <2>2. CASE req[d].key = k
    <3>1. req[d].pc # "idle" /\ req[d].token \in Tokens
      BY <2>1, <2>2 DEF ReqOK
    <3>2. req[c].token \in Tokens => req[d].token # req[c].token
      BY <3>1, ApiAssumption DEF ApiInv, TokensDiffer, ApiAssumption
    <3>3. Linked(req[d], r)
      BY <2>1, <2>2, <3>2 DEF ReqOK, Linked
    <3> QED
      BY <1>2, <2>1, <2>2, <3>3 DEF ReqOK
  <2>3. CASE req[d].key # k
    BY <1>2, <2>1, <2>3 DEF ReqOK
  <2> QED
    BY <2>2, <2>3
<1> QED
  BY <1>1, <1>3, <1>4

\* A step that leaves rows and bodies alone.
LEMMA RowsSame ==
    ASSUME ApiInv, receipt' = receipt, madeFor' = madeFor
    PROVE  /\ receipt' \in [Keys -> Rows] /\ madeFor' \in [Keys -> SUBSET Bodies] /\ RowsOK'
           /\ \A d \in Clients : ReqOK(req[d], receipt', madeFor')
  BY DEF ApiInv, TypeOK, RowsOK, ReqsOK

\* A finished request relies on nothing.
LEMMA IdleOK ==
    ASSUME ApiAssumption, NEW rc, NEW mf
    PROVE  Idle \in Requests /\ ReqOK(Idle, rc, mf) /\ Idle.token = NoToken
  BY DEF Idle, Requests, Responses, ReqOK, ApiAssumption

-----------------------------------------------------------------------------
\* What is known of a request that is not idle.
LEMMA ReqFacts ==
    ASSUME ApiInv, NEW c \in Clients
    PROVE  /\ req[c] \in Requests /\ ReqOK(req[c], receipt, madeFor)
           /\ Key(c) = req[c].key
           /\ Key(c) # NoKey => Key(c) \in Keys /\ Row(c) \in Rows /\ Row(c) = receipt[Key(c)]
           /\ receipt \in [Keys -> Rows] /\ madeFor \in [Keys -> SUBSET Bodies]
           /\ usage \in Nat /\ made \in [Keys -> Nat] /\ faults \in 0..MaxFaults
<1>1. TypeOK /\ ReqOK(req[c], receipt, madeFor)
  BY DEF ApiInv, ReqsOK
<1>2. req[c] \in Requests
  BY <1>1 DEF TypeOK
<1>3. req[c].key \in Keys \cup {NoKey}
  BY <1>2 DEF Requests
<1> QED
  BY <1>1, <1>2, <1>3 DEF TypeOK, Key, Row

\* The fault counter stays within its bound.
LEMMA FaultType ==
    ASSUME ApiAssumption, TypeOK, Fault
    PROVE  faults' \in 0..MaxFaults
  BY DEF ApiAssumption, TypeOK, Fault

\* A request that ends, having changed no row.
LEMMA ReturnKeeps ==
    ASSUME ApiInv, ApiAssumption, NEW c \in Clients, Return(c),
           receipt' = receipt, madeFor' = madeFor,
           usage' \in Nat, made' \in [Keys -> Nat], faults' \in 0..MaxFaults
    PROVE  ApiInv'
<1>1. req' = [req EXCEPT ![c] = Idle]
  BY DEF Return
<1> QED
  BY <1>1, RowsSame, IdleOK, StepKeeps

\* A request that ends, having changed the row of its key to r.
LEMMA StoreAndReturn ==
    ASSUME ApiInv, ApiAssumption, NEW c \in Clients, Key(c) \in Keys, NEW r \in Rows,
           Return(c), Store(c, r), madeFor' = madeFor, RowOK(r, madeFor[Key(c)]),
           r.st = "claiming" => r.owner = req[c].token /\ req[c].token \in Tokens,
           usage' \in Nat, made' \in [Keys -> Nat], faults' \in 0..MaxFaults
    PROVE  ApiInv'
<1>1. req' = [req EXCEPT ![c] = Idle] /\ receipt' = [receipt EXCEPT ![Key(c)] = r]
  BY DEF Return, Store
<1>2. madeFor \in [Keys -> SUBSET Bodies]
  BY DEF ApiInv, TypeOK
<1>3. madeFor' = [madeFor EXCEPT ![Key(c)] = madeFor[Key(c)]] /\ madeFor[Key(c)] \in SUBSET Bodies
  BY <1>2
<1>4. /\ receipt' \in [Keys -> Rows] /\ madeFor' \in [Keys -> SUBSET Bodies] /\ RowsOK'
      /\ \A d \in Clients \ {c} : ReqOK(req[d], receipt', madeFor')
  BY <1>1, <1>3, RowChange
<1> QED
  BY <1>1, <1>4, IdleOK, StepKeeps

\* A request that goes on as q, having changed no row.
LEMMA GoOn ==
    ASSUME ApiInv, ApiAssumption, NEW c \in Clients, NEW q \in Requests,
           req' = [req EXCEPT ![c] = q],
           q.pc # "idle", q.pc # "claim", q.key = req[c].key, q.body = req[c].body,
           q.token = req[c].token, req[c].pc # "idle",
           q.beating => req[c].beating,
           q.resp = "created" => req[c].resp = "created" \/ (q.key \in Keys => q.body \in madeFor'[q.key]),
           receipt' = receipt, madeFor' \in [Keys -> SUBSET Bodies],
           \A k \in Keys : madeFor[k] \subseteq madeFor'[k],
           usage' \in Nat, made' \in [Keys -> Nat], faults' \in 0..MaxFaults
    PROVE  ApiInv'
<1>1. ReqOK(req[c], receipt, madeFor)
  BY DEF ApiInv, ReqsOK
<1>2. ReqOK(q, receipt', madeFor')
  BY <1>1 DEF ReqOK, Linked
<1>3. RowsOK' /\ receipt' \in [Keys -> Rows]
  BY DEF ApiInv, RowsOK, RowOK, TypeOK
<1>4. \A d \in Clients \ {c} : ReqOK(req[d], receipt', madeFor')
  BY DEF ApiInv, ReqsOK, ReqOK, Linked
<1> QED
  BY <1>2, <1>3, <1>4, StepKeeps

-----------------------------------------------------------------------------
\* An arriving request has a token that no row and no request has.
LEMMA BeginStep ==
    ASSUME ApiInv, ApiAssumption, NEW c \in Clients, NEW k \in Keys \cup {NoKey}, NEW b \in Bodies,
           BeginRequest(c, k, b)
    PROVE  ApiInv'
<1> DEFINE t == CHOOSE u \in Tokens \ InUse : TRUE
           q == [pc |-> IF k = NoKey THEN "limit" ELSE "claim", key |-> k, body |-> b,
                 token |-> t, beating |-> FALSE, resp |-> "none"]
<1>1. t \in Tokens \ InUse
  BY DEF BeginRequest
<1>2. req' = [req EXCEPT ![c] = q]
  BY DEF BeginRequest
<1>3. UNCHANGED <<receipt, usage, made, madeFor, faults>>
  BY DEF BeginRequest, ghosts
<1> HIDE DEF t
<1>4. q \in Requests
  BY <1>1 DEF Requests, Responses
<1>5. /\ q.pc \in {"limit", "claim"} /\ q.key = k /\ q.body = b /\ q.token = t
      /\ q.beating = FALSE /\ q.resp = "none" /\ (q.pc = "claim" => k \in Keys)
  BY DEF q
<1> HIDE DEF q
<1>6. \A j \in Keys : receipt[j].owner # t
  BY <1>1 DEF InUse
<1>7. ReqOK(q, receipt, madeFor)
  BY <1>1, <1>5, <1>6 DEF ReqOK, Linked
<1>8. usage' \in Nat /\ made' \in [Keys -> Nat] /\ faults' \in 0..MaxFaults
  BY <1>3 DEF ApiInv, TypeOK
<1> QED
  BY <1>1, <1>2, <1>3, <1>4, <1>5, <1>7, <1>8, RowsSame, StepKeeps

\* The row that a claim writes.
LEMMA ClaimedRow ==
    ASSUME ApiInv, NEW c \in Clients, req[c].pc # "idle"
    PROVE  /\ Claimed(c) \in Rows /\ req[c].token \in Tokens
           /\ Claimed(c).st = "claiming" /\ Claimed(c).owner = req[c].token /\ Claimed(c).body = req[c].body
<1>1. req[c].token \in Tokens /\ req[c].body \in Bodies
  BY ReqFacts DEF ReqOK
<1> QED
  BY <1>1 DEF Claimed, Rows, Responses

\* claim: the acquired row carries the token and the body of its request.
LEMMA ClaimStep ==
    ASSUME ApiInv, ApiAssumption, NEW c \in Clients, Claim(c)
    PROVE  ApiInv'
<1>1. /\ req[c].pc = "claim" /\ UNCHANGED <<usage, made, madeFor, faults>>
      /\ usage' \in Nat /\ made' \in [Keys -> Nat] /\ faults' \in 0..MaxFaults
  BY DEF Claim, At, ghosts, ApiInv, TypeOK
<1>2. Key(c) \in Keys
  BY <1>1, ReqFacts DEF ReqOK
<1>3. CASE Return(c) /\ UNCHANGED receipt
  BY <1>1, <1>3, ReturnKeeps
<1>4. CASE Store(c, Claimed(c)) /\ req' = [req EXCEPT ![c] = [@ EXCEPT !.pc = "limit", !.beating = TRUE]]
  <2> DEFINE q == [req[c] EXCEPT !.pc = "limit", !.beating = TRUE]
  <2>1. req' = [req EXCEPT ![c] = q]
    BY <1>4
  <2>2. /\ q \in Requests /\ q.pc = "limit" /\ q.key = req[c].key /\ q.body = req[c].body
        /\ q.token = req[c].token /\ q.resp = req[c].resp
    BY ReqFacts, req[c] \in Requests DEF Requests
  <2> HIDE DEF q
  <2>3. madeFor' = [madeFor EXCEPT ![Key(c)] = madeFor[Key(c)]] /\ madeFor[Key(c)] \in SUBSET Bodies
    BY <1>1, <1>2, ReqFacts
  <2>4. /\ receipt' \in [Keys -> Rows] /\ madeFor' \in [Keys -> SUBSET Bodies] /\ RowsOK'
        /\ \A d \in Clients \ {c} : ReqOK(req[d], receipt', madeFor')
    BY <1>1, <1>2, <1>4, <2>3, ClaimedRow, RowChange DEF Store, RowOK
  <2>5. receipt'[Key(c)] = Claimed(c)
    BY <1>2, <1>4, ReqFacts DEF Store
  <2>6. ReqOK(q, receipt', madeFor')
    BY <1>1, <1>2, <2>2, <2>5, ClaimedRow, ReqFacts DEF ReqOK, Linked
  <2> QED
    BY <1>1, <2>1, <2>2, <2>4, <2>6, StepKeeps
<1> QED
  BY <1>3, <1>4 DEF Claim

\* Answer and Goto change the state of the request only.
LEMMA AnswerStep ==
    ASSUME ApiInv, ApiAssumption, NEW c \in Clients, NEW resp \in Responses, Answer(c, resp),
           req[c].pc # "idle",
           resp = "created" => (Key(c) \in Keys => req[c].body \in madeFor'[Key(c)]),
           receipt' = receipt, madeFor' \in [Keys -> SUBSET Bodies],
           \A k \in Keys : madeFor[k] \subseteq madeFor'[k],
           usage' \in Nat, made' \in [Keys -> Nat], faults' \in 0..MaxFaults
    PROVE  ApiInv'
<1> DEFINE q == [req[c] EXCEPT !.pc = "finish", !.resp = resp]
<1>1. req' = [req EXCEPT ![c] = q]
  BY DEF Answer
<1>2. /\ q \in Requests /\ q.pc = "finish" /\ q.key = req[c].key /\ q.body = req[c].body
      /\ q.token = req[c].token /\ q.beating = req[c].beating /\ q.resp = resp
  BY ReqFacts, req[c] \in Requests DEF Requests
<1> HIDE DEF q
<1> QED
  BY <1>1, <1>2, GoOn DEF Key

\* A request passes the rate limit or the quota check.
LEMMA GotoStep ==
    ASSUME ApiInv, ApiAssumption, NEW c \in Clients, NEW pc \in {"quota", "commit"}, Goto(c, pc),
           req[c].pc # "idle", UNCHANGED <<receipt, usage, made, madeFor, faults>>
    PROVE  ApiInv'
<1> DEFINE q == [req[c] EXCEPT !.pc = pc]
<1>1. req' = [req EXCEPT ![c] = q]
  BY DEF Goto
<1>2. /\ q \in Requests /\ q.pc = pc /\ q.key = req[c].key /\ q.body = req[c].body
      /\ q.token = req[c].token /\ q.beating = req[c].beating /\ q.resp = req[c].resp
  BY ReqFacts, req[c] \in Requests DEF Requests
<1> HIDE DEF q
<1>3. /\ madeFor' \in [Keys -> SUBSET Bodies] /\ usage' \in Nat /\ made' \in [Keys -> Nat]
      /\ faults' \in 0..MaxFaults /\ \A k \in Keys : madeFor[k] \subseteq madeFor'[k]
  BY ReqFacts
<1> QED
  BY <1>1, <1>2, <1>3, GoOn

\* The commit of the mission records the body of the request.
LEMMA CommittedFacts ==
    ASSUME ApiInv, ApiAssumption, NEW c \in Clients, req[c].pc # "idle", Committed(c)
    PROVE  /\ usage' \in Nat /\ made' \in [Keys -> Nat] /\ madeFor' \in [Keys -> SUBSET Bodies]
           /\ \A k \in Keys : madeFor[k] \subseteq madeFor'[k]
           /\ Key(c) \in Keys => req[c].body \in madeFor'[Key(c)]
<1>1. usage' \in Nat
  BY ReqFacts DEF Committed
<1>2. CASE Key(c) = NoKey
  <2>1. Key(c) \notin Keys /\ made' = made /\ madeFor' = madeFor
    BY <1>2 DEF Committed, ghosts, ApiAssumption
  <2> QED
    BY <1>1, <2>1, ReqFacts
<1>3. CASE Key(c) # NoKey
  <2>1. /\ made' = [made EXCEPT ![Key(c)] = made[Key(c)] + 1]
        /\ madeFor' = [madeFor EXCEPT ![Key(c)] = madeFor[Key(c)] \cup {req[c].body}]
    BY <1>3 DEF Committed
  <2>2. Key(c) \in Keys /\ req[c].body \in Bodies
    BY <1>3, ReqFacts DEF ReqOK
  <2> QED
    BY <1>1, <2>1, <2>2, ReqFacts
<1> QED
  BY <1>2, <1>3

\* The rate limit, the quota check and the commit, with its failures.
LEMMA HandlerSteps ==
    ASSUME ApiInv, ApiAssumption, NEW c \in Clients,
           RateLimit(c) \/ CheckQuota(c) \/ CommitMission(c) \/ CommitFails(c)
    PROVE  ApiInv'
<1>1. ASSUME NEW resp \in {"limited", "refused", "error"}, Answer(c, resp), req[c].pc # "idle",
             UNCHANGED <<receipt, usage, made, madeFor, faults>>
      PROVE  ApiInv'
  <2>1. /\ madeFor' \in [Keys -> SUBSET Bodies] /\ usage' \in Nat /\ made' \in [Keys -> Nat]
        /\ faults' \in 0..MaxFaults /\ \A k \in Keys : madeFor[k] \subseteq madeFor'[k]
    BY <1>1, ReqFacts
  <2>2. resp \in Responses /\ resp # "created"
    BY DEF Responses
  <2> QED
    BY <1>1, <2>1, <2>2, AnswerStep
<1>2. CASE RateLimit(c)
  BY <1>1, <1>2, GotoStep DEF RateLimit, At, ghosts
<1>3. CASE CheckQuota(c)
  BY <1>1, <1>3, GotoStep DEF CheckQuota, At, ghosts
<1>4. CASE CommitMission(c)
  <2>1. req[c].pc # "idle" /\ Committed(c) /\ Answer(c, "created") /\ UNCHANGED <<receipt, faults>>
    BY <1>4 DEF CommitMission, At
  <2>2. "created" \in Responses /\ faults' \in 0..MaxFaults
    BY <2>1, ReqFacts DEF Responses
  <2> QED
    BY <2>1, <2>2, CommittedFacts, AnswerStep
<1>5. CASE CommitFails(c)
  <2>1. req[c].pc # "idle" /\ Answer(c, "error") /\ receipt' = receipt /\ faults' \in 0..MaxFaults
    BY <1>5, FaultType DEF CommitFails, At, ApiInv
  <2>2. /\ usage' \in Nat /\ made' \in [Keys -> Nat] /\ madeFor' \in [Keys -> SUBSET Bodies]
        /\ \A k \in Keys : madeFor[k] \subseteq madeFor'[k]
    <3>1. CASE UNCHANGED <<usage, made, madeFor>>
      BY <3>1, ReqFacts
    <3>2. CASE Committed(c)
      BY <2>1, <3>2, CommittedFacts
    <3> QED
      BY <1>5, <3>1, <3>2 DEF CommitFails, ghosts
  <2>3. "error" \in Responses /\ "error" # "created"
    BY DEF Responses
  <2> QED
    BY <2>1, <2>2, <2>3, AnswerStep
<1> QED
  BY <1>2, <1>3, <1>4, <1>5

\* A completed row tells the truth, for the row that c owns has the body of c.
LEMMA CompletedRow ==
    ASSUME ApiInv, NEW c \in Clients, req[c].pc # "idle", Key(c) \in Keys, Owns(c)
    PROVE  /\ Completed(c) \in Rows /\ Completed(c).st = "completed"
           /\ RowOK(Completed(c), madeFor[Key(c)])
<1>1. /\ Row(c) \in Rows /\ req[c].resp \in Responses /\ Row(c) = receipt[req[c].key]
      /\ Key(c) = req[c].key
  BY ReqFacts DEF Key, Row, Requests
<1>2. /\ Completed(c) \in Rows /\ Completed(c).st = "completed" /\ Completed(c).resp = req[c].resp
      /\ Completed(c).body = Row(c).body
  BY <1>1 DEF Completed, Rows
<1>3. Row(c).body = req[c].body
  BY <1>1, ReqFacts DEF Owns, ReqOK, Linked
<1>4. req[c].resp = "created" => req[c].body \in madeFor[Key(c)]
  BY <1>1, ReqFacts DEF ReqOK
<1> QED
  BY <1>2, <1>3, <1>4 DEF RowOK

\* A released key.
LEMMA AbsentRow == Absent \in Rows /\ Absent.st = "absent"
  BY DEF Absent, Rows, Responses

\* Every way in which a request ends.
LEMMA EndSteps ==
    ASSUME ApiInv, ApiAssumption, NEW c \in Clients,
           Finish(c) \/ Release(c) \/ FinishFails(c) \/ ClaimFails(c) \/ Crash(c)
    PROVE  ApiInv'
<1>1. /\ req[c].pc # "idle" /\ Return(c) /\ UNCHANGED <<usage, made, madeFor>>
      /\ usage' \in Nat /\ made' \in [Keys -> Nat]
  BY ReqFacts DEF Finish, Release, FinishFails, ClaimFails, Crash, At, ghosts
<1>2. faults' \in 0..MaxFaults
  BY ReqFacts, FaultType DEF Finish, Release, FinishFails, ClaimFails, Crash, ApiInv
<1>3. \/ receipt' = receipt
      \/ Key(c) \in Keys /\ Owns(c) /\ Store(c, Completed(c))
      \/ Key(c) \in Keys /\ Store(c, Absent)
      \/ Key(c) \in Keys /\ Store(c, Claimed(c))
  <2>1. Key(c) = NoKey \/ Key(c) \in Keys
    BY ReqFacts
  <2>2. At(c, "claim") => Key(c) \in Keys
    BY ReqFacts DEF ReqOK, At
  <2> QED
    BY <2>1, <2>2 DEF Finish, Release, FinishFails, ClaimFails, Crash
<1>4. CASE receipt' = receipt
  BY <1>1, <1>2, <1>4, ReturnKeeps
<1>5. CASE Key(c) \in Keys /\ Owns(c) /\ Store(c, Completed(c))
  BY <1>1, <1>2, <1>5, CompletedRow, StoreAndReturn
<1>6. CASE Key(c) \in Keys /\ Store(c, Absent)
  BY <1>1, <1>2, <1>6, AbsentRow, StoreAndReturn DEF RowOK
<1>7. CASE Key(c) \in Keys /\ Store(c, Claimed(c))
  BY <1>1, <1>2, <1>7, ClaimedRow, StoreAndReturn DEF RowOK
<1> QED
  BY <1>3, <1>4, <1>5, <1>6, <1>7

\* The heartbeat renews the row it owns, or ends.
LEMMA HeartbeatSteps ==
    ASSUME ApiInv, ApiAssumption, NEW c \in Clients, Renew(c) \/ HeartbeatFails(c)
    PROVE  ApiInv'
<1>0. /\ req[c].beating /\ UNCHANGED <<usage, made, madeFor>>
      /\ usage' \in Nat /\ made' \in [Keys -> Nat] /\ madeFor' \in [Keys -> SUBSET Bodies]
  BY ReqFacts DEF Renew, HeartbeatFails, ghosts
<1>1. faults' \in 0..MaxFaults
  BY ReqFacts, FaultType DEF Renew, HeartbeatFails, ApiInv
<1>2. Key(c) \in Keys /\ req[c].pc # "idle"
  BY <1>0, ReqFacts DEF ReqOK
<1>3. CASE req' = [req EXCEPT ![c].beating = FALSE] /\ receipt' = receipt
  <2> DEFINE q == [req[c] EXCEPT !.beating = FALSE]
  <2>1. req' = [req EXCEPT ![c] = q]
    BY <1>3
  <2>2. /\ q \in Requests /\ q.pc = req[c].pc /\ q.key = req[c].key /\ q.body = req[c].body
        /\ q.token = req[c].token /\ q.beating = FALSE /\ q.resp = req[c].resp
    BY ReqFacts, req[c] \in Requests DEF Requests
  <2> HIDE DEF q
  <2>3. ReqOK(q, receipt', madeFor')
    BY <1>0, <1>3, <2>2, ReqFacts DEF ReqOK, Linked
  <2> QED
    BY <1>0, <1>1, <1>3, <2>1, <2>2, <2>3, RowsSame, StepKeeps
<1>4. CASE Owns(c) /\ Store(c, [Row(c) EXCEPT !.fresh = TRUE]) /\ req' = req
  <2> DEFINE r == [Row(c) EXCEPT !.fresh = TRUE]
  <2>1. Row(c) \in Rows /\ Row(c) = receipt[Key(c)]
    BY <1>2, ReqFacts, ApiAssumption DEF ApiAssumption
  <2>2. r \in Rows /\ r.st = Row(c).st /\ r.owner = Row(c).owner /\ r.body = Row(c).body /\ r.resp = Row(c).resp
    BY <2>1 DEF Rows
  <2>3. receipt' = [receipt EXCEPT ![Key(c)] = r]
    BY <1>4 DEF Store
  <2> HIDE DEF r
  <2>4. RowOK(r, madeFor[Key(c)])
    BY <1>2, <2>1, <2>2 DEF ApiInv, RowsOK, RowOK
  <2>5. madeFor' = [madeFor EXCEPT ![Key(c)] = madeFor[Key(c)]] /\ madeFor[Key(c)] \in SUBSET Bodies
    BY <1>0, <1>2, ReqFacts
  <2>6. /\ receipt' \in [Keys -> Rows] /\ RowsOK'
        /\ \A d \in Clients \ {c} : ReqOK(req[d], receipt', madeFor')
    BY <1>2, <2>1, <2>2, <2>3, <2>4, <2>5, RowChange
  <2>7. receipt'[Key(c)] = r
    BY <1>2, <2>3, ReqFacts
  <2>8. ReqOK(req[c], receipt', madeFor')
    BY <1>0, <1>2, <2>1, <2>2, <2>7, ReqFacts DEF ReqOK, Linked
  <2>9. req' = [req EXCEPT ![c] = req[c]] /\ req[c] \in Requests
    BY <1>4 DEF ApiInv, TypeOK
  <2> QED
    BY <1>0, <1>1, <2>6, <2>8, <2>9, StepKeeps
<1> QED
  BY <1>3, <1>4 DEF Renew, HeartbeatFails

\* The expiry of a claim and of a receipt.
LEMMA TimeSteps ==
    ASSUME ApiInv, ApiAssumption, NEW k \in Keys, ClaimExpires(k) \/ ReceiptExpires(k)
    PROVE  ApiInv'
<1>0. /\ req' = req /\ usage' = usage /\ TypeOK /\ ReqsOK /\ RowsOK
      /\ receipt \in [Keys -> Rows] /\ madeFor \in [Keys -> SUBSET Bodies] /\ made \in [Keys -> Nat]
  BY DEF ClaimExpires, ReceiptExpires, ghosts, ApiInv, TypeOK
<1>1. CASE ClaimExpires(k)
  <2> DEFINE r == [receipt[k] EXCEPT !.fresh = FALSE]
  <2>1. receipt' = [receipt EXCEPT ![k] = r] /\ made' = made /\ madeFor' = madeFor
    BY <1>1 DEF ClaimExpires, ghosts
  <2>2. /\ r \in Rows /\ r.st = receipt[k].st /\ r.owner = receipt[k].owner
        /\ r.body = receipt[k].body /\ r.resp = receipt[k].resp
    BY <1>0, receipt[k] \in Rows DEF Rows
  <2> HIDE DEF r
  <2>3. receipt' \in [Keys -> Rows] /\ receipt'[k] = r /\ \A j \in Keys \ {k} : receipt'[j] = receipt[j]
    BY <1>0, <2>1, <2>2
  <2>4. faults' \in 0..MaxFaults
    BY <1>0, <1>1, FaultType DEF ClaimExpires, TypeOK
  <2>5. RowsOK'
    BY <1>0, <2>1, <2>2, <2>3 DEF RowsOK, RowOK
  <2>6. ReqsOK'
    BY <1>0, <2>1, <2>2, <2>3 DEF ReqsOK, ReqOK, Linked
  <2> QED
    BY <1>0, <2>1, <2>3, <2>4, <2>5, <2>6 DEF ApiInv, TypeOK, TokensDiffer
<1>2. CASE ReceiptExpires(k)
  <2>1. /\ receipt' = [receipt EXCEPT ![k] = Absent] /\ made' = [made EXCEPT ![k] = 0]
        /\ madeFor' = [madeFor EXCEPT ![k] = {}] /\ faults' = faults
        /\ \A c \in Clients : req[c].key # k
    BY <1>2 DEF ReceiptExpires
  <2>2. /\ receipt' \in [Keys -> Rows] /\ receipt'[k] = Absent /\ madeFor' \in [Keys -> SUBSET Bodies]
        /\ made' \in [Keys -> Nat]
        /\ \A j \in Keys \ {k} : receipt'[j] = receipt[j] /\ madeFor'[j] = madeFor[j]
    BY <1>0, <2>1, AbsentRow
  <2>3. RowsOK'
    BY <1>0, <2>2, AbsentRow DEF RowsOK, RowOK
  <2>4. ReqsOK'
    BY <1>0, <2>1, <2>2 DEF ReqsOK, ReqOK
  <2> QED
    BY <1>0, <2>1, <2>2, <2>3, <2>4 DEF ApiInv, TypeOK, TokensDiffer
<1> QED
  BY <1>1, <1>2

-----------------------------------------------------------------------------
\* ApiInv is an invariant of the middleware: for any overlap of requests, with
\* crashes, stalls and lost acknowledgements, an owned row is the owner's.
THEOREM ApiInvariant == Spec => []ApiInv
<1>1. Init => ApiInv
  <2> SUFFICES ASSUME Init PROVE ApiInv
    OBVIOUS
  <2>1. /\ \A c \in Clients : req[c] = Idle
        /\ \A k \in Keys : receipt[k] = Absent
        /\ \A c \in Clients : ReqOK(Idle, receipt, madeFor)
    BY ApiAssumption, IdleOK DEF Init
  <2>2. TypeOK
    BY ApiAssumption, IdleOK, AbsentRow DEF Init, TypeOK, ApiAssumption
  <2>3. TokensDiffer
    BY <2>1, ApiAssumption, IdleOK DEF TokensDiffer
  <2> QED
    BY <2>1, <2>2, <2>3, AbsentRow DEF ApiInv, ReqsOK, RowsOK, RowOK
<1>2. ApiInv /\ [Next]_vars => ApiInv'
  <2> SUFFICES ASSUME ApiInv, [Next]_vars PROVE ApiInv'
    OBVIOUS
  <2>1. CASE UNCHANGED vars
    BY <2>1 DEF vars, ApiInv, TypeOK, ReqsOK, RowsOK, TokensDiffer
  <2>2. ASSUME NEW c \in Clients, RequestStep(c) PROVE ApiInv'
    BY <2>2, ApiAssumption, ClaimStep, HandlerSteps, EndSteps DEF RequestStep
  <2>3. ASSUME NEW c \in Clients, FaultStep(c) \/ Renew(c) PROVE ApiInv'
    BY <2>3, ApiAssumption, HeartbeatSteps, HandlerSteps, EndSteps DEF FaultStep
  <2>4. ASSUME NEW c \in Clients, NEW k \in Keys \cup {NoKey}, NEW b \in Bodies, BeginRequest(c, k, b)
        PROVE  ApiInv'
    BY <2>4, ApiAssumption, BeginStep
  <2>5. ASSUME NEW k \in Keys, ClaimExpires(k) \/ ReceiptExpires(k) PROVE ApiInv'
    BY <2>5, ApiAssumption, TimeSteps
  <2> QED
    BY <2>1, <2>2, <2>3, <2>4, <2>5 DEF Next
<1> QED
  BY <1>1, <1>2, PTL DEF Spec

\* Every handler keeps the rows, the requests and the counters in their types.
THEOREM ApiTypeCorrect == Spec => []TypeOK
<1> ApiInv => TypeOK
  BY DEF ApiInv
<1> QED
  BY ApiInvariant, PTL

\* A replay of "created" is never invented: whichever request completed the
\* receipt, a mission was committed for that key and that body.
THEOREM ReplaysAreTrue == Spec => []ReplayIsTrue
<1> ApiInv => ReplayIsTrue
  BY DEF ApiInv, RowsOK, RowOK, ReplayIsTrue
<1> QED
  BY ApiInvariant, PTL

\* A completed receipt changes only when it expires: claim, complete and release
\* of requests that have lost the key leave it alone.
THEOREM ResponsesStay == Spec => ResponseStays
<1>1. ASSUME ApiInv, [Next]_vars, NEW k \in Keys, receipt[k].st = "completed", ~ReceiptExpires(k)
      PROVE  receipt'[k] = receipt[k]
  <2>0. receipt \in [Keys -> Rows]
    BY <1>1 DEF ApiInv, TypeOK
  <2>1. CASE UNCHANGED vars
    BY <2>1 DEF vars
  <2>2. ASSUME NEW c \in Clients, NEW r, Store(c, r), Row(c).st # "completed", Key(c) \in Keys
        PROVE  receipt'[k] = receipt[k]
    BY <1>1, <2>0, <2>2 DEF Store, Row
  <2>3. ASSUME NEW c \in Clients, RequestStep(c) \/ FaultStep(c) \/ Renew(c)
        PROVE  receipt' = receipt \/ (Key(c) \in Keys /\ Row(c).st # "completed" /\ \E r : Store(c, r))
    <3>1. Key(c) = NoKey \/ Key(c) \in Keys
      BY <1>1, ReqFacts
    <3>2. At(c, "claim") \/ req[c].beating => Key(c) \in Keys
      BY <1>1, ReqFacts DEF ReqOK, At
    <3>3. Owns(c) \/ Acquirable(Row(c), req[c].body) => Row(c).st # "completed"
      BY DEF Owns, Acquirable
    <3>4. CASE Claim(c) \/ ClaimFails(c) \/ Renew(c)
      BY <3>2, <3>3, <3>4 DEF Claim, ClaimFails, Renew
    <3>5. CASE Finish(c) \/ Release(c) \/ FinishFails(c)
      BY <3>1, <3>3, <3>5 DEF Finish, Release, FinishFails, Releasable
    <3>6. CASE RateLimit(c) \/ CheckQuota(c) \/ CommitMission(c) \/ CommitFails(c) \/ Crash(c) \/ HeartbeatFails(c)
      BY <3>6 DEF RateLimit, CheckQuota, CommitMission, CommitFails, Crash, HeartbeatFails
    <3> QED
      BY <2>3, <3>4, <3>5, <3>6 DEF RequestStep, FaultStep
  <2>4. CASE \E c \in Clients : RequestStep(c) \/ FaultStep(c) \/ Renew(c)
    BY <2>2, <2>3, <2>4
  <2>5. CASE \E c \in Clients, j \in Keys \cup {NoKey}, b \in Bodies : BeginRequest(c, j, b)
    BY <2>5 DEF BeginRequest
  <2>6. CASE \E j \in Keys : ClaimExpires(j) \/ ReceiptExpires(j)
    BY <1>1, <2>0, <2>6 DEF ClaimExpires, ReceiptExpires
  <2> QED
    BY <1>1, <2>1, <2>4, <2>5, <2>6 DEF Next
<1>2. ApiInv /\ [Next]_vars =>
        [\A k \in Keys : receipt[k].st = "completed" => receipt'[k] = receipt[k] \/ ReceiptExpires(k)]_vars
  BY <1>1
<1> QED
  BY <1>2, ApiInvariant, PTL DEF Spec, ResponseStays

-----------------------------------------------------------------------------
\* The requests that have passed the quota check and not yet committed.
Passed == {c \in Clients : req[c].pc = "commit"}

QuotaInv == usage + Cardinality(Passed) < Limit + Cardinality(Clients)

\* How a step may change the counter and the requests that have passed.
QuotaStep ==
    \/ usage' = usage /\ Passed' \subseteq Passed
    \/ usage' \in {usage, usage + 1} /\ \E c \in Passed : Passed' = Passed \ {c}
    \/ usage' = usage /\ usage < Limit

\* A request that moves to another step than the commit has not passed, or no longer.
LEMMA PassedStep ==
    ASSUME TypeOK, NEW c \in Clients, NEW q, req' = [req EXCEPT ![c] = q], q.pc # "commit"
    PROVE  Passed' = Passed \ {c}
  BY DEF TypeOK, Passed

\* Every step changes the counter and the passed requests in one of these ways.
LEMMA QuotaSteps ==
    ASSUME ApiInv, ApiAssumption, [Next]_vars
    PROVE  QuotaStep
<1>0. TypeOK /\ req \in [Clients -> Requests]
  BY DEF ApiInv, TypeOK
<1>1. ASSUME NEW c \in Clients, Return(c) PROVE Passed' = Passed \ {c}
  <2>1. req' = [req EXCEPT ![c] = Idle] /\ Idle.pc # "commit"
    BY <1>1 DEF Return, Idle
  <2> QED
    BY <1>0, <2>1, PassedStep
<1>2. ASSUME NEW c \in Clients, NEW resp, Answer(c, resp) PROVE Passed' = Passed \ {c}
  <2> DEFINE q == [req[c] EXCEPT !.pc = "finish", !.resp = resp]
  <2>1. req' = [req EXCEPT ![c] = q]
    BY <1>2 DEF Answer
  <2>2. q.pc = "finish"
    BY <1>0 DEF Requests
  <2> HIDE DEF q
  <2> QED
    BY <1>0, <2>1, <2>2, PassedStep
<1>3. CASE UNCHANGED vars
  BY <1>3 DEF vars, QuotaStep, Passed
<1>4. ASSUME NEW c \in Clients, Finish(c) \/ Release(c) \/ ClaimFails(c) \/ FinishFails(c) \/ Crash(c)
      PROVE  QuotaStep
  BY <1>1, <1>4 DEF Finish, Release, ClaimFails, FinishFails, Crash, QuotaStep
<1>5. ASSUME NEW c \in Clients, Claim(c) PROVE QuotaStep
  <2>1. usage' = usage
    BY <1>5 DEF Claim
  <2>2. CASE Return(c)
    BY <1>1, <2>1, <2>2 DEF QuotaStep
  <2>3. CASE req' = [req EXCEPT ![c] = [@ EXCEPT !.pc = "limit", !.beating = TRUE]]
    <3> DEFINE q == [req[c] EXCEPT !.pc = "limit", !.beating = TRUE]
    <3>1. req' = [req EXCEPT ![c] = q]
      BY <2>3
    <3>2. q.pc = "limit"
      BY <1>0 DEF Requests
    <3> HIDE DEF q
    <3>3. Passed' = Passed \ {c}
      BY <1>0, <3>1, <3>2, PassedStep
    <3> QED
      BY <2>1, <3>3 DEF QuotaStep
  <2> QED
    BY <1>5, <2>2, <2>3 DEF Claim
<1>6. ASSUME NEW c \in Clients, RateLimit(c) PROVE QuotaStep
  <2>1. usage' = usage
    BY <1>6 DEF RateLimit
  <2>2. CASE Answer(c, "limited")
    BY <1>2, <2>1, <2>2 DEF QuotaStep
  <2>3. CASE Goto(c, "quota")
    <3> DEFINE q == [req[c] EXCEPT !.pc = "quota"]
    <3>1. req' = [req EXCEPT ![c] = q]
      BY <2>3 DEF Goto
    <3>2. q.pc = "quota"
      BY <1>0 DEF Requests
    <3> HIDE DEF q
    <3>3. Passed' = Passed \ {c}
      BY <1>0, <3>1, <3>2, PassedStep
    <3> QED
      BY <2>1, <3>3 DEF QuotaStep
  <2> QED
    BY <1>6, <2>2, <2>3 DEF RateLimit
<1>7. ASSUME NEW c \in Clients, CheckQuota(c) PROVE QuotaStep
  <2>1. usage' = usage
    BY <1>7 DEF CheckQuota
  <2>2. CASE Answer(c, "refused") \/ Answer(c, "error")
    BY <1>2, <2>1, <2>2 DEF QuotaStep
  <2>3. CASE WithinLimit(usage)
    BY <2>1, <2>3 DEF WithinLimit, QuotaStep
  <2> QED
    BY <1>7, <2>2, <2>3 DEF CheckQuota
<1>8. ASSUME NEW c \in Clients, CommitMission(c) \/ CommitFails(c) PROVE QuotaStep
  <2>1. c \in Passed
    BY <1>8 DEF CommitMission, CommitFails, At, Passed
  <2>2. Passed' = Passed \ {c}
    BY <1>2, <1>8 DEF CommitMission, CommitFails
  <2>3. usage' \in {usage, usage + 1}
    BY <1>8 DEF CommitMission, CommitFails, Committed
  <2> QED
    BY <2>1, <2>2, <2>3 DEF QuotaStep
<1>9. ASSUME NEW c \in Clients, Renew(c) \/ HeartbeatFails(c) PROVE QuotaStep
  <2>1. usage' = usage
    BY <1>9 DEF Renew, HeartbeatFails
  <2>2. req' = req \/ req' = [req EXCEPT ![c] = [@ EXCEPT !.beating = FALSE]]
    BY <1>9 DEF Renew, HeartbeatFails
  <2>3. \A d \in Clients : req'[d].pc = req[d].pc
    BY <1>0, <2>2 DEF Requests
  <2> QED
    BY <2>1, <2>3 DEF QuotaStep, Passed
<1>10. ASSUME NEW c \in Clients, NEW k \in Keys \cup {NoKey}, NEW b \in Bodies, BeginRequest(c, k, b)
       PROVE  QuotaStep
  <2>1. usage' = usage
    BY <1>10 DEF BeginRequest
  <2> DEFINE q == [pc |-> IF k = NoKey THEN "limit" ELSE "claim", key |-> k, body |-> b,
                   token |-> CHOOSE t \in Tokens \ InUse : TRUE, beating |-> FALSE, resp |-> "none"]
  <2>2. req' = [req EXCEPT ![c] = q] /\ q.pc # "commit"
    BY <1>10 DEF BeginRequest
  <2> HIDE DEF q
  <2> QED
    BY <1>0, <2>1, <2>2, PassedStep DEF QuotaStep
<1>11. ASSUME NEW k \in Keys, ClaimExpires(k) \/ ReceiptExpires(k) PROVE QuotaStep
  BY <1>11 DEF ClaimExpires, ReceiptExpires, QuotaStep, Passed
<1> QED
  BY <1>3, <1>4, <1>5, <1>6, <1>7, <1>8, <1>9, <1>10, <1>11 DEF Next, RequestStep, FaultStep

\* The counter exceeds the plan by fewer than the requests in flight: the
\* unlocked check of check_and_record_mission_creation lets at most the requests
\* that run at once pass with the same count.
THEOREM OvershootAlwaysBounded == Spec => []OvershootIsBounded
<1>a. IsFiniteSet(Clients) /\ Cardinality(Clients) \in Nat /\ Cardinality(Clients) > 0 /\ Limit \in Nat \ {0}
  BY ApiAssumption, FS_CardinalityType, FS_EmptySet DEF ApiAssumption
<1>b. IsFiniteSet(Passed) /\ Cardinality(Passed) \in Nat /\ Cardinality(Passed) <= Cardinality(Clients)
  BY <1>a, Passed \subseteq Clients, FS_Subset, FS_CardinalityType DEF Passed
<1>c. IsFiniteSet(Passed') /\ Cardinality(Passed') \in Nat /\ Cardinality(Passed') <= Cardinality(Clients)
  BY <1>a, Passed' \subseteq Clients, FS_Subset, FS_CardinalityType DEF Passed
<1>1. Init => QuotaInv
  <2> SUFFICES ASSUME Init PROVE QuotaInv
    OBVIOUS
  <2>1. Passed = {} /\ usage = 0
    BY DEF Init, Passed, Idle
  <2>2. Cardinality(Passed) = 0
    BY <2>1, FS_EmptySet
  <2> QED
    BY <1>a, <2>1, <2>2 DEF QuotaInv
<1>2. QuotaInv /\ ApiInv /\ [Next]_vars => QuotaInv'
  <2> SUFFICES ASSUME QuotaInv, ApiInv, [Next]_vars PROVE QuotaInv'
    OBVIOUS
  <2>0. usage \in Nat /\ QuotaStep
    BY ApiAssumption, QuotaSteps DEF ApiInv, TypeOK
  <2>1. CASE usage' = usage /\ Passed' \subseteq Passed
    <3>1. Cardinality(Passed') <= Cardinality(Passed)
      BY <1>b, <2>1, FS_Subset
    <3> QED
      BY <1>a, <1>b, <1>c, <2>0, <2>1, <3>1 DEF QuotaInv
  <2>2. CASE usage' \in {usage, usage + 1} /\ \E c \in Passed : Passed' = Passed \ {c}
    <3>1. Cardinality(Passed') = Cardinality(Passed) - 1
      BY <1>b, <2>2, FS_RemoveElement
    <3> QED
      BY <1>a, <1>b, <1>c, <2>0, <2>2, <3>1 DEF QuotaInv
  <2>3. CASE usage' = usage /\ usage < Limit
    BY <1>a, <1>b, <1>c, <2>0, <2>3 DEF QuotaInv
  <2> QED
    BY <2>0, <2>1, <2>2, <2>3 DEF QuotaStep
<1>3. ApiInv /\ QuotaInv => OvershootIsBounded
  <2> SUFFICES ASSUME ApiInv, QuotaInv PROVE OvershootIsBounded
    OBVIOUS
  <2>1. usage \in Nat
    BY DEF ApiInv, TypeOK
  <2> QED
    BY <1>a, <1>b, <2>1 DEF QuotaInv, OvershootIsBounded
<1> QED
  BY <1>1, <1>2, <1>3, ApiInvariant, PTL DEF Spec

-----------------------------------------------------------------------------
WorkPCs == {"limit", "quota", "commit"}

\* The requests of k that may still create a mission.
Working(k) == {c \in Clients : req[c].key = k /\ req[c].pc \in WorkPCs}

\* A request that keeps its claim alive, and will complete it if it creates.
Guards(q) == q.beating /\ (q.pc \in WorkPCs \/ (q.pc = "finish" /\ Stores(q.resp)))

\* No other request can get k before something fails.
Guarded(k) ==
    \/ receipt[k].st = "completed"
    \/ /\ receipt[k].st = "claiming" /\ receipt[k].fresh
       /\ \E c \in Clients : req[c].key = k /\ req[c].token = receipt[k].owner /\ Guards(req[c])

Slot(k) == IF Guarded(k) THEN 0 ELSE 1

DuplicateInv == \A k \in Keys : made[k] + Cardinality(Working(k)) + Slot(k) <= 1 + faults

\* How a step may change the terms of the budget of k.
BudgetStep(k) ==
    \/ made'[k] = made[k] /\ Working(k)' \subseteq Working(k) /\ (Guarded(k) => Guarded(k)') /\ faults' >= faults
    \/ /\ made'[k] = made[k] /\ faults' >= faults
       /\ \E c \in Working(k) : Working(k)' = Working(k) \ {c}
    \/ /\ made'[k] = made[k] + 1 /\ faults' >= faults /\ (Guarded(k) => Guarded(k)')
       /\ \E c \in Working(k) : Working(k)' = Working(k) \ {c}
    \/ /\ made'[k] \in {made[k], made[k] + 1} /\ faults' = faults + 1
       /\ \E c \in Working(k) : Working(k)' = Working(k) \ {c}
    \/ made'[k] = made[k] /\ Working(k)' \subseteq Working(k) /\ faults' = faults + 1
    \/ /\ made'[k] = made[k] /\ ~Guarded(k) /\ Guarded(k)' /\ faults' >= faults
       /\ \E c \in Clients : Working(k)' = Working(k) \cup {c}
    \/ made'[k] = 0 /\ Working(k)' = {} /\ faults' >= faults

\* The arithmetic of these ways.
LEMMA BudgetSums ==
    ASSUME NEW a \in Nat, NEW b \in Nat, NEW n \in Nat, NEW m \in Nat, NEW s \in {0, 1}, NEW t \in {0, 1},
           NEW f \in Nat, NEW g \in Nat, a + n + s <= 1 + f,
           \/ b = a /\ m <= n /\ t <= s /\ g >= f
           \/ b = a /\ m = n - 1 /\ g >= f
           \/ b = a + 1 /\ m = n - 1 /\ t <= s /\ g >= f
           \/ b \in {a, a + 1} /\ m = n - 1 /\ g = f + 1
           \/ b = a /\ m <= n /\ g = f + 1
           \/ b = a /\ m <= n + 1 /\ s = 1 /\ t = 0 /\ g >= f
           \/ b = 0 /\ m = 0 /\ g >= f
    PROVE  b + m + t <= 1 + g
  OBVIOUS

\* Every way to change them keeps the budget.
LEMMA BudgetKept ==
    ASSUME ApiAssumption, TypeOK, TypeOK', NEW k \in Keys, BudgetStep(k),
           made[k] + Cardinality(Working(k)) + Slot(k) <= 1 + faults
    PROVE  made'[k] + Cardinality(Working(k)') + Slot(k)' <= 1 + faults'
<1>1. /\ made[k] \in Nat /\ made'[k] \in Nat /\ faults \in Nat /\ faults' \in Nat
      /\ Slot(k) \in {0, 1} /\ Slot(k)' \in {0, 1}
      /\ (Guarded(k) => Slot(k) = 0) /\ (~Guarded(k) => Slot(k) = 1)
      /\ (Guarded(k)' => Slot(k)' = 0) /\ (~Guarded(k)' => Slot(k)' = 1)
  BY DEF TypeOK, Slot, ApiAssumption
<1>2. IsFiniteSet(Working(k)) /\ IsFiniteSet(Working(k)')
  BY Working(k) \subseteq Clients, Working(k)' \subseteq Clients, FS_Subset DEF ApiAssumption, Working
<1>3. Cardinality(Working(k)) \in Nat /\ Cardinality(Working(k)') \in Nat
  BY <1>2, FS_CardinalityType
<1>4. Working(k)' \subseteq Working(k) => Cardinality(Working(k)') <= Cardinality(Working(k))
  BY <1>2, FS_Subset
<1>5. (\E c \in Working(k) : Working(k)' = Working(k) \ {c}) =>
        Cardinality(Working(k)') = Cardinality(Working(k)) - 1
  BY <1>2, FS_RemoveElement
<1>6. (\E c \in Clients : Working(k)' = Working(k) \cup {c}) =>
        Cardinality(Working(k)') <= Cardinality(Working(k)) + 1
  BY <1>2, <1>3, FS_AddElement
<1>7. Working(k)' = {} => Cardinality(Working(k)') = 0
  BY FS_EmptySet
<1> DEFINE n == Cardinality(Working(k))
           m == Cardinality(Working(k)')
           s == Slot(k)
           t == Slot(k)'
<1>8. /\ n \in Nat /\ m \in Nat /\ s \in {0, 1} /\ t \in {0, 1} /\ made[k] + n + s <= 1 + faults
      /\ \/ made'[k] = made[k] /\ m <= n /\ t <= s /\ faults' >= faults
         \/ made'[k] = made[k] /\ m = n - 1 /\ faults' >= faults
         \/ made'[k] = made[k] + 1 /\ m = n - 1 /\ t <= s /\ faults' >= faults
         \/ made'[k] \in {made[k], made[k] + 1} /\ m = n - 1 /\ faults' = faults + 1
         \/ made'[k] = made[k] /\ m <= n /\ faults' = faults + 1
         \/ made'[k] = made[k] /\ m <= n + 1 /\ s = 1 /\ t = 0 /\ faults' >= faults
         \/ made'[k] = 0 /\ m = 0 /\ faults' >= faults
  BY <1>1, <1>3, <1>4, <1>5, <1>6, <1>7 DEF BudgetStep
<1> HIDE DEF n, m, s, t
<1>9. made'[k] + m + t <= 1 + faults'
  <2>1. made[k] \in Nat /\ made'[k] \in Nat /\ faults \in Nat /\ faults' \in Nat
    BY <1>1
  <2> QED
    BY <1>8, <2>1, BudgetSums
<1> QED
  BY <1>9 DEF m, t

\* A step of c that leaves the row of k alone keeps k guarded, unless c is its
\* guard and stops guarding.
LEMMA StaysGuarded ==
    ASSUME NEW c \in Clients, NEW k \in Keys, receipt'[k] = receipt[k],
           \A d \in Clients \ {c} : req'[d] = req[d],
           (receipt[k].st = "claiming" /\ req[c].key = k /\ req[c].token = receipt[k].owner /\ Guards(req[c]))
             => req'[c].key = k /\ req'[c].token = req[c].token /\ Guards(req'[c])
    PROVE  Guarded(k) => Guarded(k)'
<1> SUFFICES ASSUME Guarded(k), receipt[k].st # "completed" PROVE Guarded(k)'
  BY DEF Guarded
<1>1. PICK d \in Clients : /\ receipt[k].st = "claiming" /\ receipt[k].fresh
                           /\ req[d].key = k /\ req[d].token = receipt[k].owner /\ Guards(req[d])
  BY DEF Guarded
<1>2. req'[d].key = k /\ req'[d].token = receipt[k].owner /\ Guards(req'[d])
  BY <1>1
<1> QED
  BY <1>1, <1>2 DEF Guarded

\* The work on k after a step of c.
LEMMA WorkingStep ==
    ASSUME NEW c \in Clients, NEW k \in Keys, \A d \in Clients \ {c} : req'[d] = req[d]
    PROVE  /\ (req'[c].key = k /\ req'[c].pc \in WorkPCs => c \in Working(k)) => Working(k)' \subseteq Working(k)
           /\ ~(req'[c].key = k /\ req'[c].pc \in WorkPCs) => Working(k)' = Working(k) \ {c}
           /\ req'[c].key = k /\ req'[c].pc \in WorkPCs => Working(k)' = Working(k) \cup {c}
  BY DEF Working

-----------------------------------------------------------------------------
\* A step of c that changes neither the rows nor what was made: it costs the
\* budget nothing if c goes on guarding what it guards and takes up no work.
LEMMA QuietStep ==
    ASSUME NEW c \in Clients, NEW k \in Keys, receipt'[k] = receipt[k], made'[k] = made[k], faults' >= faults,
           \A d \in Clients \ {c} : req'[d] = req[d],
           (req'[c].key = k /\ req'[c].pc \in WorkPCs) => c \in Working(k),
           (receipt[k].st = "claiming" /\ req[c].key = k /\ req[c].token = receipt[k].owner /\ Guards(req[c]))
             => req'[c].key = k /\ req'[c].token = req[c].token /\ Guards(req'[c])
    PROVE  BudgetStep(k)
<1>1. Guarded(k) => Guarded(k)'
  BY StaysGuarded
<1>2. Working(k)' \subseteq Working(k)
  BY WorkingStep
<1> QED
  BY <1>1, <1>2 DEF BudgetStep

\* What a step of c does to the requests: q is what it leaves.
LEMMA OneRequest ==
    ASSUME TypeOK, NEW c \in Clients, NEW q, req' = [req EXCEPT ![c] = q]
    PROVE  req'[c] = q /\ \A d \in Clients \ {c} : req'[d] = req[d]
  BY DEF TypeOK

\* A finished request works on no key.
LEMMA IdleIsQuiet == ASSUME ApiAssumption, NEW k \in Keys
    PROVE  Idle.key # k /\ Idle.pc \notin WorkPCs
  BY DEF Idle, ApiAssumption, WorkPCs

\* Faults pay for a lost guard.
LEMMA FaultBudget ==
    ASSUME ApiInv, ApiAssumption, NEW k \in Keys,
           \/ \E c \in Clients : HeartbeatFails(c) \/ ClaimFails(c) \/ FinishFails(c) \/ Crash(c)
           \/ \E c \in Clients : CommitFails(c)
    PROVE  BudgetStep(k)
<1>0. TypeOK /\ req \in [Clients -> Requests]
  BY DEF ApiInv, TypeOK
<1>1. ASSUME NEW c \in Clients, HeartbeatFails(c) \/ ClaimFails(c) \/ FinishFails(c) \/ Crash(c)
      PROVE  BudgetStep(k)
  <2>1. made'[k] = made[k] /\ faults' = faults + 1
    BY <1>1 DEF HeartbeatFails, ClaimFails, FinishFails, Crash, Fault, ghosts
  <2>2. req' = [req EXCEPT ![c] = Idle] \/ req' = [req EXCEPT ![c] = [@ EXCEPT !.beating = FALSE]]
    BY <1>1 DEF HeartbeatFails, ClaimFails, FinishFails, Crash, Return
  <2>3. \A d \in Clients : req'[d] = req[d] \/ req'[d] = Idle \/ (req'[d].pc = req[d].pc /\ req'[d].key = req[d].key)
    BY <1>0, <2>2 DEF Requests
  <2>4. Working(k)' \subseteq Working(k)
    BY <2>3, ApiAssumption, IdleIsQuiet DEF Working
  <2> QED
    BY <2>1, <2>4 DEF BudgetStep
<1>2. ASSUME NEW c \in Clients, CommitFails(c) PROVE BudgetStep(k)
  <2> DEFINE q == [req[c] EXCEPT !.pc = "finish", !.resp = "error"]
  <2>1. req' = [req EXCEPT ![c] = q]
    BY <1>2 DEF CommitFails, Answer
  <2>2. q.pc = "finish" /\ q.key = req[c].key
    BY <1>0 DEF Requests
  <2> HIDE DEF q
  <2>3. req'[c] = q /\ \A d \in Clients \ {c} : req'[d] = req[d]
    BY <1>0, <2>1, OneRequest
  <2>4. Working(k)' = Working(k) \ {c}
    BY <2>2, <2>3, WorkingStep DEF WorkPCs
  <2>5. faults' = faults + 1 /\ req[c].pc = "commit"
    BY <1>2 DEF CommitFails, Fault, At
  <2>6. CASE Key(c) = k
    <3>1. c \in Working(k)
      BY <2>5, <2>6 DEF Working, WorkPCs, Key
    <3>2. made'[k] \in {made[k], made[k] + 1}
      BY <1>0, <1>2, <2>6 DEF CommitFails, Committed, ghosts, TypeOK
    <3> QED
      BY <2>4, <2>5, <3>1, <3>2 DEF BudgetStep
  <2>7. CASE Key(c) # k
    <3>1. made'[k] = made[k]
      BY <1>0, <1>2, <2>7 DEF CommitFails, Committed, ghosts, TypeOK
    <3> QED
      BY <2>4, <2>5, <3>1 DEF BudgetStep
  <2> QED
    BY <2>6, <2>7
<1> QED
  BY <1>1, <1>2

\* Answering ends the work of c: a refusal or an error leaves it to the guard,
\* a creation is counted.
LEMMA HandlerBudget ==
    ASSUME ApiInv, ApiAssumption, NEW k \in Keys, NEW c \in Clients,
           RateLimit(c) \/ CheckQuota(c) \/ CommitMission(c)
    PROVE  BudgetStep(k)
<1>0. TypeOK /\ req \in [Clients -> Requests] /\ req[c] \in Requests
  BY DEF ApiInv, TypeOK
<1>1. /\ receipt' = receipt /\ faults' = faults /\ faults' >= faults
      /\ req[c].pc \in WorkPCs
  BY <1>0 DEF RateLimit, CheckQuota, CommitMission, At, WorkPCs, TypeOK, ApiAssumption
<1>2. ASSUME NEW resp, Answer(c, resp)
      PROVE  /\ req'[c].pc = "finish" /\ req'[c].resp = resp /\ req'[c].key = req[c].key
             /\ req'[c].token = req[c].token /\ req'[c].beating = req[c].beating
             /\ \A d \in Clients \ {c} : req'[d] = req[d]
             /\ Working(k)' = Working(k) \ {c}
             /\ req[c].key # k => c \notin Working(k)
             /\ req[c].key = k => c \in Working(k)
  <2> DEFINE q == [req[c] EXCEPT !.pc = "finish", !.resp = resp]
  <2>1. req' = [req EXCEPT ![c] = q]
    BY <1>2 DEF Answer
  <2>2. /\ q.pc = "finish" /\ q.resp = resp /\ q.key = req[c].key
        /\ q.token = req[c].token /\ q.beating = req[c].beating
    BY <1>0 DEF Requests
  <2> HIDE DEF q
  <2>3. req'[c] = q /\ \A d \in Clients \ {c} : req'[d] = req[d]
    BY <1>0, <2>1, OneRequest
  <2>4. Working(k)' = Working(k) \ {c}
    BY <2>2, <2>3, WorkingStep DEF WorkPCs
  <2> QED
    BY <1>1, <2>2, <2>3, <2>4 DEF Working
<1>3. ASSUME NEW resp, Answer(c, resp), made' = made PROVE BudgetStep(k)
  <2>1. CASE req[c].key = k
    BY <1>1, <1>2, <1>3, <2>1 DEF BudgetStep
  <2>2. CASE req[c].key # k
    BY <1>1, <1>2, <1>3, <2>2, QuietStep DEF WorkPCs
  <2> QED
    BY <2>1, <2>2
<1>4. ASSUME NEW pc \in WorkPCs, Goto(c, pc), made' = made PROVE BudgetStep(k)
  <2> DEFINE q == [req[c] EXCEPT !.pc = pc]
  <2>1. req' = [req EXCEPT ![c] = q]
    BY <1>4 DEF Goto
  <2>2. q.pc = pc /\ q.key = req[c].key /\ q.token = req[c].token /\ q.beating = req[c].beating
    BY <1>0 DEF Requests
  <2> HIDE DEF q
  <2>3. req'[c] = q /\ \A d \in Clients \ {c} : req'[d] = req[d]
    BY <1>0, <2>1, OneRequest
  <2>4. Guards(req[c]) => Guards(req'[c])
    BY <1>4, <2>2, <2>3 DEF Guards
  <2>5. req'[c].key = k => c \in Working(k)
    BY <1>1, <2>2, <2>3 DEF Working
  <2> QED
    BY <1>1, <1>4, <2>2, <2>3, <2>4, <2>5, QuietStep
<1>5. CASE RateLimit(c)
  BY <1>3, <1>4, <1>5 DEF RateLimit, WorkPCs, ghosts
<1>6. CASE CheckQuota(c)
  BY <1>3, <1>4, <1>6 DEF CheckQuota, WorkPCs, ghosts
<1>7. CASE CommitMission(c)
  <2>1. Answer(c, "created") /\ Committed(c)
    BY <1>7 DEF CommitMission
  <2>2. CASE Key(c) = k
    <3>1. made'[k] = made[k] + 1
      BY <1>0, <2>1, <2>2, ApiAssumption DEF Committed, TypeOK, ApiAssumption
    <3>2. Guards(req[c]) => Guards(req'[c])
      BY <1>2, <2>1 DEF Guards, Stores
    <3>3. Guarded(k) => Guarded(k)'
      BY <1>1, <1>2, <2>1, <3>2, StaysGuarded
    <3> QED
      BY <1>1, <1>2, <2>1, <2>2, <3>1, <3>3 DEF BudgetStep, Key
  <2>3. CASE Key(c) # k
    <3>1. made'[k] = made[k]
      BY <1>0, <2>1, <2>3 DEF Committed, TypeOK, ghosts
    <3> QED
      BY <1>1, <1>2, <2>1, <2>3, <3>1, QuietStep DEF WorkPCs, Key
  <2> QED
    BY <2>2, <2>3
<1> QED
  BY <1>5, <1>6, <1>7

\* A claim takes the slot of an unguarded key, and guards it.
LEMMA ClaimBudget ==
    ASSUME ApiInv, ApiAssumption, NEW k \in Keys, NEW c \in Clients, Claim(c)
    PROVE  BudgetStep(k)
<1>0. /\ TypeOK /\ req[c] \in Requests /\ receipt \in [Keys -> Rows] /\ Key(c) \in Keys
      /\ req[c].pc = "claim" /\ made' = made /\ faults' >= faults
  BY ReqFacts DEF ApiInv, TypeOK, Claim, At, ReqOK, ghosts, ApiAssumption
<1>1. CASE Return(c) /\ UNCHANGED receipt
  <2>1. req'[c] = Idle /\ \A d \in Clients \ {c} : req'[d] = req[d]
    BY <1>0, <1>1, OneRequest DEF Return
  <2>2. ~Guards(req[c]) /\ Idle.pc \notin WorkPCs
    BY <1>0 DEF Guards, WorkPCs, Idle
  <2> QED
    BY <1>0, <1>1, <2>1, <2>2, QuietStep
<1>2. CASE /\ Acquirable(Row(c), req[c].body) /\ Store(c, Claimed(c))
           /\ req' = [req EXCEPT ![c] = [@ EXCEPT !.pc = "limit", !.beating = TRUE]]
  <2> DEFINE q == [req[c] EXCEPT !.pc = "limit", !.beating = TRUE]
  <2>1. req' = [req EXCEPT ![c] = q]
    BY <1>2
  <2>2. q.pc = "limit" /\ q.beating = TRUE /\ q.key = req[c].key /\ q.token = req[c].token
    BY <1>0 DEF Requests
  <2> HIDE DEF q
  <2>3. req'[c] = q /\ \A d \in Clients \ {c} : req'[d] = req[d]
    BY <1>0, <2>1, OneRequest
  <2>4. CASE Key(c) = k
    <3>1. receipt'[k] = Claimed(c)
      BY <1>0, <1>2, <2>4 DEF Store
    <3>2. Claimed(c).st = "claiming" /\ Claimed(c).fresh = TRUE /\ Claimed(c).owner = req[c].token
      BY DEF Claimed
    <3>3. Guards(q)
      BY <2>2 DEF Guards, WorkPCs
    <3>4. Guarded(k)'
      BY <2>2, <2>3, <2>4, <3>1, <3>2, <3>3 DEF Guarded, Key
    <3>5. ~Guarded(k)
      BY <1>2, <2>4 DEF Acquirable, Guarded, Row
    <3>6. Working(k)' = Working(k) \cup {c}
      BY <2>2, <2>3, <2>4, WorkingStep DEF Key, WorkPCs
    <3> QED
      BY <1>0, <3>4, <3>5, <3>6 DEF BudgetStep
  <2>5. CASE Key(c) # k
    <3>1. receipt'[k] = receipt[k]
      BY <1>0, <1>2, <2>5 DEF Store
    <3> QED
      BY <1>0, <2>2, <2>3, <2>5, <3>1, QuietStep DEF Key
  <2> QED
    BY <2>4, <2>5
<1> QED
  BY <1>1, <1>2 DEF Claim

\* Ending a request: completion closes the key, release reopens one that was not
\* guarded any more, and a request that has lost the key guards nothing.
LEMMA EndBudget ==
    ASSUME ApiInv, ApiAssumption, NEW k \in Keys, NEW c \in Clients, Finish(c) \/ Release(c)
    PROVE  BudgetStep(k)
<1>0. /\ TypeOK /\ receipt \in [Keys -> Rows] /\ made' = made /\ faults' >= faults
      /\ (Key(c) = NoKey \/ Key(c) \in Keys) /\ req[c].pc = "finish" /\ Return(c)
  BY ReqFacts DEF ApiInv, TypeOK, Finish, Release, At, ghosts, ApiAssumption
<1>1. req'[c] = Idle /\ \A d \in Clients \ {c} : req'[d] = req[d]
  BY <1>0, OneRequest DEF Return
<1>2. Idle.pc \notin WorkPCs
  BY DEF WorkPCs, Idle
<1>3. Working(k)' \subseteq Working(k)
  BY <1>1, <1>2, WorkingStep
<1>4. CASE receipt' = receipt /\ ~(Key(c) \in Keys /\ Owns(c))
  BY <1>0, <1>1, <1>2, <1>4, QuietStep DEF Owns, Row, Key
<1>5. CASE Key(c) \in Keys /\ Key(c) # k /\ \E r : Store(c, r)
  <2>1. receipt'[k] = receipt[k]
    BY <1>0, <1>5 DEF Store
  <2> QED
    BY <1>0, <1>1, <1>2, <1>5, <2>1, QuietStep DEF Key
<1>6. CASE Key(c) = k /\ Owns(c) /\ Store(c, Completed(c))
  <2>1. receipt'[k] = Completed(c) /\ Row(c) \in Rows
    BY <1>0, <1>6 DEF Store, Row
  <2>2. Completed(c).st = "completed"
    BY <2>1 DEF Completed, Rows
  <2> QED
    BY <1>0, <1>3, <2>1, <2>2 DEF BudgetStep, Guarded
<1>7. CASE Key(c) = k /\ Owns(c) /\ ~Stores(req[c].resp)
  <2>1. req[c].token \in Tokens
    BY <1>0, ReqFacts DEF ReqOK
  <2>2. \A d \in Clients : req[d].token = req[c].token => d = c
    BY <2>1, ApiAssumption DEF ApiInv, TokensDiffer, ApiAssumption
  <2>3. ~Guards(req[c])
    BY <1>0, <1>7 DEF Guards, WorkPCs
  <2>4. ~Guarded(k)
    BY <1>7, <2>2, <2>3 DEF Guarded, Owns, Row
  <2> QED
    BY <1>0, <1>3, <2>4 DEF BudgetStep
<1>8. CASE Finish(c)
  BY <1>0, <1>4, <1>5, <1>6, <1>8, ApiAssumption DEF Finish, ApiAssumption
<1>9. CASE Release(c)
  BY <1>0, <1>4, <1>5, <1>7, <1>9 DEF Release, Releasable
<1> QED
  BY <1>8, <1>9

\* Expiry, renewal and arrivals: only a claim that expires under a running heartbeat costs a fault.
LEMMA TimeBudget ==
    ASSUME ApiInv, ApiAssumption, NEW k \in Keys,
           \/ \E j \in Keys : ClaimExpires(j) \/ ReceiptExpires(j)
           \/ \E c \in Clients : Renew(c)
           \/ \E c \in Clients, j \in Keys \cup {NoKey}, b \in Bodies : BeginRequest(c, j, b)
    PROVE  BudgetStep(k)
<1>0. TypeOK /\ req \in [Clients -> Requests] /\ receipt \in [Keys -> Rows] /\ made \in [Keys -> Nat] /\ faults \in Nat
  BY DEF ApiInv, TypeOK
<1>1. ASSUME NEW j \in Keys, ClaimExpires(j) PROVE BudgetStep(k)
  <2>1. made' = made /\ req' = req /\ Working(k)' = Working(k)
    BY <1>1 DEF ClaimExpires, ghosts, Working
  <2>2. CASE faults' = faults + 1
    BY <2>1, <2>2 DEF BudgetStep
  <2>3. CASE faults' = faults /\ ~(\E c \in Alive(j) : req[c].beating)
    <3>1. CASE j = k
      <4>1. ~Guarded(k)
        BY <1>1, <2>3, <3>1 DEF ClaimExpires, Guarded, Guards, Alive
      <4> QED
        BY <1>0, <2>1, <2>3, <4>1 DEF BudgetStep
    <3>2. CASE j # k
      <4>1. receipt'[k] = receipt[k]
        BY <1>0, <1>1, <3>2 DEF ClaimExpires
      <4>2. Guarded(k) => Guarded(k)'
        BY <2>1, <4>1 DEF Guarded
      <4> QED
        BY <1>0, <2>1, <2>3, <4>2 DEF BudgetStep
    <3> QED
      BY <3>1, <3>2
  <2> QED
    BY <1>1, <2>2, <2>3 DEF ClaimExpires, Fault
<1>2. ASSUME NEW j \in Keys, ReceiptExpires(j) PROVE BudgetStep(k)
  <2>1. req' = req /\ faults' = faults /\ Working(k)' = Working(k)
    BY <1>2 DEF ReceiptExpires, Working
  <2>2. CASE j = k
    <3>1. made'[k] = 0 /\ Working(k) = {}
      BY <1>0, <1>2, <2>2 DEF ReceiptExpires, Working
    <3> QED
      BY <1>0, <2>1, <3>1 DEF BudgetStep
  <2>3. CASE j # k
    <3>1. made'[k] = made[k] /\ receipt'[k] = receipt[k]
      BY <1>0, <1>2, <2>3 DEF ReceiptExpires
    <3>2. Guarded(k) => Guarded(k)'
      BY <2>1, <3>1 DEF Guarded
    <3> QED
      BY <1>0, <2>1, <3>1, <3>2 DEF BudgetStep
  <2> QED
    BY <2>2, <2>3
<1>3. ASSUME NEW c \in Clients, Renew(c) PROVE BudgetStep(k)
  <2>0. made' = made /\ faults' = faults /\ Key(c) \in Keys
    BY <1>3, ReqFacts DEF Renew, ghosts, ReqOK
  <2>1. CASE Owns(c) /\ Store(c, [Row(c) EXCEPT !.fresh = TRUE]) /\ req' = req
    <3> DEFINE r == [Row(c) EXCEPT !.fresh = TRUE]
    <3>1. Row(c) \in Rows /\ Row(c) = receipt[Key(c)]
      BY <1>0, <2>0 DEF Row
    <3>2. r.st = Row(c).st /\ r.owner = Row(c).owner /\ r.fresh = TRUE
      BY <3>1 DEF Rows
    <3>3. receipt' = [receipt EXCEPT ![Key(c)] = r]
      BY <2>1 DEF Store
    <3> HIDE DEF r
    <3>4. receipt'[k].st = receipt[k].st /\ receipt'[k].owner = receipt[k].owner
          /\ (receipt[k].fresh => receipt'[k].fresh)
      BY <1>0, <2>0, <3>1, <3>2, <3>3
    <3>5. Guarded(k) => Guarded(k)'
      BY <2>1, <3>4 DEF Guarded
    <3>6. Working(k)' = Working(k)
      BY <2>1 DEF Working
    <3> QED
      BY <1>0, <2>0, <3>5, <3>6 DEF BudgetStep
  <2>2. CASE ~Owns(c) /\ receipt' = receipt /\ req' = [req EXCEPT ![c].beating = FALSE]
    <3> DEFINE q == [req[c] EXCEPT !.beating = FALSE]
    <3>1. req' = [req EXCEPT ![c] = q]
      BY <2>2
    <3>2. q.pc = req[c].pc /\ q.key = req[c].key
      BY <1>0, req[c] \in Requests DEF Requests
    <3> HIDE DEF q
    <3>3. req'[c] = q /\ \A d \in Clients \ {c} : req'[d] = req[d]
      BY <1>0, <3>1, OneRequest
    <3>4. (req'[c].key = k /\ req'[c].pc \in WorkPCs) => c \in Working(k)
      BY <3>2, <3>3 DEF Working
    <3>5. ~(receipt[k].st = "claiming" /\ req[c].key = k /\ req[c].token = receipt[k].owner)
      BY <2>2 DEF Owns, Row, Key
    <3> QED
      BY <1>0, <2>0, <2>2, <3>3, <3>4, <3>5, QuietStep
  <2> QED
    BY <1>3, <2>1, <2>2 DEF Renew
<1>4. ASSUME NEW c \in Clients, NEW j \in Keys \cup {NoKey}, NEW b \in Bodies, BeginRequest(c, j, b)
      PROVE  BudgetStep(k)
  <2> DEFINE q == [pc |-> IF j = NoKey THEN "limit" ELSE "claim", key |-> j, body |-> b,
                   token |-> CHOOSE t \in Tokens \ InUse : TRUE, beating |-> FALSE, resp |-> "none"]
  <2>1. req' = [req EXCEPT ![c] = q]
    BY <1>4 DEF BeginRequest
  <2>2. q.key = k => q.pc \notin WorkPCs
    BY ApiAssumption DEF ApiAssumption, WorkPCs
  <2> HIDE DEF q
  <2>3. req'[c] = q /\ \A d \in Clients \ {c} : req'[d] = req[d]
    BY <1>0, <2>1, OneRequest
  <2>4. receipt' = receipt /\ made' = made /\ faults' = faults /\ req[c].pc = "idle"
    BY <1>4 DEF BeginRequest, ghosts, At
  <2>5. ~Guards(req[c])
    BY <2>4 DEF Guards, WorkPCs
  <2> QED
    BY <1>0, <2>2, <2>3, <2>4, <2>5, QuietStep
<1> QED
  BY <1>1, <1>2, <1>3, <1>4

\* For any number of overlapping and repeated requests of a key, the middleware
\* lets through one creation, and one more for each crash, stall or lost
\* acknowledgement.
THEOREM DuplicatesAlwaysNeedFaults == Spec => []DuplicatesNeedFaults
<1>1. Init => DuplicateInv
  <2> SUFFICES ASSUME Init, NEW k \in Keys PROVE made[k] + Cardinality(Working(k)) + Slot(k) <= 1 + faults
    BY DEF DuplicateInv
  <2>1. Working(k) = {} /\ made[k] = 0 /\ faults = 0
    BY DEF Init, Working, Idle, WorkPCs
  <2>2. Cardinality(Working(k)) = 0
    BY <2>1, FS_EmptySet
  <2>3. Slot(k) \in {0, 1}
    BY DEF Slot
  <2> QED
    BY <2>1, <2>2, <2>3
<1>2. DuplicateInv /\ ApiInv /\ ApiInv' /\ [Next]_vars => DuplicateInv'
  <2> SUFFICES ASSUME DuplicateInv, ApiInv, ApiInv', [Next]_vars, NEW k \in Keys
               PROVE  made'[k] + Cardinality(Working(k)') + Slot(k)' <= 1 + faults'
    BY DEF DuplicateInv
  <2>0. TypeOK /\ TypeOK' /\ made[k] + Cardinality(Working(k)) + Slot(k) <= 1 + faults
    BY DEF ApiInv, DuplicateInv
  <2>1. CASE UNCHANGED vars
    <3>1. Working(k)' = Working(k) /\ Slot(k)' = Slot(k) /\ made' = made /\ faults' = faults
      BY <2>1 DEF vars, Working, Slot, Guarded
    <3> QED
      BY <2>0, <3>1
  <2>2. CASE Next
    <3>1. BudgetStep(k)
      BY <2>2, ApiAssumption, FaultBudget, HandlerBudget, ClaimBudget, EndBudget, TimeBudget
      DEF Next, RequestStep, FaultStep
    <3> QED
      BY <2>0, <3>1, ApiAssumption, BudgetKept
  <2> QED
    BY <2>1, <2>2
<1>3. ApiInv /\ DuplicateInv => DuplicatesNeedFaults
  <2> SUFFICES ASSUME ApiInv, DuplicateInv, NEW k \in Keys PROVE made[k] <= 1 + faults
    BY DEF DuplicatesNeedFaults
  <2>1. made[k] + Cardinality(Working(k)) + Slot(k) <= 1 + faults
    BY DEF DuplicateInv
  <2>2. IsFiniteSet(Working(k))
    BY Working(k) \subseteq Clients, ApiAssumption, FS_Subset DEF ApiAssumption, Working
  <2>3. Cardinality(Working(k)) \in Nat /\ Slot(k) \in {0, 1} /\ made[k] \in Nat /\ faults \in Nat
    BY <2>2, FS_CardinalityType DEF Slot, ApiInv, TypeOK
  <2> QED
    BY <2>1, <2>3
<1> QED
  BY <1>1, <1>2, <1>3, ApiInvariant, PTL DEF Spec
=============================================================================

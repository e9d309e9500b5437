---------------------------- MODULE ApiRequests ----------------------------
(***************************************************************************)
(* POST /missions with an Idempotency-Key, through the middleware of the   *)
(* API: durable ownership of the key (idempotency.py,                      *)
(* http_idempotency_repository.py), the rate limit, the mission quota      *)
(* (quota_enforcement.py) and the transaction that creates the mission.    *)
(*                                                                         *)
(* A key is claimed before the handler runs; the claim lasts 120 seconds   *)
(* and is renewed by a heartbeat task; a response below 500 other than 429 *)
(* completes the receipt and is replayed from then on, any other outcome   *)
(* releases it.  Requests of one key may overlap and run in different      *)
(* processes, any of which may die, stall, or lose an acknowledgement.     *)
(***************************************************************************)
EXTENDS Naturals, FiniteSets

CONSTANTS
    Clients,               \* concurrent requests
    Keys, NoKey,           \* operation keys (tenant, principal, method, path, header)
    Bodies, NoBody,        \* request fingerprints
    Tokens, NoToken,       \* claim owners (uuid4)
    Limit,                 \* max_missions_per_month of the plan
    MaxFaults              \* bound on crashes, stalls and failed database calls

ASSUME ApiAssumption ==
    /\ NoKey \notin Keys /\ NoBody \notin Bodies /\ NoToken \notin Tokens
    /\ IsFiniteSet(Clients) /\ Clients # {}
    /\ Limit \in Nat \ {0}
    /\ MaxFaults \in Nat

VARIABLES
    receipt,   \* receipt[k] = [st, body, owner, fresh, resp]; fresh: the claim has not expired
    req,       \* req[c] = [pc, key, body, token, beating, resp]
    usage,     \* missions_created of the tenant in this billing period
    made,      \* made[k]: missions committed by requests of k since its last receipt expired
    madeFor,   \* madeFor[k]: the bodies of those requests
    faults

vars == <<receipt, req, usage, made, madeFor, faults>>

Absent == [st |-> "absent", body |-> NoBody, owner |-> NoToken, fresh |-> FALSE, resp |-> "none"]
Idle == [pc |-> "idle", key |-> NoKey, body |-> NoBody, token |-> NoToken, beating |-> FALSE, resp |-> "none"]

\* The usage row of the billing period exists.
Init ==
    /\ receipt = [k \in Keys |-> Absent]
    /\ req = [c \in Clients |-> Idle]
    /\ usage = 0
    /\ made = [k \in Keys |-> 0]
    /\ madeFor = [k \in Keys |-> {}]
    /\ faults = 0

-----------------------------------------------------------------------------
At(c, pc) == req[c].pc = pc
Key(c) == req[c].key
Row(c) == receipt[Key(c)]
Goto(c, pc) == req' = [req EXCEPT ![c].pc = pc]
Answer(c, resp) == req' = [req EXCEPT ![c] = [@ EXCEPT !.pc = "finish", !.resp = resp]]
Return(c) == req' = [req EXCEPT ![c] = Idle]
Store(c, row) == receipt' = [receipt EXCEPT ![Key(c)] = row]
ghosts == <<made, madeFor>>

InUse == {receipt[k].owner : k \in Keys} \cup {req[c].token : c \in Clients}

\* A request arrives, with a token nobody else has; without the header it goes
\* straight to the application.
BeginRequest(c, k, b) ==
    /\ At(c, "idle")
    /\ Tokens \ InUse # {}
    /\ req' = [req EXCEPT ![c] =
                 [pc |-> IF k = NoKey THEN "limit" ELSE "claim", key |-> k, body |-> b,
                  token |-> CHOOSE t \in Tokens \ InUse : TRUE, beating |-> FALSE, resp |-> "none"]]
    /\ UNCHANGED <<receipt, usage, ghosts, faults>>

\* Mutant: an expired claim is not taken over.
AcquirableNever(row, b) == row.st = "absent"

\* No row, or an expired claim of the same request.
Acquirable(row, b) ==
    row.st = "absent" \/ (row.st = "claiming" /\ row.body = b /\ ~row.fresh)

Claimed(c) == [st |-> "claiming", body |-> req[c].body, owner |-> req[c].token, fresh |-> TRUE, resp |-> "none"]

\* claim: the request owns the key and starts its heartbeat; or it is answered
\* with the replay, a key reused for another request, or one in progress.
Claim(c) ==
    /\ At(c, "claim")
    /\ IF Acquirable(Row(c), req[c].body)
         THEN /\ Store(c, Claimed(c))
              /\ req' = [req EXCEPT ![c] = [@ EXCEPT !.pc = "limit", !.beating = TRUE]]
         ELSE Return(c) /\ UNCHANGED receipt
    /\ UNCHANGED <<usage, ghosts, faults>>

\* The fixed window of the process admits the request, or not (429).
RateLimit(c) ==
    /\ At(c, "limit")
    /\ Goto(c, "quota") \/ Answer(c, "limited")
    /\ UNCHANGED <<receipt, usage, ghosts, faults>>

\* Mutant: one mission more than the plan allows.
WithinLimitPlusOne(n) == n <= Limit

WithinLimit(n) == n < Limit

\* create_mission up to its writes: a permission, intake or budget refusal
\* (4xx), an exception (5xx), or check_and_record_mission_creation, which reads
\* the counter without a lock.
CheckQuota(c) ==
    /\ At(c, "quota")
    /\ \/ Answer(c, "refused")
       \/ Answer(c, "error")
       \/ WithinLimit(usage) /\ Goto(c, "commit")
    /\ UNCHANGED <<receipt, usage, ghosts, faults>>

Committed(c) ==
    /\ usage' = usage + 1
    /\ IF Key(c) = NoKey
         THEN UNCHANGED ghosts
         ELSE /\ made' = [made EXCEPT ![Key(c)] = @ + 1]
              /\ madeFor' = [madeFor EXCEPT ![Key(c)] = @ \cup {req[c].body}]

\* The counter, the meter row and the mission, in the transaction of the request.
CommitMission(c) ==
    /\ At(c, "commit")
    /\ Committed(c)
    /\ Answer(c, "created")
    /\ UNCHANGED <<receipt, faults>>

\* Mutant: the owner is not compared.
OwnsAny(c) == Row(c).st = "claiming"

\* The compare-and-set of renew, complete and release.
Owns(c) == Row(c).st = "claiming" /\ Row(c).owner = req[c].token

\* Mutant: only refusals are kept.
StoresRefusals(resp) == resp = "refused"

\* _should_store_response.
Stores(resp) == resp \in {"created", "refused"}

Completed(c) == [Row(c) EXCEPT !.st = "completed", !.fresh = FALSE, !.resp = req[c].resp]

\* The heartbeat ends; complete, or 503 when it is refused; without the header
\* there is nothing to do.
Finish(c) ==
    /\ At(c, "finish")
    /\ Key(c) = NoKey \/ Stores(req[c].resp)
    /\ IF Key(c) # NoKey /\ Owns(c) THEN Store(c, Completed(c)) ELSE UNCHANGED receipt
    /\ Return(c)
    /\ UNCHANGED <<usage, ghosts, faults>>

\* Mutant: any row of the key is deleted.
ReleasableAny(c) == TRUE

Releasable(c) == Owns(c)

\* _release_best_effort.
Release(c) ==
    /\ At(c, "finish") /\ Key(c) # NoKey
    /\ ~Stores(req[c].resp)
    /\ IF Releasable(c) THEN Store(c, Absent) ELSE UNCHANGED receipt
    /\ Return(c)
    /\ UNCHANGED <<usage, ghosts, faults>>

\* _heartbeat: the claim is extended, or its loss noticed.
Renew(c) ==
    /\ req[c].beating
    /\ IF Owns(c)
         THEN ~Row(c).fresh /\ Store(c, [Row(c) EXCEPT !.fresh = TRUE]) /\ UNCHANGED req
         ELSE req' = [req EXCEPT ![c].beating = FALSE] /\ UNCHANGED receipt
    /\ UNCHANGED <<usage, ghosts, faults>>

-----------------------------------------------------------------------------
Fault == faults < MaxFaults /\ faults' = faults + 1

Alive(k) == {c \in Clients : req[c].key = k /\ req[c].token = receipt[k].owner}

\* 120 seconds pass without renewal.  Under a running heartbeat that is a fault.
ClaimExpires(k) ==
    /\ receipt[k].st = "claiming" /\ receipt[k].fresh
    /\ receipt' = [receipt EXCEPT ![k].fresh = FALSE]
    /\ IF \E c \in Alive(k) : req[c].beating THEN Fault ELSE UNCHANGED faults
    /\ UNCHANGED <<req, usage, ghosts>>

\* A day passes, and the next claim of any key deletes the receipt; no request
\* runs that long.
ReceiptExpires(k) ==
    /\ receipt[k].st = "completed" \/ (receipt[k].st = "claiming" /\ ~receipt[k].fresh)
    /\ {c \in Clients : req[c].key = k} = {}
    /\ receipt' = [receipt EXCEPT ![k] = Absent]
    /\ made' = [made EXCEPT ![k] = 0]
    /\ madeFor' = [madeFor EXCEPT ![k] = {}]
    /\ UNCHANGED <<req, usage, faults>>

\* renew raises: the heartbeat ends for good.
HeartbeatFails(c) ==
    /\ req[c].beating
    /\ Fault
    /\ req' = [req EXCEPT ![c].beating = FALSE]
    /\ UNCHANGED <<receipt, usage, ghosts>>

\* claim raises, having committed or not (503).
ClaimFails(c) ==
    /\ At(c, "claim")
    /\ Fault
    /\ UNCHANGED receipt \/ (Acquirable(Row(c), req[c].body) /\ Store(c, Claimed(c)))
    /\ Return(c)
    /\ UNCHANGED <<usage, ghosts>>

\* The commit of the request raises, having taken effect or not.
CommitFails(c) ==
    /\ At(c, "commit")
    /\ Fault
    /\ UNCHANGED <<usage, ghosts>> \/ Committed(c)
    /\ Answer(c, "error")
    /\ UNCHANGED receipt

\* complete raises: 503, and the claim is left to expire.  A failed release is logged.
FinishFails(c) ==
    /\ At(c, "finish") /\ Key(c) # NoKey
    /\ Fault
    /\ \/ UNCHANGED receipt
       \/ Stores(req[c].resp) /\ Owns(c) /\ Store(c, Completed(c))
       \/ ~Stores(req[c].resp) /\ Releasable(c) /\ Store(c, Absent)
    /\ Return(c)
    /\ UNCHANGED <<usage, ghosts>>

\* The process of the request dies.
Crash(c) ==
    /\ ~At(c, "idle")
    /\ Fault
    /\ Return(c)
    /\ UNCHANGED <<receipt, usage, ghosts>>

-----------------------------------------------------------------------------
RequestStep(c) ==
    Claim(c) \/ RateLimit(c) \/ CheckQuota(c) \/ CommitMission(c) \/ Finish(c) \/ Release(c)

FaultStep(c) ==
    HeartbeatFails(c) \/ ClaimFails(c) \/ CommitFails(c) \/ FinishFails(c) \/ Crash(c)

Next ==
    \/ \E c \in Clients :
         \/ RequestStep(c) \/ Renew(c) \/ FaultStep(c)
         \/ \E k \in Keys \cup {NoKey}, b \in Bodies : BeginRequest(c, k, b)
    \/ \E k \in Keys : ClaimExpires(k) \/ ReceiptExpires(k)

Spec == Init /\ [][Next]_vars

\* A request runs to its end, a client retries its request, and time passes;
\* that a receipt ever expires is not assumed.
Fairness ==
    /\ \A c \in Clients : WF_vars(RequestStep(c))
    /\ \A k \in Keys, b \in Bodies : SF_vars(\E c \in Clients : BeginRequest(c, k, b))
    /\ \A k \in Keys : WF_vars(ClaimExpires(k))

FairSpec == Spec /\ Fairness

-----------------------------------------------------------------------------
Responses == {"none", "created", "refused", "limited", "error"}
Rows == [st : {"absent", "claiming", "completed"}, body : Bodies \cup {NoBody},
         owner : Tokens \cup {NoToken}, fresh : BOOLEAN, resp : Responses]
Requests == [pc : {"idle", "claim", "limit", "quota", "commit", "finish"}, key : Keys \cup {NoKey},
             body : Bodies \cup {NoBody}, token : Tokens \cup {NoToken}, beating : BOOLEAN, resp : Responses]

\* Type invariant.
TypeOK ==
    /\ receipt \in [Keys -> Rows]
    /\ req \in [Clients -> Requests]
    /\ usage \in Nat
    /\ made \in [Keys -> Nat]
    /\ madeFor \in [Keys -> SUBSET Bodies]
    /\ faults \in 0..MaxFaults

\* The requests of one key, however they overlap and are retried, create one
\* mission, and at most one more for every crash, stall or lost acknowledgement.
DuplicatesNeedFaults == \A k \in Keys : made[k] <= 1 + faults

\* A replayed "created" is the answer to the request it is replayed for: a
\* mission was committed for a request of that key with that body.
ReplayIsTrue ==
    \A k \in Keys : receipt[k].st = "completed" /\ receipt[k].resp = "created" =>
       receipt[k].body \in madeFor[k]

\* A completed receipt stays as it is until it expires, whatever requests that
\* have lost the key still do.
ResponseStays ==
    [][\A k \in Keys : receipt[k].st = "completed" => receipt'[k] = receipt[k] \/ ReceiptExpires(k)]_vars

\* Requests that pass the unlocked quota check together exceed the plan by no
\* more than the others in flight.
OvershootIsBounded == usage <= Limit + Cardinality(Clients) - 1

\* The plan is never exceeded: "Check mission quota and increment counter
\* atomically" (quota_enforcement.py).
UsageWithinLimit == usage <= Limit

\* Whatever happens to its owner, a claimed key does not stay claimed.
ClaimsResolve == \A k \in Keys : []<>(receipt[k].st # "claiming")
=============================================================================

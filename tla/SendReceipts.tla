---------------------------- MODULE SendReceipts ----------------------------
(***************************************************************************)
(* External writes that no provider deduplicates: email over SMTP          *)
(* (gtm_action_email.py, email_send_idempotency.py) and web.open_write     *)
(* (open_write.py).  Both keep a receipt per idempotency key in one table  *)
(* (email_send_idempotency_repository.py).  A task is retried after a      *)
(* crash with the same key, possibly by another worker while the first one *)
(* is still running, so any number of calls may overlap.                   *)
(*                                                                         *)
(* SMTP: a claim with a lease that a later call may take over, then a      *)
(* fence in a second transaction, then the send, then complete or release. *)
(* open_write: a claim without lease, the rate limit, the request, then    *)
(* complete.  A database call may fail with or without having committed.   *)
(***************************************************************************)
EXTENDS Naturals, FiniteSets

CONSTANTS
    Workers,
    SmtpKeys, WriteKeys,   \* idempotency keys of the two actions
    NoKey,
    Tokens, NoToken,       \* claim owners (uuid4)
    MaxFaults              \* bound on crashes, stalled owners and failed database calls

ASSUME ReceiptAssumption ==
    /\ SmtpKeys \cap WriteKeys = {}
    /\ NoKey \notin SmtpKeys \cup WriteKeys
    /\ NoToken \notin Tokens
    /\ MaxFaults \in Nat

Keys == SmtpKeys \cup WriteKeys

VARIABLES
    receipt,   \* receipt[k] = [st, owner, fresh, real]; fresh: the lease has not expired
    held,      \* held[w][k]: the token _live_owners of process w keeps for k
    call,      \* call[w] = [pc, key, token, real]: the handler call w is in
    effects,   \* effects[k]: messages delivered, or requests executed, for k
    faults

vars == <<receipt, held, call, effects, faults>>

Idle == [pc |-> "idle", key |-> NoKey, token |-> NoToken, real |-> FALSE]
Absent == [st |-> "absent", owner |-> NoToken, fresh |-> FALSE, real |-> FALSE]

Init ==
    /\ receipt = [k \in Keys |-> Absent]
    /\ held = [w \in Workers |-> [k \in Keys |-> NoToken]]
    /\ call = [w \in Workers |-> Idle]
    /\ effects = [k \in Keys |-> 0]
    /\ faults = 0

-----------------------------------------------------------------------------
At(w, pc) == call[w].pc = pc
Key(w) == call[w].key
Row(w) == receipt[Key(w)]
Goto(w, pc) == call' = [call EXCEPT ![w].pc = pc]
Return(w) == call' = [call EXCEPT ![w] = Idle]
Store(w, row) == receipt' = [receipt EXCEPT ![Key(w)] = row]

InUse == {receipt[k].owner : k \in Keys} \cup {held[w][k] : w \in Workers, k \in Keys}
           \cup {call[w].token : w \in Workers}

\* A call of email_send_handler or of execute_open_write, with a token that
\* nobody else has.
BeginCall(w, k) ==
    /\ At(w, "idle")
    /\ \E t \in Tokens \ InUse :
         call' = [call EXCEPT ![w] = [pc |-> IF k \in SmtpKeys THEN "claim" ELSE "claim_write",
                                      key |-> k, token |-> t, real |-> FALSE]]
    /\ UNCHANGED <<receipt, held, effects, faults>>

\* Mutant: an expired claim is not taken over.
ClaimableNever(row) == row.st = "absent"

\* No row, or a pre-send claim whose lease has expired.
Claimable(row) == row.st = "absent" \/ (row.st = "claiming" /\ ~row.fresh)

\* try_claim_smtp: a completed receipt is replayed, another one is in flight.
TryClaimSmtp(w) ==
    /\ At(w, "claim")
    /\ IF Claimable(Row(w))
         THEN /\ Store(w, [st |-> "claiming", owner |-> call[w].token, fresh |-> TRUE, real |-> FALSE])
              /\ Goto(w, "fence")
         ELSE Return(w) /\ UNCHANGED receipt
    /\ UNCHANGED <<held, effects, faults>>

Fenced(w) == Row(w).st = "claiming" /\ Row(w).owner = call[w].token

\* fence_smtp_send, and the token that claim_smtp_send remembers.
FenceSmtpSend(w) ==
    /\ At(w, "fence")
    /\ IF Fenced(w)
         THEN /\ Store(w, [Row(w) EXCEPT !.st = "sending"])
              /\ held' = [held EXCEPT ![w][Key(w)] = call[w].token]
              /\ Goto(w, "send")
         ELSE Return(w) /\ UNCHANGED <<receipt, held>>
    /\ UNCHANGED <<effects, faults>>

\* send_via_smtp: any exception, also one after delivery, is reported as not real.
SendViaSmtp(w) ==
    /\ At(w, "send")
    /\ \E delivered, real \in BOOLEAN :
         /\ real => delivered
         /\ effects' = [effects EXCEPT ![Key(w)] = @ + (IF delivered THEN 1 ELSE 0)]
         /\ call' = [call EXCEPT ![w].pc = IF real THEN "complete" ELSE "release", ![w].real = real]
    /\ UNCHANGED <<receipt, held, faults>>

\* The handler raises between the fence and the send (parse_smtp_secret): its
\* exception path releases.
BadSecret(w) ==
    /\ At(w, "send")
    /\ Goto(w, "last_release")
    /\ UNCHANGED <<receipt, held, effects, faults>>

Forget(w) == held' = [held EXCEPT ![w][Key(w)] = NoToken]
Completes(w) == Row(w).st = "sending" /\ Row(w).owner = held[w][Key(w)]
Done(w) == [st |-> "completed", owner |-> NoToken, fresh |-> FALSE, real |-> TRUE]

\* complete_smtp_send: without the live token, or refused by
\* complete_smtp_owned, it raises, and the exception path releases.
CompleteSmtpSend(w) ==
    /\ At(w, "complete")
    /\ IF held[w][Key(w)] # NoToken /\ Completes(w)
         THEN Store(w, Done(w)) /\ Forget(w) /\ Return(w)
         ELSE Goto(w, "last_release") /\ UNCHANGED <<receipt, held>>
    /\ UNCHANGED <<effects, faults>>

\* Mutant: a failed transport gives the key back.
ReleasedDeletes(row) == Absent

\* release_smtp_owned: a pre-send claim is deleted, a fenced one quarantined.
Released(row) == IF row.st = "claiming" THEN Absent ELSE [row EXCEPT !.st = "uncertain"]

\* Mutant: the owner is not compared.
ReleasableAny(w) == Row(w).st # "absent"

Releasable(w) == Row(w).st \in {"claiming", "sending"} /\ Row(w).owner = held[w][Key(w)]

\* The release after a transport failure raises into the exception path, which
\* releases once more; from there the handler ends.
ReleaseRaises(w) == IF At(w, "release") THEN Goto(w, "last_release") ELSE Return(w)
Releasing(w) == At(w, "release") \/ At(w, "last_release")

\* release_smtp_send: it does nothing without a live token; a refusal raises, and
\* leaves the token behind.
ReleaseSmtpSend(w) ==
    /\ Releasing(w)
    /\ IF held[w][Key(w)] = NoToken
         THEN Return(w) /\ UNCHANGED <<receipt, held>>
         ELSE IF Releasable(w)
           THEN Store(w, Released(Row(w))) /\ Forget(w) /\ Return(w)
           ELSE ReleaseRaises(w) /\ UNCHANGED <<receipt, held>>
    /\ UNCHANGED <<effects, faults>>

-----------------------------------------------------------------------------
WriteClaimable(row) == row.st = "absent"

\* try_claim: a completed receipt is replayed or, for another request
\* fingerprint, refused; another one is in flight, for ever if its call is gone.
TryClaim(w) ==
    /\ At(w, "claim_write")
    /\ IF WriteClaimable(Row(w))
         THEN Store(w, [Absent EXCEPT !.st = "claiming"]) /\ Goto(w, "limit")
         ELSE Return(w) /\ UNCHANGED receipt
    /\ UNCHANGED <<held, effects, faults>>

\* The process-local limiter refuses, and the unused claim is released; or it
\* admits the request.
RateLimit(w) ==
    /\ At(w, "limit")
    /\ \/ Goto(w, "request") /\ UNCHANGED receipt
       \/ /\ receipt' = [receipt EXCEPT ![Key(w)] = IF @.st = "claiming" THEN Absent ELSE @]
          /\ Return(w)
    /\ UNCHANGED <<held, effects, faults>>

\* The request is answered, or raises with or without having been executed.
OpenWriteRequest(w) ==
    /\ At(w, "request")
    /\ \E executed, answered \in BOOLEAN :
         /\ answered => executed
         /\ effects' = [effects EXCEPT ![Key(w)] = @ + (IF executed THEN 1 ELSE 0)]
         /\ call' = [call EXCEPT ![w].pc = "complete_write", ![w].real = answered]
    /\ UNCHANGED <<receipt, held, faults>>

\* Mutant: every completion is recorded as real.
CompletedAsReal(row, real) ==
    IF row.st = "absent" THEN row ELSE [Absent EXCEPT !.st = "completed", !.real = TRUE]

\* complete: whatever the row says, if there is one.
Completed(row, real) ==
    IF row.st = "absent" THEN row ELSE [Absent EXCEPT !.st = "completed", !.real = real]

\* An exception is finalized as a failed result "so retries replay instead of
\* mutating again".
CompleteWrite(w) ==
    /\ At(w, "complete_write")
    /\ Store(w, Completed(Row(w), call[w].real))
    /\ Return(w)
    /\ UNCHANGED <<held, effects, faults>>

-----------------------------------------------------------------------------
Fault == faults < MaxFaults /\ faults' = faults + 1

\* A lease runs out (300 seconds).  That its owner is still on its way to the
\* fence by then is a fault.
LeaseExpires(k) ==
    /\ receipt[k].fresh
    /\ receipt' = [receipt EXCEPT ![k].fresh = FALSE]
    /\ IF \E w \in Workers : At(w, "fence") /\ call[w].token = receipt[k].owner
         THEN Fault ELSE UNCHANGED faults
    /\ UNCHANGED <<held, call, effects>>

\* A database call raises, before or after its commit took effect.  The claim
\* and the fence raise out of the handler, a completion goes on to the release,
\* a release leaves its token in the map.
ClaimFails(w) ==
    /\ At(w, "claim") \/ At(w, "claim_write")
    /\ Fault
    /\ \/ UNCHANGED receipt
       \/ /\ At(w, "claim") /\ Claimable(Row(w))
          /\ Store(w, [st |-> "claiming", owner |-> call[w].token, fresh |-> TRUE, real |-> FALSE])
       \/ /\ At(w, "claim_write") /\ WriteClaimable(Row(w))
          /\ Store(w, [Absent EXCEPT !.st = "claiming"])
    /\ Return(w)
    /\ UNCHANGED <<held, effects>>

FenceFails(w) ==
    /\ At(w, "fence")
    /\ Fault
    /\ UNCHANGED receipt \/ (Fenced(w) /\ Store(w, [Row(w) EXCEPT !.st = "sending"]))
    /\ Return(w)
    /\ UNCHANGED <<held, effects>>

CompleteFails(w) ==
    /\ At(w, "complete") /\ held[w][Key(w)] # NoToken
    /\ Fault
    /\ UNCHANGED receipt \/ (Completes(w) /\ Store(w, Done(w)))
    /\ Goto(w, "last_release")
    /\ UNCHANGED <<held, effects>>

ReleaseFails(w) ==
    /\ Releasing(w) /\ held[w][Key(w)] # NoToken
    /\ Fault
    /\ UNCHANGED receipt \/ (Releasable(w) /\ Store(w, Released(Row(w))))
    /\ ReleaseRaises(w)
    /\ UNCHANGED <<held, effects>>

\* A failed release or finalization of open_write is swallowed; a failed
\* completion is finalized as a failed result.
WriteFails(w) ==
    /\ At(w, "limit") \/ At(w, "complete_write")
    /\ Fault
    /\ \/ UNCHANGED receipt
       \/ At(w, "complete_write") /\ Store(w, Completed(Row(w), call[w].real))
    /\ IF call[w].real THEN call' = [call EXCEPT ![w].real = FALSE] ELSE Return(w)
    /\ UNCHANGED <<held, effects>>

\* The worker process dies and starts again without its live tokens.
Crash(w) ==
    /\ ~At(w, "idle")
    /\ Fault
    /\ Return(w)
    /\ held' = [held EXCEPT ![w] = [k \in Keys |-> NoToken]]
    /\ UNCHANGED <<receipt, effects>>

-----------------------------------------------------------------------------
CallStep(w) ==
    \/ TryClaimSmtp(w) \/ FenceSmtpSend(w) \/ SendViaSmtp(w) \/ BadSecret(w)
    \/ CompleteSmtpSend(w) \/ ReleaseSmtpSend(w)
    \/ TryClaim(w) \/ RateLimit(w) \/ OpenWriteRequest(w) \/ CompleteWrite(w)

FaultStep(w) ==
    \/ ClaimFails(w) \/ FenceFails(w) \/ CompleteFails(w) \/ ReleaseFails(w)
    \/ WriteFails(w) \/ Crash(w)

Next ==
    \/ \E w \in Workers : CallStep(w) \/ FaultStep(w) \/ \E k \in Keys : BeginCall(w, k)
    \/ \E k \in Keys : LeaseExpires(k)

Spec == Init /\ [][Next]_vars

\* A call runs to its end, a key is called again, and time passes.
Fairness ==
    /\ \A w \in Workers : WF_vars(CallStep(w))
    /\ \A k \in Keys : SF_vars(\E w \in Workers : BeginCall(w, k))
    /\ \A k \in Keys : WF_vars(LeaseExpires(k))

FairSpec == Spec /\ Fairness

-----------------------------------------------------------------------------
Rows == [st : {"absent", "claiming", "sending", "uncertain", "completed"},
         owner : Tokens \cup {NoToken}, fresh : BOOLEAN, real : BOOLEAN]
PCs == {"idle", "claim", "fence", "send", "complete", "release", "last_release",
        "claim_write", "limit", "request", "complete_write"}

\* Type invariant.
TypeOK ==
    /\ receipt \in [Keys -> Rows]
    /\ held \in [Workers -> [Keys -> Tokens \cup {NoToken}]]
    /\ call \in [Workers -> [pc : PCs, key : Keys \cup {NoKey}, token : Tokens \cup {NoToken}, real : BOOLEAN]]
    /\ effects \in [Keys -> Nat]
    /\ faults \in 0..MaxFaults

\* No message is delivered and no request executed twice under one key, however
\* calls overlap, take over, fail half-way, crash and are retried: "worker
\* retries cannot double-deliver", "claim-before-send still prevents duplicate
\* mutations across workers".
AtMostOneEffect == \A k \in Keys : effects[k] <= 1

\* A replay never invents a success: a receipt that records one has its effect.
RecordedMeansDone ==
    \A k \in Keys : receipt[k].st = "completed" /\ receipt[k].real => effects[k] = 1

\* What an SMTP replay answers never changes: neither a completion with a lost
\* acknowledgement nor a release of a former owner touches a completed receipt,
\* and a quarantined one stays quarantined.
VerdictStays ==
    [][\A k \in SmtpKeys : receipt[k].st \in {"completed", "uncertain"} =>
         receipt'[k].st = receipt[k].st /\ receipt'[k].real = receipt[k].real]_vars

\* A pre-send SMTP claim does not block its key: whichever process dies, a later
\* call takes the claim over.
ClaimsRecover == \A k \in SmtpKeys : []<>(receipt[k].st # "claiming")
=============================================================================

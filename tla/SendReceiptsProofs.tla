------------------------- MODULE SendReceiptsProofs -------------------------
(***************************************************************************)
(* Proofs about SendReceipts, for any number of workers, keys and faults.  *)
(*                                                                         *)
(* AtMostOneEffect is not inductive: that the receipt bars a second effect *)
(* has to be said of the time between the fence and the send, and tokens   *)
(* have to be known to be distinct, also those left behind in the process- *)
(* local map.  ReceiptInv says so.                                         *)
(***************************************************************************)
EXTENDS SendReceipts, TLAPS

SmtpPCs == {"claim", "fence", "send", "complete", "release", "last_release"}
ClaimedPCs == {"limit", "request", "complete_write"}
WritePCs == ClaimedPCs \cup {"claim_write"}

\* A call works on a key of its own action, and has a token.
CallOK(c) ==
    /\ c.pc \in SmtpPCs => c.key \in SmtpKeys
    /\ c.pc \in WritePCs => c.key \in WriteKeys
    /\ c.pc # "idle" => c.token \in Tokens
    /\ c.pc \in {"claim", "fence", "send", "claim_write", "limit", "request"} => ~c.real

CallsOK == \A w \in Workers : CallOK(call[w])

\* No other process holds, or is in a call with, the token of a call.
TokensDistinct ==
    \A w, v \in Workers : w # v /\ call[w].token # NoToken =>
       /\ call[w].token # call[v].token
       /\ \A k \in Keys : call[w].token # held[v][k]

\* What call c relies on, between its claim and its effect and after it, when
\* the receipt of its key is r with e effects.
GuardedBy(c, r, e) ==
    /\ c.pc = "send" => r.st = "sending" /\ r.owner = c.token /\ e = 0
    /\ c.pc \in {"limit", "request"} => r.st = "claiming" /\ e = 0
    /\ c.pc \in ClaimedPCs => r.st # "absent"
    /\ c.pc = "complete" => e = 1
    /\ c.pc = "complete_write" /\ c.real => e = 1

AllGuarded == \A w \in Workers : GuardedBy(call[w], receipt[call[w].key], effects[call[w].key])

\* A write key has one claimant.
OneClaimant ==
    \A w, v \in Workers :
       w # v /\ call[w].pc \in ClaimedPCs /\ call[v].pc \in ClaimedPCs => call[w].key # call[v].key

\* An effect happens once, and its receipt admits no other.
KeyOK(k, r, e) ==
    /\ e \in {0, 1}
    /\ e = 1 => r.st # "absent"
    /\ k \in SmtpKeys /\ e = 1 => r.st # "claiming"
    /\ r.st = "completed" /\ r.real => e = 1

KeysOK == \A k \in Keys : KeyOK(k, receipt[k], effects[k])

ReceiptInv ==
    TypeOK /\ CallsOK /\ TokensDistinct /\ AllGuarded /\ OneClaimant /\ KeysOK

-----------------------------------------------------------------------------
Calls == [pc : PCs, key : Keys \cup {NoKey}, token : Tokens \cup {NoToken}, real : BOOLEAN]
Claimed(c) == c.pc \in ClaimedPCs

\* A step of worker w on key k: it leaves its call as c, the receipt as r and e
\* effects, and its tokens as h.  What has to be shown of it.
StepOK(w, k, c, r, e, h) ==
    /\ call' = [call EXCEPT ![w] = c]
    /\ receipt' = [receipt EXCEPT ![k] = r]
    /\ effects' = [effects EXCEPT ![k] = e]
    /\ held' = [held EXCEPT ![w] = h]
    /\ faults' \in 0..MaxFaults
    /\ CallOK(c)
    /\ c.token \in {NoToken, call[w].token}
    /\ \A j \in Keys : h[j] \in {NoToken, held[w][j], call[w].token}
    /\ c.pc # "idle" => c.key = k /\ GuardedBy(c, r, e)
    /\ \A v \in Workers \ {w} : call[v].key = k => GuardedBy(call[v], r, e)
    /\ KeyOK(k, r, e)
    /\ Claimed(c) => \/ Claimed(call[w]) /\ call[w].key = k
                     \/ \A v \in Workers \ {w} : ~(Claimed(call[v]) /\ call[v].key = k)

\* Such a step keeps the invariant.
LEMMA StepKeeps ==
    ASSUME ReceiptAssumption, ReceiptInv, NEW w \in Workers, NEW k \in Keys, NEW c \in Calls,
           NEW r \in Rows, NEW e \in Nat, NEW h \in [Keys -> Tokens \cup {NoToken}],
           StepOK(w, k, c, r, e, h)
    PROVE  ReceiptInv'
<1>t. TypeOK  BY DEF ReceiptInv
<1>n. NoKey \notin Keys  BY DEF ReceiptAssumption, Keys
<1>0. /\ call'[w] = c /\ \A v \in Workers \ {w} : call'[v] = call[v]
      /\ receipt'[k] = r /\ \A j \in Keys \ {k} : receipt'[j] = receipt[j]
      /\ effects'[k] = e /\ \A j \in Keys \ {k} : effects'[j] = effects[j]
      /\ held'[w] = h /\ \A v \in Workers \ {w} : held'[v] = held[v]
  BY <1>t DEF TypeOK, StepOK
<1>1. TypeOK'  BY <1>t DEF TypeOK, StepOK, Calls
<1>2. CallsOK'  BY <1>0 DEF ReceiptInv, CallsOK, StepOK
<1>3. TokensDistinct'
  <2> SUFFICES ASSUME NEW u \in Workers, NEW v \in Workers, u # v, call'[u].token # NoToken
               PROVE  /\ call'[u].token # call'[v].token
                      /\ \A j \in Keys : call'[u].token # held'[v][j]
    BY DEF TokensDistinct
  <2>0. TokensDistinct /\ c.token \in {NoToken, call[w].token}
        /\ \A j \in Keys : h[j] \in {NoToken, held[w][j], call[w].token}
    BY DEF ReceiptInv, StepOK
  <2>1. CASE u = w  BY <1>0, <2>0, <2>1 DEF TokensDistinct
  <2>2. CASE v = w  BY <1>0, <2>0, <2>2 DEF TokensDistinct
  <2>3. CASE u # w /\ v # w  BY <1>0, <2>0, <2>3 DEF TokensDistinct
  <2>4. QED  BY <2>1, <2>2, <2>3
<1>4. AllGuarded'
  <2> SUFFICES ASSUME NEW v \in Workers
               PROVE  GuardedBy(call'[v], receipt'[call'[v].key], effects'[call'[v].key])
    BY DEF AllGuarded
  <2>1. CASE v = w
    <3>1. CASE c.pc = "idle"  BY <1>0, <2>1, <3>1 DEF GuardedBy, ClaimedPCs
    <3>2. CASE c.pc # "idle"  BY <1>0, <2>1, <3>2 DEF StepOK
    <3>3. QED  BY <3>1, <3>2
  <2>2. CASE v # w
    <3>0. call'[v] = call[v] /\ GuardedBy(call[v], receipt[call[v].key], effects[call[v].key])
      BY <1>0, <2>2 DEF ReceiptInv, AllGuarded
    <3>1. CASE call[v].key = k  BY <1>0, <2>2, <3>0, <3>1 DEF StepOK
    <3>2. CASE call[v].key # k /\ call[v].key \in Keys  BY <1>0, <3>0, <3>2
    <3>3. CASE call[v].key \notin Keys
      <4>1. call[v].pc = "idle"
        BY <1>t, <3>3 DEF TypeOK, ReceiptInv, CallsOK, CallOK, PCs, SmtpPCs, WritePCs, ClaimedPCs, Keys
      <4>2. QED  BY <3>0, <4>1 DEF GuardedBy, ClaimedPCs
    <3>4. QED  BY <3>1, <3>2, <3>3
  <2>3. QED  BY <2>1, <2>2
<1>5. OneClaimant'
  <2> SUFFICES ASSUME NEW u \in Workers, NEW v \in Workers, u # v,
                      call'[u].pc \in ClaimedPCs, call'[v].pc \in ClaimedPCs
               PROVE  call'[u].key # call'[v].key
    BY DEF OneClaimant
  <2>0. /\ OneClaimant /\ (c.pc # "idle" => c.key = k)
        /\ Claimed(c) => \/ Claimed(call[w]) /\ call[w].key = k
                         \/ \A x \in Workers \ {w} : ~(Claimed(call[x]) /\ call[x].key = k)
    BY DEF ReceiptInv, StepOK
  <2>1. CASE u = w  BY <1>0, <2>0, <2>1 DEF OneClaimant, Claimed, ClaimedPCs
  <2>2. CASE v = w  BY <1>0, <2>0, <2>2 DEF OneClaimant, Claimed, ClaimedPCs
  <2>3. CASE u # w /\ v # w  BY <1>0, <2>0, <2>3 DEF OneClaimant
  <2>4. QED  BY <2>1, <2>2, <2>3
<1>6. KeysOK'
  BY <1>0 DEF ReceiptInv, KeysOK, StepOK
<1>7. QED  BY <1>1, <1>2, <1>3, <1>4, <1>5, <1>6 DEF ReceiptInv

-----------------------------------------------------------------------------
\* What is known of a call of w that is not idle.
LEMMA CallFacts ==
    ASSUME ReceiptAssumption, ReceiptInv, NEW w \in Workers, call[w].pc # "idle"
    PROVE  /\ call[w] \in Calls /\ Key(w) \in Keys /\ call[w].token \in Tokens
           /\ call[w].pc \in SmtpPCs => Key(w) \in SmtpKeys
           /\ call[w].pc \in WritePCs => Key(w) \in WriteKeys /\ Key(w) \notin SmtpKeys
           /\ CallOK(call[w])
           /\ receipt[Key(w)] \in Rows /\ effects[Key(w)] \in Nat
           /\ held[w] \in [Keys -> Tokens \cup {NoToken}]
           /\ GuardedBy(call[w], receipt[Key(w)], effects[Key(w)])
           /\ KeyOK(Key(w), receipt[Key(w)], effects[Key(w)])
           /\ \A v \in Workers : call[v].key = Key(w) =>
                GuardedBy(call[v], receipt[Key(w)], effects[Key(w)])
<1>1. TypeOK /\ CallOK(call[w])  BY DEF ReceiptInv, CallsOK
<1>2. call[w] \in Calls  BY <1>1 DEF TypeOK, Calls
<1>3. /\ Key(w) \in Keys /\ call[w].token \in Tokens
      /\ call[w].pc \in SmtpPCs => Key(w) \in SmtpKeys
      /\ call[w].pc \in WritePCs => Key(w) \in WriteKeys /\ Key(w) \notin SmtpKeys
  BY <1>1, <1>2 DEF CallOK, Calls, PCs, SmtpPCs, WritePCs, ClaimedPCs, Keys, Key, ReceiptAssumption
<1>4. QED  BY <1>1, <1>2, <1>3 DEF ReceiptInv, TypeOK, AllGuarded, KeysOK, Key

\* A variable that a step leaves alone.
LEMMA Unchanged ==
    ASSUME TypeOK, NEW w \in Workers, NEW k \in Keys
    PROVE  /\ receipt = [receipt EXCEPT ![k] = receipt[k]]
           /\ effects = [effects EXCEPT ![k] = effects[k]]
           /\ held = [held EXCEPT ![w] = held[w]]
BY DEF TypeOK

\* A process outside any call.
LEMMA IdleCall == Idle \in Calls /\ CallOK(Idle) /\ Idle.pc = "idle" /\ Idle.token = NoToken
BY DEF Idle, Calls, CallOK, PCs, SmtpPCs, WritePCs, ClaimedPCs

\* A call that ends, leaving the receipt as r: nobody else relies on what changed.
LEMMA ReturnKeeps ==
    ASSUME ReceiptAssumption, ReceiptInv, NEW w \in Workers, call[w].pc # "idle",
           NEW r \in Rows, NEW h \in [Keys -> Tokens \cup {NoToken}],
           Return(w), receipt' = [receipt EXCEPT ![Key(w)] = r],
           held' = [held EXCEPT ![w] = h], UNCHANGED effects, faults' \in 0..MaxFaults,
           \A j \in Keys : h[j] \in {NoToken, held[w][j], call[w].token},
           \A v \in Workers \ {w} : call[v].key = Key(w) => GuardedBy(call[v], r, effects[Key(w)]),
           KeyOK(Key(w), r, effects[Key(w)])
    PROVE  ReceiptInv'
<1> DEFINE k == Key(w)
<1>1. k \in Keys /\ effects[k] \in Nat /\ TypeOK  BY CallFacts DEF ReceiptInv
<1>2. effects' = [effects EXCEPT ![k] = effects[k]]  BY <1>1, Unchanged
<1>3. Idle \in Calls /\ CallOK(Idle) /\ Idle.pc = "idle" /\ Idle.token = NoToken /\ ~Claimed(Idle)
  BY IdleCall DEF Claimed, ClaimedPCs
<1>4. StepOK(w, k, Idle, r, effects[k], h)
  BY <1>2, <1>3 DEF StepOK, Return
<1>5. QED  BY <1>1, <1>3, <1>4, StepKeeps

\* try_claim_smtp and fence_smtp_send, failing or not.
LEMMA ClaimSteps ==
    ASSUME ReceiptAssumption, ReceiptInv, NEW w \in Workers,
           TryClaimSmtp(w) \/ FenceSmtpSend(w) \/ FenceFails(w)
    PROVE  ReceiptInv'
<1> DEFINE k == Key(w)
           t == call[w].token
           new == [st |-> "claiming", owner |-> t, fresh |-> TRUE, real |-> FALSE]
           fenced == [receipt[k] EXCEPT !.st = "sending"]
<1>0. call[w].pc \in {"claim", "fence"} /\ call[w].pc # "idle" /\ call[w].pc \in SmtpPCs
  BY DEF TryClaimSmtp, FenceSmtpSend, FenceFails, At, SmtpPCs
<1>f. /\ call[w] \in Calls /\ k \in Keys /\ t \in Tokens /\ k \in SmtpKeys /\ CallOK(call[w])
      /\ receipt[k] \in Rows /\ effects[k] \in Nat
      /\ held[w] \in [Keys -> Tokens \cup {NoToken}]
      /\ KeyOK(k, receipt[k], effects[k])
      /\ \A v \in Workers : call[v].key = k => GuardedBy(call[v], receipt[k], effects[k])
  BY <1>0, CallFacts
<1>k. \A v \in Workers : call[v].key = k => call[v].pc \notin WritePCs
  BY <1>f DEF ReceiptInv, CallsOK, CallOK, ReceiptAssumption
<1>u. /\ receipt = [receipt EXCEPT ![k] = receipt[k]]
      /\ effects = [effects EXCEPT ![k] = effects[k]]
      /\ held = [held EXCEPT ![w] = held[w]] /\ faults \in 0..MaxFaults
  BY <1>f, Unchanged DEF ReceiptInv, TypeOK
<1>1. CASE TryClaimSmtp(w) /\ Claimable(receipt[k])
  <2> DEFINE c == [call[w] EXCEPT !.pc = "fence"]
  <2>1. new \in Rows /\ c \in Calls /\ CallOK(c) /\ c.key = k /\ c.pc = "fence" /\ c.token = t
    BY <1>0, <1>f DEF Rows, Calls, CallOK, PCs, SmtpPCs, WritePCs, ClaimedPCs, Key
  <2>2. effects[k] = 0  BY <1>1, <1>f DEF KeyOK, Claimable
  <2>3. KeyOK(k, new, effects[k])  BY <2>2 DEF KeyOK
  <2>4. \A v \in Workers : call[v].key = k => GuardedBy(call[v], new, effects[k])
    BY <1>1, <1>f, <1>k DEF GuardedBy, Claimable, WritePCs, ClaimedPCs
  <2>5. call' = [call EXCEPT ![w] = c] /\ receipt' = [receipt EXCEPT ![k] = new]
        /\ UNCHANGED <<held, effects, faults>>
    BY <1>1 DEF TryClaimSmtp, Row, Store, Goto
  <2>6. GuardedBy(c, new, effects[k]) /\ ~Claimed(c)
    BY <2>1 DEF GuardedBy, Claimed, ClaimedPCs
  <2> HIDE DEF c, new, k
  <2>7. StepOK(w, k, c, new, effects[k], held[w])
    BY <1>u, <2>1, <2>3, <2>4, <2>5, <2>6 DEF StepOK, t
  <2>8. QED  BY <1>f, <2>1, <2>7, StepKeeps
<1>2. CASE FenceSmtpSend(w) /\ Fenced(w)
  <2> DEFINE c == [call[w] EXCEPT !.pc = "send"]
             h == [held[w] EXCEPT ![k] = t]
  <2>1. /\ fenced \in Rows /\ c \in Calls /\ CallOK(c) /\ c.key = k /\ c.pc = "send" /\ c.token = t
        /\ h \in [Keys -> Tokens \cup {NoToken}] /\ \A j \in Keys : h[j] \in {held[w][j], t}
    BY <1>0, <1>2, <1>f DEF Rows, Calls, CallOK, PCs, SmtpPCs, WritePCs, ClaimedPCs, Key, Fenced, Row
  <2>2. fenced.st = "sending" /\ fenced.owner = t /\ effects[k] = 0 /\ receipt[k].st = "claiming"
    BY <1>2, <1>f DEF KeyOK, Fenced, Row, Rows
  <2>3. KeyOK(k, fenced, effects[k])  BY <2>2 DEF KeyOK
  <2>4. \A v \in Workers : call[v].key = k => GuardedBy(call[v], fenced, effects[k])
    BY <1>f, <1>k, <2>2 DEF GuardedBy, WritePCs, ClaimedPCs
  <2>5. call' = [call EXCEPT ![w] = c] /\ receipt' = [receipt EXCEPT ![k] = fenced]
        /\ held' = [held EXCEPT ![w] = h] /\ UNCHANGED <<effects, faults>>
    BY <1>2 DEF FenceSmtpSend, Row, Store, Goto
  <2>6. GuardedBy(c, fenced, effects[k]) /\ ~Claimed(c)
    BY <2>1, <2>2 DEF GuardedBy, Claimed, ClaimedPCs
  <2> HIDE DEF c, fenced, k, h
  <2>7. StepOK(w, k, c, fenced, effects[k], h)
    BY <1>u, <2>1, <2>3, <2>4, <2>5, <2>6 DEF StepOK, t
  <2>8. QED  BY <1>f, <2>1, <2>7, StepKeeps
<1>3. CASE Return(w) /\ UNCHANGED <<receipt, held, effects>> /\ faults' \in 0..MaxFaults
  <2> HIDE DEF k
  <2>1. receipt' = [receipt EXCEPT ![k] = receipt[k]] /\ held' = [held EXCEPT ![w] = held[w]]
    BY <1>3, <1>u
  <2>2. QED  BY <1>0, <1>3, <1>f, <2>1, ReturnKeeps DEF k
<1>4. CASE FenceFails(w) /\ Fenced(w) /\ Store(w, [Row(w) EXCEPT !.st = "sending"])
  <2>1. fenced \in Rows /\ fenced.st = "sending" /\ effects[k] = 0 /\ receipt[k].st = "claiming"
    BY <1>4, <1>f DEF KeyOK, Fenced, Row, Rows
  <2>2. KeyOK(k, fenced, effects[k])  BY <2>1 DEF KeyOK
  <2>3. \A v \in Workers : call[v].key = k => GuardedBy(call[v], fenced, effects[k])
    BY <1>f, <1>k, <2>1 DEF GuardedBy, WritePCs, ClaimedPCs
  <2>4. Return(w) /\ receipt' = [receipt EXCEPT ![k] = fenced] /\ held' = held
        /\ UNCHANGED effects /\ faults' \in 0..MaxFaults
    BY <1>4, <1>u DEF FenceFails, Row, Store, Fault, ReceiptAssumption
  <2>5. held' = [held EXCEPT ![w] = held[w]]  BY <1>u, <2>4
  <2> HIDE DEF fenced, k
  <2>6. QED  BY <1>0, <1>f, <2>1, <2>2, <2>3, <2>4, <2>5, ReturnKeeps DEF k
<1>5. FenceFails(w) => faults' \in 0..MaxFaults
  BY <1>u DEF FenceFails, Fault, ReceiptAssumption
<1>6. QED
  BY <1>1, <1>2, <1>3, <1>4, <1>5, <1>u DEF TryClaimSmtp, FenceSmtpSend, FenceFails, Row

\* send_via_smtp, complete_smtp_send and release_smtp_send, failing or not.
LEMMA SendSteps ==
    ASSUME ReceiptAssumption, ReceiptInv, NEW w \in Workers,
           \/ SendViaSmtp(w) \/ BadSecret(w) \/ CompleteSmtpSend(w) \/ CompleteFails(w)
           \/ ReleaseSmtpSend(w) \/ ReleaseFails(w)
    PROVE  ReceiptInv'
<1> DEFINE k == Key(w)
           t == call[w].token
           h0 == [held[w] EXCEPT ![k] = NoToken]
           toRelease == [call[w] EXCEPT !.pc = "last_release"]
<1>0. /\ call[w].pc \in {"send", "complete", "release", "last_release"} /\ call[w].pc # "idle" /\ call[w].pc \in SmtpPCs
      /\ SendViaSmtp(w) \/ BadSecret(w) => call[w].pc = "send"
      /\ CompleteSmtpSend(w) \/ CompleteFails(w) => call[w].pc = "complete"
  BY DEF SendViaSmtp, BadSecret, CompleteSmtpSend, CompleteFails, ReleaseSmtpSend, ReleaseFails, Releasing, At, SmtpPCs
<1>f. /\ call[w] \in Calls /\ k \in Keys /\ t \in Tokens /\ k \in SmtpKeys /\ CallOK(call[w])
      /\ receipt[k] \in Rows /\ effects[k] \in Nat
      /\ held[w] \in [Keys -> Tokens \cup {NoToken}]
      /\ KeyOK(k, receipt[k], effects[k])
      /\ GuardedBy(call[w], receipt[k], effects[k])
      /\ \A v \in Workers : call[v].key = k => GuardedBy(call[v], receipt[k], effects[k])
  BY <1>0, CallFacts
<1>k. \A v \in Workers : call[v].key = k => call[v].pc \notin WritePCs
  BY <1>f DEF ReceiptInv, CallsOK, CallOK, ReceiptAssumption
<1>u. /\ receipt = [receipt EXCEPT ![k] = receipt[k]]
      /\ effects = [effects EXCEPT ![k] = effects[k]]
      /\ held = [held EXCEPT ![w] = held[w]] /\ faults \in 0..MaxFaults
  BY <1>f, Unchanged DEF ReceiptInv, TypeOK
<1>h. h0 \in [Keys -> Tokens \cup {NoToken}] /\ \A j \in Keys : h0[j] \in {NoToken, held[w][j]}
  BY <1>f
<1>c. /\ toRelease \in Calls /\ CallOK(toRelease) /\ toRelease.key = k /\ toRelease.token = t
      /\ ~Claimed(toRelease) /\ \A r, e : GuardedBy(toRelease, r, e)
  BY <1>f DEF Calls, CallOK, PCs, SmtpPCs, WritePCs, ClaimedPCs, Key, Claimed, GuardedBy
<1>d. \A v \in Workers \ {w} : call[v].pc = "send" => call[v].token \notin {t, held[w][k], NoToken}
  <2>1. \A v \in Workers : call[v].pc = "send" => call[v].token # NoToken
    BY DEF ReceiptInv, CallsOK, CallOK, ReceiptAssumption
  <2>2. QED  BY <1>f, <2>1 DEF ReceiptInv, TokensDistinct
<1>1. CASE SendViaSmtp(w)
  <2>0. effects[k] = 0 /\ receipt[k].st = "sending" /\ receipt[k].owner = t
    BY <1>0, <1>1, <1>f DEF GuardedBy
  <2>1. PICK delivered \in BOOLEAN, real \in BOOLEAN :
          /\ real => delivered
          /\ effects' = [effects EXCEPT ![k] = @ + (IF delivered THEN 1 ELSE 0)]
          /\ call' = [call EXCEPT ![w].pc = IF real THEN "complete" ELSE "release", ![w].real = real]
          /\ UNCHANGED <<receipt, held, faults>>
    BY <1>1 DEF SendViaSmtp
  <2> DEFINE pc1 == IF real THEN "complete" ELSE "release"
             e == IF delivered THEN 1 ELSE 0
             c == [call[w] EXCEPT !.pc = pc1, !.real = real]
  <2>2. pc1 \in {"complete", "release"} /\ e \in {0, 1} /\ (pc1 = "complete" => e = 1)
    BY <2>1
  <2>3. call' = [call EXCEPT ![w] = c] /\ effects' = [effects EXCEPT ![k] = e]
    <3>1. effects \in [Keys -> Nat] /\ call \in [Workers -> Calls]
      BY DEF ReceiptInv, TypeOK, Calls
    <3>2. effects' = [effects EXCEPT ![k] = 0 + e]
      BY <1>f, <2>0, <2>1, <3>1
    <3>3. 0 + e = e  BY <2>2
    <3>4. call' = [call EXCEPT ![w] = c]
      BY <2>1, <3>1
    <3>5. QED  BY <3>2, <3>3, <3>4
  <2> HIDE DEF pc1, e
  <2>4. c \in Calls /\ CallOK(c) /\ c.key = k /\ c.token = t /\ c.pc = pc1 /\ ~Claimed(c)
    BY <1>f, <2>2 DEF Calls, CallOK, PCs, SmtpPCs, WritePCs, ClaimedPCs, Key, Claimed
  <2>5. KeyOK(k, receipt[k], e) /\ GuardedBy(c, receipt[k], e)
    BY <2>0, <2>2, <2>4 DEF KeyOK, GuardedBy, ClaimedPCs
  <2>6. \A v \in Workers \ {w} : call[v].key = k => GuardedBy(call[v], receipt[k], e)
    BY <1>d, <1>f, <1>k, <2>0 DEF GuardedBy, WritePCs, ClaimedPCs
  <2>7. receipt' = [receipt EXCEPT ![k] = receipt[k]] /\ held' = [held EXCEPT ![w] = held[w]]
        /\ faults' \in 0..MaxFaults
    BY <1>u, <2>1
  <2> HIDE DEF c, k
  <2>8. StepOK(w, k, c, receipt[k], e, held[w])
    BY <2>3, <2>4, <2>5, <2>6, <2>7 DEF StepOK, t
  <2>9. e \in Nat  BY <2>2
  <2>10. QED  BY <1>f, <2>4, <2>8, <2>9, StepKeeps
<1>2. ASSUME call' = [call EXCEPT ![w] = toRelease], receipt' = receipt,
             UNCHANGED <<held, effects>>, faults' \in 0..MaxFaults
      PROVE  ReceiptInv'
  <2> HIDE DEF toRelease, k
  <2>1. StepOK(w, k, toRelease, receipt[k], effects[k], held[w])
    BY <1>2, <1>c, <1>f, <1>u DEF StepOK, t
  <2>2. QED  BY <1>c, <1>f, <2>1, StepKeeps
<1>3. Completes(w) /\ call[w].pc = "complete" =>
        /\ Done(w) \in Rows /\ KeyOK(k, Done(w), effects[k])
        /\ \A v \in Workers : call[v].key = k => GuardedBy(call[v], Done(w), effects[k])
  BY <1>f, <1>k DEF GuardedBy, KeyOK, Done, Rows, WritePCs, ClaimedPCs
<1>4. CASE CompleteSmtpSend(w) /\ Completes(w) /\ held[w][k] # NoToken
  <2>1. Return(w) /\ receipt' = [receipt EXCEPT ![k] = Done(w)]
        /\ held' = [held EXCEPT ![w] = h0] /\ UNCHANGED <<effects, faults>>
    BY <1>4 DEF CompleteSmtpSend, Store, Forget
  <2> HIDE DEF k, h0
  <2>2. faults' \in 0..MaxFaults /\ h0 \in [Keys -> Tokens \cup {NoToken}]
        /\ \A j \in Keys : h0[j] \in {NoToken, held[w][j], call[w].token}
    BY <1>h, <1>u, <2>1
  <2>3. /\ Done(w) \in Rows /\ KeyOK(k, Done(w), effects[k])
        /\ \A v \in Workers \ {w} : call[v].key = k => GuardedBy(call[v], Done(w), effects[k])
    BY <1>0, <1>3, <1>4
  <2> HIDE DEF t
  <2>4. QED  BY <1>0, <2>1, <2>2, <2>3, ReturnKeeps DEF k
<1>5. CASE CompleteFails(w) /\ Completes(w) /\ Store(w, Done(w))
  <2>1. /\ call' = [call EXCEPT ![w] = toRelease] /\ receipt' = [receipt EXCEPT ![k] = Done(w)]
        /\ UNCHANGED <<held, effects>> /\ faults' \in 0..MaxFaults
    BY <1>5, <1>u DEF CompleteFails, Store, Goto, Fault, ReceiptAssumption
  <2> HIDE DEF toRelease, k
  <2>2. StepOK(w, k, toRelease, Done(w), effects[k], held[w])
    BY <1>0, <1>3, <1>5, <1>c, <1>f, <1>u, <2>1 DEF StepOK, t
  <2>3. QED  BY <1>0, <1>3, <1>5, <1>c, <1>f, <2>2, StepKeeps
<1>6. Releasable(w) =>
        /\ Released(receipt[k]) \in Rows /\ KeyOK(k, Released(receipt[k]), effects[k])
        /\ \A v \in Workers \ {w} : call[v].key = k => GuardedBy(call[v], Released(receipt[k]), effects[k])
  <2> SUFFICES ASSUME Releasable(w)
               PROVE /\ Released(receipt[k]) \in Rows /\ KeyOK(k, Released(receipt[k]), effects[k])
                     /\ \A v \in Workers \ {w} : call[v].key = k =>
                          GuardedBy(call[v], Released(receipt[k]), effects[k])
    OBVIOUS
  <2>1. Released(receipt[k]) \in Rows /\ Released(receipt[k]).st \in {"absent", "uncertain"}
        /\ (Released(receipt[k]).st = "absent" => receipt[k].st = "claiming")
    BY <1>f DEF Releasable, Released, Absent, Rows, Row
  <2>2. KeyOK(k, Released(receipt[k]), effects[k])
    BY <1>f, <2>1 DEF KeyOK
  <2>3. \A v \in Workers \ {w} : call[v].key = k => call[v].pc # "send"
    BY <1>d, <1>f DEF GuardedBy, Releasable, Row
  <2>4. QED  BY <1>f, <1>k, <2>1, <2>2, <2>3 DEF GuardedBy, WritePCs, ClaimedPCs
<1>7. CASE ReleaseSmtpSend(w) /\ Releasable(w) /\ held[w][k] # NoToken
  <2>1. Return(w) /\ receipt' = [receipt EXCEPT ![k] = Released(receipt[k])]
        /\ held' = [held EXCEPT ![w] = h0] /\ UNCHANGED <<effects, faults>>
    BY <1>7 DEF ReleaseSmtpSend, Store, Forget, Row
  <2> HIDE DEF k, h0
  <2>2. faults' \in 0..MaxFaults /\ h0 \in [Keys -> Tokens \cup {NoToken}]
        /\ \A j \in Keys : h0[j] \in {NoToken, held[w][j], call[w].token}
    BY <1>h, <1>u, <2>1
  <2>3. /\ Released(receipt[k]) \in Rows /\ KeyOK(k, Released(receipt[k]), effects[k])
        /\ \A v \in Workers \ {w} : call[v].key = k => GuardedBy(call[v], Released(receipt[k]), effects[k])
    BY <1>0, <1>6, <1>7
  <2> HIDE DEF t
  <2>4. QED  BY <1>0, <2>1, <2>2, <2>3, ReturnKeeps DEF k
<1>8. CASE ReleaseFails(w) /\ Releasable(w) /\ Store(w, Released(Row(w)))
  <2>1. /\ receipt' = [receipt EXCEPT ![k] = Released(receipt[k])] /\ held' = [held EXCEPT ![w] = held[w]]
        /\ UNCHANGED effects /\ faults' \in 0..MaxFaults
        /\ Return(w) \/ call' = [call EXCEPT ![w] = toRelease]
    BY <1>8, <1>u DEF ReleaseFails, ReleaseRaises, Goto, Store, Row, Fault, ReceiptAssumption
  <2> HIDE DEF k, toRelease
  <2>2. CASE Return(w)  BY <1>0, <1>6, <1>8, <1>f, <2>1, <2>2, ReturnKeeps DEF k
  <2>3. CASE call' = [call EXCEPT ![w] = toRelease]
    <3>1. StepOK(w, k, toRelease, Released(receipt[k]), effects[k], held[w])
      BY <1>6, <1>8, <1>c, <1>f, <1>u, <2>1, <2>3 DEF StepOK, t
    <3>2. QED  BY <1>6, <1>8, <1>c, <1>f, <3>1, StepKeeps
  <2>4. QED  BY <2>1, <2>2, <2>3
<1>9. ASSUME Return(w), UNCHANGED <<receipt, held, effects>>, faults' \in 0..MaxFaults
      PROVE  ReceiptInv'
  <2> HIDE DEF k
  <2>1. receipt' = [receipt EXCEPT ![k] = receipt[k]] /\ held' = [held EXCEPT ![w] = held[w]]
    BY <1>9, <1>u
  <2>2. QED  BY <1>0, <1>9, <1>f, <2>1, ReturnKeeps DEF k
<1>10. CompleteFails(w) \/ ReleaseFails(w) => faults' \in 0..MaxFaults
  BY <1>u DEF CompleteFails, ReleaseFails, Fault, ReceiptAssumption
<1>11. CASE BadSecret(w)
  BY <1>2, <1>11, <1>u DEF BadSecret, Goto
<1>12. CASE CompleteSmtpSend(w) /\ ~(held[w][k] # NoToken /\ Completes(w))
  BY <1>2, <1>12, <1>u DEF CompleteSmtpSend, Goto
<1>13. CASE CompleteFails(w) /\ UNCHANGED receipt
  BY <1>2, <1>10, <1>13 DEF CompleteFails, Goto
<1>14. CASE ReleaseSmtpSend(w) /\ ~(held[w][k] # NoToken /\ Releasable(w))
  BY <1>2, <1>9, <1>14, <1>u DEF ReleaseSmtpSend, ReleaseRaises, Goto
<1>15. CASE ReleaseFails(w) /\ UNCHANGED receipt
  BY <1>2, <1>9, <1>10, <1>15 DEF ReleaseFails, ReleaseRaises, Goto
<1>16. QED
  BY <1>1, <1>4, <1>5, <1>7, <1>8, <1>11, <1>12, <1>13, <1>14, <1>15 DEF CompleteFails, ReleaseFails

\* The steps of open_write, failing or not.
LEMMA WriteSteps ==
    ASSUME ReceiptAssumption, ReceiptInv, NEW w \in Workers,
           RateLimit(w) \/ OpenWriteRequest(w) \/ CompleteWrite(w) \/ WriteFails(w)
    PROVE  ReceiptInv'
<1> DEFINE k == Key(w)
           t == call[w].token
           done == Completed(receipt[k], call[w].real)
           failed == [call[w] EXCEPT !.real = FALSE]
<1>0. /\ call[w].pc \in {"limit", "request", "complete_write"} /\ call[w].pc # "idle"
      /\ call[w].pc \in WritePCs /\ Claimed(call[w])
      /\ RateLimit(w) => call[w].pc = "limit"
      /\ OpenWriteRequest(w) => call[w].pc = "request"
      /\ CompleteWrite(w) => call[w].pc = "complete_write"
  BY DEF RateLimit, OpenWriteRequest, CompleteWrite, WriteFails, At, WritePCs, ClaimedPCs, Claimed
<1>f. /\ call[w] \in Calls /\ k \in Keys /\ t \in Tokens /\ k \in WriteKeys /\ k \notin SmtpKeys
      /\ CallOK(call[w]) /\ receipt[k] \in Rows /\ effects[k] \in Nat
      /\ held[w] \in [Keys -> Tokens \cup {NoToken}]
      /\ KeyOK(k, receipt[k], effects[k])
      /\ GuardedBy(call[w], receipt[k], effects[k])
  BY <1>0, CallFacts
<1>o. \A v \in Workers \ {w} : call[v].key = k => \A r, e : GuardedBy(call[v], r, e)
  <2> SUFFICES ASSUME NEW v \in Workers \ {w}, call[v].key = k
               PROVE  call[v].pc \notin SmtpPCs /\ call[v].pc \notin ClaimedPCs
    BY DEF GuardedBy, SmtpPCs, ClaimedPCs
  <2>1. call[v].pc \notin SmtpPCs  BY <1>f DEF ReceiptInv, CallsOK, CallOK
  <2>2. call[v].pc \notin ClaimedPCs  BY <1>0 DEF ReceiptInv, OneClaimant, Claimed, Key
  <2>3. QED  BY <2>1, <2>2
<1>u. /\ receipt = [receipt EXCEPT ![k] = receipt[k]]
      /\ effects = [effects EXCEPT ![k] = effects[k]]
      /\ held = [held EXCEPT ![w] = held[w]] /\ faults \in 0..MaxFaults
  BY <1>f, Unchanged DEF ReceiptInv, TypeOK
<1>b. WriteFails(w) => faults' \in 0..MaxFaults
  BY <1>u DEF WriteFails, Fault, ReceiptAssumption
<1>d. call[w].pc = "complete_write" =>
        done \in Rows /\ KeyOK(k, done, effects[k]) /\ done.st = "completed"
  BY <1>f DEF Completed, Absent, Rows, Calls, KeyOK, GuardedBy, ClaimedPCs
<1>1. ASSUME Return(w), UNCHANGED <<held, effects>>, faults' \in 0..MaxFaults,
             NEW r \in Rows, receipt' = [receipt EXCEPT ![k] = r], KeyOK(k, r, effects[k])
      PROVE  ReceiptInv'
  <2>1. held' = [held EXCEPT ![w] = held[w]]  BY <1>1, <1>u
  <2> HIDE DEF k
  <2>2. QED  BY <1>0, <1>1, <1>f, <1>o, <2>1, ReturnKeeps DEF k
<1>2. ASSUME NEW c \in Calls, NEW r \in Rows, NEW e \in Nat,
             call' = [call EXCEPT ![w] = c], receipt' = [receipt EXCEPT ![k] = r],
             effects' = [effects EXCEPT ![k] = e], held' = held, faults' \in 0..MaxFaults,
             CallOK(c), c.key = k, c.token = t, GuardedBy(c, r, e), KeyOK(k, r, e)
      PROVE  ReceiptInv'
  <2>1. held' = [held EXCEPT ![w] = held[w]] /\ Claimed(call[w]) /\ call[w].key = k
    BY <1>0, <1>2, <1>u DEF Key
  <2> HIDE DEF k
  <2>2. StepOK(w, k, c, r, e, held[w])
    BY <1>2, <1>f, <1>o, <2>1 DEF StepOK, t
  <2>3. QED  BY <1>2, <1>f, <2>2, StepKeeps
<1>3. CASE RateLimit(w) /\ Goto(w, "request") /\ UNCHANGED receipt
  <2> DEFINE c == [call[w] EXCEPT !.pc = "request"]
  <2>1. c \in Calls /\ CallOK(c) /\ c.key = k /\ c.token = t /\ GuardedBy(c, receipt[k], effects[k])
    BY <1>0, <1>3, <1>f DEF Calls, CallOK, PCs, SmtpPCs, WritePCs, ClaimedPCs, Key, GuardedBy
  <2>2. call' = [call EXCEPT ![w] = c] /\ UNCHANGED <<held, effects, faults>>
    BY <1>3 DEF RateLimit, Goto
  <2> HIDE DEF c, k
  <2>3. QED  BY <1>2, <1>3, <1>f, <1>u, <2>1, <2>2
<1>4. CASE RateLimit(w) /\ Return(w)
           /\ receipt' = [receipt EXCEPT ![Key(w)] = IF @.st = "claiming" THEN Absent ELSE @]
  <2>1. receipt[k].st = "claiming" /\ effects[k] = 0
    BY <1>0, <1>4, <1>f DEF GuardedBy
  <2>2. receipt' = [receipt EXCEPT ![k] = Absent] /\ UNCHANGED <<held, effects, faults>>
    BY <1>4, <1>f, <2>1 DEF RateLimit, ReceiptInv, TypeOK
  <2>3. Absent \in Rows /\ KeyOK(k, Absent, effects[k])
    BY <2>1 DEF Absent, Rows, KeyOK
  <2> HIDE DEF k
  <2>4. QED  BY <1>1, <1>4, <1>u, <2>2, <2>3
<1>5. CASE OpenWriteRequest(w)
  <2>0. effects[k] = 0 /\ receipt[k].st = "claiming"
    BY <1>0, <1>5, <1>f DEF GuardedBy
  <2>1. PICK executed \in BOOLEAN, answered \in BOOLEAN :
          /\ answered => executed
          /\ effects' = [effects EXCEPT ![k] = @ + (IF executed THEN 1 ELSE 0)]
          /\ call' = [call EXCEPT ![w].pc = "complete_write", ![w].real = answered]
          /\ UNCHANGED <<receipt, held, faults>>
    BY <1>5 DEF OpenWriteRequest
  <2> DEFINE e == IF executed THEN 1 ELSE 0
             c == [call[w] EXCEPT !.pc = "complete_write", !.real = answered]
  <2>2. e \in {0, 1} /\ (answered => e = 1)  BY <2>1
  <2>3. call' = [call EXCEPT ![w] = c] /\ effects' = [effects EXCEPT ![k] = e]
    <3>1. effects \in [Keys -> Nat] /\ call \in [Workers -> Calls]
      BY DEF ReceiptInv, TypeOK, Calls
    <3>2. effects' = [effects EXCEPT ![k] = 0 + e]
      BY <1>f, <2>0, <2>1, <3>1
    <3>3. 0 + e = e  BY <2>2
    <3>4. call' = [call EXCEPT ![w] = c]  BY <2>1, <3>1
    <3>5. QED  BY <3>2, <3>3, <3>4
  <2> HIDE DEF e
  <2>4. c \in Calls /\ CallOK(c) /\ c.key = k /\ c.token = t
        /\ c.pc = "complete_write" /\ c.real = answered
    BY <1>0, <1>f, <2>2 DEF Calls, CallOK, PCs, SmtpPCs, WritePCs, ClaimedPCs, Key
  <2>5. KeyOK(k, receipt[k], e) /\ GuardedBy(c, receipt[k], e) /\ e \in Nat
    BY <1>f, <2>0, <2>2, <2>4 DEF KeyOK, GuardedBy, ClaimedPCs
  <2> HIDE DEF c, k
  <2>6. QED  BY <1>2, <1>f, <1>u, <2>1, <2>3, <2>4, <2>5
<1>6. CASE CompleteWrite(w)
  <2>1. Return(w) /\ receipt' = [receipt EXCEPT ![k] = done] /\ UNCHANGED <<held, effects, faults>>
    BY <1>6 DEF CompleteWrite, Store, Row
  <2> HIDE DEF k, done
  <2>2. QED  BY <1>0, <1>1, <1>6, <1>d, <1>u, <2>1
<1>7. CASE WriteFails(w)
  <2>1. PICK r \in {receipt[k], done} : receipt' = [receipt EXCEPT ![k] = r]
                                        /\ (r = done => call[w].pc = "complete_write" \/ r = receipt[k])
    BY <1>7, <1>u DEF WriteFails, Store, Row, At
  <2>2. r \in Rows /\ KeyOK(k, r, effects[k]) /\ (call[w].pc = "complete_write" => r.st # "absent")
    BY <1>d, <1>f, <2>1 DEF GuardedBy, ClaimedPCs
  <2>3. faults' \in 0..MaxFaults /\ UNCHANGED <<held, effects>>
        /\ call[w].pc \in {"limit", "complete_write"}
        /\ IF call[w].real THEN call' = [call EXCEPT ![w].real = FALSE] ELSE Return(w)
    BY <1>7, <1>b DEF WriteFails, At
  <2>4. CASE call[w].real
    <3>1. call[w].pc = "complete_write"  BY <1>f, <2>3, <2>4 DEF CallOK
    <3>2. call' = [call EXCEPT ![w] = failed]  BY <2>3, <2>4
    <3>3. failed \in Calls /\ CallOK(failed) /\ failed.key = k /\ failed.token = t
          /\ GuardedBy(failed, r, effects[k])
      BY <1>f, <2>2, <3>1 DEF Calls, CallOK, PCs, SmtpPCs, WritePCs, ClaimedPCs, Key, GuardedBy
    <3> HIDE DEF failed, k, done
    <3>4. QED  BY <1>2, <1>f, <1>u, <2>1, <2>2, <2>3, <3>2, <3>3
  <2>5. CASE ~call[w].real
    <3> HIDE DEF k, done
    <3>1. QED  BY <1>1, <2>1, <2>2, <2>3, <2>5
  <2>6. QED  BY <2>4, <2>5
<1>8. QED  BY <1>3, <1>4, <1>5, <1>6, <1>7 DEF RateLimit

\* try_claim of open_write, a claim that raises, and a crash.
LEMMA OtherCallSteps ==
    ASSUME ReceiptAssumption, ReceiptInv, NEW w \in Workers,
           TryClaim(w) \/ ClaimFails(w) \/ Crash(w)
    PROVE  ReceiptInv'
<1> DEFINE k == Key(w)
           t == call[w].token
           new == [st |-> "claiming", owner |-> t, fresh |-> TRUE, real |-> FALSE]
           newWrite == [Absent EXCEPT !.st = "claiming"]
           none == [j \in Keys |-> NoToken]
<1>0. /\ call[w].pc # "idle"
      /\ TryClaim(w) => call[w].pc = "claim_write"
      /\ ClaimFails(w) => call[w].pc \in {"claim", "claim_write"}
  BY DEF TryClaim, ClaimFails, Crash, At
<1>f. /\ call[w] \in Calls /\ k \in Keys /\ t \in Tokens /\ CallOK(call[w])
      /\ call[w].pc = "claim" => k \in SmtpKeys
      /\ call[w].pc = "claim_write" => k \in WriteKeys /\ k \notin SmtpKeys
      /\ receipt[k] \in Rows /\ effects[k] \in Nat
      /\ held[w] \in [Keys -> Tokens \cup {NoToken}]
      /\ KeyOK(k, receipt[k], effects[k])
      /\ \A v \in Workers : call[v].key = k => GuardedBy(call[v], receipt[k], effects[k])
  BY <1>0, CallFacts DEF SmtpPCs, WritePCs
<1>u. /\ receipt = [receipt EXCEPT ![k] = receipt[k]]
      /\ effects = [effects EXCEPT ![k] = effects[k]]
      /\ held = [held EXCEPT ![w] = held[w]] /\ faults \in 0..MaxFaults
  BY <1>f, Unchanged DEF ReceiptInv, TypeOK
<1>b. ClaimFails(w) \/ Crash(w) => faults' \in 0..MaxFaults
  BY <1>u DEF ClaimFails, Crash, Fault, ReceiptAssumption
<1>w. WriteClaimable(receipt[k]) /\ call[w].pc = "claim_write" =>
        /\ newWrite \in Rows /\ newWrite.st = "claiming"
        /\ effects[k] = 0 /\ KeyOK(k, newWrite, effects[k])
        /\ \A v \in Workers : call[v].key = k => ~Claimed(call[v]) /\ GuardedBy(call[v], newWrite, effects[k])
  <2> SUFFICES ASSUME receipt[k].st = "absent", call[w].pc = "claim_write"
               PROVE  /\ newWrite \in Rows /\ newWrite.st = "claiming"
                      /\ effects[k] = 0 /\ KeyOK(k, newWrite, effects[k])
                      /\ \A v \in Workers : call[v].key = k =>
                            ~Claimed(call[v]) /\ GuardedBy(call[v], newWrite, effects[k])
    BY DEF WriteClaimable
  <2>1. newWrite \in Rows /\ newWrite.st = "claiming"  BY DEF Absent, Rows
  <2>2. effects[k] = 0 /\ KeyOK(k, newWrite, effects[k])  BY <1>f, <2>1 DEF KeyOK
  <2>3. \A v \in Workers : call[v].key = k => ~Claimed(call[v])
    BY <1>f DEF GuardedBy, Claimed
  <2>4. \A v \in Workers : call[v].key = k => GuardedBy(call[v], newWrite, effects[k])
    BY <1>f, <2>1, <2>3 DEF GuardedBy, Claimed, ClaimedPCs
  <2>5. QED  BY <2>1, <2>2, <2>3, <2>4
<1>s. Claimable(receipt[k]) /\ call[w].pc = "claim" =>
        /\ new \in Rows /\ KeyOK(k, new, effects[k])
        /\ \A v \in Workers : call[v].key = k => GuardedBy(call[v], new, effects[k])
  <2> SUFFICES ASSUME receipt[k].st \in {"absent", "claiming"}, call[w].pc = "claim"
               PROVE  /\ new \in Rows /\ KeyOK(k, new, effects[k])
                      /\ \A v \in Workers : call[v].key = k => GuardedBy(call[v], new, effects[k])
    BY DEF Claimable
  <2>1. new \in Rows  BY <1>f DEF Rows
  <2>2. KeyOK(k, new, effects[k])  BY <1>f DEF KeyOK
  <2>3. \A v \in Workers : call[v].key = k => call[v].pc \notin WritePCs
    BY <1>f DEF ReceiptInv, CallsOK, CallOK, ReceiptAssumption
  <2>4. QED  BY <1>f, <2>1, <2>2, <2>3 DEF GuardedBy, WritePCs, ClaimedPCs
<1>1. ASSUME Return(w), held' = held, effects' = effects, faults' \in 0..MaxFaults,
             NEW r \in Rows, receipt' = [receipt EXCEPT ![k] = r], KeyOK(k, r, effects[k]),
             \A v \in Workers : call[v].key = k => GuardedBy(call[v], r, effects[k])
      PROVE  ReceiptInv'
  <2>1. held' = [held EXCEPT ![w] = held[w]]  BY <1>1, <1>u
  <2> HIDE DEF k
  <2>2. QED  BY <1>0, <1>1, <1>f, <2>1, ReturnKeeps DEF k
<1>2. CASE TryClaim(w) /\ WriteClaimable(receipt[k])
  <2> DEFINE c == [call[w] EXCEPT !.pc = "limit"]
  <2>1. c \in Calls /\ CallOK(c) /\ c.key = k /\ c.token = t /\ c.pc = "limit"
    <3>1. ~call[w].real  BY <1>0, <1>2, <1>f DEF CallOK
    <3>2. QED  BY <1>0, <1>2, <1>f, <3>1 DEF Calls, CallOK, PCs, SmtpPCs, WritePCs, ClaimedPCs, Key
  <2>2. call' = [call EXCEPT ![w] = c] /\ receipt' = [receipt EXCEPT ![k] = newWrite]
        /\ UNCHANGED <<held, effects, faults>>
    BY <1>2 DEF TryClaim, Row, Store, Goto
  <2>3. GuardedBy(c, newWrite, effects[k])
    BY <1>0, <1>2, <1>w, <2>1 DEF GuardedBy, ClaimedPCs
  <2>4. held' = [held EXCEPT ![w] = held[w]] /\ effects' = [effects EXCEPT ![k] = effects[k]]
        /\ faults' \in 0..MaxFaults
    BY <1>u, <2>2
  <2> HIDE DEF c, k, newWrite
  <2>5. StepOK(w, k, c, newWrite, effects[k], held[w])
    BY <1>0, <1>2, <1>w, <2>1, <2>2, <2>3, <2>4 DEF StepOK, t
  <2>6. QED  BY <1>0, <1>2, <1>f, <1>w, <2>1, <2>5, StepKeeps
<1>3. CASE TryClaim(w) /\ ~WriteClaimable(receipt[k])
  <2>1. Return(w) /\ UNCHANGED <<receipt, held, effects, faults>>
    BY <1>3 DEF TryClaim, Row
  <2> HIDE DEF k
  <2>2. QED  BY <1>1, <1>f, <1>u, <2>1
<1>4. CASE ClaimFails(w)
  <2>1. Return(w) /\ UNCHANGED <<held, effects>> /\ faults' \in 0..MaxFaults
    BY <1>4, <1>b DEF ClaimFails
  <2>2. CASE UNCHANGED receipt
    <3> HIDE DEF k
    <3>1. QED  BY <1>1, <1>f, <1>u, <2>1, <2>2
  <2>3. CASE At(w, "claim") /\ Claimable(receipt[k]) /\ receipt' = [receipt EXCEPT ![k] = new]
    <3>1. call[w].pc = "claim"  BY <2>3 DEF At
    <3> HIDE DEF k, new
    <3>2. QED  BY <1>1, <1>s, <2>1, <2>3, <3>1
  <2>4. CASE At(w, "claim_write") /\ WriteClaimable(receipt[k]) /\ receipt' = [receipt EXCEPT ![k] = newWrite]
    <3>1. call[w].pc = "claim_write"  BY <2>4 DEF At
    <3> HIDE DEF k, newWrite
    <3>2. QED  BY <1>1, <1>w, <2>1, <2>4, <3>1
  <2>5. QED  BY <1>4, <2>2, <2>3, <2>4 DEF ClaimFails, Row, Store
<1>5. CASE Crash(w)
  <2>1. /\ Return(w) /\ receipt' = [receipt EXCEPT ![k] = receipt[k]] /\ UNCHANGED effects
        /\ held' = [held EXCEPT ![w] = none] /\ faults' \in 0..MaxFaults
    BY <1>5, <1>b, <1>u DEF Crash
  <2>2. none \in [Keys -> Tokens \cup {NoToken}]
        /\ \A j \in Keys : none[j] \in {NoToken, held[w][j], call[w].token}
    OBVIOUS
  <2> HIDE DEF k, none, t
  <2>3. QED  BY <1>0, <1>f, <2>1, <2>2, ReturnKeeps DEF k
<1>6. QED  BY <1>2, <1>3, <1>4, <1>5

\* A new call: its token is nobody's.
LEMMA BeginStep ==
    ASSUME ReceiptAssumption, ReceiptInv, NEW w \in Workers, NEW k \in Keys, BeginCall(w, k)
    PROVE  ReceiptInv'
<1> DEFINE first == IF k \in SmtpKeys THEN "claim" ELSE "claim_write"
<1>1. PICK t \in Tokens \ InUse :
        call' = [call EXCEPT ![w] = [pc |-> first, key |-> k, token |-> t, real |-> FALSE]]
  BY DEF BeginCall
<1> DEFINE c == [pc |-> first, key |-> k, token |-> t, real |-> FALSE]
<1>2. first \in {"claim", "claim_write"} /\ (first = "claim" => k \in SmtpKeys)
      /\ (first = "claim_write" => k \in WriteKeys)
  BY DEF Keys
<1> HIDE DEF first
<1>3. c \in Calls /\ CallOK(c) /\ ~Claimed(c) /\ \A r, e : GuardedBy(c, r, e)
  BY <1>2 DEF Calls, CallOK, PCs, SmtpPCs, WritePCs, ClaimedPCs, Claimed, GuardedBy
<1>t. TypeOK  BY DEF ReceiptInv
<1>4. call'[w] = c /\ (\A v \in Workers \ {w} : call'[v] = call[v])
      /\ UNCHANGED <<receipt, held, effects, faults>>
  BY <1>1, <1>t DEF BeginCall, TypeOK
<1>5. /\ c.token = t /\ t # NoToken /\ \A v \in Workers : call[v].token # t
      /\ \A v \in Workers, j \in Keys : held[v][j] # t
  BY DEF InUse, ReceiptAssumption
<1>6. TypeOK'
  <2>1. call' \in [Workers -> Calls]  BY <1>1, <1>3, <1>t DEF TypeOK, Calls
  <2>2. QED  BY <1>4, <1>t, <2>1 DEF TypeOK, Calls
<1> HIDE DEF c
<1>7. CallsOK'  BY <1>3, <1>4 DEF ReceiptInv, CallsOK
<1>8. TokensDistinct'
  <2> SUFFICES ASSUME NEW u \in Workers, NEW v \in Workers, u # v, call'[u].token # NoToken
               PROVE  /\ call'[u].token # call'[v].token
                      /\ \A j \in Keys : call'[u].token # held[v][j]
    BY <1>4 DEF TokensDistinct
  <2>1. CASE u = w  BY <1>4, <1>5, <2>1
  <2>2. CASE v = w  BY <1>4, <1>5, <2>2 DEF ReceiptInv, TokensDistinct
  <2>3. CASE u # w /\ v # w  BY <1>4, <2>3 DEF ReceiptInv, TokensDistinct
  <2>4. QED  BY <2>1, <2>2, <2>3
<1>9. AllGuarded'  BY <1>3, <1>4 DEF ReceiptInv, AllGuarded
<1>10. OneClaimant'  BY <1>3, <1>4 DEF ReceiptInv, OneClaimant, Claimed
<1>11. KeysOK'  BY <1>4 DEF ReceiptInv, KeysOK
<1>12. QED  BY <1>6, <1>7, <1>8, <1>9, <1>10, <1>11 DEF ReceiptInv

\* A lease that runs out changes nothing anybody relies on.
LEMMA LeaseStep ==
    ASSUME ReceiptAssumption, ReceiptInv, NEW k \in Keys, LeaseExpires(k)
    PROVE  ReceiptInv'
<1>t. TypeOK /\ receipt \in [Keys -> Rows]  BY DEF ReceiptInv, TypeOK
<1> DEFINE r == [receipt[k] EXCEPT !.fresh = FALSE]
<1>1. receipt' = [receipt EXCEPT ![k] = r] /\ UNCHANGED <<held, call, effects>>
      /\ faults' \in 0..MaxFaults
  BY <1>t DEF LeaseExpires, Fault, TypeOK, ReceiptAssumption
<1>2. r \in Rows /\ r.st = receipt[k].st /\ r.owner = receipt[k].owner /\ r.real = receipt[k].real
  BY <1>t DEF Rows
<1>3. receipt'[k] = r /\ \A j \in Keys \ {k} : receipt'[j] = receipt[j]
  BY <1>1, <1>t
<1> HIDE DEF r
<1>4. TypeOK'  BY <1>1, <1>2, <1>t DEF TypeOK
<1>5. CallsOK' /\ TokensDistinct' /\ OneClaimant'
  BY <1>1 DEF ReceiptInv, CallsOK, TokensDistinct, OneClaimant
<1>6. AllGuarded'
  <2> SUFFICES ASSUME NEW v \in Workers
               PROVE  GuardedBy(call[v], receipt'[call[v].key], effects[call[v].key])
    BY <1>1 DEF AllGuarded
  <2>0. GuardedBy(call[v], receipt[call[v].key], effects[call[v].key])
    BY DEF ReceiptInv, AllGuarded
  <2>1. CASE call[v].key = k  BY <1>2, <1>3, <2>0, <2>1 DEF GuardedBy
  <2>2. CASE call[v].key \in Keys \ {k}  BY <1>3, <2>0, <2>2
  <2>3. CASE call[v].key \notin Keys
    <3>1. call[v].pc = "idle"
      BY <1>t, <2>3 DEF TypeOK, ReceiptInv, CallsOK, CallOK, PCs, SmtpPCs, WritePCs, ClaimedPCs, Keys
    <3>2. QED  BY <3>1 DEF GuardedBy, ClaimedPCs
  <2>4. QED  BY <2>1, <2>2, <2>3
<1>7. KeysOK'
  <2>1. KeyOK(k, r, effects[k])  BY <1>2 DEF ReceiptInv, KeysOK, KeyOK
  <2>2. QED  BY <1>1, <1>3, <2>1 DEF ReceiptInv, KeysOK
<1>8. QED  BY <1>4, <1>5, <1>6, <1>7 DEF ReceiptInv

-----------------------------------------------------------------------------
\* ReceiptInv is an invariant of the receipts: tokens stay distinct, every call
\* between its claim and its effect is the only one its receipt admits.
THEOREM ReceiptInvariant == Spec => []ReceiptInv
<1>1. Init => ReceiptInv
  <2> SUFFICES ASSUME Init PROVE ReceiptInv
    OBVIOUS
  <2>1. TypeOK
    BY ReceiptAssumption DEF Init, TypeOK, Absent, Idle, Rows, PCs
  <2>2. CallsOK  BY IdleCall DEF Init, CallsOK
  <2>3. TokensDistinct /\ AllGuarded /\ OneClaimant
    BY DEF Init, TokensDistinct, AllGuarded, OneClaimant, GuardedBy, Idle, ClaimedPCs
  <2>4. KeysOK  BY DEF Init, KeysOK, KeyOK, Absent
  <2>5. QED  BY <2>1, <2>2, <2>3, <2>4 DEF ReceiptInv
<1>2. ReceiptInv /\ [Next]_vars => ReceiptInv'
  <2> SUFFICES ASSUME ReceiptInv, [Next]_vars PROVE ReceiptInv'
    OBVIOUS
  <2>1. ASSUME NEW w \in Workers, CallStep(w) \/ FaultStep(w)
        PROVE  ReceiptInv'
    BY <2>1, ReceiptAssumption, ClaimSteps, SendSteps, WriteSteps, OtherCallSteps
      DEF CallStep, FaultStep
  <2>2. ASSUME NEW w \in Workers, NEW k \in Keys, BeginCall(w, k)
        PROVE  ReceiptInv'
    BY <2>2, ReceiptAssumption, BeginStep
  <2>3. ASSUME NEW k \in Keys, LeaseExpires(k)
        PROVE  ReceiptInv'
    BY <2>3, ReceiptAssumption, LeaseStep
  <2>4. CASE UNCHANGED vars
    BY <2>4 DEF vars, ReceiptInv, TypeOK, CallsOK, TokensDistinct, AllGuarded, OneClaimant, KeysOK
  <2>5. QED  BY <2>1, <2>2, <2>3, <2>4 DEF Next
<1>3. QED  BY <1>1, <1>2, PTL DEF Spec

\* Every state of the receipts, the tokens and the calls is well-typed.
THEOREM ReceiptTypeCorrect == Spec => []TypeOK
<1>1. ReceiptInv => TypeOK  BY DEF ReceiptInv
<1>2. QED  BY <1>1, ReceiptInvariant, PTL

\* However many workers call with a key, crash, are taken over and lose
\* acknowledgements, the message is delivered, or the request executed, at most once.
THEOREM NeverTwice == Spec => []AtMostOneEffect
<1>1. ReceiptInv => AtMostOneEffect  BY DEF ReceiptInv, KeysOK, KeyOK, AtMostOneEffect
<1>2. QED  BY <1>1, ReceiptInvariant, PTL

\* A replayed success is always the record of one effect that happened.
THEOREM ReplaysAreTrue == Spec => []RecordedMeansDone
<1>1. ReceiptInv => RecordedMeansDone  BY DEF ReceiptInv, KeysOK, KeyOK, RecordedMeansDone
<1>2. QED  BY <1>1, ReceiptInvariant, PTL

\* What a step may do to the receipt of an SMTP key that has its verdict.
VerdictStep ==
    \A k \in SmtpKeys : receipt[k].st \in {"completed", "uncertain"} =>
      receipt'[k].st = receipt[k].st /\ receipt'[k].real = receipt[k].real

\* A step that rewrites the receipt of one key, which has no verdict.
LEMMA OtherReceipts ==
    ASSUME ReceiptInv, NEW k \in Keys, NEW r, receipt' = [receipt EXCEPT ![k] = r],
           k \in SmtpKeys => receipt[k].st \notin {"completed", "uncertain"}
    PROVE  VerdictStep
<1>1. \A j \in Keys \ {k} : receipt'[j] = receipt[j]  BY DEF ReceiptInv, TypeOK
<1>2. QED  BY <1>1 DEF VerdictStep, Keys

\* The verdict of an SMTP receipt stays: a late completion or release of a former
\* owner, whatever it lost, changes neither a completed nor a quarantined receipt.
THEOREM VerdictsStay == Spec => VerdictStays
<1>1. ReceiptInv /\ [Next]_vars => VerdictStep
  <2> SUFFICES ASSUME ReceiptInv, [Next]_vars PROVE VerdictStep
    OBVIOUS
  <2>0. CASE UNCHANGED receipt  BY <2>0 DEF VerdictStep
  <2>1. ASSUME NEW w \in Workers, CallStep(w) \/ FaultStep(w), ~At(w, "idle")
        PROVE  VerdictStep
    <3> DEFINE k == Key(w)
    <3>f. k \in Keys /\ call[w].pc \in PCs
          /\ (call[w].pc \in WritePCs => k \notin SmtpKeys)
      BY <2>1, ReceiptAssumption, CallFacts DEF At, Calls
    <3>1. CASE call[w].pc \in WritePCs
      <4>1. UNCHANGED receipt \/ \E r : receipt' = [receipt EXCEPT ![k] = r]
        BY <2>1, <3>1 DEF CallStep, FaultStep, At, WritePCs, ClaimedPCs, Store, TryClaimSmtp,
          FenceSmtpSend, SendViaSmtp, BadSecret, CompleteSmtpSend, ReleaseSmtpSend, TryClaim,
          RateLimit, OpenWriteRequest, CompleteWrite, ClaimFails, FenceFails, CompleteFails,
          ReleaseFails, WriteFails, Crash, Releasing
      <4>2. QED  BY <2>0, <3>1, <3>f, <4>1, OtherReceipts
    <3>2. CASE call[w].pc \notin WritePCs
      <4>1. UNCHANGED receipt \/ \E r : receipt' = [receipt EXCEPT ![k] = r]
                                        /\ receipt[k].st \in {"absent", "claiming", "sending"}
        BY <2>1, <3>2 DEF CallStep, FaultStep, At, WritePCs, ClaimedPCs, Store, TryClaimSmtp,
          FenceSmtpSend, SendViaSmtp, BadSecret, CompleteSmtpSend, ReleaseSmtpSend, TryClaim,
          RateLimit, OpenWriteRequest, CompleteWrite, ClaimFails, FenceFails, CompleteFails,
          ReleaseFails, WriteFails, Crash, Releasing, Claimable, Fenced, Completes, Releasable, Row
      <4>2. QED  BY <2>0, <3>f, <4>1, OtherReceipts
    <3>3. QED  BY <3>1, <3>2
  <2>2. ASSUME NEW w \in Workers, CallStep(w) \/ FaultStep(w)
        PROVE  ~At(w, "idle")
    BY <2>2 DEF CallStep, FaultStep, At, TryClaimSmtp, FenceSmtpSend, SendViaSmtp, BadSecret,
      CompleteSmtpSend, ReleaseSmtpSend, TryClaim, RateLimit, OpenWriteRequest, CompleteWrite,
      ClaimFails, FenceFails, CompleteFails, ReleaseFails, WriteFails, Crash, Releasing
  <2>3. ASSUME NEW k \in Keys, LeaseExpires(k)
        PROVE  VerdictStep
    <3>1. receipt \in [Keys -> Rows]  BY DEF ReceiptInv, TypeOK
    <3>2. \A j \in Keys : receipt'[j].st = receipt[j].st /\ receipt'[j].real = receipt[j].real
      BY <2>3, <3>1 DEF LeaseExpires, Rows
    <3>3. QED  BY <3>2 DEF VerdictStep, Keys
  <2>4. QED  BY <2>0, <2>1, <2>2, <2>3 DEF Next, BeginCall, vars
<1>2. VerdictStays <=> [][VerdictStep]_vars  BY PTL DEF VerdictStays, VerdictStep
<1>3. QED  BY <1>1, <1>2, ReceiptInvariant, PTL DEF Spec
=============================================================================

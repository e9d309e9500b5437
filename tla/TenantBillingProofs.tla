------------------------ MODULE TenantBillingProofs -------------------------
(***************************************************************************)
(* Proofs about TenantBilling, for any number of requests, plans, events   *)
(* and faults, and with commits before and after answers.  That an event   *)
(* is processed once is not inductive: it needs that of the transactions   *)
(* that have inserted the receipt of an event only one is open             *)
(* (OneInserter), that no receipt is committed while one is, that a        *)
(* handler is ready to reply only once there is a receipt, and that one    *)
(* that commits late has answered (HandlersAgree).                         *)
(*                                                                         *)
(* That the plan drifts from the subscription for the named causes only    *)
(* needs, beside it, that the last event about the plan tells the state of *)
(* the newest subscription (EventsTell), and that as long as this event is *)
(* not overtaken, every older event about the plan is recorded, so that    *)
(* nobody else is about to write the plan, and what was decided on the     *)
(* copy of the row still holds (DecisionsHold, PlanIsTold).                *)
(***************************************************************************)
EXTENDS TenantBilling, TLAPS

Inserting == {"read", "resolve", "commit", "late"}

\* The facts about one handler: it has inserted a receipt that is not committed,
\* it has decided before it commits, and it replies when there is a receipt or
\* commits after it has replied.
HandlerAgrees(w, outcomes, answered) ==
    /\ w.pc \in Inserting => outcomes[w.e] = "none"
    /\ w.pc \in {"commit", "late"} => w.outcome # "none"
    /\ w.pc = "reply" => outcomes[w.e] # "none"
    /\ w.pc = "late" => w.e \in answered
HandlersAgree == \A h \in Handlers : HandlerAgrees(web[h], receipt, acked)

OneInserter ==
    \A g, h \in Handlers : web[g].pc \in Inserting /\ web[h].pc \in Inserting /\ web[g].e = web[h].e => g = h

EffectsAreReceipts == \A e \in Events : effects[e] = IF receipt[e] = "none" THEN 0 ELSE 1
AnswersKept == \A e \in acked : receipt[e] # "none" \/ Committing(e) \/ e \in dropped

BillInv == TypeOK /\ HandlersAgree /\ OneInserter /\ EffectsAreReceipts /\ AnswersKept

-----------------------------------------------------------------------------
\* The values a variable starts from, and a request returns to.
LEMMA IdleTypes ==
    /\ Row \in Rows /\ IdleWeb \in Webs /\ IdleCheck \in Checks /\ IdleAdmin \in Calls
    /\ IdleWeb.pc = "idle"
  BY DEF Row, IdleWeb, IdleCheck, IdleAdmin, Rows, Statuses, Webs, Checks, Calls, Outcomes, AnyPlan

\* The events are among the event ids.
LEMMA EventsAreEvents ==
    ASSUME TypeOK PROVE DOMAIN events \subseteq Events
  BY BillingAssumption DEF TypeOK, StripeType, Events

\* A webhook that moves to w and writes nothing keeps the invariant, when w agrees
\* with the receipts and has not inserted, or had already inserted, its receipt, and
\* when an answered event that it gives up is noted.
LEMMA HandlerStep ==
    ASSUME BillInv, NEW h \in Handlers, NEW w \in Webs,
           web' = [web EXCEPT ![h] = w],
           w.pc # "idle" => w.e \in DOMAIN events,
           HandlerAgrees(w, receipt, acked'),
           w.pc \in Inserting => \/ w.e = web[h].e /\ web[h].pc \in Inserting
                                 \/ ~Inserted(w.e),
           UNCHANGED <<server, check, admin, customers, sessions, subs, events, opened>>,
           faults' \in Nat,
           acked \subseteq acked', acked' \subseteq DOMAIN events,
           \A e \in acked' : e \in acked \/ receipt[e] # "none" \/ (w.pc = "late" /\ w.e = e),
           dropped \subseteq dropped', dropped' \subseteq acked', overtaken' \subseteq DOMAIN events,
           web[h].pc = "late" => web[h].e \in dropped'
    PROVE  BillInv'
<1>1. web' \in [Handlers -> Webs] /\ \A g \in Handlers : web'[g] = IF g = h THEN w ELSE web[g]
  BY DEF BillInv, TypeOK, RequestType
<1>2. UNCHANGED <<tenant, receipt, effects>>
  BY DEF server
<1>3. \A e \in acked' : receipt[e] # "none" \/ Committing(e)' \/ e \in dropped'
  <2> SUFFICES ASSUME NEW e \in acked', receipt[e] = "none", e \notin dropped' PROVE Committing(e)'
    OBVIOUS
  <2>1. CASE w.pc = "late" /\ w.e = e
    BY <1>1, <2>1 DEF Committing
  <2>2. CASE e \in acked
    <3>1. PICK g \in Handlers : web[g].pc = "late" /\ web[g].e = e
      BY <2>2 DEF BillInv, AnswersKept, Committing
    <3>2. g # h
      BY <3>1
    <3> QED
      BY <1>1, <3>1, <3>2 DEF Committing
  <2> QED
    BY <2>1, <2>2
<1>5. StripeType' /\ ServerType' /\ RequestType'
  BY <1>1, <1>2 DEF BillInv, TypeOK, StripeType, ServerType, RequestType
<1>6. TypeOK'
  BY <1>1, <1>5 DEF BillInv, TypeOK
<1>7. HandlersAgree'
  BY <1>1, <1>2 DEF BillInv, HandlersAgree, HandlerAgrees
<1>8. \A g \in Handlers : g # h /\ web[g].pc \in Inserting /\ w.pc \in Inserting => web[g].e # w.e
  BY DEF BillInv, OneInserter, Inserted, Inserting
<1>9. OneInserter'
  BY <1>1, <1>8 DEF BillInv, OneInserter
<1>10. EffectsAreReceipts' /\ AnswersKept'
  BY <1>2, <1>3 DEF BillInv, EffectsAreReceipts, AnswersKept
<1> QED
  BY <1>6, <1>7, <1>9, <1>10 DEF BillInv

\* A step that leaves the webhooks, the receipts and the answers alone keeps the
\* invariant when it keeps the types and every event it knew.
LEMMA OtherStep ==
    ASSUME BillInv, UNCHANGED <<web, receipt, effects, acked, dropped>>, TypeOK'
    PROVE  BillInv'
  BY DEF BillInv, HandlersAgree, OneInserter, EffectsAreReceipts, AnswersKept, Committing

-----------------------------------------------------------------------------
\* Stripe appends an event about a subscription it has.
LEMMA EmitStep ==
    ASSUME BillInv, NEW type \in EventTypes,
           NEW i \in Nat, NEW p \in AnyPlan, Emit(type, i, p),
           subs' \in Seq(Subscriptions),
           DOMAIN subs \subseteq DOMAIN subs', i \in DOMAIN subs',
           sessions' \subseteq sessions,
           UNCHANGED <<server, web, check, admin, customers, acked, opened, faults, marks>>
    PROVE  BillInv'
<1> DEFINE ev == [type |-> type, sub |-> i, plan |-> p]
<1>1. ev \in StripeEvents /\ events \in Seq(StripeEvents) /\ events' = Append(events, ev) /\ Len(events) < MaxEvents
  BY DEF Emit, BillInv, TypeOK, StripeType, StripeEvents
<1>2. ev.sub = i
  OBVIOUS
<1> HIDE DEF ev
<1>3. events' \in Seq(StripeEvents) /\ Len(events') = Len(events) + 1
  BY <1>1
<1>4. \A e \in DOMAIN events' : events'[e] = IF e \in DOMAIN events THEN events[e] ELSE ev
  BY <1>1
<1>5. DOMAIN events \subseteq DOMAIN events'
  BY <1>1
<1>6. Len(events') <= MaxEvents
  BY <1>1, <1>3, BillingAssumption
<1>7. \A e \in DOMAIN events' : events'[e].sub \in DOMAIN subs'
  BY <1>2, <1>4 DEF BillInv, TypeOK
<1>8. StripeType'
  BY <1>3, <1>5, <1>6 DEF BillInv, TypeOK, StripeType, marks
<1>9. ServerType' /\ RequestType'
  BY DEF BillInv, TypeOK, ServerType, RequestType, server
<1>10. TypeOK'
  BY <1>5, <1>7, <1>8, <1>9 DEF BillInv, TypeOK
<1> QED
  BY <1>10, OtherStep DEF server, marks

\* Replacing an element of a sequence by another of its type.
LEMMA ReplaceInSeq ==
    ASSUME NEW S, NEW q \in Seq(S), NEW i \in DOMAIN q, NEW x \in S
    PROVE  [q EXCEPT ![i] = x] \in Seq(S) /\ DOMAIN [q EXCEPT ![i] = x] = DOMAIN q /\ i \in Nat /\ q[i] \in S
  OBVIOUS

\* Whatever happens at Stripe keeps the invariant.
LEMMA StripeKeeps ==
    ASSUME BillInv, StripeStep PROVE BillInv'
<1>0. subs \in Seq(Subscriptions) /\ sessions \subseteq Sessions
  BY DEF BillInv, TypeOK, StripeType
<1>1. ASSUME NEW s \in sessions, Pay(s) PROVE BillInv'
  <2>1. [plan |-> s.plan, customer |-> s.customer, live |-> TRUE] \in Subscriptions
    BY <1>0 DEF Sessions, Subscriptions
  <2> DEFINE sub == [plan |-> s.plan, customer |-> s.customer, live |-> TRUE]
  <2>2. subs' = Append(subs, sub)
    BY <1>1 DEF Pay
  <2> HIDE DEF sub
  <2>3. subs' \in Seq(Subscriptions) /\ DOMAIN subs \subseteq DOMAIN subs' /\ Len(subs) + 1 \in DOMAIN subs'
    BY <1>0, <2>1, <2>2 DEF sub
  <2>4. Len(subs) + 1 \in Nat /\ sessions' \subseteq sessions
    BY <1>0, <1>1 DEF Pay
  <2> QED
    BY <1>1, <2>3, <2>4, EmitStep DEF Pay, EventTypes, AnyPlan
<1>2. ASSUME NEW i \in DOMAIN subs, NEW p \in Plans, ChangePlan(i, p) PROVE BillInv'
  <2> DEFINE sub == [subs[i] EXCEPT !.plan = p]
  <2>0. subs' = [subs EXCEPT ![i] = sub]
    BY <1>2 DEF ChangePlan
  <2>2. subs[i] \in Subscriptions
    BY <1>0
  <2>3. sub \in Subscriptions
    BY <2>2 DEF Subscriptions, AnyPlan
  <2> HIDE DEF sub
  <2>1. subs' \in Seq(Subscriptions) /\ DOMAIN subs' = DOMAIN subs /\ i \in Nat
    BY <1>0, <2>0, <2>3, ReplaceInSeq
  <2> QED
    BY <1>2, <2>1, EmitStep DEF ChangePlan, EventTypes, AnyPlan
<1>3. ASSUME NEW i \in DOMAIN subs, EndSubscription(i) PROVE BillInv'
  <2> DEFINE sub == [subs[i] EXCEPT !.live = FALSE]
  <2>0. subs' = [subs EXCEPT ![i] = sub]
    BY <1>3 DEF EndSubscription
  <2>2. subs[i] \in Subscriptions
    BY <1>0
  <2>3. sub \in Subscriptions
    BY <2>2 DEF Subscriptions, AnyPlan
  <2> HIDE DEF sub
  <2>1. subs' \in Seq(Subscriptions) /\ DOMAIN subs' = DOMAIN subs /\ i \in Nat
    BY <1>0, <2>0, <2>3, ReplaceInSeq
  <2> QED
    BY <1>3, <2>1, EmitStep DEF EndSubscription, EventTypes, AnyPlan
<1>4. ASSUME NEW i \in DOMAIN subs, NEW type \in {"paid", "payment_failed"}, Invoice(i, type) PROVE BillInv'
  <2>1. subs' \in Seq(Subscriptions) /\ DOMAIN subs' = DOMAIN subs /\ i \in Nat
    BY <1>0, <1>4 DEF Invoice
  <2> QED
    BY <1>4, <2>1, EmitStep DEF Invoice, EventTypes, AnyPlan
<1> QED
  BY <1>1, <1>2, <1>3, <1>4 DEF StripeStep

-----------------------------------------------------------------------------
\* Each step of a webhook keeps the invariant; only the commit writes.
LEMMA WebhookKeeps ==
    ASSUME BillInv, NEW h \in Handlers, WebhookStep(h) PROVE BillInv'
<1> USE IdleTypes
<1>0. /\ web \in [Handlers -> Webs] /\ web[h] \in Webs /\ tenant \in Rows /\ faults \in Nat
      /\ HandlerAgrees(web[h], receipt, acked)
      /\ web[h].pc # "idle" => web[h].e \in DOMAIN events
      /\ events \in Seq(StripeEvents) /\ subs \in Seq(Subscriptions)
      /\ acked \subseteq DOMAIN events /\ dropped \subseteq acked /\ overtaken \subseteq DOMAIN events
  BY DEF BillInv, TypeOK, RequestType, ServerType, StripeType, HandlersAgree
<1>1. ASSUME NEW w \in Webs, web' = [web EXCEPT ![h] = w], w.pc # "idle" => w.e \in DOMAIN events,
             HandlerAgrees(w, receipt, acked), web[h].pc # "late",
             w.pc \in Inserting => w.e = web[h].e /\ (web[h].pc \in Inserting \/ ~Inserted(w.e)),
             UNCHANGED <<server, check, admin, stripe, opened, dropped>>,
             faults' \in Nat, overtaken' \subseteq DOMAIN events
      PROVE BillInv'
  BY <1>0, <1>1, HandlerStep DEF stripe
<1>2. ASSUME NEW e \in DOMAIN events, Deliver(h, e) PROVE BillInv'
  <2> DEFINE w == [pc |-> "record", e |-> e, read |-> "free", plan |-> "free", outcome |-> "none"]
  <2>1. w \in Webs /\ w.pc = "record" /\ w.e = e
    BY <1>0 DEF Webs, Outcomes, AnyPlan
  <2>2. web' = [web EXCEPT ![h] = w]
    BY <1>2 DEF Deliver
  <2> HIDE DEF w
  <2>3. HandlerAgrees(w, receipt, acked) /\ w.pc \notin Inserting
    BY <2>1 DEF HandlerAgrees, Inserting
  <2> QED
    BY <1>0, <1>1, <1>2, <2>1, <2>2, <2>3 DEF Deliver, marks
<1>3. ASSUME TryRecordEvent(h) PROVE BillInv'
  <2> DEFINE next == IF Recorded(web[h].e) THEN "reply" ELSE "read"
             w == [web[h] EXCEPT !.pc = next]
  <2>1. next \in {"reply", "read"} /\ (next = "reply" <=> receipt[web[h].e] # "none")
    BY DEF Recorded
  <2> HIDE DEF next
  <2>2. w \in Webs /\ w.pc = next /\ w.e = web[h].e
    BY <1>0, <2>1 DEF Webs
  <2>3. web' = [web EXCEPT ![h] = w] /\ web[h].pc = "record" /\ ~Inserted(web[h].e)
    BY <1>3 DEF TryRecordEvent, GotoWeb, next
  <2> HIDE DEF w
  <2>4. HandlerAgrees(w, receipt, acked)
    BY <2>1, <2>2 DEF HandlerAgrees, Inserting
  <2> QED
    BY <1>0, <1>1, <1>3, <2>2, <2>3, <2>4 DEF TryRecordEvent, marks
<1>4. ASSUME NEW pc \in {"commit", "resolve"}, NEW read \in AnyPlan, NEW plan \in AnyPlan,
             NEW outcome \in Outcomes, Decide(h, pc, read, plan, outcome),
             pc = "commit" => outcome # "none", web[h].pc \in {"read", "resolve"},
             UNCHANGED <<server, check, admin, stripe, opened, faults, dropped>>,
             overtaken' \subseteq DOMAIN events
      PROVE BillInv'
  <2> DEFINE w == [pc |-> pc, e |-> web[h].e, read |-> read, plan |-> plan, outcome |-> outcome]
  <2>1. w \in Webs /\ w.pc = pc /\ w.e = web[h].e /\ w.outcome = outcome
    BY <1>0, <1>4 DEF Webs
  <2>2. web' = [web EXCEPT ![h] = w]
    BY <1>4 DEF Decide
  <2> HIDE DEF w
  <2>3. HandlerAgrees(w, receipt, acked)
    BY <1>0, <1>4, <2>1 DEF HandlerAgrees, Inserting
  <2>4. w.e = web[h].e /\ web[h].pc \in Inserting /\ web[h].pc # "idle"
    BY <1>4, <2>1 DEF Inserting
  <2> QED
    BY <1>0, <1>1, <1>4, <2>1, <2>2, <2>3, <2>4
<1>5. ASSUME DispatchEvent(h) PROVE BillInv'
  <2>1. web[h].pc \in {"read", "resolve"} /\ UNCHANGED <<server, check, admin, stripe, opened, faults, dropped>>
    BY <1>5 DEF DispatchEvent
  <2>2. \/ \E outcome \in Outcomes \ {"none"} : Decide(h, "commit", "free", "free", outcome)
        \/ Decide(h, "resolve", tenant.plan, "free", "none")
    BY <1>5 DEF DispatchEvent, Outcomes
  <2>3. overtaken' \subseteq DOMAIN events
    BY <1>0, <1>5, <2>1 DEF DispatchEvent
  <2>4. tenant.plan \in AnyPlan /\ "free" \in AnyPlan
    BY <1>0 DEF Rows, AnyPlan
  <2> QED
    BY <1>4, <2>1, <2>2, <2>3, <2>4 DEF Outcomes
<1>6. ASSUME ResolvePrice(h) PROVE BillInv'
  <2> DEFINE plan == ResolvedPlan(Event(h))
             outcome == IF web[h].read = plan THEN "skipped" ELSE "applied"
  <2>1. web[h].pc = "resolve" /\ Decide(h, "commit", "free", plan, outcome)
        /\ UNCHANGED <<server, check, admin, stripe, opened, faults, marks>>
    BY <1>6 DEF ResolvePrice
  <2>2. web[h].e \in DOMAIN events /\ Event(h) = events[web[h].e] /\ Event(h).sub \in DOMAIN subs
    BY <1>0, <2>1 DEF Event, BillInv, TypeOK
  <2>3. subs[Event(h).sub].plan \in AnyPlan /\ Event(h).plan \in AnyPlan
    <3>1. subs[Event(h).sub] \in Subscriptions
      BY <1>0, <2>2
    <3>2. Event(h) \in StripeEvents
      BY <1>0, <2>2
    <3> QED
      BY <3>1, <3>2 DEF StripeEvents, Subscriptions
  <2>4. plan \in AnyPlan /\ "free" \in AnyPlan
    BY <2>3 DEF ResolvedPlan, AnyPlan
  <2>5. outcome \in Outcomes /\ outcome # "none"
    BY DEF Outcomes
  <2> HIDE DEF plan, outcome
  <2> QED
    BY <1>0, <1>4, <2>1, <2>4, <2>5 DEF marks
<1>7. HandlerAgrees(IdleWeb, receipt, acked') /\ IdleWeb.pc \notin Inserting
  BY DEF HandlerAgrees, Inserting
<1>8. ASSUME ResolveFails(h) PROVE BillInv'
  <2>1. faults' \in Nat /\ web[h].pc # "late" /\ acked' = acked
        /\ web' = [web EXCEPT ![h] = IdleWeb] /\ UNCHANGED <<server, check, admin, stripe, opened, marks>>
    BY <1>0, <1>8 DEF ResolveFails, Fault, stripe
  <2> QED
    BY <1>0, <1>1, <1>7, <2>1 DEF marks
<1>9. ASSUME WebhookDies(h) PROVE BillInv'
  <2>1. faults' \in Nat /\ web' = [web EXCEPT ![h] = IdleWeb]
        /\ UNCHANGED <<server, check, admin, stripe, opened, overtaken>>
    BY <1>0, <1>9 DEF WebhookDies, Fault
  <2>2. dropped' = IF web[h].pc = "late" THEN dropped \cup {web[h].e} ELSE dropped
    BY <1>9 DEF WebhookDies
  <2>3. web[h].pc = "late" => web[h].e \in acked
    BY <1>0 DEF HandlerAgrees
  <2>4. acked' = acked
    BY <2>1 DEF stripe
  <2> QED
    BY <1>0, <1>7, <2>1, <2>2, <2>3, <2>4, HandlerStep DEF stripe
<1>10. ASSUME Reply(h) PROVE BillInv'
  <2> DEFINE w == IF web[h].pc = "commit" THEN [web[h] EXCEPT !.pc = "late"] ELSE IdleWeb
  <2>1. /\ web' = [web EXCEPT ![h] = w] /\ web[h].pc \in {"commit", "reply"}
        /\ acked' = acked \cup {web[h].e}
        /\ UNCHANGED <<server, check, admin, customers, sessions, subs, events, opened, faults, marks>>
    BY <1>10 DEF Reply, GotoWeb, Answers200
  <2>2. /\ w \in Webs
        /\ web[h].pc = "commit" => w.pc = "late" /\ w.e = web[h].e /\ w.outcome = web[h].outcome
        /\ web[h].pc = "reply" => w = IdleWeb
    BY <1>0, <2>1 DEF Webs
  <2> HIDE DEF w
  <2>3. HandlerAgrees(w, receipt, acked')
    BY <1>0, <1>7, <2>1, <2>2 DEF HandlerAgrees, Inserting
  <2>4. web[h].pc = "reply" => receipt[web[h].e] # "none"
    BY <1>0 DEF HandlerAgrees
  <2>5. \A e \in acked' : e \in acked \/ receipt[e] # "none" \/ (w.pc = "late" /\ w.e = e)
    BY <2>1, <2>2, <2>4
  <2>6. w.pc \in Inserting => w.e = web[h].e /\ web[h].pc \in Inserting
    BY <1>7, <2>1, <2>2 DEF Inserting
  <2> QED
    BY <1>0, <2>1, <2>2, <2>3, <2>5, <2>6, HandlerStep DEF marks
<1>11. ASSUME CommitWebhook(h) PROVE BillInv'
  <2> DEFINE e == web[h].e
             w == IF web[h].pc = "commit"
                  THEN [pc |-> "reply", e |-> web[h].e, read |-> "free", plan |-> "free", outcome |-> web[h].outcome]
                  ELSE IdleWeb
  <2>1. web[h].pc \in {"commit", "late"} /\ web' = [web EXCEPT ![h] = w]
        /\ receipt' = [receipt EXCEPT ![e] = web[h].outcome] /\ effects' = [effects EXCEPT ![e] = effects[e] + 1]
    BY <1>11 DEF CommitWebhook, Decide
  <2>2. w \in Webs /\ w.pc \in {"reply", "idle"} /\ (w.pc = "reply" => w.e = e)
    BY <1>0 DEF Webs, AnyPlan
  <2>3. e \in DOMAIN events /\ e \in Events /\ receipt[e] = "none" /\ web[h].outcome # "none" /\ web[h].outcome \in Outcomes
    BY <1>0, <2>1, EventsAreEvents DEF HandlerAgrees, Inserting, BillInv, Webs
  <2>4. tenant' \in Rows
    <3>1. web[h].plan \in AnyPlan
      BY <1>0 DEF Webs
    <3>2. tenant' = tenant \/ tenant' = [tenant EXCEPT !.plan = web[h].plan]
      BY <1>11 DEF CommitWebhook
    <3> QED
      BY <1>0, <3>1, <3>2 DEF Rows
  <2>5. receipt' \in [Events -> Outcomes] /\ effects' \in [Events -> Nat]
    BY <2>1, <2>3 DEF BillInv, TypeOK, ServerType
  <2>6. receipt'[e] = web[h].outcome /\ effects'[e] = 1
        /\ \A d \in Events : d # e => receipt'[d] = receipt[d] /\ effects'[d] = effects[d]
    BY <2>1, <2>3 DEF BillInv, TypeOK, ServerType, EffectsAreReceipts
  <2>7. web' \in [Handlers -> Webs] /\ \A g \in Handlers : web'[g] = IF g = h THEN w ELSE web[g]
    BY <1>0, <2>1, <2>2
  <2>8. UNCHANGED <<check, admin, customers, sessions, subs, events, acked, opened, faults, dropped, overtaken>>
    BY <1>11 DEF CommitWebhook, stripe, marks
  <2> HIDE DEF w, e
  <2>9. TypeOK'
    BY <2>2, <2>3, <2>4, <2>5, <2>7, <2>8 DEF BillInv, TypeOK, ServerType, RequestType, StripeType
  <2>10. \A g \in Handlers : g # h /\ web[g].pc \in Inserting => web[g].e # e
    BY <2>1 DEF BillInv, OneInserter, Inserting, e
  <2>11. \A g \in Handlers : web[g].pc # "idle" => web[g].e \in Events
    BY EventsAreEvents DEF BillInv, TypeOK
  <2>12. HandlersAgree'
    <3> SUFFICES ASSUME NEW g \in Handlers PROVE HandlerAgrees(web'[g], receipt', acked')
      BY DEF HandlersAgree
    <3>1. CASE g = h
      BY <3>1, <2>2, <2>3, <2>6, <2>7 DEF HandlerAgrees, Inserting
    <3>2. CASE g # h
      <4>1. HandlerAgrees(web[g], receipt, acked) /\ web'[g] = web[g]
        BY <3>2, <2>7 DEF BillInv, HandlersAgree
      <4> QED
        BY <3>2, <4>1, <2>3, <2>6, <2>8, <2>10, <2>11 DEF HandlerAgrees, Inserting
    <3> QED
      BY <3>1, <3>2
  <2>13. OneInserter'
    BY <2>2, <2>7 DEF BillInv, OneInserter, Inserting
  <2>14. EffectsAreReceipts'
    BY <2>3, <2>6 DEF BillInv, EffectsAreReceipts
  <2>15. AnswersKept'
    <3> SUFFICES ASSUME NEW d \in acked PROVE receipt'[d] # "none" \/ Committing(d)' \/ d \in dropped'
      BY <2>8 DEF AnswersKept
    <3>1. d \in Events
      BY <1>0, EventsAreEvents DEF BillInv
    <3>2. CASE d = e
      BY <3>2, <2>3, <2>6
    <3>3. CASE d # e
      <4>1. receipt[d] # "none" \/ Committing(d) \/ d \in dropped
        BY DEF BillInv, AnswersKept
      <4>2. Committing(d) => Committing(d)'
        BY <3>3, <2>7 DEF Committing, e
      <4> QED
        BY <4>1, <4>2, <3>1, <3>3, <2>6, <2>8
    <3> QED
      BY <3>2, <3>3
  <2> QED
    BY <2>9, <2>12, <2>13, <2>14, <2>15 DEF BillInv
<1> QED
  BY <1>2, <1>3, <1>5, <1>6, <1>8, <1>9, <1>10, <1>11 DEF WebhookStep

\* A checkout touches no webhook: it keeps the types.
LEMMA CheckoutKeeps ==
    ASSUME BillInv, NEW c \in Checkouts, CheckoutStep(c) PROVE BillInv'
<1>0. /\ check \in [Checkouts -> Checks] /\ check[c] \in Checks /\ tenant \in Rows
      /\ faults \in Nat /\ opened \in Nat /\ customers \in Nat /\ tenant.customer \in Nat
      /\ sessions \subseteq Sessions
  BY DEF BillInv, TypeOK, RequestType, ServerType, StripeType, Rows
<1>1. ASSUME NEW q \in Checks, check' = [check EXCEPT ![c] = q], tenant' \in Rows,
             faults' \in Nat, opened' \in Nat, customers' \in Nat,
             sessions' \subseteq Sessions,
             UNCHANGED <<receipt, effects, web, admin, subs, events, acked, marks>>
      PROVE BillInv'
  <2>1. TypeOK'
    BY <1>0, <1>1 DEF BillInv, TypeOK, ServerType, RequestType, StripeType, marks
  <2> QED
    BY <1>1, <2>1, OtherStep DEF marks
<1>2. \A pc \in {"idle", "create", "flush", "flushed", "bound", "created", "late", "return"}, n \in Nat :
        /\ [check[c] EXCEPT !.pc = pc] \in Checks
        /\ [pc |-> pc, plan |-> check[c].plan, customer |-> n] \in Checks
  BY <1>0 DEF Checks
<1>3. ASSUME NEW p \in Plans, ReadForCheckout(c, p) PROVE BillInv'
  <2> DEFINE q == [pc |-> IF tenant.customer = 0 THEN "create" ELSE "bound", plan |-> p, customer |-> tenant.customer]
  <2>1. q \in Checks
    BY <1>0 DEF Checks, AnyPlan
  <2>2. check' = [check EXCEPT ![c] = q]
    BY <1>3 DEF ReadForCheckout
  <2>3. opened' \in Nat /\ UNCHANGED <<tenant, receipt, effects, web, admin, customers, sessions, subs, events, acked, faults, marks>>
    BY <1>0, <1>3 DEF ReadForCheckout, server, stripe
  <2> HIDE DEF q
  <2> QED
    BY <1>0, <1>1, <2>1, <2>2, <2>3
<1>4. ASSUME CreateCustomer(c) PROVE BillInv'
  <2> DEFINE q == [pc |-> "flush", plan |-> check[c].plan, customer |-> customers + 1]
  <2>1. q \in Checks /\ customers + 1 \in Nat
    BY <1>0, <1>2
  <2>2. check' = [check EXCEPT ![c] = q] /\ customers' = customers + 1
    BY <1>4 DEF CreateCustomer
  <2>3. UNCHANGED <<tenant, receipt, effects, web, admin, sessions, subs, events, acked, opened, faults, marks>>
    BY <1>4 DEF CreateCustomer, server
  <2> HIDE DEF q
  <2> QED
    BY <1>0, <1>1, <2>1, <2>2, <2>3
<1>5. ASSUME FlushCustomer(c) \/ CreateSession(c) PROVE BillInv'
  BY <1>0, <1>1, <1>2, <1>5 DEF FlushCustomer, CreateSession, server, stripe
<1>6. ASSUME CommitCheckout(c) PROVE BillInv'
  <2>1. check[c].customer \in Nat
    BY <1>0 DEF Checks
  <2>2. tenant' \in Rows
    BY <1>0, <1>6, <2>1 DEF CommitCheckout, Rows
  <2>3. PICK q \in Checks : check' = [check EXCEPT ![c] = q]
    BY <1>2, <1>6, IdleTypes DEF CommitCheckout
  <2> QED
    BY <1>0, <1>1, <1>6, <2>2, <2>3 DEF CommitCheckout, stripe
<1>7. ASSUME ReturnUrl(c) PROVE BillInv'
  <2>1. [customer |-> check[c].customer, plan |-> check[c].plan] \in Sessions
    <3>1. check[c].customer \in Nat /\ check[c].plan \in AnyPlan
      BY <1>0, <1>7 DEF Checks, ReturnUrl
    <3> QED
      BY <3>1 DEF Sessions
  <2>2. PICK q \in Checks : check' = [check EXCEPT ![c] = q]
    BY <1>2, <1>7, IdleTypes DEF ReturnUrl
  <2> QED
    BY <1>0, <1>1, <1>7, <2>1, <2>2 DEF ReturnUrl, server
<1>8. ASSUME CheckoutFails(c) PROVE BillInv'
  <2>1. faults' \in Nat /\ check' = [check EXCEPT ![c] = IdleCheck]
        /\ UNCHANGED <<tenant, receipt, effects, web, admin, customers, sessions, subs, events, acked, opened, marks>>
    BY <1>0, <1>8 DEF CheckoutFails, Fault, server, stripe
  <2> QED
    BY <1>0, <1>1, <2>1, IdleTypes
<1> QED
  BY <1>3, <1>4, <1>5, <1>6, <1>7, <1>8 DEF CheckoutStep

\* Nor does an admin.
LEMMA AdminKeeps ==
    ASSUME BillInv, NEW a \in Admins, AdminStep(a) PROVE BillInv'
<1>0. admin \in [Admins -> Calls] /\ admin[a] \in Calls /\ tenant \in Rows
  BY DEF BillInv, TypeOK, RequestType, ServerType
<1>1. ASSUME NEW q \in Calls, admin' = [admin EXCEPT ![a] = q], tenant' \in Rows,
             UNCHANGED <<receipt, effects, web, check, stripe, opened, faults, marks>>
      PROVE BillInv'
  <2>1. TypeOK'
    BY <1>0, <1>1 DEF BillInv, TypeOK, ServerType, RequestType, StripeType, stripe, marks
  <2> QED
    BY <1>1, <2>1, OtherStep DEF stripe, marks
<1>2. ASSUME NEW op \in AdminOps, NEW p \in AnyPlan, AdminRead(a, op, p) PROVE BillInv'
  <2>1. [pc |-> "commit", op |-> op, plan |-> p,
         read |-> IF op = "plan" THEN tenant.plan ELSE tenant.status] \in Calls
    BY <1>0 DEF Calls, AnyPlan, Rows
  <2> QED
    BY <1>0, <1>1, <1>2, <2>1 DEF AdminRead, server
<1>3. ASSUME AdminCommit(a) PROVE BillInv'
  <2>1. admin[a].plan \in AnyPlan
    BY <1>0 DEF Calls
  <2>2. \A s \in Statuses, p \in AnyPlan :
          /\ [tenant EXCEPT !.status = s] \in Rows
          /\ [tenant EXCEPT !.status = s, !.deleted = TRUE] \in Rows
          /\ [tenant EXCEPT !.plan = p] \in Rows
    BY <1>0 DEF Rows
  <2>3. tenant.status \in Statuses /\ tenant.plan \in AnyPlan
    BY <1>0 DEF Rows
  <2>4. Written(a) \in Rows
    BY <2>1, <2>2, <2>3 DEF Written, Statuses
  <2> QED
    BY <1>0, <1>1, <1>3, <2>4, IdleTypes DEF AdminCommit
<1> QED
  BY <1>2, <1>3 DEF AdminStep, AnyPlan

-----------------------------------------------------------------------------
\* BillInv is an invariant of every behaviour.
THEOREM BillingInvariant == Spec => []BillInv
<1>1. Init => BillInv
  <2> SUFFICES ASSUME Init PROVE BillInv
    OBVIOUS
  <2>1. ServerType /\ RequestType
    BY IdleTypes DEF Init, ServerType, RequestType, Outcomes
  <2>2. StripeType /\ events = <<>> /\ subs = <<>>
    BY BillingAssumption DEF Init, StripeType
  <2>3. \A h \in Handlers : web[h].pc = "idle"
    BY IdleTypes DEF Init
  <2>4. TypeOK
    BY <2>1, <2>2, <2>3 DEF TypeOK
  <2>5. HandlersAgree /\ OneInserter
    BY <2>3 DEF HandlersAgree, HandlerAgrees, OneInserter, Inserting
  <2>6. EffectsAreReceipts /\ AnswersKept
    BY DEF Init, EffectsAreReceipts, AnswersKept
  <2> QED
    BY <2>4, <2>5, <2>6 DEF BillInv
<1>2. BillInv /\ [Next]_vars => BillInv'
  <2> SUFFICES ASSUME BillInv, [Next]_vars PROVE BillInv'
    OBVIOUS
  <2>1. CASE UNCHANGED vars
    <3>1. TypeOK'
      BY <2>1 DEF vars, BillInv, TypeOK, ServerType, RequestType, StripeType
    <3> QED
      BY <2>1, <3>1, OtherStep DEF vars
  <2>2. CASE Next
    BY <2>2, StripeKeeps, WebhookKeeps, CheckoutKeeps, AdminKeeps DEF Next
  <2> QED
    BY <2>1, <2>2
<1> QED
  BY <1>1, <1>2, PTL DEF Spec

\* Type correctness: the row, the receipts, the requests and the events at Stripe.
THEOREM BillingTypeCorrect == Spec => []TypeOK
  BY BillingInvariant, PTL DEF BillInv

\* try_record_event: an event of Stripe is processed at most once, whatever the
\* number of deliveries and of handlers that run at the same time.
THEOREM EventsAppliedOnce == Spec => []AppliedOnce
<1>1. BillInv => AppliedOnce
  BY DEF BillInv, EffectsAreReceipts, AppliedOnce
<1> QED
  BY <1>1, BillingInvariant, PTL

\* handle_webhook and session_scope: an event that is answered with 200 has been
\* processed once, with a committed outcome, or the transaction that answered it is
\* still to commit, or died before it did; no other answered event is unprocessed.
THEOREM AnsweredAlwaysAccounted == Spec => []AnsweredIsAccounted
<1>1. BillInv => AnsweredIsAccounted
  <2> SUFFICES ASSUME BillInv, NEW e \in acked
               PROVE  \/ Recorded(e) /\ effects[e] = 1
                      \/ ~Recorded(e) /\ effects[e] = 0 /\ (Committing(e) \/ e \in dropped)
    BY DEF AnsweredIsAccounted
  <2>1. e \in Events
    BY EventsAreEvents DEF BillInv, TypeOK, StripeType
  <2> QED
    BY <2>1 DEF BillInv, AnswersKept, EffectsAreReceipts, Recorded
<1> QED
  BY <1>1, BillingInvariant, PTL

-----------------------------------------------------------------------------
\* The last event about the plan, when no older one was unrecorded as it read the row.
Clean(e, over) == LastOfPlan(e) /\ e \notin over

\* What Stripe has told: the subscription of the last event about the plan is the
\* newest, it alone may be live, and the event says whether it is, and on which plan.
EventsTell ==
    /\ \A i \in DOMAIN subs : subs[i].live => i = Len(subs)
    /\ subs # <<>> => \E e \in DOMAIN events : LastOfPlan(e)
    /\ \A e \in DOMAIN events : LastOfPlan(e) =>
         /\ events[e].sub = Len(subs)
         /\ subs[Len(subs)].live <=> events[e].type # "deleted"
         /\ events[e].type = "updated" => subs[Len(subs)].plan = events[e].plan
         /\ events[e].type = "deleted" => events[e].plan = "free"

\* Only events of Stripe have a receipt.
RecordedKnown == \A e \in Events : Recorded(e) => e \in DOMAIN events

\* What a handler has decided on the last event about the plan is still so, as long as
\* the event is not overtaken: every older one is recorded, so nobody writes the plan.
Decided == {"resolve", "commit", "late"}
DecisionHolds(w, over) ==
    /\ w.pc = "resolve" => events[w.e].type \in {"completed", "updated"}
    /\ w.pc \in {"commit", "late"} /\ ~OfPlan(w.e) => w.outcome = "ignored" \/ events[w.e].type = "paid"
    /\ w.pc \in Decided /\ Clean(w.e, over) =>
         /\ ~Behind(w.e)
         /\ w.pc = "resolve" => w.read = tenant.plan
         /\ w.pc \in {"commit", "late"} /\ w.outcome \notin {"refused", "mismatch"} =>
              /\ w.plan = Entitled
              /\ w.outcome \in {"applied", "skipped"}
              /\ w.outcome = "skipped" => tenant.plan = w.plan
DecisionsHold == \A h \in Handlers : DecisionHolds(web[h], overtaken)

\* An admin request that was read is one of those in use.
AdminsKnown == \A a \in Admins : admin[a].pc = "commit" => admin[a].op \in AdminOps

\* The plan is the one of the last event about it, once that is recorded.
PlanIsTold ==
    /\ subs = <<>> => tenant.plan = "free"
    /\ \A e \in DOMAIN events : Clean(e, overtaken) /\ Recorded(e) =>
         /\ ~Behind(e)
         /\ receipt[e] \notin {"refused", "mismatch"} => tenant.plan = Entitled

\* The inductive invariant of the plan, beside BillInv.
PlanInv == EventsTell /\ RecordedKnown /\ DecisionsHold /\ AdminsKnown /\ PlanIsTold

-----------------------------------------------------------------------------
\* The types that the steps below need, gathered.
LEMMA BillTypes ==
    ASSUME BillInv
    PROVE  /\ tenant \in Rows /\ receipt \in [Events -> Outcomes]
           /\ web \in [Handlers -> Webs] /\ check \in [Checkouts -> Checks] /\ admin \in [Admins -> Calls]
           /\ subs \in Seq(Subscriptions) /\ events \in Seq(StripeEvents)
           /\ Len(subs) \in Nat /\ DOMAIN subs = 1 .. Len(subs)
           /\ Len(events) \in Nat /\ DOMAIN events = 1 .. Len(events)
           /\ DOMAIN events \subseteq Events /\ acked \subseteq DOMAIN events
           /\ overtaken \subseteq DOMAIN events
           /\ \A e \in DOMAIN events : events[e].sub \in DOMAIN subs
           /\ \A h \in Handlers : web[h].pc # "idle" => web[h].e \in DOMAIN events
<1>1. subs \in Seq(Subscriptions) /\ events \in Seq(StripeEvents)
  BY DEF BillInv, TypeOK, StripeType
<1>2. /\ Len(subs) \in Nat /\ DOMAIN subs = 1 .. Len(subs)
      /\ Len(events) \in Nat /\ DOMAIN events = 1 .. Len(events)
  BY <1>1
<1>3. DOMAIN events \subseteq Events
  BY EventsAreEvents DEF BillInv
<1>4. /\ acked \subseteq DOMAIN events /\ overtaken \subseteq DOMAIN events
      /\ \A e \in DOMAIN events : events[e].sub \in DOMAIN subs
      /\ \A h \in Handlers : web[h].pc # "idle" => web[h].e \in DOMAIN events
  BY DEF BillInv, TypeOK, StripeType
<1>5. /\ tenant \in Rows /\ receipt \in [Events -> Outcomes]
      /\ web \in [Handlers -> Webs] /\ check \in [Checkouts -> Checks] /\ admin \in [Admins -> Calls]
  BY DEF BillInv, TypeOK, ServerType, RequestType
<1> QED BY <1>1, <1>2, <1>3, <1>4, <1>5

\* What the tenant is entitled to, by the newest subscription.
LEMMA EntitledNow ==
    ASSUME BillInv, EventsTell
    PROVE  /\ subs = <<>> => Entitled = "free"
           /\ subs # <<>> /\ ~subs[Len(subs)].live => Entitled = "free"
           /\ subs # <<>> /\ subs[Len(subs)].live => Entitled = subs[Len(subs)].plan
<1>1. Len(subs) \in Nat /\ DOMAIN subs = 1 .. Len(subs) /\ subs \in Seq(Subscriptions)
  BY BillTypes
<1>2. \A i \in DOMAIN subs : subs[i].live => i = Len(subs)
  BY DEF EventsTell
<1>3. CASE subs = <<>>
  BY <1>3 DEF Entitled, NoneLive
<1>4. CASE subs # <<>> /\ ~subs[Len(subs)].live
  BY <1>2, <1>4 DEF Entitled, NoneLive
<1>5. CASE subs # <<>> /\ subs[Len(subs)].live
  <2>1. Len(subs) \in DOMAIN subs
    BY <1>1, <1>5
  <2>2. \E i \in DOMAIN subs : subs[i].live
    BY <1>5, <2>1
  <2> DEFINE i == CHOOSE i \in DOMAIN subs : subs[i].live
  <2>3. i \in DOMAIN subs /\ subs[i].live
    BY <2>2
  <2>4. i = Len(subs)
    BY <1>2, <2>3
  <2>5. Entitled = subs[i].plan
    BY <2>2 DEF Entitled, NoneLive
  <2> QED BY <1>5, <2>4, <2>5
<1> QED BY <1>3, <1>4, <1>5

\* The events after one more.
LEMMA OneMoreEvent ==
    ASSUME BillInv, NEW ev \in StripeEvents, events' = Append(events, ev), Len(events) < MaxEvents
    PROVE  /\ Len(events) + 1 \notin DOMAIN events /\ Len(events) + 1 \in Events
           /\ DOMAIN events' = DOMAIN events \cup {Len(events) + 1}
           /\ events'[Len(events) + 1] = ev
           /\ \A e \in DOMAIN events : events'[e] = events[e] /\ e < Len(events) + 1
<1>1. events \in Seq(StripeEvents)
  BY BillTypes
<1>2. Len(events) + 1 \in Events
  BY <1>1, BillingAssumption DEF Events
<1> QED BY <1>1, <1>2

\* A step that leaves the webhooks, their receipts and Stripe's events alone, and the
\* plan of the tenant, keeps what was told and decided.
LEMMA PlanAside ==
    ASSUME PlanInv, UNCHANGED <<web, receipt, subs, events, overtaken>>, tenant'.plan = tenant.plan
    PROVE  EventsTell' /\ RecordedKnown' /\ DecisionsHold' /\ PlanIsTold'
<1>1. \A e : (OfPlan(e)' <=> OfPlan(e)) /\ (LastOfPlan(e)' <=> LastOfPlan(e))
  BY DEF OfPlan, LastOfPlan
<1>2. Entitled' = Entitled
  BY DEF Entitled, NoneLive
<1>3. \A e : (Recorded(e)' <=> Recorded(e)) /\ (Behind(e)' <=> Behind(e))
             /\ (Clean(e, overtaken)' <=> Clean(e, overtaken))
  BY <1>1 DEF Recorded, Behind, Clean
<1>4. EventsTell'
  BY <1>1 DEF PlanInv, EventsTell
<1>5. RecordedKnown'
  BY <1>3 DEF PlanInv, RecordedKnown
<1>6. DecisionsHold'
  BY <1>1, <1>2, <1>3 DEF PlanInv, DecisionsHold, DecisionHolds
<1>7. PlanIsTold'
  BY <1>1, <1>2, <1>3 DEF PlanInv, PlanIsTold
<1> QED BY <1>4, <1>5, <1>6, <1>7

\* A new event about the plan is the last one, and nobody has seen it.
LEMMA PlanEvent ==
    ASSUME BillInv, PlanInv, NEW ev \in StripeEvents, events' = Append(events, ev), Len(events) < MaxEvents,
           ev.type \in {"completed", "updated", "deleted"},
           ev.sub = Len(subs'), subs' # <<>>,
           \A i \in DOMAIN subs' : subs'[i].live => i = Len(subs'),
           subs'[Len(subs')].live <=> ev.type # "deleted",
           ev.type = "updated" => subs'[Len(subs')].plan = ev.plan,
           ev.type = "deleted" => ev.plan = "free",
           UNCHANGED <<tenant, receipt, web, admin, overtaken>>
    PROVE  PlanInv'
<1>0. PICK n : n = Len(events) + 1
  OBVIOUS
<1>1. /\ n \notin DOMAIN events /\ n \in Events /\ n \in Nat
      /\ DOMAIN events' = DOMAIN events \cup {n}
      /\ events'[n] = ev
      /\ \A e \in DOMAIN events : events'[e] = events[e] /\ e < n /\ e \in Nat
  BY <1>0, OneMoreEvent, BillTypes
<1>2. OfPlan(n)' /\ n \in DOMAIN events'
  BY <1>1 DEF OfPlan
<1>3. \A e \in DOMAIN events' : LastOfPlan(e)' => e = n
  BY <1>1, <1>2 DEF LastOfPlan
<1>4. EventsTell'
  <2>1. LastOfPlan(n)'
    BY <1>1, <1>2 DEF LastOfPlan
  <2> QED BY <1>1, <1>2, <1>3, <2>1 DEF EventsTell
<1>5. RecordedKnown' /\ AdminsKnown'
  BY <1>1 DEF PlanInv, RecordedKnown, Recorded, AdminsKnown
<1>6. DecisionsHold'
  <2> SUFFICES ASSUME NEW h \in Handlers PROVE DecisionHolds(web[h], overtaken)'
    BY DEF DecisionsHold
  <2>1. DecisionHolds(web[h], overtaken) /\ (web[h].pc # "idle" => web[h].e \in DOMAIN events)
    BY BillTypes DEF PlanInv, DecisionsHold
  <2>2. web[h].pc # "idle" =>
          /\ ~LastOfPlan(web[h].e)' /\ events'[web[h].e] = events[web[h].e]
          /\ OfPlan(web[h].e)' <=> OfPlan(web[h].e)
    BY <1>1, <1>3, <2>1 DEF LastOfPlan, OfPlan
  <2> QED BY <2>1, <2>2 DEF DecisionHolds, Decided, Clean
<1>7. ~Recorded(n)
  BY <1>1 DEF PlanInv, RecordedKnown
<1>8. PlanIsTold'
  BY <1>3, <1>7 DEF PlanIsTold, Recorded, Clean
<1> QED BY <1>4, <1>5, <1>6, <1>8 DEF PlanInv

\* An invoice says nothing about the plan.
LEMMA InvoiceEvent ==
    ASSUME BillInv, PlanInv, NEW ev \in StripeEvents, events' = Append(events, ev), Len(events) < MaxEvents,
           ev.type \in {"paid", "payment_failed"},
           UNCHANGED <<tenant, receipt, web, admin, subs, overtaken>>
    PROVE  PlanInv'
<1>0. PICK n : n = Len(events) + 1
  OBVIOUS
<1>1. /\ n \notin DOMAIN events
      /\ DOMAIN events' = DOMAIN events \cup {n}
      /\ events'[n] = ev
      /\ \A e \in DOMAIN events : events'[e] = events[e] /\ e \in Nat
  BY <1>0, OneMoreEvent, BillTypes
<1>2. ~OfPlan(n)' /\ \A e \in DOMAIN events : OfPlan(e)' <=> OfPlan(e)
  BY <1>1 DEF OfPlan
<1>3. \A e \in DOMAIN events : (LastOfPlan(e)' <=> LastOfPlan(e)) /\ (Recorded(e)' <=> Recorded(e))
  BY <1>1, <1>2 DEF LastOfPlan, Recorded
<1>4. ~LastOfPlan(n)'
  BY <1>2 DEF LastOfPlan
<1>5. Entitled' = Entitled
  BY DEF Entitled, NoneLive
<1>6. \A e \in DOMAIN events : (Behind(e)' <=> Behind(e)) /\ (Clean(e, overtaken)' <=> Clean(e, overtaken))
  <2>1. \A e \in DOMAIN events : 1 .. (e - 1) \subseteq DOMAIN events
    BY BillTypes
  <2> QED BY <1>2, <1>3, <2>1 DEF Behind, Clean
<1>7. EventsTell'
  BY <1>1, <1>2, <1>3, <1>4 DEF PlanInv, EventsTell
<1>8. RecordedKnown' /\ AdminsKnown'
  BY <1>1 DEF PlanInv, RecordedKnown, Recorded, AdminsKnown
<1>9. DecisionsHold'
  <2> SUFFICES ASSUME NEW h \in Handlers PROVE DecisionHolds(web[h], overtaken)'
    BY DEF DecisionsHold
  <2>1. DecisionHolds(web[h], overtaken) /\ (web[h].pc # "idle" => web[h].e \in DOMAIN events)
    BY BillTypes DEF PlanInv, DecisionsHold
  <2>2. web[h].pc # "idle" =>
          /\ Clean(web[h].e, overtaken)' <=> Clean(web[h].e, overtaken)
          /\ Behind(web[h].e)' <=> Behind(web[h].e)
          /\ events'[web[h].e] = events[web[h].e]
          /\ OfPlan(web[h].e)' <=> OfPlan(web[h].e)
    BY <1>1, <1>2, <1>6, <2>1
  <2> QED BY <2>1, <2>2, <1>5 DEF DecisionHolds, Decided
<1>10. PlanIsTold'
  BY <1>1, <1>3, <1>4, <1>5, <1>6 DEF PlanInv, PlanIsTold, Clean
<1> QED BY <1>7, <1>8, <1>9, <1>10 DEF PlanInv

\* Whatever happens at Stripe is told by the last event.
LEMMA PlanStripe ==
    ASSUME BillInv, PlanInv, StripeStep PROVE PlanInv'
<1>0. /\ subs \in Seq(Subscriptions) /\ Len(subs) \in Nat /\ DOMAIN subs = 1 .. Len(subs)
      /\ \A i \in DOMAIN subs : subs[i].live => i = Len(subs)
      /\ sessions \subseteq Sessions
  BY BillTypes DEF PlanInv, EventsTell, BillInv, TypeOK, StripeType
<1>1. ASSUME NEW s \in sessions, Pay(s) PROVE PlanInv'
  <2> DEFINE sub == [plan |-> s.plan, customer |-> s.customer, live |-> TRUE]
             ev == [type |-> "completed", sub |-> Len(subs) + 1, plan |-> "free"]
  <2>1. /\ subs' = Append(subs, sub) /\ events' = Append(events, ev) /\ Len(events) < MaxEvents
        /\ NoneLive /\ UNCHANGED <<tenant, receipt, web, admin, overtaken>>
    BY <1>1 DEF Pay, Emit, server, marks
  <2>2. /\ sub \in Subscriptions /\ sub.live = TRUE
        /\ ev \in StripeEvents /\ ev.type = "completed" /\ ev.sub = Len(subs) + 1
    BY <1>0 DEF Sessions, Subscriptions, StripeEvents, EventTypes, AnyPlan
  <2> HIDE DEF sub, ev
  <2>3. /\ Len(subs') = Len(subs) + 1 /\ DOMAIN subs' = DOMAIN subs \cup {Len(subs')}
        /\ subs'[Len(subs')] = sub /\ \A i \in DOMAIN subs : subs'[i] = subs[i]
    BY <1>0, <2>1, <2>2
  <2>4. \A i \in DOMAIN subs' : subs'[i].live => i = Len(subs')
    BY <2>1, <2>3 DEF NoneLive
  <2> QED BY <2>1, <2>2, <2>3, <2>4, PlanEvent
<1>2. ASSUME NEW i \in DOMAIN subs, NEW x \in Subscriptions, NEW ev \in StripeEvents,
             subs[i].live, subs' = [subs EXCEPT ![i] = x],
             events' = Append(events, ev), Len(events) < MaxEvents, ev.sub = i,
             \/ ev.type = "updated" /\ x.live /\ x.plan = ev.plan
             \/ ev.type = "deleted" /\ ~x.live /\ ev.plan = "free",
             UNCHANGED <<tenant, receipt, web, admin, overtaken>>
      PROVE PlanInv'
  <2>1. /\ i = Len(subs) /\ DOMAIN subs' = DOMAIN subs /\ Len(subs') = Len(subs)
        /\ subs'[i] = x /\ \A j \in DOMAIN subs : j # i => subs'[j] = subs[j]
    BY <1>0, <1>2
  <2>2. \A j \in DOMAIN subs' : subs'[j].live => j = Len(subs')
    BY <1>0, <2>1
  <2> QED BY <1>2, <2>1, <2>2, PlanEvent
<1>3. ASSUME NEW i \in DOMAIN subs, NEW p \in Plans, ChangePlan(i, p) PROVE PlanInv'
  <2> DEFINE x == [subs[i] EXCEPT !.plan = p]
             ev == [type |-> "updated", sub |-> i, plan |-> p]
  <2>0. subs[i] \in Subscriptions /\ i \in Nat
    BY <1>0
  <2>1. /\ x \in Subscriptions /\ x.live = subs[i].live /\ x.plan = p
        /\ ev \in StripeEvents /\ ev.type = "updated" /\ ev.sub = i /\ ev.plan = p
    BY <2>0 DEF Subscriptions, AnyPlan, StripeEvents, EventTypes
  <2>2. /\ subs[i].live /\ subs' = [subs EXCEPT ![i] = x]
        /\ events' = Append(events, ev) /\ Len(events) < MaxEvents
        /\ UNCHANGED <<tenant, receipt, web, admin, overtaken>>
    BY <1>3 DEF ChangePlan, Emit, server, marks
  <2> HIDE DEF x, ev
  <2> QED BY <1>2, <2>1, <2>2
<1>4. ASSUME NEW i \in DOMAIN subs, EndSubscription(i) PROVE PlanInv'
  <2> DEFINE x == [subs[i] EXCEPT !.live = FALSE]
             ev == [type |-> "deleted", sub |-> i, plan |-> "free"]
  <2>0. subs[i] \in Subscriptions /\ i \in Nat
    BY <1>0
  <2>1. /\ x \in Subscriptions /\ x.live = FALSE
        /\ ev \in StripeEvents /\ ev.type = "deleted" /\ ev.sub = i /\ ev.plan = "free"
    BY <2>0 DEF Subscriptions, AnyPlan, StripeEvents, EventTypes
  <2>2. /\ subs[i].live /\ subs' = [subs EXCEPT ![i] = x]
        /\ events' = Append(events, ev) /\ Len(events) < MaxEvents
        /\ UNCHANGED <<tenant, receipt, web, admin, overtaken>>
    BY <1>4 DEF EndSubscription, Emit, server, marks
  <2> HIDE DEF x, ev
  <2> QED BY <1>2, <2>1, <2>2
<1>5. ASSUME NEW i \in DOMAIN subs, NEW type \in {"paid", "payment_failed"}, Invoice(i, type) PROVE PlanInv'
  <2> DEFINE ev == [type |-> type, sub |-> i, plan |-> "free"]
  <2>1. ev \in StripeEvents /\ ev.type = type
    BY <1>0 DEF AnyPlan, StripeEvents, EventTypes
  <2>2. /\ events' = Append(events, ev) /\ Len(events) < MaxEvents
        /\ UNCHANGED <<tenant, receipt, web, admin, subs, overtaken>>
    BY <1>5 DEF Invoice, Emit, server, marks
  <2> HIDE DEF ev
  <2> QED BY <2>1, <2>2, InvoiceEvent
<1> QED BY <1>1, <1>3, <1>4, <1>5 DEF StripeStep

-----------------------------------------------------------------------------
\* A webhook that moves to w and writes nothing, when w decides on what still holds;
\* only the event it is working on may be found overtaken, or not.
LEMMA PlanHandler ==
    ASSUME BillInv, PlanInv, NEW h \in Handlers, NEW w,
           web' = [web EXCEPT ![h] = w], DecisionHolds(w, overtaken'),
           \/ overtaken' = overtaken
           \/ web[h].pc \in Inserting /\ \A l : l # web[h].e => (l \in overtaken' <=> l \in overtaken),
           UNCHANGED <<server, admin, subs, events>>
    PROVE  PlanInv'
<1>1. \A g \in Handlers : web'[g] = IF g = h THEN w ELSE web[g]
  BY BillTypes
<1>2. UNCHANGED <<tenant, receipt>>
  BY DEF server
<1>3. \A e : (OfPlan(e)' <=> OfPlan(e)) /\ (LastOfPlan(e)' <=> LastOfPlan(e)) /\ (Recorded(e)' <=> Recorded(e))
  BY <1>2 DEF OfPlan, LastOfPlan, Recorded
<1>4. Entitled' = Entitled
  BY DEF Entitled, NoneLive
<1>5. \A e : Behind(e)' <=> Behind(e)
  BY <1>3 DEF Behind
<1>6. EventsTell' /\ RecordedKnown' /\ AdminsKnown'
  BY <1>2, <1>3 DEF PlanInv, EventsTell, RecordedKnown, AdminsKnown
<1>7. \A g \in Handlers : DecisionHolds(web'[g], overtaken')
  <2> SUFFICES ASSUME NEW g \in Handlers, g # h PROVE DecisionHolds(web[g], overtaken')
    BY <1>1
  <2>1. DecisionHolds(web[g], overtaken)
    BY DEF PlanInv, DecisionsHold
  <2>2. web[g].pc \in Decided => Clean(web[g].e, overtaken') = Clean(web[g].e, overtaken)
    BY DEF BillInv, OneInserter, Inserting, Decided, Clean
  <2> QED BY <2>1, <2>2 DEF DecisionHolds
<1>8. DecisionsHold'
  <2> SUFFICES ASSUME NEW g \in Handlers PROVE DecisionHolds(web[g], overtaken)'
    BY DEF DecisionsHold
  <2>1. DecisionHolds(web'[g], overtaken')
    BY <1>7
  <2> QED BY <1>2, <1>3, <1>4, <1>5, <2>1 DEF DecisionHolds, Clean
<1>9. PlanIsTold'
  <2>1. web[h].pc \in Inserting => ~Recorded(web[h].e)
    BY DEF BillInv, HandlersAgree, HandlerAgrees, Recorded
  <2>2. \A e : Recorded(e) => (Clean(e, overtaken)' <=> Clean(e, overtaken))
    BY <1>3, <2>1 DEF Clean
  <2> QED BY <1>2, <1>3, <1>4, <1>5, <2>2 DEF PlanInv, PlanIsTold
<1> QED BY <1>6, <1>8, <1>9 DEF PlanInv

\* What the last event about the plan says is what the tenant is entitled to.
LEMMA LastTells ==
    ASSUME BillInv, PlanInv, NEW e, LastOfPlan(e)
    PROVE  /\ events[e].type = "deleted" => Entitled = "free"
           /\ events[e].type # "deleted" => ResolvedPlan(events[e]) = Entitled
<1>1. /\ e \in DOMAIN events /\ events[e].sub \in DOMAIN subs /\ events[e].sub = Len(subs)
      /\ events[e].type \in {"completed", "updated", "deleted"}
      /\ subs[Len(subs)].live <=> events[e].type # "deleted"
      /\ events[e].type = "updated" => subs[Len(subs)].plan = events[e].plan
  BY BillTypes DEF LastOfPlan, OfPlan, PlanInv, EventsTell
<1>2. subs # <<>>
  BY <1>1, BillTypes
<1> QED BY <1>1, <1>2, EntitledNow DEF PlanInv, ResolvedPlan

\* The commit of a webhook, before its answer or after it: if its event is the last
\* about the plan, the plan is now the one it decided; if not, either the last event is
\* overtaken or unrecorded, or the plan has not changed.
LEMMA PlanCommit ==
    ASSUME BillInv, PlanInv, NEW h \in Handlers, CommitWebhook(h) PROVE PlanInv'
<1> DEFINE w == web[h]
<1>0. PICK e : e = web[h].e
  OBVIOUS
<1>1. /\ w.pc \in {"commit", "late"} /\ e \in DOMAIN events /\ e \in Events /\ e \in Nat /\ receipt[e] = "none"
      /\ w.outcome # "none"
  BY <1>0, BillTypes DEF CommitWebhook, BillInv, HandlersAgree, HandlerAgrees, Inserting
<1>2. /\ tenant' = IF w.outcome = "applied" /\ events[e].type # "paid" THEN [tenant EXCEPT !.plan = w.plan] ELSE tenant
      /\ receipt' = [receipt EXCEPT ![e] = w.outcome]
      /\ UNCHANGED <<admin, subs, events, overtaken>>
  BY <1>0 DEF CommitWebhook, SyncsPlan, Event, stripe, marks
<1>3. /\ DecisionHolds(w, overtaken)
      /\ \A l \in Events : receipt'[l] = IF l = e THEN w.outcome ELSE receipt[l]
      /\ tenant'.plan = IF w.outcome = "applied" /\ events[e].type # "paid" THEN w.plan ELSE tenant.plan
  <2>1. DecisionHolds(w, overtaken)
    BY DEF PlanInv, DecisionsHold
  <2>2. tenant \in Rows /\ receipt \in [Events -> Outcomes]
    BY BillTypes
  <2> QED BY <1>2, <2>1, <2>2 DEF Rows
<1>4. \A g \in Handlers : web'[g] = IF g = h THEN web'[h] ELSE web[g]
  BY BillTypes DEF CommitWebhook, Decide
<1>5. web'[h].pc \notin Decided
  <2>1. web \in [Handlers -> Webs]
    BY BillTypes
  <2> QED BY <2>1, IdleTypes DEF CommitWebhook, Decide, Decided
<1>6. \A l : (OfPlan(l)' <=> OfPlan(l)) /\ (LastOfPlan(l)' <=> LastOfPlan(l))
             /\ (Clean(l, overtaken)' <=> Clean(l, overtaken))
  BY <1>2 DEF OfPlan, LastOfPlan, Clean
<1>7. Entitled' = Entitled
  BY <1>2 DEF Entitled, NoneLive
<1>8. \A l \in Events : Recorded(l)' <=> Recorded(l) \/ l = e
  BY <1>1, <1>3 DEF Recorded
<1>9. \A l \in DOMAIN events : ~Behind(l) => ~Behind(l)'
  <2>1. \A l \in DOMAIN events : 1 .. (l - 1) \subseteq Events
    BY BillTypes
  <2> QED BY <1>6, <1>8, <2>1 DEF Behind
<1>10. EventsTell' /\ RecordedKnown' /\ AdminsKnown'
  BY <1>1, <1>2, <1>6, <1>8 DEF PlanInv, EventsTell, RecordedKnown, AdminsKnown
<1>11. ~OfPlan(e) => tenant'.plan = tenant.plan
  BY <1>0, <1>1, <1>3 DEF DecisionHolds
<1>12. ASSUME NEW l \in DOMAIN events, LastOfPlan(l), l # e, ~Behind(l)
       PROVE  tenant'.plan = tenant.plan
  <2>1. SUFFICES ASSUME OfPlan(e) PROVE FALSE
    BY <1>11
  <2>2. e <= l /\ l \in Nat
    BY <1>1, <1>12, <2>1, BillTypes DEF LastOfPlan
  <2>3. e \in 1 .. (l - 1)
    BY <1>1, <1>12, <2>2, BillTypes
  <2> QED BY <1>1, <1>12, <2>1, <2>3 DEF Behind, Recorded
<1>13. DecisionsHold'
  <2> SUFFICES ASSUME NEW g \in Handlers PROVE DecisionHolds(web[g], overtaken)'
    BY DEF DecisionsHold
  <2>1. CASE web'[g].pc \notin Decided
    BY <2>1 DEF DecisionHolds, Decided
  <2>2. CASE web'[g].pc \in Decided
    <3>1. g # h /\ web'[g] = web[g] /\ DecisionHolds(web[g], overtaken)
      BY <1>4, <1>5, <2>2 DEF PlanInv, DecisionsHold
    <3>2. web[g].e # e /\ web[g].e \in DOMAIN events
      BY <1>0, <1>1, <2>2, <3>1, BillTypes DEF BillInv, OneInserter, Inserting, Decided
    <3>3. Clean(web[g].e, overtaken) => ~Behind(web[g].e) /\ LastOfPlan(web[g].e)
      BY <2>2, <3>1 DEF DecisionHolds, Clean
    <3>4. Clean(web[g].e, overtaken) => tenant'.plan = tenant.plan /\ ~Behind(web[g].e)'
      <4>1. PICK l \in DOMAIN events : l = web[g].e
        BY <3>2
      <4>2. Clean(l, overtaken) => ~Behind(l)' /\ tenant'.plan = tenant.plan
        BY <1>9, <1>12, <3>2, <3>3, <4>1
      <4>3. Behind(web[g].e)' => Behind(l)'
        BY <1>2, <3>1, <4>1 DEF Behind
      <4> QED BY <4>1, <4>2, <4>3
    <3> QED BY <1>2, <1>6, <1>7, <3>1, <3>4 DEF DecisionHolds
  <2> QED BY <2>1, <2>2
<1>14. subs # <<>>
  <2>1. events[e].sub \in DOMAIN subs
    BY <1>1, BillTypes
  <2> QED BY <2>1, BillTypes
<1>15. ASSUME NEW l \in DOMAIN events, Clean(l, overtaken), Recorded(l)'
       PROVE  /\ ~Behind(l)'
              /\ receipt'[l] \notin {"refused", "mismatch"} => tenant'.plan = Entitled
  <2>1. CASE l = e
    <3>1. /\ ~Behind(l)
          /\ w.outcome \notin {"refused", "mismatch"} =>
               w.plan = Entitled /\ w.outcome \in {"applied", "skipped"} /\ (w.outcome = "skipped" => tenant.plan = w.plan)
      BY <1>0, <1>1, <1>3, <1>15, <2>1 DEF DecisionHolds, Decided
    <3>2. events[e].type # "paid"
      BY <1>15, <2>1 DEF Clean, LastOfPlan, OfPlan
    <3>3. receipt'[l] = w.outcome
      BY <1>1, <1>3, <2>1
    <3> QED BY <1>3, <1>9, <3>1, <3>2, <3>3
  <2>2. CASE l # e
    <3>1. l \in Events /\ Recorded(l) /\ receipt'[l] = receipt[l]
      BY <1>3, <1>8, <1>15, <2>2, BillTypes
    <3>2. ~Behind(l) /\ (receipt[l] \notin {"refused", "mismatch"} => tenant.plan = Entitled)
      BY <1>15, <3>1 DEF PlanInv, PlanIsTold
    <3>3. tenant'.plan = tenant.plan
      BY <1>12, <1>15, <2>2, <3>2 DEF Clean
    <3> QED BY <1>9, <3>1, <3>2, <3>3
  <2> QED BY <2>1, <2>2
<1>16. PlanIsTold'
  BY <1>2, <1>6, <1>7, <1>14, <1>15 DEF PlanIsTold
<1> QED BY <1>10, <1>13, <1>16 DEF PlanInv

\* The steps of a webhook.
LEMMA PlanWebhook ==
    ASSUME BillInv, PlanInv, NEW h \in Handlers, WebhookStep(h) PROVE PlanInv'
<1>0. PICK e : e = web[h].e
  OBVIOUS
<1>1. /\ web[h].pc # "idle" => e \in DOMAIN events /\ e \in Nat
      /\ web[h] \in Webs /\ DecisionHolds(web[h], overtaken)
  BY <1>0, BillTypes DEF PlanInv, DecisionsHold
<1>2. ASSUME NEW w, web' = [web EXCEPT ![h] = w], w.pc \notin Decided,
             UNCHANGED <<server, admin, subs, events, overtaken>>
      PROVE PlanInv'
  <2>1. DecisionHolds(w, overtaken')
    BY <1>2 DEF DecisionHolds, Decided
  <2> QED BY <1>2, <2>1, PlanHandler
<1>3. ASSUME NEW d \in DOMAIN events, Deliver(h, d) PROVE PlanInv'
  <2> DEFINE w == [pc |-> "record", e |-> d, read |-> "free", plan |-> "free", outcome |-> "none"]
  <2>1. web' = [web EXCEPT ![h] = w] /\ UNCHANGED <<server, admin, subs, events, overtaken>>
    BY <1>3 DEF Deliver, stripe, marks
  <2>2. w.pc \notin Decided
    BY DEF Decided
  <2> HIDE DEF w
  <2> QED BY <1>2, <2>1, <2>2
<1>4. ASSUME TryRecordEvent(h) PROVE PlanInv'
  <2>1. PICK pc \in {"reply", "read"} : GotoWeb(h, pc)
    BY <1>4 DEF TryRecordEvent
  <2> DEFINE w == [web[h] EXCEPT !.pc = pc]
  <2>2. web' = [web EXCEPT ![h] = w] /\ UNCHANGED <<server, admin, subs, events, overtaken>>
    BY <1>4, <2>1 DEF GotoWeb, TryRecordEvent, stripe, marks
  <2>3. w.pc \notin Decided
    BY <1>1, <2>1 DEF Webs, Decided
  <2> HIDE DEF w
  <2> QED BY <1>2, <2>2, <2>3
<1>5. ASSUME NEW pc, NEW read, NEW plan, NEW outcome, Decide(h, pc, read, plan, outcome),
             \/ overtaken' = overtaken
             \/ web[h].pc \in Inserting /\ \A l : l # e => (l \in overtaken' <=> l \in overtaken),
             UNCHANGED <<server, admin, subs, events>>,
             DecisionHolds([pc |-> pc, e |-> e, read |-> read, plan |-> plan, outcome |-> outcome], overtaken')
      PROVE PlanInv'
  <2> DEFINE w == [pc |-> pc, e |-> e, read |-> read, plan |-> plan, outcome |-> outcome]
  <2>1. web' = [web EXCEPT ![h] = w]
    BY <1>0, <1>5 DEF Decide
  <2> QED BY <1>0, <1>5, <2>1, PlanHandler
<1>6. ASSUME DispatchEvent(h) PROVE PlanInv'
  <2> DEFINE type == events[e].type
             W(pc, read, outcome) == [pc |-> pc, e |-> e, read |-> read, plan |-> "free", outcome |-> outcome]
  <2>1. /\ web[h].pc \in Inserting /\ web[h].pc # "idle" /\ UNCHANGED <<server, admin, subs, events>>
        /\ \A l : l # e => (l \in overtaken' <=> l \in overtaken)
    BY <1>0, <1>6 DEF DispatchEvent, Inserting, stripe
  <2>2. Clean(e, overtaken') => ~Behind(e) /\ LastOfPlan(e)
    BY <1>0, <1>6 DEF DispatchEvent, Clean, LastOfPlan
  <2>3. CASE type = "paid" /\ Decide(h, "commit", "free", "free", "applied")
    <3>1. DecisionHolds(W("commit", "free", "applied"), overtaken')
      BY <2>3 DEF DecisionHolds, Clean, LastOfPlan, OfPlan
    <3> QED BY <1>5, <2>1, <2>3, <3>1
  <2>4. CASE type = "payment_failed" /\ Decide(h, "commit", "free", "free", "ignored")
    <3>1. DecisionHolds(W("commit", "free", "ignored"), overtaken')
      BY <2>4 DEF DecisionHolds, Clean, LastOfPlan, OfPlan
    <3> QED BY <1>5, <2>1, <2>4, <3>1
  <2>5. CASE /\ type \in {"completed", "updated", "deleted"}
             /\ Decide(h, "commit", "free", "free", IF Refuses(tenant) THEN "refused" ELSE "mismatch")
    <3>1. PICK outcome \in {"refused", "mismatch"} : outcome = IF Refuses(tenant) THEN "refused" ELSE "mismatch"
      OBVIOUS
    <3>2. DecisionHolds(W("commit", "free", outcome), overtaken')
      BY <2>2, <2>5 DEF DecisionHolds, OfPlan
    <3> QED BY <1>5, <2>1, <2>5, <3>1, <3>2
  <2>6. CASE /\ type = "deleted"
             /\ Decide(h, "commit", "free", "free", IF tenant.plan = "free" THEN "skipped" ELSE "applied")
    <3>1. PICK outcome : outcome = IF tenant.plan = "free" THEN "skipped" ELSE "applied"
      OBVIOUS
    <3>2. LastOfPlan(e) => Entitled = "free"
      BY <2>6, LastTells
    <3>3. DecisionHolds(W("commit", "free", outcome), overtaken')
      BY <2>2, <2>6, <3>1, <3>2 DEF DecisionHolds, OfPlan
    <3> QED BY <1>5, <2>1, <2>6, <3>1, <3>3
  <2>7. CASE type \in {"completed", "updated"} /\ Decide(h, "resolve", tenant.plan, "free", "none")
    <3>1. DecisionHolds(W("resolve", tenant.plan, "none"), overtaken')
      BY <2>2, <2>7 DEF DecisionHolds
    <3> QED BY <1>5, <2>1, <2>7, <3>1
  <2> QED BY <1>0, <1>6, <2>3, <2>4, <2>5, <2>6, <2>7 DEF DispatchEvent, Event
<1>7. ASSUME ResolvePrice(h) PROVE PlanInv'
  <2> DEFINE read == web[h].read
  <2>1. PICK plan, outcome :
          /\ plan = ResolvedPlan(events[e])
          /\ outcome = IF read = plan THEN "skipped" ELSE "applied"
          /\ Decide(h, "commit", "free", plan, outcome)
    BY <1>0, <1>7 DEF ResolvePrice, Event
  <2>2. web[h].pc = "resolve" /\ UNCHANGED <<server, admin, subs, events, overtaken>>
    BY <1>7 DEF ResolvePrice, stripe, marks
  <2>3. /\ events[e].type \in {"completed", "updated"}
        /\ Clean(e, overtaken) => ~Behind(e) /\ read = tenant.plan
    BY <1>0, <1>1, <2>2 DEF DecisionHolds, Decided
  <2>4. Clean(e, overtaken) => plan = Entitled
    BY <2>1, <2>3, LastTells DEF Clean
  <2>5. DecisionHolds([pc |-> "commit", e |-> e, read |-> "free", plan |-> plan, outcome |-> outcome], overtaken)
    BY <2>1, <2>3, <2>4 DEF DecisionHolds, OfPlan
  <2> QED BY <1>5, <2>1, <2>2, <2>5
<1>8. IdleWeb.pc \notin Decided
  BY IdleTypes DEF Decided
<1>9. ASSUME ResolveFails(h) \/ WebhookDies(h) PROVE PlanInv'
  BY <1>2, <1>8, <1>9 DEF ResolveFails, WebhookDies, stripe, marks
<1>10. ASSUME Reply(h) PROVE PlanInv'
  <2>1. UNCHANGED <<server, admin, subs, events, overtaken>>
    BY <1>10 DEF Reply, marks
  <2>2. CASE web[h].pc = "commit"
    <3> DEFINE w == [web[h] EXCEPT !.pc = "late"]
    <3>1. web' = [web EXCEPT ![h] = w]
      BY <1>10, <2>2 DEF Reply, GotoWeb
    <3>2. w.pc = "late" /\ w.e = web[h].e /\ w.plan = web[h].plan /\ w.outcome = web[h].outcome
      BY <1>1 DEF Webs
    <3> HIDE DEF w
    <3>3. DecisionHolds(w, overtaken')
      BY <1>1, <2>1, <2>2, <3>2 DEF DecisionHolds, Decided
    <3> QED BY <2>1, <3>1, <3>3, PlanHandler
  <2>3. CASE web[h].pc # "commit"
    BY <1>2, <1>8, <1>10, <2>1, <2>3 DEF Reply
  <2> QED BY <2>2, <2>3
<1> QED BY <1>3, <1>4, <1>6, <1>7, <1>9, <1>10, PlanCommit DEF WebhookStep

-----------------------------------------------------------------------------
\* A checkout writes the customer of the tenant and not its plan.
LEMMA PlanCheckout ==
    ASSUME BillInv, PlanInv, NEW c \in Checkouts, CheckoutStep(c) PROVE PlanInv'
<1>1. ASSUME UNCHANGED <<web, receipt, subs, events, overtaken, admin>>, tenant'.plan = tenant.plan
      PROVE PlanInv'
  BY <1>1, PlanAside DEF PlanInv, AdminsKnown
<1>2. ASSUME CommitCheckout(c) PROVE PlanInv'
  <2>1. tenant'.plan = tenant.plan
    BY <1>2, BillTypes DEF CommitCheckout, Rows
  <2> QED BY <1>1, <1>2, <2>1 DEF CommitCheckout, stripe, marks
<1>3. ASSUME \/ \E p \in Plans : ReadForCheckout(c, p)
             \/ CreateCustomer(c) \/ FlushCustomer(c) \/ CreateSession(c) \/ ReturnUrl(c) \/ CheckoutFails(c)
      PROVE PlanInv'
  BY <1>1, <1>3
  DEF ReadForCheckout, CreateCustomer, FlushCustomer, CreateSession, ReturnUrl, CheckoutFails, server, stripe, marks
<1> QED BY <1>2, <1>3 DEF CheckoutStep

\* Admins that leave the plan alone change the status only.
LEMMA PlanAdmin ==
    ASSUME BillInv, PlanInv, "plan" \notin AdminOps, NEW a \in Admins, AdminStep(a) PROVE PlanInv'
<1>0. admin \in [Admins -> Calls] /\ tenant \in Rows
  BY BillTypes
<1>1. ASSUME NEW q, admin' = [admin EXCEPT ![a] = q], q.pc = "commit" => q.op \in AdminOps,
             UNCHANGED <<web, receipt, subs, events, overtaken>>, tenant'.plan = tenant.plan
      PROVE PlanInv'
  <2>1. AdminsKnown'
    BY <1>0, <1>1 DEF PlanInv, AdminsKnown
  <2> QED BY <1>1, <2>1, PlanAside DEF PlanInv
<1>2. ASSUME NEW op \in AdminOps, NEW p, AdminRead(a, op, p) PROVE PlanInv'
  <2>1. UNCHANGED <<tenant, web, receipt, subs, events, overtaken>>
    BY <1>2 DEF AdminRead, server, stripe, marks
  <2> QED BY <1>1, <1>2, <2>1 DEF AdminRead
<1>3. ASSUME AdminCommit(a) PROVE PlanInv'
  <2>1. admin[a].op \in {"suspend", "reactivate", "delete"}
    BY <1>3, BillingAssumption DEF AdminCommit, PlanInv, AdminsKnown
  <2>2. tenant'.plan = tenant.plan
    BY <1>0, <1>3, <2>1 DEF AdminCommit, Written, Rows
  <2>3. /\ admin' = [admin EXCEPT ![a] = IdleAdmin] /\ IdleAdmin.pc = "idle"
        /\ UNCHANGED <<web, receipt, subs, events, overtaken>>
    BY <1>3 DEF AdminCommit, IdleAdmin, stripe, marks
  <2> QED BY <1>1, <2>2, <2>3
<1> QED BY <1>2, <1>3 DEF AdminStep

-----------------------------------------------------------------------------
\* handle_webhook, with its commit before the answer or after it: once the last event
\* about the plan is recorded, the plan of the tenant differs from Stripe's only if that
\* event was refused, was about another customer, or had read the row before an older
\* one was recorded.  upgrade_plan is left out: it writes the column and tells nobody.
THEOREM DriftAlwaysHasACause ==
    ASSUME "plan" \notin AdminOps PROVE Spec => []DriftHasACause
<1>1. Init => PlanInv
  <2> SUFFICES ASSUME Init PROVE PlanInv
    OBVIOUS
  <2>1. /\ subs = <<>> /\ events = <<>> /\ tenant = Row
        /\ DOMAIN events = {} /\ DOMAIN subs = {}
    BY DEF Init
  <2>2. /\ \A h \in Handlers : web[h].pc = "idle"
        /\ \A a \in Admins : admin[a].pc = "idle"
        /\ \A e \in Events : receipt[e] = "none"
    BY DEF Init, IdleWeb, IdleAdmin
  <2>3. EventsTell /\ RecordedKnown
    BY <2>1, <2>2 DEF EventsTell, RecordedKnown, Recorded
  <2>4. DecisionsHold /\ AdminsKnown
    BY <2>2 DEF DecisionsHold, DecisionHolds, Decided, AdminsKnown
  <2>5. PlanIsTold
    BY <2>1 DEF PlanIsTold, Row
  <2> QED BY <2>3, <2>4, <2>5 DEF PlanInv
<1>2. BillInv /\ PlanInv /\ [Next]_vars => PlanInv'
  <2> SUFFICES ASSUME BillInv, PlanInv, [Next]_vars PROVE PlanInv'
    OBVIOUS
  <2>1. CASE UNCHANGED vars
    <3>1. AdminsKnown'
      BY <2>1 DEF vars, PlanInv, AdminsKnown
    <3> QED BY <2>1, <3>1, PlanAside DEF vars, PlanInv
  <2>2. CASE Next
    BY <2>2, PlanStripe, PlanWebhook, PlanCheckout, PlanAdmin DEF Next
  <2> QED BY <2>1, <2>2
<1>3. BillInv /\ PlanInv => DriftHasACause
  <2> SUFFICES ASSUME BillInv, PlanInv PROVE DriftHasACause
    OBVIOUS
  <2>1. ASSUME events = <<>> PROVE tenant.plan = "free"
    <3>1. DOMAIN events = {}
      BY <2>1
    <3> QED BY <3>1 DEF PlanInv, EventsTell, PlanIsTold
  <2>2. ASSUME NEW e \in DOMAIN events, LastOfPlan(e), tenant.plan # Entitled
        PROVE  ~Recorded(e) \/ receipt[e] \in {"refused", "mismatch"} \/ e \in overtaken
    BY <2>2 DEF PlanInv, PlanIsTold, Clean
  <2> QED BY <2>1, <2>2 DEF DriftHasACause
<1> QED BY <1>1, <1>2, <1>3, BillingInvariant, PTL DEF Spec
=============================================================================

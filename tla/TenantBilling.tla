--------------------------- MODULE TenantBilling ----------------------------
(***************************************************************************)
(* The plan of a tenant: Stripe checkouts, Stripe webhooks and the admin   *)
(* routes of the tenant lifecycle, all of which write the one tenant row.  *)
(* Every request is a transaction.  It reads the row once, without a lock, *)
(* decides on that copy, and writes the columns it changed when it         *)
(* commits.  A checkout writes its column before its last call to Stripe   *)
(* and holds the lock of the row from then on.  A webhook first inserts a  *)
(* receipt whose primary key is the id of the event.  Stripe delivers an   *)
(* event until it is answered with 200, in no promised order.              *)
(*                                                                         *)
(* The routes of webhooks and checkouts do not commit: session_scope and   *)
(* tenant_session_scope do, in the exit of a yield dependency.  Whether    *)
(* that runs before or after the answer is sent depends on the version of  *)
(* FastAPI, and on the middleware that holds an answer back; both orders   *)
(* are in the model.                                                       *)
(***************************************************************************)
EXTENDS Naturals, Sequences, FiniteSets

CONSTANTS
    Handlers,      \* requests that serve POST /billing/webhook/stripe
    Checkouts,     \* requests that serve POST /billing/checkout
    Admins,        \* requests that serve the admin routes
    AdminOps,      \* the admin operations used
    Plans,         \* the plans with a Stripe price
    Ordered,       \* TRUE: Stripe delivers an event once the earlier ones are answered
    MaxSessions,   \* bound on the checkout sessions opened
    MaxEvents,     \* bound on the events of Stripe
    MaxFaults      \* bound on crashes, failed calls and lost answers

ASSUME BillingAssumption ==
    /\ "free" \notin Plans
    /\ AdminOps \subseteq {"suspend", "reactivate", "delete", "plan"}
    /\ Ordered \in BOOLEAN
    /\ MaxSessions \in Nat /\ MaxEvents \in Nat /\ MaxFaults \in Nat

VARIABLES
    tenant,     \* the committed row: [status, deleted, plan, customer]; customer 0 is NULL
    receipt,    \* receipt[e]: the committed outcome of event e
    web,        \* web[h] = [pc, e, read, plan, outcome]; read is the plan that was read
    check,      \* check[c] = [pc, plan, customer]
    admin,      \* admin[a] = [pc, op, plan, read]; read is the column that was read
    customers,  \* Stripe: number of customers created; their ids are 1 .. customers
    sessions,   \* Stripe: checkout sessions whose URL was returned and that are unpaid
    subs,       \* Stripe: the subscriptions, [plan, customer, live]
    events,     \* Stripe: the events, [type, sub, plan]
    acked,      \* Stripe: events answered with 200
    opened,     \* checkout requests made
    effects,    \* effects[e]: transactions that committed the effect of event e
    dropped,    \* events answered with 200 by a transaction that then did not commit (history)
    overtaken,  \* events about the plan that read the tenant before an older one was recorded (history)
    faults

server == <<tenant, receipt, effects>>
stripe == <<customers, sessions, subs, events, acked>>
marks == <<dropped, overtaken>>
vars == <<tenant, receipt, web, check, admin, customers, sessions, subs, events, acked, opened, effects,
          dropped, overtaken, faults>>

Events == 1 .. MaxEvents
Row == [status |-> "active", deleted |-> FALSE, plan |-> "free", customer |-> 0]
IdleWeb == [pc |-> "idle", e |-> 0, read |-> "free", plan |-> "free", outcome |-> "none"]
IdleCheck == [pc |-> "idle", plan |-> "free", customer |-> 0]
IdleAdmin == [pc |-> "idle", op |-> "none", plan |-> "free", read |-> "free"]

Init ==
    /\ tenant = Row
    /\ receipt = [e \in Events |-> "none"]
    /\ web = [h \in Handlers |-> IdleWeb]
    /\ check = [c \in Checkouts |-> IdleCheck]
    /\ admin = [a \in Admins |-> IdleAdmin]
    /\ customers = 0 /\ sessions = {} /\ subs = <<>> /\ events = <<>> /\ acked = {}
    /\ opened = 0
    /\ effects = [e \in Events |-> 0]
    /\ dropped = {} /\ overtaken = {}
    /\ faults = 0

-----------------------------------------------------------------------------
\* Stripe.  A user pays at most one session at a time: there is one live
\* subscription at most.  The price of a subscription can be read after it ended.
NoneLive == \A i \in DOMAIN subs : ~subs[i].live
Entitled == IF NoneLive THEN "free" ELSE subs[CHOOSE i \in DOMAIN subs : subs[i].live].plan
Emit(type, i, plan) ==
    /\ Len(events) < MaxEvents
    /\ events' = Append(events, [type |-> type, sub |-> i, plan |-> plan])

Pay(s) ==
    /\ s \in sessions /\ NoneLive
    /\ sessions' = sessions \ {s}
    /\ subs' = Append(subs, [plan |-> s.plan, customer |-> s.customer, live |-> TRUE])
    /\ Emit("completed", Len(subs) + 1, "free")
    /\ UNCHANGED <<server, web, check, admin, customers, acked, opened, faults, marks>>

ChangePlan(i, p) ==
    /\ subs[i].live /\ subs[i].plan # p
    /\ subs' = [subs EXCEPT ![i] = [@ EXCEPT !.plan = p]]
    /\ Emit("updated", i, p)
    /\ UNCHANGED <<server, web, check, admin, customers, sessions, acked, opened, faults, marks>>

EndSubscription(i) ==
    /\ subs[i].live
    /\ subs' = [subs EXCEPT ![i] = [@ EXCEPT !.live = FALSE]]
    /\ Emit("deleted", i, "free")
    /\ UNCHANGED <<server, web, check, admin, customers, sessions, acked, opened, faults, marks>>

Invoice(i, type) ==
    /\ subs[i].live
    /\ Emit(type, i, "free")
    /\ UNCHANGED <<server, web, check, admin, customers, sessions, subs, acked, opened, faults, marks>>

StripeStep ==
    \/ \E s \in sessions : Pay(s)
    \/ \E i \in DOMAIN subs :
        \/ \E p \in Plans : ChangePlan(i, p)
        \/ EndSubscription(i)
        \/ \E type \in {"paid", "payment_failed"} : Invoice(i, type)

-----------------------------------------------------------------------------
Fault == faults < MaxFaults /\ faults' = faults + 1

\* The lock of the tenant row: held from the flush of a new customer id.
RowLocked == \E c \in Checkouts : check[c].pc \in {"flushed", "created", "late"}

\* handle_webhook.
GotoWeb(h, pc) == web' = [web EXCEPT ![h] = [@ EXCEPT !.pc = pc]]
Event(h) == events[web[h].e]

Deliver(h, e) ==
    /\ web[h].pc = "idle"
    /\ e \in DOMAIN events \ acked
    /\ Ordered => \A d \in 1 .. (e - 1) : d \in acked
    /\ web' = [web EXCEPT ![h] = [pc |-> "record", e |-> e, read |-> "free", plan |-> "free", outcome |-> "none"]]
    /\ UNCHANGED <<server, check, admin, stripe, opened, faults, marks>>

\* INSERT ... ON CONFLICT DO NOTHING waits for an uncommitted row of the same key.
Inserted(e) == \E h \in Handlers : web[h].e = e /\ web[h].pc \in {"read", "resolve", "commit", "late"}
Recorded(e) == receipt[e] # "none"

TryRecordEvent(h) ==
    /\ web[h].pc = "record"
    /\ ~Inserted(web[h].e)
    /\ GotoWeb(h, IF Recorded(web[h].e) THEN "reply" ELSE "read")
    /\ UNCHANGED <<server, check, admin, stripe, opened, faults, marks>>

Decide(h, pc, read, plan, outcome) ==
    web' = [web EXCEPT ![h] = [pc |-> pc, e |-> @.e, read |-> read, plan |-> plan, outcome |-> outcome]]

\* Outcome and detail of a receipt: "refused" is skipped because of the tenant's status,
\* "mismatch" because of its customer.
Refuses(row) == row.deleted \/ row.status = "suspended"
OtherCustomer(row, i) == row.customer # 0 /\ row.customer # subs[i].customer
Skips(row, i) == Refuses(row) \/ OtherCustomer(row, i)

\* The events about the plan, and those that are not recorded.
OfPlan(e) == events[e].type \in {"completed", "updated", "deleted"}
Behind(e) == \E d \in 1 .. (e - 1) : OfPlan(d) /\ ~Recorded(d)

DispatchEvent(h) ==
    /\ web[h].pc = "read"
    /\ LET ev == Event(h) IN
        \/ ev.type = "paid" /\ Decide(h, "commit", "free", "free", "applied")
        \/ ev.type = "payment_failed" /\ Decide(h, "commit", "free", "free", "ignored")
        \/ /\ ev.type \in {"completed", "updated", "deleted"} /\ Skips(tenant, ev.sub)
           /\ Decide(h, "commit", "free", "free", IF Refuses(tenant) THEN "refused" ELSE "mismatch")
        \/ /\ ev.type = "deleted" /\ ~Skips(tenant, ev.sub)
           /\ Decide(h, "commit", "free", "free", IF tenant.plan = "free" THEN "skipped" ELSE "applied")
        \/ /\ ev.type \in {"completed", "updated"} /\ ~Skips(tenant, ev.sub)
           /\ Decide(h, "resolve", tenant.plan, "free", "none")
    /\ overtaken' = IF OfPlan(web[h].e) /\ Behind(web[h].e) THEN overtaken \cup {web[h].e}
                                                            ELSE overtaken \ {web[h].e}
    /\ UNCHANGED <<server, check, admin, stripe, opened, faults, dropped>>

\* Mutant: the payload of a completed checkout is taken to hold its price.
ResolvedFromPayload(ev) == ev.plan

\* A completed checkout names its subscription only: the price is asked of Stripe.
ResolvedPlan(ev) == IF ev.type = "completed" THEN subs[ev.sub].plan ELSE ev.plan

ResolvePrice(h) ==
    /\ web[h].pc = "resolve"
    /\ LET plan == ResolvedPlan(Event(h)) IN
        Decide(h, "commit", "free", plan, IF web[h].read = plan THEN "skipped" ELSE "applied")
    /\ UNCHANGED <<server, check, admin, stripe, opened, faults, marks>>

\* Mutant: the failed call is answered with 200.
ResolveFailsAnswered(h) ==
    /\ web[h].pc = "resolve" /\ Event(h).type = "completed"
    /\ Fault
    /\ GotoWeb(h, "reply")
    /\ UNCHANGED <<server, check, admin, stripe, opened, marks>>

\* The call to Stripe fails: the transaction is rolled back and 500 is answered.
ResolveFails(h) ==
    /\ web[h].pc = "resolve" /\ Event(h).type = "completed"
    /\ Fault
    /\ web' = [web EXCEPT ![h] = IdleWeb]
    /\ UNCHANGED <<server, check, admin, stripe, opened, marks>>

SyncsPlan(h) == web[h].outcome = "applied" /\ Event(h).type # "paid"

\* The exit of session_scope, before the answer or after it.
CommitWebhook(h) ==
    /\ web[h].pc \in {"commit", "late"}
    /\ SyncsPlan(h) => ~RowLocked
    /\ tenant' = IF SyncsPlan(h) THEN [tenant EXCEPT !.plan = web[h].plan] ELSE tenant
    /\ receipt' = [receipt EXCEPT ![web[h].e] = web[h].outcome]
    /\ effects' = [effects EXCEPT ![web[h].e] = @ + 1]
    /\ IF web[h].pc = "commit" THEN Decide(h, "reply", "free", "free", web[h].outcome)
                               ELSE web' = [web EXCEPT ![h] = IdleWeb]
    /\ UNCHANGED <<check, admin, stripe, opened, faults, marks>>

\* Mutant: a duplicate is answered with an error.
AnswersOnlyOnce(h) == web[h].outcome # "none"

Answers200(h) == web[h].pc \in {"commit", "reply"}

\* Stripe gets the answer, of a transaction that has committed or has yet to.
Reply(h) ==
    /\ web[h].pc \in {"commit", "reply"}
    /\ acked' = IF Answers200(h) THEN acked \cup {web[h].e} ELSE acked
    /\ IF web[h].pc = "commit" THEN GotoWeb(h, "late") ELSE web' = [web EXCEPT ![h] = IdleWeb]
    /\ UNCHANGED <<server, check, admin, customers, sessions, subs, events, opened, faults, marks>>

\* The process dies, the commit fails or the answer is lost.  What is not committed
\* is undone.
WebhookDies(h) ==
    /\ web[h].pc # "idle"
    /\ Fault
    /\ dropped' = IF web[h].pc = "late" THEN dropped \cup {web[h].e} ELSE dropped
    /\ web' = [web EXCEPT ![h] = IdleWeb]
    /\ UNCHANGED <<server, check, admin, stripe, opened, overtaken>>

WebhookStep(h) ==
    \/ \E e \in DOMAIN events : Deliver(h, e)
    \/ TryRecordEvent(h) \/ DispatchEvent(h) \/ ResolvePrice(h) \/ ResolveFails(h)
    \/ CommitWebhook(h) \/ Reply(h) \/ WebhookDies(h)

-----------------------------------------------------------------------------
\* create_checkout_session.
ReadForCheckout(c, p) ==
    /\ check[c].pc = "idle" /\ opened < MaxSessions
    /\ ~tenant.deleted /\ tenant.status # "suspended"
    /\ opened' = opened + 1
    /\ check' = [check EXCEPT ![c] = [pc |-> IF tenant.customer = 0 THEN "create" ELSE "bound",
                                      plan |-> p, customer |-> tenant.customer]]
    /\ UNCHANGED <<server, web, admin, stripe, faults, marks>>

CreateCustomer(c) ==
    /\ check[c].pc = "create"
    /\ customers' = customers + 1
    /\ check' = [check EXCEPT ![c] = [pc |-> "flush", plan |-> @.plan, customer |-> customers + 1]]
    /\ UNCHANGED <<server, web, admin, sessions, subs, events, acked, opened, faults, marks>>

FlushCustomer(c) ==
    /\ check[c].pc = "flush" /\ ~RowLocked
    /\ check' = [check EXCEPT ![c] = [@ EXCEPT !.pc = "flushed"]]
    /\ UNCHANGED <<server, web, admin, stripe, opened, faults, marks>>

CreateSession(c) ==
    /\ \/ check[c].pc = "flushed" /\ check' = [check EXCEPT ![c] = [@ EXCEPT !.pc = "created"]]
       \/ check[c].pc = "bound" /\ check' = [check EXCEPT ![c] = [@ EXCEPT !.pc = "return"]]
    /\ UNCHANGED <<server, web, admin, stripe, opened, faults, marks>>

\* The exit of tenant_session_scope, before the answer or after it.
CommitCheckout(c) ==
    /\ check[c].pc \in {"created", "late"}
    /\ tenant' = [tenant EXCEPT !.customer = check[c].customer]
    /\ check' = [check EXCEPT ![c] = IF @.pc = "created" THEN [@ EXCEPT !.pc = "return"] ELSE IdleCheck]
    /\ UNCHANGED <<receipt, effects, web, admin, stripe, opened, faults, marks>>

\* The answer carries the URL, which can be paid from now on.
ReturnUrl(c) ==
    /\ check[c].pc \in {"created", "return"}
    /\ sessions' = sessions \cup {[customer |-> check[c].customer, plan |-> check[c].plan]}
    /\ check' = [check EXCEPT ![c] = IF @.pc = "created" THEN [@ EXCEPT !.pc = "late"] ELSE IdleCheck]
    /\ UNCHANGED <<server, web, admin, customers, subs, events, acked, opened, faults, marks>>

\* Stripe refuses a call, the commit fails or the process dies: rolled back.
CheckoutFails(c) ==
    /\ check[c].pc # "idle"
    /\ Fault
    /\ check' = [check EXCEPT ![c] = IdleCheck]
    /\ UNCHANGED <<server, web, admin, stripe, opened, marks>>

CheckoutStep(c) ==
    \/ \E p \in Plans : ReadForCheckout(c, p)
    \/ CreateCustomer(c) \/ FlushCustomer(c) \/ CreateSession(c) \/ CommitCheckout(c)
    \/ ReturnUrl(c) \/ CheckoutFails(c)

-----------------------------------------------------------------------------
\* suspend, reactivate, delete and upgrade_plan, each one request.
AdminRead(a, op, p) ==
    /\ admin[a].pc = "idle"
    /\ op \in {"suspend", "reactivate"} => ~tenant.deleted
    /\ admin' = [admin EXCEPT ![a] = [pc |-> "commit", op |-> op, plan |-> p,
                                      read |-> IF op = "plan" THEN tenant.plan ELSE tenant.status]]
    /\ UNCHANGED <<server, web, check, stripe, opened, faults, marks>>

\* The UPDATE sets the columns whose values differ from those read.
Written(a) ==
    LET op == admin[a].op  read == admin[a].read  p == admin[a].plan
        Set(status) == IF read = status THEN tenant.status ELSE status
    IN CASE op = "suspend" -> [tenant EXCEPT !.status = Set("suspended")]
         [] op = "reactivate" -> [tenant EXCEPT !.status = Set("active")]
         [] op = "delete" -> [tenant EXCEPT !.status = Set("deleted"), !.deleted = TRUE]
         [] OTHER -> [tenant EXCEPT !.plan = IF read = p THEN @ ELSE p]

AdminCommit(a) ==
    /\ admin[a].pc = "commit" /\ ~RowLocked
    /\ tenant' = Written(a)
    /\ admin' = [admin EXCEPT ![a] = IdleAdmin]
    /\ UNCHANGED <<receipt, effects, web, check, stripe, opened, faults, marks>>

AdminStep(a) ==
    \/ \E op \in AdminOps : \E p \in IF op = "plan" THEN Plans ELSE {"free"} : AdminRead(a, op, p)
    \/ AdminCommit(a)

Next ==
    \/ StripeStep
    \/ \E h \in Handlers : WebhookStep(h)
    \/ \E c \in Checkouts : CheckoutStep(c)
    \/ \E a \in Admins : AdminStep(a)

Spec == Init /\ [][Next]_vars

\* A request that was received goes on, and Stripe keeps delivering an event
\* that was not answered with 200.  Payments, checkouts and admins owe nothing.
Fairness ==
    /\ \A e \in Events : WF_vars(\E h \in Handlers : Deliver(h, e))
    /\ \A h \in Handlers :
        WF_vars(TryRecordEvent(h) \/ DispatchEvent(h) \/ ResolvePrice(h) \/ CommitWebhook(h) \/ Reply(h))
    /\ \A c \in Checkouts :
        WF_vars(CreateCustomer(c) \/ CreateSession(c) \/ CommitCheckout(c) \/ ReturnUrl(c))
FairSpec == Spec /\ Fairness

-----------------------------------------------------------------------------
AnyPlan == Plans \cup {"free"}
Statuses == {"active", "suspended", "deleted"}
Rows == [status : Statuses, deleted : BOOLEAN, plan : AnyPlan, customer : Nat]
Outcomes == {"none", "applied", "skipped", "refused", "mismatch", "ignored"}
Webs == [pc : {"idle", "record", "read", "resolve", "commit", "late", "reply"}, e : Nat, read : AnyPlan,
         plan : AnyPlan, outcome : Outcomes]
Checks == [pc : {"idle", "create", "flush", "flushed", "bound", "created", "late", "return"},
           plan : AnyPlan, customer : Nat]
Calls == [pc : {"idle", "commit"}, op : AdminOps \cup {"none"}, plan : AnyPlan, read : AnyPlan \cup Statuses]
Sessions == [customer : Nat, plan : AnyPlan]
Subscriptions == [plan : AnyPlan, customer : Nat, live : BOOLEAN]
EventTypes == {"completed", "updated", "deleted", "paid", "payment_failed"}
StripeEvents == [type : EventTypes, sub : Nat, plan : AnyPlan]

ServerType == tenant \in Rows /\ receipt \in [Events -> Outcomes] /\ effects \in [Events -> Nat]
RequestType ==
    /\ web \in [Handlers -> Webs] /\ check \in [Checkouts -> Checks] /\ admin \in [Admins -> Calls]
    /\ opened \in Nat /\ faults \in Nat
StripeType ==
    /\ customers \in Nat /\ sessions \subseteq Sessions
    /\ subs \in Seq(Subscriptions) /\ events \in Seq(StripeEvents)
    /\ Len(events) <= MaxEvents /\ acked \subseteq DOMAIN events
    /\ dropped \subseteq acked /\ overtaken \subseteq DOMAIN events

\* The type invariant.  An event is about a subscription, and what is delivered exists.
TypeOK ==
    /\ ServerType /\ RequestType /\ StripeType
    /\ \A e \in DOMAIN events : events[e].sub \in DOMAIN subs
    /\ \A h \in Handlers : web[h].pc # "idle" => web[h].e \in DOMAIN events

\* An event is processed once, however often and however concurrently Stripe
\* delivers it: the insert of the receipt admits one transaction that commits.
AppliedOnce == \A e \in Events : effects[e] <= 1

\* What is answered with 200 is accounted for: it was processed exactly once and has a
\* committed outcome, or the transaction that answered it is still to commit, or that
\* transaction died before its commit.  Nothing else loses or repeats an event: a
\* failure after the insert of the receipt takes the receipt back with it, so that the
\* next delivery counts.
Committing(e) == \E h \in Handlers : web[h].pc = "late" /\ web[h].e = e
AnsweredIsAccounted ==
    \A e \in acked : \/ Recorded(e) /\ effects[e] = 1
                     \/ ~Recorded(e) /\ effects[e] = 0 /\ (Committing(e) \/ e \in dropped)

\* No event is lost: what is answered with 200 has been processed, or is about to be.
\* This fails when the answer goes out before a commit that then fails (VLostEvent.cfg).
AckedIsFinal == \A e \in acked : Recorded(e) \/ Committing(e)

\* The last event about the plan.
LastOfPlan(e) ==
    /\ e \in DOMAIN events /\ OfPlan(e)
    /\ \A d \in DOMAIN events : OfPlan(d) => d <= e

\* The plan of the tenant is the plan of its live subscription, or free without one,
\* as soon as the last event about it is recorded, unless that event decided on a row
\* that an older event had yet to change, came while the tenant was suspended or
\* deleted, or was about another customer of the tenant.  Crashes, duplicates, late
\* commits, admins and whatever went wrong with the events before it cause no drift.
DriftHasACause ==
    /\ events = <<>> => tenant.plan = "free"
    /\ \A e \in DOMAIN events : LastOfPlan(e) /\ tenant.plan # Entitled =>
         ~Recorded(e) \/ receipt[e] \in {"refused", "mismatch"} \/ e \in overtaken

\* What a reader of the docs would expect: when every event is answered and no webhook
\* is in progress, the plan is Stripe's, unless an event was refused.  It fails in each
\* of the other ways that DriftHasACause names (VReordered.cfg, VCheckoutRace.cfg,
\* VEarlyAnswer.cfg).
Settled == DOMAIN events \subseteq acked /\ \A h \in Handlers : web[h].pc = "idle"
PlanFollowsSubscription ==
    Settled /\ (\A e \in acked : receipt[e] # "refused") => tenant.plan = Entitled

\* A tenant marked deleted never leaves the state: tenant_lifecycle.py calls the
\* transition irreversible, and suspend and reactivate refuse a deleted tenant.
DeletedIsIrreversible == [][tenant.status = "deleted" => tenant'.status = "deleted"]_vars

\* Whatever fails, Stripe's queue empties again and again: every event is
\* answered with 200 in the end.
EventsSettle == []<>(DOMAIN events \subseteq acked)

=============================================================================

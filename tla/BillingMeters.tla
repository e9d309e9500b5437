--------------------------- MODULE BillingMeters ----------------------------
(***************************************************************************)
(* The outbox of billable usage (billing_meter_dispatcher.py).  A meter    *)
(* row is committed with the usage counter.  It is then delivered to       *)
(* Stripe by the hook that runs after that commit, in the same process,    *)
(* and by the passes of the maintainers, whichever comes first.  The hook  *)
(* reads its row without a lock.  A pass locks all the due rows it lists,  *)
(* skipping locked ones, but its commit after the first row gives all the  *)
(* locks back, and the other rows of its list are not read again.          *)
(* So one row may be reported several times at once, and what counts it    *)
(* once is the idempotency key of the row at Stripe.                       *)
(***************************************************************************)
EXTENDS Naturals, FiniteSets

CONSTANTS
    Meters,        \* meter rows, each of one committed usage increment
    Maintainers,
    Nobody,
    MaxAttempts,   \* bound on the reports of a row that raise
    MaxFaults      \* bound on processes that die and commits that fail

ASSUME MeterAssumption ==
    /\ Meters \cap Maintainers = {} /\ Nobody \notin Meters \cup Maintainers
    /\ MaxAttempts \in Nat /\ MaxFaults \in Nat

VARIABLES
    meter,     \* meter[d] = [st, due]; due: next_attempt_at has passed
    locked,    \* locked[d]: the maintainer whose transaction locks row d
    pub,       \* pub[p] = [pc, todo, cur, outcome]: a hook, named by its row, or a maintainer
    seen,      \* idempotency keys Stripe has seen
    counted,   \* counted[d]: usage records of d at Stripe
    raised,    \* raised[d]: reports of d that raised
    faults

vars == <<meter, locked, pub, seen, counted, raised, faults>>

Publishers == Meters \cup Maintainers
Idle == [pc |-> "idle", todo |-> {}, cur |-> Nobody, outcome |-> "none"]
Working(rows) == [pc |-> "report", todo |-> rows, cur |-> Nobody, outcome |-> "none"]

Init ==
    /\ meter = [d \in Meters |-> [st |-> "none", due |-> FALSE]]
    /\ locked = [d \in Meters |-> Nobody]
    /\ pub = [p \in Publishers |-> Idle]
    /\ seen = {}
    /\ counted = [d \in Meters |-> 0]
    /\ raised = [d \in Meters |-> 0]
    /\ faults = 0

-----------------------------------------------------------------------------
At(p, pc) == pub[p].pc = pc
Cur(p) == pub[p].cur
Fault == faults < MaxFaults /\ faults' = faults + 1
Unlock(p) == locked' = [d \in Meters |-> IF locked[d] = p THEN Nobody ELSE locked[d]]
stripe == <<seen, counted, raised>>

\* record, the commit of its transaction, and the start of the hook.
Record(d) ==
    /\ meter[d].st = "none"
    /\ meter' = [meter EXCEPT ![d] = [st |-> "pending", due |-> TRUE]]
    /\ pub' = [pub EXCEPT ![d].pc = "read"]
    /\ UNCHANGED <<locked, stripe, faults>>

\* publish_one: an unlocked read.
PublishOne(d) ==
    /\ At(d, "read")
    /\ pub' = [pub EXCEPT ![d] = IF meter[d].st = "pending" THEN Working({d}) ELSE Idle]
    /\ UNCHANGED <<meter, locked, stripe, faults>>

\* Mutant: a row is listed for its first attempt only.
DueOnce == {d \in Meters : meter[d].st = "pending" /\ meter[d].due /\ raised[d] = 0}

Due == {d \in Meters : meter[d].st = "pending" /\ meter[d].due}

\* list_due_pending: FOR UPDATE SKIP LOCKED.
ListDuePending(p) ==
    /\ At(p, "idle")
    /\ LET rows == {d \in Due : locked[d] = Nobody}
       IN /\ rows # {}
          /\ locked' = [d \in Meters |-> IF d \in rows THEN p ELSE locked[d]]
          /\ pub' = [pub EXCEPT ![p] = Working(rows)]
    /\ UNCHANGED <<meter, stripe, faults>>

\* Mutant: every publisher has a key of its own.
StripeKeyOfPublisher(d, p) == <<d, p>>

\* f"billing-meter:{dispatch.id}".
StripeKey(d, p) == <<d>>

\* Stripe counts a usage record once for each idempotency key.
Count(d, p) ==
    /\ seen' = seen \cup {StripeKey(d, p)}
    /\ counted' = [counted EXCEPT ![d] = @ + (IF StripeKey(d, p) \in seen THEN 0 ELSE 1)]

Outcome(p, d, o) ==
    /\ At(p, "report") /\ d \in pub[p].todo
    /\ pub' = [pub EXCEPT ![p] = [pc |-> "commit", todo |-> @.todo \ {d}, cur |-> d, outcome |-> o]]

\* report_metered_usage answers for the next row: the usage is reported, or the
\* tenant has no customer or no active item and nothing is.
Answered(p) ==
    /\ \E d \in Meters :
         \/ Outcome(p, d, "reported") /\ Count(d, p)
         \/ Outcome(p, d, "not_reported") /\ UNCHANGED <<seen, counted>>
    /\ UNCHANGED <<meter, locked, raised, faults>>

\* It raises, before or after Stripe has counted.
Raised(p) ==
    /\ \E d \in Meters :
         /\ raised[d] < MaxAttempts
         /\ raised' = [raised EXCEPT ![d] = @ + 1]
         /\ Outcome(p, d, "raised")
         /\ Count(d, p) \/ UNCHANGED <<seen, counted>>
    /\ UNCHANGED <<meter, locked, faults>>

\* Mutant: a report that raised is taken for delivered.
VerdictRaised(row, outcome) ==
    [row EXCEPT !.st = IF outcome = "not_reported" THEN "skipped" ELSE "delivered"]

\* _deliver: what it writes to the row.
Verdict(row, outcome) ==
    [st |-> IF outcome = "reported" THEN "delivered"
            ELSE IF outcome = "not_reported" THEN "skipped" ELSE row.st,
     due |-> row.due /\ outcome # "raised"]

After(p) == IF pub[p].todo = {} THEN Idle ELSE Working(pub[p].todo)

\* The commit after a row.  It waits for a row that another transaction locks.
Commit(p) ==
    /\ At(p, "commit")
    /\ locked[Cur(p)] \in {p, Nobody}
    /\ meter' = [meter EXCEPT ![Cur(p)] = Verdict(@, pub[p].outcome)]
    /\ Unlock(p)
    /\ pub' = [pub EXCEPT ![p] = After(p)]
    /\ UNCHANGED <<stripe, faults>>

\* The backoff of a failed row has passed.
DueAgain(d) ==
    /\ meter[d].st = "pending" /\ ~meter[d].due
    /\ meter' = [meter EXCEPT ![d] = [st |-> "pending", due |-> TRUE]]
    /\ UNCHANGED <<locked, pub, stripe, faults>>

\* The process dies, or its transaction fails and the error ends the hook or
\* the pass: the transaction is rolled back.
Abort(p) ==
    /\ ~At(p, "idle")
    /\ Fault
    /\ pub' = [pub EXCEPT ![p] = Idle]
    /\ Unlock(p)
    /\ UNCHANGED <<meter, stripe>>

-----------------------------------------------------------------------------
Deliver(p) == Answered(p) \/ Raised(p) \/ Commit(p)

Next ==
    \/ \E d \in Meters : Record(d) \/ PublishOne(d) \/ DueAgain(d)
    \/ \E p \in Maintainers : ListDuePending(p)
    \/ \E p \in Publishers : Deliver(p) \/ Abort(p)

Spec == Init /\ [][Next]_vars

\* Hooks and passes run on, passes come again, and time passes; Stripe answers
\* in the end, for the reports that raise are bounded.
Fairness ==
    /\ \A p \in Publishers : WF_vars(Deliver(p))
    /\ \A d \in Meters : WF_vars(PublishOne(d)) /\ WF_vars(DueAgain(d))
    /\ \A p \in Maintainers : WF_vars(ListDuePending(p))

FairSpec == Spec /\ Fairness

-----------------------------------------------------------------------------
\* Type invariant.
TypeOK ==
    /\ meter \in [Meters -> [st : {"none", "pending", "delivered", "skipped"}, due : BOOLEAN]]
    /\ locked \in [Meters -> Maintainers \cup {Nobody}]
    /\ pub \in [Publishers -> [pc : {"idle", "read", "report", "commit"}, todo : SUBSET Meters,
                               cur : Meters \cup {Nobody},
                               outcome : {"none", "reported", "not_reported", "raised"}]]
    /\ counted \in [Meters -> Nat]
    /\ raised \in [Meters -> 0..MaxAttempts]
    /\ faults \in 0..MaxFaults

\* However many publishers report a row, at once or after a lost answer, its
\* usage is billed once: "delivers them to Stripe exactly once".
NeverBilledTwice == \A d \in Meters : counted[d] <= 1

\* A row that says delivered has been billed, whichever of its publishers wrote it.
DeliveredIsBilled == \A d \in Meters : meter[d].st = "delivered" => counted[d] = 1

\* No committed usage is forgotten: its row is delivered, or skipped, in the end.
UsageIsSettled == \A d \in Meters : meter[d].st = "pending" ~> meter[d].st \in {"delivered", "skipped"}
=============================================================================

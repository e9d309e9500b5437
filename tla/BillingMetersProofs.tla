------------------------ MODULE BillingMetersProofs -------------------------
(***************************************************************************)
(* Proofs about BillingMeters, for any set of rows and maintainers and any *)
(* bounds.  That a delivered row has been billed is not inductive: while   *)
(* a publisher is between the answer of Stripe and its commit, the fact is *)
(* only in its outcome.  MeterInv adds that a reported row is counted from *)
(* the answer on, and that Stripe's count of a row is that of its key.     *)
(***************************************************************************)
EXTENDS BillingMeters, TLAPS

\* Stripe has counted a row once if it has seen the key of the row, else never.
CountOfKey == \A d \in Meters : counted[d] = IF <<d>> \in seen THEN 1 ELSE 0

\* A publisher that holds the answer "reported" works on a row that is counted.
ReportedIsCounted ==
    \A p \in Publishers : pub[p].outcome = "reported" => Cur(p) \in Meters /\ <<Cur(p)>> \in seen

DeliveredIsSeen == \A d \in Meters : meter[d].st = "delivered" => <<d>> \in seen

\* Only a publisher that is about to commit has a current row, and it has one.
CommitHasRow == \A p \in Publishers : pub[p].pc = "commit" => Cur(p) \in Meters

MeterInv == TypeOK /\ CountOfKey /\ ReportedIsCounted /\ DeliveredIsSeen /\ CommitHasRow

-----------------------------------------------------------------------------
Pubs == [pc : {"idle", "read", "report", "commit"}, todo : SUBSET Meters,
         cur : Meters \cup {Nobody}, outcome : {"none", "reported", "not_reported", "raised"}]

\* The facts of MeterInv about one publisher, when Stripe has seen keys.
PubOK(q, keys) ==
    /\ q \in Pubs
    /\ q.outcome = "reported" => q.cur \in Meters /\ <<q.cur>> \in keys
    /\ q.pc = "commit" => q.cur \in Meters

\* A step that changes one publisher and forgets no key keeps the facts about all.
LEMMA PubStep ==
    ASSUME MeterInv, NEW p \in Publishers, NEW q, pub' = [pub EXCEPT ![p] = q],
           PubOK(q, seen'), seen \subseteq seen'
    PROVE  /\ pub' \in [Publishers -> Pubs]
           /\ ReportedIsCounted' /\ CommitHasRow'
  BY DEF MeterInv, TypeOK, Pubs, PubOK, ReportedIsCounted, CommitHasRow, Cur

\* A publisher that has ended.
LEMMA IdleOK == Idle \in Pubs /\ Idle.outcome = "none" /\ Idle.pc = "idle"
  BY DEF Idle, Pubs

\* A publisher that starts, or goes on with, a list of rows.
LEMMA WorkingOK ==
    ASSUME NEW rows \in SUBSET Meters
    PROVE  Working(rows) \in Pubs /\ Working(rows).outcome = "none" /\ Working(rows).pc = "report"
  BY DEF Working, Pubs

\* Releasing the locks of a publisher keeps the type of the locks.
LEMMA UnlockType ==
    ASSUME MeterInv, NEW p \in Publishers, Unlock(p)
    PROVE  locked' \in [Meters -> Maintainers \cup {Nobody}]
  BY DEF MeterInv, TypeOK, Unlock

\* Whatever a report does at Stripe, the count of a row is that of its key.
LEMMA CountStep ==
    ASSUME MeterInv, NEW d \in Meters, NEW p, Count(d, p)
    PROVE  CountOfKey' /\ counted' \in [Meters -> Nat] /\ seen \subseteq seen' /\ <<d>> \in seen'
<1>1. seen' = seen \cup {<<d>>}
  BY DEF Count, StripeKey
<1>2. counted' = [counted EXCEPT ![d] = counted[d] + (IF <<d>> \in seen THEN 0 ELSE 1)]
  BY DEF Count, StripeKey
<1>3. counted \in [Meters -> Nat] /\ \A e \in Meters : counted[e] = IF <<e>> \in seen THEN 1 ELSE 0
  BY DEF MeterInv, TypeOK, CountOfKey
<1>4. \A e \in Meters : e # d => <<e>> # <<d>>
  OBVIOUS
<1>5. counted'[d] = 1
  BY <1>2, <1>3
<1>6. \A e \in Meters : e # d => counted'[e] = counted[e]
  BY <1>2, <1>3
<1>7. \A e \in Meters : e # d => (<<e>> \in seen' <=> <<e>> \in seen)
  BY <1>1, <1>4
<1>8. CountOfKey'
  BY <1>1, <1>3, <1>5, <1>6, <1>7 DEF CountOfKey
<1> QED
  BY <1>1, <1>2, <1>3, <1>8

\* The publisher between the answer and its commit.
LEMMA OutcomeStep ==
    ASSUME MeterInv, NEW p \in Publishers, NEW d \in Meters,
           NEW o \in {"reported", "not_reported", "raised"},
           Outcome(p, d, o), o = "reported" => <<d>> \in seen', seen \subseteq seen'
    PROVE  pub' \in [Publishers -> Pubs] /\ ReportedIsCounted' /\ CommitHasRow'
<1> DEFINE q == [pc |-> "commit", todo |-> pub[p].todo \ {d}, cur |-> d, outcome |-> o]
<1>1. pub' = [pub EXCEPT ![p] = q]
  BY DEF Outcome
<1>2. pub[p].todo \subseteq Meters
  BY DEF MeterInv, TypeOK
<1>3. PubOK(q, seen')
  BY <1>2 DEF PubOK, Pubs
<1> HIDE DEF q
<1> QED
  BY <1>1, <1>3, PubStep

-----------------------------------------------------------------------------
\* report_metered_usage answers or raises.
LEMMA ReportSteps ==
    ASSUME MeterInv, NEW p \in Publishers, Answered(p) \/ Raised(p)
    PROVE  MeterInv'
<1>1. CASE Answered(p)
  <2>1. meter' = meter /\ locked' = locked /\ raised' = raised /\ faults' = faults
    BY <1>1 DEF Answered
  <2>2. PICK d \in Meters : \/ Outcome(p, d, "reported") /\ Count(d, p)
                            \/ Outcome(p, d, "not_reported") /\ UNCHANGED <<seen, counted>>
    BY <1>1 DEF Answered
  <2>3. CASE Outcome(p, d, "reported") /\ Count(d, p)
    <3>1. CountOfKey' /\ counted' \in [Meters -> Nat] /\ seen \subseteq seen' /\ <<d>> \in seen'
      BY <2>3, CountStep
    <3>2. pub' \in [Publishers -> Pubs] /\ ReportedIsCounted' /\ CommitHasRow'
      BY <2>3, <3>1, OutcomeStep
    <3> QED
      BY <2>1, <3>1, <3>2 DEF MeterInv, TypeOK, Pubs, DeliveredIsSeen
  <2>4. CASE Outcome(p, d, "not_reported") /\ UNCHANGED <<seen, counted>>
    <3>1. pub' \in [Publishers -> Pubs] /\ ReportedIsCounted' /\ CommitHasRow'
      BY <2>4, OutcomeStep
    <3> QED
      BY <2>1, <2>4, <3>1 DEF MeterInv, TypeOK, Pubs, DeliveredIsSeen, CountOfKey
  <2> QED
    BY <2>2, <2>3, <2>4
<1>2. CASE Raised(p)
  <2>1. meter' = meter /\ locked' = locked /\ faults' = faults
    BY <1>2 DEF Raised
  <2>2. PICK d \in Meters : /\ raised[d] < MaxAttempts
                            /\ raised' = [raised EXCEPT ![d] = @ + 1]
                            /\ Outcome(p, d, "raised")
                            /\ Count(d, p) \/ UNCHANGED <<seen, counted>>
    BY <1>2 DEF Raised
  <2>3. CountOfKey' /\ counted' \in [Meters -> Nat] /\ seen \subseteq seen'
    <3>1. CASE Count(d, p)
      BY <3>1, CountStep
    <3>2. CASE UNCHANGED <<seen, counted>>
      BY <3>2 DEF MeterInv, TypeOK, CountOfKey
    <3> QED
      BY <2>2, <3>1, <3>2
  <2>4. pub' \in [Publishers -> Pubs] /\ ReportedIsCounted' /\ CommitHasRow'
    BY <2>2, <2>3, OutcomeStep
  <2>5. raised' \in [Meters -> 0..MaxAttempts]
    BY <2>2, MeterAssumption DEF MeterInv, TypeOK
  <2> QED
    BY <2>1, <2>3, <2>4, <2>5 DEF MeterInv, TypeOK, Pubs, DeliveredIsSeen
<1> QED
  BY <1>1, <1>2

\* The commit of _deliver writes what Stripe answered.
LEMMA CommitStep ==
    ASSUME MeterInv, NEW p \in Publishers, Commit(p)
    PROVE  MeterInv'
<1>1. Cur(p) \in Meters
  BY DEF MeterInv, CommitHasRow, Commit, At
<1>2. /\ meter' = [meter EXCEPT ![Cur(p)] = Verdict(meter[Cur(p)], pub[p].outcome)]
      /\ seen' = seen /\ counted' = counted /\ raised' = raised /\ faults' = faults
  BY DEF Commit, stripe
<1>3. locked' \in [Meters -> Maintainers \cup {Nobody}]
  BY UnlockType DEF Commit
<1>4. pub' \in [Publishers -> Pubs] /\ ReportedIsCounted' /\ CommitHasRow'
  <2>1. pub[p].todo \subseteq Meters
    BY DEF MeterInv, TypeOK
  <2>2. PubOK(After(p), seen')
    BY <2>1, WorkingOK, IdleOK DEF PubOK, After
  <2>3. pub' = [pub EXCEPT ![p] = After(p)]
    BY DEF Commit
  <2> QED
    BY <1>2, <2>2, <2>3, PubStep
<1> DEFINE old == meter[Cur(p)]
           new == Verdict(old, pub[p].outcome)
<1>5. /\ new.st = IF pub[p].outcome = "reported" THEN "delivered"
                  ELSE IF pub[p].outcome = "not_reported" THEN "skipped" ELSE old.st
      /\ new \in [st : {"none", "pending", "delivered", "skipped"}, due : BOOLEAN]
  <2>1. old \in [st : {"none", "pending", "delivered", "skipped"}, due : BOOLEAN]
    BY <1>1 DEF MeterInv, TypeOK
  <2> HIDE DEF old
  <2>2. new.st = IF pub[p].outcome = "reported" THEN "delivered"
                  ELSE IF pub[p].outcome = "not_reported" THEN "skipped" ELSE old.st
    BY DEF Verdict
  <2>3. new.st \in {"none", "pending", "delivered", "skipped"}
    BY <2>1, <2>2
  <2>4. (old.due /\ pub[p].outcome # "raised") \in BOOLEAN
    BY Zenon
  <2>5. new \in [st : {"none", "pending", "delivered", "skipped"}, due : BOOLEAN]
    BY <2>1, <2>3, <2>4 DEF Verdict
  <2> QED
    BY <2>2, <2>5
<1> HIDE DEF old, new
<1>6. meter' = [meter EXCEPT ![Cur(p)] = new] /\ old = meter[Cur(p)]
  BY <1>2 DEF new, old
<1>7. meter' \in [Meters -> [st : {"none", "pending", "delivered", "skipped"}, due : BOOLEAN]]
  BY <1>1, <1>5, <1>6 DEF MeterInv, TypeOK
<1>8. DeliveredIsSeen'
  <2>1. SUFFICES ASSUME NEW d \in Meters, meter'[d].st = "delivered"
                 PROVE  <<d>> \in seen
    BY <1>2 DEF DeliveredIsSeen
  <2>2. CASE d # Cur(p) \/ pub[p].outcome # "reported"
    <3>1. meter[d].st = "delivered"
      BY <1>1, <1>5, <1>6, <2>1, <2>2 DEF MeterInv, TypeOK
    <3> QED
      BY <3>1 DEF MeterInv, DeliveredIsSeen
  <2>3. CASE d = Cur(p) /\ pub[p].outcome = "reported"
    BY <2>3 DEF MeterInv, ReportedIsCounted
  <2> QED
    BY <2>2, <2>3
<1> QED
  BY <1>2, <1>3, <1>4, <1>7, <1>8 DEF MeterInv, TypeOK, Pubs, CountOfKey

\* record, the hook, the listing, the backoff and rollbacks.
LEMMA OtherSteps ==
    ASSUME MeterInv, \/ \E d \in Meters : Record(d) \/ PublishOne(d) \/ DueAgain(d)
                     \/ \E p \in Maintainers : ListDuePending(p)
                     \/ \E p \in Publishers : Abort(p)
    PROVE  MeterInv'
<1>1. ASSUME NEW d \in Meters, Record(d) PROVE MeterInv'
  <2>1. /\ meter' = [meter EXCEPT ![d] = [st |-> "pending", due |-> TRUE]]
        /\ UNCHANGED <<locked, seen, counted, raised, faults>>
    BY <1>1 DEF Record, stripe, MeterInv, TypeOK
  <2>2. pub' = [pub EXCEPT ![d] = [pub[d] EXCEPT !.pc = "read"]]
    BY <1>1 DEF Record
  <2>3. d \in Publishers
    BY DEF Publishers
  <2>4. PubOK([pub[d] EXCEPT !.pc = "read"], seen')
    <3>1. pub[d] \in Pubs
      BY <2>3 DEF Pubs, MeterInv, TypeOK
    <3>2. pub[d].outcome = "reported" => pub[d].cur \in Meters /\ <<pub[d].cur>> \in seen'
      BY <2>1, <2>3 DEF MeterInv, ReportedIsCounted, Cur
    <3> QED
      BY <3>1, <3>2 DEF PubOK, Pubs
  <2>5. pub' \in [Publishers -> Pubs] /\ ReportedIsCounted' /\ CommitHasRow'
    BY <2>1, <2>2, <2>3, <2>4, PubStep
  <2> QED
    BY <2>1, <2>5 DEF MeterInv, TypeOK, Pubs, DeliveredIsSeen, CountOfKey
<1>2. ASSUME NEW d \in Meters, PublishOne(d) PROVE MeterInv'
  <2> DEFINE q == IF meter[d].st = "pending" THEN Working({d}) ELSE Idle
  <2>1. UNCHANGED <<meter, locked, seen, counted, raised, faults>>
    BY <1>2 DEF PublishOne, stripe
  <2>2. pub' = [pub EXCEPT ![d] = q]
    BY <1>2 DEF PublishOne
  <2>3. d \in Publishers
    BY DEF Publishers
  <2>4. PubOK(q, seen')
    BY IdleOK, WorkingOK, {d} \in SUBSET Meters DEF PubOK
  <2> HIDE DEF q
  <2>5. pub' \in [Publishers -> Pubs] /\ ReportedIsCounted' /\ CommitHasRow'
    BY <2>1, <2>2, <2>3, <2>4, PubStep
  <2> QED
    BY <2>1, <2>5 DEF MeterInv, TypeOK, Pubs, DeliveredIsSeen, CountOfKey
<1>3. ASSUME NEW d \in Meters, DueAgain(d) PROVE MeterInv'
  <2>1. /\ meter' = [meter EXCEPT ![d] = [st |-> "pending", due |-> TRUE]]
        /\ UNCHANGED <<locked, pub, seen, counted, raised, faults>>
    BY <1>3 DEF DueAgain, stripe, MeterInv, TypeOK
  <2> QED
    BY <2>1 DEF MeterInv, TypeOK, DeliveredIsSeen, CountOfKey, ReportedIsCounted, CommitHasRow, Cur
<1>4. ASSUME NEW p \in Maintainers, ListDuePending(p) PROVE MeterInv'
  <2>1. UNCHANGED <<meter, seen, counted, raised, faults>>
    BY <1>4 DEF ListDuePending, stripe
  <2>2. PICK rows \in SUBSET Meters :
          /\ locked' = [d \in Meters |-> IF d \in rows THEN p ELSE locked[d]]
          /\ pub' = [pub EXCEPT ![p] = Working(rows)]
    <3> DEFINE listed == {d \in Due : locked[d] = Nobody}
    <3>1. listed \in SUBSET Meters
      BY DEF Due
    <3> QED
      BY <1>4, <3>1 DEF ListDuePending
  <2>3. p \in Publishers
    BY DEF Publishers
  <2>4. PubOK(Working(rows), seen')
    BY WorkingOK DEF PubOK
  <2>5. pub' \in [Publishers -> Pubs] /\ ReportedIsCounted' /\ CommitHasRow'
    BY <2>1, <2>2, <2>3, <2>4, PubStep
  <2> QED
    BY <2>1, <2>2, <2>5 DEF MeterInv, TypeOK, Pubs, DeliveredIsSeen, CountOfKey
<1>5. ASSUME NEW p \in Publishers, Abort(p) PROVE MeterInv'
  <2>1. UNCHANGED <<meter, seen, counted, raised>> /\ faults' \in 0..MaxFaults
    BY <1>5, MeterAssumption DEF Abort, Fault, stripe, MeterInv, TypeOK
  <2>2. locked' \in [Meters -> Maintainers \cup {Nobody}]
    BY <1>5, UnlockType DEF Abort
  <2>3. PubOK(Idle, seen')
    BY IdleOK DEF PubOK
  <2>4. pub' \in [Publishers -> Pubs] /\ ReportedIsCounted' /\ CommitHasRow'
    BY <1>5, <2>1, <2>3, PubStep DEF Abort
  <2> QED
    BY <2>1, <2>2, <2>4 DEF MeterInv, TypeOK, Pubs, DeliveredIsSeen, CountOfKey
<1> QED
  BY <1>1, <1>2, <1>3, <1>4, <1>5

-----------------------------------------------------------------------------
\* MeterInv is an invariant: whatever hooks, overlapping passes, lost answers
\* and rollbacks do, Stripe's records and the rows agree.
THEOREM MeterInvariant == Spec => []MeterInv
<1>1. Init => MeterInv
  BY MeterAssumption, IdleOK DEF Init, MeterInv, TypeOK, CountOfKey, ReportedIsCounted, DeliveredIsSeen,
     CommitHasRow, Cur, Idle, Publishers
<1>2. MeterInv /\ [Next]_vars => MeterInv'
  <2> SUFFICES ASSUME MeterInv, [Next]_vars PROVE MeterInv'
    OBVIOUS
  <2>1. CASE UNCHANGED vars
    BY <2>1 DEF vars, MeterInv, TypeOK, CountOfKey, ReportedIsCounted, DeliveredIsSeen, CommitHasRow, Cur
  <2>2. CASE \E p \in Publishers : Deliver(p)
    BY <2>2, ReportSteps, CommitStep DEF Deliver
  <2>3. CASE \/ \E d \in Meters : Record(d) \/ PublishOne(d) \/ DueAgain(d)
             \/ \E p \in Maintainers : ListDuePending(p)
             \/ \E p \in Publishers : Abort(p)
    BY <2>3, OtherSteps
  <2> QED
    BY <2>1, <2>2, <2>3 DEF Next
<1> QED
  BY <1>1, <1>2, PTL DEF Spec

\* The hook, the passes and their failures keep every variable in its type.
THEOREM MeterTypeCorrect == Spec => []TypeOK
<1> MeterInv => TypeOK
  BY DEF MeterInv
<1> QED
  BY MeterInvariant, PTL

\* For any number of publishers that report a row at once or again after a lost
\* answer, _deliver bills its usage at most once.
THEOREM BilledAtMostOnce == Spec => []NeverBilledTwice
<1> MeterInv => NeverBilledTwice
  <2> SUFFICES ASSUME MeterInv, NEW d \in Meters PROVE counted[d] <= 1
    BY DEF NeverBilledTwice
  <2>1. counted[d] = 0 \/ counted[d] = 1
    BY DEF MeterInv, CountOfKey
  <2> QED
    BY <2>1
<1> QED
  BY MeterInvariant, PTL

\* Whichever publisher commits last, a row marked delivered has been billed.
THEOREM DeliveredAlwaysBilled == Spec => []DeliveredIsBilled
<1> MeterInv => DeliveredIsBilled
  BY DEF MeterInv, CountOfKey, DeliveredIsSeen, DeliveredIsBilled
<1> QED
  BY MeterInvariant, PTL
=============================================================================

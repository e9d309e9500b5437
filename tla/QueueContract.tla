---------------------------- MODULE QueueContract ----------------------------
(***************************************************************************)
(* What backend/queue/base.py (QueueAdapter) promises to the runtime,      *)
(* whatever the backend: where the work of a task is, who owns it, and     *)
(* which dispatch identities have been published.  Nothing is said about   *)
(* order, indexes or payload encoding.  RedisQueue implements this module. *)
(***************************************************************************)
CONSTANTS Tasks, Workers, DispatchKeys, NoOwner

VARIABLES
    live,   \* live[t] \in {"absent", "pending", "processing"}
    owner,  \* the worker that owns t's processing work, or NoOwner
    dead,   \* tasks in the dead-letter store
    spent   \* dispatch identities already published

cvars == <<live, owner, dead, spent>>

Init ==
    /\ live = [t \in Tasks |-> "absent"]
    /\ owner = [t \in Tasks |-> NoOwner]
    /\ dead = {}
    /\ spent = {}

Move(t, place, w) ==
    /\ live' = [live EXCEPT ![t] = place]
    /\ owner' = [owner EXCEPT ![t] = w]

\* The caller may act for e: e owns the work, or nobody does.
Uncontested(t, e) == owner[t] \in {NoOwner, e}

\* enqueue_task
Publish(t) ==
    /\ live[t] = "absent"
    /\ Move(t, "pending", NoOwner)
    /\ UNCHANGED <<dead, spent>>

\* enqueue_task_idempotent: "Publish one message exactly once for a stable
\* dispatch identity."
PublishOnce(t, k) ==
    /\ live[t] = "absent"
    /\ k \notin spent
    /\ Move(t, "pending", NoOwner)
    /\ spent' = spent \cup {k}
    /\ UNCHANGED dead

\* cancel_task: "Remove pending copies of a cancelled task without overriding
\* an active owner."
Withdraw(t) ==
    /\ live[t] = "pending"
    /\ Move(t, "absent", NoOwner)
    /\ UNCHANGED <<dead, spent>>

\* claim_task, claim_existing_task: only existing pending work is claimed.
Claim(t, w) ==
    /\ live[t] = "pending"
    /\ Move(t, "processing", w)
    /\ UNCHANGED <<dead, spent>>

\* complete_task
Finish(t, w) ==
    /\ live[t] = "processing"
    /\ owner[t] = w
    /\ Move(t, "absent", NoOwner)
    /\ UNCHANGED <<dead, spent>>

\* release_lease, recover_task_for_retry: "Converge recoverable expired work
\* to one pending payload", and never synthesize work.
Requeue(t, e) ==
    /\ live[t] # "absent"
    /\ Uncontested(t, e)
    /\ Move(t, "pending", NoOwner)
    /\ UNCHANGED <<dead, spent>>

\* fail_task, move_owned_to_dead_letter, and move_to_dead_letter (e = NoOwner):
\* "only when no active queue owner must be overridden".
DeadLetter(t, e) ==
    /\ Uncontested(t, e)
    /\ Move(t, "absent", NoOwner)
    /\ dead' = dead \cup {t}
    /\ UNCHANGED spent

\* retry_dead_letter
Revive(t) ==
    /\ t \in dead
    /\ live[t] = "absent"
    /\ Move(t, "pending", NoOwner)
    /\ dead' = dead \ {t}
    /\ UNCHANGED spent

\* The owner stops proving that it is alive.
Lapse(t) ==
    /\ owner[t] # NoOwner
    /\ Move(t, live[t], NoOwner)
    /\ UNCHANGED <<dead, spent>>

Next ==
    \E t \in Tasks :
      \/ Publish(t) \/ Withdraw(t) \/ Revive(t) \/ Lapse(t)
      \/ DeadLetter(t, NoOwner)
      \/ \E k \in DispatchKeys : PublishOnce(t, k)
      \/ \E w \in Workers :
           Claim(t, w) \/ Finish(t, w) \/ Requeue(t, w) \/ DeadLetter(t, w)

Spec == Init /\ [][Next]_cvars
=============================================================================

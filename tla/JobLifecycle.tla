---------------------------- MODULE JobLifecycle ----------------------------
(***************************************************************************)
(* What the training queue promises, with no workers, heartbeats or locks: *)
(* a user has at most one job waiting or running; a job runs, perhaps      *)
(* several times, until it settles; a settled job changes no more; and a   *)
(* job disappears only when it has settled or with its owner's account.    *)
(* TrainingQueue implements this as long as no worker is paused.           *)
(***************************************************************************)
CONSTANTS Job, User, NoUser

VARIABLES
    status,     \* each job's state
    owner       \* whose job it is; NoUser before it exists and after

vars == <<status, owner>>

States == {"new", "queued", "running", "succeeded", "failed", "erased"}
Settled == {"succeeded", "failed"}

TypeOK ==
    /\ status \in [Job -> States]
    /\ owner \in [Job -> User \cup {NoUser}]

Init ==
    /\ status = [j \in Job |-> "new"]
    /\ owner = [j \in Job |-> NoUser]

Active(j) == status[j] \in {"queued", "running"}

\* The user queues a job, having no other that waits or runs.
Queue(u, j) ==
    /\ status[j] = "new"
    /\ \A k \in Job : owner[k] = u => ~Active(k)
    /\ status' = [status EXCEPT ![j] = "queued"]
    /\ owner' = [owner EXCEPT ![j] = u]

Start(j) ==
    /\ status[j] = "queued"
    /\ status' = [status EXCEPT ![j] = "running"]
    /\ UNCHANGED owner

\* A deployment interrupts the run; the job waits for its next one.
Requeue(j) ==
    /\ status[j] = "running"
    /\ status' = [status EXCEPT ![j] = "queued"]
    /\ UNCHANGED owner

Succeed(j) ==
    /\ status[j] = "running"
    /\ status' = [status EXCEPT ![j] = "succeeded"]
    /\ UNCHANGED owner

\* Runs fail, alone or because they are all found abandoned.
Fail(S) ==
    /\ S # {} /\ \A j \in S : status[j] = "running"
    /\ status' = [j \in Job |-> IF j \in S THEN "failed" ELSE status[j]]
    /\ UNCHANGED owner

Erase(S) ==
    /\ status' = [j \in Job |-> IF j \in S THEN "erased" ELSE status[j]]
    /\ owner' = [j \in Job |-> IF j \in S THEN NoUser ELSE owner[j]]

\* Settled jobs are cleared by their owner or age out.
Forget(S) ==
    /\ S # {} /\ \A j \in S : status[j] \in Settled
    /\ Erase(S)

CloseAccount(u) == Erase({j \in Job : owner[j] = u})

Next ==
    \/ \E u \in User, j \in Job : Queue(u, j)
    \/ \E j \in Job : Start(j) \/ Requeue(j) \/ Succeed(j)
    \/ \E S \in SUBSET Job : Fail(S) \/ Forget(S)
    \/ \E u \in User : CloseAccount(u)

Spec == Init /\ [][Next]_vars
=============================================================================

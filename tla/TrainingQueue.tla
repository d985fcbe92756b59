---------------------------- MODULE TrainingQueue ----------------------------
(***************************************************************************)
(* The training queue of NC++: the training_jobs table, the API handlers   *)
(* that write it, and the worker processes that claim rows, run the        *)
(* trainer as a subprocess, prove liveness with heartbeats and give up     *)
(* rows whose worker went silent.                                          *)
(*                                                                         *)
(* One action is one database transaction or one decision of the worker    *)
(* loop.  An UPDATE issued through the ORM is "UPDATE ... WHERE id = ?"    *)
(* with no test of the status the row has by then, so Beat, Record and     *)
(* Release write whatever row they find; when the row is gone the flush    *)
(* raises and the exception reaches the worker loop.                       *)
(*                                                                         *)
(* Time is counted in ticks of one heartbeat interval.  A worker that is   *)
(* "up" beats before its row is older than BeatBy ticks; a "paused" worker *)
(* (frozen VM, hung commit, partition) takes no step; a "late" one runs    *)
(* again but has not beaten a running row since.                           *)
(***************************************************************************)
EXTENDS Integers

CONSTANTS
    User,           \* accounts
    Worker,         \* worker processes (docker compose --scale worker=N)
    MaxJobs,        \* bound: rows ever inserted; ids are in created_at order
    BeatEvery,      \* age at which a beat is due (JOB_HEARTBEAT_SECONDS)
    BeatBy,         \* age by which a healthy worker has beaten (+ poll, latency)
    Stale,          \* age above which a row is reclaimed (JOB_HEARTBEAT_STALE_SECONDS)
    Faults,         \* kinds of disturbance considered, a subset of FaultKind
    MaxFaults,      \* bound: disturbances in one behaviour
    NoRow, NoJob, Null

FaultKind == {"signal", "crash", "dberror", "pause"}

ASSUME TimingAssumption ==
    /\ BeatEvery \in Nat \ {0}
    /\ BeatBy \in Nat
    /\ Stale \in Nat
    /\ BeatEvery <= BeatBy
    /\ BeatBy <= Stale

ASSUME BoundsAssumption ==
    /\ MaxJobs \in Nat
    /\ MaxFaults \in Nat
    /\ Faults \subseteq FaultKind

Job == 1..MaxJobs

Status == {"queued", "running", "succeeded", "failed"}
Terminal == {"succeeded", "failed"}
Age == 0..(Stale + 1)
Row == [user: User, status: Status, hb: Age \cup {Null}]

ASSUME NullAssumption ==
    /\ NoJob \notin Job
    /\ Null \notin Nat
    /\ NoRow \notin Row
    /\ NoRow \notin User

\* Where a worker's loop is: at its top; after reclaim_stale; holding the row
\* lock of claim_one; claim committed; supervising the subprocess; with an
\* outcome it has not recorded yet; not running.
Place == {"top", "claim", "locked", "claimed", "running",
          "ok", "failed", "aborted", "gone"}

VARIABLES
    row,        \* the training_jobs table
    next,       \* the next job id
    users,      \* the accounts that exist
    pc,         \* where each worker's loop is
    cur,        \* the job each worker holds ("current" in main)
    mode,       \* "up", "paused" or "late"
    shutdown,   \* the worker's _shutdown flag
    live,       \* trainer subprocesses alive, by the worker that started them
    faults      \* disturbances so far

vars == <<row, next, users, pc, cur, mode, shutdown, live, faults>>
table == <<row, next, users>>

TypeOK ==
    /\ row \in [Job -> Row \cup {NoRow}]
    /\ next \in 1..(MaxJobs + 1)
    /\ users \subseteq User
    /\ pc \in [Worker -> Place]
    /\ cur \in [Worker -> Job \cup {NoJob}]
    /\ mode \in [Worker -> {"up", "paused", "late"}]
    /\ shutdown \in [Worker -> BOOLEAN]
    /\ live \in [Worker -> SUBSET Job]
    /\ faults \in 0..MaxFaults

Init ==
    /\ row = [j \in Job |-> NoRow]
    /\ next = 1
    /\ users = User
    /\ pc = [w \in Worker |-> "top"]
    /\ cur = [w \in Worker |-> NoJob]
    /\ mode = [w \in Worker |-> "up"]
    /\ shutdown = [w \in Worker |-> FALSE]
    /\ live = [w \in Worker |-> {}]
    /\ faults = 0

-----------------------------------------------------------------------------
(* The table.                                                              *)

Exists(j) == row[j] # NoRow
Has(j, s) == Exists(j) /\ row[j].status = s
Owns(j, u) == Exists(j) /\ row[j].user = u

\* The rows the partial unique index covers.
Indexed(r) == r.status \in {"queued", "running"}

\* Mutant: the index's predicate forgets the running jobs.
BugSlotFree(u, j) ==
    \A k \in Job \ {j} : ~(Owns(k, u) /\ row[k].status = "queued")

\* The index accepts an active row of user u at key j.
SlotFree(u, j) ==
    \A k \in Job \ {j} : ~(Owns(k, u) /\ Indexed(row[k]))

\* The row lock claim_one holds between its SELECT and its commit.
Locked(j) == \E w \in Worker : pc[w] = "locked" /\ cur[w] = j

\* Mutants: an outcome recorded under a name that is no JobStatus, a claim that
\* stamps no heartbeat, a release that fails the job, a reclaim that requeues, a
\* reclaim that does not wait, a reclaim that tests the heartbeat alone.
BugRecorded(r, s) == [r EXCEPT !.status = IF s = "succeeded" THEN "ok" ELSE s]
BugClaimed(r) == [r EXCEPT !.status = "running", !.hb = Null]
BugReleased(r) == [r EXCEPT !.status = "failed"]
BugReclaimed(r) == [r EXCEPT !.status = "queued", !.hb = Null]
BugIsStale(r) == r.status = "running" /\ r.hb # Null /\ r.hb >= BeatEvery
BugIsStaleAnyStatus(r) == r.hb # Null /\ r.hb > Stale

NewRow(u) == [user |-> u, status |-> "queued", hb |-> Null]
Claimed(r) == [r EXCEPT !.status = "running", !.hb = 0]
Beaten(r) == [r EXCEPT !.hb = 0]
Recorded(r, s) == [r EXCEPT !.status = s]
Released(r) == [r EXCEPT !.status = "queued", !.hb = Null]
Reclaimed(r) == [r EXCEPT !.status = "failed"]

\* SQL's comparison is not true of a NULL heartbeat_at.
IsStale(r) ==
    /\ r.status = "running"
    /\ r.hb # Null
    /\ r.hb > Stale

-----------------------------------------------------------------------------
(* The API.                                                                *)

\* POST /train/{model}/run that answers 202.  Every other answer (503, 404,
\* 422, and the 409 of the unique index) leaves the table as it was.
Submit(u) ==
    /\ u \in users
    /\ next <= MaxJobs
    /\ SlotFree(u, next)
    /\ row' = [row EXCEPT ![next] = NewRow(u)]
    /\ next' = next + 1
    /\ UNCHANGED <<users, pc, cur, mode, shutdown, live, faults>>

\* DELETE /train/jobs: one DELETE of the caller's terminal rows.
ClearFinished(u) ==
    LET gone == {j \in Job : Owns(j, u) /\ row[j].status \in Terminal}
    IN  /\ gone # {}
        /\ row' = [j \in Job |-> IF j \in gone THEN NoRow ELSE row[j]]
        /\ UNCHANGED <<next, users, pc, cur, mode, shutdown, live, faults>>

\* DELETE /users/me: the jobs go with the account (ON DELETE CASCADE), which
\* waits for a row lock that claim_one holds.
DeleteAccount(u) ==
    /\ u \in users
    /\ \A j \in Job : Owns(j, u) => ~Locked(j)
    /\ users' = users \ {u}
    /\ row' = [j \in Job |-> IF Owns(j, u) THEN NoRow ELSE row[j]]
    /\ UNCHANGED <<next, pc, cur, mode, shutdown, live, faults>>

-----------------------------------------------------------------------------
(* The worker loop.                                                        *)

Runs(w) == mode[w] # "paused"

\* Every disturbance is one of the kinds considered and uses up the budget.
Disturb(kind) ==
    /\ kind \in Faults
    /\ faults < MaxFaults
    /\ faults' = faults + 1

\* purge_finished_jobs.  Which terminal rows are past the retention age is
\* left open: thirty days are no multiple of the ticks the model counts.
PurgeFinished(w) ==
    /\ Runs(w) /\ pc[w] = "top" /\ ~shutdown[w]
    /\ \E old \in SUBSET {j \in Job : Exists(j) /\ row[j].status \in Terminal} :
          /\ old # {}
          /\ row' = [j \in Job |-> IF j \in old THEN NoRow ELSE row[j]]
    /\ UNCHANGED <<next, users, pc, cur, mode, shutdown, live, faults>>

\* reclaim_stale: fail every row whose heartbeat is too old.
ReclaimStale(w) ==
    /\ Runs(w) /\ pc[w] = "top" /\ ~shutdown[w]
    /\ row' = [j \in Job |-> IF Exists(j) /\ IsStale(row[j])
                             THEN Reclaimed(row[j]) ELSE row[j]]
    /\ pc' = [pc EXCEPT ![w] = "claim"]
    /\ UNCHANGED <<next, users, cur, mode, shutdown, live, faults>>

\* Mutant: a claim that does not lock.
BugClaimable == {j \in Job : Has(j, "queued")}

\* claim_one's SELECT ... FOR UPDATE SKIP LOCKED: the oldest queued row that
\* nobody has locked.
Claimable == {j \in Job : Has(j, "queued") /\ ~Locked(j)}

ClaimSelect(w) ==
    /\ Runs(w) /\ pc[w] = "claim"
    /\ \E j \in Claimable :
          /\ \A k \in Claimable : j <= k
          /\ cur' = [cur EXCEPT ![w] = j]
    /\ pc' = [pc EXCEPT ![w] = "locked"]
    /\ UNCHANGED <<table, mode, shutdown, live, faults>>

ClaimNothing(w) ==
    /\ Runs(w) /\ pc[w] = "claim" /\ Claimable = {}
    /\ pc' = [pc EXCEPT ![w] = "top"]
    /\ UNCHANGED <<table, cur, mode, shutdown, live, faults>>

\* claim_one's commit, which stamps the first heartbeat.
ClaimCommit(w) ==
    /\ Runs(w) /\ pc[w] = "locked"
    /\ row' = [row EXCEPT ![cur[w]] = Claimed(@)]
    /\ pc' = [pc EXCEPT ![w] = "claimed"]
    /\ mode' = [mode EXCEPT ![w] = "up"]
    /\ UNCHANGED <<next, users, cur, shutdown, live, faults>>

\* The loop's except clause: the session is replaced, current is dropped.
BackOff(w) ==
    /\ cur' = [cur EXCEPT ![w] = NoJob]
    /\ pc' = [pc EXCEPT ![w] = "top"]

\* execute up to Popen: the row is read again and the trainer started.
Start(w) ==
    /\ Runs(w) /\ pc[w] = "claimed" /\ Exists(cur[w])
    /\ live' = [live EXCEPT ![w] = @ \cup {cur[w]}]
    /\ pc' = [pc EXCEPT ![w] = "running"]
    /\ UNCHANGED <<table, cur, mode, shutdown, faults>>

\* An unknown model, a missing binary, no space for the log file.
StartFails(w) ==
    /\ Runs(w) /\ pc[w] = "claimed" /\ Exists(cur[w])
    /\ pc' = [pc EXCEPT ![w] = "failed"]
    /\ UNCHANGED <<table, cur, mode, shutdown, live, faults>>

BeatDue(j) == row[j].hb # Null /\ row[j].hb >= BeatEvery

\* run_training's poll loop calls beat.
Beat(w) ==
    /\ Runs(w) /\ pc[w] = "running" /\ cur[w] \in live[w]
    /\ Exists(cur[w]) /\ BeatDue(cur[w])
    /\ row' = [row EXCEPT ![cur[w]] = Beaten(@)]
    /\ mode' = [mode EXCEPT ![w] = IF row[cur[w]].status = "running" THEN "up" ELSE @]
    /\ UNCHANGED <<next, users, pc, cur, shutdown, live, faults>>

\* The row is gone: reading it, beating it or recording into it raises, and
\* the exception reaches the loop.  A trainer that runs is not stopped.
RowVanished(w) ==
    /\ Runs(w)
    /\ \/ pc[w] \in {"claimed", "ok", "failed"}
       \/ pc[w] = "running" /\ cur[w] \in live[w]
    /\ ~Exists(cur[w])
    /\ BackOff(w)
    /\ UNCHANGED <<table, mode, shutdown, live, faults>>

\* proc.poll() reports that the trainer exited.
Reap(w) ==
    /\ Runs(w) /\ pc[w] = "running" /\ cur[w] \notin live[w]
    /\ \E outcome \in {"ok", "failed"} : pc' = [pc EXCEPT ![w] = outcome]
    /\ UNCHANGED <<table, cur, mode, shutdown, live, faults>>

\* Past its deadline, the trainer is killed.
TimeOut(w) ==
    /\ Runs(w) /\ pc[w] = "running" /\ cur[w] \in live[w]
    /\ live' = [live EXCEPT ![w] = @ \ {cur[w]}]
    /\ pc' = [pc EXCEPT ![w] = "failed"]
    /\ UNCHANGED <<table, cur, mode, shutdown, faults>>

\* should_abort answered TRUE: the trainer is killed.
Abort(w) ==
    /\ Runs(w) /\ pc[w] = "running" /\ cur[w] \in live[w] /\ shutdown[w]
    /\ live' = [live EXCEPT ![w] = @ \ {cur[w]}]
    /\ pc' = [pc EXCEPT ![w] = "aborted"]
    /\ UNCHANGED <<table, cur, mode, shutdown, faults>>

\* execute's last commit.
Record(w) ==
    /\ Runs(w) /\ pc[w] \in {"ok", "failed"} /\ Exists(cur[w])
    /\ row' = [row EXCEPT ![cur[w]] =
                  Recorded(@, IF pc[w] = "ok" THEN "succeeded" ELSE "failed")]
    /\ BackOff(w)
    /\ UNCHANGED <<next, users, mode, shutdown, live, faults>>

\* The process is gone, and its flags with it.
Exit(w) ==
    /\ cur' = [cur EXCEPT ![w] = NoJob]
    /\ pc' = [pc EXCEPT ![w] = "gone"]
    /\ mode' = [mode EXCEPT ![w] = "up"]
    /\ shutdown' = [shutdown EXCEPT ![w] = FALSE]

\* release on the way out.  A vanished row or a conflict with the unique
\* index is logged and swallowed.
Release(w) ==
    /\ Runs(w) /\ pc[w] = "aborted"
    /\ IF Exists(cur[w]) /\ SlotFree(row[cur[w]].user, cur[w])
       THEN row' = [row EXCEPT ![cur[w]] = Released(@)]
       ELSE UNCHANGED row
    /\ Exit(w)
    /\ UNCHANGED <<next, users, live, faults>>

\* The loop sees _shutdown with nothing to release.
Stop(w) ==
    /\ Runs(w) /\ pc[w] = "top" /\ shutdown[w]
    /\ Exit(w)
    /\ UNCHANGED <<table, live, faults>>

-----------------------------------------------------------------------------
(* The environment.                                                        *)

\* SIGTERM or SIGINT.
Signal(w) ==
    /\ pc[w] # "gone" /\ ~shutdown[w]
    /\ Disturb("signal")
    /\ shutdown' = [shutdown EXCEPT ![w] = TRUE]
    /\ UNCHANGED <<table, pc, cur, mode, live>>

\* The process dies; its trainers die with the container or outlive it.
Crash(w) ==
    /\ pc[w] # "gone"
    /\ Disturb("crash")
    /\ Exit(w)
    /\ live' \in {live, [live EXCEPT ![w] = {}]}
    /\ UNCHANGED table

\* A database step raises.  Only the commit of a claim can both raise and
\* have been applied with an effect no other action has.
DbError(w) ==
    /\ Runs(w) /\ pc[w] \in {"claim", "locked", "claimed", "running", "ok", "failed"}
    /\ Disturb("dberror")
    /\ BackOff(w)
    /\ \/ UNCHANGED row
       \/ pc[w] = "locked" /\ row' = [row EXCEPT ![cur[w]] = Claimed(@)]
    /\ UNCHANGED <<next, users, mode, shutdown, live>>

\* release raises: the row is left as it is.
ReleaseLost(w) ==
    /\ Runs(w) /\ pc[w] = "aborted"
    /\ Disturb("dberror")
    /\ Exit(w)
    /\ UNCHANGED <<table, live>>

Pause(w) ==
    /\ pc[w] # "gone" /\ mode[w] # "paused"
    /\ Disturb("pause")
    /\ mode' = [mode EXCEPT ![w] = "paused"]
    /\ UNCHANGED <<table, pc, cur, shutdown, live>>

Resume(w) ==
    /\ mode[w] = "paused"
    /\ mode' = [mode EXCEPT ![w] = "late"]
    /\ UNCHANGED <<table, pc, cur, shutdown, live, faults>>

\* The orchestrator starts the worker again.
Restart(w) ==
    /\ pc[w] = "gone"
    /\ pc' = [pc EXCEPT ![w] = "top"]
    /\ UNCHANGED <<table, cur, mode, shutdown, live, faults>>

\* A trainer ends by itself, supervised or not.
TrainerExits(w) ==
    /\ \E j \in live[w] : live' = [live EXCEPT ![w] = @ \ {j}]
    /\ UNCHANGED <<table, pc, cur, mode, shutdown, faults>>

\* A worker that holds a claimed job and has not recorded or released it.
Supervises(w) == pc[w] \in {"claimed", "running", "ok", "failed", "aborted"}

\* Ages are counted up to the first one that is stale.
Older(r) ==
    IF r.status = "running" /\ r.hb # Null /\ r.hb <= Stale
    THEN [r EXCEPT !.hb = @ + 1] ELSE r

\* One heartbeat interval passes.  A worker that is up never lets its row
\* grow older than BeatBy.
Tick ==
    /\ \A w \in Worker :
          (Supervises(w) /\ mode[w] = "up" /\ Has(cur[w], "running") /\ row[cur[w]].hb # Null)
              => row[cur[w]].hb < BeatBy
    /\ row' = [j \in Job |-> IF Exists(j) THEN Older(row[j]) ELSE NoRow]
    /\ row' # row
    /\ UNCHANGED <<next, users, pc, cur, mode, shutdown, live, faults>>

-----------------------------------------------------------------------------

Api == \E u \in User : Submit(u) \/ ClearFinished(u) \/ DeleteAccount(u)

Work(w) ==
    \/ ReclaimStale(w) \/ ClaimSelect(w) \/ ClaimNothing(w) \/ ClaimCommit(w)
    \/ Start(w) \/ StartFails(w) \/ Beat(w) \/ RowVanished(w) \/ Reap(w)
    \/ TimeOut(w) \/ Abort(w) \/ Record(w) \/ Release(w) \/ Stop(w)

Environment(w) ==
    \/ Signal(w) \/ Crash(w) \/ DbError(w) \/ ReleaseLost(w)
    \/ Pause(w) \/ Resume(w) \/ Restart(w) \/ TrainerExits(w)

Next ==
    \/ Api
    \/ \E w \in Worker : Work(w) \/ PurgeFinished(w) \/ Environment(w)
    \/ Tick

Spec == Init /\ [][Next]_vars

\* What the deployment schedules: a worker that is not paused goes on with
\* its loop and enforces the trainer's deadline, time passes, a pause ends,
\* and a worker that died is started again.  Clients and trainers owe nothing.
Fairness ==
    /\ \A w \in Worker :
          /\ WF_vars(Work(w))
          /\ WF_vars(TimeOut(w))
          /\ WF_vars(Resume(w))
          /\ WF_vars(Restart(w))
    /\ WF_vars(Tick)

FairSpec == Spec /\ Fairness

-----------------------------------------------------------------------------
(* Safety.                                                                 *)

\* No user ever has two queued or running jobs, although a release can put a
\* job back that another worker failed and whose owner queued a new one
\* meanwhile (TrainingJob.__table_args__, worker.release).
OneActivePerUser ==
    \A j, k \in Job :
        /\ Exists(j) /\ row[j].status \in {"queued", "running"}
        /\ Exists(k) /\ row[k].status \in {"queued", "running"}
        /\ row[j].user = row[k].user
        => j = k

\* A job's trainer never runs in two workers at once, whatever pauses, dies or
\* is reclaimed: because reclaim_stale fails a row and never requeues it, and
\* a release comes after the kill.
OneTrainerPerJob ==
    \A v, w \in Worker : v # w => live[v] \cap live[w] = {}

\* A worker that has not been paused since its last beat still has its job:
\* nobody failed it, requeued it or let another worker claim it.  Only the
\* owner's account deletion takes the row away (worker.reclaim_stale).
HealthyWorkerKeepsJob ==
    \A w \in Worker :
        Supervises(w) /\ mode[w] = "up" /\ Exists(cur[w])
            => row[cur[w]].status = "running"

\* A recorded success is never revoked; the row can only be deleted
\* (TrainingJob.JobStatus: succeeded is terminal).
SucceededIsFinal ==
    [][\A j \in Job :
          Has(j, "succeeded") => Has(j, "succeeded")' \/ ~Exists(j)']_vars

\* A graceful shutdown costs a healthy worker's user nothing: the release
\* never meets the unique index and the job is queued again (worker.release).
GracefulRequeue ==
    [][\A w \in Worker, j \in Job :
          Release(w) /\ mode[w] = "up" /\ cur[w] = j /\ Exists(j)
              => Has(j, "queued")']_vars

\* What a row promises: its user's only active job, and one trainer for it.
JobsAreExclusive == OneActivePerUser /\ OneTrainerPerJob

\* What a worker's last write promises: it revokes no success, and a shutdown
\* costs nobody a job (worker.execute, worker.release).
OutcomesAreKept == SucceededIsFinal /\ GracefulRequeue

\* The table as the abstract lifecycle sees it.
jobStatus == [j \in Job |-> IF Exists(j) THEN row[j].status
                            ELSE IF j < next THEN "erased" ELSE "new"]
jobOwner == [j \in Job |-> IF Exists(j) THEN row[j].user ELSE NoRow]

Lifecycle == INSTANCE JobLifecycle WITH
    NoUser <- NoRow, status <- jobStatus, owner <- jobOwner

\* As long as no worker is paused, the table, its workers, their crashes,
\* shutdowns and lost connections keep the promise of JobLifecycle: settled
\* jobs are final, a job runs only after it was queued, and so on.
ImplementsLifecycle == Lifecycle!Spec

-----------------------------------------------------------------------------
(* Why the safety properties hold: the parts of the inductive invariant.   *)

\* Ids are handed out once; no worker or trainer has one from the future.
IdsUsed ==
    /\ \A j \in Job : Exists(j) => j < next
    /\ \A w \in Worker : cur[w] \in Job => cur[w] < next
    /\ \A w \in Worker : \A j \in live[w] : j < next

\* A worker holds a job exactly while it claims or supervises one.
HoldsJob ==
    \A w \in Worker : cur[w] \in Job <=> (pc[w] = "locked" \/ Supervises(w))

\* A row stays queued while a worker holds its lock.
LockHolds == \A w \in Worker : pc[w] = "locked" => Has(cur[w], "queued")

\* A supervised row is running, or failed by another worker, or gone: only
\* its own worker can put it back on the queue or record a success.
SupervisedRow ==
    \A w \in Worker :
        Supervises(w) /\ Exists(cur[w]) => row[cur[w]].status \in {"running", "failed"}

\* No two workers hold the same job.
HoldersDiffer ==
    \A v, w \in Worker : cur[v] \in Job /\ cur[v] = cur[w] => v = w

\* A live trainer is supervised, or it is an orphan whose row nobody holds
\* and that is not queued.
TrainersAccounted ==
    \A w \in Worker : \A j \in live[w] :
        \/ pc[w] = "running" /\ cur[w] = j
        \/ ~Has(j, "queued") /\ \A v \in Worker : cur[v] # j

\* A healthy worker's row is young enough not to be reclaimed.
HealthyIsYoung ==
    \A w \in Worker :
        Supervises(w) /\ mode[w] = "up" /\ Exists(cur[w])
            => /\ row[cur[w]].status = "running"
               /\ row[cur[w]].hb \in 0..BeatBy

\* A running row has a heartbeat, so that reclaim_stale can find it.
RunningHasHeartbeat ==
    \A j \in Job : Has(j, "running") => row[j].hb \in Age

IInv ==
    /\ TypeOK
    /\ IdsUsed
    /\ HoldsJob
    /\ LockHolds
    /\ SupervisedRow
    /\ HoldersDiffer
    /\ TrainersAccounted
    /\ HealthyIsYoung
    /\ RunningHasHeartbeat
    /\ OneActivePerUser
    /\ OneTrainerPerJob

-----------------------------------------------------------------------------
(* Liveness.                                                               *)

\* Nobody is locked out: an active job leaves the active states in the end,
\* whatever happened to the worker that claimed it (worker.reclaim_stale).
SlotFreed ==
    \A j \in Job :
        (Exists(j) /\ row[j].status \in {"queued", "running"})
            ~> ~(Exists(j) /\ row[j].status \in {"queued", "running"})
=============================================================================

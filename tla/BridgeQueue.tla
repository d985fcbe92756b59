----------------------------- MODULE BridgeQueue -----------------------------
(***************************************************************************)
(* The feasibility runs of NC++'s bridge: the bridge_jobs queue, the       *)
(* handlers that feed it, the drain threads and the seeding CLI that       *)
(* execute runs, and what the runs produce: candidate pools, one per topic,*)
(* and verdicts, one per topic and step, which a curator publishes.        *)
(*                                                                         *)
(* An executor's action is what happens between two commits of             *)
(* run_bridge_job.  Every read of a run goes back to the database, for a   *)
(* commit expires what the session had loaded, and every write is          *)
(* "UPDATE ... WHERE id = ?" with no test of the status.  What a pipeline  *)
(* stage computes is abstracted to its outcome: an artefact is known by    *)
(* the run whose assessment it holds.                                      *)
(*                                                                         *)
(* Time is counted in ticks; an executor that is not "slow" logs an event, *)
(* which beats, before its run's heartbeat is older than BeatBy ticks.     *)
(***************************************************************************)
EXTENDS Integers

CONSTANTS
    User,           \* accounts
    Drain,          \* processes started as a worker: its bridge-drain thread
    Cli,            \* processes started as a seeding session of the command
                    \* line (a name in both sets is now the one, now the other)
    Topic,          \* topics, as slugs
    Step,           \* steps of one modality, a subset of {"step1", "step2"}
    Shelf,          \* bound: the steps whose verdicts the curator looks at
    MaxRuns,        \* bound: rows ever inserted; ids are in created_at order
    BeatBy,         \* age by which a healthy executor has beaten
    Stale,          \* age above which a run is given up (BRIDGE_JOB_HEARTBEAT_STALE_SECONDS)
    Faults,         \* kinds of disturbance considered, a subset of FaultKind
    MaxFaults,      \* bound: disturbances in one behaviour
    NoRow, NoRun, NoUser, NoCell, Null

\* An executor dies or loses its connection; a call it waits for hangs.
FaultKind == {"lost", "slow"}

ASSUME BridgeAssumption ==
    /\ Step \in {{"step1"}, {"step1", "step2"}} /\ Shelf \subseteq Step
    /\ MaxRuns \in Nat /\ MaxFaults \in Nat
    /\ BeatBy \in Nat /\ Stale \in Nat /\ BeatBy <= Stale
    /\ Faults \subseteq FaultKind

Executor == Drain \cup Cli
Run == 1..MaxRuns
Cell == Topic \X Step           \* what a verdict is about
Status == {"queued", "running", "succeeded", "failed", "cancelled"}
Active == {"queued", "running"}
Age == 0..(Stale + 1)
Row == [user: User \cup {NoUser}, cell: Cell, status: Status, hb: Age \cup {Null}]
Verdict == [art: Run, published: BOOLEAN]

ASSUME BridgeNullAssumption ==
    /\ NoRow \notin Row /\ NoRow \notin Verdict
    /\ NoRun \notin Run
    /\ NoUser \notin User
    /\ NoCell \notin Cell
    /\ Null \notin Nat

\* step2 is the step whose verdict is inherited: from step1, same topic.
Inherits(c) == c[2] = "step2"
Upstream(c) == <<c[1], "step1">>

\* Where an executor is: a seeding session that has deleted a verdict and has
\* no run yet; a claim under its lock; and in run_bridge_job: looking for the
\* pool; judging the candidates of a new one; past the pool, up to the critic; with an artefact
\* to store; about to insert or to overwrite a verdict; about to copy the
\* upstream one; with the status left to write.
Place == {"idle", "forced", "locked", "claimed", "pool", "judge", "assess", "store",
          "insert", "overwrite", "inherit", "done", "failed"}

VARIABLES
    row,        \* the bridge_jobs table
    next,       \* the next run
    users,      \* the accounts that exist
    asked,      \* the cell each user's POST /bridge/runs found no verdict for
    pool,       \* topics with a row in bridge_candidate_pools
    verdict,    \* the bridge_verdicts table
    pc,         \* where each executor is
    cur,        \* the run it executes
    target,     \* the cell it is producing a verdict for
    art,        \* the artefact it holds
    slow,       \* the executors whose calls hang
    gone,       \* the executors whose loaded verdict row has been deleted
    reviewed,   \* the artefact the curator published, by published cell (a ghost)
    forced,     \* cells whose verdict --force deleted, none stored since (a ghost)
    faults      \* disturbances so far

vars == <<row, next, users, asked, pool, verdict, pc, cur, target, art, slow, gone,
          reviewed, forced, faults>>
table == <<row, next, users, asked>>
products == <<pool, verdict, reviewed, forced>>
local == <<cur, target, art, gone>>

TypeOK ==
    /\ row \in [Run -> Row \cup {NoRow}]
    /\ next \in 1..(MaxRuns + 1)
    /\ users \subseteq User
    /\ asked \in [User -> Cell \cup {NoCell}]
    /\ pool \subseteq Topic
    /\ verdict \in [Cell -> Verdict \cup {NoRow}]
    /\ pc \in [Executor -> Place]
    /\ cur \in [Executor -> Run \cup {NoRun}]
    /\ target \in [Executor -> Cell \cup {NoCell}]
    /\ art \in [Executor -> Run \cup {NoRun}]
    /\ slow \subseteq Executor
    /\ gone \subseteq Executor
    /\ reviewed \in [Cell -> Run \cup {NoRun}]
    /\ forced \subseteq Cell
    /\ faults \in 0..MaxFaults

Init ==
    /\ row = [r \in Run |-> NoRow]
    /\ next = 1
    /\ users = User
    /\ asked = [u \in User |-> NoCell]
    /\ pool = {}
    /\ verdict = [c \in Cell |-> NoRow]
    /\ pc = [x \in Executor |-> "idle"]
    /\ cur = [x \in Executor |-> NoRun]
    /\ target = [x \in Executor |-> NoCell]
    /\ art = [x \in Executor |-> NoRun]
    /\ slow = {}
    /\ gone = {}
    /\ reviewed = [c \in Cell |-> NoRun]
    /\ forced = {}
    /\ faults = 0

-----------------------------------------------------------------------------
(* The tables.                                                             *)

Exists(r) == row[r] # NoRow
Has(r, s) == Exists(r) /\ row[r].status = s
IsActive(r) == Exists(r) /\ row[r].status \in Active
Owns(r, u) == Exists(r) /\ row[r].user = u

\* Mutant: the index's predicate forgets the running runs.
BugSlotFree(u) == \A r \in Run : ~(Owns(r, u) /\ row[r].status = "queued")

\* The partial unique index accepts an active run of user u.
SlotFree(u) == \A r \in Run : ~(Owns(r, u) /\ IsActive(r))

\* _get_verdict_row finds one.
OnFile(c) == verdict[c] # NoRow

\* The row lock claim_one holds between its SELECT and its commit.
Locked(r) == \E x \in Executor : pc[x] = "locked" /\ cur[x] = r

\* Mutants: a claim without a heartbeat, a reclaim that does not wait, a
\* status (run_bridge_job writes literals) that is not one of the enum's.
BugClaimed(r) == [r EXCEPT !.status = "running"]
BugIsStale(r) == r.status = "running" /\ r.hb # Null /\ r.hb >= BeatBy

BugWith(r, s) == [r EXCEPT !.status = IF s = "failed" THEN "error" ELSE s]

NewRun(u, c) == [user |-> u, cell |-> c, status |-> "queued", hb |-> Null]
SeedRun(c) == [user |-> NoUser, cell |-> c, status |-> "running", hb |-> Null]
Claimed(r) == [r EXCEPT !.status = "running", !.hb = 0]
Beaten(r) == [r EXCEPT !.hb = 0]
With(r, s) == [r EXCEPT !.status = s]
IsStale(r) == r.status = "running" /\ r.hb # Null /\ r.hb > Stale

-----------------------------------------------------------------------------
(* The API.                                                                *)

\* POST /bridge/runs finds no verdict and a budget that is not spent.
Ask(u, c) ==
    /\ u \in users /\ asked[u] = NoCell /\ next <= MaxRuns
    /\ ~OnFile(c)
    /\ asked' = [asked EXCEPT ![u] = c]
    /\ UNCHANGED <<row, next, users, products, pc, local, slow, faults>>

\* ... and goes on to insert a run for what it looked up.
Insert(u) ==
    /\ u \in users /\ asked[u] # NoCell /\ next <= MaxRuns
    /\ SlotFree(u)
    /\ row' = [row EXCEPT ![next] = NewRun(u, asked[u])]
    /\ next' = next + 1
    /\ asked' = [asked EXCEPT ![u] = NoCell]
    /\ UNCHANGED <<users, products, pc, local, slow, faults>>

\* ... or answers 503, 429 or 409, or is cut off.
Refuse(u) ==
    /\ asked[u] # NoCell
    /\ asked' = [asked EXCEPT ![u] = NoCell]
    /\ UNCHANGED <<row, next, users, products, pc, local, slow, faults>>

\* Mutant: a cancellation that does not ask whether the run has started.
BugCancellable(r) == IsActive(r) /\ ~Locked(r)

\* DELETE /bridge/runs/{id}: one conditional UPDATE, which waits for the row
\* lock of a claim.
Cancellable(r) == Has(r, "queued") /\ ~Locked(r)

Cancel(u, r) ==
    /\ u \in users /\ Owns(r, u) /\ Cancellable(r)
    /\ row' = [row EXCEPT ![r] = With(@, "cancelled")]
    /\ UNCHANGED <<next, users, asked, products, pc, local, slow, faults>>

\* DELETE /users/me: the runs go with the account (ON DELETE CASCADE).
DeleteAccount(u) ==
    /\ u \in users
    /\ \A r \in Run : Owns(r, u) => ~Locked(r)
    /\ users' = users \ {u}
    /\ row' = [r \in Run |-> IF Owns(r, u) THEN NoRow ELSE row[r]]
    /\ UNCHANGED <<next, asked, products, pc, local, slow, faults>>

-----------------------------------------------------------------------------
(* Taking up a run.                                                        *)

Goto(x, place) == pc' = [pc EXCEPT ![x] = place]

\* reclaim_stale.  The drain calls it between runs, no more often than the
\* stale window; the model lets it at any time.
ReclaimStale(d) ==
    /\ pc[d] = "idle"
    /\ \E r \in Run : Exists(r) /\ IsStale(row[r])
    /\ row' = [r \in Run |-> IF Exists(r) /\ IsStale(row[r])
                             THEN With(row[r], "failed") ELSE row[r]]
    /\ UNCHANGED <<next, users, asked, products, pc, local, slow, faults>>

Claimable == {r \in Run : Has(r, "queued") /\ ~Locked(r)}

\* claim_one's SELECT ... FOR UPDATE SKIP LOCKED of the oldest queued run.
ClaimSelect(d) ==
    /\ pc[d] = "idle"
    /\ \E r \in Claimable :
          /\ \A q \in Claimable : r <= q
          /\ cur' = [cur EXCEPT ![d] = r]
    /\ pc' = [pc EXCEPT ![d] = "locked"]
    /\ UNCHANGED <<table, products, target, art, slow, gone, faults>>

ClaimCommit(d) ==
    /\ pc[d] = "locked"
    /\ row' = [row EXCEPT ![cur[d]] = Claimed(@)]
    /\ pc' = [pc EXCEPT ![d] = "claimed"]
    /\ slow' = slow \ {d}
    /\ UNCHANGED <<next, users, asked, products, local, faults>>

\* The executors that loaded the verdict of cell c and still need the row.
Loaded(c) ==
    {x \in Executor : \/ pc[x] = "overwrite" /\ target[x] = c
                      \/ pc[x] = "inherit" /\ Upstream(target[x]) = c}

\* _run_cell with --force: the verdict on file is deleted first, published or
\* not; where there is none it goes straight on.
SeedForce(k) ==
    /\ pc[k] = "idle"
    /\ \E c \in Cell :
          /\ OnFile(c)
          /\ verdict' = [verdict EXCEPT ![c] = NoRow]
          /\ reviewed' = [reviewed EXCEPT ![c] = NoRun]
          /\ forced' = forced \cup {c}
          /\ gone' = gone \cup Loaded(c)
          /\ target' = [target EXCEPT ![k] = c]
    /\ Goto(k, "forced")
    /\ UNCHANGED <<table, pool, cur, art, slow, faults>>

\* _run_cell inserts its own run, already running and not beaten.
SeedStart(k) ==
    /\ pc[k] \in {"idle", "forced"} /\ next <= MaxRuns
    /\ \E c \in Cell :
          /\ pc[k] = "forced" => c = target[k]
          /\ row' = [row EXCEPT ![next] = SeedRun(c)]
    /\ next' = next + 1
    /\ cur' = [cur EXCEPT ![k] = next]
    /\ target' = [target EXCEPT ![k] = NoCell]
    /\ Goto(k, "claimed")
    /\ slow' = slow \ {k}
    /\ UNCHANGED <<users, asked, products, art, gone, faults>>

-----------------------------------------------------------------------------
(* run_bridge_job.                                                         *)

At(x, place) == pc[x] = place /\ Exists(cur[x])

\* ProgressLog.event: the run is beaten, whatever its status is by now.
Event(x) == row' = [row EXCEPT ![cur[x]] = Beaten(@)]

\* The cell whose own assessment a run of cell c starts with.
Produces(c) == IF Inherits(c) THEN Upstream(c) ELSE c

\* A verdict is on file: serve it.  Otherwise copy the upstream verdict if
\* this step inherits and there is one, and assess if not.
Look(x) ==
    LET c == row[cur[x]].cell
        made == Produces(c)
    IN  /\ At(x, "claimed")
        /\ \/ OnFile(c) /\ Goto(x, "done") /\ UNCHANGED target
           \/ /\ ~OnFile(c) /\ OnFile(made) /\ Goto(x, "inherit")
              /\ target' = [target EXCEPT ![x] = c]
           \/ /\ ~OnFile(c) /\ ~OnFile(made) /\ Goto(x, "pool")
              /\ target' = [target EXCEPT ![x] = made]
        /\ Event(x)
        /\ UNCHANGED <<next, users, asked, products, cur, art, slow, gone, faults>>

\* _get_or_build_pool reuses the topic's pool, or plans, scouts and judges.
FindPool(x) ==
    /\ At(x, "pool")
    /\ Goto(x, IF target[x][1] \in pool THEN "assess" ELSE "judge")
    /\ Event(x)
    /\ UNCHANGED <<next, users, asked, products, local, slow, faults>>

\* The new pool is inserted, unless another run's is there by now: then the
\* unique constraint fails the run.
AddPool(x) ==
    /\ At(x, "judge")
    /\ pool' = pool \cup {target[x][1]}
    /\ Goto(x, IF target[x][1] \in pool THEN "failed" ELSE "assess")
    /\ UNCHANGED <<table, verdict, reviewed, forced, local, slow, faults>>

\* Gates, replanning and the probe end in an artefact the critic accepts.
Assess(x) ==
    /\ At(x, "assess")
    /\ art' = [art EXCEPT ![x] = cur[x]]
    /\ Goto(x, "store")
    /\ Event(x)
    /\ UNCHANGED <<next, users, asked, products, cur, target, slow, gone, faults>>

\* The spend ceiling, the deadline, the critic or an exception stops the run.
GiveUp(x) ==
    /\ \E place \in {"claimed", "pool", "judge", "assess"} : At(x, place)
    /\ Goto(x, "failed")
    /\ UNCHANGED <<table, products, local, slow, faults>>

\* build_inherited and check_inherited read the upstream verdict afresh; a row
\* that is gone raises.
Inherit(x) ==
    /\ At(x, "inherit")
    /\ \/ /\ x \notin gone
          /\ art' = [art EXCEPT ![x] = verdict[Upstream(target[x])].art]
          /\ Goto(x, "store")
       \/ x \in gone /\ Goto(x, "failed") /\ UNCHANGED art
    /\ UNCHANGED <<table, products, cur, target, slow, gone, faults>>

\* _store_verdict reads the cell's row ...
StoreRead(x) ==
    /\ At(x, "store")
    /\ Goto(x, IF OnFile(target[x]) THEN "overwrite" ELSE "insert")
    /\ UNCHANGED <<table, products, local, slow, faults>>

\* Mutant: a finished upstream verdict ends the run.
BugStored(x) == Goto(x, "done") /\ UNCHANGED target

\* After an upstream verdict its heir's is due; after the run's own, its end.
Stored(x) ==
    LET c == row[cur[x]].cell
    IN  IF target[x] = c
        THEN Goto(x, "done") /\ UNCHANGED target
        ELSE Goto(x, "inherit") /\ target' = [target EXCEPT ![x] = c]

\* ... and inserts a draft, or fails with the unique constraint if another
\* run's verdict is there by now,
StoreInsert(x) ==
    /\ At(x, "insert")
    /\ \/ /\ ~OnFile(target[x])
          /\ verdict' = [verdict EXCEPT ![target[x]] = [art |-> art[x], published |-> FALSE]]
          /\ forced' = forced \ {target[x]}
          /\ Stored(x)
       \/ OnFile(target[x]) /\ Goto(x, "failed") /\ UNCHANGED <<verdict, forced, target>>
    /\ UNCHANGED <<table, pool, reviewed, cur, art, slow, gone, faults>>

\* ... or replaces the artefact and leaves its review state as it is; the UPDATE
\* of a row that is gone raises.
StoreOverwrite(x) ==
    /\ At(x, "overwrite")
    /\ \/ /\ x \notin gone
          /\ verdict' = [verdict EXCEPT ![target[x]].art = art[x]]
          /\ Stored(x)
       \/ x \in gone /\ Goto(x, "failed") /\ UNCHANGED <<verdict, target>>
    /\ UNCHANGED <<table, pool, reviewed, forced, cur, art, slow, gone, faults>>

Release(x) ==
    /\ Goto(x, "idle")
    /\ cur' = [cur EXCEPT ![x] = NoRun]
    /\ target' = [target EXCEPT ![x] = NoCell]
    /\ art' = [art EXCEPT ![x] = NoRun]
    /\ gone' = gone \ {x}

\* The last commit of the run.
Finish(x) ==
    /\ \/ At(x, "done") /\ row' = [row EXCEPT ![cur[x]] = With(@, "succeeded")]
       \/ At(x, "failed") /\ row' = [row EXCEPT ![cur[x]] = With(@, "failed")]
    /\ Release(x)
    /\ UNCHANGED <<next, users, asked, products, slow, faults>>

\* An event between the stages.
Beat(x) ==
    /\ \E place \in {"judge", "assess", "store", "inherit", "done", "failed"} : At(x, place)
    /\ row[cur[x]].hb # 0
    /\ Event(x)
    /\ UNCHANGED <<next, users, asked, products, pc, local, slow, faults>>

\* The row is gone: the next commit raises, the handler's own commit raises,
\* and the exception reaches the drain loop.
Vanished(x) ==
    /\ pc[x] \notin {"idle", "forced", "locked"} /\ ~Exists(cur[x])
    /\ Release(x)
    /\ UNCHANGED <<table, products, slow, faults>>

-----------------------------------------------------------------------------
(* The environment.                                                        *)

\* cli promote and cli demote.
Curate(c) ==
    /\ OnFile(c) /\ c[2] \in Shelf
    /\ verdict' = [verdict EXCEPT ![c].published = ~@]
    /\ reviewed' = [reviewed EXCEPT ![c] = IF verdict[c].published THEN NoRun ELSE verdict[c].art]
    /\ UNCHANGED <<table, pool, forced, pc, local, slow, faults>>

Disturb(kind) ==
    /\ kind \in Faults /\ faults < MaxFaults
    /\ faults' = faults + 1

\* The process stops (a deploy, too: nothing releases a bridge run) or its
\* connection breaks; a commit of the claim may have been applied.
Lose(x) ==
    /\ pc[x] # "idle"
    /\ Disturb("lost")
    /\ \/ UNCHANGED row
       \/ pc[x] = "locked" /\ row' = [row EXCEPT ![cur[x]] = Claimed(@)]
    /\ Release(x)
    /\ UNCHANGED <<next, users, asked, products, slow>>

Hang(x) ==
    /\ pc[x] \notin {"idle", "forced", "locked"} /\ x \notin slow
    /\ Disturb("slow")
    /\ slow' = slow \cup {x}
    /\ UNCHANGED <<table, products, pc, local>>

Older(r) ==
    IF r.status = "running" /\ r.hb # Null /\ r.hb <= Stale
    THEN [r EXCEPT !.hb = @ + 1] ELSE r

\* Time passes.  A healthy executor never lets its run grow older than BeatBy.
Tick ==
    /\ \A x \in Executor : \A r \in Run :
          (cur[x] = r /\ pc[x] # "locked" /\ x \notin slow /\ Exists(r) /\ row[r].hb # Null)
              => row[r].hb < BeatBy
    /\ row' = [r \in Run |-> IF Exists(r) THEN Older(row[r]) ELSE NoRow]
    /\ row' # row
    /\ UNCHANGED <<next, users, asked, products, pc, local, slow, faults>>

-----------------------------------------------------------------------------

Api ==
    \E u \in User :
        \/ \E c \in Cell : Ask(u, c)
        \/ Insert(u) \/ Refuse(u)
        \/ \E r \in Run : Cancel(u, r)
        \/ DeleteAccount(u)

Advance(x) ==
    \/ Look(x) \/ FindPool(x) \/ AddPool(x) \/ Assess(x) \/ GiveUp(x) \/ Inherit(x)
    \/ StoreRead(x) \/ StoreInsert(x) \/ StoreOverwrite(x) \/ Finish(x) \/ Vanished(x)

Claim(d) == ClaimSelect(d) \/ ClaimCommit(d)

Next ==
    \/ Api
    \/ \E d \in Drain : ReclaimStale(d) \/ Claim(d)
    \/ \E k \in Cli : SeedForce(k) \/ SeedStart(k)
    \/ \E x \in Executor : Advance(x) \/ Beat(x) \/ Lose(x) \/ Hang(x)
    \/ \E c \in Cell : Curate(c)
    \/ Tick

Spec == Init /\ [][Next]_vars

\* Every outbound call has a timeout, so that an executor goes on; an idle
\* drain claims and reclaims; time passes.  Clients and curators owe nothing.
Fairness ==
    /\ \A x \in Executor : WF_vars(Advance(x))
    /\ \A d \in Drain : WF_vars(ReclaimStale(d)) /\ WF_vars(Claim(d))
    /\ WF_vars(Tick)

FairSpec == Spec /\ Fairness

-----------------------------------------------------------------------------
(* Properties.                                                             *)

\* No user ever has two active runs: nothing an executor writes late, after
\* its run was given up, makes that run active again
\* (BridgeJob.__table_args__).
OneActivePerUser ==
    \A q, r \in Run :
        IsActive(q) /\ IsActive(r) /\ row[q].user = row[r].user /\ row[q].user # NoUser
            => q = r

\* A run called off was never touched: no executor has it, nothing it made is
\* on file, and no stale executor ever settles it (routers/bridge.cancel_run).
CancelIsClean ==
    \A r \in Run : Has(r, "cancelled") =>
        /\ \A x \in Executor : cur[x] # r
        /\ \A c \in Cell : OnFile(c) => verdict[c].art # r

\* A run whose executor is healthy is not given up under it
\* (bridge_drain.reclaim_stale: by heartbeat, never by elapsed time).
HealthyRunKept ==
    \A x \in Executor : \A r \in Run :
        cur[x] = r /\ pc[x] # "locked" /\ x \notin slow /\ Exists(r)
            => row[r].status = "running"

\* The page opens a verdict for every run that succeeded: there is one, though
\* runs are served from file, inherit, overwrite each other and finish after
\* they were given up; but a seeding session's --force takes it away until
\* some run stores the next (routers/bridge._job_response: verdict_ready).
SucceededHasVerdict ==
    \A r \in Run : Has(r, "succeeded") => OnFile(row[r].cell) \/ row[r].cell \in forced

\* Two runs of one user are in execution only if one of their executors hung
\* past the stale window (BridgeJob.__table_args__: never two bridges).
NeverTwoBridges ==
    \A x, y \in Executor : \A q, r \in Run :
        (x # y /\ cur[x] = q /\ cur[y] = r /\ Exists(q) /\ Exists(r)
            /\ row[q].user = row[r].user /\ row[q].user # NoUser)
            => x \in slow \/ y \in slow

\* What the library promises (routers/bridge.browse_library: reviewed verdicts
\* only): a published artefact is the one the curator published.  It does not
\* hold, as the README tells.
PublishedIsReviewed ==
    \A c \in Cell : OnFile(c) /\ verdict[c].published => verdict[c].art = reviewed[c]

\* No user is locked out: an active run leaves the active states in the end,
\* whatever happened to the drain that claimed it (bridge_drain.reclaim_stale).
SlotFreed ==
    \A r \in Run : (IsActive(r) /\ row[r].user # NoUser)
                      ~> ~(IsActive(r) /\ row[r].user # NoUser)

\* A user's run is the only one, is kept while it is healthy, and leaves nothing
\* behind when it is cancelled.
RunsAreKept == OneActivePerUser /\ CancelIsClean /\ HealthyRunKept

\* A success stands on its verdict, and the cell has one bridge.
SuccessIsBacked == SucceededHasVerdict /\ NeverTwoBridges

=============================================================================

# NC++ in TLA+

A model of NC++: a FastAPI application and a separate worker process that share
one PostgreSQL database, and the React application in front of them. The modules
follow the code under `src/`; `PROJECT.json` gives, for every definition, the
file and lines it translates, and lists the runs, the mutants, the findings, the
hazards and the theorems.

## 1. The system

```
browser tab ── pages, AuthProvider, fetch wrapper (one event loop)
   │
nginx ── API (uvicorn, one thread per sync request)
              │  users, refresh_tokens, email_tokens,
              │  training_jobs, email_outbox, bridge_*
           PostgreSQL (READ COMMITTED)
              │
worker process ×N ── training loop   (main thread; a trainer is a subprocess)
                  ├─ email thread    (Resend over HTTP)
                  └─ bridge thread   (LLM, embeddings, HuggingFace, Kaggle over HTTP)
command line ─────── seeding, promote, demote, re-summarise
```

On the server nothing but the database is shared. Every interaction is a row that
one party writes and another finds, so what is hard is the interleaving of
transactions: rows read without a lock and written later, `SELECT ... FOR UPDATE
[SKIP LOCKED]`, `UPDATE ... WHERE id = ?` that does not test what the row has
become, partial unique indexes, heartbeats and the reclaim of rows whose owner
went silent, processes that die between two commits, commits whose answer is lost.

In the tab nothing runs beside anything else, but answers land in any order and
on whatever the page has become: effects that run twice (StrictMode), effects of
a page or a route that has gone, polls that outlive the click that made them
stale, state set now and rendered later, a token that one call refreshes under
another.

| component | state | operations | hard because | correct when |
|---|---|---|---|---|
| training queue (`worker.py`, `services/runner.py`, `routers/train.py`) | `training_jobs`; per worker: position, claimed row, live subprocess | submit, clear, purge; claim, start, beat, time out, reap, record, release, reclaim | deaths, pauses, late writers, raising heartbeats | one active job a user, one trainer a job, settled jobs final, no user locked out |
| email outbox (`services/email_drain.py`, `core/outbox.py`) | `email_outbox`, live reset tokens; per drainer: claimed row | enqueue, claim, deliver or resolve, delete, fail, bury, reclaim, purge | at-least-once delivery, stale claims, lost answers | nothing dropped, a dead row keeps no secret and is revived only by a failure decided before it died, everything settles |
| addresses (`core/verification.py`, parts of `routers/auth.py`, `routers/users.py`) | `users`, verification tokens | register, resend, change address, verify, delete | check-then-write on unlocked rows, lock order | verified means owned, one link, one change a day, the old address is warned |
| sessions (`routers/auth.py`, `routers/users.py`, `core/activity.py`) | `refresh_tokens`, password, `is_active`, the reset link | login, refresh, logout, new password, delete | rotation against revocation, statements that lock row by row | one token a session, new passwords and logouts end sessions, only a deletion or two new passwords can deadlock |
| bridge (`services/bridge_drain.py`, `services/bridge/`, `routers/bridge.py`) | `bridge_jobs`, candidate pools, verdicts; per executor: place in `run_bridge_job` | ask, insert, cancel, claim, reclaim, look, pool, assess, store, inherit, finish; seed, promote | two executors of one topic, runs that go on after they were given up | one active run a user, cancelled means untouched, a success has its verdict until it is seeded anew |
| assessments (`pipeline.py`, `gates.py`, `verdict.py`, `critic.py`, `registry.py`) | the locals of a run; a modality's pool; verdicts | judge, gate, replan, probe, assemble, criticise, inherit | lists shared by several passes and rounds, pools shared by steps, answers of the outside world | the evidence adds up, nothing rejected is cited, runs end |
| tab (`api.ts`, `auth.tsx`, `App.tsx`) | access token, refresh in flight, user, route; the refresh cookie | call, retry, refresh, restore, login, logout, guard | overlapping refreshes against a rotating cookie | no spurious logout, every call comes back |
| account pages (`Register`, `ForgotPassword`, `PasswordReset`, `VerifyEmail`, `Account`, `Home`) | each form's busy, error and success; link checks | submit, check a link, reload, log out | effects run twice on links that work once; second requests | a form says what happened |
| training pages (`Training.tsx`, `TrainingModel.tsx`) | the list, its poll, the run form | load, poll, clear, run, change model, pick a dataset | answers out of order, pages that have gone | the list and the form come to rest on the truth |
| dataset finder and verdict page (`Bridge.tsx`, `bridge.ts`, `BridgeVerdict.tsx`) | runs, lists, what is watched and announced; the record shown | search, cancel, poll, announce, open | the poll ends when the run does | a finished search is announced; a page shows its topic |
| learn flow (`Walkthrough.tsx`, `useTimeline.ts`, `timeline.ts`, `Step0Stage.tsx`, `Step1Stage.tsx`, `AbstractionPage.tsx`, `content/`) | clock, playing, mode, address, concept | play, seek, step, jump, follow a link, switch views | frame callbacks against effects, content by index | one frame loop, links land, nothing blank, both views say the same |
| landing demo, anchors (`NeuronDemo.tsx`, `demo.ts`, `anchors.ts`) | shown lines and timers; none | pick, tick, replay; slice | several timers; text with literals, comments and templates | the log never freezes; a slice ends with its block |
| spend (`llm.py`, `embeddings.py`, `routers/bridge.py`) | `bridge_jobs.cost_usd`, the run an executor holds | test the cap, insert, check, charge, waste | sums and limits read before they are used; runs that go on paying after they were given up | the ledger is true; overshoot is what was under way |
| recent searches (`recents.py`) | `bridge_recent_searches` | upsert, evict, commit | statements that do not see each other's rows | the newest few, once each |
| parameters and thresholds (`params.py`, `difficulty.py`, `slug.py`) | none | validate, compare, score | boundaries | not modelled |
| trainers (`services/Step0`, `services/Step1`), scouts, tools, templates, diagrams, styles, containers | | | floating point, I/O, text | not modelled |

`PROJECT.json` "components" lists every part with its sources and status.

## 2. Modules

**JobLifecycle**: what the training queue promises, with no workers in it: a
job is queued, runs (perhaps again), settles, stays settled, disappears.

**TrainingQueue**: `training_jobs`, the API handlers that write it and the
worker loop. One action is one transaction or one decision of the loop:
`ReclaimStale`, `ClaimSelect` (the row lock of `claim_one`), `ClaimCommit`,
`Start`, `Beat`, `Reap`/`TimeOut`/`Abort` and `Record`, `Release` on SIGTERM,
and `DbError`/`ClaimNothing`/`BackOff` for the loop's error path. `live[w]` is
the set of trainer subprocesses that descend from worker `w`. A worker is up,
paused (it takes no step) or late (it runs again but has not beaten since);
faults are signals, crashes, lost commits and pauses. `ImplementsLifecycle` is
the refinement of `JobLifecycle`: a job's status is its row's, or "new" before
and "erased" after the row existed.

**TrainingQueueProofs**, **EmailOutboxProofs**, **EmailVerificationProofs**,
**SessionsProofs**, **BridgeQueueProofs**, **BridgePartsProofs**,
**ApiClientProofs**, **ScreensProofs**: theorems on the modules they are named after
(section 5).

**EmailOutbox**: `email_outbox`, `enqueue_email`, and the drain loop: claim,
`Deliver` (accepted by Resend), `Delivered` (row deleted), a failure (`LoadFailed`
reads the row without a lock, `Fail` commits back-off or burial by row id, writing
only the columns whose value differs from what was read), stale claims, purge; for a forgotten-password row the resolution in
the worker (`ResolveMint`, `Invalidate`, `Resolved`), which reads the cooldown,
burns the older tokens and enqueues the reset email in one transaction whose
reads see what others committed.

**EmailVerification**: `users` and verification tokens of several accounts. A
handler is cut where it reads, where a statement takes row locks, one row after
another (`Scan`, `Burn`), where a flush writes the users row (`Stage`,
`VerifyFlush`) and where it commits; the ORM writes only columns that differ from
what was loaded, and a flush writes the users row before the token rows, so that
lock orders and deadlocks appear as they do in PostgreSQL. Ghosts record which addresses an
account proved, had, and warned. `Patient` accounts never have two requests of
their own in flight; other accounts may.

**Sessions**: the refresh tokens of one account, its password, `is_active` and
one reset link; login, rotation under `FOR UPDATE`, logout, revoke-all with the
snapshot its UPDATE sees, deletion. A handler locks one row at a time: `todo` are the
rows its statement has yet to reach, in any order (PostgreSQL promises none), `held`
those it has locked. A deletion takes the tokens the ORM loaded and the reset link,
then the users row, then the tokens inserted meanwhile, which the foreign key's
cascade removes. `Wants` is what the next statement of a handler may have to wait
for, and a `Circle` a set of handlers that wait for one another; what PostgreSQL does
then, it rolls one of them back, is what `Abort` does at any time. Ghosts record rotations, ended sessions and
whether two requests have ever overlapped: what the code says of passwords,
logouts and `is_active` holds until then (`SerialSessionsAreTrue`) and not after.

**BridgeQueue**: `bridge_jobs`, one candidate pool per topic, one verdict per
(topic, step), where step2 inherits from step1; the API's ask-then-insert and
cancel, the drain's claim and reclaim, the CLI's seeding with and without `--force`
(`SeedForce` deletes the verdict on file in a commit of its own; an executor that has
loaded the row and overwrites or inherits from it then fails), and `run_bridge_job`
cut at its commits. `forced` is a ghost: the cells whose verdict was deleted that way
and not stored again. `Event` is `ProgressLog.event`, which beats and commits; an
artefact is known by the run that assessed it; `Curate` is promote and demote.

**BridgeAssess**: what those runs decide, for one topic and modality: an
executor's steps are the stages `_assess` calls (pool found or reused, gates,
replanning, probes, API route, assembly with the critic, inheritance), its
locals are the record `run[e]`, and the registry is the constant table
`BRIDGE_SPECS`. The stages are operators on sequences of datasets (`RunGates`,
`ProbeAll`, `Artefact`, `Accepts`); what searches, the judge, inspections and
probes answer is chosen afresh each time. `BridgeQueue` leaves an assessment's
content open; `BridgeAssess` leaves queueing and claims out.

**BridgeSpend**: what runs cost on one day. `PassCap` and `Insert` are the two
halves of `start_run`, `Dispatch` is `SpendLedger.check` and the call it lets
through, `Answer` is `charge` (it writes what the session had read, plus the
charge, at the column's resolution), `Waste` a call that was paid for and not
charged. `DailySpend` sums the rows there are, so that a deleted account takes its
spend with it. When a run is reclaimed is left to `BridgeQueue`: here any running
row may be given up at any time, and its executor may go on.

**RecentSearches**: the list of one student and step. A search is a transaction of
two statements; each sees what was committed when it began and what its own
transaction wrote, and waits for rows that others have written (`Upsert`, `Evict`,
`Commit`); `Abort` is an error, a lost connection or a deadlock.

**BridgeParts** extends `BridgeSpend` with instances of `BridgeAssess` and
`RecentSearches`, side by side as `Screens` has the pages: they share no state, so
one run explores the union of their state spaces, and one module has the proofs
about all three.

**ApiClient**: one tab. A task is one asynchronous function (the two runs of the
mount effect, login, logout, calls of pages, `reload`); `refresh` is the shared
promise of `refreshSession`; a request is served in one step (`Serve*`) and lands
in another (`Land*`), and whatever awaits it resumes in the step that lands it,
because nothing runs between a promise and its continuations. The server is the
set of cookies it accepts, so that rotation meets the client that must survive it. It
may refuse a refresh for its cookie (`Deny`) or, before it looks at the cookie, answer
429 or 5xx (`Err`): `refreshSession` makes the same null of both. `parted` is a ghost:
why a tab may be without its user while its session lives.

**AccountPages**: the account forms. One page is mounted; each form sends a
request, perhaps a second one (reload, logout), and says what came of it; the
link checks of `PasswordReset` and `VerifyEmail` run twice. The server may refuse any
request, the reload and the logout too: the limiter, a 5xx, a session that was ended
on another device. A new password, by the old one or by a link, ends every session.

**TrainingPages**: the job list with its poll and clear button, and the model page
with its run form. An answer carries what the server held when it served the
request; an effect's cancellation flag is the mount it belongs to.

**BridgePages**: the finder for one model: search, cancel, poll, the hand-over
from a watched run to an announced topic, and the two lists. The worker, other
users and the user's other tab are the environment.

**VerdictPage**: the page of one verdict over two topics and every artefact that
`verdict.py` assembles and `critic.py` lets through.

**LearnContent**: the shipped content as the player computes with it (scenes,
durations, stages, ladders), and the rules its own suites hold it to, which TLC
evaluates as an assumption of `Screens`.

**Walkthrough** extends it with the player: the address, the clock, the frame
loop, the two views, the closing page. What a frame sets is rendered later
(`Render`), what a rail click navigates to arrives later (`Arrive`).

**NeuronDemo**: the landing page's log and its timers. **Anchors**: the slicer of
`anchors.ts` against a definition of the block it should return, on files an
author types piece by piece. One quote character stands for both kinds: that a literal
is closed by the quote that opened it (`anchors.ts:68-74`) is not in the model.

**Screens** puts these pages side by side: one is chosen at the start, the
variables of the others are 0. The pages never run beside each other and share
nothing but the session (which is `ApiClient`'s), so one run explores the union
of their state spaces and not the product. `Walkthrough` is extended, so that TLC
evaluates the content once; the others are instantiated and share the variables
of the same name.

**MC\*** modules instantiate them for TLC (`BridgeParts`, `ApiClient`, `Walkthrough`
and `Screens` are run as they are).

Abstractions common to all: time is an age in ticks up to one more than the
largest limit; texts, hashes, JWTs and payloads are identities; created_at order
is the order of ids; a retried or cut-off HTTP request is a request that ends.
Module-specific ones: `BridgeAssess` leaves out difficulty, queries, the nearest
domain and all text of a verdict; the deletion of a delivered row reads and writes in
one step, since the row is deleted whatever became of it; several reads of one bridge transaction are one read; in
`BridgeQueue`, assessments, LLM calls and the spend limits end in success or failure
nondeterministically; the two-statement purge and reclaim loops are one step each,
taken at any time between rows rather than by their interval clocks. Pages: texts,
validation messages and layout are left out; a request is served in one step; the
server's side of a page is what its answers can tell apart.

## 3. Runs

| run | instance | shows |
|---|---|---|
| `training_safety` | 2 users, 2 workers, 2 jobs, 3 faults of 4 kinds | active slots, trainers and successes stay unique and final; reclaims spare healthy workers; shutdown requeues |
| `training_progress` | same, no pauses, 2 faults, fairness | refinement of `JobLifecycle`; every slot is freed |
| `outbox_rows` | 2 drainers, 2 rows, 2 attempts, 2 faults, fairness | nothing dropped, duplicates paid for by faults, a dead row revived only by an older failure and never with its secret, everything settles |
| `outbox_newest_link` | 2 drainers, 4 rows, no faults | violation: two live reset links |
| `verification_patient` | 2 accounts (1 patient), 2 addresses, 2 requests, 2 tokens, fairness | the patient account's guarantees whatever the other does; every request ends, deadlocks included |
| `verification_owned` | 1 account, 2 requests | violation: a verification that overlaps a change of address verifies the new address |
| `sessions_concurrent` | 2 requests, 3 tokens, 1 new password that takes effect, 1 expiry | rotation never forks, no orphan tokens, only a deletion or two new passwords can deadlock; until requests overlap, passwords and logouts end sessions and `is_active` is accurate |
| `bridge_runs` | 1 user, 2 drains (1 also a seeding session), 2 runs, 2 steps, 1 fault, fairness | uniqueness, clean cancellation, healthy runs kept, verdict for every success that was not seeded anew by force, slots freed |
| `bridge_parts` | assessments: 1 executor, 2 runs of 3 steps (probed, its heir, unprobed), 4 datasets (2 on HuggingFace, 3 licensed), 2 finalists, 1 replanning round, 2 judged a search; spend: 1 user, 1 handler, 2 drains, 5 runs of 2 calls; recent searches: 2 tabs, 4 topics, a list of 2, 2 times | evidence adds up, rejected is not cited, "not at this step" is unanimous, the critic refuses one case only, runs end; rows, ledger and the day's sum are off by what was under way and no more; the list is the newest, and one row too long at most when searches meet |
| `client_calls` | both mounts, 2 calls (1 `reload`), login, logout, 3 routes, 2 events (expiry, revocation, refusal, lost request, login, logout), fairness | refreshes are shared, no tab whose user was loaded is sent to the login form while it has a session, every call comes back |
| `screens` | see below | forms, lists, pages, finder, player, demo and slices are right when they rest |
| `text_view` | the shipped content | violation: figures the text view never draws |

Two pages opened (`MaxMounts`) or one move (`MaxMoves`) are what it takes for an
answer to find its page gone; two polls of jobs on the wire (`JobPolls`) can be
reordered, one of runs suffices because loads of the lists race it; two runs
(`MaxRuns`) let a second search overtake the first; one event of others
(`MaxEvents`) finishes the topic first or loses an answer; two topics (`Shelf`)
let the verdict page move while it loads; 500 epochs are the demo's; four pieces
typed (`MaxPieces`) reach a literal with an escape, a comment over two lines and
a nested block; a late frame skips 60 s (`FrameGap`), more than the longest scene
at any rate.

Why the bounds suffice. The server's hazards are races of two actors over one row,
plus one disturbance that lets a stale actor come back; two workers, drainers or
requests with two rows exhibit all of them (every action fires in some passing
run, and every property is broken by a mutant of a mapped definition in its own
run). Three faults in `training_safety` allow a pause, a crash of the reclaimer
and a lost commit in one behaviour. `MaxAttempts = 2` has both the retry and
the burial. Three refresh tokens allow a fork. `MaxPasswords` bounds the new
passwords that take effect, not those on their way: two of them, or one and a deletion,
form a circle. Circles of three handlers and more are left to the theorem. The two tokens of
`verification_patient` allow a second change of address, because a registration
may be cut off before its link. `BeatBy <= Stale` (`HandleBy <= Stale`) is the
deployment's timing: 10 s beats against 90 s for training, delivery timeouts
against the claim timeout, event gaps against the bridge's stale window; it is
an assumption of the models, and it is what the hazards on heartbeat gaps are
about. In `bridge_parts` the code's 3 finalists and 2 replanning rounds become
2 and 1: a third dataset that passes is enough to stop the gates early, one round
to collect rejections twice, two runs to reuse a pool and to inherit a verdict
that exists. The properties are about the lists of one run; what two executors
do to each other is the subject of `BridgeQueue`. Calls cost 4 or 5 units (`Charge`), a
column unit is 3 of them, so that charges round both ways; two calls pass the ceiling
of 6, and five runs are a run of the user's, a request past the test and a run that
was given up for each drain, with the one that reached the cap. A list of
2 instead of 3, four topics and two tabs are enough for an eviction that does not
see the other's row, and for a list longer than such an eviction may leave. Deadlock is not checked where
the model stops at its bounds (rows, tokens, calls or pieces used up) or where a
page has nothing left to do.

Fairness. Training: running workers step, the container runtime restarts dead
ones (`restart: unless-stopped`), time passes. Outbox: the same, and a hung call
returns (every call has a timeout). Addresses: strong fairness of a request's steps, because
PostgreSQL queues lock waiters; deadlock detection is an action. Sessions: none; a
handler that waits in no circle waits for one that can go on, so that
`DeadlocksAreKnown` says what a liveness property would, for any number of handlers. Bridge: every outbound call has a timeout, so executors advance; an
idle drain claims and reclaims. `BridgeAssess` needs none: that its loop ends is
shown by a measure each stage decreases (`RunsAreBounded`). `ApiClient`: the event
loop runs its tasks, and a fetch is answered or rejected. The pages state what
holds when they rest, and no liveness. Clients, readers and curators owe nothing
anywhere.

## 4. Findings

Each is a violation run on what the code says of itself; `PROJECT.json` quotes
the line.

1. `outbox_newest_link`: two drainers resolving two requests of one account both
   mint a link.
2. `verification_owned`: a link mailed to the old address verifies the new one.
3. `text_view`: the text view draws one figure per run of stages of one kind
   (`Walkthrough.tsx:133`), so the Tanh plot, the broadcast of the bias and the XOR
   points are in the player only, where `Walkthrough.tsx:24-25` says that nothing
   can be.

Met while modelling and not given a run of their own (replacing `Request` or
`Patient` in the cfgs, or checking the definition named here, shows them):

*Training.* An exception from the heartbeat leaves `run_training` without killing
the subprocess, and the worker claims the next job beside it (`runner.py:169`,
against "Concurrency today is one job at a time", `worker.py:16`). After a pause
longer than the stale limit FAILED is rewritten to QUEUED or SUCCEEDED
(`worker.py:163,181`, against "succeeded/failed are terminal",
`models/TrainingJob.py:31`).

*Accounts.* A login or a rotation in flight adds a session that a new password's
revoke-all did not see (`users.py:69`); two overlapping changes of address pass
the daily limit (`users.py:101`); two overlapping link requests leave two links
(`verification.py:40`); a logout overlapping the rotation of its token leaves the
successor alive (`auth.py:200`); two submissions of one reset link both set a
password (`auth.py:284`); `is_active` may stay false with a live session
(`auth.py:209`). Two new passwords of one account (or a new password and a deletion,
or a deletion and a rotation) may lock each other's rows; PostgreSQL rolls one back and
the user gets a 500 (`users.py:45,69`, `auth.py:317`).

*Email.* A row whose last attempt is lost is attempted again (`email_drain.py:177`). A
failure is decided on a row that was read without a lock (`email_drain.py:119-138`): a
drainer that lost its claim may requeue what another has buried meanwhile, with its
token gone, so that the next handler fails and buries it again. With three drainers
and three disturbances such a commit can clear `claimed_at` of a row that a third has
just claimed; if that one then dies the row stays in `sending`, since no reclaim takes
a claim without a time. `EventuallySettled` is about the run's two drainers and two disturbances, and no more.

*Bridge.* `_store_verdict` keeps PUBLISHED on an artefact nobody reviewed
(`BridgeQueue.PublishedIsReviewed`; `pipeline.py:104` against
`routers/bridge.py:179`). A forced seeding deletes the verdict, a published one too, in
a commit of its own (`cli.py:64-65`): runs that succeeded point at no verdict until a
run stores the next, and for ever if the seeding fails. Without a dataset there is no probe report, the reason
`_fit_section` gives instead (`verdict.py:103`) is one that steps with a probe
must not have (`registry.py:404`), and the critic fails the run
(`BridgeAssess.CriticAccepts`; `critic.py:46`): steps 0 to 3 never get the verdicts
"buildable after collection" and "not at hobby scale". Runs are never re-claimed:
a stale run is failed, so the "re-claimed job" of `pipeline.py:15-17` and the
at-least-once delivery of `models/Bridge.py` do not occur. A queued run is
labelled stalled after 300 s although a healthy drain may be busy for 420 s
(`routers/bridge.py:81`, against "this should only fire when no worker is running
at all", `core/config.py:145`). Replanning judges again what the judge refused
before (`pipeline.py:235` remembers the candidates only): a refused dataset may be
counted twice, or be cited while it stands among the examples of a relevance
rejection. With two executors of `BridgeAssess` a replanning run overwrites what
the other added to the pool, so that a stored verdict may cite a dataset its pool
no longer holds, and an heir's evidence may differ from the one its upstream shows
by then.

*Spend and recent searches.* The daily cap sums what was charged before a run is
inserted (`routers/bridge.py:387`), so that runs in flight count for nothing;
`BridgeSpend.CapHolds` is how far it can be passed. It leaves seed runs out on
purpose (`routers/bridge.py:121`) where `core/config.py:129` says "across ALL users
and seed runs", and an account that is deleted takes its spend out of the day's sum
(`models/Bridge.py:97`). The ceiling of a run is tested before a call and charged
after it (`llm.py:70`), against "before spending past the ceiling" (`llm.py:163`):
a run may pass it by a call. A call that hits `max_tokens` or does not parse is
billed and not charged (`llm.py:200-209`). `cost_usd` keeps four decimals of a
charge rounded to six (`models/Bridge.py:123`, `llm.py:77`), so that small charges,
an embedding batch's above all, may be lost or rounded up, by at most half a
unit a call (`LedgerIsTrue`). Two tabs that record topics at once evict without
seeing each other's row (`recents.py:81`): the table then holds a row more than the
limit until the next search, against "at most `limit` rows" being "true of storage"
(`recents.py:44-46`), and a topic bumped while an eviction waits for it is evicted
all the same.

*Tab.* A refresh or a login that lands after a logout restores the token that
`auth.tsx:55-57` dropped (`ApiClient.LogoutIsFinal`). `refreshSession` takes a 429 of
the limiter (`auth.py:145`) and a 5xx for "not logged in" (`api.ts:93`), and so does the
mount effect with any failure: a reload of the page at such a moment sends a user with
a live session to the login form, until the next reload. In the form for a new address
the change and the reload share a catch (`Account.tsx:100-108`): if the reload fails,
the form shows that it succeeded and an error. A signed-in tab that sets a new password
by a reset link keeps its user and access token until the server refuses it:
`PasswordReset` never logs out. With a verification link of
another account and somebody signed in, `VerifyEmail` reloads and asks again for
ever, where `VerifyEmail.tsx:48-52` says that it settles once. A search that
finishes before the first list is loaded is not announced (`quick`), and an
announced one may miss from "recent" until the next load (`unrecorded`). A late
answer of run or clear that finds its page gone leaves the new list stale, and a
poll served before a clear and landing after it brings the rows back until the
next one (`raced`). A history jump between two topics shows the old verdict while
the new one loads, and an old error stays above the new verdict; "Where to get it"
names the first API of the path also when that one could not be reached.

*Learn flow.* A rail click between the last tick and its render seeks without
playing; the clock runs on in the text view; a history jump between two models'
`/learn` keeps the old clock; a late `Arrive` seeks again. The note of
`AbstractionPage.tsx:225-232` tells step 0's story on step 1 too. `anchors.ts:128-137`
passes over a block on the signature's own line (`void f() {}`) and slices the next.

## 5. Proofs

`TrainingQueueProofs` proves for every `User`, `Worker`, `MaxJobs`, `MaxFaults`,
`Faults`, and every timing with `BeatEvery <= BeatBy <= Stale` (the ASSUMEs of
`TrainingQueue`):

| theorem | statement |
|---|---|
| `Invariance` | `Spec => []IInv` |
| `TypeCorrect` | the invariant `TypeOK` |
| `JobsExclusive` | `JobsAreExclusive`: `OneActivePerUser` and `OneTrainerPerJob` |
| `ReclaimIsSound` | `HealthyWorkerKeepsJob`: no reclaim under a worker that beats |
| `OutcomesKept` | `OutcomesAreKept`: the action properties `SucceededIsFinal` and `GracefulRequeue` |
| `RefinesLifecycle` | with `"pause"` not in `Faults`, `Spec => ImplementsLifecycle` |

None of the properties is inductive. `OneTrainerPerJob` fails to be preserved
by `Start` unless the claimed row has no live trainer, which holds because a
queued row has none (`TrainersAccounted`), because only its own worker puts a
supervised row back on the queue (`SupervisedRow`), and because nobody else
holds it (`HoldersDiffer`, `LockHolds`, `HoldsJob`). `HealthyWorkerKeepsJob`
needs that a healthy worker's row is at most `BeatBy` old (`HealthyIsYoung`) and
that a running row has a heartbeat at all (`RunningHasHeartbeat`). `IInv` is
the conjunction of these; it was checked by TLC on the instance of
`training_safety` first. Each conjunct has one lemma with a step per action;
transactions that rewrite one row go through lemmas on their effect. The
refinement adds that without pauses nobody is late (`NobodyPauses`), so that a
supervised row is running and every write is a step of `JobLifecycle`.

`EmailOutboxProofs` proves, for every finite set of drainers, every number of rows
and disturbances, every backoff, cap and number of attempts, and
`HandleBy <= Stale`:

| theorem | statement |
|---|---|
| `TypeCorrect` | the invariant `TypeOK` |
| `ClaimsSafe` | `ClaimsAreSafe`: `DuplicatesNeedFaults` and `ClaimIsExclusive` |
| `NothingLost` | the action properties `NeverDropped` and `DeadIsFinal`: a dead row keeps no secret, and only a drainer that read it alive revives it, after a disturbance |

That a message goes out at most once more than something broke is not inductive,
because a claim that was taken back leaves two drainers with one row. The
invariant keeps accounts (`Paid`): what took effect, the drainers that may still
make it take effect, and the chance of one more claim (`Open`) add up to at most
one more than the disturbances. A reclaim opens no row on which a healthy drainer
works, since its claim is no older than its work (`ClaimsAreYoung`) and its work
no longer than the window. `Sound` says what the handlers keep of a row and of the
row they have read: attempts only grow and a token only goes, so that a row that was
exhausted when it was read still is, and a dead row's token, which the update leaves
as it is or clears, does not come back. Whoever requeues a dead row read it before it
died (`SeenIsOld`), and another drainer buried it, which takes a claim taken back.
`RoomLeft` says that a reset row finds room under the bound on rows.

`EmailVerificationProofs` proves, for every set of accounts and addresses, every
finite set of handlers and every number of tokens, of any accounts `Patient` whose
requests do not overlap:

| theorem | statement |
|---|---|
| `TypeCorrect` | the invariant `TypeOK` |
| `PatientOwns` | `PatientVerifiedMeansOwned`: a verified address was shown to be owned |
| `PatientSafe` | `PatientAccountIsSafe`: one working link, one change a day, old addresses warned |

That a verified address is owned is not inductive: following a link sets a flag by
user id, so the link must have gone to the address the account has now. A live link
of a patient account did (`AccountOK`), because a change of address burns every
other (`ReliesOn`: what is burned or still to be burned includes every live link, the
row that was loaded is still the row) in the commit that changes the row. A handler that was cut off
leaves nothing behind but a spent id (`FreshOK`), and a deleted account no tokens
(`TokensOK`). A step on one account's tables leaves the other accounts and their
handlers as they were (`StepOn`, `Others`), whatever they compete for.

`SessionsProofs` proves, for every finite set of handlers and every number of
tokens and passwords, whichever tokens expire:

| theorem | statement |
|---|---|
| `TypeCorrect` | the invariant `TypeOK` |
| `NoFork` | `SessionsDoNotFork`: one token a session, one successor a token, no orphans |
| `DeadlocksKnown` | `DeadlocksAreKnown`: a circle of handlers that wait for one another contains a deletion or two new passwords |
| `SerialIsTrue` | `SerialSessionsAreTrue`: until requests overlap, what the code says of passwords, logouts and `is_active` |

One live token a session rests on one token that was not revoked, expired or
not (`OneUnrevoked`), which holds because a rotation revokes what it holds the
lock of (`HoldsToken`, `OneHolder`). Every handler but a deletion takes its token rows
before the users row (`PlaceHolds`): without a deletion nobody in a circle holds the users
row, everybody in it waits for a token row, and whoever does so and holds one is a new
password; the one that it waits for is a second. The serial part needs that one handler runs
at a time (`Alone`) and that what it read is still so when it writes
(`ReadsAreFresh`), whatever handlers before it were cut off.

`BridgeQueueProofs` proves, for every set of users, executors and topics, every
number of runs, one step or two of which the second inherits (`Step` in the
ASSUME), and `BeatBy <= Stale`:

| theorem | statement |
|---|---|
| `TypeCorrect` | the invariant `TypeOK` |
| `RunsKept` | `RunsAreKept`: one active run a user, clean cancellation, healthy runs kept |
| `SuccessBacked` | `SuccessIsBacked`: a verdict for every success unless it was seeded anew by force, no two bridges of one user unless an executor hung |

The claim's lock is `OneExecutor` and `HeldStatus`: a run has one executor, is
queued while its row is locked, and running or given up afterwards. The heartbeat
is `HealthyIsYoung`. The verdict of a success rests on `TargetsFit` (an executor
works on its run's cell or on the one it inherits from, and then goes on to its
own) and on verdicts leaving the table only by `SeedForce`, after which an executor
that still needs the row (`gone`) fails instead of finishing. All steps of `run_bridge_job` go
through one lemma (`Advances`), the ends of runs and what happens to them from
outside through two others.

`BridgePartsProofs` proves, for all finite sets of users, handlers, executors and
tabs, any number of runs, calls, datasets, finalists, replanning rounds and topics,
every price, ceiling, cap and limit, and the steps of the registry's table (the
assumptions of `BridgeSpendConstants`, `AssessConstants` and
`RecentSearchesConstants`, which `PartsAssumption` joins):

| theorem | statement |
|---|---|
| `TypeCorrect`, `CeilingKept`, `LedgerTrue` | `BridgeSpend`'s own specification: `TypeOK`; a row shows no more than the ceiling and a call; it shows what the charged calls cost, to half a unit each, and a run wastes one call at most |
| `TypesCorrect` | `TypesOK`, the types of all three parts |
| `SpendBounded` | `SpendIsBounded`: the two above, and the day's sum passes the cap by a run for each user, handler and executor at most |
| `VerdictsBacked` | `VerdictsAreBacked`: evidence adds up, refusals are unanimous, nothing rejected is cited, the critic refuses one case only |
| `RunsBounded` | `RunsAreBounded`: each stage ends a run or brings it nearer its end |
| `RecentsRight` | `RecentsAreRight`: one row a topic, serial searches leave the newest, overlapping ones a row too many for each other search at most |

*Spending.* `charge` writes what the session had read, so the ledger is true only if
nobody else writes the row meanwhile: a run has one executor (`OneExecutor`), because
it is claimed once and what is given up is failed and never queued again. Then what an
executor knows of a row when it charges is the row (`CallsOK`). That the sum passes
the cap by a bounded amount is not inductive: a sum below the cap says nothing of what
is still to come. `StakeOK` bounds what is at stake instead: the rows as they are,
each run that can still grow (`Open`) counted as if it had reached the most a run can
show, and a run for each request past the cap's test. Only a request that passes the
test raises it, and then the sum is below the cap and there are few open runs, because
every active one is its user's only one (`OneActiveEach`) and every other has an
executor. That a sum over the runs is monotone, and changes with one row at a time, is
shown of the fold it is.

*Assessments.* The candidates, the fresh ones and the survivors of a run are lists
without repetitions, and its rejections are counted as they are listed (`Tallied`).
The invariant (`RunOK`) is an account of them, place by place: what is left when the
gates' rejections and the uninspected are taken from the candidates (`Left`) is still
to be judged or has survived, and nothing of it is among the rejected (`UnderWay`).
While a run replans, every candidate is known (`InRounds`), so that a dataset that is
found again is not counted again. A lemma for each stage says what it does to the
account (`RunGatesHolds`, `ProbeAllHolds`, `ExtendedHolds`), and `ArtefactHolds` reads
the verdict's properties off it; inheritance copies a stored verdict that has them.

*Recent searches.* An eviction decides what to delete before it is committed, so
that no bound on the rows of the moment is inductive. `NeverLong` bounds, for every
set of the evictions under way, the rows that are left once those have committed: a
commit only makes the set smaller. For the serial part, `RowsAreAsked` says that a
search without a row is older than a full list of others, and `AloneIsAlone` that
what a search met by no other evicts is what lies beyond the newest.

The recursive functions and folds of these modules are handled by induction over a
well-founded order or over sets of numbers (`LeastNat`, `SmallestSubset`,
`NumbersUpTo`), since the library's induction theorems cannot be instantiated here.

`ApiClientProofs` proves, for every number of calls, routes and events:

| theorem | statement |
|---|---|
| `TypeCorrect` | the invariant `TypeOK` |
| `NeverSpent` | `SpentCookieNeverSent` |
| `NeverBounced` | `Spec => NoBounce`: a tab is sent to the login form only if its session has ended, the user left, a login is under way, or loading the user failed |

There is one refresh at a time (`OneRefresh`), so that the cookie is spent only
while the answer that replaces it is on its way, and whoever asks then awaits
that answer (`NotSpent`). `NoBounce` also needs what a tab knows of the server:
while it restores, only the mount effects run, and the only live session is that
of its cookie or of the refresh under way (`RestoringAlone`, `RestoringKnows`); a
login's token is new to both (`LoginIsNew`); a tab that has settled on nobody
being signed in has no session, or has `parted` from it: the user left, or the request that
would have loaded the user failed (`SettledOut`).

`ScreensProofs` proves, for every number of mounts, moves, polls, runs, events, typed
pieces and epochs, every gap between frames, every set of jobs, datasets, fields and
topics, and the content that ships (`ScreensAssumption`, which joins the assumptions
of the instantiated modules with what the content's own suites check):

| theorem | statement |
|---|---|
| `TypesAreCorrect` | `TypesOK`: each screen is well typed while it is shown |
| `FormsAreTruthful` | `FormsTellTheTruth`: a form at rest says what happened, whatever was refused (the email form may say both), and nobody stays signed in after a new password or a deletion |
| `RowsComeToRest` | `RestingRowsAreTrue`: the job list rests on the server's rows |
| `PagesAreTheirRoutes` | `PagesFollowRoutes`: a model's page, its form and a verdict's page settle on what their route names; a verdict's page agrees with itself |
| `FinishesAreAnnounced` | `FinishIsAnnounced`: a finished search is announced, can be opened and is in both lists once they have loaded |
| `OneLoopRuns` | `OneFrameLoop`: one animation loop while the player plays |
| `LinksLand` | `LinksShowSomething`: a link shows the chapter it names, and no page is blank |
| `LogRunsOn` | `LogNeverFreezes`: the demo's log goes on while it says running |
| `SlicesAreBlocks` | `SliceIsItsBlock`: the one block that outlives a line is sliced to its closing line |

The invariant (`ScreensInv`) is the learn flow's, which rests while another screen is
shown, with that of the screen that is shown; each is preserved by its own module's
steps, and depends on none of the variables that the other screens' steps change.

*Account pages.* A form waits for at most one request (`OneAsked`), is busy exactly as
long (`BusyIsAsked`), and only a request of the mount it was sent from can reach it.
`Faithful` then speaks of requests and not only of forms: what is on the wire, served or
not, agrees with what was done, so that whichever way it lands the form tells it. That
nobody stays signed in needs that no reload and no change of address is under way
behind a form that has succeeded (`NobodyLeft`).

*Training pages.* A list that landed may be old; it is never wrong in a way the next read
does not mend. `RowsAreBehind` says that the rows, and the answers still to land, are
equal to the server's or one move of a job behind, or a read is still to come, as long as
nothing raced; a list at rest has no job that can move, so that behind is equal.

*Finder.* Rows, answers and announcements only ever claim what has been recorded
(`RowsBacked`, `Sound`). `Listed` is what the announcement leaves behind: the two lists
are asked for once, every answer on the wire brings the announced topic, and without a
lost answer both lists have it when nothing is on the wire.

*Verdict page.* One request is on the wire and it is the shown route's
(`VerdictRequests`); that a page agrees with itself is shown of every artefact that
`BridgeAssess`'s critic lets through (`ArtefactsAgree`).

*Learn flow.* While nothing has moved the clock, it stands at the start of the chapter
that the address, or the rail click still under way, names (`OnCourse`). That a chapter's
start lies in that chapter, that the stage has a picture wherever the clock stands and
that a seek stays on the clock are lemmas on the timeline (`Timeline`, `StageHeld`,
`ChapterBegins`, `Clamped`); they rest on the sums of the scenes' durations (`SumAdds`,
`SumsGrow`), for content of any length that keeps the suites' rules.

*Slicer.* The state is any file (`AnchorsInv`); the theorem is about the two readings of
it. `ScanReads` relates them within a line: wherever the scan stands, the reference has
read the characters before it, is at the same depth, and is in a block comment just when
the scan is (`Stands`); where the scan jumps over two characters or a whole literal
(`LiteralsAgree`), the reference catches up. `LineAgrees` carries that over the ends of
lines, so that the search meets the depths of `Reading` (`SearchFinds`) and stops at the
first line at which they close. What remains is that the reference knows a block by the
greatest depth it reached and the slicer by the depth at the end of a line: the same for
a block that outlives a line, and not for one that does not, which is why the property
speaks of the former (`SliceShown`). That the recursive functions of both exist and obey
their equations is shown by `BackwardsExists` and `FoldsUp`.

Each `IInv` was checked by TLC on a small instance before it was proved.

Only model-checked: all liveness (fairness and ENABLED are out of the prover's
reach). Proofs that have a `Cardinality` in their invariant assume that drainers, handlers, users and tabs
are finite sets.

## 6. Plan

Done: training queue, outbox, addresses, sessions and bridge queue with their proofs,
the tab's session with its proofs, spending, assessments and recent searches with
theirs, and the other stateful parts of the frontend with theirs. What is left:
`Params`, `Slug`, the gates' thresholds and the difficulty rubric as operators against
reference definitions.

A dozen runs is what the project keeps, so that the whole suite runs in minutes;
a later module joins a run of its kind or takes the place of a violation run
whose finding has been settled.

## 7. Not modelled, and why

Trainers, probes' model fitting and the demonstrations are floating-point code.
Scouts, dataset tools, embeddings and email texts are I/O and wording. The
rate limiter lives in process memory and is a library's. Migrations, nginx,
containers and CI have no state that interacts with the rest. A hit in the response
cache costs nothing and leaves no trace but time, so the cache is left out of
`BridgeSpend`, with prompts, prices per token and the card index. `BridgePages` has
recent searches as its page sees them, with no eviction. Parameters (`params.py`), slugs and the difficulty
rubric are pure functions that unit tests reach.

Of the frontend: diagrams, static pages, styles, prose and narration have no state.
The paged flow of `Learn.tsx:50-125` is for models without a walkthrough, and no
such model ships. The download of a job's output, topic matching as one types, the
details of a verdict and the validation texts of forms are left out.

`resummarise` of the bridge's command line, and expiry, purging
and listing endpoints without effects on the modelled state, are left out.

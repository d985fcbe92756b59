----------------------------- MODULE EmailOutbox -----------------------------
(***************************************************************************)
(* The durable email outbox of NC++: the email_outbox table, the requests  *)
(* that enqueue into it, and the drainer threads that claim due rows,      *)
(* deliver them through Resend (or resolve a password-reset request),      *)
(* delete what is done, back off from what failed and take over what a     *)
(* silent drainer left behind.                                             *)
(*                                                                         *)
(* One action is one transaction, one call of Resend or one decision of    *)
(* the drain loop; the transaction that records a failure is two, since it *)
(* reads the row without a lock and writes it at its commit.  The outcome  *)
(* of a delivery is written by row id alone: nothing checks that the       *)
(* drainer still holds the claim, or that the row is as it was read.       *)
(*                                                                         *)
(* A row is known by its place in created_at order.  Time is counted in    *)
(* ticks; a drainer that is not "slow" is done with a row before it has    *)
(* held it for more than HandleBy ticks.                                   *)
(***************************************************************************)
EXTENDS Integers, FiniteSets

CONSTANTS
    Drainer,        \* email threads, one per worker process
    Kinds,          \* kinds of email the requests enqueue, a subset of RequestKind
    MaxMails,       \* bound: rows ever inserted
    MaxAttempts,    \* EMAIL_OUTBOX_MAX_ATTEMPTS
    Base, Cap,      \* backoff bounds, in ticks (EMAIL_OUTBOX_BACKOFF_*)
    HandleBy,       \* ticks in which a healthy drainer is done with a row
    Stale,          \* age above which a claim is taken back (CLAIM_STALE_SECONDS)
    Cooldown,       \* ticks between two reset links (RESET_RESEND_COOLDOWN_MINUTES)
    Faults,         \* kinds of disturbance considered, a subset of FaultKind
    MaxFaults,      \* bound: disturbances in one behaviour
    NoRow, NoMail, Null

\* "link" stands for verify_email (its payload carries a token), "note" for
\* account_exists and email_changed, "forgot" for forgot_password_request.
\* A "reset" row (password_reset) is enqueued by a drainer only.
RequestKind == {"link", "note", "forgot"}
Kind == RequestKind \cup {"reset"}
HasToken(k) == k \in {"link", "reset"}

\* A drainer dies; its Resend call or a transaction hangs; Resend accepts but
\* the answer is lost; the connection to the database breaks.
FaultKind == {"crash", "slow", "reply", "dberror"}

ASSUME OutboxAssumption ==
    /\ Kinds \subseteq RequestKind
    /\ Faults \subseteq FaultKind /\ IsFiniteSet(Drainer)
    /\ MaxMails \in Nat /\ MaxFaults \in Nat /\ Cooldown \in Nat
    /\ MaxAttempts \in Nat \ {0}
    /\ Base \in Nat /\ Cap \in Nat
    /\ HandleBy \in Nat /\ Stale \in Nat
    /\ HandleBy <= Stale

Mail == 1..MaxMails
Status == {"queued", "sending", "dead"}
Age == 0..(Stale + 1)
Row == [status: Status, attempts: Nat, wait: Nat, claimed: Age \cup {Null}, token: BOOLEAN]

ASSUME OutboxNullAssumption ==
    /\ NoMail \notin Mail
    /\ Null \notin Nat
    /\ NoRow \notin Row

\* Where a drainer is: between rows; with a claimed row; about to invalidate
\* the earlier reset tokens; with the new token staged; with nothing to mint;
\* with a message that Resend accepted; with an exception; with the row it is
\* about to write the failure to; not running.
Place == {"idle", "handle", "minting", "minted", "nothing", "accepted", "failed",
          "failing", "gone"}
InFlight == Place \ {"idle", "gone"}

VARIABLES
    row,        \* the email_outbox table
    kind,       \* the email_type of every row there was, which its claimer keeps
    next,       \* the next row
    pc,         \* where each drainer is
    cur,        \* the row each drainer has claimed
    held,       \* for how many ticks
    seen,       \* the row as each drainer loaded it to record a failure
    slow,       \* the drainers whose calls hang
    burn,       \* the reset tokens each drainer's transaction has marked used
    tokens,     \* live reset tokens of the account, by the row that carries them
    lastMint,   \* age of the account's newest reset token
    done,       \* how often a row's work took effect (a ghost)
    faults      \* disturbances so far

vars == <<row, kind, next, pc, cur, held, seen, slow, burn, tokens, lastMint, done, faults>>
resets == <<burn, tokens, lastMint>>

TypeOK ==
    /\ row \in [Mail -> Row \cup {NoRow}]
    /\ kind \in [Mail -> Kind \cup {Null}]
    /\ next \in 1..(MaxMails + 1)
    /\ pc \in [Drainer -> Place]
    /\ cur \in [Drainer -> Mail \cup {NoMail}]
    /\ held \in [Drainer -> 0..HandleBy]
    /\ seen \in [Drainer -> Row \cup {NoRow}]
    /\ slow \subseteq Drainer
    /\ burn \in [Drainer -> SUBSET Mail]
    /\ tokens \subseteq Mail
    /\ lastMint \in 0..Cooldown \cup {Null}
    /\ done \in [Mail -> Nat]
    /\ faults \in 0..MaxFaults

Init ==
    /\ row = [m \in Mail |-> NoRow]
    /\ kind = [m \in Mail |-> Null]
    /\ next = 1
    /\ pc = [d \in Drainer |-> "idle"]
    /\ cur = [d \in Drainer |-> NoMail]
    /\ held = [d \in Drainer |-> 0]
    /\ seen = [d \in Drainer |-> NoRow]
    /\ slow = {}
    /\ burn = [d \in Drainer |-> {}]
    /\ tokens = {}
    /\ lastMint = Null
    /\ done = [m \in Mail |-> 0]
    /\ faults = 0

-----------------------------------------------------------------------------
(* The table.                                                              *)

Exists(m) == row[m] # NoRow
Has(m, s) == Exists(m) /\ row[m].status = s

NewRow(k) == [status |-> "queued", attempts |-> 0, wait |-> 0,
              claimed |-> Null, token |-> HasToken(k)]

\* min(CAP, BASE * 2 ** (attempts - 1))
Backoff(attempts) ==
    LET exponential == Base * 2^(attempts - 1)
    IN  IF exponential < Cap THEN exponential ELSE Cap

\* Mutants: a claim without its stamp, a reclaim that does not wait.
BugClaimed(r) == [r EXCEPT !.status = "sending", !.attempts = @ + 1]
BugIsStale(r) == r.status = "sending" /\ r.claimed # Null /\ r.claimed >= HandleBy

Claimed(r) == [r EXCEPT !.status = "sending", !.attempts = @ + 1, !.claimed = 0]
Reclaimed(r) == [r EXCEPT !.status = "queued", !.claimed = Null]

\* The session updates a column only if its value is not the one that it loaded.
Update(loaded, new, stored) == IF new = loaded THEN stored ELSE new

\* What becomes of row r when a failure is recorded that was decided on loaded.
Requeued(r, loaded) ==
    [r EXCEPT !.status = Update(loaded.status, "queued", @),
              !.claimed = Update(loaded.claimed, Null, @),
              !.wait = Backoff(loaded.attempts)]

\* Mutant: a status that EmailOutboxStatus does not have; the column takes any.
BugBuried(r, loaded) ==
    [r EXCEPT !.status = Update(loaded.status, "failed", @),
              !.claimed = Update(loaded.claimed, Null, @),
              !.token = Update(loaded.token, FALSE, @)]

Buried(r, loaded) ==
    [r EXCEPT !.status = Update(loaded.status, "dead", @),
              !.claimed = Update(loaded.claimed, Null, @),
              !.token = Update(loaded.token, FALSE, @)]

Exhausted(r) == r.attempts >= MaxAttempts
Outcome(r, loaded) == IF Exhausted(loaded) THEN Buried(r, loaded) ELSE Requeued(r, loaded)
IsStale(r) == r.status = "sending" /\ r.claimed # Null /\ r.claimed > Stale

\* Mutant: whatever is not being sent may be sent.
BugDue == {m \in Mail : Exists(m) /\ row[m].status # "sending" /\ row[m].wait = 0}

\* The queued rows whose next_attempt_at has come.
Due == {m \in Mail : Has(m, "queued") /\ row[m].wait = 0}

-----------------------------------------------------------------------------
(* The requests.                                                           *)

\* The bound on rows leaves room for the reset rows that are about to come.
Minters == {d \in Drainer : pc[d] \in {"minting", "minted"}}
Room == next + Cardinality(Minters) <= MaxMails

\* enqueue_email, committed with the change that calls for the message.
Enqueue(k) ==
    /\ Room
    /\ row' = [row EXCEPT ![next] = NewRow(k)]
    /\ kind' = [kind EXCEPT ![next] = k]
    /\ next' = next + 1
    /\ UNCHANGED <<pc, cur, held, seen, slow, resets, done, faults>>

\* A reset token dies without a new one: used, expired, or its account deleted.
TokenDies(t) ==
    /\ t \in tokens
    /\ tokens' = tokens \ {t}
    /\ UNCHANGED <<row, kind, next, pc, cur, held, seen, slow, burn, lastMint, done, faults>>

-----------------------------------------------------------------------------
(* The drain loop.                                                         *)

\* Back to the top of the loop with nothing in hand.
Idle(d) ==
    /\ pc' = [pc EXCEPT ![d] = "idle"]
    /\ cur' = [cur EXCEPT ![d] = NoMail]
    /\ held' = [held EXCEPT ![d] = 0]
    /\ seen' = [seen EXCEPT ![d] = NoRow]
    /\ slow' = slow \ {d}
    /\ burn' = [burn EXCEPT ![d] = {}]

\* reclaim_stale.
ReclaimStale(d) ==
    /\ pc[d] = "idle"
    /\ \E m \in Mail : Exists(m) /\ IsStale(row[m])
    /\ row' = [m \in Mail |-> IF Exists(m) /\ IsStale(row[m])
                              THEN Reclaimed(row[m]) ELSE row[m]]
    /\ UNCHANGED <<kind, next, pc, cur, held, seen, slow, resets, done, faults>>

\* purge_dead.  Which dead rows are past the retention age is left open.
PurgeDead(d) ==
    /\ pc[d] = "idle"
    /\ \E old \in SUBSET {m \in Mail : Has(m, "dead")} :
          /\ old # {}
          /\ row' = [m \in Mail |-> IF m \in old THEN NoRow ELSE row[m]]
    /\ UNCHANGED <<kind, next, pc, cur, held, seen, slow, resets, done, faults>>

\* _claim: the oldest due row.  The row lock is held from the SELECT to the
\* commit and other claims skip locked rows, so that the whole is one step.  A
\* row that died and was revived has lost its token, which its handler misses.
Oldest(m) == m \in Due /\ \A k \in Due : m <= k

Claim(d) ==
    /\ pc[d] = "idle"
    /\ \E m \in Due :
          /\ Oldest(m)
          /\ row' = [row EXCEPT ![m] = Claimed(@)]
          /\ cur' = [cur EXCEPT ![d] = m]
          /\ pc' = [pc EXCEPT ![d] = IF HasToken(kind[m]) /\ ~row[m].token
                                     THEN "failed" ELSE "handle"]
    /\ UNCHANGED <<kind, next, held, seen, slow, resets, done, faults>>

\* The payload in hand is the one read at the claim, whatever becomes of the row.
Resolves(d) == kind[cur[d]] = "forgot"

\* Resend accepts the message.
Deliver(d) ==
    /\ pc[d] = "handle" /\ ~Resolves(d)
    /\ done' = [done EXCEPT ![cur[d]] = @ + 1]
    /\ pc' = [pc EXCEPT ![d] = "accepted"]
    /\ UNCHANGED <<row, kind, next, cur, held, seen, slow, resets, faults>>

\* _resolve_forgot_password: the address may be unknown, and the account may
\* be within the cooldown.  At the bound on rows every address is unknown.
CoolingDown == lastMint # Null /\ lastMint < Cooldown

ResolveNothing(d) ==
    /\ pc[d] = "handle" /\ Resolves(d)
    /\ pc' = [pc EXCEPT ![d] = "nothing"]
    /\ UNCHANGED <<row, kind, next, cur, held, seen, slow, resets, done, faults>>

ResolveMint(d) ==
    /\ pc[d] = "handle" /\ Resolves(d)
    /\ ~CoolingDown
    /\ Room
    /\ pc' = [pc EXCEPT ![d] = "minting"]
    /\ UNCHANGED <<row, kind, next, cur, held, seen, slow, resets, done, faults>>

\* issue_password_reset marks the live tokens it can see as used.
Invalidate(d) ==
    /\ pc[d] = "minting"
    /\ burn' = [burn EXCEPT ![d] = tokens]
    /\ pc' = [pc EXCEPT ![d] = "minted"]
    /\ UNCHANGED <<row, kind, next, cur, held, seen, slow, tokens, lastMint, done, faults>>

\* _handle raises.
HandleFails(d) ==
    /\ pc[d] \in {"handle", "minting", "minted"}
    /\ pc' = [pc EXCEPT ![d] = "failed"]
    /\ burn' = [burn EXCEPT ![d] = {}]
    /\ UNCHANGED <<row, kind, next, cur, held, seen, slow, tokens, lastMint, done, faults>>

\* Mutant: the row is not deleted.
BugDelivered(d) ==
    /\ pc[d] = "accepted"
    /\ Idle(d)
    /\ UNCHANGED <<row, kind, next, tokens, lastMint, done, faults>>

\* The last commit of drain_one: the row is deleted if it is still there.
Delivered(d) ==
    /\ pc[d] = "accepted"
    /\ row' = [row EXCEPT ![cur[d]] = NoRow]
    /\ Idle(d)
    /\ UNCHANGED <<kind, next, tokens, lastMint, done, faults>>

\* The same commit for a resolve row, with what issue_password_reset staged.
Resolved(d) ==
    /\ pc[d] \in {"nothing", "minted"}
    /\ done' = [done EXCEPT ![cur[d]] = @ + 1]
    /\ IF pc[d] = "minted"
       THEN /\ row' = [row EXCEPT ![cur[d]] = NoRow, ![next] = NewRow("reset")]
            /\ kind' = [kind EXCEPT ![next] = "reset"]
            /\ next' = next + 1
            /\ tokens' = (tokens \ burn[d]) \cup {next}
            /\ lastMint' = 0
       ELSE /\ row' = [row EXCEPT ![cur[d]] = NoRow]
            /\ UNCHANGED <<kind, next, tokens, lastMint>>
    /\ Idle(d)
    /\ UNCHANGED faults

\* _fail loads the row; there may be none any more.
LoadFailed(d) ==
    /\ pc[d] = "failed"
    /\ IF Exists(cur[d])
       THEN /\ seen' = [seen EXCEPT ![d] = row[cur[d]]]
            /\ pc' = [pc EXCEPT ![d] = "failing"]
            /\ UNCHANGED <<cur, held, slow, burn>>
       ELSE Idle(d)
    /\ UNCHANGED <<row, kind, next, tokens, lastMint, done, faults>>

\* Mutant: a failure that drops the row.
BugFail(d) ==
    /\ pc[d] = "failing"
    /\ row' = [row EXCEPT ![cur[d]] = NoRow]
    /\ Idle(d)
    /\ UNCHANGED <<kind, next, tokens, lastMint, done, faults>>

\* Its commit: back off, or give up.  A row that has gone since it was loaded is
\* an error, which the loop survives.
Fail(d) ==
    /\ pc[d] = "failing"
    /\ row' = IF Exists(cur[d])
              THEN [row EXCEPT ![cur[d]] = Outcome(@, seen[d])]
              ELSE row
    /\ Idle(d)
    /\ UNCHANGED <<kind, next, tokens, lastMint, done, faults>>

\* The next step of a drainer that has claimed a row.
Handle(d) ==
    \/ Deliver(d) \/ ResolveNothing(d) \/ ResolveMint(d) \/ Invalidate(d)
    \/ HandleFails(d) \/ Delivered(d) \/ Resolved(d) \/ LoadFailed(d) \/ Fail(d)

-----------------------------------------------------------------------------
(* Disturbances.                                                           *)

Disturb(what) ==
    /\ what \in Faults
    /\ faults < MaxFaults
    /\ faults' = faults + 1

\* The worker process dies or is stopped; its transaction is rolled back.
Crash(d) ==
    /\ pc[d] # "gone"
    /\ Disturb("crash")
    /\ pc' = [pc EXCEPT ![d] = "gone"]
    /\ cur' = [cur EXCEPT ![d] = NoMail]
    /\ held' = [held EXCEPT ![d] = 0]
    /\ seen' = [seen EXCEPT ![d] = NoRow]
    /\ slow' = slow \ {d}
    /\ burn' = [burn EXCEPT ![d] = {}]
    /\ UNCHANGED <<row, kind, next, tokens, lastMint, done>>

\* The container restarts, or the training loop's watchdog the thread.
Restart(d) ==
    /\ pc[d] = "gone"
    /\ pc' = [pc EXCEPT ![d] = "idle"]
    /\ UNCHANGED <<row, kind, next, cur, held, seen, slow, resets, done, faults>>

\* A call hangs: time passes that a healthy drainer does not take.
Hang(d) ==
    /\ pc[d] \in InFlight /\ d \notin slow
    /\ Disturb("slow")
    /\ slow' = slow \cup {d}
    /\ UNCHANGED <<row, kind, next, pc, cur, held, seen, resets, done>>

\* Resend accepts the message, but the call raises.
ReplyLost(d) ==
    /\ pc[d] = "handle" /\ ~Resolves(d)
    /\ Disturb("reply")
    /\ done' = [done EXCEPT ![cur[d]] = @ + 1]
    /\ pc' = [pc EXCEPT ![d] = "failed"]
    /\ UNCHANGED <<row, kind, next, cur, held, seen, slow, resets>>

\* An exception reaches the loop, which replaces the session.
DbError(d) ==
    /\ pc[d] \in InFlight
    /\ Disturb("dberror")
    /\ Idle(d)
    /\ UNCHANGED <<row, kind, next, tokens, lastMint, done>>

\* A claim is committed but its answer is lost.
ClaimLost(d) ==
    /\ pc[d] = "idle"
    /\ Disturb("dberror")
    /\ \E m \in Due : Oldest(m) /\ row' = [row EXCEPT ![m] = Claimed(@)]
    /\ UNCHANGED <<kind, next, pc, cur, held, seen, slow, resets, done>>

Older(r) == [r EXCEPT !.wait = IF @ > 0 THEN @ - 1 ELSE 0,
                      !.claimed = IF @ = Null THEN Null
                                  ELSE IF @ > Stale THEN @ ELSE @ + 1]

Tick ==
    /\ \A d \in Drainer : pc[d] \in InFlight /\ d \notin slow => held[d] < HandleBy
    /\ held' = [d \in Drainer |-> IF pc[d] \in InFlight /\ held[d] < HandleBy
                                  THEN held[d] + 1 ELSE held[d]]
    /\ row' = [m \in Mail |-> IF Exists(m) THEN Older(row[m]) ELSE NoRow]
    /\ lastMint' = IF lastMint = Null \/ lastMint = Cooldown THEN lastMint ELSE lastMint + 1
    /\ UNCHANGED <<kind, next, pc, cur, seen, slow, burn, tokens, done, faults>>

-----------------------------------------------------------------------------
Next ==
    \/ \E k \in Kinds : Enqueue(k)
    \/ \E t \in Mail : TokenDies(t)
    \/ \E d \in Drainer :
          \/ ReclaimStale(d) \/ PurgeDead(d) \/ Claim(d)
          \/ Deliver(d) \/ ResolveNothing(d) \/ ResolveMint(d) \/ Invalidate(d)
          \/ HandleFails(d) \/ Delivered(d) \/ Resolved(d) \/ LoadFailed(d) \/ Fail(d)
          \/ Crash(d) \/ Restart(d) \/ Hang(d) \/ ReplyLost(d) \/ DbError(d) \/ ClaimLost(d)
    \/ Tick

Spec == Init /\ [][Next]_vars

\* The container runtime restarts a dead worker, a call returns in the end, and
\* a running loop keeps looping.
Fairness ==
    /\ WF_vars(Tick)
    /\ \A d \in Drainer :
          /\ WF_vars(Handle(d))
          /\ WF_vars(ReclaimStale(d))
          /\ WF_vars(Claim(d))
          /\ WF_vars(Restart(d))

FairSpec == Spec /\ Fairness

-----------------------------------------------------------------------------
(* Properties.                                                             *)

\* No message is dropped: a row leaves the table only after its work took
\* effect at least once, or after it was declared dead (drain_one, purge_dead).
NeverDropped ==
    [][\A m \in Mail : Exists(m) /\ ~Exists(m)' => done'[m] > 0 \/ Has(m, "dead")]_vars

\* A message goes out more than once only when something broke, and at most
\* once more for every disturbance, whatever drainers that were presumed dead
\* write into the row (drain_one, _fail, reclaim_stale).
DuplicatesNeedFaults == \A m \in Mail : done[m] <= 1 + faults

\* Drainer d commits the failure of row m, which it loaded before it died.
Overtaken(d, m) ==
    pc[d] = "failing" /\ pc'[d] = "idle" /\ cur[d] = m /\ seen[d].status # "dead"

\* A dead row disappears or stays dead, and its secret never comes back.  The one
\* thing that revives it is a failure that was decided before it died, by a
\* drainer that is not its only one: that takes a disturbance (_fail, _claim).
DeadIsFinal ==
    [][\A m \in Mail : Has(m, "dead") /\ Exists(m)' =>
          /\ ~row'[m].token
          /\ Has(m, "dead")' \/ (faults > 0 /\ \E d \in Drainer : Overtaken(d, m))]_vars

\* Until something breaks, a claim is exclusive: the drainer's row is there,
\* is "sending", and no other drainer works on it (CLAIM_STALE_SECONDS exceeds
\* the time a delivery takes).
ClaimIsExclusive ==
    faults = 0 =>
        \A d \in Drainer : pc[d] \in InFlight =>
            /\ Has(cur[d], "sending")
            /\ \A e \in Drainer \ {d} : cur[e] # cur[d]

\* Every enqueued message is delivered or declared dead in the end, whatever
\* happened to the drainers that claimed it.
EventuallySettled ==
    \A m \in Mail :
        (Exists(m) /\ ~Has(m, "dead")) ~> (~Exists(m) \/ Has(m, "dead"))

\* core/verification.py on reset tokens: "Any still-live reset tokens are
\* invalidated first, so only the newest link works."
OnlyNewestLinkWorks == Cardinality(tokens) <= 1

\* One owner at a time, and a second delivery only where a disturbance paid for it.
ClaimsAreSafe == DuplicatesNeedFaults /\ ClaimIsExclusive

\* No email is dropped on its way, and none comes back from the dead unless two
\* drainers had it.
NothingLostOrRevived == NeverDropped /\ DeadIsFinal

=============================================================================

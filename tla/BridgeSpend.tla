----------------------------- MODULE BridgeSpend -----------------------------
(***************************************************************************)
(* What feasibility runs cost, on one day: the daily cap that start_run    *)
(* tests, the ledger that a run keeps in its row, and the ceiling that is  *)
(* tested before each paid call (llm.py, embeddings.py).                   *)
(*                                                                         *)
(* Money is counted in the millionths of a dollar to which a charge is     *)
(* rounded; the column keeps ten-thousandths, Grain of them.  Only calls   *)
(* that the response cache cannot answer appear: a hit costs nothing.      *)
(* BridgeQueue models when runs are claimed and reclaimed; here a running  *)
(* row may be given up at any time, with its executor dead or only slow,   *)
(* and a slow one goes on paying.  Seed runs, which the daily sum leaves   *)
(* out, do not appear.                                                     *)
(***************************************************************************)
EXTENDS Integers, FiniteSetsExt

CONSTANTS
    User,
    Handler,    \* API threads that serve POST /bridge/runs
    Executor,   \* drains
    Ceiling,    \* BRIDGE_VERDICT_SPEND_CEILING_USD
    Cap,        \* BRIDGE_DAILY_SPEND_CAP_USD
    MaxCall,    \* the most a call costs, by its max_output_tokens
    Charge,     \* what calls do cost
    Grain,      \* the resolution of cost_usd
    MaxRuns,    \* bound: runs ever asked for
    MaxCalls,   \* bound: paid calls of a run
    None        \* no user, no run

\* What the model needs of its constants.
BridgeSpendConstants ==
    /\ IsFiniteSet(User) /\ IsFiniteSet(Handler) /\ IsFiniteSet(Executor)
    /\ Ceiling \in Nat \ {0} /\ Cap \in Nat /\ MaxCall \in Nat /\ Grain \in Nat \ {0}
    /\ Charge \subseteq 1..MaxCall
    /\ MaxRuns \in Nat /\ MaxCalls \in Nat
    /\ None \notin User /\ None \notin 1..MaxRuns

Run == 1..MaxRuns
Active == {"queued", "running"}

VARIABLES
    job,        \* bridge_jobs, and beside each row what it really cost
    handler,    \* the user whose request has passed the cap's test
    exec        \* what an executor holds: its run, and cost_usd as its session has it

vars == <<job, handler, exec>>

\* The row of a run, and the model's records beside it: the calls that were charged
\* and their price, and those that were paid for and not charged.
NoJob == [status |-> "unborn", user |-> None, cost |-> 0,
          calls |-> 0, price |-> 0, wasted |-> 0]
NewJob(u) == [NoJob EXCEPT !.status = "queued", !.user = u]
Gone == [NoJob EXCEPT !.status = "gone"]
Exists(r) == job[r].status \in Active \cup {"over"}

Idle == [pc |-> "idle", run |-> None, seen |-> 0]
At(e, p) == exec[e].pc = p

Init ==
    /\ job = [r \in Run |-> NoJob]
    /\ handler = [h \in Handler |-> None]
    /\ exec = [e \in Executor |-> Idle]

----------------------------------------------------------------------------
\* Asking for a run.

\* _daily_spend: the sum over the rows there are.
DailySpend == MapThenSumSet(LAMBDA r : job[r].cost, Run)

\* start_run up to the test of the cap.
BugWithinCap == TRUE
WithinCap == DailySpend < Cap
PassCap(h, u) ==
    /\ handler[h] = None
    /\ WithinCap
    /\ handler' = [handler EXCEPT ![h] = u]
    /\ UNCHANGED <<job, exec>>

\* start_run's insert, or the conflict with uq_bridge_jobs_active_per_user.
SlotFree(u) == \A r \in Run : job[r].user = u => job[r].status \notin Active
Insert(h) ==
    /\ handler[h] # None
    /\ handler' = [handler EXCEPT ![h] = None]
    /\ IF SlotFree(handler[h])
       THEN \E r \in Run :
               /\ job[r].status = "unborn"
               /\ \A q \in 1..(r - 1) : job[q].status # "unborn"
               /\ job' = [job EXCEPT ![r] = NewJob(handler[h])]
       ELSE UNCHANGED job
    /\ UNCHANGED exec

\* cancel_run: a queued run only.
Cancel(r) ==
    /\ job[r].status = "queued"
    /\ job' = [job EXCEPT ![r].status = "over"]
    /\ UNCHANGED <<handler, exec>>

\* delete_account: the runs go with it, and what they cost; a request of the
\* account's that is under way finds no user to insert for.
DeleteAccount(u) ==
    /\ job' = [r \in Run |-> IF job[r].user = u THEN Gone ELSE job[r]]
    /\ handler' = [h \in Handler |-> IF handler[h] = u THEN None ELSE handler[h]]
    /\ UNCHANGED exec

----------------------------------------------------------------------------
\* Executing it.

\* The drain's claim of the oldest queued run.
Claim(e, r) ==
    /\ At(e, "idle")
    /\ job[r].status = "queued" /\ \A q \in 1..(r - 1) : job[q].status # "queued"
    /\ job' = [job EXCEPT ![r].status = "running"]
    /\ exec' = [exec EXCEPT ![e] = [pc |-> "ready", run |-> r, seen |-> 0]]
    /\ UNCHANGED handler

\* reclaim_stale: no heartbeat in time.  The run has failed, and is not queued again.
BugReclaimed == "queued"
Reclaimed == "over"
Reclaim(r) ==
    /\ job[r].status = "running"
    /\ job' = [job EXCEPT ![r].status = Reclaimed]
    /\ UNCHANGED <<handler, exec>>

\* The run ends, by itself, by the deadline, by an exception or by the ceiling;
\* an executor whose row is gone ends with an exception.
Over(r) == IF Exists(r) THEN [job EXCEPT ![r].status = "over"] ELSE job
End(e) ==
    /\ ~At(e, "idle")
    /\ job' = Over(exec[e].run)
    /\ exec' = [exec EXCEPT ![e] = Idle]
    /\ UNCHANGED handler

\* SpendLedger.check: the row is read, and a run at its ceiling ends (End).
BugUnderCeiling(spent) == spent <= Ceiling
UnderCeiling(spent) == spent < Ceiling
Dispatch(e) ==
    LET r == exec[e].run
    IN  /\ At(e, "ready") /\ Exists(r) /\ job[r].calls < MaxCalls
        /\ UnderCeiling(job[r].cost)
        /\ exec' = [exec EXCEPT ![e].pc = "calling", ![e].seen = job[r].cost]
        /\ UNCHANGED <<job, handler>>

\* The column keeps the nearest multiple of its resolution, and of two the larger.
Rounded(x) == IF 2 * (x % Grain) < Grain THEN x - (x % Grain) ELSE x - (x % Grain) + Grain

\* SpendLedger.charge writes what the session had read, plus the charge.
BugCharged(seen, c) == Rounded(c)
Charged(seen, c) == Rounded(seen + c)

\* The answer is charged, and the run goes on.
Answer(e, c) ==
    LET r == exec[e].run
    IN  /\ At(e, "calling") /\ Exists(r)
        /\ job' = [job EXCEPT ![r].cost = Charged(exec[e].seen, c),
                              ![r].calls = @ + 1, ![r].price = @ + c]
        /\ exec' = [exec EXCEPT ![e].pc = "ready", ![e].seen = 0]
        /\ UNCHANGED handler

\* The answer cannot be used (max_tokens, not the schema) and ends the run, or
\* the process dies with the answer under way and leaves the row as it is: the
\* call is paid for and not charged.
Waste(e) ==
    LET r == exec[e].run
    IN  /\ At(e, "calling") /\ Exists(r)
        /\ \E status \in {"over", job[r].status} :
              job' = [job EXCEPT ![r].status = status, ![r].wasted = @ + 1]
        /\ exec' = [exec EXCEPT ![e] = Idle]
        /\ UNCHANGED handler

\* The process dies between calls.
Crash(e) ==
    /\ At(e, "ready")
    /\ exec' = [exec EXCEPT ![e] = Idle]
    /\ UNCHANGED <<job, handler>>

Next ==
    \/ \E h \in Handler : Insert(h) \/ \E u \in User : PassCap(h, u)
    \/ \E u \in User : DeleteAccount(u)
    \/ \E r \in Run : Cancel(r) \/ Reclaim(r) \/ \E e \in Executor : Claim(e, r)
    \/ \E e \in Executor :
          \/ Dispatch(e) \/ Waste(e) \/ End(e) \/ Crash(e)
          \/ \E c \in Charge : Answer(e, c)

Spec == Init /\ [][Next]_vars

----------------------------------------------------------------------------
\* Properties.

\* A row of bridge_jobs, with the model's records.
Row == [status: {"unborn", "gone", "over"} \cup Active, user: User \cup {None},
        cost: Nat, calls: Nat, price: Nat, wasted: Nat]
\* What an executor holds.
Hold == [pc: {"idle", "ready", "calling"}, run: Run \cup {None}, seen: Nat]

\* The values of the rows and of what the handlers and executors hold.
TypeOK ==
    /\ job \in [Run -> Row]
    /\ handler \in [Handler -> User \cup {None}]
    /\ exec \in [Executor -> Hold]

\* The most a row can show: a run just under the ceiling, and one more call.
MostOfARun == Rounded(Ceiling - 1 + MaxCall)

\* A row never shows more than the ceiling and one call (SpendLedger.check is
\* before the call, charge after it).
CeilingHolds == \A r \in Run : job[r].cost <= MostOfARun

\* The ledger is true, whatever is reclaimed, cancelled or dies: it errs by half a
\* Grain a call, and misses one call at most, that which ended the run.  No two
\* executors ever write one row.
LedgerIsTrue ==
    \A r \in Run :
        /\ 2 * (job[r].price - job[r].cost) <= job[r].calls * Grain
        /\ 2 * (job[r].cost - job[r].price) <= job[r].calls * Grain
        /\ job[r].wasted <= 1

\* The day's sum overshoots the cap by what was under way when it was reached:
\* a run per user, a request per handler, and per executor a run that was given up.
\* (A cap of 0 admits no run.)
CapHolds ==
    DailySpend > 0 =>
        DailySpend <= Cap - 1 + MostOfARun *
            (Cardinality(User) + Cardinality(Handler) + Cardinality(Executor))

\* What the limits on spending really limit.
SpendIsBounded == CeilingHolds /\ LedgerIsTrue /\ CapHolds
=============================================================================

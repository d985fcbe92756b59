-------------------------- MODULE TrainingQueueProofs --------------------------
(***************************************************************************)
(* Proofs about TrainingQueue, for any number of users, workers, jobs and  *)
(* disturbances: the inductive invariant IInv, the safety properties it    *)
(* implies, and the refinement of JobLifecycle when no worker is paused.   *)
(*                                                                         *)
(* Each conjunct of IInv has a lemma with one step per action.  The four   *)
(* transactions that rewrite one row (ClaimCommit, Record, Release and a   *)
(* DbError whose commit was applied) go through the lemmas on what they    *)
(* leave in the table.                                                     *)
(***************************************************************************)
EXTENDS TrainingQueue, TLAPS

\* What each update of a row does to it.
LEMMA RowOps ==
  ASSUME NEW r \in Row
  PROVE  /\ Claimed(r) \in Row /\ Claimed(r).user = r.user
         /\ Claimed(r).status = "running" /\ Claimed(r).hb = 0
         /\ Beaten(r) \in Row /\ Beaten(r).user = r.user
         /\ Beaten(r).status = r.status /\ Beaten(r).hb = 0
         /\ Released(r) \in Row /\ Released(r).user = r.user
         /\ Released(r).status = "queued"
         /\ Reclaimed(r) \in Row /\ Reclaimed(r).user = r.user
         /\ Reclaimed(r).status = "failed"
         /\ \A s \in Status : /\ Recorded(r, s) \in Row
                              /\ Recorded(r, s).user = r.user
                              /\ Recorded(r, s).status = s
<1>1. 0 \in Age
  BY TimingAssumption DEF Age
<1> QED
  BY <1>1 DEF Claimed, Beaten, Released, Reclaimed, Recorded, Row, Status

\* A row that ages keeps all but its heartbeat, which grows by a tick at most.
LEMMA OlderRow ==
  ASSUME NEW r \in Row
  PROVE  /\ Older(r) \in Row /\ Older(r).user = r.user
         /\ Older(r).status = r.status
         /\ r.status # "running" => Older(r) = r
         /\ r.hb \in Age => Older(r).hb \in {r.hb, r.hb + 1} \cap Age
<1>1. CASE r.status = "running" /\ r.hb # Null /\ r.hb <= Stale
  <2>1. r.hb + 1 \in Age
    BY <1>1, TimingAssumption DEF Age, Row
  <2>2. Older(r) = [r EXCEPT !.hb = r.hb + 1]
    BY <1>1 DEF Older
  <2> QED
    BY <1>1, <2>1, <2>2 DEF Row
<1>2. CASE ~(r.status = "running" /\ r.hb # Null /\ r.hb <= Stale)
  BY <1>2 DEF Older
<1> QED
  BY <1>1, <1>2

\* What the transactions that rewrite one row leave in the table.
ClaimCommitted(w) ==
    /\ cur[w] \in Job
    /\ row[cur[w]] \in Row /\ row[cur[w]].status = "queued"
    /\ row'[cur[w]] \in Row
    /\ row'[cur[w]].user = row[cur[w]].user
    /\ row'[cur[w]].status = "running" /\ row'[cur[w]].hb = 0
    /\ \A k \in Job : k # cur[w] => row'[k] = row[k]

OutcomeRecorded(w) ==
    /\ cur[w] \in Job
    /\ row[cur[w]] \in Row /\ row[cur[w]].status \in {"running", "failed"}
    /\ row'[cur[w]] \in Row
    /\ row'[cur[w]].user = row[cur[w]].user
    /\ row'[cur[w]].status \in Terminal
    /\ \A k \in Job : k # cur[w] => row'[k] = row[k]

\* What the commit of a claim does to the row it locked.
LEMMA ClaimEffect ==
  ASSUME IInv, NEW w \in Worker, pc[w] = "locked",
         row' = [row EXCEPT ![cur[w]] = Claimed(@)]
  PROVE  ClaimCommitted(w)
<1>1. cur[w] \in Job /\ row[cur[w]] \in Row /\ row[cur[w]].status = "queued"
  BY DEF IInv, TypeOK, HoldsJob, LockHolds, Has, Exists
<1>2. row'[cur[w]] = Claimed(row[cur[w]])
  BY <1>1 DEF IInv, TypeOK
<1> QED
  BY <1>1, <1>2, RowOps DEF ClaimCommitted, IInv, TypeOK

\* What recording an outcome does to the row.
LEMMA RecordEffect ==
  ASSUME IInv, NEW w \in Worker, Record(w)
  PROVE  OutcomeRecorded(w)
<1> DEFINE s == IF pc[w] = "ok" THEN "succeeded" ELSE "failed"
<1>1. /\ cur[w] \in Job
      /\ row[cur[w]] \in Row
      /\ row[cur[w]].status \in {"running", "failed"}
  BY DEF Record, IInv, TypeOK, HoldsJob, SupervisedRow, Supervises, Exists
<1>2. row'[cur[w]] = Recorded(row[cur[w]], s)
  BY <1>1 DEF Record, IInv, TypeOK
<1>3. s \in Status /\ s \in Terminal
  BY DEF Status, Terminal
<1>4. /\ Recorded(row[cur[w]], s) \in Row
      /\ Recorded(row[cur[w]], s).user = row[cur[w]].user
      /\ Recorded(row[cur[w]], s).status = s
  BY <1>1, <1>3, RowOps
<1>5. \A k \in Job : k # cur[w] => row'[k] = row[k]
  BY <1>1 DEF Record, IInv, TypeOK
<1> QED
  BY <1>1, <1>2, <1>3, <1>4, <1>5 DEF OutcomeRecorded

\* A release leaves the table alone or puts back a supervised row whose slot is free.
LEMMA ReleaseEffect ==
  ASSUME IInv, NEW w \in Worker, Release(w)
  PROVE  /\ cur[w] \in Job
         /\ \/ row' = row
            \/ /\ row[cur[w]] \in Row /\ Exists(cur[w])
               /\ row[cur[w]].status \in {"running", "failed"}
               /\ SlotFree(row[cur[w]].user, cur[w])
               /\ row'[cur[w]] \in Row
               /\ row'[cur[w]].user = row[cur[w]].user
               /\ row'[cur[w]].status = "queued"
               /\ \A k \in Job : k # cur[w] => row'[k] = row[k]
<1>1. cur[w] \in Job
  BY DEF Release, IInv, TypeOK, HoldsJob, Supervises
<1>2. CASE Exists(cur[w]) /\ SlotFree(row[cur[w]].user, cur[w])
  <2>1. row[cur[w]] \in Row /\ row[cur[w]].status \in {"running", "failed"}
    BY <1>1, <1>2 DEF Release, IInv, TypeOK, SupervisedRow, Supervises, Exists
  <2>2. row' = [row EXCEPT ![cur[w]] = Released(row[cur[w]])]
    BY <1>2 DEF Release
  <2>3. /\ row'[cur[w]] = Released(row[cur[w]])
        /\ \A k \in Job : k # cur[w] => row'[k] = row[k]
    BY <1>1, <2>2 DEF IInv, TypeOK
  <2> QED
    BY <1>1, <1>2, <2>1, <2>3, RowOps
<1>3. CASE ~(Exists(cur[w]) /\ SlotFree(row[cur[w]].user, cur[w]))
  BY <1>1, <1>3 DEF Release
<1> QED
  BY <1>2, <1>3

\* Every action keeps the types.
LEMMA TypeStep == IInv /\ [Next]_vars => TypeOK'
<1> SUFFICES ASSUME IInv, [Next]_vars PROVE TypeOK'
  OBVIOUS
<1> USE NullAssumption, BoundsAssumption DEF Place, IInv, TypeOK, LockHolds, HoldsJob, Has, Exists, Supervises
<1>1. ASSUME NEW u \in User, Submit(u) PROVE TypeOK'
  BY <1>1 DEF Submit, NewRow, Row, Age, Status, Job
<1>2. ASSUME NEW u \in User, ClearFinished(u) PROVE TypeOK'
  BY <1>2 DEF ClearFinished
<1>3. ASSUME NEW u \in User, DeleteAccount(u) PROVE TypeOK'
  BY <1>3 DEF DeleteAccount
<1>4. ASSUME NEW w \in Worker, ReclaimStale(w) PROVE TypeOK'
  BY <1>4, RowOps DEF ReclaimStale
<1>5. ASSUME NEW w \in Worker, ClaimSelect(w) PROVE TypeOK'
  BY <1>5 DEF ClaimSelect, table, Claimable
<1>6. ASSUME NEW w \in Worker, ClaimNothing(w) PROVE TypeOK'
  BY <1>6 DEF ClaimNothing, table
<1>7. ASSUME NEW w \in Worker, ClaimCommit(w) PROVE TypeOK'
  BY <1>7, RowOps DEF ClaimCommit
<1>8. ASSUME NEW w \in Worker, Start(w) PROVE TypeOK'
  BY <1>8 DEF Start, table
<1>9. ASSUME NEW w \in Worker, StartFails(w) PROVE TypeOK'
  BY <1>9 DEF StartFails, table
<1>10. ASSUME NEW w \in Worker, Beat(w) PROVE TypeOK'
  BY <1>10, RowOps DEF Beat
<1>11. ASSUME NEW w \in Worker, RowVanished(w) PROVE TypeOK'
  BY <1>11 DEF RowVanished, table, BackOff
<1>12. ASSUME NEW w \in Worker, Reap(w) PROVE TypeOK'
  BY <1>12 DEF Reap, table
<1>13. ASSUME NEW w \in Worker, TimeOut(w) PROVE TypeOK'
  BY <1>13 DEF TimeOut, table
<1>14. ASSUME NEW w \in Worker, Abort(w) PROVE TypeOK'
  BY <1>14 DEF Abort, table
<1>15. ASSUME NEW w \in Worker, Record(w) PROVE TypeOK'
  BY <1>15, RowOps DEF Record, BackOff, Status
<1>16. ASSUME NEW w \in Worker, Release(w) PROVE TypeOK'
  BY <1>16, RowOps DEF Release, Exit
<1>17. ASSUME NEW w \in Worker, Stop(w) PROVE TypeOK'
  BY <1>17 DEF Stop, table, Exit
<1>18. ASSUME NEW w \in Worker, PurgeFinished(w) PROVE TypeOK'
  BY <1>18 DEF PurgeFinished
<1>19. ASSUME NEW w \in Worker, Signal(w) PROVE TypeOK'
  BY <1>19 DEF Signal, table, Disturb
<1>20. ASSUME NEW w \in Worker, Crash(w) PROVE TypeOK'
  BY <1>20 DEF Crash, table, Exit, Disturb
<1>21. ASSUME NEW w \in Worker, DbError(w) PROVE TypeOK'
  BY <1>21, RowOps DEF DbError, BackOff, Disturb
<1>22. ASSUME NEW w \in Worker, ReleaseLost(w) PROVE TypeOK'
  BY <1>22 DEF ReleaseLost, table, Exit, Disturb
<1>23. ASSUME NEW w \in Worker, Pause(w) PROVE TypeOK'
  BY <1>23 DEF Pause, table, Disturb
<1>24. ASSUME NEW w \in Worker, Resume(w) PROVE TypeOK'
  BY <1>24 DEF Resume, table
<1>25. ASSUME NEW w \in Worker, Restart(w) PROVE TypeOK'
  BY <1>25 DEF Restart, table
<1>26. ASSUME NEW w \in Worker, TrainerExits(w) PROVE TypeOK'
  BY <1>26 DEF TrainerExits, table
<1>27. ASSUME Tick PROVE TypeOK'
  BY <1>27, OlderRow DEF Tick
<1>28. CASE UNCHANGED vars
  BY <1>28 DEF vars
<1> QED
  BY <1>1, <1>2, <1>3, <1>4, <1>5, <1>6, <1>7, <1>8, <1>9, <1>10, <1>11, <1>12, <1>13, <1>14, <1>15, <1>16, <1>17, <1>18, <1>19, <1>20, <1>21, <1>22, <1>23, <1>24, <1>25, <1>26, <1>27, <1>28 DEF Next, Api, Work, Environment

\* Ids come from next alone.
LEMMA IdsUsedStep == IInv /\ [Next]_vars => IdsUsed'
<1> SUFFICES ASSUME IInv, [Next]_vars PROVE IdsUsed'
  OBVIOUS
<1> USE NullAssumption, BoundsAssumption DEF IInv, IdsUsed, TypeOK, LockHolds, HoldsJob, Has, Exists, Supervises, Job
<1>1. ASSUME NEW u \in User, Submit(u) PROVE IdsUsed'
  BY <1>1 DEF Submit, NewRow
<1>2. ASSUME NEW u \in User, ClearFinished(u) PROVE IdsUsed'
  BY <1>2 DEF ClearFinished
<1>3. ASSUME NEW u \in User, DeleteAccount(u) PROVE IdsUsed'
  BY <1>3 DEF DeleteAccount
<1>4. ASSUME NEW w \in Worker, ReclaimStale(w) PROVE IdsUsed'
  BY <1>4 DEF ReclaimStale, Reclaimed, IsStale
<1>5. ASSUME NEW w \in Worker, ClaimSelect(w) PROVE IdsUsed'
  BY <1>5 DEF ClaimSelect, table, Claimable
<1>6. ASSUME NEW w \in Worker, ClaimNothing(w) PROVE IdsUsed'
  BY <1>6 DEF ClaimNothing, table
<1>7. ASSUME NEW w \in Worker, ClaimCommit(w) PROVE IdsUsed'
  BY <1>7 DEF ClaimCommit, Claimed
<1>8. ASSUME NEW w \in Worker, Start(w) PROVE IdsUsed'
  BY <1>8 DEF Start, table
<1>9. ASSUME NEW w \in Worker, StartFails(w) PROVE IdsUsed'
  BY <1>9 DEF StartFails, table
<1>10. ASSUME NEW w \in Worker, Beat(w) PROVE IdsUsed'
  BY <1>10 DEF Beat, BeatDue
<1>11. ASSUME NEW w \in Worker, RowVanished(w) PROVE IdsUsed'
  BY <1>11 DEF RowVanished, table, BackOff
<1>12. ASSUME NEW w \in Worker, Reap(w) PROVE IdsUsed'
  BY <1>12 DEF Reap, table
<1>13. ASSUME NEW w \in Worker, TimeOut(w) PROVE IdsUsed'
  BY <1>13 DEF TimeOut, table
<1>14. ASSUME NEW w \in Worker, Abort(w) PROVE IdsUsed'
  BY <1>14 DEF Abort, table
<1>15. ASSUME NEW w \in Worker, Record(w) PROVE IdsUsed'
  BY <1>15 DEF Record, BackOff, Recorded
<1>16. ASSUME NEW w \in Worker, Release(w) PROVE IdsUsed'
  BY <1>16 DEF Release, Exit, Released
<1>17. ASSUME NEW w \in Worker, Stop(w) PROVE IdsUsed'
  BY <1>17 DEF Stop, table, Exit
<1>18. ASSUME NEW w \in Worker, PurgeFinished(w) PROVE IdsUsed'
  BY <1>18 DEF PurgeFinished
<1>19. ASSUME NEW w \in Worker, Signal(w) PROVE IdsUsed'
  BY <1>19 DEF Signal, table, Disturb
<1>20. ASSUME NEW w \in Worker, Crash(w) PROVE IdsUsed'
  BY <1>20 DEF Crash, table, Exit, Disturb
<1>21. ASSUME NEW w \in Worker, DbError(w) PROVE IdsUsed'
  BY <1>21 DEF DbError, BackOff, Disturb, Claimed
<1>22. ASSUME NEW w \in Worker, ReleaseLost(w) PROVE IdsUsed'
  BY <1>22 DEF ReleaseLost, table, Exit, Disturb
<1>23. ASSUME NEW w \in Worker, Pause(w) PROVE IdsUsed'
  BY <1>23 DEF Pause, table, Disturb
<1>24. ASSUME NEW w \in Worker, Resume(w) PROVE IdsUsed'
  BY <1>24 DEF Resume, table
<1>25. ASSUME NEW w \in Worker, Restart(w) PROVE IdsUsed'
  BY <1>25 DEF Restart, table
<1>26. ASSUME NEW w \in Worker, TrainerExits(w) PROVE IdsUsed'
  BY <1>26 DEF TrainerExits, table
<1>27. ASSUME Tick PROVE IdsUsed'
  BY <1>27 DEF Tick
<1>28. CASE UNCHANGED vars
  BY <1>28 DEF vars
<1> QED
  BY <1>1, <1>2, <1>3, <1>4, <1>5, <1>6, <1>7, <1>8, <1>9, <1>10, <1>11, <1>12, <1>13, <1>14, <1>15, <1>16, <1>17, <1>18, <1>19, <1>20, <1>21, <1>22, <1>23, <1>24, <1>25, <1>26, <1>27, <1>28 DEF Next, Api, Work, Environment

\* current and the loop's place agree.
LEMMA HoldsJobStep == IInv /\ [Next]_vars => HoldsJob'
<1> SUFFICES ASSUME IInv, [Next]_vars PROVE HoldsJob'
  OBVIOUS
<1> USE NullAssumption DEF IInv, HoldsJob, TypeOK, LockHolds, Supervises
<1>1. ASSUME NEW u \in User, Submit(u) PROVE HoldsJob'
  BY <1>1 DEF Submit, NewRow
<1>2. ASSUME NEW u \in User, ClearFinished(u) PROVE HoldsJob'
  BY <1>2 DEF ClearFinished
<1>3. ASSUME NEW u \in User, DeleteAccount(u) PROVE HoldsJob'
  BY <1>3 DEF DeleteAccount
<1>4. ASSUME NEW w \in Worker, ReclaimStale(w) PROVE HoldsJob'
  BY <1>4 DEF ReclaimStale, Reclaimed, IsStale
<1>5. ASSUME NEW w \in Worker, ClaimSelect(w) PROVE HoldsJob'
  BY <1>5 DEF ClaimSelect, table, Claimable
<1>6. ASSUME NEW w \in Worker, ClaimNothing(w) PROVE HoldsJob'
  BY <1>6 DEF ClaimNothing, table
<1>7. ASSUME NEW w \in Worker, ClaimCommit(w) PROVE HoldsJob'
  BY <1>7 DEF ClaimCommit, Claimed
<1>8. ASSUME NEW w \in Worker, Start(w) PROVE HoldsJob'
  BY <1>8 DEF Start, table
<1>9. ASSUME NEW w \in Worker, StartFails(w) PROVE HoldsJob'
  BY <1>9 DEF StartFails, table
<1>10. ASSUME NEW w \in Worker, Beat(w) PROVE HoldsJob'
  BY <1>10 DEF Beat, BeatDue
<1>11. ASSUME NEW w \in Worker, RowVanished(w) PROVE HoldsJob'
  BY <1>11 DEF RowVanished, table, BackOff
<1>12. ASSUME NEW w \in Worker, Reap(w) PROVE HoldsJob'
  BY <1>12 DEF Reap, table
<1>13. ASSUME NEW w \in Worker, TimeOut(w) PROVE HoldsJob'
  BY <1>13 DEF TimeOut, table
<1>14. ASSUME NEW w \in Worker, Abort(w) PROVE HoldsJob'
  BY <1>14 DEF Abort, table
<1>15. ASSUME NEW w \in Worker, Record(w) PROVE HoldsJob'
  BY <1>15 DEF Record, BackOff, Recorded
<1>16. ASSUME NEW w \in Worker, Release(w) PROVE HoldsJob'
  BY <1>16 DEF Release, Exit, Released
<1>17. ASSUME NEW w \in Worker, Stop(w) PROVE HoldsJob'
  BY <1>17 DEF Stop, table, Exit
<1>18. ASSUME NEW w \in Worker, PurgeFinished(w) PROVE HoldsJob'
  BY <1>18 DEF PurgeFinished
<1>19. ASSUME NEW w \in Worker, Signal(w) PROVE HoldsJob'
  BY <1>19 DEF Signal, table, Disturb
<1>20. ASSUME NEW w \in Worker, Crash(w) PROVE HoldsJob'
  BY <1>20 DEF Crash, table, Exit, Disturb
<1>21. ASSUME NEW w \in Worker, DbError(w) PROVE HoldsJob'
  BY <1>21 DEF DbError, BackOff, Disturb, Claimed
<1>22. ASSUME NEW w \in Worker, ReleaseLost(w) PROVE HoldsJob'
  BY <1>22 DEF ReleaseLost, table, Exit, Disturb
<1>23. ASSUME NEW w \in Worker, Pause(w) PROVE HoldsJob'
  BY <1>23 DEF Pause, table, Disturb
<1>24. ASSUME NEW w \in Worker, Resume(w) PROVE HoldsJob'
  BY <1>24 DEF Resume, table
<1>25. ASSUME NEW w \in Worker, Restart(w) PROVE HoldsJob'
  BY <1>25 DEF Restart, table
<1>26. ASSUME NEW w \in Worker, TrainerExits(w) PROVE HoldsJob'
  BY <1>26 DEF TrainerExits, table
<1>27. ASSUME Tick PROVE HoldsJob'
  BY <1>27 DEF Tick
<1>28. CASE UNCHANGED vars
  BY <1>28 DEF vars
<1> QED
  BY <1>1, <1>2, <1>3, <1>4, <1>5, <1>6, <1>7, <1>8, <1>9, <1>10, <1>11, <1>12, <1>13, <1>14, <1>15, <1>16, <1>17, <1>18, <1>19, <1>20, <1>21, <1>22, <1>23, <1>24, <1>25, <1>26, <1>27, <1>28 DEF Next, Api, Work, Environment

\* Only DELETE /users/me could take a queued row away, and it waits for the lock.
LEMMA LockHoldsStep == IInv /\ [Next]_vars => LockHolds'
<1> SUFFICES ASSUME IInv, [Next]_vars PROVE LockHolds'
  OBVIOUS
<1> USE NullAssumption, RowOps, OlderRow DEF IInv, LockHolds, TypeOK, HoldsJob, HoldersDiffer, IdsUsed, SupervisedRow, Locked, Has, Exists, Owns, Supervises, Terminal
<1>1. ASSUME NEW u \in User, Submit(u) PROVE LockHolds'
  BY <1>1 DEF Submit, NewRow
<1>2. ASSUME NEW u \in User, ClearFinished(u) PROVE LockHolds'
  BY <1>2 DEF ClearFinished
<1>3. ASSUME NEW u \in User, DeleteAccount(u) PROVE LockHolds'
  BY <1>3 DEF DeleteAccount
<1>4. ASSUME NEW w \in Worker, ReclaimStale(w) PROVE LockHolds'
  BY <1>4 DEF ReclaimStale, Reclaimed, IsStale
<1>5. ASSUME NEW w \in Worker, ClaimSelect(w) PROVE LockHolds'
  BY <1>5 DEF ClaimSelect, table, Claimable
<1>6. ASSUME NEW w \in Worker, ClaimNothing(w) PROVE LockHolds'
  BY <1>6 DEF ClaimNothing, table
<1>7. ASSUME NEW w \in Worker, ClaimCommit(w) PROVE LockHolds'
  <2>1. pc[w] = "locked" /\ row' = [row EXCEPT ![cur[w]] = Claimed(@)]
    BY <1>7 DEF ClaimCommit
  <2>2. /\ pc' = [pc EXCEPT ![w] = "claimed"]
        /\ mode' = [mode EXCEPT ![w] = "up"]
        /\ UNCHANGED <<next, users, cur, shutdown, live, faults>>
    BY <1>7 DEF ClaimCommit
  <2>3. ClaimCommitted(w)
    BY <2>1, ClaimEffect
  <2> QED
    BY <2>1, <2>2, <2>3 DEF ClaimCommitted
<1>8. ASSUME NEW w \in Worker, Start(w) PROVE LockHolds'
  BY <1>8 DEF Start, table
<1>9. ASSUME NEW w \in Worker, StartFails(w) PROVE LockHolds'
  BY <1>9 DEF StartFails, table
<1>10. ASSUME NEW w \in Worker, Beat(w) PROVE LockHolds'
  BY <1>10 DEF Beat, BeatDue
<1>11. ASSUME NEW w \in Worker, RowVanished(w) PROVE LockHolds'
  BY <1>11 DEF RowVanished, table, BackOff
<1>12. ASSUME NEW w \in Worker, Reap(w) PROVE LockHolds'
  BY <1>12 DEF Reap, table
<1>13. ASSUME NEW w \in Worker, TimeOut(w) PROVE LockHolds'
  BY <1>13 DEF TimeOut, table
<1>14. ASSUME NEW w \in Worker, Abort(w) PROVE LockHolds'
  BY <1>14 DEF Abort, table
<1>15. ASSUME NEW w \in Worker, Record(w) PROVE LockHolds'
  <2>1. /\ pc[w] \in {"ok", "failed"} /\ Exists(cur[w])
        /\ BackOff(w) /\ UNCHANGED <<next, users, mode, shutdown, live, faults>>
    BY <1>15 DEF Record
  <2>2. OutcomeRecorded(w)
    BY <1>15, RecordEffect
  <2> QED
    BY <2>1, <2>2 DEF OutcomeRecorded, BackOff, Terminal
<1>16. ASSUME NEW w \in Worker, Release(w) PROVE LockHolds'
  <2>1. pc[w] = "aborted" /\ Exit(w) /\ UNCHANGED <<next, users, live, faults>>
    BY <1>16 DEF Release
  <2> QED
    BY <1>16, <2>1, ReleaseEffect DEF Exit
<1>17. ASSUME NEW w \in Worker, Stop(w) PROVE LockHolds'
  BY <1>17 DEF Stop, table, Exit
<1>18. ASSUME NEW w \in Worker, PurgeFinished(w) PROVE LockHolds'
  BY <1>18 DEF PurgeFinished
<1>19. ASSUME NEW w \in Worker, Signal(w) PROVE LockHolds'
  BY <1>19 DEF Signal, table, Disturb
<1>20. ASSUME NEW w \in Worker, Crash(w) PROVE LockHolds'
  BY <1>20 DEF Crash, table, Exit, Disturb
<1>21. ASSUME NEW w \in Worker, DbError(w) PROVE LockHolds'
  <2>1. /\ pc[w] \in {"claim", "locked", "claimed", "running", "ok", "failed"}
        /\ BackOff(w) /\ UNCHANGED <<next, users, mode, shutdown, live>>
    BY <1>21 DEF DbError
  <2>2. CASE row' = row
    BY <2>1, <2>2 DEF BackOff
  <2>3. CASE pc[w] = "locked" /\ row' = [row EXCEPT ![cur[w]] = Claimed(@)]
    <3>1. ClaimCommitted(w)
      BY <2>3, ClaimEffect
    <3> QED
      BY <2>1, <2>3, <3>1 DEF ClaimCommitted, BackOff
  <2> QED
    BY <1>21, <2>2, <2>3 DEF DbError
<1>22. ASSUME NEW w \in Worker, ReleaseLost(w) PROVE LockHolds'
  BY <1>22 DEF ReleaseLost, table, Exit, Disturb
<1>23. ASSUME NEW w \in Worker, Pause(w) PROVE LockHolds'
  BY <1>23 DEF Pause, table, Disturb
<1>24. ASSUME NEW w \in Worker, Resume(w) PROVE LockHolds'
  BY <1>24 DEF Resume, table
<1>25. ASSUME NEW w \in Worker, Restart(w) PROVE LockHolds'
  BY <1>25 DEF Restart, table
<1>26. ASSUME NEW w \in Worker, TrainerExits(w) PROVE LockHolds'
  BY <1>26 DEF TrainerExits, table
<1>27. ASSUME Tick PROVE LockHolds'
  BY <1>27 DEF Tick
<1>28. CASE UNCHANGED vars
  BY <1>28 DEF vars
<1> QED
  BY <1>1, <1>2, <1>3, <1>4, <1>5, <1>6, <1>7, <1>8, <1>9, <1>10, <1>11, <1>12, <1>13, <1>14, <1>15, <1>16, <1>17, <1>18, <1>19, <1>20, <1>21, <1>22, <1>23, <1>24, <1>25, <1>26, <1>27, <1>28 DEF Next, Api, Work, Environment

\* Nobody but its worker moves a supervised row, except that a reclaim fails it.
LEMMA SupervisedRowStep == IInv /\ [Next]_vars => SupervisedRow'
<1> SUFFICES ASSUME IInv, [Next]_vars PROVE SupervisedRow'
  OBVIOUS
<1> USE NullAssumption, RowOps, OlderRow DEF IInv, SupervisedRow, LockHolds, TypeOK, HoldsJob, HoldersDiffer, IdsUsed, Has, Exists, Owns, Supervises
<1>1. ASSUME NEW u \in User, Submit(u) PROVE SupervisedRow'
  BY <1>1 DEF Submit, NewRow
<1>2. ASSUME NEW u \in User, ClearFinished(u) PROVE SupervisedRow'
  BY <1>2 DEF ClearFinished
<1>3. ASSUME NEW u \in User, DeleteAccount(u) PROVE SupervisedRow'
  BY <1>3 DEF DeleteAccount
<1>4. ASSUME NEW w \in Worker, ReclaimStale(w) PROVE SupervisedRow'
  BY <1>4 DEF ReclaimStale, Reclaimed, IsStale
<1>5. ASSUME NEW w \in Worker, ClaimSelect(w) PROVE SupervisedRow'
  BY <1>5 DEF ClaimSelect, table, Claimable
<1>6. ASSUME NEW w \in Worker, ClaimNothing(w) PROVE SupervisedRow'
  BY <1>6 DEF ClaimNothing, table
<1>7. ASSUME NEW w \in Worker, ClaimCommit(w) PROVE SupervisedRow'
  <2>1. pc[w] = "locked" /\ row' = [row EXCEPT ![cur[w]] = Claimed(@)]
    BY <1>7 DEF ClaimCommit
  <2>2. /\ pc' = [pc EXCEPT ![w] = "claimed"]
        /\ mode' = [mode EXCEPT ![w] = "up"]
        /\ UNCHANGED <<next, users, cur, shutdown, live, faults>>
    BY <1>7 DEF ClaimCommit
  <2>3. ClaimCommitted(w)
    BY <2>1, ClaimEffect
  <2> QED
    BY <2>1, <2>2, <2>3 DEF ClaimCommitted
<1>8. ASSUME NEW w \in Worker, Start(w) PROVE SupervisedRow'
  BY <1>8 DEF Start, table
<1>9. ASSUME NEW w \in Worker, StartFails(w) PROVE SupervisedRow'
  BY <1>9 DEF StartFails, table
<1>10. ASSUME NEW w \in Worker, Beat(w) PROVE SupervisedRow'
  BY <1>10 DEF Beat, BeatDue
<1>11. ASSUME NEW w \in Worker, RowVanished(w) PROVE SupervisedRow'
  BY <1>11 DEF RowVanished, table, BackOff
<1>12. ASSUME NEW w \in Worker, Reap(w) PROVE SupervisedRow'
  BY <1>12 DEF Reap, table
<1>13. ASSUME NEW w \in Worker, TimeOut(w) PROVE SupervisedRow'
  BY <1>13 DEF TimeOut, table
<1>14. ASSUME NEW w \in Worker, Abort(w) PROVE SupervisedRow'
  BY <1>14 DEF Abort, table
<1>15. ASSUME NEW w \in Worker, Record(w) PROVE SupervisedRow'
  <2>1. /\ pc[w] \in {"ok", "failed"} /\ Exists(cur[w])
        /\ BackOff(w) /\ UNCHANGED <<next, users, mode, shutdown, live, faults>>
    BY <1>15 DEF Record
  <2>2. OutcomeRecorded(w)
    BY <1>15, RecordEffect
  <2> QED
    BY <2>1, <2>2 DEF OutcomeRecorded, BackOff, Terminal
<1>16. ASSUME NEW w \in Worker, Release(w) PROVE SupervisedRow'
  <2>1. pc[w] = "aborted" /\ Exit(w) /\ UNCHANGED <<next, users, live, faults>>
    BY <1>16 DEF Release
  <2> QED
    BY <1>16, <2>1, ReleaseEffect DEF Exit
<1>17. ASSUME NEW w \in Worker, Stop(w) PROVE SupervisedRow'
  BY <1>17 DEF Stop, table, Exit
<1>18. ASSUME NEW w \in Worker, PurgeFinished(w) PROVE SupervisedRow'
  BY <1>18 DEF PurgeFinished
<1>19. ASSUME NEW w \in Worker, Signal(w) PROVE SupervisedRow'
  BY <1>19 DEF Signal, table, Disturb
<1>20. ASSUME NEW w \in Worker, Crash(w) PROVE SupervisedRow'
  BY <1>20 DEF Crash, table, Exit, Disturb
<1>21. ASSUME NEW w \in Worker, DbError(w) PROVE SupervisedRow'
  <2>1. /\ pc[w] \in {"claim", "locked", "claimed", "running", "ok", "failed"}
        /\ BackOff(w) /\ UNCHANGED <<next, users, mode, shutdown, live>>
    BY <1>21 DEF DbError
  <2>2. CASE row' = row
    BY <2>1, <2>2 DEF BackOff
  <2>3. CASE pc[w] = "locked" /\ row' = [row EXCEPT ![cur[w]] = Claimed(@)]
    <3>1. ClaimCommitted(w)
      BY <2>3, ClaimEffect
    <3> QED
      BY <2>1, <2>3, <3>1 DEF ClaimCommitted, BackOff
  <2> QED
    BY <1>21, <2>2, <2>3 DEF DbError
<1>22. ASSUME NEW w \in Worker, ReleaseLost(w) PROVE SupervisedRow'
  BY <1>22 DEF ReleaseLost, table, Exit, Disturb
<1>23. ASSUME NEW w \in Worker, Pause(w) PROVE SupervisedRow'
  BY <1>23 DEF Pause, table, Disturb
<1>24. ASSUME NEW w \in Worker, Resume(w) PROVE SupervisedRow'
  BY <1>24 DEF Resume, table
<1>25. ASSUME NEW w \in Worker, Restart(w) PROVE SupervisedRow'
  BY <1>25 DEF Restart, table
<1>26. ASSUME NEW w \in Worker, TrainerExits(w) PROVE SupervisedRow'
  BY <1>26 DEF TrainerExits, table
<1>27. ASSUME Tick PROVE SupervisedRow'
  BY <1>27 DEF Tick
<1>28. CASE UNCHANGED vars
  BY <1>28 DEF vars
<1> QED
  BY <1>1, <1>2, <1>3, <1>4, <1>5, <1>6, <1>7, <1>8, <1>9, <1>10, <1>11, <1>12, <1>13, <1>14, <1>15, <1>16, <1>17, <1>18, <1>19, <1>20, <1>21, <1>22, <1>23, <1>24, <1>25, <1>26, <1>27, <1>28 DEF Next, Api, Work, Environment

\* A row that is claimed was queued and unlocked, so nobody held it.
LEMMA HoldersDifferStep == IInv /\ [Next]_vars => HoldersDiffer'
<1> SUFFICES ASSUME IInv, [Next]_vars PROVE HoldersDiffer'
  OBVIOUS
<1> USE NullAssumption DEF IInv, HoldersDiffer, SupervisedRow, LockHolds, TypeOK, HoldsJob, IdsUsed, Locked, Has, Exists, Supervises
<1>1. ASSUME NEW u \in User, Submit(u) PROVE HoldersDiffer'
  BY <1>1 DEF Submit, NewRow
<1>2. ASSUME NEW u \in User, ClearFinished(u) PROVE HoldersDiffer'
  BY <1>2 DEF ClearFinished
<1>3. ASSUME NEW u \in User, DeleteAccount(u) PROVE HoldersDiffer'
  BY <1>3 DEF DeleteAccount
<1>4. ASSUME NEW w \in Worker, ReclaimStale(w) PROVE HoldersDiffer'
  BY <1>4 DEF ReclaimStale, Reclaimed, IsStale
<1>5. ASSUME NEW w \in Worker, ClaimSelect(w) PROVE HoldersDiffer'
  BY <1>5 DEF ClaimSelect, table, Claimable
<1>6. ASSUME NEW w \in Worker, ClaimNothing(w) PROVE HoldersDiffer'
  BY <1>6 DEF ClaimNothing, table
<1>7. ASSUME NEW w \in Worker, ClaimCommit(w) PROVE HoldersDiffer'
  BY <1>7 DEF ClaimCommit, Claimed
<1>8. ASSUME NEW w \in Worker, Start(w) PROVE HoldersDiffer'
  BY <1>8 DEF Start, table
<1>9. ASSUME NEW w \in Worker, StartFails(w) PROVE HoldersDiffer'
  BY <1>9 DEF StartFails, table
<1>10. ASSUME NEW w \in Worker, Beat(w) PROVE HoldersDiffer'
  BY <1>10 DEF Beat, BeatDue
<1>11. ASSUME NEW w \in Worker, RowVanished(w) PROVE HoldersDiffer'
  BY <1>11 DEF RowVanished, table, BackOff
<1>12. ASSUME NEW w \in Worker, Reap(w) PROVE HoldersDiffer'
  BY <1>12 DEF Reap, table
<1>13. ASSUME NEW w \in Worker, TimeOut(w) PROVE HoldersDiffer'
  BY <1>13 DEF TimeOut, table
<1>14. ASSUME NEW w \in Worker, Abort(w) PROVE HoldersDiffer'
  BY <1>14 DEF Abort, table
<1>15. ASSUME NEW w \in Worker, Record(w) PROVE HoldersDiffer'
  BY <1>15 DEF Record, BackOff, Recorded
<1>16. ASSUME NEW w \in Worker, Release(w) PROVE HoldersDiffer'
  BY <1>16 DEF Release, Exit, Released
<1>17. ASSUME NEW w \in Worker, Stop(w) PROVE HoldersDiffer'
  BY <1>17 DEF Stop, table, Exit
<1>18. ASSUME NEW w \in Worker, PurgeFinished(w) PROVE HoldersDiffer'
  BY <1>18 DEF PurgeFinished
<1>19. ASSUME NEW w \in Worker, Signal(w) PROVE HoldersDiffer'
  BY <1>19 DEF Signal, table, Disturb
<1>20. ASSUME NEW w \in Worker, Crash(w) PROVE HoldersDiffer'
  BY <1>20 DEF Crash, table, Exit, Disturb
<1>21. ASSUME NEW w \in Worker, DbError(w) PROVE HoldersDiffer'
  BY <1>21 DEF DbError, BackOff, Disturb, Claimed
<1>22. ASSUME NEW w \in Worker, ReleaseLost(w) PROVE HoldersDiffer'
  BY <1>22 DEF ReleaseLost, table, Exit, Disturb
<1>23. ASSUME NEW w \in Worker, Pause(w) PROVE HoldersDiffer'
  BY <1>23 DEF Pause, table, Disturb
<1>24. ASSUME NEW w \in Worker, Resume(w) PROVE HoldersDiffer'
  BY <1>24 DEF Resume, table
<1>25. ASSUME NEW w \in Worker, Restart(w) PROVE HoldersDiffer'
  BY <1>25 DEF Restart, table
<1>26. ASSUME NEW w \in Worker, TrainerExits(w) PROVE HoldersDiffer'
  BY <1>26 DEF TrainerExits, table
<1>27. ASSUME Tick PROVE HoldersDiffer'
  BY <1>27 DEF Tick
<1>28. CASE UNCHANGED vars
  BY <1>28 DEF vars
<1> QED
  BY <1>1, <1>2, <1>3, <1>4, <1>5, <1>6, <1>7, <1>8, <1>9, <1>10, <1>11, <1>12, <1>13, <1>14, <1>15, <1>16, <1>17, <1>18, <1>19, <1>20, <1>21, <1>22, <1>23, <1>24, <1>25, <1>26, <1>27, <1>28 DEF Next, Api, Work, Environment

\* A trainer is stopped, left to its worker, or orphaned together with its row.
LEMMA TrainersStep == IInv /\ [Next]_vars => TrainersAccounted'
<1> SUFFICES ASSUME IInv, [Next]_vars PROVE TrainersAccounted'
  OBVIOUS
<1> USE NullAssumption, RowOps, OlderRow DEF IInv, TrainersAccounted, SupervisedRow, LockHolds, TypeOK, HoldsJob, HoldersDiffer, IdsUsed, Has, Exists, Owns, Supervises
<1>1. ASSUME NEW u \in User, Submit(u) PROVE TrainersAccounted'
  BY <1>1 DEF Submit, NewRow
<1>2. ASSUME NEW u \in User, ClearFinished(u) PROVE TrainersAccounted'
  BY <1>2 DEF ClearFinished
<1>3. ASSUME NEW u \in User, DeleteAccount(u) PROVE TrainersAccounted'
  BY <1>3 DEF DeleteAccount
<1>4. ASSUME NEW w \in Worker, ReclaimStale(w) PROVE TrainersAccounted'
  BY <1>4 DEF ReclaimStale, Reclaimed, IsStale
<1>5. ASSUME NEW w \in Worker, ClaimSelect(w) PROVE TrainersAccounted'
  BY <1>5 DEF ClaimSelect, table, Claimable
<1>6. ASSUME NEW w \in Worker, ClaimNothing(w) PROVE TrainersAccounted'
  BY <1>6 DEF ClaimNothing, table
<1>7. ASSUME NEW w \in Worker, ClaimCommit(w) PROVE TrainersAccounted'
  <2>1. pc[w] = "locked" /\ row' = [row EXCEPT ![cur[w]] = Claimed(@)]
    BY <1>7 DEF ClaimCommit
  <2>2. /\ pc' = [pc EXCEPT ![w] = "claimed"]
        /\ mode' = [mode EXCEPT ![w] = "up"]
        /\ UNCHANGED <<next, users, cur, shutdown, live, faults>>
    BY <1>7 DEF ClaimCommit
  <2>3. ClaimCommitted(w)
    BY <2>1, ClaimEffect
  <2> QED
    BY <2>1, <2>2, <2>3 DEF ClaimCommitted
<1>8. ASSUME NEW w \in Worker, Start(w) PROVE TrainersAccounted'
  BY <1>8 DEF Start, table
<1>9. ASSUME NEW w \in Worker, StartFails(w) PROVE TrainersAccounted'
  BY <1>9 DEF StartFails, table
<1>10. ASSUME NEW w \in Worker, Beat(w) PROVE TrainersAccounted'
  BY <1>10 DEF Beat, BeatDue
<1>11. ASSUME NEW w \in Worker, RowVanished(w) PROVE TrainersAccounted'
  BY <1>11 DEF RowVanished, table, BackOff
<1>12. ASSUME NEW w \in Worker, Reap(w) PROVE TrainersAccounted'
  BY <1>12 DEF Reap, table
<1>13. ASSUME NEW w \in Worker, TimeOut(w) PROVE TrainersAccounted'
  BY <1>13 DEF TimeOut, table
<1>14. ASSUME NEW w \in Worker, Abort(w) PROVE TrainersAccounted'
  BY <1>14 DEF Abort, table
<1>15. ASSUME NEW w \in Worker, Record(w) PROVE TrainersAccounted'
  <2>1. /\ pc[w] \in {"ok", "failed"} /\ Exists(cur[w])
        /\ BackOff(w) /\ UNCHANGED <<next, users, mode, shutdown, live, faults>>
    BY <1>15 DEF Record
  <2>2. OutcomeRecorded(w)
    BY <1>15, RecordEffect
  <2> QED
    BY <2>1, <2>2 DEF OutcomeRecorded, BackOff, Terminal
<1>16. ASSUME NEW w \in Worker, Release(w) PROVE TrainersAccounted'
  <2>1. pc[w] = "aborted" /\ Exit(w) /\ UNCHANGED <<next, users, live, faults>>
    BY <1>16 DEF Release
  <2> QED
    BY <1>16, <2>1, ReleaseEffect DEF Exit
<1>17. ASSUME NEW w \in Worker, Stop(w) PROVE TrainersAccounted'
  BY <1>17 DEF Stop, table, Exit
<1>18. ASSUME NEW w \in Worker, PurgeFinished(w) PROVE TrainersAccounted'
  BY <1>18 DEF PurgeFinished
<1>19. ASSUME NEW w \in Worker, Signal(w) PROVE TrainersAccounted'
  BY <1>19 DEF Signal, table, Disturb
<1>20. ASSUME NEW w \in Worker, Crash(w) PROVE TrainersAccounted'
  BY <1>20 DEF Crash, table, Exit, Disturb
<1>21. ASSUME NEW w \in Worker, DbError(w) PROVE TrainersAccounted'
  <2>1. /\ pc[w] \in {"claim", "locked", "claimed", "running", "ok", "failed"}
        /\ BackOff(w) /\ UNCHANGED <<next, users, mode, shutdown, live>>
    BY <1>21 DEF DbError
  <2>2. CASE row' = row
    BY <2>1, <2>2 DEF BackOff
  <2>3. CASE pc[w] = "locked" /\ row' = [row EXCEPT ![cur[w]] = Claimed(@)]
    <3>1. ClaimCommitted(w)
      BY <2>3, ClaimEffect
    <3> QED
      BY <2>1, <2>3, <3>1 DEF ClaimCommitted, BackOff
  <2> QED
    BY <1>21, <2>2, <2>3 DEF DbError
<1>22. ASSUME NEW w \in Worker, ReleaseLost(w) PROVE TrainersAccounted'
  BY <1>22 DEF ReleaseLost, table, Exit, Disturb
<1>23. ASSUME NEW w \in Worker, Pause(w) PROVE TrainersAccounted'
  BY <1>23 DEF Pause, table, Disturb
<1>24. ASSUME NEW w \in Worker, Resume(w) PROVE TrainersAccounted'
  BY <1>24 DEF Resume, table
<1>25. ASSUME NEW w \in Worker, Restart(w) PROVE TrainersAccounted'
  BY <1>25 DEF Restart, table
<1>26. ASSUME NEW w \in Worker, TrainerExits(w) PROVE TrainersAccounted'
  BY <1>26 DEF TrainerExits, table
<1>27. ASSUME Tick PROVE TrainersAccounted'
  BY <1>27 DEF Tick
<1>28. CASE UNCHANGED vars
  BY <1>28 DEF vars
<1> QED
  BY <1>1, <1>2, <1>3, <1>4, <1>5, <1>6, <1>7, <1>8, <1>9, <1>10, <1>11, <1>12, <1>13, <1>14, <1>15, <1>16, <1>17, <1>18, <1>19, <1>20, <1>21, <1>22, <1>23, <1>24, <1>25, <1>26, <1>27, <1>28 DEF Next, Api, Work, Environment

\* A healthy row is at most BeatBy old, hence never above Stale.
LEMMA HealthyStep == IInv /\ [Next]_vars => HealthyIsYoung'
<1> SUFFICES ASSUME IInv, [Next]_vars PROVE HealthyIsYoung'
  OBVIOUS
<1> USE NullAssumption, TimingAssumption, RowOps, OlderRow DEF IInv, HealthyIsYoung, TypeOK, HoldsJob, HoldersDiffer, IdsUsed, Has, Exists, Owns, Supervises, Age, Terminal
<1>1. ASSUME NEW u \in User, Submit(u) PROVE HealthyIsYoung'
  BY <1>1 DEF Submit, NewRow
<1>2. ASSUME NEW u \in User, ClearFinished(u) PROVE HealthyIsYoung'
  BY <1>2 DEF ClearFinished
<1>3. ASSUME NEW u \in User, DeleteAccount(u) PROVE HealthyIsYoung'
  BY <1>3 DEF DeleteAccount
<1>4. ASSUME NEW w \in Worker, ReclaimStale(w) PROVE HealthyIsYoung'
  BY <1>4 DEF ReclaimStale, Reclaimed, IsStale
<1>5. ASSUME NEW w \in Worker, ClaimSelect(w) PROVE HealthyIsYoung'
  BY <1>5 DEF ClaimSelect, table, Claimable
<1>6. ASSUME NEW w \in Worker, ClaimNothing(w) PROVE HealthyIsYoung'
  BY <1>6 DEF ClaimNothing, table
<1>7. ASSUME NEW w \in Worker, ClaimCommit(w) PROVE HealthyIsYoung'
  <2>1. pc[w] = "locked" /\ row' = [row EXCEPT ![cur[w]] = Claimed(@)]
    BY <1>7 DEF ClaimCommit
  <2>2. /\ pc' = [pc EXCEPT ![w] = "claimed"]
        /\ mode' = [mode EXCEPT ![w] = "up"]
        /\ UNCHANGED <<next, users, cur, shutdown, live, faults>>
    BY <1>7 DEF ClaimCommit
  <2>3. ClaimCommitted(w)
    BY <2>1, ClaimEffect
  <2> QED
    BY <2>1, <2>2, <2>3 DEF ClaimCommitted
<1>8. ASSUME NEW w \in Worker, Start(w) PROVE HealthyIsYoung'
  BY <1>8 DEF Start, table
<1>9. ASSUME NEW w \in Worker, StartFails(w) PROVE HealthyIsYoung'
  BY <1>9 DEF StartFails, table
<1>10. ASSUME NEW w \in Worker, Beat(w) PROVE HealthyIsYoung'
  BY <1>10 DEF Beat, BeatDue
<1>11. ASSUME NEW w \in Worker, RowVanished(w) PROVE HealthyIsYoung'
  BY <1>11 DEF RowVanished, table, BackOff
<1>12. ASSUME NEW w \in Worker, Reap(w) PROVE HealthyIsYoung'
  BY <1>12 DEF Reap, table
<1>13. ASSUME NEW w \in Worker, TimeOut(w) PROVE HealthyIsYoung'
  BY <1>13 DEF TimeOut, table
<1>14. ASSUME NEW w \in Worker, Abort(w) PROVE HealthyIsYoung'
  BY <1>14 DEF Abort, table
<1>15. ASSUME NEW w \in Worker, Record(w) PROVE HealthyIsYoung'
  <2>1. /\ pc[w] \in {"ok", "failed"} /\ Exists(cur[w])
        /\ BackOff(w) /\ UNCHANGED <<next, users, mode, shutdown, live, faults>>
    BY <1>15 DEF Record
  <2>2. OutcomeRecorded(w)
    BY <1>15, RecordEffect
  <2> QED
    BY <2>1, <2>2 DEF OutcomeRecorded, BackOff, Terminal
<1>16. ASSUME NEW w \in Worker, Release(w) PROVE HealthyIsYoung'
  <2>1. pc[w] = "aborted" /\ Exit(w) /\ UNCHANGED <<next, users, live, faults>>
    BY <1>16 DEF Release
  <2> QED
    BY <1>16, <2>1, ReleaseEffect DEF Exit
<1>17. ASSUME NEW w \in Worker, Stop(w) PROVE HealthyIsYoung'
  BY <1>17 DEF Stop, table, Exit
<1>18. ASSUME NEW w \in Worker, PurgeFinished(w) PROVE HealthyIsYoung'
  BY <1>18 DEF PurgeFinished
<1>19. ASSUME NEW w \in Worker, Signal(w) PROVE HealthyIsYoung'
  BY <1>19 DEF Signal, table, Disturb
<1>20. ASSUME NEW w \in Worker, Crash(w) PROVE HealthyIsYoung'
  BY <1>20 DEF Crash, table, Exit, Disturb
<1>21. ASSUME NEW w \in Worker, DbError(w) PROVE HealthyIsYoung'
  <2>1. /\ pc[w] \in {"claim", "locked", "claimed", "running", "ok", "failed"}
        /\ BackOff(w) /\ UNCHANGED <<next, users, mode, shutdown, live>>
    BY <1>21 DEF DbError
  <2>2. CASE row' = row
    BY <2>1, <2>2 DEF BackOff
  <2>3. CASE pc[w] = "locked" /\ row' = [row EXCEPT ![cur[w]] = Claimed(@)]
    <3>1. ClaimCommitted(w)
      BY <2>3, ClaimEffect
    <3> QED
      BY <2>1, <2>3, <3>1 DEF ClaimCommitted, BackOff
  <2> QED
    BY <1>21, <2>2, <2>3 DEF DbError
<1>22. ASSUME NEW w \in Worker, ReleaseLost(w) PROVE HealthyIsYoung'
  BY <1>22 DEF ReleaseLost, table, Exit, Disturb
<1>23. ASSUME NEW w \in Worker, Pause(w) PROVE HealthyIsYoung'
  BY <1>23 DEF Pause, table, Disturb
<1>24. ASSUME NEW w \in Worker, Resume(w) PROVE HealthyIsYoung'
  BY <1>24 DEF Resume, table
<1>25. ASSUME NEW w \in Worker, Restart(w) PROVE HealthyIsYoung'
  BY <1>25 DEF Restart, table
<1>26. ASSUME NEW w \in Worker, TrainerExits(w) PROVE HealthyIsYoung'
  BY <1>26 DEF TrainerExits, table
<1>27. ASSUME Tick PROVE HealthyIsYoung'
  BY <1>27 DEF Tick
<1>28. CASE UNCHANGED vars
  BY <1>28 DEF vars
<1> QED
  BY <1>1, <1>2, <1>3, <1>4, <1>5, <1>6, <1>7, <1>8, <1>9, <1>10, <1>11, <1>12, <1>13, <1>14, <1>15, <1>16, <1>17, <1>18, <1>19, <1>20, <1>21, <1>22, <1>23, <1>24, <1>25, <1>26, <1>27, <1>28 DEF Next, Api, Work, Environment

\* claim_one stamps the first heartbeat and only release clears it.
LEMMA HeartbeatStep == IInv /\ [Next]_vars => RunningHasHeartbeat'
<1> SUFFICES ASSUME IInv, [Next]_vars PROVE RunningHasHeartbeat'
  OBVIOUS
<1> USE NullAssumption, TimingAssumption, RowOps, OlderRow DEF IInv, RunningHasHeartbeat, TypeOK, HoldsJob, Has, Exists, Supervises, Age
<1>1. ASSUME NEW u \in User, Submit(u) PROVE RunningHasHeartbeat'
  BY <1>1 DEF Submit, NewRow
<1>2. ASSUME NEW u \in User, ClearFinished(u) PROVE RunningHasHeartbeat'
  BY <1>2 DEF ClearFinished
<1>3. ASSUME NEW u \in User, DeleteAccount(u) PROVE RunningHasHeartbeat'
  BY <1>3 DEF DeleteAccount
<1>4. ASSUME NEW w \in Worker, ReclaimStale(w) PROVE RunningHasHeartbeat'
  BY <1>4 DEF ReclaimStale, Reclaimed, IsStale
<1>5. ASSUME NEW w \in Worker, ClaimSelect(w) PROVE RunningHasHeartbeat'
  BY <1>5 DEF ClaimSelect, table, Claimable
<1>6. ASSUME NEW w \in Worker, ClaimNothing(w) PROVE RunningHasHeartbeat'
  BY <1>6 DEF ClaimNothing, table
<1>7. ASSUME NEW w \in Worker, ClaimCommit(w) PROVE RunningHasHeartbeat'
  <2>1. pc[w] = "locked" /\ row' = [row EXCEPT ![cur[w]] = Claimed(@)]
    BY <1>7 DEF ClaimCommit
  <2>2. /\ pc' = [pc EXCEPT ![w] = "claimed"]
        /\ mode' = [mode EXCEPT ![w] = "up"]
        /\ UNCHANGED <<next, users, cur, shutdown, live, faults>>
    BY <1>7 DEF ClaimCommit
  <2>3. ClaimCommitted(w)
    BY <2>1, ClaimEffect
  <2> QED
    BY <2>1, <2>2, <2>3 DEF ClaimCommitted
<1>8. ASSUME NEW w \in Worker, Start(w) PROVE RunningHasHeartbeat'
  BY <1>8 DEF Start, table
<1>9. ASSUME NEW w \in Worker, StartFails(w) PROVE RunningHasHeartbeat'
  BY <1>9 DEF StartFails, table
<1>10. ASSUME NEW w \in Worker, Beat(w) PROVE RunningHasHeartbeat'
  BY <1>10 DEF Beat, BeatDue
<1>11. ASSUME NEW w \in Worker, RowVanished(w) PROVE RunningHasHeartbeat'
  BY <1>11 DEF RowVanished, table, BackOff
<1>12. ASSUME NEW w \in Worker, Reap(w) PROVE RunningHasHeartbeat'
  BY <1>12 DEF Reap, table
<1>13. ASSUME NEW w \in Worker, TimeOut(w) PROVE RunningHasHeartbeat'
  BY <1>13 DEF TimeOut, table
<1>14. ASSUME NEW w \in Worker, Abort(w) PROVE RunningHasHeartbeat'
  BY <1>14 DEF Abort, table
<1>15. ASSUME NEW w \in Worker, Record(w) PROVE RunningHasHeartbeat'
  <2>1. /\ pc[w] \in {"ok", "failed"} /\ Exists(cur[w])
        /\ BackOff(w) /\ UNCHANGED <<next, users, mode, shutdown, live, faults>>
    BY <1>15 DEF Record
  <2>2. OutcomeRecorded(w)
    BY <1>15, RecordEffect
  <2> QED
    BY <2>1, <2>2 DEF OutcomeRecorded, BackOff, Terminal
<1>16. ASSUME NEW w \in Worker, Release(w) PROVE RunningHasHeartbeat'
  <2>1. pc[w] = "aborted" /\ Exit(w) /\ UNCHANGED <<next, users, live, faults>>
    BY <1>16 DEF Release
  <2> QED
    BY <1>16, <2>1, ReleaseEffect DEF Exit
<1>17. ASSUME NEW w \in Worker, Stop(w) PROVE RunningHasHeartbeat'
  BY <1>17 DEF Stop, table, Exit
<1>18. ASSUME NEW w \in Worker, PurgeFinished(w) PROVE RunningHasHeartbeat'
  BY <1>18 DEF PurgeFinished
<1>19. ASSUME NEW w \in Worker, Signal(w) PROVE RunningHasHeartbeat'
  BY <1>19 DEF Signal, table, Disturb
<1>20. ASSUME NEW w \in Worker, Crash(w) PROVE RunningHasHeartbeat'
  BY <1>20 DEF Crash, table, Exit, Disturb
<1>21. ASSUME NEW w \in Worker, DbError(w) PROVE RunningHasHeartbeat'
  <2>1. /\ pc[w] \in {"claim", "locked", "claimed", "running", "ok", "failed"}
        /\ BackOff(w) /\ UNCHANGED <<next, users, mode, shutdown, live>>
    BY <1>21 DEF DbError
  <2>2. CASE row' = row
    BY <2>1, <2>2 DEF BackOff
  <2>3. CASE pc[w] = "locked" /\ row' = [row EXCEPT ![cur[w]] = Claimed(@)]
    <3>1. ClaimCommitted(w)
      BY <2>3, ClaimEffect
    <3> QED
      BY <2>1, <2>3, <3>1 DEF ClaimCommitted, BackOff
  <2> QED
    BY <1>21, <2>2, <2>3 DEF DbError
<1>22. ASSUME NEW w \in Worker, ReleaseLost(w) PROVE RunningHasHeartbeat'
  BY <1>22 DEF ReleaseLost, table, Exit, Disturb
<1>23. ASSUME NEW w \in Worker, Pause(w) PROVE RunningHasHeartbeat'
  BY <1>23 DEF Pause, table, Disturb
<1>24. ASSUME NEW w \in Worker, Resume(w) PROVE RunningHasHeartbeat'
  BY <1>24 DEF Resume, table
<1>25. ASSUME NEW w \in Worker, Restart(w) PROVE RunningHasHeartbeat'
  BY <1>25 DEF Restart, table
<1>26. ASSUME NEW w \in Worker, TrainerExits(w) PROVE RunningHasHeartbeat'
  BY <1>26 DEF TrainerExits, table
<1>27. ASSUME Tick PROVE RunningHasHeartbeat'
  BY <1>27 DEF Tick
<1>28. CASE UNCHANGED vars
  BY <1>28 DEF vars
<1> QED
  BY <1>1, <1>2, <1>3, <1>4, <1>5, <1>6, <1>7, <1>8, <1>9, <1>10, <1>11, <1>12, <1>13, <1>14, <1>15, <1>16, <1>17, <1>18, <1>19, <1>20, <1>21, <1>22, <1>23, <1>24, <1>25, <1>26, <1>27, <1>28 DEF Next, Api, Work, Environment

\* The index is asked by the two writes that could break it: Submit and Release.
LEMMA OneActiveStep == IInv /\ [Next]_vars => OneActivePerUser'
<1> SUFFICES ASSUME IInv, [Next]_vars PROVE OneActivePerUser'
  OBVIOUS
<1> USE NullAssumption, RowOps, OlderRow DEF IInv, OneActivePerUser, TypeOK, HoldsJob, SlotFree, Indexed, Owns, Has, Exists, Supervises, IdsUsed
<1>1. ASSUME NEW u \in User, Submit(u) PROVE OneActivePerUser'
  BY <1>1 DEF Submit, NewRow
<1>2. ASSUME NEW u \in User, ClearFinished(u) PROVE OneActivePerUser'
  BY <1>2 DEF ClearFinished
<1>3. ASSUME NEW u \in User, DeleteAccount(u) PROVE OneActivePerUser'
  BY <1>3 DEF DeleteAccount
<1>4. ASSUME NEW w \in Worker, ReclaimStale(w) PROVE OneActivePerUser'
  BY <1>4 DEF ReclaimStale, Reclaimed, IsStale
<1>5. ASSUME NEW w \in Worker, ClaimSelect(w) PROVE OneActivePerUser'
  BY <1>5 DEF ClaimSelect, table, Claimable
<1>6. ASSUME NEW w \in Worker, ClaimNothing(w) PROVE OneActivePerUser'
  BY <1>6 DEF ClaimNothing, table
<1>7. ASSUME NEW w \in Worker, ClaimCommit(w) PROVE OneActivePerUser'
  <2>1. pc[w] = "locked" /\ row' = [row EXCEPT ![cur[w]] = Claimed(@)]
    BY <1>7 DEF ClaimCommit
  <2>2. /\ pc' = [pc EXCEPT ![w] = "claimed"]
        /\ mode' = [mode EXCEPT ![w] = "up"]
        /\ UNCHANGED <<next, users, cur, shutdown, live, faults>>
    BY <1>7 DEF ClaimCommit
  <2>3. ClaimCommitted(w)
    BY <2>1, ClaimEffect
  <2> QED
    BY <2>1, <2>2, <2>3 DEF ClaimCommitted
<1>8. ASSUME NEW w \in Worker, Start(w) PROVE OneActivePerUser'
  BY <1>8 DEF Start, table
<1>9. ASSUME NEW w \in Worker, StartFails(w) PROVE OneActivePerUser'
  BY <1>9 DEF StartFails, table
<1>10. ASSUME NEW w \in Worker, Beat(w) PROVE OneActivePerUser'
  BY <1>10 DEF Beat, BeatDue
<1>11. ASSUME NEW w \in Worker, RowVanished(w) PROVE OneActivePerUser'
  BY <1>11 DEF RowVanished, table, BackOff
<1>12. ASSUME NEW w \in Worker, Reap(w) PROVE OneActivePerUser'
  BY <1>12 DEF Reap, table
<1>13. ASSUME NEW w \in Worker, TimeOut(w) PROVE OneActivePerUser'
  BY <1>13 DEF TimeOut, table
<1>14. ASSUME NEW w \in Worker, Abort(w) PROVE OneActivePerUser'
  BY <1>14 DEF Abort, table
<1>15. ASSUME NEW w \in Worker, Record(w) PROVE OneActivePerUser'
  <2>1. /\ pc[w] \in {"ok", "failed"} /\ Exists(cur[w])
        /\ BackOff(w) /\ UNCHANGED <<next, users, mode, shutdown, live, faults>>
    BY <1>15 DEF Record
  <2>2. OutcomeRecorded(w)
    BY <1>15, RecordEffect
  <2> QED
    BY <2>1, <2>2 DEF OutcomeRecorded, BackOff, Terminal
<1>16. ASSUME NEW w \in Worker, Release(w) PROVE OneActivePerUser'
  <2>1. pc[w] = "aborted" /\ Exit(w) /\ UNCHANGED <<next, users, live, faults>>
    BY <1>16 DEF Release
  <2> QED
    BY <1>16, <2>1, ReleaseEffect DEF Exit
<1>17. ASSUME NEW w \in Worker, Stop(w) PROVE OneActivePerUser'
  BY <1>17 DEF Stop, table, Exit
<1>18. ASSUME NEW w \in Worker, PurgeFinished(w) PROVE OneActivePerUser'
  BY <1>18 DEF PurgeFinished
<1>19. ASSUME NEW w \in Worker, Signal(w) PROVE OneActivePerUser'
  BY <1>19 DEF Signal, table, Disturb
<1>20. ASSUME NEW w \in Worker, Crash(w) PROVE OneActivePerUser'
  BY <1>20 DEF Crash, table, Exit, Disturb
<1>21. ASSUME NEW w \in Worker, DbError(w) PROVE OneActivePerUser'
  <2>1. /\ pc[w] \in {"claim", "locked", "claimed", "running", "ok", "failed"}
        /\ BackOff(w) /\ UNCHANGED <<next, users, mode, shutdown, live>>
    BY <1>21 DEF DbError
  <2>2. CASE row' = row
    BY <2>1, <2>2 DEF BackOff
  <2>3. CASE pc[w] = "locked" /\ row' = [row EXCEPT ![cur[w]] = Claimed(@)]
    <3>1. ClaimCommitted(w)
      BY <2>3, ClaimEffect
    <3> QED
      BY <2>1, <2>3, <3>1 DEF ClaimCommitted, BackOff
  <2> QED
    BY <1>21, <2>2, <2>3 DEF DbError
<1>22. ASSUME NEW w \in Worker, ReleaseLost(w) PROVE OneActivePerUser'
  BY <1>22 DEF ReleaseLost, table, Exit, Disturb
<1>23. ASSUME NEW w \in Worker, Pause(w) PROVE OneActivePerUser'
  BY <1>23 DEF Pause, table, Disturb
<1>24. ASSUME NEW w \in Worker, Resume(w) PROVE OneActivePerUser'
  BY <1>24 DEF Resume, table
<1>25. ASSUME NEW w \in Worker, Restart(w) PROVE OneActivePerUser'
  BY <1>25 DEF Restart, table
<1>26. ASSUME NEW w \in Worker, TrainerExits(w) PROVE OneActivePerUser'
  BY <1>26 DEF TrainerExits, table
<1>27. ASSUME Tick PROVE OneActivePerUser'
  BY <1>27 DEF Tick
<1>28. CASE UNCHANGED vars
  BY <1>28 DEF vars
<1> QED
  BY <1>1, <1>2, <1>3, <1>4, <1>5, <1>6, <1>7, <1>8, <1>9, <1>10, <1>11, <1>12, <1>13, <1>14, <1>15, <1>16, <1>17, <1>18, <1>19, <1>20, <1>21, <1>22, <1>23, <1>24, <1>25, <1>26, <1>27, <1>28 DEF Next, Api, Work, Environment

\* A trainer starts only for a job that no trainer alive belongs to.
LEMMA OneTrainerStep == IInv /\ [Next]_vars => OneTrainerPerJob'
<1> SUFFICES ASSUME IInv, [Next]_vars PROVE OneTrainerPerJob'
  OBVIOUS
<1> USE NullAssumption DEF IInv, OneTrainerPerJob, TrainersAccounted, TypeOK, HoldsJob, HoldersDiffer, Supervises
<1>1. ASSUME NEW u \in User, Submit(u) PROVE OneTrainerPerJob'
  BY <1>1 DEF Submit, NewRow
<1>2. ASSUME NEW u \in User, ClearFinished(u) PROVE OneTrainerPerJob'
  BY <1>2 DEF ClearFinished
<1>3. ASSUME NEW u \in User, DeleteAccount(u) PROVE OneTrainerPerJob'
  BY <1>3 DEF DeleteAccount
<1>4. ASSUME NEW w \in Worker, ReclaimStale(w) PROVE OneTrainerPerJob'
  BY <1>4 DEF ReclaimStale, Reclaimed, IsStale
<1>5. ASSUME NEW w \in Worker, ClaimSelect(w) PROVE OneTrainerPerJob'
  BY <1>5 DEF ClaimSelect, table, Claimable
<1>6. ASSUME NEW w \in Worker, ClaimNothing(w) PROVE OneTrainerPerJob'
  BY <1>6 DEF ClaimNothing, table
<1>7. ASSUME NEW w \in Worker, ClaimCommit(w) PROVE OneTrainerPerJob'
  BY <1>7 DEF ClaimCommit, Claimed
<1>8. ASSUME NEW w \in Worker, Start(w) PROVE OneTrainerPerJob'
  BY <1>8 DEF Start, table
<1>9. ASSUME NEW w \in Worker, StartFails(w) PROVE OneTrainerPerJob'
  BY <1>9 DEF StartFails, table
<1>10. ASSUME NEW w \in Worker, Beat(w) PROVE OneTrainerPerJob'
  BY <1>10 DEF Beat, BeatDue
<1>11. ASSUME NEW w \in Worker, RowVanished(w) PROVE OneTrainerPerJob'
  BY <1>11 DEF RowVanished, table, BackOff
<1>12. ASSUME NEW w \in Worker, Reap(w) PROVE OneTrainerPerJob'
  BY <1>12 DEF Reap, table
<1>13. ASSUME NEW w \in Worker, TimeOut(w) PROVE OneTrainerPerJob'
  BY <1>13 DEF TimeOut, table
<1>14. ASSUME NEW w \in Worker, Abort(w) PROVE OneTrainerPerJob'
  BY <1>14 DEF Abort, table
<1>15. ASSUME NEW w \in Worker, Record(w) PROVE OneTrainerPerJob'
  BY <1>15 DEF Record, BackOff, Recorded
<1>16. ASSUME NEW w \in Worker, Release(w) PROVE OneTrainerPerJob'
  BY <1>16 DEF Release, Exit, Released
<1>17. ASSUME NEW w \in Worker, Stop(w) PROVE OneTrainerPerJob'
  BY <1>17 DEF Stop, table, Exit
<1>18. ASSUME NEW w \in Worker, PurgeFinished(w) PROVE OneTrainerPerJob'
  BY <1>18 DEF PurgeFinished
<1>19. ASSUME NEW w \in Worker, Signal(w) PROVE OneTrainerPerJob'
  BY <1>19 DEF Signal, table, Disturb
<1>20. ASSUME NEW w \in Worker, Crash(w) PROVE OneTrainerPerJob'
  BY <1>20 DEF Crash, table, Exit, Disturb
<1>21. ASSUME NEW w \in Worker, DbError(w) PROVE OneTrainerPerJob'
  BY <1>21 DEF DbError, BackOff, Disturb, Claimed
<1>22. ASSUME NEW w \in Worker, ReleaseLost(w) PROVE OneTrainerPerJob'
  BY <1>22 DEF ReleaseLost, table, Exit, Disturb
<1>23. ASSUME NEW w \in Worker, Pause(w) PROVE OneTrainerPerJob'
  BY <1>23 DEF Pause, table, Disturb
<1>24. ASSUME NEW w \in Worker, Resume(w) PROVE OneTrainerPerJob'
  BY <1>24 DEF Resume, table
<1>25. ASSUME NEW w \in Worker, Restart(w) PROVE OneTrainerPerJob'
  BY <1>25 DEF Restart, table
<1>26. ASSUME NEW w \in Worker, TrainerExits(w) PROVE OneTrainerPerJob'
  BY <1>26 DEF TrainerExits, table
<1>27. ASSUME Tick PROVE OneTrainerPerJob'
  BY <1>27 DEF Tick
<1>28. CASE UNCHANGED vars
  BY <1>28 DEF vars
<1> QED
  BY <1>1, <1>2, <1>3, <1>4, <1>5, <1>6, <1>7, <1>8, <1>9, <1>10, <1>11, <1>12, <1>13, <1>14, <1>15, <1>16, <1>17, <1>18, <1>19, <1>20, <1>21, <1>22, <1>23, <1>24, <1>25, <1>26, <1>27, <1>28 DEF Next, Api, Work, Environment

\* Only an owner records, and what it owns is not a success.
LEMMA SucceededStep == IInv /\ [Next]_vars => (\A j \in Job : Has(j, "succeeded") => Has(j, "succeeded")' \/ ~Exists(j)')
<1> SUFFICES ASSUME IInv, [Next]_vars PROVE (\A j \in Job : Has(j, "succeeded") => Has(j, "succeeded")' \/ ~Exists(j)')
  OBVIOUS
<1> USE NullAssumption, RowOps, OlderRow DEF IInv, SupervisedRow, TypeOK, HoldsJob, Has, Exists, Supervises, IdsUsed
<1>1. ASSUME NEW u \in User, Submit(u) PROVE (\A j \in Job : Has(j, "succeeded") => Has(j, "succeeded")' \/ ~Exists(j)')
  BY <1>1 DEF Submit, NewRow
<1>2. ASSUME NEW u \in User, ClearFinished(u) PROVE (\A j \in Job : Has(j, "succeeded") => Has(j, "succeeded")' \/ ~Exists(j)')
  BY <1>2 DEF ClearFinished
<1>3. ASSUME NEW u \in User, DeleteAccount(u) PROVE (\A j \in Job : Has(j, "succeeded") => Has(j, "succeeded")' \/ ~Exists(j)')
  BY <1>3 DEF DeleteAccount
<1>4. ASSUME NEW w \in Worker, ReclaimStale(w) PROVE (\A j \in Job : Has(j, "succeeded") => Has(j, "succeeded")' \/ ~Exists(j)')
  BY <1>4 DEF ReclaimStale, Reclaimed, IsStale
<1>5. ASSUME NEW w \in Worker, ClaimSelect(w) PROVE (\A j \in Job : Has(j, "succeeded") => Has(j, "succeeded")' \/ ~Exists(j)')
  BY <1>5 DEF ClaimSelect, table, Claimable
<1>6. ASSUME NEW w \in Worker, ClaimNothing(w) PROVE (\A j \in Job : Has(j, "succeeded") => Has(j, "succeeded")' \/ ~Exists(j)')
  BY <1>6 DEF ClaimNothing, table
<1>7. ASSUME NEW w \in Worker, ClaimCommit(w) PROVE (\A j \in Job : Has(j, "succeeded") => Has(j, "succeeded")' \/ ~Exists(j)')
  <2>1. pc[w] = "locked" /\ row' = [row EXCEPT ![cur[w]] = Claimed(@)]
    BY <1>7 DEF ClaimCommit
  <2>2. /\ pc' = [pc EXCEPT ![w] = "claimed"]
        /\ mode' = [mode EXCEPT ![w] = "up"]
        /\ UNCHANGED <<next, users, cur, shutdown, live, faults>>
    BY <1>7 DEF ClaimCommit
  <2>3. ClaimCommitted(w)
    BY <2>1, ClaimEffect
  <2> QED
    BY <2>1, <2>2, <2>3 DEF ClaimCommitted
<1>8. ASSUME NEW w \in Worker, Start(w) PROVE (\A j \in Job : Has(j, "succeeded") => Has(j, "succeeded")' \/ ~Exists(j)')
  BY <1>8 DEF Start, table
<1>9. ASSUME NEW w \in Worker, StartFails(w) PROVE (\A j \in Job : Has(j, "succeeded") => Has(j, "succeeded")' \/ ~Exists(j)')
  BY <1>9 DEF StartFails, table
<1>10. ASSUME NEW w \in Worker, Beat(w) PROVE (\A j \in Job : Has(j, "succeeded") => Has(j, "succeeded")' \/ ~Exists(j)')
  BY <1>10 DEF Beat, BeatDue
<1>11. ASSUME NEW w \in Worker, RowVanished(w) PROVE (\A j \in Job : Has(j, "succeeded") => Has(j, "succeeded")' \/ ~Exists(j)')
  BY <1>11 DEF RowVanished, table, BackOff
<1>12. ASSUME NEW w \in Worker, Reap(w) PROVE (\A j \in Job : Has(j, "succeeded") => Has(j, "succeeded")' \/ ~Exists(j)')
  BY <1>12 DEF Reap, table
<1>13. ASSUME NEW w \in Worker, TimeOut(w) PROVE (\A j \in Job : Has(j, "succeeded") => Has(j, "succeeded")' \/ ~Exists(j)')
  BY <1>13 DEF TimeOut, table
<1>14. ASSUME NEW w \in Worker, Abort(w) PROVE (\A j \in Job : Has(j, "succeeded") => Has(j, "succeeded")' \/ ~Exists(j)')
  BY <1>14 DEF Abort, table
<1>15. ASSUME NEW w \in Worker, Record(w) PROVE (\A j \in Job : Has(j, "succeeded") => Has(j, "succeeded")' \/ ~Exists(j)')
  <2>1. /\ pc[w] \in {"ok", "failed"} /\ Exists(cur[w])
        /\ BackOff(w) /\ UNCHANGED <<next, users, mode, shutdown, live, faults>>
    BY <1>15 DEF Record
  <2>2. OutcomeRecorded(w)
    BY <1>15, RecordEffect
  <2> QED
    BY <2>1, <2>2 DEF OutcomeRecorded, BackOff, Terminal
<1>16. ASSUME NEW w \in Worker, Release(w) PROVE (\A j \in Job : Has(j, "succeeded") => Has(j, "succeeded")' \/ ~Exists(j)')
  <2>1. pc[w] = "aborted" /\ Exit(w) /\ UNCHANGED <<next, users, live, faults>>
    BY <1>16 DEF Release
  <2> QED
    BY <1>16, <2>1, ReleaseEffect DEF Exit
<1>17. ASSUME NEW w \in Worker, Stop(w) PROVE (\A j \in Job : Has(j, "succeeded") => Has(j, "succeeded")' \/ ~Exists(j)')
  BY <1>17 DEF Stop, table, Exit
<1>18. ASSUME NEW w \in Worker, PurgeFinished(w) PROVE (\A j \in Job : Has(j, "succeeded") => Has(j, "succeeded")' \/ ~Exists(j)')
  BY <1>18 DEF PurgeFinished
<1>19. ASSUME NEW w \in Worker, Signal(w) PROVE (\A j \in Job : Has(j, "succeeded") => Has(j, "succeeded")' \/ ~Exists(j)')
  BY <1>19 DEF Signal, table, Disturb
<1>20. ASSUME NEW w \in Worker, Crash(w) PROVE (\A j \in Job : Has(j, "succeeded") => Has(j, "succeeded")' \/ ~Exists(j)')
  BY <1>20 DEF Crash, table, Exit, Disturb
<1>21. ASSUME NEW w \in Worker, DbError(w) PROVE (\A j \in Job : Has(j, "succeeded") => Has(j, "succeeded")' \/ ~Exists(j)')
  <2>1. /\ pc[w] \in {"claim", "locked", "claimed", "running", "ok", "failed"}
        /\ BackOff(w) /\ UNCHANGED <<next, users, mode, shutdown, live>>
    BY <1>21 DEF DbError
  <2>2. CASE row' = row
    BY <2>1, <2>2 DEF BackOff
  <2>3. CASE pc[w] = "locked" /\ row' = [row EXCEPT ![cur[w]] = Claimed(@)]
    <3>1. ClaimCommitted(w)
      BY <2>3, ClaimEffect
    <3> QED
      BY <2>1, <2>3, <3>1 DEF ClaimCommitted, BackOff
  <2> QED
    BY <1>21, <2>2, <2>3 DEF DbError
<1>22. ASSUME NEW w \in Worker, ReleaseLost(w) PROVE (\A j \in Job : Has(j, "succeeded") => Has(j, "succeeded")' \/ ~Exists(j)')
  BY <1>22 DEF ReleaseLost, table, Exit, Disturb
<1>23. ASSUME NEW w \in Worker, Pause(w) PROVE (\A j \in Job : Has(j, "succeeded") => Has(j, "succeeded")' \/ ~Exists(j)')
  BY <1>23 DEF Pause, table, Disturb
<1>24. ASSUME NEW w \in Worker, Resume(w) PROVE (\A j \in Job : Has(j, "succeeded") => Has(j, "succeeded")' \/ ~Exists(j)')
  BY <1>24 DEF Resume, table
<1>25. ASSUME NEW w \in Worker, Restart(w) PROVE (\A j \in Job : Has(j, "succeeded") => Has(j, "succeeded")' \/ ~Exists(j)')
  BY <1>25 DEF Restart, table
<1>26. ASSUME NEW w \in Worker, TrainerExits(w) PROVE (\A j \in Job : Has(j, "succeeded") => Has(j, "succeeded")' \/ ~Exists(j)')
  BY <1>26 DEF TrainerExits, table
<1>27. ASSUME Tick PROVE (\A j \in Job : Has(j, "succeeded") => Has(j, "succeeded")' \/ ~Exists(j)')
  BY <1>27 DEF Tick
<1>28. CASE UNCHANGED vars
  BY <1>28 DEF vars
<1> QED
  BY <1>1, <1>2, <1>3, <1>4, <1>5, <1>6, <1>7, <1>8, <1>9, <1>10, <1>11, <1>12, <1>13, <1>14, <1>15, <1>16, <1>17, <1>18, <1>19, <1>20, <1>21, <1>22, <1>23, <1>24, <1>25, <1>26, <1>27, <1>28 DEF Next, Api, Work, Environment

-----------------------------------------------------------------------------

\* The initial states satisfy the invariant.
LEMMA InitIInv == Init => IInv
<1> SUFFICES ASSUME Init PROVE IInv
  OBVIOUS
<1> USE NullAssumption, BoundsAssumption
        DEF Init, Exists, Has, Supervises, Place
<1>1. TypeOK
  BY DEF TypeOK
<1>2. IdsUsed /\ HoldsJob /\ LockHolds /\ SupervisedRow /\ HoldersDiffer
  BY DEF IdsUsed, HoldsJob, LockHolds, SupervisedRow, HoldersDiffer
<1>3. TrainersAccounted /\ HealthyIsYoung /\ RunningHasHeartbeat
  BY DEF TrainersAccounted, HealthyIsYoung, RunningHasHeartbeat
<1>4. OneActivePerUser /\ OneTrainerPerJob
  BY DEF OneActivePerUser, OneTrainerPerJob
<1> QED
  BY <1>1, <1>2, <1>3, <1>4 DEF IInv

\* The inductive invariant holds in every reachable state.
THEOREM Invariance == Spec => []IInv
<1>1. IInv /\ [Next]_vars => IInv'
  BY TypeStep, IdsUsedStep, HoldsJobStep, LockHoldsStep, SupervisedRowStep,
     HoldersDifferStep, TrainersStep, HealthyStep, HeartbeatStep,
     OneActiveStep, OneTrainerStep
  DEF IInv
<1> QED
  BY InitIInv, <1>1, PTL DEF Spec

\* The queue's state is always well typed.
THEOREM TypeCorrect == Spec => []TypeOK
<1>1. IInv => TypeOK
  BY DEF IInv
<1> QED
  BY Invariance, <1>1, PTL

\* No user ever has two active jobs, whatever the workers go through, and a job's
\* trainer never runs in two workers at once, orphans included.
THEOREM JobsExclusive == Spec => []JobsAreExclusive
<1>1. IInv => JobsAreExclusive
  BY DEF IInv, JobsAreExclusive
<1> QED
  BY Invariance, <1>1, PTL

\* As BeatBy <= Stale, a reclaim never takes a healthy worker's job.
THEOREM ReclaimIsSound == Spec => []HealthyWorkerKeepsJob
<1>1. IInv => HealthyWorkerKeepsJob
  BY DEF IInv, HealthyIsYoung, HealthyWorkerKeepsJob
<1> QED
  BY Invariance, <1>1, PTL

\* A recorded success is final.
LEMMA SuccessIsFinal == Spec => SucceededIsFinal
<1>1. IInv /\ [Next]_vars =>
        [\A j \in Job :
            Has(j, "succeeded") => Has(j, "succeeded")' \/ ~Exists(j)']_vars
  BY SucceededStep
<1> QED
  BY Invariance, <1>1, PTL DEF Spec, SucceededIsFinal

\* A graceful shutdown requeues a healthy worker's job: its row is the user's
\* only active one, so the unique index does not object.
LEMMA ShutdownRequeues == Spec => GracefulRequeue
<1>1. ASSUME IInv, NEW w \in Worker, NEW j \in Job, Release(w), mode[w] = "up",
             cur[w] = j, Exists(j)
      PROVE  Has(j, "queued")'
  <2>1. row[j] \in Row /\ row[j].status = "running"
    BY <1>1 DEF IInv, TypeOK, HealthyIsYoung, Supervises, Release, Exists
  <2>2. SlotFree(row[j].user, j)
    BY <1>1, <2>1 DEF SlotFree, Owns, Indexed, IInv, OneActivePerUser
  <2>3. row' = [row EXCEPT ![j] = Released(row[j])]
    BY <1>1, <2>2 DEF Release
  <2>4. row'[j] = Released(row[j])
    BY <2>3, <1>1 DEF IInv, TypeOK
  <2> QED
    BY <2>1, <2>4, RowOps, NullAssumption DEF Has, Exists
<1>2. IInv /\ [Next]_vars =>
        [\A w \in Worker, j \in Job :
            Release(w) /\ mode[w] = "up" /\ cur[w] = j /\ Exists(j)
                => Has(j, "queued")']_vars
  BY <1>1
<1> QED
  BY Invariance, <1>2, PTL DEF Spec, GracefulRequeue

\* A worker's last write revokes no success, and a healthy one's release requeues.
THEOREM OutcomesKept == Spec => OutcomesAreKept
BY SuccessIsFinal, ShutdownRequeues DEF OutcomesAreKept

-----------------------------------------------------------------------------
(* The refinement.                                                         *)

AllUp == \A w \in Worker : mode[w] = "up"

\* Without pauses every worker is up, always.
LEMMA NobodyPauses ==
  ASSUME "pause" \notin Faults
  PROVE  Spec => []AllUp
<1>1. Init => AllUp
  BY DEF Init, AllUp
<1>2. AllUp /\ TypeOK /\ [Next]_vars => AllUp'
  <2> SUFFICES ASSUME AllUp, TypeOK, [Next]_vars PROVE AllUp'
    OBVIOUS
  <2> USE DEF AllUp, TypeOK
  <2>1. CASE Api
    BY <2>1 DEF Api, Submit, ClearFinished, DeleteAccount
  <2>2. ASSUME NEW w \in Worker, Work(w) PROVE AllUp'
    BY <2>2 DEF Work, ReclaimStale, ClaimSelect, ClaimNothing, ClaimCommit, Start,
      StartFails, Beat, RowVanished, Reap, TimeOut, Abort, Record, Release, Stop, Exit
  <2>3. ASSUME NEW w \in Worker, Environment(w) PROVE AllUp'
    BY <2>3 DEF Environment, Signal, Crash, DbError, ReleaseLost, Pause, Resume,
      Restart, TrainerExits, Disturb, Exit
  <2>4. ASSUME NEW w \in Worker, PurgeFinished(w) PROVE AllUp'
    BY <2>4 DEF PurgeFinished
  <2>5. CASE Tick
    BY <2>5 DEF Tick
  <2>6. CASE UNCHANGED vars
    BY <2>6 DEF vars
  <2> QED
    BY <2>1, <2>2, <2>3, <2>4, <2>5, <2>6 DEF Next
<1> QED
  BY <1>1, <1>2, TypeCorrect, PTL DEF Spec

\* A step that leaves the table alone is a stutter of the abstract queue.
LEMMA TableUntouched ==
  ASSUME row' = row, next' = next
  PROVE  UNCHANGED Lifecycle!vars
  BY DEF Lifecycle!vars, jobStatus, jobOwner, Exists

\* A transaction that rewrites one row keeps its owner.
LEMMA OneRowRewritten ==
  ASSUME TypeOK, NEW j \in Job, row[j] \in Row, row'[j] \in Row,
         row'[j].user = row[j].user, next' = next,
         \A k \in Job : k # j => row'[k] = row[k]
  PROVE  /\ jobStatus[j] = row[j].status
         /\ jobStatus' = [jobStatus EXCEPT ![j] = row'[j].status]
         /\ jobOwner' = jobOwner
  BY NullAssumption DEF TypeOK, jobStatus, jobOwner, Exists

\* Deleting rows erases their jobs.
LEMMA RowsDeleted ==
  ASSUME IInv, NEW S \in SUBSET Job, \A j \in S : Exists(j), next' = next,
         row' = [j \in Job |-> IF j \in S THEN NoRow ELSE row[j]]
  PROVE  Lifecycle!Erase(S)
  BY NullAssumption DEF IInv, IdsUsed, Lifecycle!Erase, jobStatus, jobOwner, Exists

\* The commit of a claim starts its job.
LEMMA ClaimStarts ==
  ASSUME IInv, NEW w \in Worker, ClaimCommitted(w), next' = next
  PROVE  Lifecycle!Next
<1>1. Lifecycle!Start(cur[w])
  BY OneRowRewritten DEF ClaimCommitted, Lifecycle!Start, IInv
<1> QED
  BY <1>1 DEF ClaimCommitted, Lifecycle!Next

\* Every step of the queue without pauses is a step of the abstract queue or a stutter.
LEMMA RefinementStep ==
  ASSUME IInv, AllUp, [Next]_vars
  PROVE  [Lifecycle!Next]_(Lifecycle!vars)
<1>1. ASSUME NEW u \in User, Submit(u) PROVE Lifecycle!Next
  <2>1. next \in Job
    BY <1>1, BoundsAssumption DEF Submit, IInv, TypeOK, Job
  <2>2. jobStatus[next] = "new"
    BY <2>1 DEF jobStatus, IInv, IdsUsed, Job
  <2>3. \A k \in Job : jobOwner[k] = u => ~Lifecycle!Active(k)
    <3> SUFFICES ASSUME NEW k \in Job, jobOwner[k] = u PROVE ~Lifecycle!Active(k)
      OBVIOUS
    <3>1. Owns(k, u) /\ row[k] \in Row
      BY NullAssumption DEF jobOwner, Owns, Exists, IInv, TypeOK
    <3>2. k # next
      BY <3>1 DEF Owns, IInv, IdsUsed, Job
    <3>3. ~Indexed(row[k])
      BY <1>1, <3>1, <3>2 DEF Submit, SlotFree
    <3> QED
      BY <3>1, <3>3 DEF Lifecycle!Active, jobStatus, Owns, Indexed
  <2>4. /\ row'[next] = NewRow(u) /\ next' = next + 1
        /\ \A k \in Job : k # next => row'[k] = row[k]
    BY <1>1, <2>1 DEF Submit, IInv, TypeOK
  <2>5. NewRow(u) \in Row /\ NewRow(u).status = "queued" /\ NewRow(u).user = u
    BY DEF NewRow, Row, Status
  <2>6. /\ jobStatus' = [jobStatus EXCEPT ![next] = "queued"]
        /\ jobOwner' = [jobOwner EXCEPT ![next] = u]
    <3>1. row'[next] # NoRow /\ row'[next].status = "queued" /\ row'[next].user = u
      BY <2>4, <2>5, NullAssumption
    <3>2. \A k \in Job : k # next => (Exists(k)' <=> Exists(k)) /\ row'[k] = row[k]
      BY <2>4 DEF Exists
    <3>3. \A k \in Job : k # next => (k < next' <=> k < next)
      BY <2>1, <2>4, BoundsAssumption DEF Job
    <3> QED
      BY <2>1, <3>1, <3>2, <3>3 DEF jobStatus, jobOwner, Exists
  <2>7. Lifecycle!Queue(u, next)
    BY <2>2, <2>3, <2>6 DEF Lifecycle!Queue
  <2> QED
    BY <2>1, <2>7 DEF Lifecycle!Next
<1>2. ASSUME NEW S \in SUBSET Job, S # {}, next' = next,
             \A j \in S : Exists(j) /\ row[j].status \in Terminal,
             row' = [j \in Job |-> IF j \in S THEN NoRow ELSE row[j]]
      PROVE  Lifecycle!Next
  <2>1. Lifecycle!Erase(S)
    BY <1>2, RowsDeleted
  <2>2. \A j \in S : jobStatus[j] \in Lifecycle!Settled
    BY <1>2 DEF jobStatus, Lifecycle!Settled, Terminal
  <2>3. Lifecycle!Forget(S)
    BY <1>2, <2>1, <2>2 DEF Lifecycle!Forget
  <2> QED
    BY <2>3 DEF Lifecycle!Next
<1>3. ASSUME NEW u \in User, ClearFinished(u) PROVE Lifecycle!Next
  <2> DEFINE S == {j \in Job : Owns(j, u) /\ row[j].status \in Terminal}
  <2>1. /\ S # {} /\ next' = next
        /\ row' = [j \in Job |-> IF j \in S THEN NoRow ELSE row[j]]
    BY <1>3 DEF ClearFinished
  <2>2. \A j \in S : Exists(j) /\ row[j].status \in Terminal
    BY DEF Owns
  <2> QED
    BY <1>2, <2>1, <2>2
<1>4. ASSUME NEW u \in User, DeleteAccount(u) PROVE Lifecycle!Next
  <2> DEFINE S == {j \in Job : jobOwner[j] = u}
  <2>1. \A j \in Job : j \in S <=> Owns(j, u)
    BY NullAssumption DEF jobOwner, Owns, Exists
  <2>2. row' = [j \in Job |-> IF j \in S THEN NoRow ELSE row[j]] /\ next' = next
    BY <1>4, <2>1 DEF DeleteAccount
  <2>3. Lifecycle!Erase(S)
    BY <2>1, <2>2, RowsDeleted DEF Owns
  <2>4. Lifecycle!CloseAccount(u)
    BY <2>3 DEF Lifecycle!CloseAccount
  <2> QED
    BY <2>4 DEF Lifecycle!Next
<1>5. ASSUME NEW w \in Worker, ReclaimStale(w)
      PROVE  Lifecycle!Next \/ UNCHANGED Lifecycle!vars
  <2> DEFINE S == {j \in Job : Exists(j) /\ IsStale(row[j])}
  <2>1. CASE S = {}
    <3>1. row' = row /\ next' = next
      BY <1>5, <2>1 DEF ReclaimStale, IInv, TypeOK
    <3> QED
      BY <3>1, TableUntouched
  <2>2. CASE S # {}
    <3>1. \A j \in S : jobStatus[j] = "running"
      BY DEF jobStatus, IsStale
    <3>2. /\ jobStatus' = [j \in Job |-> IF j \in S THEN "failed" ELSE jobStatus[j]]
          /\ jobOwner' = jobOwner
      BY <1>5, RowOps, NullAssumption
      DEF ReclaimStale, jobStatus, jobOwner, Exists, IInv, TypeOK
    <3>3. Lifecycle!Fail(S)
      BY <2>2, <3>1, <3>2 DEF Lifecycle!Fail
    <3> QED
      BY <3>3 DEF Lifecycle!Next
  <2> QED
    BY <2>1, <2>2
<1>6. ASSUME NEW w \in Worker, ClaimCommit(w) PROVE Lifecycle!Next
  BY <1>6, ClaimEffect, ClaimStarts DEF ClaimCommit
<1>7. ASSUME NEW w \in Worker, Beat(w) PROVE UNCHANGED Lifecycle!vars
  <2>1. /\ cur[w] \in Job /\ row[cur[w]] \in Row /\ next' = next
        /\ row' = [row EXCEPT ![cur[w]] = Beaten(row[cur[w]])]
    BY <1>7 DEF Beat, IInv, TypeOK, HoldsJob, Supervises, Exists
  <2>2. /\ row'[cur[w]] = Beaten(row[cur[w]])
        /\ \A k \in Job : k # cur[w] => row'[k] = row[k]
    BY <2>1 DEF IInv, TypeOK
  <2>3. /\ jobStatus[cur[w]] = row[cur[w]].status
        /\ jobStatus' = [jobStatus EXCEPT ![cur[w]] = row[cur[w]].status]
        /\ jobOwner' = jobOwner
    BY <2>1, <2>2, RowOps, OneRowRewritten DEF IInv
  <2> QED
    BY <2>1, <2>3 DEF jobStatus, Lifecycle!vars
<1>8. ASSUME NEW w \in Worker, Record(w) PROVE Lifecycle!Next
  <2>1. OutcomeRecorded(w)
    BY <1>8, RecordEffect
  <2>2. row[cur[w]].status = "running"
    BY <1>8, AllUp DEF Record, AllUp, IInv, HealthyIsYoung, Supervises
  <2>3. /\ jobStatus[cur[w]] = "running"
        /\ jobStatus' = [jobStatus EXCEPT ![cur[w]] = row'[cur[w]].status]
        /\ jobOwner' = jobOwner
    BY <1>8, <2>1, <2>2, OneRowRewritten DEF OutcomeRecorded, IInv, Record
  <2>4. CASE row'[cur[w]].status = "succeeded"
    BY <2>1, <2>3, <2>4 DEF OutcomeRecorded, Lifecycle!Succeed, Lifecycle!Next
  <2>5. CASE row'[cur[w]].status = "failed"
    <3>1. Lifecycle!Fail({cur[w]})
      BY <2>1, <2>3, <2>5 DEF OutcomeRecorded, Lifecycle!Fail, jobStatus
    <3> QED
      BY <2>1, <3>1 DEF OutcomeRecorded, Lifecycle!Next
  <2> QED
    BY <2>1, <2>4, <2>5 DEF OutcomeRecorded, Terminal
<1>9. ASSUME NEW w \in Worker, Release(w)
      PROVE  Lifecycle!Next \/ UNCHANGED Lifecycle!vars
  <2>1. next' = next
    BY <1>9 DEF Release
  <2>2. CASE row' = row
    BY <2>1, <2>2, TableUntouched
  <2>3. CASE row' # row
    <3>1. /\ cur[w] \in Job /\ row[cur[w]] \in Row /\ Exists(cur[w])
          /\ row'[cur[w]] \in Row
          /\ row'[cur[w]].user = row[cur[w]].user
          /\ row'[cur[w]].status = "queued"
          /\ \A k \in Job : k # cur[w] => row'[k] = row[k]
      BY <1>9, <2>3, ReleaseEffect
    <3>2. row[cur[w]].status = "running"
      BY <1>9, <3>1 DEF Release, AllUp, IInv, HealthyIsYoung, Supervises
    <3>3. Lifecycle!Requeue(cur[w])
      BY <2>1, <3>1, <3>2, OneRowRewritten DEF Lifecycle!Requeue, IInv
    <3> QED
      BY <3>1, <3>3 DEF Lifecycle!Next
  <2> QED
    BY <2>2, <2>3
<1>10. ASSUME NEW w \in Worker, PurgeFinished(w) PROVE Lifecycle!Next
  BY <1>10, <1>2 DEF PurgeFinished
<1>11. ASSUME NEW w \in Worker, DbError(w)
       PROVE  Lifecycle!Next \/ UNCHANGED Lifecycle!vars
  <2>1. CASE row' = row
    BY <1>11, <2>1, TableUntouched DEF DbError
  <2>2. CASE row' # row
    BY <1>11, <2>2, ClaimEffect, ClaimStarts DEF DbError
  <2> QED
    BY <2>1, <2>2
<1>12. ASSUME Tick PROVE UNCHANGED Lifecycle!vars
  BY <1>12, OlderRow, NullAssumption
  DEF Tick, Lifecycle!vars, jobStatus, jobOwner, Exists, IInv, TypeOK
<1>13. ASSUME NEW w \in Worker,
              \/ ClaimSelect(w) \/ ClaimNothing(w) \/ Start(w) \/ StartFails(w)
              \/ RowVanished(w) \/ Reap(w) \/ TimeOut(w) \/ Abort(w) \/ Stop(w)
       PROVE  UNCHANGED Lifecycle!vars
  <2>1. row' = row /\ next' = next
    BY <1>13 DEF ClaimSelect, ClaimNothing, Start, StartFails, RowVanished, Reap,
      TimeOut, Abort, Stop, table
  <2> QED
    BY <2>1, TableUntouched
<1>14. ASSUME NEW w \in Worker,
              \/ Signal(w) \/ Crash(w) \/ ReleaseLost(w) \/ Pause(w)
              \/ Resume(w) \/ Restart(w) \/ TrainerExits(w)
       PROVE  UNCHANGED Lifecycle!vars
  <2>1. row' = row /\ next' = next
    BY <1>14 DEF Signal, Crash, ReleaseLost, Pause, Resume, Restart, TrainerExits, table
  <2> QED
    BY <2>1, TableUntouched
<1>15. CASE UNCHANGED vars
  BY <1>15, TableUntouched DEF vars
<1> QED
  BY <1>1, <1>3, <1>4, <1>5, <1>6, <1>7, <1>8, <1>9, <1>10, <1>11, <1>12, <1>13,
     <1>14, <1>15 DEF Next, Api, Work, Environment

\* If workers may crash, be shut down and lose the database but are never
\* paused, the queue keeps the promise of JobLifecycle.
THEOREM RefinesLifecycle ==
  ASSUME "pause" \notin Faults
  PROVE  Spec => ImplementsLifecycle
<1>1. Init => Lifecycle!Init
  BY BoundsAssumption DEF Init, Lifecycle!Init, jobStatus, jobOwner, Exists, Job
<1>2. IInv /\ AllUp /\ [Next]_vars => [Lifecycle!Next]_(Lifecycle!vars)
  BY RefinementStep
<1> QED
  BY <1>1, <1>2, Invariance, NobodyPauses, PTL
  DEF Spec, ImplementsLifecycle, Lifecycle!Spec
=============================================================================

-------------------------- MODULE BridgeQueueProofs --------------------------
(***************************************************************************)
(* Proofs about the bridge queue: type correctness, that a user has one    *)
(* active run, that a cancelled run leaves nothing, that a healthy run is  *)
(* kept, that a success has its verdict, and that a user's bridge is built *)
(* twice only past a hung executor, for any number of accounts, drains,    *)
(* seeding sessions, topics and runs and any window.                       *)
(*                                                                         *)
(* The claim's lock is what OneExecutor and HeldStatus say: one executor   *)
(* per run, which is queued while its row is locked and running, or given  *)
(* up, afterwards.  The heartbeat is HealthyIsYoung: a healthy executor's  *)
(* run is younger than the window, so a reclaim passes it by.  The verdict *)
(* of a success rests on TargetsFit: an executor works on its run's cell   *)
(* or on the one that cell inherits from, and then goes on to its own.     *)
(*                                                                         *)
(* A step of run_bridge_job changes a row by an event at most (Beats), so  *)
(* one lemma, Advances, carries the invariant over all of them: a step     *)
(* shows where it goes (Works) and that it has what that place counts on   *)
(* (Fits, Stores).  Ends and Settles do the same for the end of a run and  *)
(* for what happens to runs from outside.                                  *)
(***************************************************************************)
EXTENDS BridgeQueue, TLAPS

\* Where an executor is after its claim.
Executing(x) == pc[x] \notin {"idle", "forced", "locked"}

\* Runs are inserted in the order of their ids, and executors execute runs that
\* were inserted, one each, and none while they are idle.
IdsIssued ==
    /\ \A r \in Run : r >= next => row[r] = NoRow
    /\ \A x \in Executor : cur[x] # NoRun => cur[x] < next
    /\ \A x \in Executor : pc[x] \in {"idle", "forced"} <=> cur[x] = NoRun
OneExecutor ==
    \A x, y \in Executor : cur[x] = cur[y] /\ cur[x] # NoRun => x = y

\* A run that is selected is still queued; once claimed it is running, or was
\* given up.
HeldStatus ==
    \A x \in Executor :
        /\ pc[x] = "locked" => Has(cur[x], "queued")
        /\ Executing(x) /\ Exists(cur[x]) => row[cur[x]].status \in {"running", "failed"}

\* A run that was worked on, if it is still there.
Touched(r) == r < next /\ (Exists(r) => row[r].status \notin {"queued", "cancelled"})

\* An artefact is that of such a run, in hand or on file.
ArtsAreTouched ==
    /\ \A x \in Executor : art[x] # NoRun => Touched(art[x])
    /\ \A x \in Executor : pc[x] \in {"store", "insert", "overwrite"} => art[x] # NoRun
    /\ \A c \in Cell : OnFile(c) => Touched(verdict[c].art)

\* The cell a verdict is produced for is the run's own, or the one it inherits
\* from; what is inherited is on file.
TargetsFit ==
    \A x \in Executor :
        /\ pc[x] \in {"pool", "judge", "assess", "store", "insert", "overwrite", "inherit"} =>
              /\ target[x] \in Cell
              /\ Exists(cur[x]) => target[x] \in {row[cur[x]].cell, Produces(row[cur[x]].cell)}
        /\ pc[x] = "inherit" => Inherits(target[x]) /\ (x \in gone \/ OnFile(Upstream(target[x])))
        /\ pc[x] = "overwrite" => x \in gone \/ OnFile(target[x])

\* The heartbeat of a run whose executor is healthy is young.
HealthyIsYoung ==
    \A x \in Executor :
        Executing(x) /\ x \notin slow /\ Exists(cur[x]) /\ row[cur[x]].hb # Null
            => row[cur[x]].hb <= BeatBy

\* A verdict is on file, or --force has taken it away.
Backed(c) == OnFile(c) \/ c \in forced

\* A run that is about to succeed has its verdict.
DoneHasVerdict ==
    \A x \in Executor : pc[x] = "done" /\ Exists(cur[x]) => Backed(row[cur[x]].cell)

\* The inductive invariant.
IInv ==
    /\ TypeOK /\ IdsIssued /\ OneExecutor /\ HeldStatus
    /\ OneActivePerUser /\ ArtsAreTouched /\ TargetsFit
    /\ HealthyIsYoung /\ HealthyRunKept
    /\ DoneHasVerdict /\ SucceededHasVerdict

-----------------------------------------------------------------------------

\* What the row operations do: they keep whose run it is and of which cell.
LEMMA RowOps ==
  ASSUME NEW r \in Row
  PROVE  /\ r # NoRow
         /\ Beaten(r) \in Row /\ Beaten(r).user = r.user /\ Beaten(r).cell = r.cell
         /\ Beaten(r).status = r.status /\ Beaten(r).hb = 0
         /\ Claimed(r) \in Row /\ Claimed(r).user = r.user /\ Claimed(r).cell = r.cell
         /\ Claimed(r).status = "running" /\ Claimed(r).hb = 0
         /\ \A s \in Status : /\ With(r, s) \in Row /\ With(r, s).user = r.user
                              /\ With(r, s).cell = r.cell /\ With(r, s).status = s
                              /\ With(r, s).hb = r.hb
         /\ Older(r) \in Row /\ Older(r).user = r.user /\ Older(r).cell = r.cell
         /\ Older(r).status = r.status /\ (r.hb = Null <=> Older(r).hb = Null)
         /\ r.hb # Null => Older(r).hb \in {r.hb, r.hb + 1}
<1>1. r # NoRow
  BY BridgeNullAssumption
<1>2. 0 \in Age /\ \A n \in Age : n <= Stale => n + 1 \in Age
  BY BridgeAssumption DEF Age
<1>3. /\ Beaten(r) \in Row /\ Beaten(r).user = r.user /\ Beaten(r).cell = r.cell
      /\ Beaten(r).status = r.status /\ Beaten(r).hb = 0
  BY <1>2 DEF Row, Beaten
<1>4. /\ Claimed(r) \in Row /\ Claimed(r).user = r.user /\ Claimed(r).cell = r.cell
      /\ Claimed(r).status = "running" /\ Claimed(r).hb = 0
  BY <1>2 DEF Row, Claimed, Status
<1>5. ASSUME NEW s \in Status
      PROVE  /\ With(r, s) \in Row /\ With(r, s).user = r.user
             /\ With(r, s).cell = r.cell /\ With(r, s).status = s
             /\ With(r, s).hb = r.hb
  BY DEF Row, With
<1>6. /\ Older(r) \in Row /\ Older(r).user = r.user /\ Older(r).cell = r.cell
      /\ Older(r).status = r.status /\ (r.hb = Null <=> Older(r).hb = Null)
      /\ r.hb # Null => Older(r).hb \in {r.hb, r.hb + 1}
  <2>1. CASE Older(r) = r
    BY <2>1 DEF Row, Age
  <2>2. CASE Older(r) # r
    <3>1. r.hb # Null /\ r.hb <= Stale /\ Older(r) = [r EXCEPT !.hb = @ + 1]
      BY <2>2 DEF Older
    <3>2. r.hb + 1 \in Age /\ r.hb + 1 # Null
      BY <1>2, <3>1, BridgeNullAssumption DEF Row, Age
    <3> QED
      BY <3>1, <3>2 DEF Row
  <2> QED
    BY <2>1, <2>2
<1> QED
  BY <1>1, <1>3, <1>4, <1>5, <1>6

\* An update of one row leaves the others.
LEMMA Written ==
  ASSUME TypeOK, NEW r \in Run, NEW R \in Row, row' = [row EXCEPT ![r] = R]
  PROVE  /\ row' \in [Run -> Row \cup {NoRow}]
         /\ row'[r] = R /\ row'[r] # NoRow
         /\ \A q \in Run : q # r => row'[q] = row[q]
BY RowOps DEF TypeOK

\* An event, or none: what a working executor does to the table.
Beats ==
    /\ row' \in [Run -> Row \cup {NoRow}]
    /\ \A q \in Run :
        /\ row'[q] = NoRow <=> row[q] = NoRow
        /\ row[q] # NoRow =>
            /\ row'[q].user = row[q].user /\ row'[q].cell = row[q].cell
            /\ row'[q].status = row[q].status /\ row'[q].hb \in {0, row[q].hb}

\* Leaving the table alone counts as no event.
LEMMA NoBeat ==
  ASSUME TypeOK, UNCHANGED row
  PROVE  Beats
BY DEF TypeOK, Beats

\* An event beats.
LEMMA EventBeats ==
  ASSUME TypeOK, NEW x \in Executor, cur[x] \in Run, Exists(cur[x]), Event(x)
  PROVE  Beats
<1> DEFINE R == Beaten(row[cur[x]])
<1>1. row[cur[x]] \in Row
  BY DEF TypeOK, Exists
<1>2. /\ R \in Row /\ R.user = row[cur[x]].user /\ R.cell = row[cur[x]].cell
      /\ R.status = row[cur[x]].status /\ R.hb = 0
  BY <1>1, RowOps
<1>3. row' = [row EXCEPT ![cur[x]] = R]
  BY DEF Event
<1> HIDE DEF R
<1>4. /\ row' \in [Run -> Row \cup {NoRow}] /\ row'[cur[x]] = R /\ row'[cur[x]] # NoRow
      /\ \A q \in Run : q # cur[x] => row'[q] = row[q]
  BY <1>2, <1>3, Written
<1> QED
  BY <1>2, <1>4 DEF Beats, Exists

\* An executor that is not idle has a run.
LEMMA HasRun ==
  ASSUME IInv, NEW x \in Executor, pc[x] \notin {"idle", "forced"}
  PROVE  cur[x] \in Run /\ cur[x] < next /\ cur[x] # NoRun
BY DEF IInv, TypeOK, IdsIssued

\* A step of an executing executor to another place, with or without an event.
Works(x, place) ==
    /\ Executing(x) /\ place \notin {"idle", "forced", "locked"} /\ place \in Place
    /\ Beats /\ Goto(x, place)
    /\ UNCHANGED <<next, users, asked, cur, gone, slow, faults>>

\* A step of an executing executor that at most beats leaves the claims, the
\* statuses and the heartbeats in order.
LEMMA WorkStep ==
  ASSUME IInv, NEW x \in Executor, NEW place \in Place, Works(x, place)
  PROVE  /\ IdsIssued' /\ OneExecutor' /\ HeldStatus' /\ OneActivePerUser'
         /\ HealthyIsYoung' /\ HealthyRunKept'
         /\ row' \in [Run -> Row \cup {NoRow}] /\ pc' \in [Executor -> Place]
<1>1. cur[x] \in Run
  BY HasRun DEF Works, Executing
<1>2. pc' = [pc EXCEPT ![x] = place] /\ pc' \in [Executor -> Place]
  BY DEF IInv, TypeOK, Works, Goto
<1>3. IdsIssued'
  BY <1>2 DEF IInv, TypeOK, IdsIssued, Works, Beats, Executing
<1>4. OneExecutor'
  BY DEF IInv, OneExecutor, Works
<1>5. HeldStatus'
  <2> SUFFICES ASSUME NEW y \in Executor
               PROVE  /\ (pc[y] = "locked" => Has(cur[y], "queued"))'
                      /\ (Executing(y) /\ Exists(cur[y]) =>
                              row[cur[y]].status \in {"running", "failed"})'
    BY DEF HeldStatus
  <2>1. /\ cur'[y] = cur[y] /\ (pc'[y] = "locked" <=> pc[y] = "locked")
        /\ Executing(y)' <=> Executing(y)
    BY <1>2 DEF Works, Executing, IInv, TypeOK
  <2>2. pc[y] \notin {"idle", "forced"} => cur[y] \in Run
    BY HasRun
  <2> QED
    BY <2>1, <2>2 DEF IInv, HeldStatus, Works, Beats, Exists, Has, Executing
<1>6. OneActivePerUser'
  BY DEF IInv, OneActivePerUser, Works, Beats, IsActive, Exists
<1>7. HealthyIsYoung'
  <2> SUFFICES ASSUME NEW y \in Executor, Executing(y)', y \notin slow',
                      Exists(cur[y])', row'[cur'[y]].hb # Null
               PROVE  row'[cur'[y]].hb <= BeatBy
    BY DEF HealthyIsYoung
  <2>1. cur'[y] = cur[y] /\ Executing(y) /\ slow' = slow
    BY <1>2 DEF Works, Executing, IInv, TypeOK
  <2>2. cur[y] \in Run
    BY <2>1, HasRun DEF Executing
  <2> QED
    BY <2>1, <2>2, BridgeAssumption DEF IInv, HealthyIsYoung, Works, Beats, Exists
<1>8. HealthyRunKept'
  <2> SUFFICES ASSUME NEW y \in Executor, NEW r \in Run,
                      cur'[y] = r, pc'[y] # "locked", y \notin slow', Exists(r)'
               PROVE  row'[r].status = "running"
    BY DEF HealthyRunKept
  <2>1. cur'[y] = cur[y] /\ pc[y] # "locked" /\ slow' = slow
    BY <1>2 DEF Works, Executing, IInv, TypeOK
  <2> QED
    BY <2>1 DEF IInv, HealthyRunKept, Works, Beats, Exists
<1> QED
  BY <1>2, <1>3, <1>4, <1>5, <1>6, <1>7, <1>8 DEF Works, Beats

\* What an executor that goes to a place must have: the artefact, the target,
\* the verdicts that the place counts on.
Fits(x, place, goal, held) ==
    /\ goal \in Cell \cup {NoCell} /\ held \in Run \cup {NoRun}
    /\ held # NoRun => Touched(held)
    /\ place \in {"store", "insert", "overwrite"} => held # NoRun
    /\ place \in {"pool", "judge", "assess", "store", "insert", "overwrite", "inherit"} =>
          goal \in Cell /\ goal \in {row[cur[x]].cell, Produces(row[cur[x]].cell)}
    /\ place = "inherit" => Inherits(goal) /\ (x \in gone \/ verdict'[Upstream(goal)] # NoRow)
    /\ place = "overwrite" => x \in gone \/ verdict'[goal] # NoRow
    /\ place = "done" => verdict'[row[cur[x]].cell] # NoRow \/ row[cur[x]].cell \in forced'

\* What an executor stores is an artefact of a run that was worked on.
Stores ==
    /\ verdict' \in [Cell -> Verdict \cup {NoRow}]
    /\ \A c \in Cell : OnFile(c) => verdict'[c] # NoRow
    /\ \A c \in Cell : verdict'[c] # NoRow => Touched(verdict'[c].art)
    /\ forced' \subseteq Cell
    /\ \A c \in forced : c \in forced' \/ verdict'[c] # NoRow

\* The cells a run works on are cells.
LEMMA Cells ==
  ASSUME NEW c \in Cell
  PROVE  /\ Inherits(c) => Upstream(c) \in Cell
         /\ Produces(c) \in Cell /\ Produces(c)[1] \in Topic
BY BridgeAssumption DEF Cell, Inherits, Upstream, Produces

\* A step that stores nothing stores nothing wrong.
LEMMA NothingStored ==
  ASSUME IInv, UNCHANGED <<verdict, forced>>
  PROVE  Stores
BY DEF IInv, TypeOK, Stores, OnFile, ArtsAreTouched

\* A step of run_bridge_job keeps the invariant.
LEMMA Advances ==
  ASSUME IInv, NEW x \in Executor, NEW place \in Place, NEW goal, NEW held,
         Works(x, place), Fits(x, place, goal, held), Stores,
         target' = [target EXCEPT ![x] = goal], art' = [art EXCEPT ![x] = held],
         pool' \subseteq Topic, UNCHANGED reviewed
  PROVE  IInv'
<1>1. cur[x] \in Run
  BY HasRun DEF Works, Executing
<1>2. /\ IdsIssued' /\ OneExecutor' /\ HeldStatus' /\ OneActivePerUser'
      /\ HealthyIsYoung' /\ HealthyRunKept'
      /\ row' \in [Run -> Row \cup {NoRow}] /\ pc' \in [Executor -> Place]
  BY WorkStep
<1>3. pc' = [pc EXCEPT ![x] = place]
  BY DEF Works, Goto
<1>4. \A r \in Run : Touched(r) => Touched(r)'
  BY DEF Works, Beats, Touched, Exists
<1>5. TypeOK'
  <2>1. target' \in [Executor -> Cell \cup {NoCell}] /\ art' \in [Executor -> Run \cup {NoRun}]
    BY DEF IInv, TypeOK, Fits
  <2> QED
    BY <1>2, <2>1 DEF IInv, TypeOK, Works, Stores
<1>6. ArtsAreTouched'
  <2>1. \A y \in Executor : art'[y] # NoRun => art'[y] \in Run /\ Touched(art'[y])
    BY DEF IInv, TypeOK, ArtsAreTouched, Fits
  <2>2. \A y \in Executor : pc'[y] \in {"store", "insert", "overwrite"} => art'[y] # NoRun
    BY <1>3 DEF IInv, TypeOK, ArtsAreTouched, Fits
  <2>3. \A c \in Cell : verdict'[c] # NoRow => verdict'[c].art \in Run /\ Touched(verdict'[c].art)
    BY DEF Stores, Verdict
  <2> QED
    BY <1>4, <2>1, <2>2, <2>3 DEF ArtsAreTouched, OnFile
<1>7. TargetsFit'
  <2> SUFFICES ASSUME NEW y \in Executor
               PROVE  (/\ pc[y] \in {"pool", "judge", "assess", "store", "insert", "overwrite", "inherit"} =>
                            /\ target[y] \in Cell
                            /\ Exists(cur[y]) => target[y] \in {row[cur[y]].cell, Produces(row[cur[y]].cell)}
                       /\ pc[y] = "inherit" => Inherits(target[y]) /\ (y \in gone \/ OnFile(Upstream(target[y])))
                       /\ pc[y] = "overwrite" => y \in gone \/ OnFile(target[y]))'
    BY DEF TargetsFit
  <2>1. pc[y] \notin {"idle", "forced"} =>
          /\ cur'[y] = cur[y] /\ cur[y] \in Run
          /\ row'[cur[y]] # NoRow => row[cur[y]] # NoRow /\ row'[cur[y]].cell = row[cur[y]].cell
    BY HasRun DEF Works, Beats
  <2>2. CASE y = x
    BY <1>3, <2>1, <2>2
       DEF Fits, OnFile, IInv, TypeOK, Works, Executing, Exists, Produces, Inherits, Upstream
  <2>3. CASE y # x
    <3>1. pc'[y] = pc[y] /\ target'[y] = target[y]
      BY <1>3, <2>3 DEF IInv, TypeOK
    <3>2. \A c \in Cell : OnFile(c) => OnFile(c)'
      BY DEF Stores, OnFile
    <3>3. pc[y] = "inherit" => Upstream(target[y]) \in Cell
      BY Cells DEF IInv, TargetsFit
    <3> QED
      BY <2>1, <3>1, <3>2, <3>3 DEF IInv, TargetsFit, Works, Exists, Produces, Inherits, Upstream
  <2> QED
    BY <2>2, <2>3
<1>8. DoneHasVerdict'
  <2> SUFFICES ASSUME NEW y \in Executor, pc'[y] = "done", row'[cur'[y]] # NoRow
               PROVE  \/ verdict'[row'[cur'[y]].cell] # NoRow
                      \/ row'[cur'[y]].cell \in forced'
    BY DEF DoneHasVerdict, Backed, OnFile, Exists
  <2>1. /\ pc[y] \notin {"idle", "forced"} /\ cur'[y] = cur[y] /\ cur[y] \in Run
        /\ row[cur[y]] # NoRow /\ row'[cur[y]].cell = row[cur[y]].cell /\ row[cur[y]].cell \in Cell
    <3>1. pc[y] \notin {"idle", "forced"}
      BY <1>3 DEF Works, Executing, IInv, TypeOK
    <3> QED
      BY <3>1, HasRun DEF Works, Beats, IInv, TypeOK, Row
  <2>2. CASE y = x
    BY <2>1, <2>2, <1>3 DEF Fits, IInv, TypeOK
  <2>3. CASE y # x
    BY <2>1, <2>3, <1>3 DEF IInv, TypeOK, DoneHasVerdict, Backed, Exists, OnFile, Stores
  <2> QED
    BY <2>2, <2>3
<1>9. SucceededHasVerdict'
  <2>1. \A r \in Run : row[r] # NoRow => row[r].cell \in Cell
    BY DEF IInv, TypeOK, Row
  <2> QED
    BY <2>1 DEF IInv, SucceededHasVerdict, Has, Exists, OnFile, Works, Beats, Stores
<1> QED
  BY <1>2, <1>5, <1>6, <1>7, <1>8, <1>9 DEF IInv

-----------------------------------------------------------------------------

\* The verdict is on file, or the upstream one is, or a pool is looked for.
LEMMA LookStep ==
  ASSUME IInv, NEW x \in Executor, Look(x)
  PROVE  IInv'
<1> DEFINE c == row[cur[x]].cell
           made == Produces(c)
<1>1. /\ pc[x] = "claimed" /\ cur[x] \in Run /\ Exists(cur[x]) /\ row[cur[x]] \in Row
  BY HasRun DEF Look, At, IInv, TypeOK, Exists
<1>2. c \in Cell /\ made \in Cell
  BY <1>1, Cells DEF Row
<1>3. Beats
  BY <1>1, EventBeats DEF Look, IInv
<1>4. Stores
  BY NothingStored DEF Look, products
<1>5. /\ art[x] \in Run \cup {NoRun} /\ art' = [art EXCEPT ![x] = art[x]]
      /\ art[x] # NoRun => Touched(art[x])
      /\ target[x] \in Cell \cup {NoCell} /\ target = [target EXCEPT ![x] = target[x]]
  BY DEF Look, IInv, TypeOK, ArtsAreTouched
<1>6. /\ UNCHANGED <<next, users, asked, pool, verdict, reviewed, forced, cur, gone,
                     slow, faults>>
      /\ pool' \subseteq Topic
  BY DEF Look, products, IInv, TypeOK
<1>7. CASE OnFile(c) /\ Goto(x, "done") /\ UNCHANGED target
  <2>1. Works(x, "done")
    BY <1>1, <1>3, <1>6, <1>7 DEF Works, Executing, Place
  <2>2. Fits(x, "done", target[x], art[x])
    BY <1>5, <1>6, <1>7 DEF Fits, OnFile
  <2>3. target' = [target EXCEPT ![x] = target[x]] /\ "done" \in Place
    BY <1>5, <1>7 DEF Place
  <2> QED
    BY <1>4, <1>5, <1>6, <2>1, <2>2, <2>3, Advances
<1>8. CASE ~OnFile(c) /\ OnFile(made) /\ Goto(x, "inherit") /\ target' = [target EXCEPT ![x] = c]
  <2>1. Works(x, "inherit") /\ "inherit" \in Place
    BY <1>1, <1>3, <1>6, <1>8 DEF Works, Executing, Place
  <2>2. Inherits(c) /\ OnFile(Upstream(c))
    BY <1>8 DEF Produces
  <2>3. Fits(x, "inherit", c, art[x])
    BY <1>2, <1>5, <1>6, <2>2 DEF Fits, OnFile
  <2> QED
    BY <1>4, <1>5, <1>6, <1>8, <2>1, <2>3, Advances
<1>9. CASE ~OnFile(c) /\ ~OnFile(made) /\ Goto(x, "pool") /\ target' = [target EXCEPT ![x] = made]
  <2>1. Works(x, "pool") /\ "pool" \in Place
    BY <1>1, <1>3, <1>6, <1>9 DEF Works, Executing, Place
  <2>2. Fits(x, "pool", made, art[x])
    BY <1>2, <1>5 DEF Fits
  <2> QED
    BY <1>4, <1>5, <1>6, <1>9, <2>1, <2>2, Advances
<1> QED
  BY <1>7, <1>8, <1>9 DEF Look

\* What an executor has where it is.
LEMMA HasNow ==
  ASSUME IInv, NEW x \in Executor, Executing(x), Exists(cur[x])
  PROVE  /\ cur[x] \in Run /\ row[cur[x]] \in Row /\ row[cur[x]].cell \in Cell
         /\ target[x] \in Cell \cup {NoCell} /\ target = [target EXCEPT ![x] = target[x]]
         /\ art[x] \in Run \cup {NoRun} /\ art = [art EXCEPT ![x] = art[x]]
         /\ art[x] # NoRun => Touched(art[x])
         /\ pc[x] \in {"store", "insert", "overwrite"} => art[x] # NoRun
         /\ pc[x] \in {"pool", "judge", "assess", "store", "insert", "overwrite", "inherit"} =>
               target[x] \in Cell /\ target[x] \in {row[cur[x]].cell,
               Produces(row[cur[x]].cell)}
         /\ pc[x] = "inherit" => Inherits(target[x]) /\ (x \in gone \/ OnFile(Upstream(target[x])))
         /\ pc[x] = "overwrite" => x \in gone \/ OnFile(target[x])
         /\ pc[x] = "done" => Backed(row[cur[x]].cell)
<1>1. cur[x] \in Run /\ row[cur[x]] \in Row
  BY HasRun DEF IInv, TypeOK, Exists, Executing
<1> QED
  BY <1>1 DEF IInv, TypeOK, ArtsAreTouched, TargetsFit, DoneHasVerdict, Row

\* A step of run_bridge_job that stores nothing and keeps its target.
LEMMA GoesOn ==
  ASSUME IInv, NEW x \in Executor, NEW place \in Place, Exists(cur[x]),
         Works(x, place), Fits(x, place, target[x], art[x]),
         UNCHANGED <<target, art, verdict, reviewed, forced>>, pool' \subseteq Topic
  PROVE  IInv'
<1>1. target' = [target EXCEPT ![x] = target[x]] /\ art' = [art EXCEPT ![x] = art[x]]
  BY HasNow DEF Works
<1> QED
  BY <1>1, NothingStored, Advances

\* The pool is reused or built.
LEMMA FindPoolStep ==
  ASSUME IInv, NEW x \in Executor, FindPool(x)
  PROVE  IInv'
<1> DEFINE place == IF target[x][1] \in pool THEN "assess" ELSE "judge"
<1>1. pc[x] = "pool" /\ Executing(x) /\ Exists(cur[x]) /\ cur[x] \in Run
  BY HasRun DEF FindPool, At, Executing
<1>2. place \in Place \ {"idle", "forced", "locked"}
  BY DEF Place
<1>3. Works(x, place)
  <2>1. Beats
    BY <1>1, EventBeats DEF FindPool, IInv
  <2>2. Goto(x, place) /\ UNCHANGED <<next, users, asked, cur, gone, slow, faults>>
    BY DEF FindPool, local
  <2> QED
    BY <1>1, <1>2, <2>1, <2>2 DEF Works
<1>4. Fits(x, place, target[x], art[x])
  BY <1>1, HasNow DEF Fits
<1>5. UNCHANGED <<target, art, verdict, reviewed, forced, pool>> /\ pool' \subseteq Topic
  BY DEF FindPool, products, local, IInv, TypeOK
<1> QED
  BY <1>1, <1>2, <1>3, <1>4, <1>5, GoesOn

\* A new pool is stored, or the run lost the race for it.
LEMMA AddPoolStep ==
  ASSUME IInv, NEW x \in Executor, AddPool(x)
  PROVE  IInv'
<1> DEFINE place == IF target[x][1] \in pool THEN "failed" ELSE "assess"
<1>1. pc[x] = "judge" /\ Executing(x) /\ Exists(cur[x]) /\ target[x] \in Cell
  BY HasNow DEF AddPool, At, Executing
<1>2. place \in Place \ {"idle", "forced", "locked"}
  BY DEF Place
<1>3. Works(x, place)
  BY <1>1, <1>2, NoBeat DEF Works, AddPool, IInv, table, local
<1>4. Fits(x, place, target[x], art[x])
  BY <1>1, HasNow DEF Fits
<1>5. UNCHANGED <<target, art, verdict, reviewed, forced>> /\ pool' \subseteq Topic
  BY <1>1 DEF AddPool, local, IInv, TypeOK, Cell
<1> QED
  BY <1>1, <1>2, <1>3, <1>4, <1>5, GoesOn

\* A stage refuses.
LEMMA GiveUpStep ==
  ASSUME IInv, NEW x \in Executor, GiveUp(x)
  PROVE  IInv'
<1>1. Executing(x) /\ Exists(cur[x])
  BY DEF GiveUp, At, Executing
<1>2. "failed" \in Place
  BY DEF Place
<1>3. Works(x, "failed")
  BY <1>1, <1>2, NoBeat DEF Works, GiveUp, IInv, table, local
<1>4. Fits(x, "failed", target[x], art[x])
  BY <1>1, HasNow DEF Fits
<1>5. UNCHANGED <<target, art, verdict, reviewed, forced, pool>> /\ pool' \subseteq Topic
  BY DEF GiveUp, local, products, IInv, TypeOK
<1> QED
  BY <1>1, <1>2, <1>3, <1>4, <1>5, GoesOn

\* The verdict's row is looked up.
LEMMA StoreReadStep ==
  ASSUME IInv, NEW x \in Executor, StoreRead(x)
  PROVE  IInv'
<1> DEFINE place == IF OnFile(target[x]) THEN "overwrite" ELSE "insert"
<1>1. pc[x] = "store" /\ Executing(x) /\ Exists(cur[x])
  BY DEF StoreRead, At, Executing
<1>2. place \in Place \ {"idle", "forced", "locked"}
  BY DEF Place
<1>3. Works(x, place)
  BY <1>1, <1>2, NoBeat DEF Works, StoreRead, IInv, table, local
<1>5. UNCHANGED <<target, art, verdict, reviewed, forced, pool>> /\ pool' \subseteq Topic
  BY DEF StoreRead, local, products, IInv, TypeOK
<1>4. Fits(x, place, target[x], art[x])
  BY <1>1, <1>5, HasNow DEF Fits, OnFile
<1> QED
  BY <1>1, <1>2, <1>3, <1>4, <1>5, GoesOn

\* An event between stages.
LEMMA BeatStep ==
  ASSUME IInv, NEW x \in Executor, Beat(x)
  PROVE  IInv'
<1>1. Executing(x) /\ Exists(cur[x]) /\ cur[x] \in Run /\ pc[x] \in Place
  BY HasRun DEF Beat, At, Executing, IInv, TypeOK
<1>3. Works(x, pc[x])
  <2>1. pc' = [pc EXCEPT ![x] = pc[x]]
    BY DEF Beat, IInv, TypeOK
  <2> QED
    BY <1>1, <2>1, EventBeats DEF Works, Goto, Beat, IInv, local, Executing
<1>5. UNCHANGED <<target, art, verdict, reviewed, forced, pool>> /\ pool' \subseteq Topic
  BY DEF Beat, local, products, IInv, TypeOK
<1>4. Fits(x, pc[x], target[x], art[x])
  BY <1>1, <1>5, HasNow DEF Fits, Backed, OnFile
<1> QED
  BY <1>1, <1>3, <1>4, <1>5, GoesOn

\* An assessment holds its own run's artefact.
LEMMA AssessStep ==
  ASSUME IInv, NEW x \in Executor, Assess(x)
  PROVE  IInv'
<1>1. pc[x] = "assess" /\ Executing(x) /\ Exists(cur[x]) /\ cur[x] \in Run /\ cur[x] # NoRun
  BY HasRun DEF Assess, At, Executing
<1>2. "store" \in Place
  BY DEF Place
<1>3. Works(x, "store")
  BY <1>1, <1>2, EventBeats DEF Works, Assess, IInv
<1>4. Touched(cur[x])
  BY <1>1, HasRun DEF IInv, HeldStatus, Executing, Touched
<1>5. UNCHANGED <<target, verdict, reviewed, forced, pool>> /\ pool' \subseteq Topic
  BY DEF Assess, products, IInv, TypeOK
<1>6. Fits(x, "store", target[x], cur[x])
  BY <1>1, <1>4, HasNow DEF Fits
<1>7. target' = [target EXCEPT ![x] = target[x]] /\ art' = [art EXCEPT ![x] = cur[x]]
  BY <1>1, <1>5, HasNow DEF Assess
<1> QED
  BY <1>2, <1>3, <1>5, <1>6, <1>7, NothingStored, Advances

\* A copy holds the upstream artefact, which is on file, or finds it gone.
LEMMA InheritStep ==
  ASSUME IInv, NEW x \in Executor, Inherit(x)
  PROVE  IInv'
<1> DEFINE held == verdict[Upstream(target[x])].art
<1>1. /\ pc[x] = "inherit" /\ Executing(x) /\ Exists(cur[x])
      /\ target[x] \in Cell /\ Inherits(target[x])
      /\ x \in gone \/ OnFile(Upstream(target[x]))
  BY HasNow DEF Inherit, At, Executing
<1>2. "store" \in Place /\ "failed" \in Place
  BY DEF Place
<1>3. UNCHANGED <<target, verdict, reviewed, forced, pool>> /\ pool' \subseteq Topic
  BY DEF Inherit, products, IInv, TypeOK
<1>4. CASE x \notin gone /\ art' = [art EXCEPT ![x] = held] /\ Goto(x, "store")
  <2>1. Works(x, "store")
    BY <1>1, <1>2, <1>4, NoBeat DEF Works, Inherit, IInv, table
  <2>2. held \in Run /\ Touched(held) /\ held # NoRun
    BY <1>1, <1>4, Cells, BridgeNullAssumption DEF IInv, TypeOK, ArtsAreTouched, OnFile, Verdict
  <2>3. Fits(x, "store", target[x], held)
    BY <1>1, <2>2, HasNow DEF Fits
  <2>4. target' = [target EXCEPT ![x] = target[x]]
    BY <1>1, <1>3, HasNow
  <2> HIDE DEF held
  <2> QED
    BY <1>2, <1>3, <1>4, <2>1, <2>3, <2>4, NothingStored, Advances
<1>5. CASE x \in gone /\ Goto(x, "failed") /\ UNCHANGED art
  <2>1. Works(x, "failed")
    BY <1>1, <1>2, <1>5, NoBeat DEF Works, Inherit, IInv, table
  <2>2. Fits(x, "failed", target[x], art[x])
    BY <1>1, HasNow DEF Fits
  <2> QED
    BY <1>1, <1>2, <1>3, <1>5, <2>1, <2>2, GoesOn
<1> QED
  BY <1>4, <1>5 DEF Inherit

\* After the upstream verdict its heir's is due: the target fits either way.
LEMMA StoredNext ==
  ASSUME IInv, NEW x \in Executor, Executing(x), Exists(cur[x]),
         pc[x] \in {"insert", "overwrite"}, Stored(x),
         Stores, verdict'[target[x]] # NoRow,
         row' = row, UNCHANGED <<next, users, asked, cur, gone, slow, faults, pool,
                                 reviewed, art>>
  PROVE  IInv'
<1> DEFINE c == row[cur[x]].cell
<1>1. /\ cur[x] \in Run /\ c \in Cell /\ Executing(x) /\ Exists(cur[x])
      /\ target[x] \in {c, Produces(c)} /\ target[x] \in Cell
  BY HasNow
<1>2. pool' \subseteq Topic /\ art' = [art EXCEPT ![x] = art[x]] /\ Beats
  BY <1>1, HasNow, NoBeat DEF IInv, TypeOK
<1>3. CASE target[x] = c
  <2>1. Goto(x, "done") /\ target' = [target EXCEPT ![x] = target[x]] /\ "done" \in Place
    BY <1>1, <1>3, HasNow DEF Stored, Place
  <2>2. Works(x, "done")
    BY <1>1, <1>2, <2>1 DEF Works
  <2>3. Fits(x, "done", target[x], art[x])
    BY <1>1, <1>3, HasNow DEF Fits
  <2> QED
    BY <1>2, <2>1, <2>2, <2>3, Advances
<1>4. CASE target[x] # c
  <2>1. Goto(x, "inherit") /\ target' = [target EXCEPT ![x] = c] /\ "inherit" \in Place
    BY <1>4 DEF Stored, Place
  <2>2. Works(x, "inherit")
    BY <1>1, <1>2, <2>1 DEF Works
  <2>3. Inherits(c) /\ Upstream(c) = target[x]
    BY <1>1, <1>4 DEF Produces
  <2>4. Fits(x, "inherit", c, art[x])
    BY <1>1, <2>3, HasNow DEF Fits
  <2> QED
    BY <1>2, <2>1, <2>2, <2>4, Advances
<1> QED
  BY <1>3, <1>4

\* A draft is inserted, or another run was first.
LEMMA StoreInsertStep ==
  ASSUME IInv, NEW x \in Executor, StoreInsert(x)
  PROVE  IInv'
<1>1. /\ pc[x] = "insert" /\ Executing(x) /\ Exists(cur[x])
      /\ target[x] \in Cell /\ art[x] \in Run /\ Touched(art[x])
  BY HasNow DEF StoreInsert, At, Executing
<1>2. UNCHANGED <<row, next, users, asked, cur, gone, slow, faults, pool, reviewed, art>>
  BY DEF StoreInsert, table
<1>3. CASE /\ ~OnFile(target[x])
           /\ verdict' = [verdict EXCEPT ![target[x]] = [art |-> art[x], published |-> FALSE]]
           /\ forced' = forced \ {target[x]} /\ Stored(x)
  <2> DEFINE v == [art |-> art[x], published |-> FALSE]
  <2>1. v \in Verdict /\ v.art = art[x]
    BY <1>1 DEF Verdict
  <2>2. verdict' = [verdict EXCEPT ![target[x]] = v]
    BY <1>3
  <2> HIDE DEF v
  <2>3. v # NoRow
    BY <2>1, BridgeNullAssumption
  <2>4. Stores /\ verdict'[target[x]] # NoRow
    BY <1>1, <1>3, <2>1, <2>2, <2>3 DEF Stores, IInv, TypeOK, ArtsAreTouched, OnFile
  <2> QED
    BY <1>1, <1>2, <1>3, <2>4, StoredNext
<1>4. CASE OnFile(target[x]) /\ Goto(x, "failed") /\ UNCHANGED <<verdict, forced, target>>
  <2>1. "failed" \in Place /\ pool' \subseteq Topic
    BY <1>2 DEF Place, IInv, TypeOK
  <2>2. Works(x, "failed")
    BY <1>1, <1>2, <1>4, <2>1, NoBeat DEF Works, IInv
  <2>3. Fits(x, "failed", target[x], art[x])
    BY <1>1, HasNow DEF Fits
  <2> QED
    BY <1>1, <1>2, <1>4, <2>1, <2>2, <2>3, GoesOn
<1> QED
  BY <1>3, <1>4 DEF StoreInsert

\* The artefact is replaced, or its row is gone.
LEMMA StoreOverwriteStep ==
  ASSUME IInv, NEW x \in Executor, StoreOverwrite(x)
  PROVE  IInv'
<1>1. /\ pc[x] = "overwrite" /\ Executing(x) /\ Exists(cur[x])
      /\ target[x] \in Cell /\ art[x] \in Run /\ Touched(art[x])
      /\ x \in gone \/ OnFile(target[x])
  BY HasNow DEF StoreOverwrite, At, Executing
<1>2. /\ UNCHANGED <<row, next, users, asked, cur, gone, slow, faults, pool, reviewed, art>>
      /\ UNCHANGED forced
  BY DEF StoreOverwrite, table
<1>3. CASE /\ x \notin gone
           /\ verdict' = [verdict EXCEPT ![target[x]].art = art[x]]
           /\ Stored(x)
  <2> DEFINE v == [verdict[target[x]] EXCEPT !.art = art[x]]
  <2>1. v \in Verdict /\ v.art = art[x] /\ v # NoRow
    BY <1>1, <1>3, BridgeNullAssumption DEF Verdict, IInv, TypeOK, OnFile
  <2>2. verdict' = [verdict EXCEPT ![target[x]] = v]
    BY <1>3
  <2> HIDE DEF v
  <2>3. Stores /\ verdict'[target[x]] # NoRow
    BY <1>1, <1>2, <2>1, <2>2 DEF Stores, IInv, TypeOK, ArtsAreTouched, OnFile
  <2> QED
    BY <1>1, <1>2, <1>3, <2>3, StoredNext
<1>4. CASE x \in gone /\ Goto(x, "failed") /\ UNCHANGED <<verdict, target>>
  <2>1. "failed" \in Place /\ pool' \subseteq Topic
    BY <1>2 DEF Place, IInv, TypeOK
  <2>2. Works(x, "failed")
    BY <1>1, <1>2, <1>4, <2>1, NoBeat DEF Works, IInv
  <2>3. Fits(x, "failed", target[x], art[x])
    BY <1>1, HasNow DEF Fits
  <2> QED
    BY <1>1, <1>2, <1>4, <2>1, <2>2, <2>3, GoesOn
<1> QED
  BY <1>3, <1>4 DEF StoreOverwrite

-----------------------------------------------------------------------------

\* The end of a run: its row may be settled, and its executor lets go.
Ends(x) ==
    /\ pc[x] \notin {"idle", "forced"} /\ Release(x)
    /\ row' \in [Run -> Row \cup {NoRow}]
    /\ \A q \in Run : q # cur[x] => row'[q] = row[q]
    /\ row'[cur[x]] = NoRow <=> row[cur[x]] = NoRow
    /\ row[cur[x]] # NoRow =>
        /\ row'[cur[x]].user = row[cur[x]].user /\ row'[cur[x]].cell = row[cur[x]].cell
        /\ \/ row'[cur[x]].status = row[cur[x]].status
           \/ row'[cur[x]].status = "failed"
           \/ row'[cur[x]].status = "running" /\ row[cur[x]].status = "queued"
           \/ row'[cur[x]].status = "succeeded" /\ Backed(row[cur[x]].cell)
    /\ UNCHANGED <<next, users, asked, pool, verdict, reviewed, forced, slow>>
    /\ faults' \in 0..MaxFaults

\* The end of a run keeps the invariant.
LEMMA EndStep ==
  ASSUME IInv, NEW x \in Executor, Ends(x)
  PROVE  IInv'
<1>1. cur[x] \in Run /\ cur[x] < next /\ cur[x] # NoRun
  BY HasRun DEF Ends
<1>2. /\ pc' = [pc EXCEPT ![x] = "idle"] /\ cur' = [cur EXCEPT ![x] = NoRun]
      /\ target' = [target EXCEPT ![x] = NoCell] /\ art' = [art EXCEPT ![x] = NoRun]
      /\ gone' = gone \ {x} /\ "idle" \in Place
  BY DEF Ends, Release, Goto, Place
<1>3. TypeOK'
  BY <1>2 DEF IInv, TypeOK, Ends
<1>4. /\ pc'[x] = "idle" /\ cur'[x] = NoRun /\ art'[x] = NoRun
      /\ \A y \in Executor : y # x =>
            /\ pc'[y] = pc[y] /\ cur'[y] = cur[y] /\ target'[y] = target[y] /\ art'[y] = art[y]
            /\ y \in gone' <=> y \in gone
  BY <1>2 DEF IInv, TypeOK
<1>5. \A y \in Executor : y # x /\ pc[y] \notin {"idle", "forced"} => cur[y] \in Run /\ row'[cur[y]] = row[cur[y]]
  BY <1>1, HasRun DEF IInv, OneExecutor, Ends
<1>6. IdsIssued'
  BY <1>1, <1>4 DEF IInv, TypeOK, IdsIssued, Ends
<1>7. OneExecutor'
  BY <1>4 DEF IInv, OneExecutor
<1>8. HeldStatus'
  BY <1>4, <1>5 DEF IInv, HeldStatus, Executing, Has, Exists
<1>9. OneActivePerUser'
  <2>1. \A q \in Run : IsActive(q)' => IsActive(q) /\ row'[q].user = row[q].user
    BY <1>1 DEF Ends, IsActive, Exists, Active
  <2> QED
    BY <2>1 DEF IInv, OneActivePerUser
<1>10. ArtsAreTouched'
  <2>1. \A r \in Run : Touched(r) => Touched(r)'
    BY <1>1 DEF Ends, Touched, Exists
  <2>2. \A c \in Cell : OnFile(c) => verdict[c].art \in Run
    BY DEF IInv, TypeOK, OnFile, Verdict
  <2>3. \A y \in Executor : art'[y] # NoRun => art'[y] = art[y] /\ art[y] \in Run
    BY <1>4 DEF IInv, TypeOK
  <2> QED
    BY <1>4, <2>1, <2>2, <2>3 DEF IInv, ArtsAreTouched, OnFile, Ends
<1>11. TargetsFit'
  BY <1>4, <1>5 DEF IInv, TargetsFit, Exists, OnFile, Ends, Produces, Inherits, Upstream
<1>12. HealthyIsYoung'
  BY <1>4, <1>5 DEF IInv, HealthyIsYoung, Executing, Exists, Ends
<1>13. HealthyRunKept'
  <2> SUFFICES ASSUME NEW y \in Executor, NEW r \in Run,
                      cur'[y] = r, pc'[y] # "locked", y \notin slow', Exists(r)'
               PROVE  row'[r].status = "running"
    BY DEF HealthyRunKept
  <2>1. y # x /\ cur[y] = r /\ pc[y] # "locked" /\ y \notin slow
    BY <1>4, BridgeNullAssumption DEF Ends
  <2>2. pc[y] \notin {"idle", "forced"}
    BY <2>1, BridgeNullAssumption DEF IInv, IdsIssued
  <2> QED
    BY <1>5, <2>1, <2>2 DEF IInv, HealthyRunKept, Exists
<1>14. DoneHasVerdict'
  BY <1>4, <1>5 DEF IInv, DoneHasVerdict, Backed, Exists, OnFile, Ends
<1>15. SucceededHasVerdict'
  <2>1. \A r \in Run : Has(r, "succeeded")' =>
          /\ row'[r].cell = row[r].cell
          /\ \/ Has(r, "succeeded")
             \/ Backed(row[r].cell)
    BY <1>1 DEF Ends, Has, Exists
  <2> QED
    BY <2>1 DEF IInv, SucceededHasVerdict, Backed, OnFile, Ends
<1> QED
  BY <1>3, <1>6, <1>7, <1>8, <1>9, <1>10, <1>11, <1>12, <1>13, <1>14, <1>15 DEF IInv

\* A run succeeds only with its verdict on file.
LEMMA FinishStep ==
  ASSUME IInv, NEW x \in Executor, Finish(x)
  PROVE  IInv'
<1> DEFINE r == cur[x]
<1>1. /\ pc[x] \in {"done", "failed"} /\ r \in Run /\ Exists(r) /\ row[r] \in Row
      /\ pc[x] = "done" => Backed(row[r].cell)
  BY HasRun, HasNow DEF Finish, At, Executing
<1>2. PICK s \in {"succeeded", "failed"} :
         row' = [row EXCEPT ![r] = With(row[r], s)] /\ (s = "succeeded" => pc[x] = "done")
  BY DEF Finish, At
<1> DEFINE R == With(row[r], s)
<1>3. R \in Row /\ R.user = row[r].user /\ R.cell = row[r].cell /\ R.status = s
  BY <1>1, <1>2, RowOps DEF Status
<1>4. row' = [row EXCEPT ![r] = R]
  BY <1>2
<1> HIDE DEF R
<1>5. /\ row' \in [Run -> Row \cup {NoRow}] /\ row'[r] = R /\ row'[r] # NoRow
      /\ \A q \in Run : q # r => row'[q] = row[q]
  BY <1>1, <1>3, <1>4, Written DEF IInv
<1>6. Ends(x)
  BY <1>1, <1>2, <1>3, <1>5 DEF Ends, Finish, Exists, products, IInv, TypeOK
<1> QED
  BY <1>6, EndStep

\* An executor whose run was deleted lets go.
LEMMA VanishedStep ==
  ASSUME IInv, NEW x \in Executor, Vanished(x)
  PROVE  IInv'
<1>1. Ends(x)
  BY DEF Ends, Vanished, table, products, IInv, TypeOK
<1> QED
  BY <1>1, EndStep

\* The claim: the selected run becomes a running one that was just beaten.
LEMMA ClaimedRow ==
  ASSUME IInv, NEW x \in Executor, pc[x] = "locked",
         row' = [row EXCEPT ![cur[x]] = Claimed(@)]
  PROVE  /\ cur[x] \in Run /\ row[cur[x]] # NoRow /\ row[cur[x]].status = "queued"
         /\ row' \in [Run -> Row \cup {NoRow}]
         /\ \A q \in Run : q # cur[x] => row'[q] = row[q]
         /\ row'[cur[x]] # NoRow /\ row'[cur[x]].user = row[cur[x]].user
         /\ row'[cur[x]].cell = row[cur[x]].cell /\ row'[cur[x]].status = "running"
         /\ row'[cur[x]].hb = 0
<1> DEFINE R == Claimed(row[cur[x]])
<1>1. cur[x] \in Run /\ Has(cur[x], "queued") /\ row[cur[x]] \in Row
  BY HasRun DEF IInv, TypeOK, HeldStatus, Has, Exists
<1>2. /\ R \in Row /\ R.user = row[cur[x]].user /\ R.cell = row[cur[x]].cell
      /\ R.status = "running" /\ R.hb = 0
  BY <1>1, RowOps
<1>3. row' = [row EXCEPT ![cur[x]] = R]
  OBVIOUS
<1> HIDE DEF R
<1>4. /\ row' \in [Run -> Row \cup {NoRow}] /\ row'[cur[x]] = R /\ row'[cur[x]] # NoRow
      /\ \A q \in Run : q # cur[x] => row'[q] = row[q]
  BY <1>1, <1>2, <1>3, Written DEF IInv
<1> QED
  BY <1>1, <1>2, <1>4 DEF Has, Exists

\* A seeding session without a run yet ends.
LEMMA ForcedEnds ==
  ASSUME IInv, NEW x \in Executor, pc[x] = "forced", Release(x),
         UNCHANGED <<row, next, users, asked, pool, verdict, reviewed, forced, slow>>,
         faults' \in 0..MaxFaults
  PROVE  IInv'
<1>1. cur[x] = NoRun
  BY DEF IInv, IdsIssued
<1>2. /\ pc' \in [Executor -> Place] /\ pc'[x] = "idle" /\ cur' = cur
      /\ target' \in [Executor -> Cell \cup {NoCell}] /\ art' \in [Executor -> Run \cup {NoRun}]
      /\ art'[x] = NoRun /\ gone' \subseteq Executor
      /\ \A y \in Executor : y # x =>
            /\ pc'[y] = pc[y] /\ target'[y] = target[y] /\ art'[y] = art[y]
            /\ y \in gone' <=> y \in gone
  BY <1>1 DEF Release, Goto, Place, IInv, TypeOK
<1>3. TypeOK'
  BY <1>2 DEF IInv, TypeOK
<1>4. IdsIssued' /\ OneExecutor' /\ HeldStatus'
  BY <1>1, <1>2 DEF IInv, IdsIssued, OneExecutor, HeldStatus, Executing, Has, Exists
<1>5. OneActivePerUser' /\ SucceededHasVerdict'
  BY DEF IInv, OneActivePerUser, SucceededHasVerdict, IsActive, Has, Exists, OnFile
<1>6. ArtsAreTouched'
  BY <1>2 DEF IInv, ArtsAreTouched, Touched, Exists, OnFile
<1>7. TargetsFit' /\ DoneHasVerdict'
  BY <1>2
     DEF IInv, TargetsFit, DoneHasVerdict, Backed, Exists, OnFile, Produces, Inherits, Upstream
<1>8. HealthyIsYoung' /\ HealthyRunKept'
  <2>1. \A r \in Run : cur[x] # r
    BY <1>1, BridgeNullAssumption
  <2> QED
    BY <1>2, <2>1 DEF IInv, HealthyIsYoung, HealthyRunKept, Executing, Exists
<1> QED
  BY <1>3, <1>4, <1>5, <1>6, <1>7, <1>8 DEF IInv

\* An executor is lost, its claim committed or not.
LEMMA LoseStep ==
  ASSUME IInv, NEW x \in Executor, Lose(x)
  PROVE  IInv'
<1>1. faults' \in 0..MaxFaults
  BY BridgeAssumption DEF Lose, Disturb, IInv, TypeOK
<1>2. CASE UNCHANGED row /\ pc[x] # "forced"
  <2>1. Ends(x)
    BY <1>1, <1>2 DEF Ends, Lose, products, IInv, TypeOK
  <2> QED
    BY <2>1, EndStep
<1>4. CASE UNCHANGED row /\ pc[x] = "forced"
  BY <1>1, <1>4, ForcedEnds DEF Lose, products
<1>3. CASE pc[x] = "locked" /\ row' = [row EXCEPT ![cur[x]] = Claimed(@)]
  <2>1. Ends(x)
    BY <1>1, <1>3, ClaimedRow DEF Ends, Lose, products
  <2> QED
    BY <2>1, EndStep
<1> QED
  BY <1>2, <1>3, <1>4 DEF Lose

\* A queued run that is not locked has no executor: the selection is exclusive.
LEMMA ClaimSelectStep ==
  ASSUME IInv, NEW d \in Drain, ClaimSelect(d)
  PROVE  IInv'
<1>1. PICK r \in Run : Has(r, "queued") /\ ~Locked(r) /\ cur' = [cur EXCEPT ![d] = r]
  BY DEF ClaimSelect, Claimable
<1>2. /\ d \in Executor /\ pc[d] = "idle" /\ cur[d] = NoRun /\ r # NoRun /\ r < next
      /\ pc' = [pc EXCEPT ![d] = "locked"]
  <2>1. d \in Executor /\ pc[d] = "idle" /\ pc' = [pc EXCEPT ![d] = "locked"]
    BY DEF ClaimSelect, Executor
  <2>2. r # NoRun /\ row[r] # NoRow
    BY <1>1, BridgeNullAssumption DEF Has, Exists
  <2>3. next \in Nat /\ r \in Nat /\ ~(r >= next)
    BY <2>2 DEF IInv, TypeOK, IdsIssued, Run
  <2> QED
    BY <2>1, <2>2, <2>3 DEF IInv, IdsIssued
<1>3. \A x \in Executor : cur[x] # r
  <2> SUFFICES ASSUME NEW x \in Executor, cur[x] = r PROVE FALSE
    OBVIOUS
  <2>1. pc[x] \notin {"idle", "forced"} /\ Exists(cur[x]) /\ row[cur[x]].status = "queued"
    BY <1>1, <1>2 DEF IInv, IdsIssued, Has
  <2>2. pc[x] = "locked"
    BY <2>1 DEF IInv, HeldStatus, Executing
  <2> QED
    BY <1>1, <2>2 DEF Locked
<1>4. TypeOK'
  BY <1>1, <1>2 DEF IInv, TypeOK, ClaimSelect, table, products, Place
<1>5. /\ pc'[d] = "locked" /\ cur'[d] = r
      /\ \A x \in Executor : x # d => pc'[x] = pc[x] /\ cur'[x] = cur[x]
      /\ UNCHANGED <<row, next, users, asked, pool, verdict, reviewed, forced, target,
                     art, gone, slow, faults>>
  BY <1>1, <1>2 DEF IInv, TypeOK, ClaimSelect, table, products
<1>6. IdsIssued'
  BY <1>2, <1>5 DEF IInv, IdsIssued
<1>7. OneExecutor'
  BY <1>3, <1>5 DEF IInv, OneExecutor
<1>8. HeldStatus'
  BY <1>1, <1>5 DEF IInv, HeldStatus, Executing, Has, Exists
<1>9. OneActivePerUser' /\ SucceededHasVerdict'
  BY <1>5 DEF IInv, OneActivePerUser, SucceededHasVerdict, IsActive, Has, Exists, OnFile
<1>10. ArtsAreTouched'
  BY <1>5 DEF IInv, ArtsAreTouched, Touched, Exists, OnFile
<1>11. TargetsFit' /\ DoneHasVerdict'
  BY <1>5 DEF IInv, TargetsFit, DoneHasVerdict, Backed, Exists, OnFile, Produces, Inherits, Upstream
<1>12. HealthyIsYoung'
  BY <1>5 DEF IInv, HealthyIsYoung, Executing, Exists
<1>13. HealthyRunKept'
  BY <1>5 DEF IInv, HealthyRunKept, Exists
<1> QED
  BY <1>4, <1>6, <1>7, <1>8, <1>9, <1>10, <1>11, <1>12, <1>13 DEF IInv

\* The claim starts a run that is beaten.
LEMMA ClaimCommitStep ==
  ASSUME IInv, NEW d \in Drain, ClaimCommit(d)
  PROVE  IInv'
<1>1. d \in Executor /\ pc[d] = "locked" /\ cur[d] # NoRun
  BY HasRun DEF ClaimCommit, Executor
<1>2. /\ cur[d] \in Run /\ row[cur[d]] # NoRow /\ row[cur[d]].status = "queued"
      /\ row' \in [Run -> Row \cup {NoRow}]
      /\ \A q \in Run : q # cur[d] => row'[q] = row[q]
      /\ row'[cur[d]] # NoRow /\ row'[cur[d]].user = row[cur[d]].user
      /\ row'[cur[d]].cell = row[cur[d]].cell /\ row'[cur[d]].status = "running"
      /\ row'[cur[d]].hb = 0
  BY <1>1, ClaimedRow DEF ClaimCommit
<1>3. /\ pc'[d] = "claimed" /\ \A x \in Executor : x # d => pc'[x] = pc[x]
      /\ pc' \in [Executor -> Place] /\ slow' = slow \ {d}
      /\ UNCHANGED <<next, users, asked, pool, verdict, reviewed, forced, cur, target,
                     art, gone, faults>>
  BY <1>1 DEF IInv, TypeOK, ClaimCommit, products, local, Place
<1>4. \A x \in Executor : x # d /\ pc[x] \notin {"idle", "forced"} => cur[x] \in Run /\ row'[cur[x]] = row[cur[x]]
  BY <1>1, <1>2, HasRun DEF IInv, OneExecutor
<1>5. TypeOK'
  BY <1>2, <1>3 DEF IInv, TypeOK
<1>6. IdsIssued'
  BY <1>1, <1>2, <1>3 DEF IInv, TypeOK, IdsIssued
<1>7. OneExecutor'
  BY <1>3 DEF IInv, OneExecutor
<1>8. HeldStatus'
  BY <1>1, <1>2, <1>3, <1>4 DEF IInv, HeldStatus, Executing, Has, Exists
<1>9. OneActivePerUser'
  <2>1. \A q \in Run : IsActive(q)' => IsActive(q) /\ row'[q].user = row[q].user
    BY <1>2 DEF IsActive, Exists, Active
  <2> QED
    BY <2>1 DEF IInv, OneActivePerUser
<1>10. ArtsAreTouched'
  <2>1. \A r \in Run : Touched(r) => Touched(r)'
    BY <1>2, <1>3 DEF Touched, Exists
  <2>2. \A c \in Cell : OnFile(c) => verdict[c].art \in Run
    BY DEF IInv, TypeOK, OnFile, Verdict
  <2>3. \A y \in Executor : art[y] # NoRun => art[y] \in Run
    BY DEF IInv, TypeOK
  <2> QED
    BY <1>3, <2>1, <2>2, <2>3 DEF IInv, ArtsAreTouched, OnFile
<1>11. TargetsFit' /\ DoneHasVerdict'
  BY <1>3, <1>4
     DEF IInv, TargetsFit, DoneHasVerdict, Backed, Exists, OnFile, Produces, Inherits, Upstream
<1>12. HealthyIsYoung'
  BY <1>2, <1>3, <1>4, BridgeAssumption DEF IInv, HealthyIsYoung, Executing, Exists
<1>13. HealthyRunKept'
  <2> SUFFICES ASSUME NEW y \in Executor, NEW r \in Run,
                      cur'[y] = r, pc'[y] # "locked", y \notin slow', Exists(r)'
               PROVE  row'[r].status = "running"
    BY DEF HealthyRunKept
  <2>1. CASE y = d
    BY <1>2, <1>3, <2>1
  <2>2. CASE y # d
    <3>1. pc[y] \notin {"idle", "forced"} /\ pc[y] # "locked" /\ cur[y] = r /\ y \notin slow
      BY <1>3, <2>2, BridgeNullAssumption DEF IInv, IdsIssued
    <3> QED
      BY <1>4, <2>2, <3>1 DEF IInv, HealthyRunKept, Exists
  <2> QED
    BY <2>1, <2>2
<1>14. SucceededHasVerdict'
  BY <1>2, <1>3 DEF IInv, SucceededHasVerdict, Has, Exists, OnFile
<1> QED
  BY <1>5, <1>6, <1>7, <1>8, <1>9, <1>10, <1>11, <1>12, <1>13, <1>14 DEF IInv

-----------------------------------------------------------------------------

\* Rows change or go, and no executor moves: the API's actions on old runs, the
\* reclaim and the clock.  A run that is not locked may be called off while it
\* is queued, and given up if it is running.
Settles ==
    /\ row' \in [Run -> Row \cup {NoRow}]
    /\ \A q \in Run : row'[q] # NoRow =>
        /\ row[q] # NoRow
        /\ row'[q].user = row[q].user /\ row'[q].cell = row[q].cell
        /\ \/ row'[q].status = row[q].status
           \/ row[q].status = "queued" /\ row'[q].status = "cancelled" /\ ~Locked(q)
           \/ row[q].status = "running" /\ row'[q].status = "failed"
    /\ \A q \in Run : Locked(q) => row'[q] # NoRow
    /\ \A x \in Executor :
          Executing(x) /\ x \notin slow /\ row[cur[x]] # NoRow /\ row'[cur[x]] # NoRow =>
              /\ row'[cur[x]].status = row[cur[x]].status
              /\ row'[cur[x]].hb # Null => row[cur[x]].hb # Null /\ row'[cur[x]].hb <= BeatBy
    /\ users' \subseteq User
    /\ UNCHANGED <<next, asked, pool, verdict, reviewed, forced, pc, cur, target, art,
                   gone, slow, faults>>

\* What happens to runs from outside keeps the invariant.
LEMMA SettleStep ==
  ASSUME IInv, Settles
  PROVE  IInv'
<1>1. TypeOK'
  BY DEF IInv, TypeOK, Settles
<1>2. IdsIssued' /\ OneExecutor'
  BY DEF IInv, TypeOK, IdsIssued, OneExecutor, Settles
<1>3. HeldStatus'
  <2> SUFFICES ASSUME NEW x \in Executor
               PROVE  /\ pc[x] = "locked" => Has(cur[x], "queued")'
                      /\ Executing(x) /\ row'[cur[x]] # NoRow =>
                            row'[cur[x]].status \in {"running", "failed"}
    BY DEF HeldStatus, Settles, Executing, Exists
  <2>1. pc[x] \notin {"idle", "forced"} => cur[x] \in Run
    BY HasRun
  <2>2. CASE pc[x] = "locked"
    BY <2>1, <2>2 DEF IInv, HeldStatus, Has, Exists, Settles, Locked, Executing
  <2>3. CASE Executing(x)
    BY <2>1, <2>3 DEF IInv, HeldStatus, Exists, Settles, Executing
  <2> QED
    BY <2>2, <2>3 DEF Executing
<1>4. OneActivePerUser'
  <2>1. \A q \in Run : IsActive(q)' => IsActive(q) /\ row'[q].user = row[q].user
    BY DEF Settles, IsActive, Exists, Active
  <2> QED
    BY <2>1 DEF IInv, OneActivePerUser
<1>5. ArtsAreTouched'
  <2>1. \A r \in Run : Touched(r) => Touched(r)'
    BY DEF Settles, Touched, Exists
  <2>2. \A c \in Cell : OnFile(c) => verdict[c].art \in Run
    BY DEF IInv, TypeOK, OnFile, Verdict
  <2>3. \A y \in Executor : art[y] # NoRun => art[y] \in Run
    BY DEF IInv, TypeOK
  <2> QED
    BY <2>1, <2>2, <2>3 DEF IInv, ArtsAreTouched, OnFile, Settles
<1>6. TargetsFit' /\ DoneHasVerdict'
  <2>1. \A x \in Executor : pc[x] \notin {"idle", "forced"} => cur[x] \in Run
    BY HasRun
  <2> QED
    BY <2>1
       DEF IInv, TargetsFit, DoneHasVerdict, Backed, Exists, OnFile, Settles, Produces, Inherits,
       Upstream
<1>7. HealthyIsYoung'
  <2>1. \A x \in Executor : Executing(x) => cur[x] \in Run
    BY HasRun DEF Executing
  <2> QED
    BY <2>1 DEF IInv, HealthyIsYoung, Executing, Exists, Settles
<1>8. HealthyRunKept'
  <2> SUFFICES ASSUME NEW y \in Executor, NEW r \in Run,
                      cur[y] = r, pc[y] # "locked", y \notin slow, row'[r] # NoRow
               PROVE  row'[r].status = "running"
    BY DEF HealthyRunKept, Settles, Exists
  <2>1. Executing(y) /\ row[r] # NoRow
    BY BridgeNullAssumption DEF IInv, IdsIssued, Executing, Settles
  <2> QED
    BY <2>1 DEF IInv, HealthyRunKept, Exists, Settles
<1>9. SucceededHasVerdict'
  BY DEF IInv, SucceededHasVerdict, Has, Exists, OnFile, Settles
<1> QED
  BY <1>1, <1>2, <1>3, <1>4, <1>5, <1>6, <1>7, <1>8, <1>9 DEF IInv

\* A cancellation takes a queued run that no claim has locked.
LEMMA CancelStep ==
  ASSUME IInv, NEW u \in User, NEW r \in Run, Cancel(u, r)
  PROVE  IInv'
<1> DEFINE R == With(row[r], "cancelled")
<1>1. row[r] \in Row /\ row[r].status = "queued" /\ ~Locked(r) /\ row[r] # NoRow
  BY DEF Cancel, Cancellable, Has, Exists, IInv, TypeOK
<1>2. R \in Row /\ R.user = row[r].user /\ R.cell = row[r].cell /\ R.status = "cancelled"
  BY <1>1, RowOps DEF Status
<1>3. row' = [row EXCEPT ![r] = R]
  BY DEF Cancel
<1> HIDE DEF R
<1>4. /\ row' \in [Run -> Row \cup {NoRow}] /\ row'[r] = R /\ row'[r] # NoRow
      /\ \A q \in Run : q # r => row'[q] = row[q]
  BY <1>2, <1>3, Written DEF IInv
<1>5. \A x \in Executor : cur[x] = r => ~Executing(x)
  BY <1>1 DEF IInv, HeldStatus, Exists
<1>6. UNCHANGED <<next, users, asked, pool, verdict, reviewed, forced, pc, cur, target,
                  art, gone, slow, faults>>
  BY DEF Cancel, products, local
<1>7. \A x \in Executor : Executing(x) => cur[x] \in Run /\ row'[cur[x]] = row[cur[x]]
  BY <1>4, <1>5, HasRun DEF Executing
<1>8. Settles
  <2>1. \A q \in Run : row'[q] # NoRow =>
          /\ row[q] # NoRow
          /\ row'[q].user = row[q].user /\ row'[q].cell = row[q].cell
          /\ \/ row'[q].status = row[q].status
             \/ row[q].status = "queued" /\ row'[q].status = "cancelled" /\ ~Locked(q)
    BY <1>1, <1>2, <1>4
  <2>2. \A q \in Run : Locked(q) => row'[q] # NoRow
    BY <1>1, <1>4 DEF IInv, HeldStatus, Locked, Has, Exists
  <2>3. \A x \in Executor :
          Executing(x) /\ x \notin slow /\ row[cur[x]] # NoRow /\ row'[cur[x]] # NoRow =>
              /\ row'[cur[x]].status = row[cur[x]].status
              /\ row'[cur[x]].hb # Null => row[cur[x]].hb # Null /\ row'[cur[x]].hb <= BeatBy
    BY <1>7 DEF IInv, HealthyIsYoung, Exists
  <2> QED
    BY <1>4, <1>6, <2>1, <2>2, <2>3 DEF Settles, IInv, TypeOK
<1> QED
  BY <1>8, SettleStep

\* A deleted account's runs go, the locked ones excepted.
LEMMA DeleteAccountStep ==
  ASSUME IInv, NEW u \in User, DeleteAccount(u)
  PROVE  IInv'
<1>1. /\ \A q \in Run : Owns(q, u) => ~Locked(q)
      /\ row' = [q \in Run |-> IF Owns(q, u) THEN NoRow ELSE row[q]] /\ users' \subseteq User
      /\ UNCHANGED <<next, asked, pool, verdict, reviewed, forced, pc, cur, target,
                     art, gone, slow, faults>>
  BY DEF DeleteAccount, products, local, IInv, TypeOK
<1>2. row' \in [Run -> Row \cup {NoRow}] /\ \A q \in Run : row'[q] \in {NoRow, row[q]}
  BY <1>1 DEF IInv, TypeOK
<1>3. \A q \in Run : Locked(q) => row[q] # NoRow /\ row'[q] # NoRow
  <2>1. \A q \in Run : Locked(q) => row[q] # NoRow
    BY DEF Locked, IInv, HeldStatus, Has, Exists
  <2> QED
    BY <1>1, <2>1
<1>4. \A x \in Executor : Executing(x) => cur[x] \in Run
  BY HasRun DEF Executing
<1>5. Settles
  BY <1>1, <1>2, <1>3, <1>4 DEF Settles, IInv, HealthyIsYoung, Exists
<1> QED
  BY <1>5, SettleStep

\* A reclaim gives up stale runs, which no healthy executor has.
LEMMA ReclaimStaleStep ==
  ASSUME IInv, NEW d \in Drain, ReclaimStale(d)
  PROVE  IInv'
<1>1. UNCHANGED <<next, users, asked, pool, verdict, reviewed, forced, pc, cur, target,
                  art, gone, slow, faults>>
  BY DEF ReclaimStale, products, local
<1>2. ASSUME NEW q \in Run
      PROVE  /\ row'[q] \in Row \cup {NoRow} /\ (row'[q] = NoRow <=> row[q] = NoRow)
             /\ row[q] # NoRow =>
                 /\ row'[q].user = row[q].user /\ row'[q].cell = row[q].cell
                 /\ row'[q].hb = row[q].hb
                 /\ \/ row'[q] = row[q]
                    \/ row[q].status = "running" /\ row'[q].status = "failed" /\ IsStale(row[q])
  <2>1. row'[q] = IF Exists(q) /\ IsStale(row[q]) THEN With(row[q], "failed") ELSE row[q]
    BY DEF ReclaimStale
  <2>2. row[q] \in Row \cup {NoRow}
    BY DEF IInv, TypeOK
  <2>3. CASE Exists(q) /\ IsStale(row[q])
    <3> DEFINE R == With(row[q], "failed")
    <3>1. row'[q] = R /\ row[q].status = "running" /\ row[q] \in Row
      BY <2>1, <2>2, <2>3 DEF IsStale, Exists
    <3>2. /\ R \in Row /\ R # NoRow /\ R.user = row[q].user /\ R.cell = row[q].cell
          /\ R.hb = row[q].hb /\ R.status = "failed"
      BY <3>1, RowOps DEF Status
    <3> HIDE DEF R
    <3> QED
      BY <2>3, <3>1, <3>2 DEF Exists
  <2>4. CASE ~(Exists(q) /\ IsStale(row[q]))
    BY <2>1, <2>2, <2>4
  <2> QED
    BY <2>3, <2>4
<1>3. row' \in [Run -> Row \cup {NoRow}]
  BY <1>2 DEF ReclaimStale
<1>4. \A q \in Run : Locked(q) => row[q] # NoRow
  BY DEF Locked, IInv, HeldStatus, Has, Exists
<1>5. ASSUME NEW x \in Executor, Executing(x), x \notin slow, row[cur[x]] # NoRow
      PROVE  row'[cur[x]] = row[cur[x]]
  <2>1. cur[x] \in Run
    BY <1>5, HasRun DEF Executing
  <2>2. row[cur[x]].hb # Null => row[cur[x]].hb <= BeatBy /\ row[cur[x]].hb \in Age
    BY <1>5, <2>1 DEF IInv, TypeOK, Row, HealthyIsYoung, Exists
  <2>3. ~IsStale(row[cur[x]])
    BY <2>2, BridgeAssumption DEF IsStale, Age
  <2> QED
    BY <1>2, <1>5, <2>1, <2>3
<1>6. Settles
  BY <1>1, <1>2, <1>3, <1>4, <1>5 DEF Settles, IInv, TypeOK, HealthyIsYoung, Exists
<1> QED
  BY <1>6, SettleStep

\* Time passes, and healthy executors beat in time.
LEMMA TickStep ==
  ASSUME IInv, Tick
  PROVE  IInv'
<1>1. UNCHANGED <<next, users, asked, pool, verdict, reviewed, forced, pc, cur, target,
                  art, gone, slow, faults>>
  BY DEF Tick, products, local
<1>2. ASSUME NEW q \in Run
      PROVE  /\ row'[q] \in Row \cup {NoRow} /\ (row'[q] = NoRow <=> row[q] = NoRow)
             /\ row[q] # NoRow =>
                 /\ row'[q].user = row[q].user /\ row'[q].cell = row[q].cell
                 /\ row'[q].status = row[q].status /\ (row[q].hb = Null <=> row'[q].hb = Null)
                 /\ row[q].hb # Null => row'[q].hb \in {row[q].hb, row[q].hb + 1}
  <2>1. row'[q] = IF Exists(q) THEN Older(row[q]) ELSE NoRow
    BY DEF Tick
  <2>2. row[q] \in Row \cup {NoRow}
    BY DEF IInv, TypeOK
  <2>3. CASE Exists(q)
    <3> DEFINE R == Older(row[q])
    <3>1. row'[q] = R /\ row[q] \in Row
      BY <2>1, <2>2, <2>3 DEF Exists
    <3>2. /\ R \in Row /\ R # NoRow /\ R.user = row[q].user /\ R.cell = row[q].cell
          /\ R.status = row[q].status /\ (row[q].hb = Null <=> R.hb = Null)
          /\ (row[q].hb # Null => R.hb \in {row[q].hb, row[q].hb + 1})
      BY <3>1, RowOps
    <3> HIDE DEF R
    <3> QED
      BY <2>3, <3>1, <3>2 DEF Exists
  <2>4. CASE ~Exists(q)
    BY <2>1, <2>4 DEF Exists
  <2> QED
    BY <2>3, <2>4
<1>3. row' \in [Run -> Row \cup {NoRow}]
  BY <1>2 DEF Tick
<1>4. \A q \in Run : Locked(q) => row[q] # NoRow
  BY DEF Locked, IInv, HeldStatus, Has, Exists
<1>5. ASSUME NEW x \in Executor, Executing(x), x \notin slow,
             row[cur[x]] # NoRow, row'[cur[x]].hb # Null
      PROVE  row[cur[x]].hb # Null /\ row'[cur[x]].hb <= BeatBy
  <2>1. cur[x] \in Run /\ pc[x] # "locked"
    BY <1>5, HasRun DEF Executing
  <2>2. row[cur[x]].hb # Null /\ row[cur[x]].hb \in Nat
    BY <1>2, <1>5, <2>1 DEF IInv, TypeOK, Row, Age
  <2>3. row[cur[x]].hb < BeatBy
    BY <1>5, <2>1, <2>2 DEF Tick, Exists
  <2> QED
    BY <1>2, <1>5, <2>1, <2>2, <2>3, BridgeAssumption
<1>6. Settles
  BY <1>1, <1>2, <1>3, <1>4, <1>5, HasRun DEF Settles, IInv, TypeOK, Exists, Executing
<1> QED
  BY <1>6, SettleStep

-----------------------------------------------------------------------------

\* A new run is the only active one of its user: the index.
LEMMA InsertStep ==
  ASSUME IInv, NEW u \in User, Insert(u)
  PROVE  IInv'
<1> DEFINE R == NewRun(u, asked[u])
<1>1. next \in Run /\ asked[u] \in Cell /\ next' = next + 1 /\ SlotFree(u)
  BY BridgeAssumption DEF Insert, IInv, TypeOK, Run
<1>2. R \in Row /\ R.user = u /\ R.status = "queued"
  BY <1>1 DEF NewRun, Row, Status
<1>3. row' = [row EXCEPT ![next] = R]
  BY DEF Insert
<1> HIDE DEF R
<1>4. /\ row' \in [Run -> Row \cup {NoRow}] /\ row'[next] = R /\ row'[next] # NoRow
      /\ \A q \in Run : q # next => row'[q] = row[q]
  BY <1>1, <1>2, <1>3, Written DEF IInv
<1>5. UNCHANGED <<users, pool, verdict, reviewed, forced, pc, cur, target, art, gone,
                  slow, faults>>
  BY DEF Insert, products, local
<1>6. row[next] = NoRow
  BY <1>1 DEF IInv, TypeOK, IdsIssued
<1>7. \A x \in Executor :
         cur[x] # next /\ (pc[x] \notin {"idle", "forced"} => cur[x] \in Run /\ row'[cur[x]] = row[cur[x]])
  <2>1. \A x \in Executor : cur[x] # next
    BY <1>1, BridgeNullAssumption DEF IInv, TypeOK, IdsIssued
  <2> QED
    BY <1>4, <2>1, HasRun
<1>8. TypeOK'
  <2>1. next' \in 1..(MaxRuns + 1)
    BY <1>1, BridgeAssumption DEF Run
  <2>2. asked' \in [User -> Cell \cup {NoCell}]
    BY DEF Insert, IInv, TypeOK
  <2> QED
    BY <1>4, <1>5, <2>1, <2>2 DEF IInv, TypeOK
<1>9. IdsIssued'
  BY <1>1, <1>4, <1>5 DEF IInv, TypeOK, IdsIssued, Run
<1>10. OneExecutor' /\ HeldStatus' /\ TargetsFit' /\ DoneHasVerdict' /\ HealthyIsYoung'
  <2>1. OneExecutor'
    BY <1>5 DEF IInv, OneExecutor
  <2>2. HeldStatus'
    BY <1>5, <1>7 DEF IInv, HeldStatus, Executing, Has, Exists
  <2>3. TargetsFit' /\ DoneHasVerdict'
    BY <1>5, <1>7
       DEF IInv, TargetsFit, DoneHasVerdict, Backed, Exists, OnFile, Produces, Inherits, Upstream
  <2>4. HealthyIsYoung'
    BY <1>5, <1>7 DEF IInv, HealthyIsYoung, Executing, Exists
  <2> QED
    BY <2>1, <2>2, <2>3, <2>4
<1>11. OneActivePerUser'
  BY <1>1, <1>2, <1>4, <1>6 DEF IInv, OneActivePerUser, IsActive, Exists, SlotFree, Owns
<1>12. ArtsAreTouched'
  <2>1. \A r \in Run : Touched(r) => Touched(r)'
    BY <1>1, <1>4 DEF Touched, Exists, IInv, TypeOK, Run
  <2>2. \A c \in Cell : OnFile(c) => verdict[c].art \in Run
    BY DEF IInv, TypeOK, OnFile, Verdict
  <2>3. \A y \in Executor : art[y] # NoRun => art[y] \in Run
    BY DEF IInv, TypeOK
  <2> QED
    BY <1>5, <2>1, <2>2, <2>3 DEF IInv, ArtsAreTouched, OnFile
<1>13. HealthyRunKept'
  BY <1>4, <1>5, <1>7 DEF IInv, HealthyRunKept, Exists
<1>14. SucceededHasVerdict'
  BY <1>2, <1>4, <1>5 DEF IInv, SucceededHasVerdict, Has, Exists, OnFile
<1> QED
  BY <1>8, <1>9, <1>10, <1>11, <1>12, <1>13, <1>14 DEF IInv

\* The command line inserts a run that is running already.
LEMMA SeedStartStep ==
  ASSUME IInv, NEW k \in Cli, SeedStart(k)
  PROVE  IInv'
<1>1. PICK c \in Cell : row' = [row EXCEPT ![next] = SeedRun(c)]
  BY DEF SeedStart
<1> DEFINE R == SeedRun(c)
<1>2. R \in Row /\ R.user = NoUser /\ R.status = "running" /\ R.hb = Null
  BY DEF SeedRun, Row, Status
<1>3. row' = [row EXCEPT ![next] = R]
  BY <1>1
<1> HIDE DEF R
<1>4. /\ k \in Executor /\ pc[k] \in {"idle", "forced"} /\ cur[k] = NoRun
      /\ next \in Run /\ next # NoRun /\ next' = next + 1
  BY BridgeAssumption, BridgeNullAssumption
     DEF SeedStart, IInv, TypeOK, Run, Executor, IdsIssued
<1>5. /\ row' \in [Run -> Row \cup {NoRow}] /\ row'[next] = R /\ row'[next] # NoRow
      /\ \A q \in Run : q # next => row'[q] = row[q]
  BY <1>2, <1>3, <1>4, Written DEF IInv
<1>6. /\ cur' \in [Executor -> Run \cup {NoRun}] /\ pc' \in [Executor -> Place]
      /\ cur'[k] = next /\ pc'[k] = "claimed" /\ slow' = slow \ {k}
      /\ target' \in [Executor -> Cell \cup {NoCell}]
      /\ \A x \in Executor : x # k =>
            cur'[x] = cur[x] /\ pc'[x] = pc[x] /\ target'[x] = target[x]
      /\ UNCHANGED <<users, asked, pool, verdict, reviewed, forced, art, gone, faults>>
  BY <1>4 DEF SeedStart, Goto, products, IInv, TypeOK, Place
<1>7. row[next] = NoRow
  BY <1>4 DEF IInv, TypeOK, IdsIssued
<1>8. \A x \in Executor :
         cur[x] # next /\ (pc[x] \notin {"idle", "forced"} => cur[x] \in Run /\ row'[cur[x]] = row[cur[x]])
  <2>1. \A x \in Executor : cur[x] # next
    BY <1>4 DEF IInv, TypeOK, IdsIssued
  <2> QED
    BY <1>5, <2>1, HasRun
<1>9. TypeOK'
  <2>1. next' \in 1..(MaxRuns + 1)
    BY <1>4, BridgeAssumption DEF Run
  <2> QED
    BY <1>5, <1>6, <2>1 DEF IInv, TypeOK
<1>10. IdsIssued'
  <2>1. \A r \in Run : r >= next' => row'[r] = NoRow
    BY <1>4, <1>5 DEF IInv, TypeOK, IdsIssued, Run
  <2>2. \A x \in Executor : (cur[x] # NoRun => cur[x] < next)'
    BY <1>4, <1>6 DEF IInv, TypeOK, IdsIssued, Run
  <2>3. \A x \in Executor : (pc[x] \in {"idle", "forced"} <=> cur[x] = NoRun)'
    BY <1>4, <1>6 DEF IInv, IdsIssued
  <2> QED
    BY <2>1, <2>2, <2>3 DEF IdsIssued
<1>11. OneExecutor'
  BY <1>6, <1>8 DEF IInv, OneExecutor
<1>12. HeldStatus'
  BY <1>2, <1>5, <1>6, <1>8 DEF IInv, HeldStatus, Executing, Has, Exists
<1>13. TargetsFit' /\ DoneHasVerdict'
  BY <1>6, <1>8
     DEF IInv, TargetsFit, DoneHasVerdict, Backed, Exists, OnFile, Produces, Inherits, Upstream
<1>14. HealthyIsYoung'
  BY <1>2, <1>5, <1>6, <1>8 DEF IInv, HealthyIsYoung, Executing, Exists
<1>15. OneActivePerUser'
  BY <1>2, <1>5 DEF IInv, OneActivePerUser, IsActive, Exists
<1>16. ArtsAreTouched'
  <2>1. \A r \in Run : Touched(r) => Touched(r)'
    BY <1>4, <1>5 DEF Touched, Exists, IInv, TypeOK, Run
  <2>2. \A c2 \in Cell : OnFile(c2) => verdict[c2].art \in Run
    BY DEF IInv, TypeOK, OnFile, Verdict
  <2>3. \A y \in Executor : art[y] # NoRun => art[y] \in Run
    BY DEF IInv, TypeOK
  <2> QED
    BY <1>6, <2>1, <2>2, <2>3 DEF IInv, ArtsAreTouched, OnFile
<1>17. HealthyRunKept'
  <2> SUFFICES ASSUME NEW y \in Executor, NEW r \in Run,
                      cur'[y] = r, pc'[y] # "locked", y \notin slow', row'[r] # NoRow
               PROVE  row'[r].status = "running"
    BY DEF HealthyRunKept, Exists
  <2>1. CASE y = k
    BY <1>2, <1>5, <1>6, <2>1
  <2>2. CASE y # k
    <3>1. pc[y] \notin {"idle", "forced"} /\ pc[y] # "locked" /\ cur[y] = r /\ y \notin slow
      BY <1>6, <2>2, BridgeNullAssumption DEF IInv, IdsIssued
    <3> QED
      BY <1>8, <2>2, <3>1 DEF IInv, HealthyRunKept, Exists
  <2> QED
    BY <2>1, <2>2
<1>18. SucceededHasVerdict'
  BY <1>2, <1>5, <1>6 DEF IInv, SucceededHasVerdict, Has, Exists, OnFile
<1> QED
  BY <1>9, <1>10, <1>11, <1>12, <1>13, <1>14, <1>15, <1>16, <1>17, <1>18 DEF IInv

\* The command line deletes a verdict: whoever had loaded the row is told, and
\* the successes of the cell are excused.
LEMMA SeedForceStep ==
  ASSUME IInv, NEW k \in Cli, SeedForce(k)
  PROVE  IInv'
<1>1. PICK c \in Cell :
         /\ OnFile(c) /\ verdict' = [verdict EXCEPT ![c] = NoRow]
         /\ reviewed' = [reviewed EXCEPT ![c] = NoRun] /\ forced' = forced \cup {c}
         /\ gone' = gone \cup Loaded(c) /\ target' = [target EXCEPT ![k] = c]
  BY DEF SeedForce
<1>2. /\ k \in Executor /\ pc[k] = "idle" /\ cur[k] = NoRun
      /\ pc' \in [Executor -> Place] /\ pc'[k] = "forced"
      /\ \A x \in Executor : x # k => pc'[x] = pc[x]
      /\ UNCHANGED <<row, next, users, asked, pool, cur, art, slow, faults>>
  BY DEF SeedForce, Goto, Place, Executor, table, IInv, TypeOK, IdsIssued
<1>3. /\ verdict' \in [Cell -> Verdict \cup {NoRow}] /\ verdict'[c] = NoRow
      /\ \A d \in Cell : d # c => verdict'[d] = verdict[d]
      /\ target' \in [Executor -> Cell \cup {NoCell}]
      /\ \A x \in Executor : x # k => target'[x] = target[x]
      /\ gone' \subseteq Executor /\ gone \subseteq gone' /\ forced' \subseteq Cell
  BY <1>1, <1>2 DEF IInv, TypeOK, Loaded
<1>4. TypeOK'
  BY <1>1, <1>2, <1>3 DEF IInv, TypeOK
<1>5. IdsIssued' /\ OneExecutor' /\ HeldStatus'
  BY <1>2 DEF IInv, IdsIssued, OneExecutor, HeldStatus, Executing, Has, Exists
<1>6. OneActivePerUser'
  BY <1>2 DEF IInv, OneActivePerUser, IsActive, Exists
<1>7. ArtsAreTouched'
  BY <1>2, <1>3 DEF IInv, ArtsAreTouched, Touched, Exists, OnFile
<1>8. TargetsFit'
  <2>1. \A x \in Executor : pc[x] = "overwrite" /\ target[x] = c => x \in gone'
    BY <1>1 DEF Loaded
  <2>2. \A x \in Executor : pc[x] = "inherit" /\ Upstream(target[x]) = c => x \in gone'
    BY <1>1 DEF Loaded
  <2>3. \A x \in Executor : pc[x] = "inherit" => Upstream(target[x]) \in Cell
    BY Cells DEF IInv, TargetsFit
  <2> QED
    BY <1>2, <1>3, <2>1, <2>2, <2>3
       DEF IInv, TargetsFit, Exists, OnFile, Produces, Inherits, Upstream
<1>9. DoneHasVerdict' /\ SucceededHasVerdict'
  <2>1. \A d \in Cell : Backed(d) => Backed(d)'
    BY <1>1, <1>3 DEF Backed, OnFile
  <2>2. \A r \in Run : row[r] # NoRow => row[r].cell \in Cell
    BY DEF IInv, TypeOK, Row
  <2>3. \A x \in Executor : pc[x] = "done" => cur[x] \in Run
    BY HasRun
  <2>4. DoneHasVerdict'
    BY <1>2, <2>1, <2>2, <2>3 DEF IInv, DoneHasVerdict, Exists
  <2>5. SucceededHasVerdict'
    BY <1>2, <2>1, <2>2 DEF IInv, SucceededHasVerdict, Backed, Has, Exists
  <2> QED
    BY <2>4, <2>5
<1>10. HealthyIsYoung' /\ HealthyRunKept'
  <2>1. \A r \in Run : cur[k] # r
    BY <1>2, BridgeNullAssumption
  <2> QED
    BY <1>2, <2>1 DEF IInv, HealthyIsYoung, HealthyRunKept, Executing, Exists
<1> QED
  BY <1>4, <1>5, <1>6, <1>7, <1>8, <1>9, <1>10 DEF IInv

\* Publishing touches no artefact.
LEMMA CurateStep ==
  ASSUME IInv, NEW c \in Cell, Curate(c)
  PROVE  IInv'
<1> DEFINE v == [verdict[c] EXCEPT !.published = ~verdict[c].published]
<1>1. verdict[c] \in Verdict /\ verdict[c] # NoRow
  BY DEF Curate, OnFile, IInv, TypeOK
<1>2. v \in Verdict /\ v.art = verdict[c].art
  BY <1>1 DEF Verdict
<1>3. verdict' = [verdict EXCEPT ![c] = v]
  BY DEF Curate
<1> HIDE DEF v
<1>4. v # NoRow
  BY <1>2, BridgeNullAssumption
<1>5. /\ verdict' \in [Cell -> Verdict \cup {NoRow}]
      /\ \A d \in Cell : /\ verdict'[d] = NoRow <=> verdict[d] = NoRow
                         /\ verdict[d] # NoRow => verdict'[d].art = verdict[d].art
  BY <1>1, <1>2, <1>3, <1>4 DEF IInv, TypeOK
<1>6. UNCHANGED <<row, next, users, asked, pool, forced, pc, cur, target, art, gone,
                  slow, faults>>
  BY DEF Curate, table, local
<1>7. reviewed' \in [Cell -> Run \cup {NoRun}]
  BY <1>1 DEF Curate, IInv, TypeOK, Verdict
<1>8. TypeOK'
  BY <1>5, <1>6, <1>7 DEF IInv, TypeOK
<1>9. /\ IdsIssued' /\ OneExecutor' /\ HeldStatus' /\ OneActivePerUser'
      /\ HealthyIsYoung' /\ HealthyRunKept'
  BY <1>6
     DEF IInv, IdsIssued, OneExecutor, HeldStatus, OneActivePerUser, HealthyIsYoung,
     HealthyRunKept,
              Executing, Has, IsActive, Exists
<1>10. ArtsAreTouched'
  BY <1>5, <1>6 DEF IInv, ArtsAreTouched, Touched, Exists, OnFile
<1>11. TargetsFit'
  <2>1. \A x \in Executor : pc[x] = "inherit" => Upstream(target[x]) \in Cell
    BY Cells DEF IInv, TargetsFit
  <2> QED
    BY <1>5, <1>6, <2>1 DEF IInv, TargetsFit, Exists, OnFile, Produces, Inherits, Upstream
<1>12. DoneHasVerdict' /\ SucceededHasVerdict'
  <2>1. \A r \in Run : row[r] # NoRow => row[r].cell \in Cell
    BY DEF IInv, TypeOK, Row
  <2>2. \A x \in Executor : pc[x] = "done" => cur[x] \in Run
    BY HasRun
  <2> QED
    BY <1>5, <1>6, <2>1, <2>2 DEF IInv, DoneHasVerdict, Backed, SucceededHasVerdict, Has, Exists,
       OnFile
<1> QED
  BY <1>8, <1>9, <1>10, <1>11, <1>12 DEF IInv

\* What an executor that hangs, and a request that only looks, leave as it is.
LEMMA IdleStep ==
  ASSUME IInv, slow \subseteq slow', slow' \subseteq Executor, faults' \in 0..MaxFaults,
         asked' \in [User -> Cell \cup {NoCell}],
         UNCHANGED <<row, next, users, pool, verdict, reviewed, forced, pc, cur,
                     target, art, gone>>
  PROVE  IInv'
<1>1. TypeOK'
  BY DEF IInv, TypeOK
<1>2. IdsIssued' /\ OneExecutor' /\ HeldStatus' /\ OneActivePerUser' /\ SucceededHasVerdict'
  BY DEF IInv, IdsIssued, OneExecutor, HeldStatus, OneActivePerUser, SucceededHasVerdict,
         Executing, Has, IsActive, Exists, OnFile
<1>3. ArtsAreTouched' /\ TargetsFit' /\ DoneHasVerdict'
  BY DEF IInv, ArtsAreTouched, TargetsFit, DoneHasVerdict, Backed, Touched, Exists, OnFile,
         Produces, Inherits, Upstream
<1>4. HealthyIsYoung' /\ HealthyRunKept'
  BY DEF IInv, HealthyIsYoung, HealthyRunKept, Executing, Exists
<1> QED
  BY <1>1, <1>2, <1>3, <1>4 DEF IInv

\* A request that looks.
LEMMA AskStep ==
  ASSUME IInv, NEW u \in User, (\E c \in Cell : Ask(u, c)) \/ Refuse(u)
  PROVE  IInv'
<1>1. asked' \in [User -> Cell \cup {NoCell}]
  BY DEF Ask, Refuse, IInv, TypeOK
<1>2. UNCHANGED <<row, next, users, pool, verdict, reviewed, forced, pc, cur, target,
                  art, gone, slow, faults>>
  BY DEF Ask, Refuse, products, local
<1> QED
  BY <1>1, <1>2, IdleStep DEF IInv, TypeOK

\* An executor's calls hang.
LEMMA HangStep ==
  ASSUME IInv, NEW x \in Executor, Hang(x)
  PROVE  IInv'
<1>1. faults' \in 0..MaxFaults
  BY BridgeAssumption DEF Hang, Disturb, IInv, TypeOK
<1>2. /\ UNCHANGED <<row, next, users, asked, pool, verdict, reviewed, forced, pc, cur,
                     target, art, gone>>
      /\ slow \subseteq slow' /\ slow' \subseteq Executor
  BY DEF Hang, table, products, local, IInv, TypeOK
<1> QED
  BY <1>1, <1>2, IdleStep DEF IInv, TypeOK

-----------------------------------------------------------------------------

\* The tables start empty.
LEMMA InitIInv == Init => IInv
<1> SUFFICES ASSUME Init PROVE IInv
  OBVIOUS
<1>1. /\ row = [r \in Run |-> NoRow] /\ verdict = [c \in Cell |-> NoRow] /\ slow = {}
      /\ pc = [x \in Executor |-> "idle"] /\ cur = [x \in Executor |-> NoRun]
      /\ target = [x \in Executor |-> NoCell] /\ art = [x \in Executor |-> NoRun]
  BY DEF Init
<1>2. TypeOK
  <2>1. next \in 1..(MaxRuns + 1) /\ faults \in 0..MaxFaults
    BY BridgeAssumption DEF Init
  <2> QED
    BY <1>1, <2>1 DEF Init, TypeOK, Place
<1>3. IdsIssued /\ OneExecutor /\ HeldStatus
  BY <1>1 DEF IdsIssued, OneExecutor, HeldStatus, Executing
<1>4. OneActivePerUser /\ SucceededHasVerdict
  BY <1>1 DEF OneActivePerUser, SucceededHasVerdict, IsActive, Has, Exists
<1>5. ArtsAreTouched /\ TargetsFit /\ DoneHasVerdict
  BY <1>1 DEF ArtsAreTouched, TargetsFit, DoneHasVerdict, OnFile
<1>6. HealthyIsYoung /\ HealthyRunKept
  BY <1>1, BridgeNullAssumption DEF HealthyIsYoung, HealthyRunKept, Executing
<1> QED
  BY <1>2, <1>3, <1>4, <1>5, <1>6 DEF IInv

\* The invariant is inductive.
THEOREM Invariance == Spec => []IInv
<1>1. IInv /\ [Next]_vars => IInv'
  <2> SUFFICES ASSUME IInv, [Next]_vars PROVE IInv'
    OBVIOUS
  <2>1. CASE Api
    BY <2>1, AskStep, InsertStep, CancelStep, DeleteAccountStep DEF Api
  <2>2. ASSUME NEW d \in Drain, ReclaimStale(d) \/ Claim(d) PROVE IInv'
    BY <2>2, ReclaimStaleStep, ClaimSelectStep, ClaimCommitStep DEF Claim
  <2>3. ASSUME NEW k \in Cli, SeedForce(k) \/ SeedStart(k) PROVE IInv'
    BY <2>3, SeedForceStep, SeedStartStep
  <2>4. ASSUME NEW x \in Executor, Advance(x) PROVE IInv'
    BY <2>4, LookStep, FindPoolStep, AddPoolStep, AssessStep, GiveUpStep, InheritStep,
       StoreReadStep,
       StoreInsertStep, StoreOverwriteStep, FinishStep, VanishedStep DEF Advance
  <2>5. ASSUME NEW x \in Executor, Beat(x) \/ Lose(x) \/ Hang(x) PROVE IInv'
    BY <2>5, BeatStep, LoseStep, HangStep
  <2>6. ASSUME NEW c \in Cell, Curate(c) PROVE IInv'
    BY <2>6, CurateStep
  <2>7. CASE Tick
    BY <2>7, TickStep
  <2>8. CASE UNCHANGED vars
    BY <2>8, IdleStep DEF vars, IInv, TypeOK
  <2> QED
    BY <2>1, <2>2, <2>3, <2>4, <2>5, <2>6, <2>7, <2>8 DEF Next
<1> QED
  BY <1>1, InitIInv, PTL DEF Spec

\* Types hold in every run of the queue.
THEOREM TypeCorrect == Spec => []TypeOK
<1>1. IInv => TypeOK
  BY DEF IInv
<1> QED
  BY <1>1, Invariance, PTL

\* A user has one active run, a cancelled run leaves nothing behind, and no
\* reclaim takes a run from a healthy executor.
THEOREM RunsKept == Spec => []RunsAreKept
<1>1. IInv => RunsAreKept
  <2> SUFFICES ASSUME IInv PROVE RunsAreKept
    OBVIOUS
  <2>1. CancelIsClean
    <3> SUFFICES ASSUME NEW r \in Run, Has(r, "cancelled")
                 PROVE  /\ \A x \in Executor : cur[x] # r
                        /\ \A c \in Cell : OnFile(c) => verdict[c].art # r
      BY DEF CancelIsClean
    <3>1. ASSUME NEW x \in Executor PROVE cur[x] # r
      <4>1. cur[x] = r => pc[x] \notin {"idle", "forced"}
        BY BridgeNullAssumption DEF IInv, IdsIssued
      <4> QED
        BY <4>1 DEF IInv, HeldStatus, Executing, Has, Exists
    <3>2. ASSUME NEW c \in Cell, OnFile(c) PROVE verdict[c].art # r
      BY <3>2 DEF IInv, ArtsAreTouched, Touched, Has, Exists
    <3> QED
      BY <3>1, <3>2
  <2> QED
    BY <2>1 DEF IInv, RunsAreKept
<1> QED
  BY <1>1, Invariance, PTL

\* A succeeded run has its verdict, and two executors work for one user only if
\* one of them hung past the window.
THEOREM SuccessBacked == Spec => []SuccessIsBacked
<1>1. IInv => SuccessIsBacked
  <2> SUFFICES ASSUME IInv PROVE SuccessIsBacked
    OBVIOUS
  <2>1. NeverTwoBridges
    <3> SUFFICES ASSUME NEW x \in Executor, NEW y \in Executor, NEW q \in Run, NEW r \in Run,
                        x # y, cur[x] = q, cur[y] = r, Exists(q), Exists(r),
                        row[q].user = row[r].user, row[q].user # NoUser,
                        x \notin slow, y \notin slow
                 PROVE  FALSE
      BY DEF NeverTwoBridges
    <3>1. pc[x] \notin {"idle", "forced"} /\ pc[y] \notin {"idle", "forced"} /\ q # r
      BY BridgeNullAssumption DEF IInv, IdsIssued, OneExecutor
    <3>2. IsActive(q)
      BY DEF IInv, HeldStatus, HealthyRunKept, IsActive, Has, Active
    <3>3. IsActive(r)
      BY DEF IInv, HeldStatus, HealthyRunKept, IsActive, Has, Active
    <3> QED
      BY <3>1, <3>2, <3>3 DEF IInv, OneActivePerUser
  <2> QED
    BY <2>1 DEF IInv, SuccessIsBacked
<1> QED
  BY <1>1, Invariance, PTL

=============================================================================

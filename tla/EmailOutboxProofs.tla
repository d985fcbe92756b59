-------------------------- MODULE EmailOutboxProofs --------------------------
(***************************************************************************)
(* Proofs about the email outbox: type correctness, that claims are        *)
(* exclusive until something breaks, that a message goes out at most once  *)
(* more for every disturbance, and that no row is dropped or revived, for  *)
(* any number of drainers, rows and disturbances, any backoff and cap, and *)
(* any stale window that is at least the time a healthy delivery takes.    *)
(*                                                                         *)
(* A failure is recorded on a row that may have moved on since the drainer *)
(* read it.  What saves the table is that attempts only grow and a token   *)
(* only goes (Follows): whoever buries a row on what it read was right to, *)
(* and whoever sends a dead one back sends it without its secret.          *)
(*                                                                         *)
(* The argument for duplicates is an account (Paid): the deliveries of a   *)
(* row, the drainers that may still deliver it, and the chance that it is  *)
(* claimed once more add up to at most one more than the disturbances.  A  *)
(* claim moves the chance to a drainer, a delivery moves the drainer to a  *)
(* delivery, a failure gives the chance back.  What keeps the sum is that  *)
(* a reclaim opens no row a healthy drainer works on, since its claim is   *)
(* no older than its work (ClaimsAreYoung) and its work no longer than the *)
(* window; a hang costs a disturbance, and only that opens the row.        *)
(*                                                                         *)
(* One lemma for each shape of step: Moves is a step within a delivery,    *)
(* Leaves lets go of the row, Turns changes rows that nobody lets go of.   *)
(***************************************************************************)
EXTENDS EmailOutbox, FiniteSetTheorems, TLAPS

\* What the handlers keep of a row: one that was tried has an attempt to its
\* name, and a dead one used them up and has no token.
Sound(r) ==
    /\ r.status # "queued" => r.attempts >= 1
    /\ r.status = "dead" => Exhausted(r) /\ r.token = FALSE

\* What a row may become: attempts are never taken back, nor is a token restored.
Follows(new, old) == new.attempts >= old.attempts /\ (old.token = FALSE => new.token = FALSE)

\* Every row is sound.
RowsSound == \A m \in Mail : Exists(m) => Sound(row[m])

\* Rows are inserted in the order of their ids.
RowsIssued == \A m \in Mail : m >= next => row[m] = NoRow /\ done[m] = 0

\* A drainer in flight has a row that was inserted and tried; one that is not
\* has nothing, and does not hang.
Holding ==
    \A d \in Drainer :
        /\ pc[d] \in InFlight <=> cur[d] # NoMail
        /\ cur[d] # NoMail => cur[d] < next /\ (Exists(cur[d]) => row[cur[d]].attempts >= 1)
        /\ pc[d] \notin InFlight => held[d] = 0 /\ d \notin slow
        /\ pc[d] = "accepted" => done[cur[d]] > 0

\* The claim that a healthy drainer works under is no older than its work.
ClaimsAreYoung ==
    \A d \in Drainer :
        pc[d] \in InFlight /\ d \notin slow /\ Has(cur[d], "sending")
            => row[cur[d]].claimed = Null \/ row[cur[d]].claimed <= held[d]

\* What a drainer read of its row, the row has gone on from.
SeenIsOld ==
    \A d \in Drainer : pc[d] = "failing" =>
        /\ seen[d] \in Row /\ Sound(seen[d]) /\ seen[d].attempts >= 1
        /\ Exists(cur[d]) => Follows(row[cur[d]], seen[d])

\* The drainers that may still let row m's work take effect, or requeue it.
Busy(m) == {d \in Drainer : cur[d] = m /\ pc[d] \in InFlight \ {"accepted"}}

\* Row m may be claimed, or taken back from a claim nobody healthy works under.
Open(m) ==
    \/ Has(m, "queued")
    \/ Has(m, "sending") /\ \A d \in Drainer : cur[d] = m => d \in slow

\* Every delivery, every drainer that may deliver and every chance of another
\* claim beyond the first is paid for by a disturbance.
Paid ==
    \A m \in Mail :
        done[m] + Cardinality(Busy(m)) + (IF Open(m) THEN 1 ELSE 0) <= 1 + faults

\* There is a row left for every reset that is about to be enqueued.
RoomLeft == next + Cardinality(Minters) <= MaxMails + 1

\* Until something breaks nobody hangs, and claims are exclusive.
Undisturbed == faults = 0 => slow = {}

\* The inductive invariant.
IInv ==
    /\ TypeOK /\ RowsSound /\ RowsIssued /\ Holding /\ ClaimsAreYoung /\ SeenIsOld
    /\ Paid /\ RoomLeft /\ Undisturbed /\ ClaimIsExclusive

-----------------------------------------------------------------------------

\* A power of two counts the subsets of an interval.
LEMMA PowersOfTwo ==
  ASSUME NEW n \in Nat
  PROVE  2^n \in Nat
<1>1. IsFiniteSet(1..n) /\ Cardinality(1..n) = n
  BY FS_Interval
<1>2. IsFiniteSet(SUBSET (1..n)) /\ Cardinality(SUBSET (1..n)) = 2^Cardinality(1..n)
  BY <1>1, FS_SUBSET
<1> QED
  BY <1>1, <1>2, FS_CardinalityType

\* The wait after an attempt is a number of seconds.
LEMMA BackoffIsNat ==
  ASSUME NEW a \in Nat, a >= 1
  PROVE  Backoff(a) \in Nat
<1> DEFINE p == 2^(a - 1)
<1>1. p \in Nat
  <2>1. a - 1 \in Nat
    OBVIOUS
  <2> HIDE DEF p
  <2> QED
    BY <2>1, PowersOfTwo DEF p
<1>2. Backoff(a) = IF Base * p < Cap THEN Base * p ELSE Cap
  BY DEF Backoff
<1> HIDE DEF p
<1>3. Base * p \in Nat
  BY <1>1, OutboxAssumption
<1> QED
  BY <1>2, <1>3, OutboxAssumption

\* An inserted row is sound and queued.
LEMMA NewRowIs ==
  ASSUME NEW k \in Kind
  PROVE  /\ NewRow(k) \in Row /\ NewRow(k) # NoRow /\ Sound(NewRow(k))
         /\ NewRow(k).status = "queued"
<1>1. HasToken(k) \in BOOLEAN
  BY DEF HasToken
<1>2. NewRow(k) \in Row /\ NewRow(k).status = "queued"
  BY <1>1 DEF NewRow, Row, Status
<1> QED
  BY <1>2, OutboxNullAssumption DEF Sound

\* A row that goes on from what a row became goes on from that row.
LEMMA FollowsOn ==
  ASSUME NEW r \in Row, NEW s \in Row, NEW t \in Row, Follows(t, s), Follows(s, r)
  PROVE  Follows(t, r)
<1>1. r.attempts \in Nat /\ s.attempts \in Nat /\ t.attempts \in Nat
  BY DEF Row
<1>2. t.attempts >= r.attempts
  BY <1>1 DEF Follows
<1> QED
  BY <1>2 DEF Follows

\* What the row operations do to a sound row.
LEMMA RowOps ==
  ASSUME NEW r \in Row, Sound(r)
  PROVE  /\ r # NoRow
         /\ /\ Claimed(r) \in Row /\ Sound(Claimed(r)) /\ Claimed(r).status = "sending"
            /\ Claimed(r).claimed = 0 /\ Claimed(r).attempts >= 1 /\ Follows(Claimed(r), r)
         /\ r.status = "sending" =>
              /\ Reclaimed(r) \in Row /\ Sound(Reclaimed(r)) /\ Reclaimed(r).status = "queued"
              /\ Follows(Reclaimed(r), r)
         /\ Older(r) \in Row /\ Sound(Older(r)) /\ Older(r).status = r.status
         /\ Follows(Older(r), r) /\ Older(r).token = r.token
         /\ r.claimed # Null => Older(r).claimed \in {r.claimed, r.claimed + 1}
         /\ r.claimed = Null => Older(r).claimed = Null
<1> USE DEF Row
<1>1. r # NoRow /\ 0 \in Age /\ Null \notin Nat /\ Age \subseteq Nat
  BY OutboxNullAssumption, OutboxAssumption DEF Age
<1>2. /\ Claimed(r) \in Row /\ Sound(Claimed(r)) /\ Claimed(r).status = "sending"
      /\ Claimed(r).claimed = 0 /\ Claimed(r).attempts >= 1 /\ Follows(Claimed(r), r)
  <2> DEFINE n == r.attempts + 1
  <2>1. n \in Nat /\ n >= 1 /\ n >= r.attempts
    OBVIOUS
  <2>2. Claimed(r) = [r EXCEPT !.status = "sending", !.attempts = n, !.claimed = 0]
    BY DEF Claimed
  <2> HIDE DEF n
  <2>3. /\ Claimed(r).status = "sending" /\ Claimed(r).claimed = 0
        /\ Claimed(r).attempts = n /\ Claimed(r).token = r.token
    BY <2>2
  <2>4. Claimed(r) \in Row
    BY <1>1, <2>1, <2>2 DEF Status
  <2> QED
    BY <2>1, <2>3, <2>4 DEF Sound, Follows
<1>3. ASSUME r.status = "sending"
      PROVE  /\ Reclaimed(r) \in Row /\ Sound(Reclaimed(r)) /\ Reclaimed(r).status = "queued"
             /\ Follows(Reclaimed(r), r)
  <2>1. /\ Reclaimed(r) \in Row /\ Reclaimed(r).status = "queued"
        /\ Reclaimed(r).attempts = r.attempts /\ Reclaimed(r).token = r.token
    BY DEF Reclaimed, Status
  <2> QED
    BY <2>1 DEF Sound, Follows
<1>4. /\ Older(r) \in Row /\ Sound(Older(r)) /\ Older(r).status = r.status
      /\ Follows(Older(r), r) /\ Older(r).token = r.token
      /\ r.claimed # Null => Older(r).claimed \in {r.claimed, r.claimed + 1}
      /\ r.claimed = Null => Older(r).claimed = Null
  <2> DEFINE w == IF r.wait > 0 THEN r.wait - 1 ELSE 0
             c == IF r.claimed = Null THEN Null
                  ELSE IF r.claimed > Stale THEN r.claimed ELSE r.claimed + 1
  <2>1. Older(r) = [r EXCEPT !.wait = w, !.claimed = c]
    BY DEF Older
  <2>2. w \in Nat
    OBVIOUS
  <2>3. /\ c \in Age \cup {Null} /\ (r.claimed = Null => c = Null)
        /\ r.claimed # Null => c \in {r.claimed, r.claimed + 1}
    BY <1>1, OutboxAssumption DEF Age
  <2> HIDE DEF w, c
  <2>4. /\ Older(r) \in Row /\ Older(r).status = r.status /\ Older(r).attempts = r.attempts
        /\ Older(r).claimed = c /\ Older(r).token = r.token
    BY <2>1, <2>2, <2>3
  <2>5. Sound(Older(r)) /\ Follows(Older(r), r)
    BY <2>4 DEF Sound, Exhausted, Follows
  <2> QED
    BY <2>3, <2>4, <2>5
<1> QED
  BY <1>1, <1>2, <1>3, <1>4

\* What a failure makes of a row that has gone on from what the drainer read: a
\* dead row stays dead, unless the drainer read it alive.
LEMMA OutcomeIs ==
  ASSUME NEW r \in Row, NEW loaded \in Row, Sound(r), Sound(loaded), Follows(r, loaded),
         r.attempts >= 1, loaded.attempts >= 1
  PROVE  /\ Outcome(r, loaded) \in Row /\ Sound(Outcome(r, loaded))
         /\ Outcome(r, loaded).attempts = r.attempts /\ Follows(Outcome(r, loaded), r)
         /\ Outcome(r, loaded).status = "sending" => r.status = "sending"
         /\ Outcome(r, loaded).claimed \in {r.claimed, Null}
         /\ r.status = "dead" => Outcome(r, loaded).status = "dead" \/ loaded.status # "dead"
<1> USE DEF Row
<1>1. r.attempts \in Nat /\ loaded.attempts \in Nat /\ r.attempts >= loaded.attempts
      /\ (loaded.token = FALSE => r.token = FALSE)
  BY DEF Follows
<1>2. CASE Exhausted(loaded)
  <2> DEFINE R == Buried(r, loaded)
  <2>1. /\ R.attempts = r.attempts /\ R.wait = r.wait
        /\ R.status = IF loaded.status = "dead" THEN r.status ELSE "dead"
        /\ R.claimed = IF loaded.claimed = Null THEN r.claimed ELSE Null
    BY DEF Buried, Update
  <2>2. R.token = IF loaded.token = FALSE THEN r.token ELSE FALSE
    BY DEF Buried, Update
  <2>3. R.token = FALSE
    BY <1>1, <2>2
  <2>4. R \in Row
    BY DEF Buried, Update, Status
  <2>5. Exhausted(r)
    BY <1>1, <1>2, OutboxAssumption DEF Exhausted
  <2>6. Exhausted(R) /\ R.attempts >= 1
    BY <2>1, <2>5 DEF Exhausted
  <2>7. Outcome(r, loaded) = R
    BY <1>2 DEF Outcome
  <2> HIDE DEF R
  <2>8. Sound(R)
    BY <2>3, <2>6 DEF Sound
  <2>9. R.attempts >= r.attempts
    BY <1>1, <2>1
  <2>10. Follows(R, r)
    BY <2>3, <2>9 DEF Follows
  <2>11. /\ R.status = "sending" => r.status = "sending"
         /\ R.claimed \in {r.claimed, Null}
         /\ r.status = "dead" => R.status = "dead"
    BY <2>1
  <2> QED
    BY <2>1, <2>4, <2>7, <2>8, <2>10, <2>11
<1>3. CASE ~Exhausted(loaded)
  <2> DEFINE R == Requeued(r, loaded)
  <2>1. Backoff(loaded.attempts) \in Nat
    BY <1>1, BackoffIsNat
  <2>2. /\ R.attempts = r.attempts /\ R.token = r.token
        /\ R.status = IF loaded.status = "queued" THEN r.status ELSE "queued"
        /\ R.claimed = IF loaded.claimed = Null THEN r.claimed ELSE Null
    BY DEF Requeued, Update
  <2>3. R \in Row
    BY <2>1 DEF Requeued, Update, Status
  <2>4. Outcome(r, loaded) = R
    BY <1>3 DEF Outcome
  <2> HIDE DEF R
  <2>5. Sound(R)
    BY <2>2 DEF Sound, Exhausted
  <2>6. R.attempts >= r.attempts
    BY <1>1, <2>2
  <2>7. Follows(R, r)
    BY <2>2, <2>6 DEF Follows
  <2>8. loaded.status # "dead"
    BY <1>3 DEF Sound
  <2> QED
    BY <2>2, <2>3, <2>4, <2>5, <2>7, <2>8
<1> QED
  BY <1>2, <1>3

\* An update of one row leaves the others.
LEMMA Written ==
  ASSUME TypeOK, NEW m \in Mail, NEW R \in Row \cup {NoRow}, row' = [row EXCEPT ![m] = R]
  PROVE  /\ row' \in [Mail -> Row \cup {NoRow}] /\ row'[m] = R
         /\ \A k \in Mail : k # m => row'[k] = row[k]
BY DEF TypeOK

\* Sets of drainers are finite, and are counted by the members they gain and lose.
LEMMA Counting ==
  ASSUME NEW S \in SUBSET Drainer, NEW T \in SUBSET Drainer
  PROVE  /\ Cardinality(S) \in Nat /\ Cardinality(T) \in Nat
         /\ T \subseteq S => Cardinality(T) <= Cardinality(S)
         /\ \A d \in Drainer : T \subseteq S \cup {d} => Cardinality(T) <= Cardinality(S) + 1
         /\ \A d \in S : T \subseteq S \ {d} => Cardinality(T) + 1 <= Cardinality(S)
         /\ \A d \in S : Cardinality(S) >= 1
<1>1. /\ \A U \in SUBSET Drainer : IsFiniteSet(U) /\ Cardinality(U) \in Nat
      /\ \A U, V \in SUBSET Drainer : V \subseteq U => Cardinality(V) <= Cardinality(U)
  BY OutboxAssumption, FS_Subset, FS_CardinalityType
<1>2. ASSUME NEW d \in Drainer, T \subseteq S \cup {d}
      PROVE  Cardinality(T) <= Cardinality(S) + 1
  <2>1. S \cup {d} \in SUBSET Drainer
    OBVIOUS
  <2>2. Cardinality(S \cup {d}) \in {Cardinality(S), Cardinality(S) + 1}
    BY <1>1, FS_AddElement
  <2> QED
    BY <1>1, <1>2, <2>1, <2>2
<1>3. ASSUME NEW d \in S
      PROVE  /\ Cardinality(S) >= 1
             /\ T \subseteq S \ {d} => Cardinality(T) + 1 <= Cardinality(S)
  <2>1. Cardinality(S \ {d}) = Cardinality(S) - 1 /\ S \ {d} \in SUBSET Drainer
    BY <1>1, FS_RemoveElement
  <2> QED
    BY <1>1, <2>1
<1> QED
  BY <1>1, <1>2, <1>3

\* A drainer in flight has a row that was inserted.
LEMMA InFlightHas ==
  ASSUME IInv, NEW d \in Drainer, pc[d] \in InFlight
  PROVE  /\ cur[d] \in Mail /\ cur[d] # NoMail /\ cur[d] < next
         /\ Exists(cur[d]) => row[cur[d]] \in Row
BY DEF IInv, TypeOK, Holding, RowsIssued, Exists

\* The room that is left for reset rows lasts while no drainer starts to mint.
LEMMA MintersShrink ==
  ASSUME IInv, Minters' \subseteq Minters, UNCHANGED next
  PROVE  RoomLeft'
<1>1. Minters \in SUBSET Drainer /\ Minters' \in SUBSET Drainer
  BY DEF Minters
<1>2. Cardinality(Minters') <= Cardinality(Minters)
  BY <1>1, Counting
<1>3. Cardinality(Minters') \in Nat /\ Cardinality(Minters) \in Nat
  BY <1>1, Counting
<1> QED
  BY <1>2, <1>3, OutboxAssumption DEF IInv, TypeOK, RoomLeft

-----------------------------------------------------------------------------

\* A step of drainer d's delivery.  The work may take effect: then the drainer
\* is no longer busy, or a disturbance pays.  Or the row is read for a failure.
Moves(d, place) ==
    /\ pc[d] \in InFlight \ {"accepted"} /\ place \in InFlight
    /\ pc' = [pc EXCEPT ![d] = place]
    /\ \/ place = "accepted" /\ done' = [done EXCEPT ![cur[d]] = @ + 1] /\ faults' = faults
       \/ place # "accepted" /\ done' = done /\ faults' = faults
       \/ place # "accepted" /\ done' = [done EXCEPT ![cur[d]] = @ + 1] /\ faults' = faults + 1
    /\ burn' \in [Drainer -> SUBSET Mail] /\ faults' \in 0..MaxFaults
    /\ IF place = "failing" THEN Exists(cur[d]) /\ seen' = [seen EXCEPT ![d] = row[cur[d]]]
                            ELSE seen' = seen
    /\ UNCHANGED <<row, kind, next, cur, held, slow, tokens, lastMint>>

\* A step within a delivery keeps the invariant.
LEMMA MoveStep ==
  ASSUME IInv, NEW d \in Drainer, NEW place \in Place, Moves(d, place), RoomLeft'
  PROVE  IInv'
<1>1. cur[d] \in Mail /\ cur[d] < next
  BY InFlightHas DEF Moves
<1>2. /\ pc'[d] = place /\ pc[d] \in InFlight
      /\ \A e \in Drainer : pc'[e] \in InFlight <=> pc[e] \in InFlight
      /\ \A e \in Drainer : e # d => pc'[e] = pc[e]
      /\ pc' \in [Drainer -> Place]
  BY DEF Moves, IInv, TypeOK
<1>3. /\ done' \in [Mail -> Nat] /\ \A m \in Mail : done'[m] >= done[m]
      /\ \A m \in Mail : m # cur[d] => done'[m] = done[m]
      /\ faults' >= faults
  BY <1>1, OutboxAssumption DEF Moves, IInv, TypeOK
<1>4. TypeOK'
  <2>1. seen' \in [Drainer -> Row \cup {NoRow}]
    BY <1>1 DEF Moves, IInv, TypeOK
  <2> QED
    BY <1>2, <1>3, <2>1 DEF Moves, IInv, TypeOK
<1>5. RowsSound' /\ RowsIssued'
  <2>1. RowsSound'
    BY DEF Moves, IInv, RowsSound, Exists
  <2>2. \A m \in Mail : m >= next => m # cur[d]
    BY <1>1 DEF IInv, TypeOK, Mail
  <2>3. RowsIssued'
    BY <1>3, <2>2 DEF Moves, IInv, RowsIssued
  <2> QED
    BY <2>1, <2>3
<1>6. Holding'
  <2> SUFFICES ASSUME NEW e \in Drainer
               PROVE  (/\ pc[e] \in InFlight <=> cur[e] # NoMail
                       /\ cur[e] # NoMail =>
                            cur[e] < next /\ (Exists(cur[e]) => row[cur[e]].attempts >= 1)
                       /\ pc[e] \notin InFlight => held[e] = 0 /\ e \notin slow
                       /\ pc[e] = "accepted" => done[cur[e]] > 0)'
    BY DEF Holding
  <2>1. (/\ pc[e] \in InFlight <=> cur[e] # NoMail
         /\ cur[e] # NoMail =>
              cur[e] < next /\ (Exists(cur[e]) => row[cur[e]].attempts >= 1)
         /\ pc[e] \notin InFlight => held[e] = 0 /\ e \notin slow)'
    BY <1>2 DEF Moves, IInv, Holding, Exists
  <2>2. pc'[e] = "accepted" => done'[cur[e]] > 0
    <3>1. CASE e = d
      BY <1>1, <1>2, <3>1 DEF Moves, IInv, TypeOK
    <3>2. CASE e # d
      <4>1. pc[e] = "accepted" => cur[e] \in Mail /\ done[cur[e]] > 0
        BY InFlightHas DEF IInv, Holding, InFlight, Place
      <4> QED
        BY <1>2, <1>3, <3>2, <4>1 DEF IInv, TypeOK
    <3> QED
      BY <3>1, <3>2
  <2> QED
    BY <2>1, <2>2 DEF Moves
<1>7. ClaimsAreYoung' /\ Undisturbed' /\ ClaimIsExclusive'
  BY <1>2, <1>3, OutboxAssumption
     DEF Moves, IInv, TypeOK, ClaimsAreYoung, Undisturbed, ClaimIsExclusive, Has, Exists
<1>8. Paid'
  <2> SUFFICES ASSUME NEW m \in Mail
               PROVE  (done[m] + Cardinality(Busy(m)) + (IF Open(m) THEN 1 ELSE 0) <= 1 + faults)'
    BY DEF Paid
  <2>1. Busy(m) \in SUBSET Drainer /\ Busy(m)' \in SUBSET Drainer
    BY DEF Busy
  <2>2. Open(m)' <=> Open(m)
    BY DEF Moves, Open, Has, Exists
  <2>3. /\ Cardinality(Busy(m)) \in Nat /\ Cardinality(Busy(m)') \in Nat
        /\ done[m] \in Nat /\ done'[m] \in Nat /\ faults \in Nat /\ faults' \in Nat
    BY <1>3, <2>1, Counting DEF IInv, TypeOK, Moves
  <2>4. done[m] + Cardinality(Busy(m)) + (IF Open(m) THEN 1 ELSE 0) <= 1 + faults
    BY DEF IInv, Paid
  <2>5. Busy(m)' \subseteq Busy(m)
    BY <1>2 DEF Busy, Moves
  <2>6. Cardinality(Busy(m)') <= Cardinality(Busy(m))
    BY <2>1, <2>5, Counting
  <2>7. CASE place = "accepted" /\ m = cur[d]
    <3>1. d \in Busy(m) /\ Busy(m)' \subseteq Busy(m) \ {d}
      BY <1>2, <2>5, <2>7 DEF Busy, Moves
    <3>2. Cardinality(Busy(m)') + 1 <= Cardinality(Busy(m))
      BY <2>1, <3>1, Counting
    <3>3. done'[m] = done[m] + 1 /\ faults' = faults
      BY <2>7 DEF Moves, IInv, TypeOK
    <3> QED
      BY <2>2, <2>3, <2>4, <3>2, <3>3
  <2>8. CASE ~(place = "accepted" /\ m = cur[d])
    <3>1. done'[m] - done[m] <= faults' - faults
      BY <1>3, <2>3, <2>8 DEF Moves, IInv, TypeOK
    <3> QED
      BY <2>2, <2>3, <2>4, <2>6, <3>1
  <2> QED
    BY <2>7, <2>8
<1>9. SeenIsOld'
  <2> SUFFICES ASSUME NEW e \in Drainer, pc'[e] = "failing"
               PROVE  /\ seen'[e] \in Row /\ Sound(seen'[e]) /\ seen'[e].attempts >= 1
                      /\ row[cur[e]] # NoRow => Follows(row[cur[e]], seen'[e])
    BY DEF SeenIsOld, Moves, Exists
  <2>1. CASE e = d
    <3>1. row[cur[d]] # NoRow /\ seen'[d] = row[cur[d]]
      BY <1>2, <2>1 DEF Moves, IInv, TypeOK, Exists
    <3>2. row[cur[d]] \in Row /\ Sound(row[cur[d]]) /\ row[cur[d]].attempts >= 1
      BY <1>1, <3>1, OutboxNullAssumption DEF IInv, TypeOK, RowsSound, Holding, Exists
    <3>3. row[cur[d]].attempts >= row[cur[d]].attempts
      BY <3>2 DEF Row
    <3> QED
      BY <2>1, <3>1, <3>2, <3>3 DEF Follows
  <2>2. CASE e # d
    BY <1>2, <2>2 DEF Moves, IInv, TypeOK, SeenIsOld, Exists
  <2> QED
    BY <2>1, <2>2
<1> QED
  BY <1>4, <1>5, <1>6, <1>7, <1>8, <1>9 DEF IInv

\* Resend accepts the message, whether or not its answer arrives.
LEMMA DeliverStep ==
  ASSUME IInv, NEW d \in Drainer, Deliver(d) \/ ReplyLost(d)
  PROVE  IInv'
<1> DEFINE place == IF Deliver(d) THEN "accepted" ELSE "failed"
<1>1. place \in Place /\ Moves(d, place)
  BY OutboxAssumption
     DEF Deliver, ReplyLost, Disturb, Moves, resets, InFlight, Place, IInv, TypeOK
<1>2. RoomLeft'
  <2>1. Minters' \subseteq Minters /\ UNCHANGED next
    BY DEF Deliver, ReplyLost, Minters, IInv, TypeOK
  <2> QED
    BY <2>1, MintersShrink
<1> QED
  BY <1>1, <1>2, MoveStep

\* The steps of a resolve row, but for the one that needs room.
LEMMA ResolveStep ==
  ASSUME IInv, NEW d \in Drainer, ResolveNothing(d) \/ Invalidate(d) \/ HandleFails(d)
  PROVE  IInv'
<1> DEFINE place == IF Invalidate(d) THEN "minted"
                    ELSE IF ResolveNothing(d) THEN "nothing" ELSE "failed"
<1>1. burn' \in [Drainer -> SUBSET Mail]
  BY DEF ResolveNothing, Invalidate, HandleFails, resets, IInv, TypeOK
<1>2. place \in Place /\ Moves(d, place)
  BY <1>1
     DEF ResolveNothing, Invalidate, HandleFails, Moves, resets, InFlight, Place, IInv, TypeOK
<1>3. RoomLeft'
  <2>1. Minters' \subseteq Minters /\ UNCHANGED next
    BY DEF ResolveNothing, Invalidate, HandleFails, Minters, IInv, TypeOK
  <2> QED
    BY <2>1, MintersShrink
<1> QED
  BY <1>2, <1>3, MoveStep

\* A drainer starts to mint only while a row is left for its reset.
LEMMA ResolveMintStep ==
  ASSUME IInv, NEW d \in Drainer, ResolveMint(d)
  PROVE  IInv'
<1>1. "minting" \in Place /\ Moves(d, "minting")
  BY DEF ResolveMint, Moves, resets, InFlight, Place, IInv, TypeOK
<1>2. RoomLeft'
  <2>1. /\ Minters \in SUBSET Drainer /\ Minters' \in SUBSET Drainer
        /\ Minters' \subseteq Minters \cup {d}
    BY DEF ResolveMint, Minters, IInv, TypeOK
  <2>2. Cardinality(Minters') <= Cardinality(Minters) + 1
    BY <2>1, Counting
  <2>3. Cardinality(Minters') \in Nat /\ Cardinality(Minters) \in Nat
    BY <2>1, Counting
  <2> QED
    BY <2>2, <2>3, OutboxAssumption DEF ResolveMint, Room, RoomLeft, IInv, TypeOK
<1> QED
  BY <1>1, <1>2, MoveStep

-----------------------------------------------------------------------------

\* A reset row is inserted.
Gains == /\ next \in Mail /\ next' = next + 1
         /\ row'[next] \in Row /\ row'[next].status = "queued"

\* What a failure may make of a row.
Settled(new, old) ==
    /\ old # NoRow /\ new \in Row /\ Follows(new, old) /\ new.attempts = old.attempts
    /\ new.status = "sending" => old.status = "sending"
    /\ new.claimed \in {old.claimed, Null}

\* Drainer d lets go of its row, if it has one.  Either something broke and the
\* row stays as it is, or its work was done and it goes, or is done with this
\* step, or the drainer failed and settles the row, which goes on from what it
\* was and is not sent anew.  A reset row may follow.
Leaves(d, place) ==
    /\ place \in {"idle", "gone"} /\ pc' = [pc EXCEPT ![d] = place]
    /\ cur' = [cur EXCEPT ![d] = NoMail] /\ held' = [held EXCEPT ![d] = 0]
    /\ slow' = slow \ {d} /\ burn' \in [Drainer -> SUBSET Mail]
    /\ seen' = [seen EXCEPT ![d] = NoRow]
    /\ tokens' \subseteq Mail /\ lastMint' \in 0..Cooldown \cup {Null}
    /\ kind' \in [Mail -> Kind \cup {Null}]
    /\ row' \in [Mail -> Row \cup {NoRow}] /\ \A m \in Mail : row'[m] # NoRow => Sound(row'[m])
    /\ next' = next \/ Gains
    /\ \A m \in Mail : m # cur[d] /\ (m # next \/ next' = next) => row'[m] = row[m]
    /\ cur[d] \in Mail => \/ row'[cur[d]] \in {NoRow, row[cur[d]]}
                          \/ Settled(row'[cur[d]], row[cur[d]])
    /\ faults' \in 0..MaxFaults
    /\ \/ faults' = faults + 1 /\ row' = row /\ done' = done
       \/ /\ faults' = faults /\ cur[d] \in Mail
          /\ \/ row'[cur[d]] = NoRow /\ done' = done
             \/ /\ pc[d] \in InFlight \ {"accepted"}
                /\ \/ row'[cur[d]] = NoRow /\ done' = [done EXCEPT ![cur[d]] = @ + 1]
                   \/ done' = done

\* Letting go of a row keeps the invariant.
LEMMA LeaveStep ==
  ASSUME IInv, NEW d \in Drainer, NEW place \in Place, Leaves(d, place), RoomLeft'
  PROVE  IInv'
<1>1. /\ cur[d] \in Mail => cur[d] < next
      /\ next \in Nat /\ next' \in 1..(MaxMails + 1) /\ next' >= next
      /\ next' # next => next \in Mail
  BY OutboxNullAssumption, OutboxAssumption DEF Leaves, Gains, IInv, TypeOK, Holding, Mail
<1>2. /\ pc'[d] = place /\ place \notin InFlight /\ cur'[d] = NoMail /\ held'[d] = 0
      /\ \A e \in Drainer : e # d => pc'[e] = pc[e] /\ cur'[e] = cur[e] /\ held'[e] = held[e]
      /\ \A e \in Drainer : e \in slow' <=> e \in slow /\ e # d
      /\ pc' \in [Drainer -> Place] /\ cur' \in [Drainer -> Mail \cup {NoMail}]
      /\ held' \in [Drainer -> 0..HandleBy] /\ slow' \subseteq Drainer
      /\ seen' \in [Drainer -> Row \cup {NoRow}]
      /\ \A e \in Drainer : e # d => seen'[e] = seen[e]
  BY OutboxAssumption DEF Leaves, IInv, TypeOK, InFlight
<1>3. /\ done' \in [Mail -> Nat] /\ \A m \in Mail : done'[m] >= done[m]
      /\ \A m \in Mail : m # cur[d] => done'[m] = done[m]
      /\ faults' >= faults /\ faults \in Nat /\ faults' \in Nat
  BY OutboxAssumption DEF Leaves, IInv, TypeOK
<1>4. \A e \in Drainer : e # d /\ pc[e] \in InFlight =>
         /\ cur[e] \in Mail /\ cur[e] < next
         /\ \/ row'[cur[e]] = row[cur[e]]
            \/ cur[e] = cur[d] /\ row'[cur[e]] = NoRow
            \/ cur[e] = cur[d] /\ Settled(row'[cur[e]], row[cur[e]])
  BY <1>1, InFlightHas DEF Leaves
<1>5. TypeOK'
  BY <1>1, <1>2, <1>3 DEF Leaves, TypeOK
<1>6. RowsSound'
  BY DEF Leaves, RowsSound, Exists
<1>7. RowsIssued'
  <2>1. ASSUME NEW m \in Mail, m >= next'
        PROVE  row'[m] = NoRow /\ done'[m] = 0
    <3>1. m >= next /\ m # cur[d] /\ (m # next \/ next' = next)
      BY <1>1, <2>1 DEF Leaves, Gains, Mail
    <3> QED
      BY <1>3, <3>1 DEF Leaves, Gains, IInv, RowsIssued
  <2> QED
    BY <2>1 DEF RowsIssued
<1>8. Holding'
  <2> SUFFICES ASSUME NEW e \in Drainer
               PROVE  (/\ pc[e] \in InFlight <=> cur[e] # NoMail
                       /\ cur[e] # NoMail =>
                            cur[e] < next /\ (Exists(cur[e]) => row[cur[e]].attempts >= 1)
                       /\ pc[e] \notin InFlight => held[e] = 0 /\ e \notin slow
                       /\ pc[e] = "accepted" => done[cur[e]] > 0)'
    BY DEF Holding
  <2>1. CASE e = d
    BY <1>2, <2>1 DEF InFlight
  <2>2. CASE e # d /\ pc[e] \in InFlight
    <3>1. done'[cur[e]] >= done[cur[e]] /\ done[cur[e]] \in Nat /\ done'[cur[e]] \in Nat
      BY <1>3, <1>4, <2>2 DEF IInv, TypeOK
    <3>2. /\ pc'[e] = pc[e] /\ cur'[e] = cur[e] /\ cur[e] # NoMail /\ cur[e] \in Mail
          /\ pc[e] = "accepted" => done[cur[e]] > 0
          /\ cur[e] < next /\ (row[cur[e]] # NoRow => row[cur[e]].attempts >= 1)
      BY <1>2, <2>2, InFlightHas DEF IInv, Holding, Exists
    <3>3. cur[e] < next'
      BY <1>1, <2>2, <3>2 DEF Mail
    <3>4. row'[cur[e]] # NoRow => row'[cur[e]].attempts >= 1
      BY <1>4, <2>2, <3>2 DEF Settled
    <3> QED
      BY <2>2, <3>1, <3>2, <3>3, <3>4 DEF Exists
  <2>3. CASE e # d /\ pc[e] \notin InFlight
    BY <1>2, <2>3 DEF IInv, Holding, InFlight, Place
  <2> QED
    BY <2>1, <2>2, <2>3
<1>9. ClaimsAreYoung'
  <2> SUFFICES ASSUME NEW e \in Drainer, pc'[e] \in InFlight, e \notin slow', Has(cur[e],
                      "sending")'
               PROVE  row'[cur'[e]].claimed = Null \/ row'[cur'[e]].claimed <= held'[e]
    BY DEF ClaimsAreYoung
  <2>1. e # d /\ pc[e] \in InFlight /\ e \notin slow /\ cur'[e] = cur[e] /\ held'[e] = held[e]
    BY <1>2
  <2>2. /\ row[cur[e]] # NoRow /\ row[cur[e]].status = "sending"
        /\ row'[cur[e]].claimed \in {row[cur[e]].claimed, Null}
    BY <1>4, <2>1 DEF Has, Exists, Settled
  <2> QED
    BY <2>1, <2>2 DEF IInv, ClaimsAreYoung, Has, Exists
<1>10. Undisturbed' /\ ClaimIsExclusive'
  <2> SUFFICES ASSUME faults' = 0
               PROVE  slow' = {} /\ ClaimIsExclusive'
    BY DEF Undisturbed, ClaimIsExclusive
  <2>1. faults = 0
    BY <1>3
  <2>2. ASSUME NEW e \in Drainer, pc'[e] \in InFlight
        PROVE  /\ Has(cur[e], "sending")'
               /\ \A f \in Drainer \ {e} : cur'[f] # cur'[e]
    <3>1. e # d /\ pc[e] \in InFlight /\ cur'[e] = cur[e] /\ cur[e] # cur[d] /\ cur[e] # NoMail
      BY <1>2, <2>1, <2>2, InFlightHas DEF IInv, ClaimIsExclusive
    <3>2. row'[cur[e]] = row[cur[e]]
      BY <1>1, <1>4, <3>1
    <3> QED
      BY <1>2, <2>1, <3>1, <3>2 DEF IInv, ClaimIsExclusive, Has, Exists
  <2> QED
    BY <1>2, <2>1, <2>2 DEF IInv, Undisturbed, ClaimIsExclusive
<1>11. Paid'
  <2> SUFFICES ASSUME NEW m \in Mail
               PROVE  (done[m] + Cardinality(Busy(m)) + (IF Open(m) THEN 1 ELSE 0) <= 1 + faults)'
    BY DEF Paid
  <2>1. Busy(m) \in SUBSET Drainer /\ Busy(m)' \in SUBSET Drainer
    BY DEF Busy
  <2>2. Busy(m)' \subseteq Busy(m) \ {d}
    BY <1>2, OutboxNullAssumption DEF Busy
  <2>3. /\ Cardinality(Busy(m)) \in Nat /\ Cardinality(Busy(m)') \in Nat
        /\ Cardinality(Busy(m)') <= Cardinality(Busy(m))
        /\ d \in Busy(m) => Cardinality(Busy(m)') + 1 <= Cardinality(Busy(m))
    BY <2>1, <2>2, Counting
  <2>4. done[m] \in Nat /\ done'[m] \in Nat
    BY <1>3 DEF IInv, TypeOK
  <2>5. done[m] + Cardinality(Busy(m)) + (IF Open(m) THEN 1 ELSE 0) <= 1 + faults
    BY DEF IInv, Paid
  <2>6. CASE m = next /\ next' # next
    <3>1. row[m] = NoRow /\ done[m] = 0 /\ m # cur[d]
      BY <1>1, <2>6 DEF IInv, RowsIssued, Mail
    <3>2. Busy(m)' = {}
      BY <1>2, <1>4, <2>6, OutboxNullAssumption DEF Busy, Mail
    <3>3. Cardinality(Busy(m)') = 0 /\ done'[m] = 0
      BY <1>3, <3>1, <3>2, FS_EmptySet
    <3> QED
      BY <1>3, <3>3
  <2>7. CASE m # cur[d] /\ ~(m = next /\ next' # next)
    <3>1. row'[m] = row[m]
      BY <2>7 DEF Leaves
    <3>2. done'[m] = done[m]
      BY <1>3, <2>7
    <3>3. Open(m)' => Open(m)
      BY <1>2, <2>7, <3>1 DEF Open, Has, Exists
    <3> QED
      BY <1>3, <2>3, <2>4, <2>5, <3>2, <3>3
  <2>8. CASE m = cur[d] /\ ~(m = next /\ next' # next)
    <3>1. CASE faults' = faults + 1 /\ done' = done
      BY <1>3, <2>3, <2>4, <2>5, <3>1
    <3>2. CASE faults' = faults /\ row'[m] = NoRow /\ done' = done
      <4>1. ~Open(m)'
        BY <3>2 DEF Open, Has, Exists
      <4> QED
        BY <1>3, <2>3, <2>4, <2>5, <3>2, <4>1
    <3>3. CASE /\ faults' = faults /\ pc[d] \in InFlight \ {"accepted"}
               /\ row'[m] = NoRow /\ done' = [done EXCEPT ![m] = @ + 1]
      <4>1. ~Open(m)'
        BY <3>3 DEF Open, Has, Exists
      <4>2. d \in Busy(m)
        BY <2>8, <3>3 DEF Busy
      <4>3. done'[m] = done[m] + 1
        BY <3>3 DEF IInv, TypeOK
      <4> QED
        BY <1>3, <2>3, <2>4, <2>5, <3>3, <4>1, <4>2, <4>3
    <3>4. CASE faults' = faults /\ pc[d] \in InFlight \ {"accepted"} /\ done' = done
      <4>1. d \in Busy(m)
        BY <2>8, <3>4 DEF Busy
      <4> QED
        BY <1>3, <2>3, <2>4, <2>5, <3>4, <4>1
    <3> QED
      BY <2>8, <3>1, <3>2, <3>3, <3>4 DEF Leaves
  <2>9. m = cur[d] => ~(m = next /\ next' # next)
    BY <1>1
  <2> QED
    BY <2>6, <2>7, <2>8, <2>9
<1>12. SeenIsOld'
  <2> SUFFICES ASSUME NEW e \in Drainer, pc'[e] = "failing"
               PROVE  /\ seen'[e] \in Row /\ Sound(seen'[e]) /\ seen'[e].attempts >= 1
                      /\ row'[cur'[e]] # NoRow => Follows(row'[cur'[e]], seen'[e])
    BY DEF SeenIsOld, Exists
  <2>1. /\ e # d /\ pc[e] = "failing" /\ pc[e] \in InFlight
        /\ cur'[e] = cur[e] /\ seen'[e] = seen[e]
    BY <1>2 DEF InFlight, Place
  <2>2. /\ seen[e] \in Row /\ Sound(seen[e]) /\ seen[e].attempts >= 1
        /\ row[cur[e]] # NoRow => Follows(row[cur[e]], seen[e])
    BY <2>1 DEF IInv, SeenIsOld, Exists
  <2>3. ASSUME row'[cur[e]] # NoRow
        PROVE  Follows(row'[cur[e]], seen[e])
    <3>1. CASE row'[cur[e]] = row[cur[e]]
      BY <2>2, <2>3, <3>1
    <3>2. CASE Settled(row'[cur[e]], row[cur[e]])
      <4>1. row[cur[e]] \in Row
        BY <2>1, <3>2, InFlightHas DEF Settled, Exists
      <4> QED
        BY <2>2, <3>2, <4>1, FollowsOn DEF Settled
    <3> QED
      BY <1>4, <2>1, <2>3, <3>1, <3>2
  <2> QED
    BY <2>1, <2>2, <2>3
<1> QED
  BY <1>5, <1>6, <1>7, <1>8, <1>9, <1>10, <1>11, <1>12 DEF IInv

\* The row of an accepted message is deleted.
LEMMA DeliveredStep ==
  ASSUME IInv, NEW d \in Drainer, Delivered(d)
  PROVE  IInv'
<1>1. pc[d] \in InFlight /\ cur[d] \in Mail
  BY InFlightHas DEF Delivered, InFlight, Place
<1>2. /\ row' \in [Mail -> Row \cup {NoRow}] /\ row'[cur[d]] = NoRow
      /\ \A k \in Mail : k # cur[d] => row'[k] = row[k]
  BY <1>1, Written DEF Delivered, IInv
<1>3. "idle" \in Place /\ Leaves(d, "idle")
  BY <1>1, <1>2 DEF Leaves, Delivered, Idle, Place, IInv, TypeOK, RowsSound, Exists
<1>4. Minters' \subseteq Minters /\ UNCHANGED next
  BY DEF Delivered, Idle, Minters, IInv, TypeOK
<1> QED
  BY <1>3, <1>4, MintersShrink, LeaveStep

\* What a failure leaves of the row: a dead row stays dead, unless the drainer
\* read it before it died.
LEMMA FailedRow ==
  ASSUME IInv, NEW d \in Drainer, Fail(d)
  PROVE  /\ pc[d] \in InFlight \ {"accepted"} /\ cur[d] \in Mail
         /\ row' \in [Mail -> Row \cup {NoRow}]
         /\ \A k \in Mail : k # cur[d] => row'[k] = row[k]
         /\ row[cur[d]] = NoRow => row'[cur[d]] = NoRow
         /\ row[cur[d]] # NoRow =>
               /\ Settled(row'[cur[d]], row[cur[d]]) /\ Sound(row'[cur[d]])
               /\ row[cur[d]].status = "dead" =>
                     row'[cur[d]].status = "dead" \/ seen[d].status # "dead"
<1>1. /\ pc[d] \in InFlight \ {"accepted"} /\ cur[d] \in Mail
      /\ Exists(cur[d]) => row[cur[d]] \in Row /\ Sound(row[cur[d]]) /\ row[cur[d]].attempts >= 1
  BY InFlightHas DEF Fail, InFlight, Place, IInv, Holding, RowsSound
<1>2. CASE ~Exists(cur[d])
  BY <1>1, <1>2 DEF Fail, Exists, IInv, TypeOK
<1>3. CASE Exists(cur[d])
  <2> DEFINE r == row[cur[d]]
             R == Outcome(r, seen[d])
  <2>1. /\ r \in Row /\ seen[d] \in Row /\ Sound(r) /\ Sound(seen[d]) /\ Follows(r, seen[d])
        /\ r.attempts >= 1 /\ seen[d].attempts >= 1
    BY <1>1, <1>3 DEF Fail, IInv, SeenIsOld
  <2>2. row' = [row EXCEPT ![cur[d]] = R]
    BY <1>3 DEF Fail
  <2> HIDE DEF r
  <2>3. /\ R \in Row /\ Sound(R) /\ R.attempts = r.attempts /\ Follows(R, r)
        /\ R.status = "sending" => r.status = "sending"
        /\ R.claimed \in {r.claimed, Null}
        /\ r.status = "dead" => R.status = "dead" \/ seen[d].status # "dead"
    BY <2>1, OutcomeIs
  <2> HIDE DEF R
  <2>4. /\ row' \in [Mail -> Row \cup {NoRow}] /\ row'[cur[d]] = R
        /\ \A k \in Mail : k # cur[d] => row'[k] = row[k]
    BY <1>1, <2>2, <2>3, Written DEF IInv
  <2>5. r # NoRow /\ r = row[cur[d]]
    BY <1>3 DEF Exists, r
  <2>6. Settled(R, r)
    BY <2>3, <2>5 DEF Settled
  <2> QED
    BY <1>1, <2>3, <2>4, <2>5, <2>6
<1> QED
  BY <1>1, <1>2, <1>3

\* A failed delivery gives its row back.
LEMMA FailStep ==
  ASSUME IInv, NEW d \in Drainer, Fail(d)
  PROVE  IInv'
<1>1. "idle" \in Place /\ Leaves(d, "idle")
  <2>1. \A m \in Mail : row'[m] # NoRow => Sound(row'[m])
    BY FailedRow DEF IInv, RowsSound, Exists
  <2>2. row'[cur[d]] = NoRow \/ Settled(row'[cur[d]], row[cur[d]])
    BY FailedRow
  <2> QED
    BY FailedRow, <2>1, <2>2 DEF Leaves, Fail, Idle, Place, IInv, TypeOK
<1>2. Minters' \subseteq Minters /\ UNCHANGED next
  BY DEF Fail, Idle, Minters, IInv, TypeOK
<1> QED
  BY <1>1, <1>2, MintersShrink, LeaveStep

\* A failure that finds no row has nothing to record; else the row is read.
LEMMA LoadFailedStep ==
  ASSUME IInv, NEW d \in Drainer, LoadFailed(d)
  PROVE  IInv'
<1>1. pc[d] \in InFlight \ {"accepted"} /\ cur[d] \in Mail
  BY InFlightHas DEF LoadFailed, InFlight, Place
<1>2. Minters' \subseteq Minters /\ UNCHANGED next
  BY DEF LoadFailed, Idle, Minters, IInv, TypeOK
<1>3. CASE Exists(cur[d])
  <2>1. "failing" \in Place /\ "failing" \in InFlight
    BY DEF Place, InFlight
  <2>2. Moves(d, "failing")
    BY <1>1, <1>3, <2>1 DEF Moves, LoadFailed, IInv, TypeOK
  <2> QED
    BY <1>2, <2>1, <2>2, MintersShrink, MoveStep
<1>4. CASE ~Exists(cur[d])
  <2>1. row' = row /\ row'[cur[d]] = NoRow /\ done' = done /\ faults' = faults
    BY <1>4 DEF LoadFailed, Exists
  <2>2. "idle" \in Place /\ Leaves(d, "idle")
    BY <1>1, <1>4, <2>1 DEF Leaves, LoadFailed, Idle, Place, IInv, TypeOK, RowsSound, Exists
  <2> QED
    BY <1>2, <2>2, MintersShrink, LeaveStep
<1> QED
  BY <1>3, <1>4

\* A crash or a database error leaves the row as it is, and is a disturbance.
LEMMA BreakStep ==
  ASSUME IInv, NEW d \in Drainer, Crash(d) \/ DbError(d)
  PROVE  IInv'
<1> DEFINE place == IF Crash(d) THEN "gone" ELSE "idle"
<1>1. place \in Place /\ Leaves(d, place)
  <2>1. faults' = faults + 1 /\ faults' \in 0..MaxFaults /\ row' = row /\ done' = done
    BY OutboxAssumption DEF Crash, DbError, Disturb, IInv, TypeOK
  <2>2. /\ pc' = [pc EXCEPT ![d] = place] /\ cur' = [cur EXCEPT ![d] = NoMail]
        /\ held' = [held EXCEPT ![d] = 0] /\ slow' = slow \ {d}
        /\ burn' = [burn EXCEPT ![d] = {}] /\ seen' = [seen EXCEPT ![d] = NoRow]
        /\ UNCHANGED <<kind, next, tokens, lastMint>>
    BY DEF Crash, DbError, Idle
  <2> QED
    BY <2>1, <2>2 DEF Leaves, Place, IInv, TypeOK, RowsSound, Exists
<1>2. Minters' \subseteq Minters /\ UNCHANGED next
  BY DEF Crash, DbError, Idle, Minters, IInv, TypeOK
<1> QED
  BY <1>1, <1>2, MintersShrink, LeaveStep

\* The row of a resolved request is deleted, and the reset's row inserted.
LEMMA ResolvedStep ==
  ASSUME IInv, NEW d \in Drainer, Resolved(d)
  PROVE  IInv'
<1>1. pc[d] \in InFlight \ {"accepted"} /\ cur[d] \in Mail /\ cur[d] < next
  BY InFlightHas DEF Resolved, InFlight, Place
<1>2. /\ pc' = [pc EXCEPT ![d] = "idle"] /\ cur' = [cur EXCEPT ![d] = NoMail]
      /\ held' = [held EXCEPT ![d] = 0] /\ slow' = slow \ {d} /\ burn' = [burn EXCEPT ![d] = {}]
      /\ seen' = [seen EXCEPT ![d] = NoRow]
      /\ done' = [done EXCEPT ![cur[d]] = @ + 1] /\ faults' = faults /\ "idle" \in Place
  BY DEF Resolved, Idle, Place
<1>3. CASE pc[d] = "minted"
  <2>1. /\ Minters \in SUBSET Drainer /\ Minters' \in SUBSET Drainer /\ d \in Minters
        /\ Minters' \subseteq Minters \ {d}
    BY <1>2, <1>3 DEF Minters, IInv, TypeOK
  <2>2. /\ Cardinality(Minters') + 1 <= Cardinality(Minters)
        /\ Cardinality(Minters') \in Nat /\ Cardinality(Minters) \in Nat
    BY <2>1, Counting
  <2>3. next' = next + 1 /\ next \in Mail /\ RoomLeft'
    BY <1>3, <2>2, OutboxAssumption DEF Resolved, IInv, TypeOK, RoomLeft, Mail
  <2> DEFINE R == NewRow("reset")
  <2>4. R \in Row /\ Sound(R) /\ R.status = "queued" /\ R # NoRow
    BY NewRowIs DEF Kind
  <2>5. /\ row' = [row EXCEPT ![cur[d]] = NoRow, ![next] = R]
        /\ kind' = [kind EXCEPT ![next] = "reset"]
    BY <1>3 DEF Resolved
  <2> HIDE DEF R
  <2>6. /\ row' \in [Mail -> Row \cup {NoRow}] /\ row'[next] = R /\ row'[cur[d]] = NoRow
        /\ \A m \in Mail : m # cur[d] /\ m # next => row'[m] = row[m]
    BY <1>1, <2>3, <2>4, <2>5 DEF IInv, TypeOK
  <2>7. kind' \in [Mail -> Kind \cup {Null}]
    BY <2>3, <2>5 DEF Kind, IInv, TypeOK
  <2>8. Gains
    BY <2>3, <2>4, <2>6 DEF Gains
  <2>9. tokens' \subseteq Mail /\ lastMint' \in 0..Cooldown \cup {Null}
    <3>1. tokens' = (tokens \ burn[d]) \cup {next} /\ lastMint' = 0
      BY <1>3 DEF Resolved
    <3>2. tokens \subseteq Mail /\ 0 \in 0..Cooldown
      BY OutboxAssumption DEF IInv, TypeOK
    <3> QED
      BY <2>3, <3>1, <3>2
  <2>10. \A m \in Mail : row'[m] # NoRow => Sound(row'[m])
    BY <2>4, <2>6 DEF IInv, RowsSound, Exists
  <2>11. Leaves(d, "idle")
    <3>1. burn' \in [Drainer -> SUBSET Mail] /\ faults' \in 0..MaxFaults
      BY <1>2 DEF IInv, TypeOK
    <3>2. \A m \in Mail : m # cur[d] /\ (m # next \/ next' = next) => row'[m] = row[m]
      BY <2>3, <2>6
    <3> QED
      BY <1>1, <1>2, <2>6, <2>7, <2>8, <2>9, <2>10, <3>1, <3>2 DEF Leaves
  <2> QED
    BY <1>2, <2>3, <2>11, LeaveStep
<1>4. CASE pc[d] = "nothing"
  <2>1. row' = [row EXCEPT ![cur[d]] = NoRow] /\ UNCHANGED <<kind, next, tokens, lastMint>>
    BY <1>4 DEF Resolved
  <2>2. /\ row' \in [Mail -> Row \cup {NoRow}] /\ row'[cur[d]] = NoRow
        /\ \A k \in Mail : k # cur[d] => row'[k] = row[k]
    BY <1>1, <2>1, Written DEF IInv
  <2>3. Leaves(d, "idle")
    BY <1>1, <1>2, <2>1, <2>2 DEF Leaves, IInv, TypeOK, RowsSound, Exists
  <2>4. Minters' \subseteq Minters
    BY <1>2 DEF Minters, IInv, TypeOK
  <2> QED
    BY <1>2, <2>1, <2>3, <2>4, MintersShrink, LeaveStep
<1> QED
  BY <1>3, <1>4 DEF Resolved

-----------------------------------------------------------------------------

\* Rows change or go, and no drainer moves.
Turns ==
    /\ row' \in [Mail -> Row \cup {NoRow}]
    /\ \A m \in Mail :
        /\ row[m] = NoRow => row'[m] = NoRow
        /\ row'[m] # NoRow => Sound(row'[m]) /\ Follows(row'[m], row[m])
        /\ Open(m)' => Open(m)
    /\ held' \in [Drainer -> 0..HandleBy]
    /\ \A d \in Drainer :
        /\ pc[d] \notin InFlight => held'[d] = held[d]
        /\ pc[d] \in InFlight /\ d \notin slow /\ Has(cur[d], "sending")' =>
              row'[cur[d]].claimed = Null \/ row'[cur[d]].claimed <= held'[d]
        /\ pc[d] \in InFlight /\ faults' = 0 => (Has(cur[d], "sending") => Has(cur[d], "sending")')
    /\ tokens' \subseteq Mail /\ lastMint' \in 0..Cooldown \cup {Null}
    /\ faults' \in 0..MaxFaults /\ faults' >= faults
    /\ UNCHANGED <<kind, next, pc, cur, seen, slow, burn, done>>

\* Such a step keeps the invariant.
LEMMA TurnStep ==
  ASSUME IInv, Turns
  PROVE  IInv'
<1>1. TypeOK'
  BY DEF Turns, IInv, TypeOK
<1>2. RowsSound' /\ RowsIssued'
  <2>1. RowsSound'
    BY DEF Turns, RowsSound, Exists
  <2>2. RowsIssued'
    BY DEF Turns, IInv, RowsIssued
  <2> QED
    BY <2>1, <2>2
<1>3. Holding'
  <2>1. ASSUME NEW d \in Drainer, cur[d] # NoMail, row'[cur[d]] # NoRow
        PROVE  row'[cur[d]].attempts >= 1
    <3>1. cur[d] \in Mail /\ row[cur[d]] # NoRow /\ row[cur[d]].attempts >= 1
      BY <2>1 DEF Turns, IInv, TypeOK, Holding, Exists
    <3>2. /\ row'[cur[d]].attempts >= row[cur[d]].attempts /\ row'[cur[d]] \in Row
          /\ row[cur[d]] \in Row
      BY <2>1, <3>1 DEF Turns, IInv, TypeOK, Follows
    <3> QED
      BY <3>1, <3>2 DEF Row
  <2> QED
    BY <2>1 DEF Turns, IInv, Holding, Exists
<1>4. ClaimsAreYoung'
  BY DEF Turns, ClaimsAreYoung, Has, Exists
<1>5. RoomLeft'
  BY DEF Turns, IInv, RoomLeft, Minters
<1>6. Undisturbed' /\ ClaimIsExclusive'
  <2>1. faults' = 0 => faults = 0
    BY DEF Turns, IInv, TypeOK
  <2> QED
    BY <2>1 DEF Turns, IInv, Undisturbed, ClaimIsExclusive, Has, Exists
<1>7. Paid'
  <2> SUFFICES ASSUME NEW m \in Mail
               PROVE  (done[m] + Cardinality(Busy(m)) + (IF Open(m) THEN 1 ELSE 0) <= 1 + faults)'
    BY DEF Paid
  <2>1. Busy(m) \in SUBSET Drainer /\ Busy(m)' = Busy(m)
    BY DEF Busy, Turns
  <2>2. Cardinality(Busy(m)) \in Nat
    BY <2>1, Counting
  <2>3. done[m] + Cardinality(Busy(m)) + (IF Open(m) THEN 1 ELSE 0) <= 1 + faults
    BY DEF IInv, Paid
  <2>4. /\ done' = done /\ done[m] \in Nat /\ faults' \in Nat /\ faults \in Nat
        /\ faults' >= faults
    BY DEF Turns, IInv, TypeOK
  <2>5. Open(m)' => Open(m)
    BY DEF Turns
  <2> QED
    BY <2>1, <2>2, <2>3, <2>4, <2>5
<1>8. SeenIsOld'
  <2> SUFFICES ASSUME NEW e \in Drainer, pc[e] = "failing"
               PROVE  /\ seen[e] \in Row /\ Sound(seen[e]) /\ seen[e].attempts >= 1
                      /\ row'[cur[e]] # NoRow => Follows(row'[cur[e]], seen[e])
    BY DEF SeenIsOld, Turns, Exists
  <2>1. cur[e] \in Mail
    BY InFlightHas DEF InFlight, Place
  <2>2. /\ seen[e] \in Row /\ Sound(seen[e]) /\ seen[e].attempts >= 1
        /\ row[cur[e]] # NoRow => Follows(row[cur[e]], seen[e])
    BY DEF IInv, SeenIsOld, Exists
  <2>3. ASSUME row'[cur[e]] # NoRow
        PROVE  Follows(row'[cur[e]], seen[e])
    <3>1. /\ row'[cur[e]] \in Row /\ row[cur[e]] \in Row /\ row[cur[e]] # NoRow
          /\ Follows(row'[cur[e]], row[cur[e]])
      BY <2>1, <2>3 DEF Turns, IInv, TypeOK
    <3> QED
      BY <2>2, <3>1, FollowsOn
  <2> QED
    BY <2>2, <2>3
<1> QED
  BY <1>1, <1>2, <1>3, <1>4, <1>5, <1>6, <1>7, <1>8 DEF IInv

\* A row that does not change goes on from itself.
LEMMA FollowsItself ==
  ASSUME IInv
  PROVE  \A m \in Mail : row[m] # NoRow => Sound(row[m]) /\ Follows(row[m], row[m])
<1>1. ASSUME NEW m \in Mail, row[m] # NoRow
      PROVE  Sound(row[m]) /\ row[m].attempts \in Nat
  BY <1>1 DEF IInv, TypeOK, RowsSound, Exists, Row
<1>2. ASSUME NEW m \in Mail, row[m] # NoRow
      PROVE  row[m].attempts >= row[m].attempts
  BY <1>1, <1>2
<1> QED
  BY <1>1, <1>2 DEF Follows

\* A token's death touches no row.
LEMMA TokenDiesStep ==
  ASSUME IInv, NEW t \in Mail, TokenDies(t)
  PROVE  IInv'
<1>1. /\ row' \in [Mail -> Row \cup {NoRow}]
      /\ \A m \in Mail : row'[m] # NoRow => Sound(row'[m]) /\ Follows(row'[m], row[m])
  BY FollowsItself DEF TokenDies, IInv, TypeOK
<1>2. \A d \in Drainer : pc[d] \in InFlight => cur[d] \in Mail
  BY InFlightHas
<1>3. Turns
  BY <1>1, <1>2 DEF Turns, TokenDies, IInv, TypeOK, ClaimsAreYoung, Open, Has, Exists
<1> QED
  BY <1>3, TurnStep

\* A purge takes dead rows.
LEMMA PurgeDeadStep ==
  ASSUME IInv, NEW d \in Drainer, PurgeDead(d)
  PROVE  IInv'
<1>1. PICK old \in SUBSET {m \in Mail : Has(m, "dead")} :
         row' = [m \in Mail |-> IF m \in old THEN NoRow ELSE row[m]]
  BY DEF PurgeDead
<1>2. /\ row' \in [Mail -> Row \cup {NoRow}]
      /\ \A m \in Mail : row'[m] = row[m] \/ (row'[m] = NoRow /\ Has(m, "dead"))
  BY <1>1 DEF IInv, TypeOK
<1>3. UNCHANGED <<kind, next, pc, cur, seen, slow, burn, done, held, tokens, lastMint, faults>>
  BY DEF PurgeDead, resets
<1>4. \A m \in Mail : row[m] # NoRow => Sound(row[m]) /\ Follows(row[m], row[m])
  BY FollowsItself
<1>5. \A e \in Drainer : pc[e] \in InFlight => cur[e] \in Mail
  BY InFlightHas
<1>6. Turns
  BY <1>2, <1>3, <1>4, <1>5 DEF Turns, IInv, TypeOK, ClaimsAreYoung, Open, Has, Exists
<1> QED
  BY <1>6, TurnStep

\* A reclaim takes no row from a healthy drainer.
LEMMA ReclaimStaleStep ==
  ASSUME IInv, NEW d \in Drainer, ReclaimStale(d)
  PROVE  IInv'
<1>1. UNCHANGED <<kind, next, pc, cur, seen, slow, burn, done, held, tokens, lastMint, faults>>
  BY DEF ReclaimStale, resets
<1>2. \A m \in Mail : row[m] # NoRow =>
         row[m] \in Row /\ Sound(row[m]) /\ Follows(row[m], row[m])
  BY FollowsItself DEF IInv, TypeOK
<1>3. ASSUME NEW m \in Mail
      PROVE  /\ row'[m] \in Row \cup {NoRow} /\ (row'[m] = NoRow <=> row[m] = NoRow)
             /\ \/ row'[m] = row[m]
                \/ /\ row[m] # NoRow /\ IsStale(row[m]) /\ Sound(row'[m])
                   /\ row'[m].status = "queued" /\ Follows(row'[m], row[m])
  <2>1. CASE Exists(m) /\ IsStale(row[m])
    <3> DEFINE R == Reclaimed(row[m])
    <3>1. /\ row'[m] = R /\ row[m] \in Row /\ Sound(row[m]) /\ row[m].status = "sending"
          /\ row[m] # NoRow
      BY <1>2, <2>1 DEF ReclaimStale, IsStale, Exists
    <3>2. R \in Row /\ Sound(R) /\ R.status = "queued" /\ Follows(R, row[m])
      BY <3>1, RowOps
    <3> HIDE DEF R
    <3> QED
      BY <2>1, <3>1, <3>2, OutboxNullAssumption
  <2>2. CASE ~(Exists(m) /\ IsStale(row[m]))
    BY <2>2 DEF ReclaimStale, IInv, TypeOK
  <2> QED
    BY <2>1, <2>2
<1>4. row' \in [Mail -> Row \cup {NoRow}]
  BY <1>3 DEF ReclaimStale
<1>5. ASSUME NEW e \in Drainer, pc[e] \in InFlight, e \notin slow
      PROVE  cur[e] \in Mail /\ (row[cur[e]] # NoRow => ~IsStale(row[cur[e]]))
  <2>1. cur[e] \in Mail /\ held[e] \in 0..HandleBy
    BY <1>5, InFlightHas DEF IInv, TypeOK
  <2>2. ASSUME row[cur[e]] # NoRow, IsStale(row[cur[e]])
        PROVE  FALSE
    <3>1. /\ row[cur[e]].claimed <= held[e] /\ row[cur[e]].claimed > Stale
          /\ row[cur[e]].claimed \in Nat
      BY <1>2, <1>5, <2>1, <2>2 DEF IInv, ClaimsAreYoung, IsStale, Has, Exists, Row, Age
    <3> QED
      BY <2>1, <3>1, OutboxAssumption
  <2> QED
    BY <2>1, <2>2
<1>6. ASSUME NEW m \in Mail, Open(m)'
      PROVE  Open(m)
  <2>1. CASE row'[m] = row[m]
    BY <1>1, <1>6, <2>1 DEF Open, Has, Exists
  <2>2. CASE row[m] # NoRow /\ IsStale(row[m])
    <3>1. \A e \in Drainer : cur[e] = m => e \in slow
      BY <1>5, <2>2, OutboxNullAssumption DEF IInv, Holding
    <3> QED
      BY <2>2, <3>1 DEF Open, Has, Exists, IsStale
  <2> QED
    BY <1>3, <2>1, <2>2
<1>7. ASSUME NEW e \in Drainer, pc[e] \in InFlight
      PROVE  /\ e \notin slow => cur[e] \in Mail /\ row'[cur[e]] = row[cur[e]]
             /\ faults' = 0 => e \notin slow
  BY <1>1, <1>3, <1>5, <1>7 DEF IInv, Undisturbed
<1>8. \A m \in Mail : row'[m] # NoRow => Sound(row'[m]) /\ Follows(row'[m], row[m])
  BY <1>2, <1>3
<1>9. Turns
  BY <1>1, <1>3, <1>4, <1>6, <1>7, <1>8 DEF Turns, IInv, TypeOK, ClaimsAreYoung, Has, Exists
<1> QED
  BY <1>9, TurnStep

\* Time passes, for a healthy drainer at most to the end of its delivery.
LEMMA TickStep ==
  ASSUME IInv, Tick
  PROVE  IInv'
<1>1. UNCHANGED <<kind, next, pc, cur, seen, slow, burn, done, tokens, faults>>
  BY DEF Tick
<1>2. ASSUME NEW m \in Mail
      PROVE  /\ row'[m] \in Row \cup {NoRow} /\ (row'[m] = NoRow <=> row[m] = NoRow)
             /\ row[m] # NoRow =>
                  /\ Sound(row'[m]) /\ row'[m].status = row[m].status
                  /\ Follows(row'[m], row[m])
                  /\ row[m].claimed = Null => row'[m].claimed = Null
                  /\ row[m].claimed # Null =>
                        /\ row[m].claimed \in Nat
                        /\ row'[m].claimed \in {row[m].claimed, row[m].claimed + 1}
  <2>1. CASE Exists(m)
    <3> DEFINE R == Older(row[m])
    <3>1. row'[m] = R /\ row[m] \in Row /\ Sound(row[m]) /\ row[m] # NoRow
      BY <2>1 DEF Tick, Exists, IInv, TypeOK, RowsSound
    <3>2. /\ R \in Row /\ Sound(R) /\ R.status = row[m].status /\ Follows(R, row[m])
          /\ row[m].claimed # Null => R.claimed \in {row[m].claimed, row[m].claimed + 1}
          /\ row[m].claimed = Null => R.claimed = Null
      BY <3>1, RowOps
    <3> HIDE DEF R
    <3>3. R # NoRow /\ (row[m].claimed # Null => row[m].claimed \in Nat)
      BY <3>1, <3>2, OutboxNullAssumption DEF Row, Age
    <3> QED
      BY <3>1, <3>2, <3>3
  <2>2. CASE ~Exists(m)
    BY <2>2 DEF Tick, Exists
  <2> QED
    BY <2>1, <2>2
<1>3. row' \in [Mail -> Row \cup {NoRow}]
  BY <1>2 DEF Tick
<1>4. /\ held' \in [Drainer -> 0..HandleBy]
      /\ \A d \in Drainer : pc[d] \notin InFlight => held'[d] = held[d]
      /\ \A d \in Drainer : pc[d] \in InFlight /\ d \notin slow =>
            held[d] \in Nat /\ held'[d] = held[d] + 1
  BY OutboxAssumption DEF Tick, IInv, TypeOK
<1>5. lastMint' \in 0..Cooldown \cup {Null}
  BY OutboxAssumption DEF Tick, IInv, TypeOK
<1>6. ASSUME NEW d \in Drainer, pc[d] \in InFlight
      PROVE  /\ cur[d] \in Mail /\ (Has(cur[d], "sending")' <=> Has(cur[d], "sending"))
             /\ d \notin slow /\ Has(cur[d], "sending")' =>
                   row'[cur[d]].claimed = Null \/ row'[cur[d]].claimed <= held'[d]
  <2>1. cur[d] \in Mail
    BY <1>6, InFlightHas
  <2>2. Has(cur[d], "sending")' <=> Has(cur[d], "sending")
    BY <1>1, <1>2, <2>1 DEF Has, Exists
  <2>3. ASSUME d \notin slow, Has(cur[d], "sending")
        PROVE  row'[cur[d]].claimed = Null \/ row'[cur[d]].claimed <= held'[d]
    <3>1. CASE row[cur[d]].claimed = Null
      BY <1>2, <2>1, <2>3, <3>1 DEF Has, Exists
    <3>2. CASE row[cur[d]].claimed # Null
      <4>1. row[cur[d]].claimed <= held[d]
        BY <1>6, <2>3, <3>2 DEF IInv, ClaimsAreYoung
      <4>2. /\ row[cur[d]].claimed \in Nat
            /\ row'[cur[d]].claimed \in {row[cur[d]].claimed, row[cur[d]].claimed + 1}
        BY <1>2, <2>1, <2>3, <3>2 DEF Has, Exists
      <4> QED
        BY <1>4, <1>6, <2>3, <4>1, <4>2
    <3> QED
      BY <3>1, <3>2
  <2> QED
    BY <2>1, <2>2, <2>3
<1>7. \A m \in Mail : Open(m)' => Open(m)
  BY <1>1, <1>2 DEF Open, Has, Exists
<1>8. \A m \in Mail : row'[m] # NoRow => Sound(row'[m]) /\ Follows(row'[m], row[m])
  BY <1>2
<1>9. faults' \in 0..MaxFaults /\ faults' >= faults /\ tokens' \subseteq Mail
  BY <1>1 DEF IInv, TypeOK
<1> QED
  BY <1>1, <1>2, <1>3, <1>4, <1>5, <1>6, <1>7, <1>8, <1>9, TurnStep DEF Turns

\* What a claim makes of a due row.
LEMMA ClaimedRow ==
  ASSUME IInv, NEW m \in Due, row' = [row EXCEPT ![m] = Claimed(@)]
  PROVE  /\ m \in Mail /\ row[m] # NoRow /\ row[m].status = "queued"
         /\ row' \in [Mail -> Row \cup {NoRow}] /\ \A k \in Mail : k # m => row'[k] = row[k]
         /\ row'[m] # NoRow /\ Sound(row'[m]) /\ row'[m].status = "sending"
         /\ row'[m].claimed = 0 /\ row'[m].attempts >= 1 /\ Follows(row'[m], row[m])
<1> DEFINE R == Claimed(row[m])
<1>1. /\ m \in Mail /\ row[m] \in Row /\ row[m].status = "queued"
      /\ Sound(row[m]) /\ row[m] # NoRow
  BY DEF Due, Has, Exists, IInv, TypeOK, RowsSound
<1>2. /\ R \in Row /\ Sound(R) /\ R.status = "sending" /\ R.claimed = 0
      /\ R.attempts >= 1 /\ Follows(R, row[m])
  BY <1>1, RowOps
<1>3. row' = [row EXCEPT ![m] = R]
  OBVIOUS
<1> HIDE DEF R
<1>4. /\ row' \in [Mail -> Row \cup {NoRow}] /\ row'[m] = R
      /\ \A k \in Mail : k # m => row'[k] = row[k]
  BY <1>1, <1>2, <1>3, Written DEF IInv
<1> QED
  BY <1>1, <1>2, <1>4, OutboxNullAssumption

\* A claim whose answer is lost is a disturbance.
LEMMA ClaimLostStep ==
  ASSUME IInv, NEW d \in Drainer, ClaimLost(d)
  PROVE  IInv'
<1>1. PICK m \in Due : row' = [row EXCEPT ![m] = Claimed(@)]
  BY DEF ClaimLost
<1> DEFINE R == row'[m]
<1>2. /\ m \in Mail /\ row[m] # NoRow /\ row[m].status = "queued"
      /\ row' \in [Mail -> Row \cup {NoRow}] /\ \A k \in Mail : k # m => row'[k] = row[k]
      /\ R # NoRow /\ Sound(R) /\ R.status = "sending" /\ R.claimed = 0
      /\ R.attempts >= 1 /\ Follows(R, row[m])
  BY <1>1, ClaimedRow
<1>3. UNCHANGED <<kind, next, pc, cur, seen, slow, burn, done, held, tokens, lastMint>>
  BY DEF ClaimLost, resets
<1>4. faults' = faults + 1 /\ faults' \in 0..MaxFaults /\ faults' >= faults /\ faults' # 0
  BY OutboxAssumption DEF ClaimLost, Disturb, IInv, TypeOK
<1>5. \A k \in Mail : row[k] # NoRow => Sound(row[k]) /\ Follows(row[k], row[k])
  BY FollowsItself
<1>6. \A k \in Mail :
         /\ row[k] = NoRow => row'[k] = NoRow
         /\ row'[k] # NoRow => Sound(row'[k]) /\ Follows(row'[k], row[k])
         /\ Open(k)' => Open(k)
  <2> SUFFICES ASSUME NEW k \in Mail
               PROVE  /\ row[k] = NoRow => row'[k] = NoRow
                      /\ row'[k] # NoRow => Sound(row'[k]) /\ Follows(row'[k], row[k])
                      /\ Open(k)' => Open(k)
    OBVIOUS
  <2>1. CASE k = m
    BY <1>2, <2>1 DEF Open, Has, Exists
  <2>2. CASE k # m
    BY <1>3, <1>5, <1>2, <2>2 DEF Open, Has, Exists
  <2> QED
    BY <2>1, <2>2
<1>7. ASSUME NEW e \in Drainer, pc[e] \in InFlight, e \notin slow, Has(cur[e], "sending")'
      PROVE  row'[cur[e]].claimed = Null \/ row'[cur[e]].claimed <= held'[e]
  <2>1. cur[e] \in Mail /\ held[e] \in Nat /\ cur' = cur /\ held' = held
    BY <1>3, <1>7, InFlightHas DEF IInv, TypeOK
  <2>2. CASE cur[e] = m
    BY <1>2, <2>1, <2>2
  <2>3. CASE cur[e] # m
    BY <1>7, <1>2, <2>1, <2>3 DEF IInv, ClaimsAreYoung, Has, Exists
  <2> QED
    BY <2>2, <2>3
<1>8. /\ row' \in [Mail -> Row \cup {NoRow}] /\ held' \in [Drainer -> 0..HandleBy]
      /\ tokens' \subseteq Mail /\ lastMint' \in 0..Cooldown \cup {Null}
  BY <1>3, <1>2 DEF IInv, TypeOK
<1> QED
  BY <1>3, <1>4, <1>6, <1>7, <1>8, TurnStep DEF Turns

-----------------------------------------------------------------------------

\* A claim moves the row's chance to the drainer.
LEMMA ClaimStep ==
  ASSUME IInv, NEW d \in Drainer, Claim(d)
  PROVE  IInv'
<1>1. PICK m \in Due : row' = [row EXCEPT ![m] = Claimed(@)] /\ cur' = [cur EXCEPT ![d] = m]
  BY DEF Claim
<1> DEFINE R == row'[m]
<1>2. /\ m \in Mail /\ row[m] # NoRow /\ row[m].status = "queued"
      /\ row' \in [Mail -> Row \cup {NoRow}] /\ \A k \in Mail : k # m => row'[k] = row[k]
      /\ R # NoRow /\ Sound(R) /\ R.status = "sending" /\ R.claimed = 0
      /\ R.attempts >= 1 /\ Follows(R, row[m])
  BY <1>1, ClaimedRow
<1>3. /\ pc[d] = "idle" /\ cur[d] = NoMail /\ d \notin slow /\ held[d] = 0 /\ m # NoMail
      /\ m < next
  BY <1>2, OutboxNullAssumption
     DEF Claim, IInv, TypeOK, Holding, RowsIssued, InFlight, Mail
<1>4. /\ pc'[d] \in {"handle", "failed"} /\ cur'[d] = m /\ pc'[d] \in InFlight
      /\ \A e \in Drainer : e # d => pc'[e] = pc[e] /\ cur'[e] = cur[e]
      /\ pc' \in [Drainer -> Place] /\ cur' \in [Drainer -> Mail \cup {NoMail}]
      /\ UNCHANGED <<kind, next, held, seen, slow, burn, tokens, lastMint, done, faults>>
  BY <1>1, <1>2 DEF Claim, resets, IInv, TypeOK, InFlight, Place
<1>5. \A k \in Mail : row[k] # NoRow => Sound(row[k]) /\ Follows(row[k], row[k])
  BY FollowsItself
<1>6. TypeOK'
  BY <1>2, <1>4 DEF IInv, TypeOK
<1>7. RowsSound' /\ RowsIssued'
  <2>1. RowsSound'
    BY <1>2, <1>5 DEF RowsSound, Exists
  <2>2. RowsIssued'
    BY <1>2, <1>3, <1>4 DEF IInv, TypeOK, RowsIssued, Mail
  <2> QED
    BY <2>1, <2>2
<1>8. Holding'
  <2> SUFFICES ASSUME NEW e \in Drainer
               PROVE  (/\ pc[e] \in InFlight <=> cur[e] # NoMail
                       /\ cur[e] # NoMail =>
                            cur[e] < next /\ (Exists(cur[e]) => row[cur[e]].attempts >= 1)
                       /\ pc[e] \notin InFlight => held[e] = 0 /\ e \notin slow
                       /\ pc[e] = "accepted" => done[cur[e]] > 0)'
    BY DEF Holding
  <2>1. CASE e = d
    BY <1>2, <1>3, <1>4, <2>1 DEF Exists
  <2>2. CASE e # d
    <3>1. /\ pc'[e] = pc[e] /\ cur'[e] = cur[e]
          /\ pc[e] \in InFlight <=> cur[e] # NoMail
          /\ pc[e] \notin InFlight => held[e] = 0 /\ e \notin slow
          /\ pc[e] = "accepted" => done[cur[e]] > 0
          /\ cur[e] # NoMail => /\ cur[e] \in Mail /\ cur[e] < next
                                /\ row[cur[e]] # NoRow => row[cur[e]].attempts >= 1
      BY <1>4, <2>2 DEF IInv, TypeOK, Holding, Exists
    <3>2. cur[e] # NoMail /\ row'[cur[e]] # NoRow => row'[cur[e]].attempts >= 1
      BY <1>2, <3>1
    <3> QED
      BY <1>4, <3>1, <3>2 DEF Exists
  <2> QED
    BY <2>1, <2>2
<1>9. ClaimsAreYoung'
  <2> SUFFICES ASSUME NEW e \in Drainer, pc'[e] \in InFlight, e \notin slow, Has(cur[e],
                      "sending")'
               PROVE  row'[cur'[e]].claimed = Null \/ row'[cur'[e]].claimed <= held[e]
    BY <1>4 DEF ClaimsAreYoung
  <2>1. cur'[e] \in Mail /\ held[e] \in Nat
    BY <1>2, <1>4, InFlightHas DEF IInv, TypeOK
  <2>2. CASE cur'[e] = m
    BY <1>2, <2>1, <2>2
  <2>3. CASE cur'[e] # m
    BY <1>2, <1>4, <2>1, <2>3 DEF IInv, ClaimsAreYoung, Has, Exists
  <2> QED
    BY <2>2, <2>3
<1>10. RoomLeft'
  <2>1. Minters' \subseteq Minters
    BY <1>4 DEF Minters
  <2> QED
    BY <1>4, <2>1, MintersShrink
<1>11. Undisturbed' /\ ClaimIsExclusive'
  <2>1. Undisturbed'
    BY <1>4 DEF IInv, Undisturbed
  <2>2. ASSUME faults = 0, NEW e \in Drainer, pc'[e] \in InFlight
        PROVE  /\ Has(cur[e], "sending")'
               /\ \A f \in Drainer \ {e} : cur'[f] # cur'[e]
    <3>1. \A f \in Drainer : f # d /\ pc[f] \in InFlight => cur[f] # m /\ cur[f] \in Mail
      BY <1>2, <2>2, InFlightHas DEF IInv, ClaimIsExclusive, Has
    <3>2. \A f \in Drainer : f # d => cur'[f] # m
      BY <1>3, <1>4, <3>1 DEF IInv, Holding
    <3>3. CASE e = d
      BY <1>2, <1>4, <3>2, <3>3 DEF Has, Exists
    <3>4. CASE e # d
      BY <1>2, <1>4, <2>2, <3>1, <3>2, <3>4 DEF IInv, ClaimIsExclusive, Has, Exists
    <3> QED
      BY <3>3, <3>4
  <2> QED
    BY <1>4, <2>1, <2>2 DEF ClaimIsExclusive
<1>12. Paid'
  <2> SUFFICES ASSUME NEW k \in Mail
               PROVE  (done[k] + Cardinality(Busy(k)) + (IF Open(k) THEN 1 ELSE 0) <= 1 + faults)'
    BY DEF Paid
  <2>1. Busy(k) \in SUBSET Drainer /\ Busy(k)' \in SUBSET Drainer
    BY DEF Busy
  <2>2. done[k] + Cardinality(Busy(k)) + (IF Open(k) THEN 1 ELSE 0) <= 1 + faults
    BY DEF IInv, Paid
  <2>3. done[k] \in Nat /\ faults \in Nat
    BY DEF IInv, TypeOK
  <2>4. CASE k = m
    <3>1. Busy(k)' \subseteq Busy(k) \cup {d}
      BY <1>4 DEF Busy
    <3>2. Open(k) /\ ~Open(k)'
      BY <1>2, <1>3, <1>4, <2>4 DEF Open, Has, Exists
    <3>3. /\ Cardinality(Busy(k)) \in Nat /\ Cardinality(Busy(k)') \in Nat
          /\ Cardinality(Busy(k)') <= Cardinality(Busy(k)) + 1
      BY <2>1, <3>1, Counting
    <3> QED
      BY <1>4, <2>2, <2>3, <3>2, <3>3
  <2>5. CASE k # m
    <3>1. Busy(k)' \subseteq Busy(k)
      BY <1>4, <2>5 DEF Busy
    <3>2. Open(k)' => Open(k)
      BY <1>2, <1>3, <1>4, <2>5, OutboxNullAssumption DEF Open, Has, Exists
    <3>3. /\ Cardinality(Busy(k)) \in Nat /\ Cardinality(Busy(k)') \in Nat
          /\ Cardinality(Busy(k)') <= Cardinality(Busy(k))
      BY <2>1, <3>1, Counting
    <3> QED
      BY <1>4, <2>2, <2>3, <3>2, <3>3
  <2> QED
    BY <2>4, <2>5
<1>13. SeenIsOld'
  <2> SUFFICES ASSUME NEW e \in Drainer, pc'[e] = "failing"
               PROVE  /\ seen[e] \in Row /\ Sound(seen[e]) /\ seen[e].attempts >= 1
                      /\ row'[cur'[e]] # NoRow => Follows(row'[cur'[e]], seen[e])
    BY <1>4 DEF SeenIsOld, Exists
  <2>1. e # d /\ pc[e] = "failing" /\ cur'[e] = cur[e] /\ cur[e] \in Mail
    BY <1>4, InFlightHas DEF InFlight, Place
  <2>2. /\ seen[e] \in Row /\ Sound(seen[e]) /\ seen[e].attempts >= 1
        /\ row[cur[e]] # NoRow => Follows(row[cur[e]], seen[e])
    BY <2>1 DEF IInv, SeenIsOld, Exists
  <2>3. row'[cur[e]] # NoRow => /\ row'[cur[e]] \in Row /\ row[cur[e]] \in Row
                                /\ row[cur[e]] # NoRow /\ Follows(row'[cur[e]], row[cur[e]])
    BY <1>2, <1>5, <2>1 DEF IInv, TypeOK
  <2> QED
    BY <2>1, <2>2, <2>3, FollowsOn
<1> QED
  BY <1>6, <1>7, <1>8, <1>9, <1>10, <1>11, <1>12, <1>13 DEF IInv

\* A new row has its one chance.
LEMMA EnqueueStep ==
  ASSUME IInv, NEW k \in Kinds, Enqueue(k)
  PROVE  IInv'
<1> DEFINE R == NewRow(k)
<1>1. k \in Kind /\ R \in Row /\ R # NoRow /\ Sound(R) /\ R.status = "queued"
  BY NewRowIs, OutboxAssumption DEF Kind
<1>2. row' = [row EXCEPT ![next] = R]
  BY DEF Enqueue
<1> HIDE DEF R
<1>3. Minters \in SUBSET Drainer /\ Cardinality(Minters) \in Nat
  <2>1. Minters \in SUBSET Drainer
    BY DEF Minters
  <2> QED
    BY <2>1, Counting
<1>4. next \in Mail /\ next' = next + 1 /\ next + Cardinality(Minters) <= MaxMails
  BY <1>3, OutboxAssumption DEF Enqueue, Room, IInv, TypeOK, Mail
<1>5. /\ row' \in [Mail -> Row \cup {NoRow}] /\ row'[next] = R
      /\ \A m \in Mail : m # next => row'[m] = row[m]
  BY <1>1, <1>2, <1>4, Written DEF IInv
<1>6. /\ UNCHANGED <<pc, cur, held, seen, slow, burn, tokens, lastMint, done, faults>>
      /\ kind' \in [Mail -> Kind \cup {Null}]
  BY <1>1, <1>4 DEF Enqueue, resets, IInv, TypeOK
<1>7. \A d \in Drainer :
         cur[d] # next /\ (pc[d] \in InFlight => cur[d] \in Mail /\ row'[cur[d]] = row[cur[d]])
  <2>1. \A d \in Drainer : cur[d] # next
    BY <1>4, OutboxNullAssumption DEF IInv, TypeOK, Holding, Mail
  <2> QED
    BY <1>5, <2>1, InFlightHas
<1>8. TypeOK'
  <2>1. next' \in 1..(MaxMails + 1)
    BY <1>4, OutboxAssumption DEF Mail
  <2> QED
    BY <1>5, <1>6, <2>1 DEF IInv, TypeOK
<1>9. RowsSound' /\ RowsIssued'
  <2>1. RowsSound'
    BY <1>1, <1>5 DEF IInv, RowsSound, Exists
  <2>2. RowsIssued'
    BY <1>4, <1>5, <1>6 DEF IInv, RowsIssued, Mail
  <2> QED
    BY <2>1, <2>2
<1>10. Holding'
  <2>1. \A d \in Drainer : cur[d] # NoMail => cur[d] < next + 1
    BY <1>4 DEF IInv, TypeOK, Holding, Mail
  <2> QED
    BY <1>4, <1>6, <1>7, <2>1 DEF IInv, Holding, Exists
<1>11. ClaimsAreYoung'
  BY <1>6, <1>7 DEF IInv, ClaimsAreYoung, Has, Exists
<1>12. RoomLeft'
  BY <1>3, <1>4, <1>6, OutboxAssumption DEF RoomLeft, Minters, Mail
<1>13. Undisturbed' /\ ClaimIsExclusive'
  BY <1>6, <1>7 DEF IInv, Undisturbed, ClaimIsExclusive, Has, Exists
<1>14. Paid'
  <2> SUFFICES ASSUME NEW m \in Mail
               PROVE  (done[m] + Cardinality(Busy(m)) + (IF Open(m) THEN 1 ELSE 0) <= 1 + faults)'
    BY DEF Paid
  <2>1. Busy(m)' = Busy(m)
    BY <1>6 DEF Busy
  <2>2. faults \in Nat
    BY DEF IInv, TypeOK
  <2>3. CASE m = next
    <3>1. Busy(m) = {} /\ done[m] = 0
      BY <1>4, <1>7, <2>3 DEF Busy, IInv, RowsIssued, Mail
    <3>2. Cardinality(Busy(m)) = 0
      BY <3>1, FS_EmptySet
    <3> QED
      BY <1>6, <2>1, <2>2, <3>1, <3>2
  <2>4. CASE m # next
    <3>1. Open(m)' <=> Open(m)
      BY <1>5, <1>6, <2>4 DEF Open, Has, Exists
    <3> QED
      BY <1>6, <2>1, <3>1 DEF IInv, Paid
  <2> QED
    BY <2>3, <2>4
<1>15. SeenIsOld'
  <2>1. \A d \in Drainer : pc[d] = "failing" => pc[d] \in InFlight
    BY DEF InFlight, Place
  <2> QED
    BY <1>6, <1>7, <2>1 DEF IInv, SeenIsOld, Exists
<1> QED
  BY <1>8, <1>9, <1>10, <1>11, <1>12, <1>13, <1>14, <1>15 DEF IInv

\* A hang is a disturbance, and may open the drainer's row.
LEMMA HangStep ==
  ASSUME IInv, NEW d \in Drainer, Hang(d)
  PROVE  IInv'
<1>1. /\ pc[d] \in InFlight /\ slow' = slow \cup {d}
      /\ faults' = faults + 1 /\ faults' \in 0..MaxFaults /\ faults \in Nat /\ faults' # 0
      /\ UNCHANGED <<row, kind, next, pc, cur, held, seen, burn, tokens, lastMint, done>>
  BY OutboxAssumption DEF Hang, Disturb, resets, IInv, TypeOK
<1>2. TypeOK'
  BY <1>1 DEF IInv, TypeOK
<1>3. RowsSound' /\ RowsIssued' /\ Holding' /\ ClaimsAreYoung' /\ SeenIsOld' /\ RoomLeft'
  BY <1>1 DEF IInv, RowsSound, RowsIssued, Holding, ClaimsAreYoung, SeenIsOld, RoomLeft, Minters,
              Has, Exists
<1>4. Undisturbed' /\ ClaimIsExclusive'
  BY <1>1 DEF Undisturbed, ClaimIsExclusive
<1>5. Paid'
  <2> SUFFICES ASSUME NEW m \in Mail
               PROVE  (done[m] + Cardinality(Busy(m)) + (IF Open(m) THEN 1 ELSE 0) <= 1 + faults)'
    BY DEF Paid
  <2>1. Busy(m) \in SUBSET Drainer /\ Busy(m)' = Busy(m)
    BY <1>1 DEF Busy
  <2>2. Cardinality(Busy(m)) \in Nat /\ done[m] \in Nat /\ done' = done
    BY <1>1, <2>1, Counting DEF IInv, TypeOK
  <2> QED
    BY <1>1, <2>1, <2>2 DEF IInv, Paid
<1> QED
  BY <1>2, <1>3, <1>4, <1>5 DEF IInv

\* A restarted drainer has nothing in hand.
LEMMA RestartStep ==
  ASSUME IInv, NEW d \in Drainer, Restart(d)
  PROVE  IInv'
<1>1. /\ pc[d] = "gone" /\ pc'[d] = "idle" /\ pc' \in [Drainer -> Place]
      /\ \A e \in Drainer : e # d => pc'[e] = pc[e]
      /\ UNCHANGED <<row, kind, next, cur, held, seen, slow, burn, tokens, lastMint, done, faults>>
  BY DEF Restart, resets, IInv, TypeOK, Place
<1>2. \A e \in Drainer : /\ pc'[e] \in InFlight <=> pc[e] \in InFlight
                         /\ pc'[e] \in InFlight => pc'[e] = pc[e]
  BY <1>1 DEF InFlight
<1>3. TypeOK'
  BY <1>1 DEF IInv, TypeOK
<1>4. RowsSound' /\ RowsIssued'
  BY <1>1 DEF IInv, RowsSound, RowsIssued, Exists
<1>5. Holding'
  <2>1. \A e \in Drainer : pc'[e] = "accepted" => pc[e] = "accepted"
    BY <1>1
  <2> QED
    BY <1>1, <1>2, <2>1 DEF IInv, Holding, Exists
<1>6. ClaimsAreYoung' /\ Undisturbed' /\ ClaimIsExclusive'
  BY <1>1, <1>2 DEF IInv, ClaimsAreYoung, Undisturbed, ClaimIsExclusive, Has, Exists
<1>7. RoomLeft'
  <2>1. Minters' \subseteq Minters
    BY <1>1 DEF Minters
  <2> QED
    BY <1>1, <2>1, MintersShrink
<1>8. Paid'
  <2> SUFFICES ASSUME NEW m \in Mail
               PROVE  (done[m] + Cardinality(Busy(m)) + (IF Open(m) THEN 1 ELSE 0) <= 1 + faults)'
    BY DEF Paid
  <2>1. Busy(m)' = Busy(m)
    BY <1>1, <1>2 DEF Busy
  <2>2. Open(m)' <=> Open(m)
    BY <1>1 DEF Open, Has, Exists
  <2> QED
    BY <1>1, <2>1, <2>2 DEF IInv, Paid
<1>9. SeenIsOld'
  <2>1. \A e \in Drainer : pc'[e] = "failing" => pc[e] = "failing"
    BY <1>1
  <2> QED
    BY <1>1, <2>1 DEF IInv, SeenIsOld, Exists
<1> QED
  BY <1>3, <1>4, <1>5, <1>6, <1>7, <1>8, <1>9 DEF IInv

-----------------------------------------------------------------------------

\* The table starts empty.
LEMMA InitIInv == Init => IInv
<1> SUFFICES ASSUME Init PROVE IInv
  OBVIOUS
<1>1. /\ row = [m \in Mail |-> NoRow] /\ next = 1 /\ slow = {} /\ faults = 0
      /\ pc = [d \in Drainer |-> "idle"] /\ cur = [d \in Drainer |-> NoMail]
      /\ held = [d \in Drainer |-> 0] /\ done = [m \in Mail |-> 0]
  BY DEF Init
<1>2. TypeOK
  BY OutboxAssumption DEF Init, TypeOK, Place
<1>3. RowsSound /\ RowsIssued /\ Holding /\ ClaimsAreYoung /\ SeenIsOld
  BY <1>1 DEF RowsSound, RowsIssued, Holding, ClaimsAreYoung, SeenIsOld, InFlight, Exists
<1>4. Undisturbed /\ ClaimIsExclusive
  BY <1>1 DEF Undisturbed, ClaimIsExclusive, InFlight
<1>5. RoomLeft
  <2>1. Minters = {}
    BY <1>1 DEF Minters
  <2> QED
    BY <1>1, <2>1, FS_EmptySet, OutboxAssumption DEF RoomLeft
<1>6. Paid
  <2>1. \A m \in Mail : Busy(m) = {}
    BY <1>1 DEF Busy, InFlight
  <2>2. \A m \in Mail : done[m] = 0 /\ Cardinality(Busy(m)) = 0
    BY <1>1, <2>1, FS_EmptySet
  <2> QED
    BY <1>1, <2>2 DEF Paid
<1> QED
  BY <1>2, <1>3, <1>4, <1>5, <1>6 DEF IInv

\* A step that changes nothing keeps the invariant.
LEMMA Stutter ==
  ASSUME IInv, UNCHANGED vars
  PROVE  IInv'
<1>1. TypeOK'
  BY DEF vars, IInv, TypeOK
<1>2. RowsSound' /\ RowsIssued' /\ Holding' /\ ClaimsAreYoung' /\ SeenIsOld' /\ RoomLeft'
  BY DEF vars, IInv, RowsSound, RowsIssued, Holding, ClaimsAreYoung, SeenIsOld, RoomLeft, Minters,
         Has, Exists
<1>3. Undisturbed' /\ ClaimIsExclusive' /\ Paid'
  BY DEF vars, IInv, Undisturbed, ClaimIsExclusive, Paid, Busy, Open, Has, Exists
<1> QED
  BY <1>1, <1>2, <1>3 DEF IInv

\* The invariant is inductive.
THEOREM Invariance == Spec => []IInv
<1>1. IInv /\ [Next]_vars => IInv'
  <2> SUFFICES ASSUME IInv, [Next]_vars PROVE IInv'
    OBVIOUS
  <2>1. ASSUME NEW k \in Kinds, Enqueue(k) PROVE IInv'
    BY <2>1, EnqueueStep
  <2>2. ASSUME NEW t \in Mail, TokenDies(t) PROVE IInv'
    BY <2>2, TokenDiesStep
  <2>3. ASSUME NEW d \in Drainer, ReclaimStale(d) \/ PurgeDead(d) \/ Claim(d) PROVE IInv'
    BY <2>3, ReclaimStaleStep, PurgeDeadStep, ClaimStep
  <2>4. ASSUME NEW d \in Drainer,
               \/ Deliver(d) \/ ResolveNothing(d) \/ ResolveMint(d) \/ Invalidate(d)
               \/ HandleFails(d) \/ Delivered(d) \/ Resolved(d) \/ LoadFailed(d) \/ Fail(d)
        PROVE  IInv'
    BY <2>4, DeliverStep, ResolveStep, ResolveMintStep, DeliveredStep, ResolvedStep,
       LoadFailedStep, FailStep
  <2>5. ASSUME NEW d \in Drainer,
               Crash(d) \/ Restart(d) \/ Hang(d) \/ ReplyLost(d) \/ DbError(d) \/ ClaimLost(d)
        PROVE  IInv'
    BY <2>5, BreakStep, RestartStep, HangStep, DeliverStep, ClaimLostStep
  <2>6. CASE Tick
    BY <2>6, TickStep
  <2>7. CASE UNCHANGED vars
    BY <2>7, Stutter
  <2> QED
    BY <2>1, <2>2, <2>3, <2>4, <2>5, <2>6, <2>7 DEF Next
<1> QED
  BY <1>1, InitIInv, PTL DEF Spec

\* Types hold in every run of the outbox.
THEOREM TypeCorrect == Spec => []TypeOK
<1>1. IInv => TypeOK
  BY DEF IInv
<1> QED
  BY <1>1, Invariance, PTL

\* Until something breaks a claim is exclusive, and a row's work takes effect at
\* most once more than something broke (drain_one, reclaim_stale).
THEOREM ClaimsSafe == Spec => []ClaimsAreSafe
<1>1. IInv => ClaimsAreSafe
  <2> SUFFICES ASSUME IInv PROVE ClaimsAreSafe
    OBVIOUS
  <2>1. ASSUME NEW m \in Mail PROVE done[m] <= 1 + faults
    <3>1. Busy(m) \in SUBSET Drainer
      BY DEF Busy
    <3>2. Cardinality(Busy(m)) \in Nat /\ done[m] \in Nat /\ faults \in Nat
      BY <3>1, Counting DEF IInv, TypeOK
    <3>3. done[m] + Cardinality(Busy(m)) + (IF Open(m) THEN 1 ELSE 0) <= 1 + faults
      BY DEF IInv, Paid
    <3> QED
      BY <3>2, <3>3
  <2> QED
    BY <2>1 DEF IInv, ClaimsAreSafe, DuplicatesNeedFaults
<1> QED
  BY <1>1, Invariance, PTL

\* A dead row that is still there has no token, and is dead unless a failure was
\* recorded that had been decided while the row was alive.
DeadStays(m) ==
    /\ row'[m].token = FALSE
    /\ row'[m].status = "dead" \/ (faults > 0 /\ \E d \in Drainer : Overtaken(d, m))

\* A row stays, goes when its work took effect or it was dead, or changes, which
\* a dead one does as it may.
Kept ==
    \A m \in Mail : Exists(m) =>
        \/ row'[m] = row[m]
        \/ row'[m] = NoRow /\ (done'[m] > 0 \/ Has(m, "dead"))
        \/ row'[m] # NoRow /\ (Has(m, "dead") => DeadStays(m))

\* Every step keeps rows in this sense.
LEMMA StepKeeps ==
  ASSUME IInv, Next
  PROVE  Kept
<1> USE DEF Exists
<1>1. ASSUME NEW k \in Kinds, Enqueue(k) PROVE Kept
  <2>1. ASSUME NEW m \in Mail, row[m] # NoRow PROVE row'[m] = row[m]
    <3>1. m # next
      BY <2>1 DEF IInv, TypeOK, RowsIssued, Mail
    <3> QED
      BY <1>1, <3>1 DEF Enqueue, IInv, TypeOK
  <2> QED
    BY <2>1 DEF Kept
<1>2. CASE UNCHANGED row
  BY <1>2 DEF Kept
<1>3. ASSUME NEW d \in Drainer, ReclaimStale(d) PROVE Kept
  <2> SUFFICES ASSUME NEW m \in Mail, row[m] # NoRow, row'[m] # row[m]
               PROVE  row'[m] # NoRow /\ ~Has(m, "dead")
    BY DEF Kept
  <2>1. row'[m] = Reclaimed(row[m]) /\ IsStale(row[m]) /\ row[m] \in Row /\ Sound(row[m])
    BY <1>3 DEF ReclaimStale, IInv, TypeOK, RowsSound
  <2>2. Reclaimed(row[m]) \in Row
    BY <2>1, RowOps DEF IsStale
  <2> QED
    BY <2>1, <2>2, OutboxNullAssumption DEF IsStale, Has
<1>4. ASSUME NEW d \in Drainer, PurgeDead(d) PROVE Kept
  BY <1>4 DEF PurgeDead, Kept, Has
<1>5. ASSUME NEW d \in Drainer, Claim(d) \/ ClaimLost(d) PROVE Kept
  <2>1. PICK m \in Due : row' = [row EXCEPT ![m] = Claimed(@)]
    BY <1>5 DEF Claim, ClaimLost
  <2>2. row'[m] # NoRow /\ row[m].status = "queued" /\ \A k \in Mail : k # m => row'[k] = row[k]
    BY <2>1, ClaimedRow
  <2> QED
    BY <2>2 DEF Kept, Has
<1>6. ASSUME NEW d \in Drainer, Delivered(d) PROVE Kept
  <2>1. cur[d] \in Mail /\ done'[cur[d]] > 0
    BY <1>6, InFlightHas DEF Delivered, InFlight, Place, IInv, Holding
  <2>2. row'[cur[d]] = NoRow /\ \A m \in Mail : m # cur[d] => row'[m] = row[m]
    BY <1>6, <2>1 DEF Delivered, IInv, TypeOK
  <2> QED
    BY <2>1, <2>2 DEF Kept
<1>7. ASSUME NEW d \in Drainer, Resolved(d) PROVE Kept
  <2>1. cur[d] \in Mail /\ cur[d] < next
    BY <1>7, InFlightHas DEF Resolved, InFlight, Place
  <2>2. done'[cur[d]] > 0
    BY <1>7, <2>1 DEF Resolved, IInv, TypeOK
  <2>3. \A m \in Mail : m # cur[d] /\ row[m] # NoRow => row'[m] = row[m]
    BY <1>7, <2>1 DEF Resolved, IInv, TypeOK, RowsIssued
  <2>4. row'[cur[d]] = NoRow
    <3>1. cur[d] # next /\ row \in [Mail -> Row \cup {NoRow}]
      BY <2>1, OutboxAssumption DEF IInv, TypeOK, Mail
    <3>2. \/ row' = [row EXCEPT ![cur[d]] = NoRow]
          \/ row' = [row EXCEPT ![cur[d]] = NoRow, ![next] = NewRow("reset")]
      BY <1>7 DEF Resolved
    <3> QED
      BY <2>1, <3>1, <3>2
  <2> QED
    BY <2>1, <2>2, <2>3, <2>4 DEF Kept
<1>8. ASSUME NEW d \in Drainer, Fail(d) PROVE Kept
  <2> SUFFICES ASSUME NEW m \in Mail, row[m] # NoRow, row'[m] # row[m]
               PROVE  row'[m] # NoRow /\ (Has(m, "dead") => DeadStays(m))
    BY DEF Kept
  <2>1. m = cur[d]
    BY <1>8, FailedRow
  <2>2. /\ Settled(row'[m], row[m])
        /\ row[m].status = "dead" => row'[m].status = "dead" \/ seen[d].status # "dead"
    BY <1>8, <2>1, FailedRow
  <2>3. row'[m] # NoRow
    BY <2>2, OutboxNullAssumption DEF Settled
  <2>4. ASSUME Has(m, "dead")
        PROVE  DeadStays(m)
    <3>1. row[m].status = "dead" /\ row[m].token = FALSE
      BY <2>4 DEF Has, IInv, RowsSound, Sound
    <3>2. row'[m].token = FALSE
      BY <2>2, <3>1 DEF Settled, Follows
    <3>3. faults # 0
      <4>1. pc[d] \in InFlight
        BY <1>8, FailedRow
      <4> QED
        BY <2>1, <3>1, <4>1 DEF IInv, ClaimIsExclusive, Has
    <3>4. faults > 0
      BY <3>3 DEF IInv, TypeOK
    <3>5. pc[d] = "failing" /\ pc'[d] = "idle"
      BY <1>8 DEF Fail, Idle, IInv, TypeOK
    <3> QED
      BY <2>1, <2>2, <3>1, <3>2, <3>4, <3>5 DEF DeadStays, Overtaken
  <2> QED
    BY <2>3, <2>4
<1>9. CASE Tick
  <2> SUFFICES ASSUME NEW m \in Mail, row[m] # NoRow
               PROVE  row'[m] # NoRow /\ (Has(m, "dead") => DeadStays(m))
    BY DEF Kept
  <2>1. row'[m] = Older(row[m]) /\ row[m] \in Row /\ Sound(row[m])
    BY <1>9 DEF Tick, IInv, TypeOK, RowsSound
  <2>2. /\ Older(row[m]) \in Row /\ Older(row[m]).status = row[m].status
        /\ Older(row[m]).token = row[m].token
    BY <2>1, RowOps
  <2> QED
    BY <2>1, <2>2, OutboxNullAssumption DEF Has, Sound, DeadStays
<1>10. ASSUME NEW d \in Drainer,
              \/ Deliver(d) \/ ResolveNothing(d) \/ ResolveMint(d) \/ Invalidate(d)
              \/ HandleFails(d) \/ LoadFailed(d)
              \/ Crash(d) \/ Restart(d) \/ Hang(d) \/ ReplyLost(d) \/ DbError(d)
       PROVE  UNCHANGED row
  BY <1>10 DEF Deliver, ResolveNothing, ResolveMint, Invalidate, HandleFails, LoadFailed,
               Crash, Restart, Hang, ReplyLost, DbError
<1>11. ASSUME NEW t \in Mail, TokenDies(t) PROVE UNCHANGED row
  BY <1>11 DEF TokenDies
<1> QED
  BY <1>1, <1>2, <1>3, <1>4, <1>5, <1>6, <1>7, <1>8, <1>9, <1>10, <1>11 DEF Next

\* A row goes only when its work took effect or it was dead; a dead row never gets
\* its secret back, and is revived only by a failure that another drainer had
\* decided before it died, which takes a disturbance (drain_one, _fail, purge_dead).
THEOREM NothingLost == Spec => NothingLostOrRevived
<1> DEFINE Drops == \A m \in Mail : Exists(m) /\ ~Exists(m)' => done'[m] > 0 \/ Has(m, "dead")
           Final == \A m \in Mail : Has(m, "dead") /\ Exists(m)' =>
                       /\ ~row'[m].token
                       /\ Has(m, "dead")' \/ (faults > 0 /\ \E d \in Drainer : Overtaken(d, m))
<1>1. IInv /\ [Next]_vars => [Drops]_vars
  BY StepKeeps DEF Kept, Exists
<1>2. IInv /\ [Next]_vars => [Final]_vars
  <2> SUFFICES ASSUME IInv, Next PROVE Final
    OBVIOUS
  <2>1. ASSUME NEW m \in Mail, Has(m, "dead"), Exists(m)'
        PROVE  /\ row'[m].token = FALSE
               /\ Has(m, "dead")' \/ (faults > 0 /\ \E d \in Drainer : Overtaken(d, m))
    <3>1. row[m] # NoRow /\ row[m].status = "dead" /\ row[m].token = FALSE /\ row'[m] # NoRow
      BY <2>1 DEF Has, Exists, IInv, RowsSound, Sound
    <3>2. row'[m] = row[m] \/ DeadStays(m)
      BY <2>1, <3>1, StepKeeps DEF Kept, Exists
    <3> QED
      BY <3>1, <3>2 DEF DeadStays, Has, Exists
  <2> QED
    BY <2>1
<1>3. Spec => [][Drops]_vars
  BY <1>1, Invariance, PTL DEF Spec
<1>4. Spec => [][Final]_vars
  BY <1>2, Invariance, PTL DEF Spec
<1> QED
  BY <1>3, <1>4 DEF NothingLostOrRevived, NeverDropped, DeadIsFinal

=============================================================================

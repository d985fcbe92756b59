---------------------------- MODULE SessionsProofs ----------------------------
(***************************************************************************)
(* Proofs about Sessions, for any number of handlers, tokens and passwords *)
(* and any tokens that expire: the inductive invariant IInv and the three  *)
(* safety properties it implies.                                           *)
(*                                                                         *)
(* IInv is Steady and the room left for tokens.  Steady has a lemma per    *)
(* action: first what the action does to the rows, the handler and the     *)
(* flag, then the conjuncts it can disturb.  The last conjuncts say what a *)
(* handler may rely on as long as none has overlapped another.             *)
(***************************************************************************)
EXTENDS Sessions, FiniteSetTheorems, TLAPS

\* The handlers that are about to insert a token, and the room left for them.
Inserting == {r \in Request : pc[r] \in {"login", "refresh"}}
RoomLeft == next + Cardinality(Inserting) <= MaxTokens + 1

\* Tokens are issued in the order of their ids, and sessions and ended sessions
\* come from tokens that were issued.
IdsIssued ==
    /\ \A t \in Token : t >= next => tok[t] = NoRow /\ children[t] = {}
    /\ \A t \in Token : Exists(t) => tok[t].session < next
    /\ \A s \in ended : s < next

\* A handler that goes on with a token has one, and one that holds its lock has
\* its row: a rotation's is not revoked.
HoldsToken ==
    \A r \in Request : pc[r] \in {"refresh", "logoutRead", "logout"} =>
        /\ work[r].token \in Token
        /\ pc[r] # "logoutRead" => Exists(work[r].token)
        /\ pc[r] = "refresh" => ~tok[work[r].token].revoked

\* A row lock has one holder,
OneHolder ==
    \A r, s \in Request : \A x \in Lock : x \in work[r].held /\ x \in work[s].held => r = s

\* a handler holds what its place says, and tokens that exist,
PlaceHolds(r) ==
    /\ pc[r] \in {"refresh", "logout"} => work[r].held = {work[r].token}
    /\ pc[r] \in {"idle", "login", "logoutRead", "password"} => work[r].held = {}
    /\ UserRow \in work[r].held <=> pc[r] \in {"written", "cascade"}
    /\ LinkRow \in work[r].held => pc[r] \in {"delete", "cascade"}
    /\ \A t \in Token : t \in work[r].held => Exists(t)
HeldByPlace == \A r \in Request : PlaceHolds(r)

\* and a deletion that has locked the users row knows of every token.
CascadeKnows(r) ==
    pc[r] = "cascade" =>
        account /\ \A t \in Token : Exists(t) => t \in work[r].todo \cup work[r].held
DeletionKnows == \A r \in Request : CascadeKnows(r)

Locking == OneHolder /\ HeldByPlace /\ DeletionKnows

\* Expired or not: a session has one token that was not revoked.
Unrevoked(t) == Exists(t) /\ ~tok[t].revoked
OneUnrevoked ==
    \A t, u \in Token :
        Unrevoked(t) /\ Unrevoked(u) /\ tok[t].session = tok[u].session => t = u

\* A token with a successor was revoked, and it has no other.
SpentIsRevoked == \A t \in Token : Unrevoked(t) => children[t] = {}
OneSuccessor == \A t \in Token : \A u, v \in children[t] : u = v

\* Without an overlap, one request runs at a time,
Alone ==
    ~overlapped =>
        \A r, s \in Request : pc[r] # "idle" /\ pc[s] # "idle" => r = s

\* and what it read is still so:
AllUnexpired == \A t \in Token : Exists(t) => ~tok[t].expired
FreshRead(r) ==
    /\ pc[r] = "login" => work[r].password = pwd
    /\ pc[r] \in {"login", "refresh"} => Flag(r)
    /\ pc[r] \in {"logoutRead", "logout"} => Unrevoked(work[r].token)
    /\ pc[r] = "logout" /\ AllUnexpired => (Flag(r) <=> HasActive(work[r].token))
    /\ pc[r] \in {"password", "sweeping", "written"} => ~Flag(r)
    /\ pc[r] = "sweeping" => \A t \in Token : Exists(t) => t \in work[r].todo \cup work[r].held
    /\ pc[r] = "written" => \A t \in Token : Exists(t) => t \in work[r].held
ReadsAreFresh == ~overlapped => \A r \in Request : FreshRead(r)

\* what was not revoked knows the password and was not logged out,
UnrevokedIsCurrent ==
    ~overlapped => \A t \in Token : Unrevoked(t) =>
        tok[t].born = pwd /\ tok[t].session \notin ended

\* and is_active is accurate, between requests or not.
FlagIsAccurate ==
    ~overlapped /\ account /\ AllUnexpired => (isActive <=> \E t \in Token : Live(t))

\* The inductive invariant.
Steady ==
    /\ TypeOK /\ IdsIssued /\ HoldsToken /\ Locking
    /\ OneUnrevoked /\ SpentIsRevoked /\ OneSuccessor /\ NoOrphanToken
    /\ Alone /\ ReadsAreFresh /\ UnrevokedIsCurrent /\ FlagIsAccurate
IInv == Steady /\ RoomLeft

\* A handler that is about to insert a token leaves room for it.
LEMMA RoomToInsert ==
  ASSUME IInv, NEW r \in Request, pc[r] \in {"login", "refresh"}
  PROVE  next \in Token
<1>1. IsFiniteSet(Inserting)
  BY SessionsAssumption, FS_Subset DEF Inserting
<1>2. r \in Inserting
  BY DEF Inserting
<1>3. Cardinality(Inserting) \in Nat /\ Cardinality(Inserting) # 0
  BY <1>1, <1>2, FS_CardinalityType, FS_EmptySet
<1> QED
  BY <1>3, SessionsAssumption DEF IInv, Steady, TypeOK, RoomLeft, Token

\* Room is kept: whoever begins to insert found some, whoever inserts uses it.
LEMMA RoomStep == IInv /\ [Next]_vars => RoomLeft'
<1> SUFFICES ASSUME IInv, [Next]_vars PROVE RoomLeft'
  OBVIOUS
<1> USE SessionsAssumption DEF IInv, Steady, TypeOK
<1>1. IsFiniteSet(Inserting) /\ Cardinality(Inserting) \in Nat
  BY FS_Subset, FS_CardinalityType DEF Inserting
<1>2. ASSUME NEW r \in Request, Login(r) \/ \E t \in Token : Refresh(r, t) PROVE RoomLeft'
  <2>1. Inserting' = Inserting \cup {r} /\ next' = next
    BY <1>2 DEF Inserting, Login, Refresh, Begin
  <2>3. next + Cardinality(Inserting) <= MaxTokens
    BY <1>2 DEF Inserting, Login, Refresh, Room
  <2>2. Cardinality(Inserting \cup {r}) = IF r \in Inserting THEN Cardinality(Inserting) ELSE Cardinality(Inserting) + 1
    BY <1>1, FS_AddElement
  <2> QED
    BY <1>1, <2>1, <2>2, <2>3 DEF RoomLeft
<1>3. ASSUME NEW r \in Request, LoginCommit(r) \/ RefreshCommit(r) PROVE RoomLeft'
  <2>1. r \in Inserting /\ Inserting' = Inserting \ {r} /\ next' = next + 1
    BY <1>3 DEF Inserting, LoginCommit, RefreshCommit, End
  <2>2. Cardinality(Inserting') = Cardinality(Inserting) - 1
    BY <1>1, <2>1, FS_RemoveElement
  <2> QED
    BY <1>1, <2>1, <2>2 DEF RoomLeft
<1>4. ASSUME Inserting' \subseteq Inserting, next' = next PROVE RoomLeft'
  <2>1. Cardinality(Inserting') <= Cardinality(Inserting) /\ Cardinality(Inserting') \in Nat
    BY <1>1, <1>4, FS_Subset, FS_CardinalityType
  <2> QED
    BY <1>1, <1>4, <2>1 DEF RoomLeft
<1>5. ASSUME NEW r \in Request,
             \/ \E t \in Token : Logout(r, t)
             \/ LogoutFlush(r) \/ LogoutCommit(r)
             \/ \E viaLink \in BOOLEAN : SetPassword(r, viaLink)
             \/ Sweep(r) \/ SweepLock(r) \/ PasswordWrite(r) \/ PasswordCommit(r)
             \/ Delete(r) \/ DeleteRow(r) \/ DeleteUser(r) \/ DeleteCommit(r)
             \/ Vanished(r) \/ Abort(r)
      PROVE  RoomLeft'
  <2>1. Inserting' \subseteq Inserting /\ next' = next
    BY <1>5 DEF Inserting, Logout, LogoutFlush, LogoutCommit, SetPassword, Sweep, SweepLock, Reach,
                PasswordWrite, PasswordCommit, Delete, DeleteRow, DeleteUser, DeleteCommit,
                Vanished,
                Abort, Begin, End
  <2> QED
    BY <1>4, <2>1
<1>6. ASSUME NEW t \in Token, Expire(t) PROVE RoomLeft'
  BY <1>4, <1>6 DEF Expire, Inserting
<1>7. CASE UNCHANGED vars
  BY <1>4, <1>7 DEF vars, Inserting
<1> QED
  BY <1>2, <1>3, <1>5, <1>6, <1>7 DEF Next

-----------------------------------------------------------------------------
(* What the steps do, in terms of the rows and of what a handler has read. *)

\* Handler r alone goes on.
Worked(r) ==
    /\ work' \in [Request -> Work]
    /\ \A s \in Request \ {r} : pc'[s] = pc[s] /\ work'[s] = work[s]
Began(r, place) ==
    /\ Worked(r) /\ pc[r] = "idle" /\ pc' = [pc EXCEPT ![r] = place]
    /\ overlapped' = (overlapped \/ \E s \in Request \ {r} : pc[s] # "idle")
Moved(r, from, to) ==
    /\ Worked(r) /\ pc[r] = from /\ pc' = [pc EXCEPT ![r] = to]
    /\ overlapped' = overlapped
Ended(r) ==
    /\ Worked(r) /\ pc[r] # "idle" /\ pc' = [pc EXCEPT ![r] = "idle"]
    /\ overlapped' = overlapped

\* The rows outside S are as they were.
Kept(S) ==
    /\ tok' \in [Token -> Row \cup {NoRow}]
    /\ \A t \in Token \ S : tok'[t] = tok[t]

\* A token is issued for a session that began with password b.
Issued(session, b) ==
    /\ next \in Token /\ next' = next + 1
    /\ tok'[next] # NoRow /\ tok'[next].session = session /\ tok'[next].born = b
    /\ ~tok'[next].revoked /\ ~tok'[next].expired

\* Token t is revoked.
Ceased(t) ==
    /\ t \in Token /\ tok[t] # NoRow /\ tok'[t] # NoRow
    /\ tok'[t].revoked /\ tok'[t].session = tok[t].session
    /\ tok'[t].born = tok[t].born /\ (tok'[t].expired <=> tok[t].expired)

\* The conjuncts about the tables need the tables only,
LEMMA TablesKept ==
  ASSUME Steady, UNCHANGED <<tok, next, children, ended, account>>
  PROVE  (IdsIssued /\ OneUnrevoked /\ SpentIsRevoked /\ OneSuccessor /\ NoOrphanToken)'
BY DEF Steady, IdsIssued, OneUnrevoked, SpentIsRevoked, OneSuccessor, NoOrphanToken, Unrevoked,
   Exists

\* what the sessions show and the flag says, the rows and the flag,
LEMMA FactsKept ==
  ASSUME Steady, UNCHANGED <<tok, ended, account, pwd, isActive>>, overlapped => overlapped'
  PROVE  (UnrevokedIsCurrent /\ FlagIsAccurate)'
BY DEF Steady, UnrevokedIsCurrent, FlagIsAccurate, AllUnexpired, Unrevoked, Live, Exists

\* and a handler that begins is alone, or it overlaps another.
LEMMA AloneKept ==
  ASSUME Steady, NEW r \in Request,
         (\E place \in Place : Began(r, place)) \/ Ended(r) \/ (\E from, to \in Place : from # "idle" /\ Moved(r, from, to))
  PROVE  Alone'
BY DEF Steady, Alone, Began, Ended, Moved, Worked, TypeOK

\* What is free is held by no other, unless it is the users row and only its key
\* is wanted.
LEMMA FreeIsUnheld ==
  ASSUME NEW r \in Request, NEW x, Free(r, x), x # UserRow \/ Writes(r)
  PROVE  \A s \in Request \ {r} : x \notin work[s].held
BY DEF Free, Blocks

\* A handler that goes on may hold what no other does.
LEMMA LockingKept ==
  ASSUME Steady, NEW r \in Request, Worked(r), NEW to, pc' = [pc EXCEPT ![r] = to],
         UNCHANGED <<tok, account>>,
         \A x \in work'[r].held \ work[r].held : \A s \in Request \ {r} : x \notin work[s].held,
         PlaceHolds(r)', CascadeKnows(r)'
  PROVE  Locking'
<1>1. OneHolder'
  BY DEF Steady, Locking, OneHolder, Worked
<1>2. ASSUME NEW s \in Request \ {r} PROVE PlaceHolds(s)' /\ CascadeKnows(s)'
  <2>1. pc'[s] = pc[s] /\ work'[s] = work[s] /\ PlaceHolds(s) /\ CascadeKnows(s)
    BY DEF Steady, Locking, HeldByPlace, DeletionKnows, Worked
  <2> QED
    BY <2>1 DEF PlaceHolds, CascadeKnows, Exists
<1> QED
  BY <1>1, <1>2 DEF Locking, HeldByPlace, DeletionKnows

\* What the others read is still so when only r has gone on.
LEMMA ReadsKept ==
  ASSUME Steady, NEW r \in Request, Worked(r), UNCHANGED <<tok, pwd, isActive>>,
         overlapped => overlapped', ~overlapped' => FreshRead(r)'
  PROVE  ReadsAreFresh'
<1>1. ASSUME NEW s \in Request \ {r}, FreshRead(s) PROVE FreshRead(s)'
  BY <1>1 DEF FreshRead, Worked, Flag, Unrevoked, AllUnexpired, HasActive, Live, Exists
<1> QED
  BY <1>1 DEF Steady, ReadsAreFresh

\* A handler that begins, and one that ends.
LEMMA BeginWorks ==
  ASSUME TypeOK, NEW r \in Request, NEW place, NEW w \in Work, Begin(r, place, w)
  PROVE  Began(r, place) /\ work'[r] = w
BY DEF TypeOK, Begin, Began, Worked

\* A handler that ends has no work left.
LEMMA EndWorks ==
  ASSUME TypeOK, NEW r \in Request, pc[r] # "idle", End(r), overlapped' = overlapped
  PROVE  Ended(r)
<1>1. Nothing \in Work
  BY SessionsAssumption DEF Nothing, Work, Password, Touch
<1> QED
  BY <1>1 DEF TypeOK, End, Ended, Worked

\* When a handler ends, none is left that ran beside it without an overlap.
LEMMA EndedAlone ==
  ASSUME Steady, NEW r \in Request, Ended(r)
  PROVE  Alone' /\ ReadsAreFresh'
<1>1. ~overlapped' => \A s \in Request : pc'[s] = "idle"
  BY DEF Steady, Alone, Ended, Worked, TypeOK
<1> QED
  BY <1>1 DEF Alone, ReadsAreFresh, FreshRead

\* A handler that ends leaves the others the tokens they have locked.
LEMMA OthersKeepTokens ==
  ASSUME Steady, NEW r \in Request, Ended(r), work'[r].held = {},
         \A s \in Request \ {r} : \A t \in Token : t \in work[s].held => tok'[t] = tok[t],
         \A s \in Request \ {r} : pc[s] = "cascade" =>
            account' = account /\ \A t \in Token : tok'[t] # NoRow => tok[t] # NoRow
  PROVE  (HoldsToken /\ Locking)'
<1>0. ASSUME NEW s \in Request \ {r}
      PROVE  pc'[s] = pc[s] /\ work'[s] = work[s] /\ PlaceHolds(s) /\ CascadeKnows(s)
  BY DEF Steady, Locking, HeldByPlace, DeletionKnows, Ended, Worked
<1>1. ASSUME NEW s \in Request, pc'[s] \in {"refresh", "logoutRead", "logout"}
      PROVE  /\ work'[s].token \in Token
             /\ pc'[s] # "logoutRead" => tok'[work'[s].token] # NoRow
             /\ pc'[s] = "refresh" => ~tok'[work'[s].token].revoked
  <2>1. s # r /\ pc[s] = pc'[s] /\ work'[s] = work[s]
    BY <1>1 DEF Steady, TypeOK, Ended, Worked
  <2>2. /\ work[s].token \in Token
        /\ pc[s] # "logoutRead" => tok[work[s].token] # NoRow
        /\ pc[s] = "refresh" => ~tok[work[s].token].revoked
    BY <1>1, <2>1 DEF Steady, HoldsToken, Exists
  <2>3. pc[s] # "logoutRead" => work[s].token \in work[s].held
    BY <1>0, <1>1, <2>1 DEF PlaceHolds
  <2>4. pc[s] # "logoutRead" => tok'[work[s].token] = tok[work[s].token]
    BY <2>1, <2>2, <2>3
  <2> QED
    BY <2>1, <2>2, <2>4
<1>2. HoldsToken'
  BY <1>1 DEF HoldsToken, Exists
<1>3. OneHolder'
  BY DEF Steady, Locking, OneHolder, Ended, Worked
<1>4. ASSUME NEW s \in Request \ {r} PROVE PlaceHolds(s)' /\ CascadeKnows(s)'
  BY <1>0 DEF PlaceHolds, CascadeKnows, Exists
<1>5. PlaceHolds(r)' /\ CascadeKnows(r)'
  <2>1. pc'[r] = "idle"
    BY DEF Steady, TypeOK, Ended
  <2> QED
    BY <2>1 DEF PlaceHolds, CascadeKnows
<1> QED
  BY <1>2, <1>3, <1>4, <1>5 DEF Locking, HeldByPlace, DeletionKnows

\* A handler that ends holds nothing.
LEMMA EndReleases ==
  ASSUME TypeOK, NEW r \in Request, End(r)
  PROVE  work'[r].held = {}
BY DEF TypeOK, End, Nothing

\* A statement gets to a row: it is locked, or it is gone.
LEMMA ReachDoes ==
  ASSUME Steady, NEW r \in Request, NEW x, x \in Token \cup {LinkRow}, Reach(r, x)
  PROVE  /\ Worked(r) /\ UNCHANGED <<pc, overlapped>>
         /\ x \in work[r].todo /\ work'[r].todo = work[r].todo \ {x}
         /\ work'[r].held \subseteq work[r].held \cup {x}
         /\ work[r].held \subseteq work'[r].held
         /\ x \in Token => (x \in work'[r].held <=> x \in work[r].held \/ Exists(x))
         /\ \A s \in Request \ {r} : x \notin work[s].held
         /\ work'[r].token = work[r].token /\ work'[r].touch = work[r].touch
         /\ work'[r].active = work[r].active
         /\ UNCHANGED <<tok, next, account, pwd, isActive, linkUsed, children, ended>>
<1> DEFINE held == IF IF x = LinkRow THEN account ELSE Exists(x)
                   THEN work[r].held \cup {x} ELSE work[r].held
           w == [work[r] EXCEPT !.todo = work[r].todo \ {x}, !.held = held]
<1>1. work[r] \in Work /\ x \in Lock /\ x # UserRow
  BY SessionsNullAssumption DEF Steady, TypeOK, Lock
<1>2. /\ held \subseteq work[r].held \cup {x} /\ work[r].held \subseteq held
      /\ x \in Token => (x \in held <=> x \in work[r].held \/ Exists(x))
  BY SessionsNullAssumption
<1>3. work' = [work EXCEPT ![r] = w]
  BY DEF Reach
<1> HIDE DEF held
<1>4. /\ w \in Work /\ w.todo = work[r].todo \ {x} /\ w.held = held
      /\ w.token = work[r].token /\ w.touch = work[r].touch /\ w.active = work[r].active
  BY <1>1, <1>2 DEF Work
<1> HIDE DEF w
<1>5. Worked(r) /\ work'[r] = w
  BY <1>3, <1>4 DEF Reach, Worked, Steady, TypeOK
<1>6. \A s \in Request \ {r} : x \notin work[s].held
  BY <1>1, FreeIsUnheld DEF Reach
<1> QED
  BY <1>2, <1>4, <1>5, <1>6 DEF Reach, users, ghosts, history

-----------------------------------------------------------------------------
(* The actions.                                                            *)

\* Login: the password is checked and the account's flag read.
LEMMA LoginStep ==
  ASSUME Steady, NEW r \in Request, Login(r)
  PROVE  Steady'
<1>1. /\ Began(r, "login") /\ work'[r].password = pwd /\ work'[r].held = {}
      /\ work'[r].active /\ (isActive \/ work'[r].touch = "set")
      /\ UNCHANGED <<tok, next, account, pwd, isActive, linkUsed, children, ended>>
  <2> DEFINE w(touch) == [Nothing EXCEPT !.password = pwd, !.touch = touch]
  <2>1. PICK touch \in Touches : Begin(r, "login", w(touch))
    BY DEF Login
  <2>2. touch \in Touch /\ (isActive \/ touch = "set") /\ pwd \in Password
    BY DEF Touches, Touch, Steady, TypeOK
  <2>3. /\ w(touch) \in Work /\ w(touch).password = pwd /\ w(touch).touch = touch
        /\ w(touch).active /\ w(touch).held = {}
    BY <2>2 DEF Work, Nothing
  <2> HIDE DEF w
  <2>4. Began(r, "login") /\ work'[r] = w(touch)
    BY <2>1, <2>3, BeginWorks DEF Steady
  <2> QED
    BY <2>2, <2>3, <2>4 DEF Login, users, history
<1>2. TypeOK'
  BY <1>1 DEF Steady, TypeOK, Began, Worked, Place
<1>3. HoldsToken' /\ Locking'
  <2>1. HoldsToken' /\ pc'[r] = "login"
    BY <1>1 DEF Steady, TypeOK, HoldsToken, Exists, Began, Worked
  <2>2. PlaceHolds(r)' /\ CascadeKnows(r)'
    BY <1>1, <2>1 DEF PlaceHolds, CascadeKnows
  <2> QED
    BY <1>1, <2>1, <2>2, LockingKept DEF Began
<1>4. ReadsAreFresh'
  BY <1>1, ReadsKept DEF Steady, TypeOK, FreshRead, Flag, Unrevoked, Live, Valid, Exists, Began,
     Worked
<1> QED
  BY <1>1, <1>2, <1>3, <1>4, TablesKept, FactsKept, AloneKept DEF Steady, Began, Place

\* Refresh: the presented token is locked and seen to be live.
LEMMA RefreshStep ==
  ASSUME Steady, NEW r \in Request, NEW t \in Token, Refresh(r, t)
  PROVE  Steady'
<1>1. /\ Began(r, "refresh") /\ work'[r].token = t /\ work'[r].held = {t} /\ Free(r, t) /\ Live(t)
      /\ work'[r].active /\ (isActive \/ work'[r].touch = "set")
      /\ UNCHANGED <<tok, next, account, pwd, isActive, linkUsed, children, ended>>
  <2> DEFINE w(touch) == [Nothing EXCEPT !.token = t, !.touch = touch, !.held = {t}]
  <2>1. PICK touch \in Touches : Begin(r, "refresh", w(touch))
    BY DEF Refresh
  <2>2. touch \in Touch /\ (isActive \/ touch = "set") /\ 0 \in Password
    BY SessionsAssumption DEF Touches, Touch, Steady, TypeOK, Password
  <2>3. /\ w(touch) \in Work /\ w(touch).token = t /\ w(touch).touch = touch
        /\ w(touch).active /\ w(touch).held = {t}
    BY <2>2 DEF Work, Nothing, Lock
  <2> HIDE DEF w
  <2>4. Began(r, "refresh") /\ work'[r] = w(touch)
    BY <2>1, <2>3, BeginWorks DEF Steady
  <2> QED
    BY <2>2, <2>3, <2>4 DEF Refresh, users, history
<1>2. TypeOK'
  BY <1>1 DEF Steady, TypeOK, Began, Worked, Place
<1>3. HoldsToken'
  BY <1>1 DEF Steady, TypeOK, HoldsToken, Live, Valid, Exists, Began, Worked
<1>4. Locking'
  <2>1. pc'[r] = "refresh" /\ t # UserRow /\ t # LinkRow /\ Exists(t)
    BY <1>1, SessionsNullAssumption DEF Steady, TypeOK, Began, Live
  <2>2. PlaceHolds(r)' /\ CascadeKnows(r)'
    BY <1>1, <2>1 DEF PlaceHolds, CascadeKnows, Exists
  <2>3. \A s \in Request \ {r} : t \notin work[s].held
    BY <1>1, <2>1, FreeIsUnheld
  <2> QED
    BY <1>1, <2>2, <2>3, LockingKept DEF Began
<1>5. ReadsAreFresh'
  BY <1>1, ReadsKept DEF Steady, TypeOK, FreshRead, Flag, Unrevoked, Live, Valid, Exists, Began,
     Worked
<1> QED
  BY <1>1, <1>2, <1>3, <1>4, <1>5, TablesKept, FactsKept, AloneKept DEF Steady, Began, Place

\* Logout: the presented token is read.
LEMMA LogoutStep ==
  ASSUME Steady, NEW r \in Request, NEW t \in Token, Logout(r, t)
  PROVE  Steady'
<1>1. /\ Began(r, "logoutRead") /\ work'[r].token = t /\ work'[r].held = {} /\ Unrevoked(t)
      /\ UNCHANGED <<tok, next, account, pwd, isActive, linkUsed, children, ended>>
  <2> DEFINE w == [Nothing EXCEPT !.token = t]
  <2>1. Begin(r, "logoutRead", w)
    BY DEF Logout
  <2>2. 0 \in Password
    BY SessionsAssumption DEF Password
  <2>3. w \in Work /\ w.token = t /\ w.held = {}
    BY <2>2 DEF Work, Nothing, Touch
  <2> HIDE DEF w
  <2>4. Began(r, "logoutRead") /\ work'[r] = w
    BY <2>1, <2>3, BeginWorks DEF Steady
  <2> QED
    BY <2>3, <2>4 DEF Logout, Unrevoked, users, history
<1>2. TypeOK'
  BY <1>1 DEF Steady, TypeOK, Began, Worked, Place
<1>3. HoldsToken' /\ Locking'
  <2>1. HoldsToken' /\ pc'[r] = "logoutRead"
    BY <1>1 DEF Steady, TypeOK, HoldsToken, Exists, Began, Worked
  <2>2. PlaceHolds(r)' /\ CascadeKnows(r)'
    BY <1>1, <2>1 DEF PlaceHolds, CascadeKnows
  <2> QED
    BY <1>1, <2>1, <2>2, LockingKept DEF Began
<1>4. ReadsAreFresh'
  BY <1>1, ReadsKept DEF Steady, TypeOK, FreshRead, Flag, Unrevoked, Live, Valid, Exists, Began,
     Worked
<1> QED
  BY <1>1, <1>2, <1>3, <1>4, TablesKept, FactsKept, AloneKept DEF Steady, Began, Place

\* A new password: the flag is read.
LEMMA SetPasswordStep ==
  ASSUME Steady, NEW r \in Request, NEW viaLink \in BOOLEAN, SetPassword(r, viaLink)
  PROVE  Steady'
<1>1. /\ Began(r, "password") /\ work'[r].held = {}
      /\ ~work'[r].active /\ (~isActive \/ work'[r].touch = "set")
      /\ UNCHANGED <<tok, next, account, pwd, isActive, linkUsed, children, ended>>
  <2> DEFINE touch == IF isActive THEN "set" ELSE "none"
             w == [Nothing EXCEPT !.viaLink = viaLink, !.active = FALSE, !.touch = touch]
  <2>1. Begin(r, "password", w)
    BY DEF SetPassword
  <2>2. touch \in Touch /\ (~isActive \/ touch = "set")
    BY DEF Touch
  <2> HIDE DEF touch
  <2>3. w \in Work /\ w.touch = touch /\ ~w.active /\ w.held = {}
    <3>1. 0 \in Password
      BY SessionsAssumption DEF Password
    <3> QED
      BY <2>2, <3>1 DEF Work, Nothing
  <2> HIDE DEF w
  <2>4. Began(r, "password") /\ work'[r] = w
    BY <2>1, <2>3, BeginWorks DEF Steady
  <2> QED
    BY <2>2, <2>3, <2>4 DEF SetPassword, users, history
<1>2. TypeOK'
  BY <1>1, SessionsAssumption DEF Steady, TypeOK, Began, Worked, Place
<1>3. HoldsToken' /\ Locking'
  <2>1. HoldsToken' /\ pc'[r] = "password"
    BY <1>1 DEF Steady, TypeOK, HoldsToken, Exists, Began, Worked
  <2>2. PlaceHolds(r)' /\ CascadeKnows(r)'
    BY <1>1, <2>1 DEF PlaceHolds, CascadeKnows
  <2> QED
    BY <1>1, <2>1, <2>2, LockingKept DEF Began
<1>4. ReadsAreFresh'
  BY <1>1, ReadsKept DEF Steady, TypeOK, FreshRead, Flag, Unrevoked, Live, Valid, Exists, Began,
     Worked
<1> QED
  BY <1>1, <1>2, <1>3, <1>4, TablesKept, FactsKept, AloneKept DEF Steady, Began, Place

\* A deletion: the password is checked.
LEMMA DeleteStep ==
  ASSUME Steady, NEW r \in Request, Delete(r)
  PROVE  Steady'
<1>1. /\ Began(r, "delete") /\ work'[r].held = {}
      /\ UNCHANGED <<tok, next, account, pwd, isActive, linkUsed, children, ended>>
  <2> DEFINE todo == {t \in Token : Exists(t)} \cup {LinkRow}
             w == [Nothing EXCEPT !.todo = todo]
  <2>1. Begin(r, "delete", w) /\ todo \in SUBSET Lock /\ 0 \in Password
    BY SessionsAssumption DEF Delete, Lock, Password
  <2> HIDE DEF todo
  <2>2. w \in Work /\ w.held = {}
    BY <2>1 DEF Nothing, Work, Touch
  <2> HIDE DEF w
  <2>3. Began(r, "delete") /\ work'[r] = w
    BY <2>1, <2>2, BeginWorks DEF Steady
  <2> QED
    BY <2>2, <2>3 DEF Delete, users, history
<1>2. TypeOK'
  BY <1>1 DEF Steady, TypeOK, Began, Worked, Place
<1>3. HoldsToken' /\ Locking'
  <2>1. HoldsToken' /\ pc'[r] = "delete"
    BY <1>1 DEF Steady, TypeOK, HoldsToken, Exists, Began, Worked
  <2>2. PlaceHolds(r)' /\ CascadeKnows(r)'
    BY <1>1, <2>1 DEF PlaceHolds, CascadeKnows
  <2> QED
    BY <1>1, <2>1, <2>2, LockingKept DEF Began
<1>4. ReadsAreFresh'
  BY <1>1, ReadsKept DEF Steady, TypeOK, FreshRead, Flag, Unrevoked, Live, Valid, Exists, Began,
     Worked
<1> QED
  BY <1>1, <1>2, <1>3, <1>4, TablesKept, FactsKept, AloneKept DEF Steady, Began, Place

\* A logout takes the lock of its token and computes the flag.
LEMMA LogoutFlushStep ==
  ASSUME Steady, NEW r \in Request, LogoutFlush(r)
  PROVE  Steady'
<1> DEFINE t == work[r].token
<1>1. /\ Moved(r, "logoutRead", "logout") /\ work'[r].token = t /\ work'[r].held = {t}
      /\ t \in Token /\ Exists(t) /\ Free(r, t)
      /\ (Flag(r)' <=> HasActive(t))
      /\ UNCHANGED <<tok, next, account, pwd, isActive, linkUsed, children, ended>>
  <2> DEFINE active == HasActive(t)
             touch == IF active = isActive THEN "none" ELSE "set"
             w == [work[r] EXCEPT !.touch = touch, !.active = active, !.held = {t}]
  <2>1. /\ touch \in Touch /\ active \in BOOLEAN
        /\ touch # "set" => active = isActive
    BY DEF Touch, HasActive
  <2>2. work' = [work EXCEPT ![r] = w]
    BY DEF LogoutFlush
  <2>3. t \in Token /\ Exists(t) /\ Free(r, t)
    BY DEF LogoutFlush, Steady, HoldsToken
  <2> HIDE DEF touch, active, t
  <2>4. /\ w \in Work /\ w.touch = touch /\ w.token = work[r].token /\ w.held = {t}
        /\ w.active = active
    BY <2>1, <2>3 DEF Work, Steady, TypeOK, Lock
  <2> HIDE DEF w
  <2>5. pc[r] = "logoutRead" /\ pc' = [pc EXCEPT ![r] = "logout"] /\ overlapped' = overlapped
    BY DEF LogoutFlush, ghosts
  <2>6. Moved(r, "logoutRead", "logout") /\ work'[r] = w
    BY <2>2, <2>4, <2>5 DEF Moved, Worked, Steady, TypeOK
  <2>7. UNCHANGED <<tok, next, account, pwd, isActive, linkUsed, children, ended>>
    BY DEF LogoutFlush, users, ghosts, history
  <2>8. Flag(r)' = active
    BY <2>1, <2>4, <2>6, <2>7 DEF Flag
  <2> QED
    BY <2>3, <2>4, <2>6, <2>7, <2>8 DEF active, t
<1> HIDE DEF t
<1>2. TypeOK'
  BY <1>1 DEF Steady, TypeOK, Moved, Worked, Place
<1>3. HoldsToken'
  BY <1>1 DEF Steady, TypeOK, HoldsToken, Exists, Moved, Worked
<1>4. Locking'
  <2>1. pc'[r] = "logout" /\ t # UserRow /\ t # LinkRow
    BY <1>1, SessionsNullAssumption DEF Steady, TypeOK, Moved
  <2>2. PlaceHolds(r)' /\ CascadeKnows(r)'
    BY <1>1, <2>1 DEF PlaceHolds, CascadeKnows, Exists
  <2>3. \A s \in Request \ {r} : t \notin work[s].held
    BY <1>1, <2>1, FreeIsUnheld
  <2> QED
    BY <1>1, <2>2, <2>3, LockingKept DEF Moved
<1>5. ReadsAreFresh'
  <2>1. ~overlapped => Unrevoked(t)
    BY <1>1 DEF Steady, ReadsAreFresh, FreshRead, Moved, t
  <2>2. pc'[r] = "logout"
    BY <1>1 DEF Steady, TypeOK, Moved
  <2>3. Unrevoked(t) => Unrevoked(work[r].token)'
    BY <1>1 DEF Unrevoked, Exists
  <2>4. Flag(r)' <=> HasActive(work[r].token)'
    BY <1>1 DEF HasActive, Live, Exists, t
  <2>5. ~overlapped => FreshRead(r)'
    BY <1>1, <2>1, <2>2, <2>3, <2>4 DEF FreshRead, t
  <2> QED
    BY <1>1, <2>5, ReadsKept DEF Moved
<1> QED
  BY <1>1, <1>2, <1>3, <1>4, <1>5, TablesKept, FactsKept, AloneKept DEF Steady, Moved, Place

\* The revocations of a new password see the rows that are there.
LEMMA SweepStep ==
  ASSUME Steady, NEW r \in Request, Sweep(r)
  PROVE  Steady'
<1>1. /\ Moved(r, "password", "sweeping") /\ work'[r].held = {}
      /\ work'[r].touch = work[r].touch /\ work'[r].active = work[r].active
      /\ work'[r].todo = {t \in Token : Exists(t)}
      /\ UNCHANGED <<tok, next, account, pwd, isActive, linkUsed, children, ended>>
  <2>1. work[r] \in Work /\ work'[r] = [work[r] EXCEPT !.todo = {t \in Token : Exists(t)}]
    BY DEF Sweep, Steady, TypeOK
  <2>2. /\ work'[r] \in Work /\ work'[r].touch = work[r].touch /\ work'[r].held = work[r].held
        /\ work'[r].todo = {t \in Token : Exists(t)} /\ work'[r].active = work[r].active
    BY <2>1 DEF Work, Lock
  <2>3. work[r].held = {}
    BY DEF Sweep, Steady, Locking, HeldByPlace, PlaceHolds
  <2> QED
    BY <2>2, <2>3 DEF Sweep, Moved, Worked, Steady, TypeOK, users, ghosts, history
<1>2. TypeOK'
  BY <1>1 DEF Steady, TypeOK, Moved, Worked, Place
<1>3. HoldsToken' /\ Locking'
  <2>1. HoldsToken' /\ pc'[r] = "sweeping"
    BY <1>1 DEF Steady, TypeOK, HoldsToken, Exists, Moved, Worked
  <2>2. PlaceHolds(r)' /\ CascadeKnows(r)'
    BY <1>1, <2>1 DEF PlaceHolds, CascadeKnows
  <2> QED
    BY <1>1, <2>1, <2>2, LockingKept DEF Moved
<1>4. ReadsAreFresh'
  BY <1>1, ReadsKept DEF Steady, TypeOK, ReadsAreFresh, FreshRead, Flag, Exists, Moved, Worked
<1> QED
  BY <1>1, <1>2, <1>3, <1>4, TablesKept, FactsKept, AloneKept DEF Steady, Moved, Place

\* A handler that gets to a row stays where it is.
LEMMA ReachStep ==
  ASSUME Steady, NEW r \in Request, NEW x, x \in Token \cup {LinkRow}, Reach(r, x),
         (pc[r] = "sweeping" /\ x \in Token) \/ pc[r] \in {"delete", "cascade"}
  PROVE  Steady'
<1>1. /\ Worked(r) /\ UNCHANGED <<pc, overlapped>>
      /\ x \in work[r].todo /\ work'[r].todo = work[r].todo \ {x}
      /\ work'[r].held \subseteq work[r].held \cup {x}
      /\ work[r].held \subseteq work'[r].held
      /\ x \in Token => (x \in work'[r].held <=> x \in work[r].held \/ Exists(x))
      /\ \A s \in Request \ {r} : x \notin work[s].held
      /\ work'[r].touch = work[r].touch /\ work'[r].active = work[r].active
      /\ UNCHANGED <<tok, next, account, pwd, isActive, linkUsed, children, ended>>
  BY ReachDoes
<1>2. TypeOK'
  BY <1>1 DEF Steady, TypeOK, Worked
<1>3. HoldsToken'
  BY <1>1 DEF Steady, TypeOK, HoldsToken, Exists, Worked
<1>4. Locking'
  <2>1. PlaceHolds(r) /\ CascadeKnows(r) /\ pc' = [pc EXCEPT ![r] = pc[r]]
    BY <1>1 DEF Steady, TypeOK, Locking, HeldByPlace, DeletionKnows
  <2>2. x # UserRow /\ (x \in Token => x # LinkRow)
    BY SessionsNullAssumption
  <2>3. PlaceHolds(r)'
    BY <1>1, <2>1, <2>2 DEF PlaceHolds, Exists
  <2>4. CascadeKnows(r)'
    BY <1>1, <2>1 DEF CascadeKnows, Exists
  <2>5. \A y \in work'[r].held \ work[r].held : \A s \in Request \ {r} : y \notin work[s].held
    BY <1>1
  <2>6. Worked(r) /\ UNCHANGED <<tok, account>>
    BY <1>1
  <2> QED
    BY ONLY Steady, r \in Request, <2>1, <2>3, <2>4, <2>5, <2>6, LockingKept
<1>5. Alone'
  BY <1>1 DEF Steady, Alone
<1>6. ReadsAreFresh'
  BY <1>1, ReadsKept DEF Steady, TypeOK, ReadsAreFresh, FreshRead, Flag, Exists
<1> QED
  BY <1>1, <1>2, <1>3, <1>4, <1>5, <1>6, TablesKept, FactsKept DEF Steady

\* A new password writes the users row, once it has locked every token.
LEMMA PasswordWriteStep ==
  ASSUME Steady, NEW r \in Request, PasswordWrite(r)
  PROVE  Steady'
<1>1. /\ Moved(r, "sweeping", "written") /\ work'[r].held = work[r].held \cup {UserRow}
      /\ work[r].todo = {} /\ Free(r, UserRow)
      /\ work'[r].touch = work[r].touch /\ work'[r].active = work[r].active
      /\ UNCHANGED <<tok, next, account, pwd, isActive, linkUsed, children, ended>>
  <2>1. work[r] \in Work /\ work'[r] = [work[r] EXCEPT !.held = work[r].held \cup {UserRow}]
    BY DEF PasswordWrite, Steady, TypeOK
  <2>2. /\ work'[r] \in Work /\ work'[r].touch = work[r].touch /\ work'[r].active = work[r].active
        /\ work'[r].held = work[r].held \cup {UserRow}
    BY <2>1 DEF Work, Lock
  <2> QED
    BY <2>2 DEF PasswordWrite, Moved, Worked, Steady, TypeOK, users, ghosts, history
<1>2. TypeOK'
  BY <1>1 DEF Steady, TypeOK, Moved, Worked, Place
<1>3. HoldsToken' /\ Locking'
  <2>1. HoldsToken' /\ pc'[r] = "written" /\ pc[r] = "sweeping"
    BY <1>1 DEF Steady, TypeOK, HoldsToken, Exists, Moved, Worked
  <2>2. PlaceHolds(r)
    BY DEF Steady, Locking, HeldByPlace
  <2>3. PlaceHolds(r)' /\ CascadeKnows(r)'
    BY <1>1, <2>1, <2>2, SessionsNullAssumption DEF PlaceHolds, CascadeKnows, Exists
  <2>4. \A s \in Request \ {r} : UserRow \notin work[s].held
    BY <1>1, <2>1, FreeIsUnheld DEF Writes
  <2> QED
    BY <1>1, <2>1, <2>3, <2>4, LockingKept DEF Moved
<1>4. ReadsAreFresh'
  BY <1>1, ReadsKept DEF Steady, TypeOK, ReadsAreFresh, FreshRead, Flag, Exists, Moved, Worked
<1> QED
  BY <1>1, <1>2, <1>3, <1>4, TablesKept, FactsKept, AloneKept DEF Steady, Moved, Place

\* A deletion locks the users row, and sees the tokens that are left.
LEMMA DeleteUserStep ==
  ASSUME Steady, NEW r \in Request, DeleteUser(r)
  PROVE  Steady'
<1>1. /\ Moved(r, "delete", "cascade") /\ work'[r].held = work[r].held \cup {UserRow}
      /\ work'[r].todo = {t \in Token : Exists(t)} \ work[r].held
      /\ account /\ Free(r, UserRow)
      /\ UNCHANGED <<tok, next, account, pwd, isActive, linkUsed, children, ended>>
  <2> DEFINE rest == {t \in Token : Exists(t)} \ work[r].held
             w == [work[r] EXCEPT !.todo = rest, !.held = work[r].held \cup {UserRow}]
  <2>1. work[r] \in Work /\ work' = [work EXCEPT ![r] = w] /\ rest \subseteq Lock
    BY DEF DeleteUser, Steady, TypeOK, Lock
  <2> HIDE DEF rest
  <2>2. w \in Work /\ w.held = work[r].held \cup {UserRow} /\ w.todo = rest
    BY <2>1 DEF Work, Lock
  <2> HIDE DEF w
  <2>3. Moved(r, "delete", "cascade") /\ work'[r] = w
    BY <2>1, <2>2 DEF DeleteUser, Moved, Worked, Steady, TypeOK, ghosts
  <2> QED
    BY <2>2, <2>3 DEF DeleteUser, rest, users, ghosts, history
<1>2. TypeOK'
  BY <1>1 DEF Steady, TypeOK, Moved, Worked, Place
<1>3. HoldsToken' /\ Locking'
  <2>1. HoldsToken' /\ pc'[r] = "cascade" /\ pc[r] = "delete"
    BY <1>1 DEF Steady, TypeOK, HoldsToken, Exists, Moved, Worked
  <2>2. PlaceHolds(r)
    BY DEF Steady, Locking, HeldByPlace
  <2>3. PlaceHolds(r)' /\ CascadeKnows(r)'
    BY <1>1, <2>1, <2>2, SessionsNullAssumption DEF PlaceHolds, CascadeKnows, Exists
  <2>4. \A s \in Request \ {r} : UserRow \notin work[s].held
    BY <1>1, <2>1, FreeIsUnheld DEF Writes
  <2> QED
    BY <1>1, <2>1, <2>3, <2>4, LockingKept DEF Moved
<1>4. ReadsAreFresh'
  <2>1. pc'[r] = "cascade"
    BY <1>1 DEF Steady, TypeOK, Moved
  <2> QED
    BY <1>1, <2>1, ReadsKept DEF FreshRead, Moved
<1> QED
  BY <1>1, <1>2, <1>3, <1>4, TablesKept, FactsKept, AloneKept DEF Steady, Moved, Place

\* What a new row holds.
LEMMA NewRowFields ==
  ASSUME NEW session \in Token, NEW born \in Password
  PROVE  /\ NewRow(session, born) \in Row
         /\ NewRow(session, born).session = session /\ NewRow(session, born).born = born
         /\ ~NewRow(session, born).revoked /\ ~NewRow(session, born).expired
BY DEF NewRow, Row

\* A login inserts the first token of a session.
LEMMA LoginCommitStep ==
  ASSUME Steady, next \in Token, NEW r \in Request, LoginCommit(r)
  PROVE  Steady'
<1>1. /\ Ended(r) /\ work'[r].held = {} /\ pc[r] = "login" /\ account
      /\ Kept({next}) /\ Issued(next, work[r].password)
      /\ isActive' = Flag(r) /\ Free(r, UserRow)
      /\ UNCHANGED <<account, pwd, linkUsed, children, ended>>
  <2> DEFINE new == NewRow(next, work[r].password)
  <2>1. work[r].password \in Password /\ NoRow \notin Row
    BY SessionsNullAssumption DEF Steady, TypeOK, Work
  <2>2. /\ new \in Row /\ new.session = next /\ new.born = work[r].password
        /\ ~new.revoked /\ ~new.expired
    BY <2>1, NewRowFields
  <2>3. tok' = [tok EXCEPT ![next] = new] /\ next' = next + 1
    BY DEF LoginCommit
  <2> HIDE DEF new
  <2>4. Kept({next}) /\ tok'[next] = new
    BY <2>3, <2>2 DEF Kept, Steady, TypeOK
  <2>5. Issued(next, work[r].password)
    BY <2>1, <2>3, <2>4, <2>2 DEF Issued
  <2>6. Ended(r) /\ work'[r].held = {}
    BY EndWorks, EndReleases DEF LoginCommit, Steady, ghosts
  <2> QED
    BY <2>4, <2>5, <2>6 DEF LoginCommit, ghosts, history
<1>2. TypeOK'
  BY <1>1, SessionsAssumption DEF Steady, TypeOK, Ended, Worked, Kept, Issued, Place, Token,
     Flag, Work
<1>3. HoldsToken' /\ Locking'
  <2>1. ASSUME NEW s \in Request \ {r}, NEW u \in Token, u \in work[s].held
        PROVE  tok'[u] = tok[u]
    <3>1. u # next
      BY <2>1 DEF Steady, TypeOK, Locking, HeldByPlace, PlaceHolds, IdsIssued, Exists
    <3> QED
      BY <1>1, <3>1 DEF Kept
  <2>2. ASSUME NEW s \in Request \ {r} PROVE pc[s] # "cascade"
    BY <1>1 DEF Steady, Locking, HeldByPlace, PlaceHolds, Free, Blocks
  <2> QED
    BY <1>1, <2>1, <2>2, OthersKeepTokens
<1>4. IdsIssued'
  <2>1. \A u \in Token : u \in Int
    BY SessionsAssumption DEF Token
  <2>2. \A u \in Token : u >= next + 1 => tok'[u] = NoRow /\ children'[u] = {}
    BY <1>1, <2>1 DEF Steady, TypeOK, IdsIssued, Kept, Issued
  <2>3. ASSUME NEW u \in Token, tok'[u] # NoRow PROVE tok'[u].session < next + 1
    <3>1. CASE u = next
      BY <1>1, <2>1, <3>1 DEF Issued
    <3>2. CASE u # next
      <4>1. tok'[u] = tok[u] /\ tok[u].session < next /\ tok[u].session \in Token
        BY <1>1, <2>3, <3>2 DEF Steady, TypeOK, IdsIssued, Kept, Exists, Row
      <4> QED
        BY <1>1, <2>1, <4>1 DEF Issued
    <3> QED
      BY <3>1, <3>2
  <2>4. \A u \in ended : u < next + 1
    BY <1>1, <2>1 DEF Steady, TypeOK, IdsIssued, Issued
  <2> QED
    BY <1>1, <2>2, <2>3, <2>4 DEF IdsIssued, Exists, Issued
<1>5. OneUnrevoked'
  <2>1. \A u \in Token : Exists(u) => tok[u].session # next
    BY DEF Steady, TypeOK, IdsIssued, Exists, Token
  <2> QED
    BY <1>1, <2>1 DEF Steady, OneUnrevoked, Unrevoked, Exists, Kept, Issued
<1>6. SpentIsRevoked' /\ OneSuccessor' /\ NoOrphanToken'
  BY <1>1 DEF Steady, TypeOK, IdsIssued, SpentIsRevoked, OneSuccessor, NoOrphanToken, Unrevoked,
     Exists, Kept, Issued, Token
<1>7. UnrevokedIsCurrent'
  BY <1>1 DEF Steady, TypeOK, UnrevokedIsCurrent, ReadsAreFresh, FreshRead, IdsIssued, Unrevoked,
     Exists, Kept, Issued, Ended, Token
<1>8. FlagIsAccurate'
  BY <1>1 DEF Steady, TypeOK, FlagIsAccurate, ReadsAreFresh, FreshRead, Live, Valid, Exists,
     Issued, Ended
<1> QED
  BY <1>1, <1>2, <1>3, <1>4, <1>5, <1>6, <1>7, <1>8, EndedAlone DEF Steady

\* A rotation revokes its token and inserts the successor.
LEMMA RefreshCommitStep ==
  ASSUME Steady, next \in Token, NEW r \in Request, RefreshCommit(r)
  PROVE  Steady'
<1> DEFINE t == work[r].token
<1>1. /\ Ended(r) /\ pc[r] = "refresh" /\ t # next /\ ~tok[t].revoked /\ Ceased(t)
      /\ Kept({next, t}) /\ Issued(tok[t].session, tok[t].born)
      /\ isActive' = Flag(r) /\ Free(r, UserRow) /\ t \in work[r].held /\ work'[r].held = {}
      /\ children' = [children EXCEPT ![t] = children[t] \cup {next}]
      /\ UNCHANGED <<account, pwd, linkUsed, ended>>
  <2>1. t \in Token /\ tok[t] # NoRow /\ ~tok[t].revoked /\ pc[r] = "refresh"
    BY DEF RefreshCommit, Steady, HoldsToken, Exists
  <2>2. t # next
    BY <2>1 DEF Steady, IdsIssued, TypeOK
  <2> DEFINE new == NewRow(tok[t].session, tok[t].born)
  <2>3. tok[t] \in Row /\ Revoked(tok[t]) \in Row /\ NoRow \notin Row
    BY <2>1, SessionsNullAssumption DEF Revoked, Row, Steady, TypeOK
  <2>4. /\ new \in Row /\ new.session = tok[t].session /\ new.born = tok[t].born
        /\ ~new.revoked /\ ~new.expired
    BY <2>3, NewRowFields DEF Row
  <2>5. tok' = [tok EXCEPT ![t] = Revoked(tok[t]), ![next] = new] /\ next' = next + 1
    BY <2>2 DEF RefreshCommit, Rotated
  <2> HIDE DEF new
  <2>6. Kept({next, t}) /\ tok'[next] = new /\ tok'[t] = Revoked(tok[t])
    BY <2>1, <2>2, <2>3, <2>5, <2>4 DEF Kept, Steady, TypeOK
  <2>7. Issued(tok[t].session, tok[t].born)
    BY <2>3, <2>5, <2>6, <2>4 DEF Issued
  <2>8. Ceased(t)
    BY <2>1, <2>3, <2>6 DEF Ceased, Revoked, Row
  <2>9. Ended(r) /\ work'[r].held = {}
    BY EndWorks, EndReleases DEF RefreshCommit, Steady
  <2>10. t \in work[r].held
    BY <2>1 DEF Steady, Locking, HeldByPlace, PlaceHolds
  <2> QED
    BY <2>1, <2>2, <2>6, <2>7, <2>8, <2>9, <2>10 DEF RefreshCommit
<1> HIDE DEF t
<1>2. TypeOK'
  BY <1>1, SessionsAssumption DEF Steady, TypeOK, Ended, Worked, Kept, Issued, Ceased, Place,
     Token, Flag, Work
<1>3. HoldsToken' /\ Locking'
  <2>1. ASSUME NEW s \in Request \ {r}, NEW u \in Token, u \in work[s].held
        PROVE  tok'[u] = tok[u]
    <3>1. u # t
      BY <1>1, <2>1 DEF Steady, Locking, OneHolder, Lock
    <3>2. u # next
      BY <2>1 DEF Steady, TypeOK, Locking, HeldByPlace, PlaceHolds, IdsIssued, Exists
    <3> QED
      BY <1>1, <3>1, <3>2 DEF Kept
  <2>2. ASSUME NEW s \in Request \ {r} PROVE pc[s] # "cascade"
    BY <1>1 DEF Steady, Locking, HeldByPlace, PlaceHolds, Free, Blocks
  <2> QED
    BY <1>1, <2>1, <2>2, OthersKeepTokens
<1>4. IdsIssued'
  <2>1. \A u \in Token : u \in Int
    BY SessionsAssumption DEF Token
  <2>2. t < next /\ tok[t].session \in Token /\ tok[t].session < next
    BY <1>1, <2>1 DEF Steady, TypeOK, IdsIssued, Exists, Ceased, Row
  <2>3. \A u \in Token : u >= next + 1 => tok'[u] = NoRow /\ children'[u] = {}
    BY <1>1, <2>1, <2>2 DEF Steady, TypeOK, IdsIssued, Kept, Issued
  <2>4. ASSUME NEW u \in Token, tok'[u] # NoRow PROVE tok'[u].session < next + 1
    <3>1. CASE u \in {next, t}
      BY <1>1, <2>1, <2>2, <3>1 DEF Issued, Ceased
    <3>2. CASE u \notin {next, t}
      <4>1. tok'[u] = tok[u] /\ tok[u].session < next /\ tok[u].session \in Token
        BY <1>1, <2>4, <3>2 DEF Steady, TypeOK, IdsIssued, Kept, Exists, Row
      <4> QED
        BY <1>1, <2>1, <4>1 DEF Issued
    <3> QED
      BY <3>1, <3>2
  <2>5. \A u \in ended : u < next + 1
    BY <1>1, <2>1 DEF Steady, TypeOK, IdsIssued, Issued
  <2> QED
    BY <1>1, <2>3, <2>4, <2>5 DEF IdsIssued, Exists, Issued
<1>5. OneUnrevoked' /\ SpentIsRevoked' /\ NoOrphanToken'
  <2>1. t \in Token /\ next \in Token /\ Unrevoked(t) /\ children[next] = {}
    BY <1>1 DEF Steady, TypeOK, IdsIssued, Unrevoked, Exists, Issued, Ceased, Token
  <2>2. /\ tok'[t].revoked /\ tok'[next].session = tok[t].session
        /\ \A u \in Token \ {next, t} : tok'[u] = tok[u] /\ children'[u] = children[u]
        /\ children'[next] = children[next]
    BY <1>1, <2>1 DEF Steady, TypeOK, Kept, Issued, Ceased
  <2>3. OneUnrevoked'
    BY <2>1, <2>2 DEF Steady, OneUnrevoked, Unrevoked, Exists
  <2>4. SpentIsRevoked'
    BY <2>1, <2>2 DEF Steady, SpentIsRevoked, Unrevoked, Exists
  <2>5. account /\ account'
    BY <1>1, <2>1 DEF Steady, NoOrphanToken, Unrevoked
  <2>6. NoOrphanToken'
    BY <2>5 DEF NoOrphanToken
  <2> QED
    BY <2>3, <2>4, <2>6
<1>6. OneSuccessor'
  <2>1. children[t] = {}
    BY <1>1 DEF Steady, SpentIsRevoked, Unrevoked, Exists, Ceased
  <2> QED
    BY <1>1, <2>1 DEF Steady, TypeOK, OneSuccessor, Ceased
<1>7. UnrevokedIsCurrent'
  BY <1>1 DEF Steady, TypeOK, UnrevokedIsCurrent, Unrevoked, Exists, Kept, Issued, Ceased, Ended
<1>8. FlagIsAccurate'
  BY <1>1 DEF Steady, TypeOK, FlagIsAccurate, ReadsAreFresh, FreshRead, Live, Valid, Exists,
     Issued, Ended
<1> QED
  BY <1>1, <1>2, <1>3, <1>4, <1>5, <1>6, <1>7, <1>8, EndedAlone DEF Steady

\* A logout revokes its token.
LEMMA LogoutCommitStep ==
  ASSUME Steady, NEW r \in Request, LogoutCommit(r)
  PROVE  Steady'
<1> DEFINE t == work[r].token
<1>1. /\ Ended(r) /\ pc[r] = "logout" /\ Ceased(t) /\ Kept({t})
      /\ isActive' = Flag(r) /\ t \in work[r].held /\ work'[r].held = {}
      /\ ended' = ended \cup {tok[t].session} /\ tok[t].session \in Token
      /\ UNCHANGED <<next, account, pwd, linkUsed, children>>
  <2>1. t \in Token /\ tok[t] # NoRow /\ pc[r] = "logout"
    BY DEF LogoutCommit, Steady, HoldsToken, Exists
  <2>2. tok[t] \in Row /\ Revoked(tok[t]) \in Row /\ NoRow \notin Row /\ tok[t].session \in Token
    BY <2>1, SessionsNullAssumption DEF Revoked, Row, Steady, TypeOK
  <2>3. Kept({t}) /\ tok'[t] = Revoked(tok[t])
    BY <2>1, <2>2 DEF LogoutCommit, Kept, Steady, TypeOK
  <2>4. Ceased(t)
    BY <2>1, <2>2, <2>3 DEF Ceased, Revoked, Row
  <2>5. Ended(r) /\ work'[r].held = {}
    BY EndWorks, EndReleases DEF LogoutCommit, Steady
  <2>6. t \in work[r].held
    BY <2>1 DEF Steady, Locking, HeldByPlace, PlaceHolds
  <2> QED
    BY <2>1, <2>2, <2>3, <2>4, <2>5, <2>6 DEF LogoutCommit
<1> HIDE DEF t
<1>2. TypeOK'
  BY <1>1 DEF Steady, TypeOK, Ended, Worked, Kept, Place, Flag, Work
<1>3. HoldsToken' /\ Locking'
  <2>1. ASSUME NEW s \in Request \ {r}, NEW u \in Token, u \in work[s].held
        PROVE  tok'[u] = tok[u]
    <3>1. u # t
      BY <1>1, <2>1 DEF Steady, Locking, OneHolder, Lock
    <3> QED
      BY <1>1, <3>1 DEF Kept
  <2>2. \A u \in Token : tok'[u] # NoRow => tok[u] # NoRow
    BY <1>1 DEF Kept, Ceased
  <2> QED
    BY <1>1, <2>1, <2>2, OthersKeepTokens
<1>4. IdsIssued'
  BY <1>1 DEF Steady, TypeOK, IdsIssued, Exists, Kept, Ceased
<1>5. OneUnrevoked' /\ SpentIsRevoked' /\ OneSuccessor' /\ NoOrphanToken'
  BY <1>1 DEF Steady, TypeOK, OneUnrevoked, SpentIsRevoked, OneSuccessor, NoOrphanToken,
     Unrevoked, Exists, Kept, Ceased
<1>6. UnrevokedIsCurrent'
  <2>1. ~overlapped => Unrevoked(t)
    BY <1>1 DEF Steady, ReadsAreFresh, FreshRead, t
  <2> QED
    BY <1>1, <2>1 DEF Steady, TypeOK, UnrevokedIsCurrent, OneUnrevoked, Unrevoked, Exists, Kept,
       Ceased, Ended
<1>7. FlagIsAccurate'
  <2>1. AllUnexpired' => AllUnexpired
    BY <1>1 DEF AllUnexpired, Exists, Kept, Ceased
  <2>2. ~overlapped /\ AllUnexpired => (isActive' <=> HasActive(t))
    BY <1>1 DEF Steady, ReadsAreFresh, FreshRead, t
  <2>3. HasActive(t) <=> \E u \in Token : Live(u)'
    BY <1>1 DEF HasActive, Live, Valid, Exists, Kept, Ceased
  <2> QED
    BY <1>1, <2>1, <2>2, <2>3 DEF FlagIsAccurate, Ended
<1> QED
  BY <1>1, <1>2, <1>3, <1>4, <1>5, <1>6, <1>7, EndedAlone DEF Steady

\* A new password takes effect together with its revocations.
LEMMA PasswordCommitStep ==
  ASSUME Steady, NEW r \in Request, PasswordCommit(r)
  PROVE  Steady'
<1>1. /\ Ended(r) /\ work'[r].held = {} /\ pc[r] = "written" /\ pwd' \in Password
      /\ tok' \in [Token -> Row \cup {NoRow}]
      /\ \A t \in Token : tok'[t] = tok[t] \/ (Ceased(t) /\ t \in work[r].held)
      /\ \A t \in Token : Exists(t) /\ t \in work[r].held => tok'[t].revoked
      /\ isActive' = Flag(r) /\ linkUsed' \in BOOLEAN
      /\ UNCHANGED <<next, account, children, ended>>
  <2>1. ASSUME NEW t \in Token
        PROVE  /\ tok'[t] \in Row \cup {NoRow}
               /\ tok'[t] = tok[t] \/ (Ceased(t) /\ t \in work[r].held)
               /\ Exists(t) /\ t \in work[r].held => tok'[t].revoked
    <3>1. CASE Exists(t) /\ t \in work[r].held
      <4>1. tok[t] \in Row /\ Revoked(tok[t]) \in Row /\ NoRow \notin Row
        BY <3>1, SessionsNullAssumption DEF Exists, Revoked, Row, Steady, TypeOK
      <4>2. tok'[t] = Revoked(tok[t])
        BY <3>1 DEF PasswordCommit
      <4> QED
        BY <3>1, <4>1, <4>2 DEF Ceased, Revoked, Row, Exists
    <3>2. CASE ~(Exists(t) /\ t \in work[r].held)
      <4>1. tok'[t] = tok[t]
        BY <3>2 DEF PasswordCommit, Steady, Locking, HeldByPlace, PlaceHolds
      <4> QED
        BY <3>2, <4>1 DEF Steady, TypeOK
    <3> QED
      BY <3>1, <3>2
  <2>2. tok' \in [Token -> Row \cup {NoRow}]
    BY <2>1 DEF PasswordCommit
  <2>3. Ended(r) /\ work'[r].held = {}
    BY EndWorks, EndReleases DEF PasswordCommit, Steady, ghosts
  <2>4. pwd' \in Password /\ linkUsed' \in BOOLEAN
    BY SessionsAssumption DEF PasswordCommit, Steady, TypeOK, Work, Password
  <2> QED
    BY <2>1, <2>2, <2>3, <2>4 DEF PasswordCommit, ghosts, history
<1>2. TypeOK'
  BY <1>1 DEF Steady, TypeOK, Ended, Worked, Place, Flag, Work
<1>3. HoldsToken' /\ Locking'
  <2>1. ASSUME NEW s \in Request \ {r}, NEW u \in Token, u \in work[s].held
        PROVE  tok'[u] = tok[u]
    BY <1>1, <2>1 DEF Steady, Locking, OneHolder, Lock
  <2>2. \A u \in Token : tok'[u] # NoRow => tok[u] # NoRow
    BY <1>1 DEF Ceased
  <2> QED
    BY <1>1, <2>1, <2>2, OthersKeepTokens
<1>4. IdsIssued'
  BY <1>1 DEF Steady, TypeOK, IdsIssued, Exists, Ceased
<1>5. OneUnrevoked' /\ SpentIsRevoked' /\ OneSuccessor' /\ NoOrphanToken'
  BY <1>1 DEF Steady, TypeOK, OneUnrevoked, SpentIsRevoked, OneSuccessor, NoOrphanToken,
     Unrevoked, Exists, Ceased
<1>6. ~overlapped => \A t \in Token : ~Unrevoked(t)'
  BY <1>1 DEF Steady, ReadsAreFresh, FreshRead, Unrevoked, Exists, Ceased
<1>7. UnrevokedIsCurrent'
  BY <1>1, <1>6 DEF UnrevokedIsCurrent, Ended
<1>8. FlagIsAccurate'
  <2>1. ~overlapped => ~isActive'
    BY <1>1 DEF Steady, ReadsAreFresh, FreshRead
  <2> QED
    BY <1>1, <1>6, <2>1 DEF FlagIsAccurate, Live, Valid, Unrevoked, Ended
<1> QED
  BY <1>1, <1>2, <1>3, <1>4, <1>5, <1>7, <1>8, EndedAlone DEF Steady

\* A deletion takes the tokens along.
LEMMA DeleteCommitStep ==
  ASSUME Steady, NEW r \in Request, DeleteCommit(r)
  PROVE  Steady'
<1>1. /\ Ended(r) /\ work'[r].held = {} /\ pc[r] = "cascade" /\ account' = FALSE
      /\ tok' = [t \in Token |-> NoRow]
      /\ \A t \in Token : Exists(t) => t \in work[r].held
      /\ UNCHANGED <<next, pwd, isActive, linkUsed, children, ended>>
  <2>1. Ended(r) /\ work'[r].held = {}
    BY EndWorks, EndReleases DEF DeleteCommit, Steady, ghosts
  <2>2. \A t \in Token : Exists(t) => t \in work[r].held
    BY DEF DeleteCommit, Steady, Locking, DeletionKnows, CascadeKnows
  <2>3. \A t \in Token : (IF t \in work[r].held THEN NoRow ELSE tok[t]) = NoRow
    BY <2>2 DEF Exists
  <2>4. tok' = [t \in Token |-> NoRow]
    BY <2>3 DEF DeleteCommit
  <2> QED
    BY <2>1, <2>2, <2>4 DEF DeleteCommit, ghosts, history
<1>2. TypeOK'
  BY <1>1 DEF Steady, TypeOK, Ended, Worked, Place
<1>3. HoldsToken' /\ Locking'
  <2>1. ASSUME NEW s \in Request \ {r}, NEW u \in Token, u \in work[s].held
        PROVE  tok'[u] = tok[u]
    BY <1>1, <2>1 DEF Steady, Locking, OneHolder, HeldByPlace, PlaceHolds, Lock
  <2>2. ASSUME NEW s \in Request \ {r} PROVE pc[s] # "cascade"
    BY <1>1 DEF Steady, Locking, OneHolder, HeldByPlace, PlaceHolds, Lock
  <2> QED
    BY <1>1, <2>1, <2>2, OthersKeepTokens
<1>4. /\ IdsIssued' /\ OneUnrevoked' /\ SpentIsRevoked' /\ OneSuccessor' /\ NoOrphanToken'
      /\ UnrevokedIsCurrent' /\ FlagIsAccurate'
  BY <1>1 DEF Steady, IdsIssued, OneUnrevoked, SpentIsRevoked, OneSuccessor, NoOrphanToken,
              UnrevokedIsCurrent, FlagIsAccurate, Unrevoked, Exists
<1> QED
  BY <1>1, <1>2, <1>3, <1>4, EndedAlone DEF Steady

\* A transaction that is rolled back leaves everything as it was.
LEMMA RollbackStep ==
  ASSUME Steady, NEW r \in Request, Vanished(r) \/ Abort(r)
  PROVE  Steady'
<1>1. /\ Ended(r) /\ work'[r].held = {}
      /\ UNCHANGED <<tok, next, account, pwd, isActive, linkUsed, children, ended>>
  <2>1. pc[r] # "idle" /\ End(r) /\ UNCHANGED <<tok, next, users, linkUsed, ghosts>>
    BY DEF Vanished, Abort
  <2> QED
    BY <2>1, EndWorks, EndReleases DEF Steady, users, ghosts, history
<1>2. TypeOK'
  BY <1>1 DEF Steady, TypeOK, Ended, Worked, Place
<1>3. HoldsToken' /\ Locking'
  BY <1>1, OthersKeepTokens
<1> QED
  BY <1>1, <1>2, <1>3, TablesKept, FactsKept, EndedAlone DEF Steady, Ended

\* A token expires.
LEMMA ExpireStep ==
  ASSUME Steady, NEW t \in Token, Expire(t)
  PROVE  Steady'
<1>1. /\ Exists(t) /\ tok' \in [Token -> Row \cup {NoRow}] /\ tok'[t] # NoRow
      /\ tok'[t].expired /\ tok'[t].session = tok[t].session /\ tok'[t].born = tok[t].born
      /\ (tok'[t].revoked <=> tok[t].revoked)
      /\ \A u \in Token \ {t} : tok'[u] = tok[u]
      /\ UNCHANGED <<next, account, pwd, isActive, linkUsed, pc, work, children, ended, overlapped>>
  <2>1. tok[t] \in Row /\ NoRow \notin Row /\ Exists(t)
    BY SessionsNullAssumption DEF Expire, Exists, Steady, TypeOK
  <2>2. tok' = [tok EXCEPT ![t] = [tok[t] EXCEPT !.expired = TRUE]]
    BY DEF Expire
  <2>3. tok'[t] = [tok[t] EXCEPT !.expired = TRUE] /\ \A u \in Token \ {t} : tok'[u] = tok[u]
    BY <2>2 DEF Steady, TypeOK
  <2>4. /\ tok'[t] \in Row /\ tok'[t].expired /\ tok'[t].session = tok[t].session
        /\ tok'[t].born = tok[t].born /\ (tok'[t].revoked <=> tok[t].revoked)
    BY <2>1, <2>3 DEF Row
  <2>5. tok' \in [Token -> Row \cup {NoRow}]
    BY <2>2, <2>3, <2>4 DEF Steady, TypeOK
  <2> QED
    BY <2>1, <2>3, <2>4, <2>5 DEF Expire, users, ghosts, history
<1>2. TypeOK'
  BY <1>1 DEF Steady, TypeOK
<1>3. HoldsToken' /\ Alone'
  BY <1>1 DEF Steady, TypeOK, HoldsToken, Alone, Exists
<1>4. IdsIssued' /\ OneUnrevoked' /\ SpentIsRevoked' /\ OneSuccessor' /\ NoOrphanToken' /\ UnrevokedIsCurrent'
  BY <1>1 DEF Steady, IdsIssued, OneUnrevoked, SpentIsRevoked, OneSuccessor, NoOrphanToken,
              UnrevokedIsCurrent, Unrevoked, Exists
<1>5. ~AllUnexpired'
  BY <1>1 DEF AllUnexpired, Exists
<1>6. ReadsAreFresh'
  <2>1. \A u \in Token : (tok[u] = NoRow <=> tok'[u] = NoRow) /\ (Unrevoked(u) => Unrevoked(u)')
    BY <1>1 DEF Unrevoked, Exists
  <2>2. ASSUME NEW r \in Request, FreshRead(r) PROVE FreshRead(r)'
    BY <1>1, <1>5, <2>1, <2>2 DEF FreshRead, Flag, Steady, HoldsToken, Exists
  <2> QED
    BY <1>1, <2>2 DEF Steady, ReadsAreFresh
<1>7. FlagIsAccurate'
  BY <1>5 DEF FlagIsAccurate
<1>8. Locking'
  <2>1. \A u \in Token : tok[u] = NoRow <=> tok'[u] = NoRow
    BY <1>1 DEF Exists
  <2> QED
    BY <1>1, <2>1 DEF Steady, Locking, OneHolder, HeldByPlace, PlaceHolds, DeletionKnows,
       CascadeKnows, Exists
<1> QED
  BY <1>2, <1>3, <1>4, <1>6, <1>7, <1>8 DEF Steady
-----------------------------------------------------------------------------
(* The theorems.                                                           *)

\* Initially no request runs and no token exists.
LEMMA InitIInv == Init => IInv
<1> SUFFICES ASSUME Init PROVE IInv
  OBVIOUS
<1> USE SessionsAssumption, SessionsNullAssumption DEF Init
<1>1. TypeOK
  <2>1. Nothing \in Work /\ 0 \in Password /\ 1 \in 1..(MaxTokens + 1)
    BY DEF Nothing, Work, Password, Touch
  <2> QED
    BY <2>1 DEF TypeOK, Place
<1>2. RoomLeft
  <2>1. Inserting = {}
    BY DEF Inserting
  <2> QED
    BY <2>1, FS_EmptySet DEF RoomLeft
<1>3. IdsIssued /\ OneUnrevoked /\ SpentIsRevoked /\ OneSuccessor /\ NoOrphanToken /\ UnrevokedIsCurrent
  BY DEF IdsIssued, Exists, Unrevoked, OneUnrevoked, SpentIsRevoked, OneSuccessor, NoOrphanToken,
     UnrevokedIsCurrent
<1>4. HoldsToken /\ Locking /\ Alone /\ ReadsAreFresh
  BY DEF HoldsToken, Locking, OneHolder, HeldByPlace, PlaceHolds, DeletionKnows, CascadeKnows,
     Alone,
         ReadsAreFresh, FreshRead, Nothing
<1>5. FlagIsAccurate
  BY DEF FlagIsAccurate, Live, Exists
<1> QED
  BY <1>1, <1>2, <1>3, <1>4, <1>5 DEF IInv, Steady

\* The inductive invariant holds throughout, however handlers overlap.
THEOREM Invariance == Spec => []IInv
<1>1. IInv /\ [Next]_vars => IInv'
  <2> SUFFICES ASSUME IInv, [Next]_vars PROVE Steady'
    BY RoomStep DEF IInv
  <2>1. Steady
    BY DEF IInv
  <2>2. ASSUME NEW r \in Request, LoginCommit(r) \/ RefreshCommit(r) PROVE next \in Token
    BY <2>2, RoomToInsert DEF LoginCommit, RefreshCommit
  <2>3. CASE UNCHANGED vars
    BY <2>1, <2>3, TablesKept, FactsKept DEF vars, Steady, TypeOK, HoldsToken, Exists, Alone,
       Locking, OneHolder, HeldByPlace, PlaceHolds, DeletionKnows, CascadeKnows,
       ReadsAreFresh, FreshRead, Flag, Unrevoked, AllUnexpired, HasActive, Live
  <2>4. CASE Next
    BY <2>1, <2>2, <2>4, LoginStep, LoginCommitStep, RefreshStep, RefreshCommitStep, LogoutStep,
       LogoutFlushStep, LogoutCommitStep, SetPasswordStep, SweepStep, PasswordWriteStep,
       PasswordCommitStep, DeleteStep, ReachStep, DeleteUserStep, DeleteCommitStep, RollbackStep,
       ExpireStep DEF Next, SweepLock, DeleteRow
  <2> QED
    BY <2>3, <2>4
<1> QED
  BY InitIInv, <1>1, PTL DEF Spec

\* Every variable keeps its type (the handlers of Sessions).
THEOREM TypeCorrect == Spec => []TypeOK
<1>1. IInv => TypeOK
  BY DEF IInv, Steady
<1> QED
  BY Invariance, <1>1, PTL

\* However login, rotation, logout, new passwords and deletion overlap: a
\* refresh token buys one successor, a session has one live token, and no token
\* outlives its account (routers/auth.refresh, routers/users.delete_account).
THEOREM NoFork == Spec => []SessionsDoNotFork
<1>1. IInv => SessionsDoNotFork
  <2> SUFFICES ASSUME IInv PROVE SessionsDoNotFork
    OBVIOUS
  <2>1. ASSUME NEW t \in Token PROVE Cardinality(children[t]) <= 1
    <3>1. CASE children[t] = {}
      BY <3>1, FS_EmptySet
    <3>2. CASE children[t] # {}
      <4>1. PICK u : children[t] = {u}
        BY <3>2 DEF IInv, Steady, OneSuccessor
      <4>2. Cardinality({u}) = 1
        BY FS_Singleton
      <4> QED
        BY <4>1, <4>2
    <3> QED
      BY <3>1, <3>2
  <2>2. ASSUME NEW t \in Token, NEW u \in Token, Live(t), Live(u), tok[t].session = tok[u].session
        PROVE  t = u
    BY <2>2 DEF IInv, Steady, OneUnrevoked, Unrevoked, Live, Valid
  <2> QED
    BY <2>1, <2>2 DEF SessionsDoNotFork, OneTokenPerSession, IInv, Steady
<1> QED
  BY Invariance, <1>1, PTL

\* However many handlers wait for one another's rows, and in whatever order a
\* statement locks its own, a circle of them contains a deletion or two new
\* passwords (refresh, logout, and the sweep before the users row in routers/users
\* and routers/auth).
THEOREM DeadlocksKnown == Spec => []DeadlocksAreKnown
<1>1. IInv => DeadlocksAreKnown
  <2> SUFFICES ASSUME IInv, NEW D \in SUBSET Request, Circle(D),
                      \A r \in D : pc[r] \notin {"delete", "cascade"}
               PROVE  \E r, s \in D : r # s /\ pc[r] = "sweeping" /\ pc[s] = "sweeping"
    BY DEF DeadlocksAreKnown
  <2>1. ASSUME NEW r \in D PROVE PlaceHolds(r) /\ pc[r] \in Place
    BY DEF IInv, Steady, Locking, HeldByPlace, TypeOK
  <2>2. ASSUME NEW r \in D
        PROVE  \E x \in Wants(r) : \E s \in D \ {r} : x \in work[s].held
    BY DEF Circle, Blocks
  <2>3. ASSUME NEW r \in D PROVE pc[r] # "written"
    <3>1. SUFFICES ASSUME pc[r] = "written" PROVE FALSE
      OBVIOUS
    <3>2. Wants(r) \subseteq {LinkRow}
      BY <3>1 DEF Wants
    <3> QED
      BY <2>1, <2>2, <3>2 DEF PlaceHolds
  <2>4. ASSUME NEW r \in D PROVE UserRow \notin work[r].held
    BY <2>1, <2>3 DEF PlaceHolds
  <2>5. ASSUME NEW r \in D PROVE pc[r] \in {"logoutRead", "sweeping"}
    <3>1. SUFFICES ASSUME pc[r] \notin {"logoutRead", "sweeping"} PROVE FALSE
      OBVIOUS
    <3>2. Wants(r) \subseteq {UserRow}
      BY <2>3, <3>1 DEF Wants
    <3> QED
      BY <2>2, <2>4, <3>2
  <2>6. ASSUME NEW r \in D PROVE \E s \in D \ {r} : pc[s] = "sweeping"
    BY <2>1, <2>2, <2>5 DEF PlaceHolds
  <2> QED
    BY <2>6 DEF Circle
<1> QED
  BY Invariance, <1>1, PTL

\* As long as no two requests have overlapped: a new password ends the sessions
\* that do not know it, a logout ends its own, and is_active is accurate,
\* whatever was begun and cut off (the handlers of routers/auth and routers/users).
THEOREM SerialIsTrue == Spec => []SerialSessionsAreTrue
<1>1. IInv => SerialSessionsAreTrue
  BY DEF IInv, Steady, SerialSessionsAreTrue, SessionsKnowPassword, IsActiveIsAccurate,
     LogoutEndsSession,
         UnrevokedIsCurrent, FlagIsAccurate, AllUnexpired, Unrevoked, Live, Valid
<1> QED
  BY Invariance, <1>1, PTL

=============================================================================

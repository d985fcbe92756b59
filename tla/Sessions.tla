------------------------------ MODULE Sessions ------------------------------
(***************************************************************************)
(* The sessions of one NC++ account: the refresh_tokens rows and the       *)
(* is_active flag of its users row, and the handlers that create, rotate   *)
(* and revoke sessions: login, refresh, logout, the two ways to set a new  *)
(* password, and the deletion of the account.                              *)
(*                                                                         *)
(* Handlers run concurrently, each in one READ COMMITTED transaction on a  *)
(* session without autoflush.  A handler is cut where it reads, at every   *)
(* row lock it may have to wait for while it holds another, and where it   *)
(* commits: what it read first may be stale when it writes.  The ORM       *)
(* writes the columns whose value it changed with respect to what it       *)
(* loaded, and no others.  An UPDATE or a DELETE of many rows locks them   *)
(* one by one, in an order that the keys do not tell.                      *)
(*                                                                         *)
(* A request that is refused changes nothing and is left out.              *)
(***************************************************************************)
EXTENDS Integers, FiniteSets

CONSTANTS
    Request,        \* request handlers that may run at the same time
    MaxTokens,      \* bound: refresh tokens ever issued
    MaxPasswords,   \* bound: new passwords that take effect
    Expiring,       \* the refresh tokens that may reach expires_at
    NoRow, Null,
    UserRow,        \* the users row, as a row to lock
    LinkRow         \* the email_tokens row of the reset link, as a row to lock

ASSUME SessionsAssumption ==
    /\ MaxTokens \in Nat
    /\ MaxPasswords \in Nat
    /\ Expiring \subseteq Nat
    /\ IsFiniteSet(Request)

Token == 1..MaxTokens
Password == 0..MaxPasswords

\* A token row: the login it descends from (a session is known by its first
\* token), the password that login presented, and its state.
Row == [session: Token, born: Password, revoked: BOOLEAN, expired: BOOLEAN]

ASSUME SessionsNullAssumption ==
    /\ NoRow \notin Row
    /\ Null \notin Token
    /\ UserRow \notin Token /\ LinkRow \notin Token /\ UserRow # LinkRow

\* The rows that handlers wait for.
Lock == Token \cup {UserRow, LinkRow}

\* What a handler does to the users row besides its own columns: nothing (for
\* touch_activity: throttled), stamp last_used, or write is_active.
Touch == {"none", "stamp", "set"}

Place == {"idle", "login", "refresh", "logoutRead", "logout",
          "password", "sweeping", "written", "delete", "cascade"}

VARIABLES
    tok,        \* the refresh_tokens table
    next,       \* the next token
    account,    \* the users row exists
    pwd,        \* the password whose hash it holds, numbered as they took effect
    isActive,   \* users.is_active
    linkUsed,   \* used_at of the emailed reset link is set
    pc,         \* where each handler is
    work,       \* what it has read so far
    children,   \* the tokens each token was rotated into (a ghost)
    ended,      \* the sessions a logout has ended (a ghost)
    overlapped  \* two requests have run at the same time (a ghost)

vars == <<tok, next, account, pwd, isActive, linkUsed, pc, work,
          children, ended, overlapped>>
users == <<account, pwd, isActive>>
history == <<children, ended>>
ghosts == <<history, overlapped>>

\* A handler's local state: the token it was given, the password a login
\* checked, what it does to the users row and the is_active it writes, whether it
\* consumes the reset link, the rows its statement has yet to lock, and those it
\* has locked.
Work == [token: Token \cup {Null}, password: Password, touch: Touch, active: BOOLEAN,
         viaLink: BOOLEAN, todo: SUBSET Lock, held: SUBSET Lock]
Nothing == [token |-> Null, password |-> 0, touch |-> "none", active |-> TRUE,
            viaLink |-> FALSE, todo |-> {}, held |-> {}]

TypeOK ==
    /\ tok \in [Token -> Row \cup {NoRow}]
    /\ next \in 1..(MaxTokens + 1)
    /\ account \in BOOLEAN
    /\ pwd \in Password
    /\ isActive \in BOOLEAN
    /\ linkUsed \in BOOLEAN
    /\ pc \in [Request -> Place]
    /\ work \in [Request -> Work]
    /\ children \in [Token -> SUBSET Token]
    /\ ended \subseteq Token
    /\ overlapped \in BOOLEAN

Init ==
    /\ tok = [t \in Token |-> NoRow]
    /\ next = 1
    /\ account = TRUE
    /\ pwd = 0
    /\ isActive = FALSE
    /\ linkUsed = FALSE
    /\ pc = [r \in Request |-> "idle"]
    /\ work = [r \in Request |-> Nothing]
    /\ children = [t \in Token |-> {}]
    /\ ended = {}
    /\ overlapped = FALSE

-----------------------------------------------------------------------------
(* The tables.                                                             *)

Exists(t) == tok[t] # NoRow
Valid(row) == ~row.revoked /\ ~row.expired
Live(t) == Exists(t) /\ Valid(tok[t])

\* A handler that writes the users row; the other inserts of a login or of a
\* rotation only share its key, for their foreign key.
Writes(r) == pc[r] \notin {"login", "refresh"} \/ work[r].touch # "none"

\* Handler s has row x locked against r.  An UPDATE of the users row leaves its
\* key to others, a DELETE does not.
Blocks(s, r, x) ==
    /\ x \in work[s].held
    /\ x = UserRow /\ pc[s] # "cascade" => Writes(r)

\* Mutant: SELECT without FOR UPDATE.
BugFree(r, x) == TRUE

Free(r, x) == \A s \in Request \ {r} : ~Blocks(s, r, x)

NewRow(session, born) == [session |-> session, born |-> born, revoked |-> FALSE, expired |-> FALSE]
Revoked(row) == [row EXCEPT !.revoked = TRUE]

\* Mutant: a logout that turns the flag off whatever else is live.
BugHasActive(t) == FALSE

\* Mutant: SELECT 1 ... WHERE in place of EXISTS, which yields no value at all
\* when no token is left.
NullHasActive(t) == IF \E u \in Token \ {t} : Live(u) THEN TRUE ELSE Null

\* has_active_refresh_token, as a logout of t evaluates it: its own revocation
\* is flushed, those of others count when they are committed.
HasActive(t) == \E u \in Token \ {t} : Live(u)

\* touch_activity, on the users row as the handler has loaded it.
Touches == IF isActive THEN {"none", "stamp"} ELSE {"set"}

\* is_active once handler r has written the users row.
Flag(r) == IF work[r].touch = "set" THEN work[r].active ELSE isActive

\* The bound on tokens leaves room for those that handlers are about to insert.
Room == next + Cardinality({r \in Request : pc[r] \in {"login", "refresh"}}) <= MaxTokens

Begin(r, place, what) ==
    /\ pc[r] = "idle"
    /\ pc' = [pc EXCEPT ![r] = place]
    /\ work' = [work EXCEPT ![r] = what]
    /\ overlapped' = (overlapped \/ \E s \in Request \ {r} : pc[s] # "idle")

End(r) ==
    /\ pc' = [pc EXCEPT ![r] = "idle"]
    /\ work' = [work EXCEPT ![r] = Nothing]

-----------------------------------------------------------------------------
(* Login.                                                                  *)

\* The account is loaded and the password checked against its hash.
Login(r) ==
    /\ account /\ Room
    /\ \E touch \in Touches :
          Begin(r, "login", [Nothing EXCEPT !.password = pwd, !.touch = touch])
    /\ UNCHANGED <<tok, next, users, linkUsed, history>>

\* The new token and the activity stamp are committed.
LoginCommit(r) ==
    /\ pc[r] = "login" /\ account /\ Free(r, UserRow)
    /\ tok' = [tok EXCEPT ![next] = NewRow(next, work[r].password)]
    /\ next' = next + 1
    /\ isActive' = Flag(r)
    /\ End(r)
    /\ UNCHANGED <<account, pwd, linkUsed, ghosts>>

-----------------------------------------------------------------------------
(* Refresh.                                                                *)

\* SELECT ... FOR UPDATE of the presented token, then the check; token.user is
\* loaded behind the lock.
Refresh(r, t) ==
    /\ Free(r, t) /\ Live(t) /\ Room
    /\ \E touch \in Touches :
          Begin(r, "refresh", [Nothing EXCEPT !.token = t, !.touch = touch, !.held = {t}])
    /\ UNCHANGED <<tok, next, users, linkUsed, history>>

\* Mutant: a rotation that does not revoke the token it was given.
BugRotated(row) == row

Rotated(row) == Revoked(row)

\* The presented token is revoked and its successor inserted.
RefreshCommit(r) ==
    LET t == work[r].token
    IN  /\ pc[r] = "refresh" /\ Free(r, UserRow)
        /\ tok' = [tok EXCEPT ![t] = Rotated(@),
                              ![next] = NewRow(tok[t].session, tok[t].born)]
        /\ next' = next + 1
        /\ isActive' = Flag(r)
        /\ children' = [children EXCEPT ![t] = @ \cup {next}]
        /\ End(r)
        /\ UNCHANGED <<account, pwd, linkUsed, ended, overlapped>>

-----------------------------------------------------------------------------
(* Logout.                                                                 *)

\* The presented token is read, without a lock.
Logout(r, t) ==
    /\ Exists(t) /\ ~tok[t].revoked
    /\ Begin(r, "logoutRead", [Nothing EXCEPT !.token = t])
    /\ UNCHANGED <<tok, next, users, linkUsed, history>>

\* The revocation is flushed, which takes the row lock, and is_active computed:
\* a value equal to the one loaded is not written.
LogoutFlush(r) ==
    LET t == work[r].token
    IN  /\ pc[r] = "logoutRead" /\ Exists(t) /\ Free(r, t)
        /\ pc' = [pc EXCEPT ![r] = "logout"]
        /\ work' = [work EXCEPT ![r].touch = IF HasActive(t) = isActive THEN "none" ELSE "set",
                                ![r].active = HasActive(t),
                                ![r].held = {t}]
        /\ UNCHANGED <<tok, next, users, linkUsed, ghosts>>

LogoutCommit(r) ==
    LET t == work[r].token
    IN  /\ pc[r] = "logout"
        /\ work[r].touch # "none" => Free(r, UserRow)
        /\ tok' = [tok EXCEPT ![t] = Revoked(@)]
        /\ isActive' = Flag(r)
        /\ ended' = ended \cup {tok[t].session}
        /\ End(r)
        /\ UNCHANGED <<next, account, pwd, linkUsed, children, overlapped>>

-----------------------------------------------------------------------------
(* A new password: PATCH /users/me/password, which checks the current one, *)
(* or POST /auth/reset-password, which checks the emailed link.            *)

SetPassword(r, viaLink) ==
    /\ account /\ pwd < MaxPasswords
    /\ viaLink => ~linkUsed
    /\ Begin(r, "password",
             [Nothing EXCEPT !.viaLink = viaLink, !.active = FALSE,
                             !.touch = IF isActive THEN "set" ELSE "none"])
    /\ UNCHANGED <<tok, next, users, linkUsed, history>>

\* Mutant: a session with autoflush, which writes the users row first.
BugSweep(r) ==
    /\ pc[r] = "password" /\ Free(r, UserRow)
    /\ pc' = [pc EXCEPT ![r] = "sweeping"]
    /\ work' = [work EXCEPT ![r].todo = {t \in Token : Exists(t)}, ![r].held = {UserRow}]
    /\ UNCHANGED <<tok, next, users, linkUsed, ghosts>>

\* UPDATE refresh_tokens ... WHERE user_id: the rows the statement sees.
Sweep(r) ==
    /\ pc[r] = "password"
    /\ pc' = [pc EXCEPT ![r] = "sweeping"]
    /\ work' = [work EXCEPT ![r].todo = {t \in Token : Exists(t)}]
    /\ UNCHANGED <<tok, next, users, linkUsed, ghosts>>

\* The statement of r gets to a row x, whoever had it locked, and locks it unless
\* it is gone.
Reach(r, x) ==
    /\ x \in work[r].todo /\ Free(r, x)
    /\ work' = [work EXCEPT ![r].todo = @ \ {x},
                            ![r].held = IF IF x = LinkRow THEN account ELSE Exists(x)
                                        THEN @ \cup {x} ELSE @]
    /\ UNCHANGED <<tok, next, users, linkUsed, pc, ghosts>>

SweepLock(r) ==
    /\ pc[r] = "sweeping"
    /\ \E t \in Token : Reach(r, t)

\* The users row is updated when the commit flushes.
PasswordWrite(r) ==
    /\ pc[r] = "sweeping" /\ work[r].todo = {}
    /\ account /\ Free(r, UserRow)
    /\ pc' = [pc EXCEPT ![r] = "written"]
    /\ work' = [work EXCEPT ![r].held = @ \cup {UserRow}]
    /\ UNCHANGED <<tok, next, users, linkUsed, ghosts>>

\* Mutant: the revocations are left to another commit.
BugPasswordCommit(r) ==
    /\ pc[r] = "written"
    /\ work[r].viaLink => Free(r, LinkRow)
    /\ pwd < MaxPasswords
    /\ pwd' = pwd + 1
    /\ isActive' = Flag(r)
    /\ linkUsed' = (linkUsed \/ work[r].viaLink)
    /\ End(r)
    /\ UNCHANGED <<tok, next, account, ghosts>>

\* The password, the revocations, the flag and the used link together.
PasswordCommit(r) ==
    /\ pc[r] = "written"
    /\ work[r].viaLink => Free(r, LinkRow)
    /\ tok' = [t \in Token |-> IF t \in work[r].held THEN Revoked(tok[t]) ELSE tok[t]]
    /\ pwd < MaxPasswords
    /\ pwd' = pwd + 1
    /\ isActive' = Flag(r)
    /\ linkUsed' = (linkUsed \/ work[r].viaLink)
    /\ End(r)
    /\ UNCHANGED <<next, account, ghosts>>

-----------------------------------------------------------------------------
(* The end of the account, and failures.                                   *)

\* DELETE /users/me, the password checked: db.delete loads the tokens and the
\* links that the ORM is to delete with the account.
Delete(r) ==
    /\ account
    /\ Begin(r, "delete", [Nothing EXCEPT !.todo = {t \in Token : Exists(t)} \cup {LinkRow}])
    /\ UNCHANGED <<tok, next, users, linkUsed, history>>

\* A row is deleted, by the ORM or by the cascade of the foreign key.
DeleteRow(r) ==
    /\ pc[r] \in {"delete", "cascade"}
    /\ \E x \in Token \cup {LinkRow} : Reach(r, x)

\* Mutant: the foreign key does not cascade.
BugDeleteUser(r) ==
    /\ pc[r] = "delete" /\ work[r].todo = {}
    /\ account /\ Free(r, UserRow)
    /\ pc' = [pc EXCEPT ![r] = "cascade"]
    /\ work' = [work EXCEPT ![r].held = @ \cup {UserRow}]
    /\ UNCHANGED <<tok, next, users, linkUsed, ghosts>>

\* Then the users row, and with it the tokens that were issued meanwhile.
DeleteUser(r) ==
    /\ pc[r] = "delete" /\ work[r].todo = {}
    /\ account /\ Free(r, UserRow)
    /\ pc' = [pc EXCEPT ![r] = "cascade"]
    /\ work' = [work EXCEPT ![r].todo = {t \in Token : Exists(t)} \ work[r].held,
                            ![r].held = @ \cup {UserRow}]
    /\ UNCHANGED <<tok, next, users, linkUsed, ghosts>>

DeleteCommit(r) ==
    /\ pc[r] = "cascade" /\ work[r].todo = {}
    /\ account' = FALSE
    /\ tok' = [t \in Token |-> IF t \in work[r].held THEN NoRow ELSE tok[t]]
    /\ End(r)
    /\ UNCHANGED <<next, pwd, isActive, linkUsed, ghosts>>

\* The row a handler is about to write is gone: the flush raises, the foreign
\* key refuses the insert, or a second deletion matches nothing.
Vanished(r) ==
    /\ \/ pc[r] = "login" /\ ~account
       \/ pc[r] \in {"sweeping", "delete"} /\ work[r].todo = {} /\ ~account
       \/ pc[r] = "logoutRead" /\ ~Exists(work[r].token)
    /\ End(r)
    /\ UNCHANGED <<tok, next, users, linkUsed, ghosts>>

\* A broken connection, a recycled instance, or PostgreSQL breaking a deadlock:
\* the transaction is rolled back.
Abort(r) ==
    /\ pc[r] # "idle"
    /\ End(r)
    /\ UNCHANGED <<tok, next, users, linkUsed, ghosts>>

Expire(t) ==
    /\ t \in Expiring /\ Exists(t) /\ ~tok[t].expired
    /\ tok' = [tok EXCEPT ![t].expired = TRUE]
    /\ UNCHANGED <<next, users, linkUsed, pc, work, ghosts>>

-----------------------------------------------------------------------------
Next ==
    \/ \E r \in Request :
          \/ Login(r) \/ LoginCommit(r)
          \/ \E t \in Token : Refresh(r, t) \/ Logout(r, t)
          \/ RefreshCommit(r) \/ LogoutFlush(r) \/ LogoutCommit(r)
          \/ \E viaLink \in BOOLEAN : SetPassword(r, viaLink)
          \/ Sweep(r) \/ SweepLock(r) \/ PasswordWrite(r) \/ PasswordCommit(r)
          \/ Delete(r) \/ DeleteRow(r) \/ DeleteUser(r) \/ DeleteCommit(r)
          \/ Vanished(r) \/ Abort(r)
    \/ \E t \in Token : Expire(t)

Spec == Init /\ [][Next]_vars

-----------------------------------------------------------------------------
(* Properties.                                                             *)

\* A refresh token buys one successor, however many requests present it at the
\* same time, so that a session never has two live tokens (refresh).
OneTokenPerSession ==
    /\ \A t \in Token : Cardinality(children[t]) <= 1
    /\ \A t, u \in Token : Live(t) /\ Live(u) /\ tok[t].session = tok[u].session => t = u

\* No token outlives its account, whatever was being issued or rotated while
\* it was deleted (delete_account and the foreign keys).
NoOrphanToken == ~account => \A t \in Token : ~Exists(t)

\* The rows that the next statement of r may have to wait for.
Wants(r) ==
    CASE pc[r] \in {"login", "refresh"} -> {UserRow}
      [] pc[r] = "logoutRead" -> {work[r].token}
      [] pc[r] = "logout" -> IF work[r].touch = "none" THEN {} ELSE {UserRow}
      [] pc[r] \in {"sweeping", "delete"} -> IF work[r].todo = {} THEN {UserRow} ELSE work[r].todo
      [] pc[r] = "written" -> IF work[r].viaLink THEN {LinkRow} ELSE {}
      [] pc[r] = "cascade" -> work[r].todo
      [] OTHER -> {}

\* Handlers that may all wait for one another.
Circle(D) ==
    /\ D # {}
    /\ \A r \in D : \E x \in Wants(r) : \E s \in D \ {r} : Blocks(s, r, x)

\* Logins, rotations and logouts never deadlock among themselves, nor with one
\* new password: every handler but a deletion takes the token rows it locks
\* before the users row (refresh, logout, and the UPDATE that a session without
\* autoflush executes first).  Handlers wait in a circle only if one of them is a
\* deletion, or two of them are new passwords that lock the same tokens in
\* different orders; PostgreSQL then breaks the circle.
DeadlocksAreKnown ==
    \A D \in SUBSET Request : Circle(D) =>
        \/ \E r \in D : pc[r] \in {"delete", "cascade"}
        \/ \E r, s \in D : r # s /\ pc[r] = "sweeping" /\ pc[s] = "sweeping"

\* users.py on a new password: "Kill every session, so a stolen refresh token
\* stops working the moment the password changes."
SessionsKnowPassword == \A t \in Token : Live(t) => tok[t].born = pwd

\* activity.py: is_active means that "the user currently has at least one
\* *valid* refresh token".  It is looked at between requests, and nothing
\* updates it when a token expires.
IsActiveIsAccurate ==
    account /\ (\A r \in Request : pc[r] = "idle") /\ (\A t \in Token : Exists(t) => ~tok[t].expired)
        => (isActive <=> \E t \in Token : Live(t))

\* auth.py on logout, which must not leave "a valid refresh token [...] alive
\* in the DB": a session that was logged out has no live token.
LogoutEndsSession == \A t \in Token : Live(t) => tok[t].session \notin ended

\* As long as no two requests have overlapped, all three hold, whatever was
\* begun and cut off.
SerialSessionsAreTrue ==
    ~overlapped => SessionsKnowPassword /\ IsActiveIsAccurate /\ LogoutEndsSession

\* However they overlap, a session does not fork, and none outlives its account.
SessionsDoNotFork == OneTokenPerSession /\ NoOrphanToken

=============================================================================

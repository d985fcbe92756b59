-------------------------- MODULE EmailVerification --------------------------
(***************************************************************************)
(* Email addresses and their verification in NC++: registration, the       *)
(* verification links and their re-sending, the change of an address, and  *)
(* the verification itself, over the users and email_tokens tables.        *)
(*                                                                         *)
(* A handler is one READ COMMITTED transaction (registration: two), cut    *)
(* where it reads, where a statement takes row locks, one row after        *)
(* another, and where it commits.  The ORM writes only the columns whose   *)
(* value differs from the one it loaded, and a flush writes the users row  *)
(* before the token rows.  A deletion is one step (Sessions.tla has what   *)
(* its locks do).                                                          *)
(* Usernames, unique like the addresses and never changed, are left out.   *)
(* Only tokens of purpose VERIFY_EMAIL are modelled; one that expires is   *)
(* as dead as one that was used.  A refused request changes nothing and is *)
(* left out, and so are the notices of registrations for a taken address.  *)
(***************************************************************************)
EXTENDS Integers, FiniteSets

CONSTANTS
    User,           \* ids of accounts, never used twice
    Email,          \* addresses
    Request,        \* request handlers that may run at the same time
    Patient,        \* accounts whose requests never overlap each other
    MaxTokens,      \* bound: verification tokens ever issued
    NoRow, Null

ASSUME VerificationAssumption ==
    MaxTokens \in Nat /\ Patient \subseteq User /\ IsFiniteSet(Request)

Token == 1..MaxTokens

\* changed: email_changed_at is within EMAIL_CHANGE_COOLDOWN_HOURS.
Account == [email: Email, verified: BOOLEAN, changed: BOOLEAN]

\* to: the address the link was mailed to; recent: created_at is within
\* VERIFICATION_RESEND_COOLDOWN_MINUTES.
Row == [user: User, to: Email, used: BOOLEAN, recent: BOOLEAN]

ASSUME VerificationNullAssumption ==
    /\ NoRow \notin Account \cup Row
    /\ Null \notin User \cup Email \cup Token

Place == {"idle", "register", "registered", "issue", "burn", "burning", "staged",
          "verify", "flushed"}

\* A handler's local state: its user, the address it registers, changes to or
\* mails, the users row as it was loaded, whether it changes the address, the
\* token it was given, the tokens its UPDATE has still to mark used and those it
\* has marked.
Work == [user: User \cup {Null}, email: Email \cup {Null}, loaded: Account \cup {NoRow},
         changes: BOOLEAN, token: Token \cup {Null}, todo: SUBSET Token, burnt: SUBSET Token]
Nothing == [user |-> Null, email |-> Null, loaded |-> NoRow, changes |-> FALSE,
            token |-> Null, todo |-> {}, burnt |-> {}]

VARIABLES
    acct,       \* the users table
    tok,        \* the email_tokens table, verification tokens
    next,       \* the next token
    fresh,      \* the ids of accounts not used so far
    pc,         \* where each handler is
    work,       \* what it has read so far
    proven,     \* addresses an account has shown to own (a ghost)
    former,     \* addresses an account had before (a ghost)
    warned,     \* addresses warned of a change (a ghost)
    changes     \* changes of address within the last day (a ghost)

vars == <<acct, tok, next, fresh, pc, work, proven, former, warned, changes>>
ghosts == <<proven, former, warned, changes>>

TypeOK ==
    /\ acct \in [User -> Account \cup {NoRow}]
    /\ tok \in [Token -> Row \cup {NoRow}]
    /\ next \in 1..(MaxTokens + 1)
    /\ fresh \subseteq User
    /\ pc \in [Request -> Place]
    /\ work \in [Request -> Work]
    /\ proven \in [User -> SUBSET Email]
    /\ former \in [User -> SUBSET Email]
    /\ warned \in [User -> SUBSET Email]
    /\ changes \in [User -> Nat]

Init ==
    /\ acct = [u \in User |-> NoRow]
    /\ tok = [t \in Token |-> NoRow]
    /\ next = 1
    /\ fresh = User
    /\ pc = [r \in Request |-> "idle"]
    /\ work = [r \in Request |-> Nothing]
    /\ proven = [u \in User |-> {}]
    /\ former = [u \in User |-> {}]
    /\ warned = [u \in User |-> {}]
    /\ changes = [u \in User |-> 0]

-----------------------------------------------------------------------------
(* The tables.                                                             *)

Exists(u) == acct[u] # NoRow
Taken(e) == \E u \in User : Exists(u) /\ acct[u].email = e
Of(u) == {t \in Token : tok[t] # NoRow /\ tok[t].user = u}
Unused(u) == {t \in Of(u) : ~tok[t].used}

\* The token rows and the users row a handler holds locked.
LocksToken(r, t) == t \in work[r].burnt
LocksUser(r, u) ==
    /\ work[r].user = u
    /\ \/ pc[r] = "staged"
       \/ pc[r] = "flushed" /\ ~work[r].loaded.verified

TokenFree(r, t) == \A s \in Request \ {r} : ~LocksToken(s, t)
UserFree(r, u) == \A s \in Request \ {r} : ~LocksUser(s, u)

\* A change of address that is written and not committed holds the users row
\* against new token rows too, and the address in its unique index.
RowFree(r, u) == \A s \in Request \ {r} : ~(pc[s] = "staged" /\ work[s].user = u)
EmailFree(r, e) == \A s \in Request \ {r} : ~(pc[s] = "staged" /\ work[s].email = e)

\* The bound on tokens leaves room for those that are about to be inserted.
Issuing == {"register", "registered", "issue", "burn", "burning", "staged"}
Room == next + Cardinality({r \in Request : pc[r] \in Issuing}) <= MaxTokens

Begin(r, place, what) ==
    /\ pc[r] = "idle"
    /\ what.user \in Patient => \A s \in Request : work[s].user # what.user
    /\ pc' = [pc EXCEPT ![r] = place]
    /\ work' = [work EXCEPT ![r] = what]

Go(r, place) == pc' = [pc EXCEPT ![r] = place]

End(r) ==
    /\ pc' = [pc EXCEPT ![r] = "idle"]
    /\ work' = [work EXCEPT ![r] = Nothing]

-----------------------------------------------------------------------------
(* Registration.                                                           *)

\* The address is not taken.
Register(r, u, e) ==
    /\ u \in fresh /\ ~Taken(e) /\ Room
    /\ fresh' = fresh \ {u}
    /\ Begin(r, "register", [Nothing EXCEPT !.user = u, !.email = e])
    /\ UNCHANGED <<acct, tok, next, ghosts>>

\* The account is committed; a unique index may refuse it.
Insert(r) ==
    LET u == work[r].user
        e == work[r].email
    IN  /\ pc[r] = "register" /\ EmailFree(r, e)
        /\ IF Taken(e)
           THEN End(r) /\ UNCHANGED acct
           ELSE /\ acct' = [acct EXCEPT ![u] = [email |-> e, verified |-> FALSE, changed |-> FALSE]]
                /\ Go(r, "registered")
                /\ UNCHANGED work
        /\ UNCHANGED <<tok, next, fresh, ghosts>>

\* The new row is read back, and a link is issued in a second transaction.
Refreshed(r) ==
    LET u == work[r].user
    IN  /\ pc[r] = "registered" /\ Exists(u)
        /\ work' = [work EXCEPT ![r].email = acct[u].email, ![r].loaded = acct[u]]
        /\ Go(r, "issue")
        /\ UNCHANGED <<acct, tok, next, fresh, ghosts>>

-----------------------------------------------------------------------------
(* Issuing links.                                                          *)

\* POST /auth/resend-verification.
Resend(r, u) ==
    /\ Exists(u) /\ ~acct[u].verified /\ Room
    /\ Begin(r, "issue", [Nothing EXCEPT !.user = u, !.email = acct[u].email, !.loaded = acct[u]])
    /\ UNCHANGED <<acct, tok, next, fresh, ghosts>>

\* PATCH /users/me/email: not the present address, not within a day of the
\* last change, not another account's address.  No cooldown on the link.
ChangeEmail(r, u, e) ==
    /\ Exists(u) /\ e # acct[u].email /\ ~acct[u].changed /\ ~Taken(e) /\ Room
    /\ Begin(r, "burn", [Nothing EXCEPT !.user = u, !.email = e, !.loaded = acct[u], !.changes = TRUE])
    /\ UNCHANGED <<acct, tok, next, fresh, ghosts>>

\* issue_email_verification's cooldown.
CoolingDown(u) == \E t \in Of(u) : tok[t].recent

Cooldown(r) ==
    /\ pc[r] = "issue"
    /\ IF CoolingDown(work[r].user) THEN End(r) ELSE Go(r, "burn") /\ UNCHANGED work
    /\ UNCHANGED <<acct, tok, next, fresh, ghosts>>

\* Mutant: the earlier links are left alone.
BugToBurn(u) == {}

\* The UPDATE that marks the still-live tokens used: it finds the committed ones ...
ToBurn(u) == Unused(u)

Scan(r) ==
    /\ pc[r] = "burn"
    /\ work' = [work EXCEPT ![r].todo = ToBurn(work[r].user)]
    /\ Go(r, "burning")
    /\ UNCHANGED <<acct, tok, next, fresh, ghosts>>

\* ... and takes them one by one, waiting for those that others have locked and
\* passing over those that were used or deleted meanwhile.
Burn(r) ==
    \E t \in work[r].todo :
        /\ pc[r] = "burning" /\ TokenFree(r, t)
        /\ work' = [work EXCEPT ![r].todo = @ \ {t},
                                ![r].burnt = IF t \in Unused(work[r].user) THEN @ \cup {t} ELSE @]
        /\ UNCHANGED <<acct, tok, next, fresh, pc, ghosts>>

Burned(r) == pc[r] = "burning" /\ work[r].todo = {}

\* Mutants: the address changes and stays verified, or the day does not start.
BugChanged(row, w) == [row EXCEPT !.email = w.email, !.changed = TRUE]
BugChangedAgain(row, w) == [row EXCEPT !.email = w.email, !.verified = FALSE]

\* The users row after a change of address: verified is written only if it was
\* loaded as set.
Changed(row, w) ==
    [email |-> w.email, verified |-> row.verified /\ ~w.loaded.verified, changed |-> TRUE]

\* Mutant: the columns swapped.
BugNewRow(w) == [user |-> w.email, to |-> w.user, used |-> FALSE, recent |-> TRUE]

NewRow(w) == [user |-> w.user, to |-> w.email, used |-> FALSE, recent |-> TRUE]

\* Mutant: the warning goes to the new address.
BugWarns(w) == w.email

\* EMAIL_CHANGED goes to the address that was loaded.
Warns(w) == w.loaded.email

\* The flush of a change of address writes the users row first.  The unique index
\* may refuse the address, and is waited for if another change to it is written.
Stage(r) ==
    LET w == work[r]
    IN  /\ Burned(r) /\ w.changes
        /\ Exists(w.user) /\ UserFree(r, w.user)
        /\ EmailFree(r, w.email) /\ ~Taken(w.email)
        /\ Go(r, "staged")
        /\ UNCHANGED <<acct, tok, next, fresh, work, ghosts>>

\* Then the new token is inserted, with its email, and all of it is committed.
IssueCommit(r) ==
    LET w == work[r]
        u == w.user
    IN  /\ IF w.changes THEN pc[r] = "staged" ELSE Burned(r) /\ RowFree(r, u)
        /\ Exists(u)
        /\ tok' = [t \in Token |-> IF t = next THEN NewRow(w)
                                   ELSE IF t \in w.burnt /\ tok[t] # NoRow
                                   THEN [tok[t] EXCEPT !.used = TRUE] ELSE tok[t]]
        /\ next' = next + 1
        /\ UNCHANGED fresh
        /\ IF w.changes
           THEN /\ acct' = [acct EXCEPT ![u] = Changed(@, w)]
                /\ former' = [former EXCEPT ![u] = @ \cup {acct[u].email}]
                /\ warned' = [warned EXCEPT ![u] = @ \cup {Warns(w)}]
                /\ changes' = [changes EXCEPT ![u] = @ + 1]
                /\ UNCHANGED proven
           ELSE UNCHANGED <<acct, ghosts>>
        /\ End(r)

-----------------------------------------------------------------------------
(* Following a link.                                                       *)

\* POST /auth/verify: token and account are read.
Verify(r, t) ==
    /\ tok[t] # NoRow /\ ~tok[t].used
    /\ Begin(r, "verify", [Nothing EXCEPT !.user = tok[t].user, !.token = t,
                                          !.loaded = acct[tok[t].user]])
    /\ UNCHANGED <<acct, tok, next, fresh, ghosts>>

\* The flush writes the users row (verified, unless it was loaded as set) ...
VerifyFlush(r) ==
    LET w == work[r]
    IN  /\ pc[r] = "verify" /\ Exists(w.user)
        /\ ~w.loaded.verified => UserFree(r, w.user)
        /\ Go(r, "flushed")
        /\ UNCHANGED <<acct, tok, next, fresh, work, ghosts>>

\* ... then the token, and commits.
VerifyCommit(r) ==
    LET w == work[r]
        t == w.token
    IN  /\ pc[r] = "flushed" /\ tok[t] # NoRow /\ TokenFree(r, t)
        /\ tok' = [tok EXCEPT ![t].used = TRUE]
        /\ acct' = IF w.loaded.verified THEN acct ELSE [acct EXCEPT ![w.user].verified = TRUE]
        /\ proven' = [proven EXCEPT ![w.user] = @ \cup {tok[t].to}]
        /\ End(r)
        /\ UNCHANGED <<next, fresh, former, warned, changes>>

-----------------------------------------------------------------------------
(* The end of a request otherwise, and time.                               *)

\* Mutant: rows that vanish late are waited for.
BugRefused(r) ==
    /\ pc[r] \in {"registered", "verify"} /\ ~Exists(work[r].user)
    /\ End(r)
    /\ UNCHANGED <<acct, tok, next, fresh, ghosts>>

\* The account or the token is gone, or the address was taken meanwhile.
Refused(r) ==
    /\ \/ pc[r] \in {"registered", "verify"} /\ ~Exists(work[r].user)
       \/ pc[r] = "flushed" /\ tok[work[r].token] = NoRow
       \/ /\ Burned(r)
          /\ ~Exists(work[r].user) \/ (work[r].changes /\ Taken(work[r].email))
    /\ End(r)
    /\ UNCHANGED <<acct, tok, next, fresh, ghosts>>

\* Transactions wait for one another in a circle: PostgreSQL rolls one of them back.
\* (The other rows are waited for by statements of handlers that hold none, or
\* held by handlers that wait for none.)
WaitsFor(r, s) ==
    \/ pc[r] = "burning" /\ \E t \in work[r].todo : LocksToken(s, t)
    \/ pc[r] = "flushed" /\ LocksToken(s, work[r].token)
    \/ Burned(r) /\ work[r].changes /\ LocksUser(s, work[r].user)

Deadlock(r) ==
    /\ \E D \in SUBSET Request : r \in D /\ \A q \in D : \E s \in D \ {q} : WaitsFor(q, s)
    /\ End(r)
    /\ UNCHANGED <<acct, tok, next, fresh, ghosts>>

\* A broken connection, a recycled instance: what is not committed is undone.
Abort(r) ==
    /\ pc[r] # "idle"
    /\ End(r)
    /\ UNCHANGED <<acct, tok, next, fresh, ghosts>>

\* DELETE /users/me: the tokens go with the account.
Delete(u) ==
    /\ Exists(u)
    /\ \A r \in Request : ~LocksUser(r, u) /\ \A t \in Of(u) : ~LocksToken(r, t)
    /\ acct' = [acct EXCEPT ![u] = NoRow]
    /\ tok' = [t \in Token |-> IF t \in Of(u) THEN NoRow ELSE tok[t]]
    /\ UNCHANGED <<next, fresh, pc, work, ghosts>>

Expire(t) ==
    /\ tok[t] # NoRow /\ ~tok[t].used
    /\ tok' = [tok EXCEPT ![t].used = TRUE]
    /\ UNCHANGED <<acct, next, fresh, pc, work, ghosts>>

CooldownPasses(u) ==
    /\ CoolingDown(u)
    /\ tok' = [t \in Token |-> IF t \in Of(u) THEN [tok[t] EXCEPT !.recent = FALSE] ELSE tok[t]]
    /\ UNCHANGED <<acct, next, fresh, pc, work, ghosts>>

DayPasses(u) ==
    /\ Exists(u) /\ acct[u].changed /\ ~CoolingDown(u)
    /\ acct' = [acct EXCEPT ![u].changed = FALSE]
    /\ changes' = [changes EXCEPT ![u] = 0]
    /\ UNCHANGED <<tok, next, fresh, pc, work, proven, former, warned>>

-----------------------------------------------------------------------------
Serve(r) ==
    \/ Insert(r) \/ Refreshed(r) \/ Cooldown(r) \/ Scan(r) \/ Burn(r) \/ Stage(r) \/ IssueCommit(r)
    \/ VerifyFlush(r) \/ VerifyCommit(r) \/ Refused(r) \/ Deadlock(r)

Next ==
    \/ \E r \in Request, u \in User :
          \/ \E e \in Email : Register(r, u, e) \/ ChangeEmail(r, u, e)
          \/ Resend(r, u)
    \/ \E r \in Request :
          \/ Insert(r) \/ Refreshed(r) \/ Cooldown(r) \/ Scan(r) \/ Burn(r) \/ Stage(r) \/ IssueCommit(r)
          \/ \E t \in Token : Verify(r, t)
          \/ VerifyFlush(r) \/ VerifyCommit(r) \/ Refused(r) \/ Deadlock(r) \/ Abort(r)
    \/ \E u \in User : Delete(u) \/ CooldownPasses(u) \/ DayPasses(u)
    \/ \E t \in Token : Expire(t)

Spec == Init /\ [][Next]_vars

\* A request that was begun is served, row locks are granted in turn, and
\* PostgreSQL detects deadlocks.
FairSpec == Spec /\ \A r \in Request : SF_vars(Serve(r))

-----------------------------------------------------------------------------
(* Properties.                                                             *)

Owned(u) == Exists(u) /\ acct[u].verified => acct[u].email \in proven[u]

\* users.py on a changed address: "the new address isn't trusted until
\* re-verified".  A verified address is one a link was mailed to and followed.
VerifiedMeansOwned == \A u \in User : Owned(u)

\* The same of an account whose requests do not overlap, whatever is cut off
\* and whatever other accounts do with the same addresses meanwhile.
PatientVerifiedMeansOwned == \A u \in Patient : Owned(u)

\* verification.py: "Any still-live verification tokens are invalidated first,
\* so only the newest link works".
OnlyNewestLinkWorks == \A u \in Patient : Cardinality(Unused(u)) <= 1

\* users.py: "You can only change your email once per day."
OneChangeADay == \A u \in Patient : changes[u] <= 1

\* users.py: "warn the previous address so an unauthorised change is
\* recoverable".
OldAddressIsWarned == \A u \in Patient : Exists(u) => former[u] \subseteq warned[u]

\* Handlers that lock users rows and token rows in different orders end all
\* the same: by their commit, or because the database breaks the deadlock.
RequestsEnd == \A r \in Request : (pc[r] # "idle") ~> (pc[r] = "idle")

\* What an account that never has two requests in flight can rely on besides its
\* verified address: one working link, one change a day, a warned old address.
PatientAccountIsSafe == OnlyNewestLinkWorks /\ OneChangeADay /\ OldAddressIsWarned

=============================================================================

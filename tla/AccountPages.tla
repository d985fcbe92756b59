----------------------------- MODULE AccountPages -----------------------------
(***************************************************************************)
(* The forms of NC++ that concern an account: Register, ForgotPassword,    *)
(* PasswordReset, VerifyEmail, the three forms of Account and the resend   *)
(* button of Home.  One page is mounted at a time.  A form sends at most   *)
(* one request and says what came of it; some go on with a second request  *)
(* (reload, logout).  PasswordReset and VerifyEmail also ask the server    *)
(* when they mount, in an effect that StrictMode runs twice.               *)
(*                                                                         *)
(* The server is abstracted to what the pages can tell apart: the two      *)
(* links, whether the account is verified, whether a reload of the tab can *)
(* still restore its session.                                              *)
(***************************************************************************)
EXTENDS Integers, FiniteSets

CONSTANTS
    MaxMounts,  \* bound: pages opened, and requests whose answer never comes
    OwnLink     \* the verification link is the signed-in account's own

AccountPagesConstants == MaxMounts \in Nat \ {0} /\ OwnLink \in BOOLEAN

\* "outside" is any page that has none of these forms: login, landing.
Page == {"register", "forgot", "reset", "verify", "account", "home", "outside"}
Form == {"register", "forgot", "reset", "verify", "password", "email", "delete", "resend"}

\* The forms that each page mounts.
FormsOf(p) ==
    CASE p = "account" -> {"password", "email", "delete"}
      [] p = "home" -> {"resend"}
      [] p = "outside" -> {}
      [] OTHER -> {p}

\* The second request of a form whose first succeeded.
Then(f) ==
    CASE f \in {"password", "delete"} -> "logout"
      [] f = "email" -> "reload"
      [] OTHER -> "none"

\* What a form shows: busy, and an error or a success message.
Shown == [busy : BOOLEAN, error : BOOLEAN, message : BOOLEAN]
Blank == [busy |-> FALSE, error |-> FALSE, message |-> FALSE]

User == {"none", "unverified", "verified"}

\* A request: the form and mount it belongs to, which of its kind it is, how far
\* it got, and the user that the answer to a reload carries.
Request == [form : Form, kind : {"submit", "logout", "reload", "validate"},
            mount : Nat, run : 1..2, phase : {"asked", "ok", "refused"}, got : User]

VARIABLES
    page, mount,    \* the page that is mounted, and the number of its mount
    form,           \* what the mounted forms show
    check,          \* PasswordReset: "checking", "form" or "dead" (tokenError)
    flight,         \* the requests that have not come back
    user,           \* the cached user: "none", "unverified", "verified"
    resetLink, verifyLink,  \* the emailed links: "good" or "dead"
    verified,       \* the account's verified flag, on the server
    dead,           \* the sessions are revoked and the cookie cleared, on the server
    did,            \* the server did what the form last asked (a ghost)
    late,           \* a reload was on its way, or due, when the session was dropped (a ghost)
    effect,         \* VerifyEmail's second effect is about to run
    lost

server == <<resetLink, verifyLink, verified, dead>>
vars == <<page, mount, form, check, flight, user, server, did, late, effect, lost>>

TypeOK ==
    /\ page \in Page /\ mount \in 1..MaxMounts
    /\ form \in [Form -> Shown] /\ did \in [Form -> BOOLEAN]
    /\ check \in {"checking", "form", "dead"}
    /\ flight \subseteq Request /\ \A r \in flight : r.mount \in 1..mount
    /\ user \in User
    /\ resetLink \in {"good", "dead"} /\ verifyLink \in {"good", "dead"}
    /\ verified \in BOOLEAN /\ dead \in BOOLEAN /\ late \in BOOLEAN
    /\ effect \in BOOLEAN /\ lost \in 0..MaxMounts

New(f, k, n, i) == [form |-> f, kind |-> k, mount |-> n, run |-> i, phase |-> "asked", got |-> "none"]

\* The routes' guards: account pages need a user, the public ones its absence.
Allowed(p) ==
    CASE p \in {"account", "home"} -> user # "none"
      [] p \in {"register", "forgot"} -> user = "none"
      [] OTHER -> TRUE

\* Mutant: VerifyEmail without its ref.
BugEffects(p, n) ==
    CASE p = "reset" -> {New("reset", "validate", n, 1), New("reset", "validate", n, 2)}
      [] p = "verify" -> {New("verify", "submit", n, 1), New("verify", "submit", n, 2)}
      [] OTHER -> {}

\* The mount effects.  PasswordReset validates its link in each run of the
\* effect; VerifyEmail's ref keeps the second run from sending anything.
Effects(p, n) ==
    CASE p = "reset" -> {New("reset", "validate", n, 1), New("reset", "validate", n, 2)}
      [] p = "verify" -> {New("verify", "submit", n, 1)}
      [] OTHER -> {}

\* A page as it mounts.
Fresh == [f \in Form |-> [Blank EXCEPT !.busy = f = "verify"]]

Init ==
    /\ page \in Page /\ mount = 1 /\ form = Fresh /\ check = "checking"
    /\ user \in {"none", "unverified"} /\ Allowed(page)
    /\ flight = Effects(page, 1)
    /\ resetLink \in {"good", "dead"} /\ verifyLink \in {"good", "dead"}
    /\ verified = FALSE /\ dead = FALSE
    /\ did = [f \in Form |-> FALSE] /\ late = FALSE /\ effect = FALSE /\ lost = 0

\* The user opens another page, or is sent to one by a guard.
Open(p) ==
    /\ mount + lost < MaxMounts /\ p # page /\ Allowed(p)
    /\ page' = p /\ mount' = mount + 1
    /\ form' = Fresh /\ check' = "checking"
    /\ flight' = flight \cup Effects(p, mount + 1)
    /\ did' = [f \in Form |-> FALSE] /\ effect' = FALSE
    /\ UNCHANGED <<user, server, late, lost>>

\* A form can be sent when it is on screen and its button is enabled; the email
\* verification has none, and a form that succeeded is replaced by its message,
\* but for those of the account and home pages.
CanSubmit(f) ==
    /\ f \in FormsOf(page) \ {"verify"} /\ Allowed(page)
    /\ ~form[f].busy
    /\ f = "reset" => check = "form"
    /\ f \in {"register", "forgot", "reset"} => ~form[f].message
    /\ f = "resend" => user = "unverified"

Submit(f) ==
    \E i \in 1..2 :
        /\ CanSubmit(f)
        /\ New(f, "submit", mount, 3 - i) \notin flight => i = 1
        /\ New(f, "submit", mount, i) \notin flight
        /\ form' = [form EXCEPT ![f] = [Blank EXCEPT !.busy = TRUE]]
        /\ flight' = flight \cup {New(f, "submit", mount, i)}
        /\ did' = [did EXCEPT ![f] = FALSE]
        /\ UNCHANGED <<page, mount, check, user, server, late, effect, lost>>

-----------------------------------------------------------------------------
(* The server.                                                             *)

\* What the server may answer: a link that is used or wrong is refused, and the
\* limiter, a failing server, a validation or a session that has ended, here or on
\* another device, refuses anything.
Answers(r) ==
    LET used == \/ r.form = "reset" /\ resetLink = "dead"
                \/ r.form = "verify" /\ r.kind = "submit" /\ verifyLink = "dead"
    IN  IF used THEN {"refused"} ELSE {"ok", "refused"}

\* GET /users/me.
Fetched == IF verified THEN "verified" ELSE "unverified"

\* The form that asked is still on screen.
Mounted(r) == r.mount = mount /\ r.form \in FormsOf(page)

Serve(r) ==
    /\ r.phase = "asked"
    /\ \E a \in Answers(r) :
          LET does(f) == a = "ok" /\ r.kind = "submit" /\ r.form = f
          IN  /\ flight' = (flight \ {r}) \cup
                    {[r EXCEPT !.phase = a, !.got = IF r.kind = "reload" THEN Fetched ELSE "none"]}
              /\ resetLink' = IF does("reset") THEN "dead" ELSE resetLink
              /\ verifyLink' = IF does("verify") THEN "dead" ELSE verifyLink
              /\ verified' = ((verified \/ (does("verify") /\ OwnLink)) /\ ~does("email"))
              /\ dead' = (dead \/ does("password") \/ does("delete") \/ does("reset"))
              /\ did' = IF a = "ok" /\ r.kind = "submit" /\ Mounted(r)
                        THEN [did EXCEPT ![r.form] = TRUE] ELSE did
              /\ UNCHANGED <<page, mount, form, check, user, late, effect, lost>>

-----------------------------------------------------------------------------
(* The answers.                                                            *)

\* setState on the form that asked, if it is still there.
Say(r, what) == form' = IF Mounted(r) THEN [form EXCEPT ![r.form] = what] ELSE form

Failed(r) ==
    Say(r, [form[r.form] EXCEPT !.busy = FALSE, !.error = TRUE])

\* A submission that succeeded: the message, or the second request.
SubmitOk(r) ==
    LET next == Then(r.form)
        said == r.form \notin {"password", "delete"}
    IN  /\ r.kind = "submit" /\ r.phase = "ok"
        /\ Say(r, [busy |-> next # "none", error |-> FALSE, message |-> said])
        /\ effect' = (effect \/ r.form = "verify")
        /\ flight' = (flight \ {r}) \cup (IF next = "none" THEN {} ELSE {New(r.form, next, r.mount, r.run)})
        /\ UNCHANGED <<page, mount, check, user, server, did, late, lost>>

SubmitRefused(r) ==
    /\ r.kind = "submit" /\ r.phase = "refused"
    /\ Failed(r)
    /\ flight' = flight \ {r}
    /\ UNCHANGED <<page, mount, check, user, server, did, late, effect, lost>>

\* Mutant: the password and delete forms leave the session in place.
BugDropped(r) == user

\* logout() drops the user whatever the answer.
Dropped(r) == "none"

\* The form goes on to the login page; when logout() threw, the guard does, which
\* leaves a page that needs a user.
LogoutLands(r) ==
    /\ r.kind = "logout" /\ r.phase # "asked"
    /\ user' = Dropped(r)
    /\ page' = IF r.phase = "ok" \/ page \in {"account", "home"} THEN "outside" ELSE page
    /\ late' = (late \/ \E q \in flight : q.kind = "reload" \/ q.form = "email")
    /\ flight' = flight \ {r}
    /\ Say(r, [form[r.form] EXCEPT !.busy = FALSE, !.error = r.phase = "refused"])
    /\ UNCHANGED <<mount, check, server, did, effect, lost>>

\* reload() sets the user; the email form is done, VerifyEmail's effect ignores
\* a failure.
ReloadLands(r) ==
    /\ r.kind = "reload" /\ r.phase # "asked"
    /\ user' = IF r.phase = "ok" THEN r.got ELSE user
    /\ effect' = (effect \/ r.phase = "ok")
    /\ flight' = flight \ {r}
    /\ IF r.form = "verify" THEN form' = form
       ELSE Say(r, [form[r.form] EXCEPT !.busy = FALSE, !.error = r.phase = "refused"])
    /\ UNCHANGED <<page, mount, check, server, did, late, lost>>

\* PasswordReset listens to the second run of its effect; the first was
\* cancelled when the second began.
ValidateLands(r) ==
    /\ r.kind = "validate" /\ r.phase # "asked"
    /\ check' = IF Mounted(r) /\ r.run = 2
                THEN (IF r.phase = "ok" THEN "form" ELSE "dead") ELSE check
    /\ flight' = flight \ {r}
    /\ UNCHANGED <<page, mount, form, user, server, did, late, effect, lost>>

\* The tab has verified an address, and its user says unverified.
Stale == form["verify"].message /\ user = "unverified"

\* VerifyEmail's second effect runs when `ok` or `user` has changed: any answer
\* that sets the user makes a new object of it.
Refetch ==
    /\ page = "verify" /\ effect
    /\ effect' = FALSE
    /\ flight' = IF Stale THEN flight \cup {New("verify", "reload", mount, 1)} ELSE flight
    /\ UNCHANGED <<page, mount, form, check, user, server, did, late, lost>>

\* The session of the tab is restored, with the user as it is or was.
Restored ==
    /\ user = "none" /\ ~dead /\ page = "verify"
    /\ user' \in {"unverified", Fetched} /\ effect' = TRUE
    /\ UNCHANGED <<page, mount, form, check, flight, server, did, late, lost>>

\* fetch rejects: the request or its answer is lost.
Lose(r) ==
    /\ r.phase \in {"asked", "ok"} /\ mount + lost < MaxMounts
    /\ flight' = (flight \ {r}) \cup {[r EXCEPT !.phase = "refused"]}
    /\ lost' = lost + 1
    /\ UNCHANGED <<page, mount, form, check, user, server, did, late, effect>>

Answer(r) ==
    Serve(r) \/ SubmitOk(r) \/ SubmitRefused(r) \/ LogoutLands(r) \/ ReloadLands(r) \/ ValidateLands(r)

Next ==
    \/ \E p \in Page : Open(p)
    \/ \E f \in Form : Submit(f)
    \/ \E r \in flight : Answer(r) \/ Lose(r)
    \/ Refetch \/ Restored

Spec == Init /\ [][Next]_vars

-----------------------------------------------------------------------------
(* Properties.                                                             *)

\* A form that has stopped working tells the truth about its last submission
\* (every onSubmit, and VerifyEmail's effect although StrictMode runs it twice and
\* the link works once): success only if the server did it, and an error only if the
\* server did not or an answer was lost.  The email form is the exception: its reload
\* shares a catch with the change (Account.tsx:100-108), so a refusal of the reload
\* shows its error under the success.
OutcomeIsTrue ==
    \A f \in FormsOf(page) :
        ~form[f].busy =>
            /\ form[f].message => did[f]
            /\ form[f].error /\ form[f].message => f = "email"
            /\ form[f].error /\ did[f] => form[f].message \/ lost > 0

\* Account.tsx: staying put after a new password or a deletion would leave a
\* zombie logged-in state.  Once such a form has stopped nobody is signed in, even
\* when logout() failed, unless the answer was lost or a reload was on its way.
NoZombie ==
    \A f \in {"password", "delete"} :
        did[f] /\ ~form[f].busy /\ ~late /\ (form[f].error => lost = 0) => user = "none"

=============================================================================

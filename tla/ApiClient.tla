------------------------------ MODULE ApiClient ------------------------------
(***************************************************************************)
(* One browser tab of NC++: the fetch wrapper of api.ts (the access token  *)
(* in memory, the 401 retry, the shared refresh), the AuthProvider of      *)
(* auth.tsx, the route guards of App.tsx, and the part of the server they  *)
(* talk to: the refresh tokens that it still accepts.                      *)
(*                                                                         *)
(* A task is one asynchronous function of the tab: the mount effect of     *)
(* AuthProvider (StrictMode runs it twice), login, logout, and the         *)
(* authenticated calls the pages make.  A request is served in one step    *)
(* and its answer lands in another; whatever awaits the answer resumes in  *)
(* the step that lands it, since nothing else runs between a promise and   *)
(* its continuations.  A token and the cookie issued with it share a       *)
(* number; the number 0 is their absence.                                  *)
(***************************************************************************)
EXTENDS Integers, FiniteSets

CONSTANTS
    Mount,      \* the runs of the mount effect
    Call,       \* authenticated calls that may be in flight at the same time
    Reload,     \* those of them that are reload()
    Visited,    \* the routes the user goes to
    MaxEvents   \* bound: logins, logouts, expiries, refusals by the limiter or a
                \* failing server, and lost requests together

ASSUME ApiClientAssumption ==
    /\ Mount \cap Call = {} /\ Reload \subseteq Call
    /\ {"login", "logout"} \cap (Mount \cup Call) = {}
    /\ MaxEvents \in Nat

Task == Mount \cup Call \cup {"login", "logout"}

\* Refreshes that could be on the wire at once: the code keeps to one.
Slot == 1..3

Place == {"idle", "mount", "restoring", "asked", "served", "sent", "renewing",
          "resent", "ended"}

\* Who may see each route.
RouteGuard ==
    [home |-> "either", account |-> "auth", training |-> "auth",
     trainingModel |-> "auth", bridge |-> "auth", bridgeVerdict |-> "auth",
     learn |-> "auth", login |-> "public", register |-> "public",
     forgotPassword |-> "public", passwordReset |-> "open", verifyEmail |-> "open",
     privacy |-> "open", terms |-> "open"]

ASSUME VisitedAssumption == {"home", "login"} \subseteq Visited /\ Visited \subseteq DOMAIN RouteGuard

VARIABLES
    accessToken,    \* api.ts's module variable
    inFlight,       \* inFlightRefresh: the slot of the shared refresh, or 0
    refresh,        \* the refreshes on the wire
    user,           \* AuthProvider's user is set
    loading,        \* AuthProvider's loading
    parted,         \* why the tab may have a session and no user (a ghost): the user
                    \* "left", or loading the user "failed", and it has not worked since
    pc, bearer,     \* where each task is, and the token its request carries
    waits,          \* the refresh each task awaits
    cookie,         \* the browser's refresh cookie
    live,           \* the refresh tokens the server accepts
    next,           \* the next token the server issues
    aged,           \* the access tokens that have expired
    route,
    rotated,        \* the refresh tokens spent by a rotation (a ghost)
    events, lost    \* the events of the bound, and those that lost a request

client == <<accessToken, inFlight, refresh, bearer, waits>>
auth == <<user, loading, parted>>
server == <<cookie, live, next, rotated>>
env == <<aged, route, events, lost>>
vars == <<client, auth, pc, server, env>>

NoRefresh == [state |-> "none", cookie |-> 0]
RefreshState == {"none", "asked", "served", "denied", "erred"}

TypeOK ==
    /\ accessToken \in Nat /\ cookie \in Nat /\ next \in Nat \ {0}
    /\ refresh \in [Slot -> [state : RefreshState, cookie : Nat]]
    /\ inFlight \in {s \in Slot : refresh[s] # NoRefresh} \cup {0}
    /\ user \in BOOLEAN /\ loading \in BOOLEAN /\ parted \in {"no", "left", "failed"}
    /\ pc \in [Task -> Place]
    /\ bearer \in [Task -> Nat]
    /\ waits \in [Task -> Slot \cup {0}]
    /\ live \subseteq 1..(next - 1) /\ rotated \subseteq 1..(next - 1) /\ aged \subseteq Nat
    /\ route \in Visited
    /\ events \in 0..MaxEvents /\ lost \in 0..events

\* The page is loaded on some route, with or without a cookie of a session.
Init ==
    /\ accessToken = 0 /\ inFlight = 0 /\ refresh = [s \in Slot |-> NoRefresh]
    /\ user = FALSE /\ loading = TRUE /\ parted = "no"
    /\ pc = [t \in Task |-> IF t \in Mount THEN "mount" ELSE "idle"]
    /\ bearer = [t \in Task |-> 0] /\ waits = [t \in Task |-> 0]
    /\ cookie \in {0, 1} /\ live \in {{}, {cookie} \ {0}} /\ next = 2
    /\ aged = {} /\ route \in Visited /\ rotated = {}
    /\ events = 0 /\ lost = 0

\* One more of the events that are bounded.
Event == events < MaxEvents /\ events' = events + 1

-----------------------------------------------------------------------------
(* Requests.                                                               *)

\* Mutant: every caller of refreshSession asks for itself.
BugShared == FALSE

\* refreshSession joins the refresh that is in flight, if there is one.
Shared == inFlight # 0

\* A task awaits refreshSession at the given place.
RefreshSession(t, place) ==
    /\ pc' = [pc EXCEPT ![t] = place]
    /\ IF Shared
       THEN /\ waits' = [waits EXCEPT ![t] = inFlight]
            /\ UNCHANGED <<inFlight, refresh>>
       ELSE LET s == CHOOSE s \in Slot : refresh[s] = NoRefresh
            IN  /\ inFlight' = s
                /\ refresh' = [refresh EXCEPT ![s] = [state |-> "asked", cookie |-> cookie]]
                /\ waits' = [waits EXCEPT ![t] = s]

\* The server answers /auth/refresh: the presented token buys one successor,
Rotate(s) ==
    /\ refresh[s].cookie \in live
    /\ refresh' = [refresh EXCEPT ![s] = [state |-> "served", cookie |-> next]]
    /\ live' = (live \ {refresh[s].cookie}) \cup {next}
    /\ rotated' = rotated \cup {refresh[s].cookie}
    /\ next' = next + 1
    /\ UNCHANGED events

\* one that is not accepted is refused (401),
Deny(s) ==
    /\ refresh[s].cookie \notin live
    /\ refresh' = [refresh EXCEPT ![s].state = "denied"]
    /\ UNCHANGED <<live, rotated, next, events>>

\* and so is, before anybody looks at it, any request past the limit (429), or
\* that the server fails on (5xx).
Err(s) ==
    /\ Event
    /\ refresh' = [refresh EXCEPT ![s].state = "erred"]
    /\ UNCHANGED <<live, rotated, next>>

ServeRefresh(s) ==
    /\ refresh[s].state = "asked"
    /\ Rotate(s) \/ Deny(s) \/ Err(s)
    /\ UNCHANGED <<accessToken, inFlight, bearer, waits, auth, pc, cookie, aged, route, lost>>

Waiters(s) == {t \in Task : waits[t] = s}

\* Where a task that ends without an answer of its own is left.
AfterTask(t) == IF t \in Mount THEN "ended" ELSE "idle"

\* The finally of refreshSession; a mutant without it.
BugSettled(s) == inFlight
Settled(s) == IF inFlight = s THEN 0 ELSE inFlight

\* The tasks that awaited refresh s carry on at the places given.
Resume(s, place(_), token) ==
    /\ refresh' = [refresh EXCEPT ![s] = NoRefresh]
    /\ inFlight' = Settled(s)
    /\ waits' = [t \in Task |-> IF t \in Waiters(s) THEN 0 ELSE waits[t]]
    /\ pc' = [t \in Task |-> IF t \in Waiters(s) THEN place(t) ELSE pc[t]]
    /\ bearer' = [t \in Task |-> IF t \in Waiters(s) THEN token ELSE bearer[t]]

\* A successful answer stores both tokens; those who waited send their request,
\* the mount effect its first one.
RefreshLands(s) ==
    LET n == refresh[s].cookie
        Send(t) == IF pc[t] = "restoring" THEN "sent" ELSE "resent"
    IN  /\ refresh[s].state = "served"
        /\ accessToken' = n /\ cookie' = n
        /\ Resume(s, Send, n)
        /\ UNCHANGED <<auth, live, next, rotated, env>>

\* A refused or failed refresh ends those who waited.  The catch of the mount
\* effect drops the token, unless it was told plainly that there is no session.
RefreshFails(s, threw) ==
    /\ accessToken' = IF \E m \in Waiters(s) \cap Mount : threw \/ pc[m] = "renewing"
                      THEN 0 ELSE accessToken
    /\ loading' = (loading /\ Waiters(s) \cap Mount = {})
    /\ Resume(s, AfterTask, 0)
    /\ UNCHANGED <<user, server>>

\* What it is put down to that the tab has no user, when requests of these tasks
\* have failed for no fault of the session's.
Parted(tasks) == IF tasks \cap (Mount \cup {"login"}) # {} THEN "failed" ELSE parted

\* refreshSession makes null of every answer that is not ok.
RefreshDenied(s) ==
    /\ \/ refresh[s].state = "denied" /\ UNCHANGED parted
       \/ refresh[s].state = "erred" /\ parted' = Parted(Waiters(s))
    /\ RefreshFails(s, FALSE)
    /\ UNCHANGED env

\* An authenticated request leaves with the token of the moment.
Send(t) ==
    /\ pc' = [pc EXCEPT ![t] = "sent"]
    /\ bearer' = [bearer EXCEPT ![t] = accessToken]
    /\ UNCHANGED <<inFlight, refresh, waits>>

Accepted(t) == bearer[t] # 0 /\ bearer[t] \notin aged
OnTheWire(t) == pc[t] \in {"sent", "resent"}

\* A first 401 is answered by a refresh.
Unauthorized(t) ==
    /\ pc[t] = "sent" /\ ~Accepted(t)
    /\ RefreshSession(t, "renewing")
    /\ UNCHANGED <<accessToken, bearer, auth, server, env>>

\* The request is answered: loadUser (all tasks but the plain calls) sets the
\* user, and the mount effect is over.
Answered(t) ==
    /\ OnTheWire(t) /\ Accepted(t)
    /\ pc' = [pc EXCEPT ![t] = AfterTask(t)]
    /\ bearer' = [bearer EXCEPT ![t] = 0]
    /\ user' = (user \/ t \notin Call \/ t \in Reload)
    /\ parted' = IF t \notin Call \/ t \in Reload THEN "no" ELSE parted
    /\ loading' = (loading /\ t \notin Mount)
    /\ UNCHANGED <<accessToken, inFlight, refresh, waits, server, env>>

\* Mutant: the mount effect clears loading only when it succeeded.
BugTaskFails(t) ==
    /\ pc' = [pc EXCEPT ![t] = AfterTask(t)]
    /\ bearer' = [bearer EXCEPT ![t] = 0]
    /\ accessToken' = IF t \in Mount THEN 0 ELSE accessToken
    /\ UNCHANGED <<user, loading, inFlight, refresh, waits, server>>

\* What a failed request does to its task.
TaskFails(t) ==
    /\ pc' = [pc EXCEPT ![t] = AfterTask(t)]
    /\ bearer' = [bearer EXCEPT ![t] = 0]
    /\ accessToken' = IF t \in Mount THEN 0 ELSE accessToken
    /\ loading' = (loading /\ t \notin Mount)
    /\ UNCHANGED <<user, inFlight, refresh, waits, server>>

\* A 401 after the retry is final.
Refused(t) ==
    /\ pc[t] = "resent" /\ ~Accepted(t)
    /\ TaskFails(t)
    /\ UNCHANGED <<parted, env>>

-----------------------------------------------------------------------------
(* AuthProvider.                                                           *)

\* The mount effect asks the refresh cookie whether there is a session.
Restore(m) ==
    /\ pc[m] = "mount"
    /\ RefreshSession(m, "restoring")
    /\ UNCHANGED <<accessToken, bearer, auth, server, env>>

\* Mutant: RequireAuth does not wait for the mount effect.
BugShows(r) ==
    CASE RouteGuard[r] = "open" -> "page"
      [] RouteGuard[r] = "either" -> IF ~loading /\ user THEN "page" ELSE "landing"
      [] RouteGuard[r] = "auth" -> IF user THEN "page" ELSE "redirect"
      [] RouteGuard[r] = "public" -> IF loading THEN "restoring" ELSE IF user THEN "redirect" ELSE "page"

\* What the route shows; the guards decide between a page and a redirect.
Shows(r) ==
    CASE RouteGuard[r] = "open" -> "page"
      [] RouteGuard[r] = "either" -> IF ~loading /\ user THEN "page" ELSE "landing"
      [] RouteGuard[r] = "auth" -> IF loading THEN "restoring" ELSE IF user THEN "page" ELSE "redirect"
      [] RouteGuard[r] = "public" -> IF loading THEN "restoring" ELSE IF user THEN "redirect" ELSE "page"

\* <Navigate>: RequireAuth sends to /login, PublicOnly to the home page.
Redirect ==
    /\ Shows(route) = "redirect"
    /\ route' = IF RouteGuard[route] = "auth" THEN "login" ELSE "home"
    /\ UNCHANGED <<client, auth, pc, server, aged, events, lost>>

Navigate(r) ==
    /\ r # route
    /\ route' = r
    /\ UNCHANGED <<client, auth, pc, server, aged, events, lost>>

\* The login form is sent; the server opens a session; its answer is stored
\* and the user loaded.
Login ==
    /\ pc["login"] = "idle" /\ Event
    /\ route = "login" /\ Shows(route) = "page"
    /\ pc' = [pc EXCEPT !["login"] = "asked"]
    /\ UNCHANGED <<client, auth, server, aged, route, lost>>

ServeLogin ==
    /\ pc["login"] = "asked"
    /\ pc' = [pc EXCEPT !["login"] = "served"]
    /\ bearer' = [bearer EXCEPT !["login"] = next]
    /\ live' = live \cup {next} /\ next' = next + 1
    /\ UNCHANGED <<accessToken, inFlight, refresh, waits, auth, cookie, rotated, env>>

\* The password is wrong (400).
RefuseLogin ==
    /\ pc["login"] = "asked"
    /\ TaskFails("login")
    /\ UNCHANGED <<parted, env>>

LoginLands ==
    /\ pc["login"] = "served"
    /\ pc' = [pc EXCEPT !["login"] = "sent"]
    /\ cookie' = bearer["login"] /\ accessToken' = bearer["login"]
    /\ UNCHANGED <<inFlight, refresh, bearer, waits, auth, live, next, rotated, env>>

\* The shell's button: the request carries the cookie, which the server revokes
\* and clears.
Logout ==
    /\ pc["logout"] = "idle" /\ user /\ Event
    /\ pc' = [pc EXCEPT !["logout"] = "asked"]
    /\ bearer' = [bearer EXCEPT !["logout"] = cookie]
    /\ UNCHANGED <<accessToken, inFlight, refresh, waits, auth, server, aged, route, lost>>

ServeLogout ==
    /\ pc["logout"] = "asked"
    /\ pc' = [pc EXCEPT !["logout"] = "served"]
    /\ live' = live \ {bearer["logout"]}
    /\ UNCHANGED <<client, auth, cookie, next, rotated, env>>

\* Local state is dropped whatever the answer.
DropSession ==
    /\ pc' = [pc EXCEPT !["logout"] = "idle"]
    /\ bearer' = [bearer EXCEPT !["logout"] = 0]
    /\ accessToken' = 0 /\ user' = FALSE /\ parted' = "left"
    /\ UNCHANGED <<inFlight, refresh, waits, loading, live, next, rotated>>

LogoutLands ==
    /\ pc["logout"] = "served"
    /\ cookie' = 0
    /\ DropSession
    /\ UNCHANGED env

\* A page the guards let through makes an authenticated call, or a download.
BeginCall(c) ==
    /\ pc[c] = "idle"
    /\ user /\ Shows(route) = "page"
    /\ Send(c)
    /\ UNCHANGED <<accessToken, auth, server, env>>

-----------------------------------------------------------------------------
(* The world.                                                              *)

\* An access token expires between the calls that carry it: they take seconds,
\* the token minutes.
Age ==
    /\ accessToken # 0 /\ accessToken \notin aged
    /\ Event
    /\ \A t \in Task : bearer[t] # accessToken
    /\ aged' = aged \cup {accessToken}
    /\ UNCHANGED <<client, auth, pc, server, route, lost>>

\* The session is ended elsewhere: by a new password, by its expiry, or with the
\* account, whose access tokens are refused from then on too.
EndSession ==
    /\ live # {} /\ Event
    /\ live' = {}
    /\ aged' \in {aged, 1..(next - 1)}
    /\ UNCHANGED <<client, auth, pc, cookie, next, rotated, route, lost>>

\* The request or its answer is lost: fetch rejects, or a proxy answers with a
\* 5xx.  A request that the server itself fails on ends its task in the same way.
Lose ==
    /\ Event /\ lost' = lost + 1
    /\ \/ \E s \in Slot, threw \in BOOLEAN :
             refresh[s] # NoRefresh /\ RefreshFails(s, threw) /\ parted' = Parted(Waiters(s))
       \/ \E t \in Task : OnTheWire(t) /\ TaskFails(t) /\ parted' = Parted({t})
       \/ /\ pc["login"] \in {"asked", "served"}
          /\ TaskFails("login") /\ parted' = Parted({"login"})
       \/ /\ pc["logout"] \in {"asked", "served"}
          /\ DropSession /\ UNCHANGED cookie
    /\ UNCHANGED <<aged, route>>

Progress(t) ==
    \/ Unauthorized(t) \/ Answered(t) \/ Refused(t)

Deliver == \E s \in Slot : ServeRefresh(s) \/ RefreshLands(s) \/ RefreshDenied(s)
Sign == ServeLogin \/ RefuseLogin \/ LoginLands \/ ServeLogout \/ LogoutLands

\* React runs the effects of a mount in one go.
Mounted == \A m \in Mount : pc[m] # "mount"

Next ==
    \/ \E m \in Mount : Restore(m)
    \/ /\ Mounted
       /\ \/ \E t \in Task : Progress(t)
          \/ Deliver \/ Sign
          \/ Redirect \/ \E r \in Visited : Navigate(r)
          \/ Login \/ Logout
          \/ \E c \in Call : BeginCall(c)
          \/ Age \/ EndSession \/ Lose

Spec == Init /\ [][Next]_vars

\* The browser runs its tasks, and fetch answers or rejects.
FairSpec ==
    /\ Spec
    /\ \A m \in Mount : WF_vars(Restore(m))
    /\ WF_vars(Mounted /\ Deliver) /\ WF_vars(Mounted /\ Sign)
    /\ \A t \in Task : WF_vars(Mounted /\ Progress(t))

-----------------------------------------------------------------------------
(* Properties.                                                             *)

\* api.ts: overlapping callers of refreshSession (both mounts, parallel 401
\* retries) must not race each other into a spurious logout.  Unless an answer
\* was lost, no refresh is refused for a token that another refresh has spent.
SpentCookieNeverSent ==
    lost = 0 => \A s \in Slot : refresh[s].state # "none" => refresh[s].cookie \notin rotated

\* App.tsx: a reload must not bounce a logged-in user to /login before their
\* session is restored.  The tab goes from a guarded page to the login form only
\* if the server has no session for it, the user left or is just coming in, or
\* the user could not be loaded: a request of the mount effect or of a login was
\* lost, or met the limiter or a failing server, and refreshSession takes every
\* answer but a good one for "not logged in".  What goes wrong with the requests
\* of a page, once the user is loaded, is no excuse.
NoBounce ==
    [][RouteGuard[route] = "auth" /\ Redirect
          => cookie \notin live \/ parted # "no" \/ pc["login"] # "idle"]_vars

\* Every function of the tab that waits for the network comes back: a call that
\* joins a refresh, one that fails included, and the mount effect, after which
\* the tab no longer says that it restores the session (request, refreshSession).
TasksEnd ==
    /\ \A t \in Task : (pc[t] \notin {"idle", "ended"}) ~> (pc[t] \in {"idle", "ended"})
    /\ <>[](~loading)

\* auth.tsx on logout: "Drop local state regardless of the outcome."  It does
\* not hold: a refresh or a login that lands after the logout restores the
\* session, as the README tells.
LogoutIsFinal == parted = "left" => accessToken = 0

=============================================================================

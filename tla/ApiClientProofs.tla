---------------------------- MODULE ApiClientProofs ----------------------------
(***************************************************************************)
(* Proofs about the frontend's session: type correctness, that no request  *)
(* sends a cookie another has spent unless an answer was lost, and that a  *)
(* tab bounces to the login form only when its session has ended or the    *)
(* loading of its user failed, for any number of requests, routes and      *)
(* events.                                                                 *)
(*                                                                         *)
(* Both rest on there being one refresh at a time (OneRefresh): a cookie   *)
(* is spent only while the answer that replaces it is on its way, and      *)
(* whoever asks then awaits that answer (NotSpent).  The second also needs *)
(* to know what the tab knows of the server: while the tab restores, only  *)
(* the mount effects run, and await the refresh (RestoringAlone), and the  *)
(* only live session is that of the cookie or of the refresh under way     *)
(* (RestoringKnows); a login's answer is new to both (LoginIsNew); and a   *)
(* tab that settled on having no user, by no failure, has no session       *)
(* (SettledOut).                                                           *)
(*                                                                         *)
(* A step on the refresh is first reduced to its effect when there is one  *)
(* (AskEffect, ServeEffect, LandsEffect, FailsEffect).                     *)
(***************************************************************************)
EXTENDS ApiClient, TLAPS

\* A slot of the refresh table.
RefreshRow == [state : RefreshState, cookie : Nat]

\* There is one refresh at a time, and the client knows it.
OneRefresh ==
    \A s \in Slot :
        /\ refresh[s] # NoRefresh => s = inFlight
        /\ refresh[s].state = "none" => refresh[s] = NoRefresh

\* Every token in the tab, on the wire or aged was issued, and an answer to a
\* refresh carries a token that the tab does not have.
TokensIssued ==
    /\ cookie < next /\ accessToken < next
    /\ \A t \in Task : bearer[t] < next
    /\ \A s \in Slot :
        /\ refresh[s].cookie < next
        /\ refresh[s].state = "served" => refresh[s].cookie # 0 /\ refresh[s].cookie # accessToken
    /\ \A n \in aged : n < next

\* Who can be where: only a request awaits a refresh, only mount effects restore.
Places ==
    /\ \A t \in Task : waits[t] # 0 => pc[t] \in {"restoring", "renewing"}
    /\ \A t \in Task : pc[t] \in {"mount", "restoring"} => t \in Mount
    /\ \A t \in Task : pc[t] \in {"asked", "served"} => t \in {"login", "logout"}
    /\ pc["logout"] \in {"idle", "asked", "served"}
    /\ pc["login"] # "ended"

\* The token in a login's answer is nobody else's yet.
LoginIsNew ==
    pc["login"] = "served" =>
        /\ bearer["login"] \notin rotated /\ bearer["login"] # 0 /\ bearer["login"] # cookie
        /\ \A s \in Slot : refresh[s].state # "none" => bearer["login"] # refresh[s].cookie

\* Unless an answer was lost, no refresh was sent with a spent cookie, and the
\* cookie is spent only while an answer replaces it.
NotSpent ==
    lost = 0 =>
      /\ \A s \in Slot : refresh[s].state # "none" => refresh[s].cookie \notin rotated
      /\ (\A s \in Slot : refresh[s].state # "served") => cookie \notin rotated

\* While the tab restores, nobody but the mount effects runs, and a refresh has
\* one of them awaiting it.
RestoringAlone ==
    loading =>
        /\ ~user /\ pc["login"] = "idle" /\ pc["logout"] = "idle"
        /\ \A c \in Call : pc[c] = "idle"
        /\ \A s \in Slot : refresh[s].state # "none" => \E m \in Mount : waits[m] = s

\* While the tab restores, the live session is that of its cookie, or of the
\* refresh under way, or there is none.
RestoringKnows ==
    loading =>
        /\ (\A s \in Slot : refresh[s].state = "none") => live \subseteq {cookie}
        /\ \A s \in Slot :
            /\ refresh[s].state \in {"asked", "served", "erred"} => live \subseteq {refresh[s].cookie}
            /\ refresh[s].state = "denied" => live = {}
            /\ refresh[s].state = "served" /\ refresh[s].cookie \in aged => live = {}
        /\ \A m \in Mount : OnTheWire(m) => Accepted(m) \/ live = {}
        /\ \A m \in Mount : pc[m] = "renewing" => live = {}

\* After a login's answer the tab's bearer is accepted, or there is no session.
LoginKnows ==
    /\ pc["login"] \in {"served", "sent", "resent"} => Accepted("login") \/ live = {}
    /\ pc["login"] = "renewing" => live = {}

\* A tab that has settled on having no user, nobody having left and nothing
\* having failed, has no session until a login opens one.
SettledOut ==
    parted = "no" /\ pc["login"] \in {"idle", "asked"} /\ ~loading /\ ~user => live = {}

\* The inductive invariant.
IInv ==
    /\ TypeOK /\ OneRefresh /\ TokensIssued /\ Places
    /\ LoginIsNew /\ NotSpent
    /\ RestoringAlone /\ RestoringKnows /\ LoginKnows /\ SettledOut

-----------------------------------------------------------------------------
(* What the steps do to the one refresh there is.                          *)

\* A task awaits it: the one on the wire, or a new one for the cookie.
AskEffect(t, place) ==
    /\ pc' = [pc EXCEPT ![t] = place]
    /\ inFlight' \in Slot /\ waits' = [waits EXCEPT ![t] = inFlight']
    /\ refresh' \in [Slot -> RefreshRow]
    /\ \/ inFlight # 0 /\ UNCHANGED <<inFlight, refresh>>
       \/ /\ \A s \in Slot : refresh[s] = NoRefresh
          /\ \A s \in Slot \ {inFlight'} : refresh'[s] = NoRefresh
          /\ refresh'[inFlight'].state = "asked" /\ refresh'[inFlight'].cookie = cookie

\* refreshSession finds no refresh on the wire when it asks.
LEMMA RefreshSessionDoes ==
  ASSUME TypeOK, OneRefresh, NEW t \in Task, NEW place \in Place, RefreshSession(t, place)
  PROVE  AskEffect(t, place)
<1>1. CASE Shared
  BY <1>1 DEF TypeOK, RefreshSession, Shared, RefreshRow, AskEffect
<1>2. CASE ~Shared
  <2>1. \A s \in Slot : refresh[s] = NoRefresh
    BY <1>2 DEF Shared, OneRefresh, Slot
  <2> DEFINE n == CHOOSE s \in Slot : refresh[s] = NoRefresh
             asked == [state |-> "asked", cookie |-> cookie]
  <2>2. n \in Slot
    BY <2>1 DEF Slot
  <2>3. /\ inFlight' = n /\ refresh' = [refresh EXCEPT ![n] = asked]
        /\ pc' = [pc EXCEPT ![t] = place] /\ waits' = [waits EXCEPT ![t] = n]
    BY <1>2 DEF RefreshSession
  <2>4. asked \in RefreshRow /\ asked.state = "asked" /\ asked.cookie = cookie
    BY DEF TypeOK, RefreshRow, RefreshState
  <2> HIDE DEF n, asked
  <2>5. refresh \in [Slot -> RefreshRow]
    BY DEF TypeOK, RefreshRow
  <2>6. /\ refresh' \in [Slot -> RefreshRow] /\ refresh'[n] = asked
        /\ \A s \in Slot \ {n} : refresh'[s] = refresh[s]
    BY <2>2, <2>3, <2>4, <2>5
  <2> QED
    BY <2>1, <2>2, <2>3, <2>4, <2>6 DEF AskEffect
<1> QED
  BY <1>1, <1>2 DEF AskEffect

\* Its tokens are stored, and those who waited send their request.
LandsEffect(s) ==
    /\ refresh[s].state = "served" /\ accessToken' = refresh[s].cookie
    /\ cookie' = refresh[s].cookie
    /\ refresh' = [u \in Slot |-> NoRefresh] /\ inFlight' = 0
    /\ waits' = [t \in Task |-> IF waits[t] = s THEN 0 ELSE waits[t]]
    /\ pc' = [t \in Task |-> IF waits[t] = s THEN (IF pc[t] = "restoring" THEN "sent" ELSE "resent") ELSE pc[t]]
    /\ bearer' = [t \in Task |-> IF waits[t] = s THEN refresh[s].cookie ELSE bearer[t]]
    /\ UNCHANGED <<user, loading, live, next, rotated, parted, aged, route, events, lost>>

\* An answer that lands is the answer of that refresh,
LEMMA LandsDoes ==
  ASSUME TypeOK, OneRefresh, NEW s \in Slot, RefreshLands(s)
  PROVE  LandsEffect(s)
<1>1. refresh[s] # NoRefresh
  BY DEF RefreshLands, Resume, NoRefresh
<1>2. s = inFlight /\ \A u \in Slot \ {s} : refresh[u] = NoRefresh
  BY <1>1 DEF OneRefresh
<1>3. refresh' = [u \in Slot |-> NoRefresh] /\ inFlight' = 0
  BY <1>2 DEF RefreshLands, Resume, Settled, TypeOK
<1> QED
  BY <1>3 DEF RefreshLands, Resume, Waiters, TypeOK, auth, env, LandsEffect

\* Those who waited end; the mount effect among them ends the restoring.
FailsEffect(s) ==
    /\ accessToken' \in {0, accessToken}
    /\ loading' = (loading /\ \A m \in Mount : waits[m] # s)
    /\ refresh' = [u \in Slot |-> NoRefresh] /\ inFlight' = 0
    /\ waits' = [t \in Task |-> IF waits[t] = s THEN 0 ELSE waits[t]]
    /\ pc' = [t \in Task |-> IF waits[t] = s THEN (IF t \in Mount THEN "ended" ELSE "idle") ELSE pc[t]]
    /\ bearer' = [t \in Task |-> IF waits[t] = s THEN 0 ELSE bearer[t]]
    /\ UNCHANGED <<user, cookie, live, next, rotated>>

\* so is one that fails,
LEMMA FailsDoes ==
  ASSUME TypeOK, OneRefresh, NEW s \in Slot, NEW threw \in BOOLEAN, RefreshFails(s, threw),
         refresh[s] # NoRefresh
  PROVE  FailsEffect(s)
<1>1. s = inFlight /\ \A u \in Slot \ {s} : refresh[u] = NoRefresh
  BY DEF OneRefresh
<1>2. refresh' = [u \in Slot |-> NoRefresh] /\ inFlight' = 0
  BY <1>1 DEF RefreshFails, Resume, Settled, TypeOK
<1>3. loading' = (loading /\ \A m \in Mount : waits[m] # s)
  BY DEF RefreshFails, Waiters, Task
<1> QED
  BY <1>2, <1>3 DEF RefreshFails, Resume, Waiters, AfterTask, TypeOK, server, FailsEffect

\* The server rotates the cookie it was sent, refuses it, or fails on it.
ServeEffect(s) ==
    /\ refresh[s].state = "asked" /\ s = inFlight
    /\ refresh' \in [Slot -> RefreshRow] /\ \A u \in Slot \ {s} : refresh'[u] = NoRefresh
    /\ \/ /\ refresh[s].cookie \in live
          /\ refresh'[s].state = "served" /\ refresh'[s].cookie = next /\ next' = next + 1
          /\ live' = (live \ {refresh[s].cookie}) \cup {next}
          /\ rotated' = rotated \cup {refresh[s].cookie} /\ UNCHANGED events
       \/ /\ refresh[s].cookie \notin live
          /\ refresh'[s].state = "denied" /\ refresh'[s].cookie = refresh[s].cookie
          /\ UNCHANGED <<live, rotated, next, events>>
       \/ /\ refresh'[s].state = "erred" /\ refresh'[s].cookie = refresh[s].cookie
          /\ UNCHANGED <<live, rotated, next>> /\ events < MaxEvents /\ events' = events + 1
    /\ UNCHANGED <<accessToken, inFlight, bearer, waits, user, loading, parted, pc, cookie,
                   aged, route, lost>>

\* and so is the request it serves.
LEMMA ServeDoes ==
  ASSUME TypeOK, OneRefresh, NEW s \in Slot, ServeRefresh(s)
  PROVE  ServeEffect(s)
<1>1. refresh[s].state = "asked" /\ refresh[s] # NoRefresh
  BY DEF ServeRefresh, NoRefresh
<1>2. s = inFlight /\ \A u \in Slot \ {s} : refresh[u] = NoRefresh
  BY <1>1 DEF OneRefresh
<1>3. refresh \in [Slot -> RefreshRow] /\ next \in Nat
  BY DEF TypeOK, RefreshRow
<1> DEFINE served == [state |-> "served", cookie |-> next]
           denied == [refresh[s] EXCEPT !.state = "denied"]
           erred == [refresh[s] EXCEPT !.state = "erred"]
<1>4. served \in RefreshRow /\ served.state = "served" /\ served.cookie = next
  BY <1>3 DEF RefreshRow, RefreshState
<1>5. denied \in RefreshRow /\ denied.state = "denied" /\ denied.cookie = refresh[s].cookie
  BY <1>3 DEF RefreshRow, RefreshState
<1>6. erred \in RefreshRow /\ erred.state = "erred" /\ erred.cookie = refresh[s].cookie
  BY <1>3 DEF RefreshRow, RefreshState
<1>7. ASSUME Rotate(s) PROVE ServeEffect(s)
  <2>1. refresh' = [refresh EXCEPT ![s] = served]
    BY <1>7 DEF Rotate
  <2> HIDE DEF served, denied, erred
  <2>2. /\ refresh'[s] = served /\ refresh' \in [Slot -> RefreshRow]
        /\ \A u \in Slot \ {s} : refresh'[u] = refresh[u]
    BY <1>3, <1>4, <2>1
  <2> QED
    BY <1>1, <1>2, <1>4, <1>7, <2>2 DEF ServeRefresh, Rotate, auth, ServeEffect
<1>8. ASSUME Deny(s) PROVE ServeEffect(s)
  <2>1. refresh' = [refresh EXCEPT ![s] = denied]
    BY <1>8 DEF Deny
  <2> HIDE DEF served, denied, erred
  <2>2. /\ refresh'[s] = denied /\ refresh' \in [Slot -> RefreshRow]
        /\ \A u \in Slot \ {s} : refresh'[u] = refresh[u]
    BY <1>3, <1>5, <2>1
  <2> QED
    BY <1>1, <1>2, <1>5, <1>8, <2>2 DEF ServeRefresh, Deny, auth, ServeEffect
<1>9. ASSUME Err(s) PROVE ServeEffect(s)
  <2>1. refresh' = [refresh EXCEPT ![s] = erred]
    BY <1>9 DEF Err
  <2> HIDE DEF served, denied, erred
  <2>2. /\ refresh'[s] = erred /\ refresh' \in [Slot -> RefreshRow]
        /\ \A u \in Slot \ {s} : refresh'[u] = refresh[u]
    BY <1>3, <1>6, <2>1
  <2> QED
    BY <1>1, <1>2, <1>9, <1>6, <2>2 DEF ServeRefresh, Err, Event, auth, ServeEffect
<1> QED
  BY <1>7, <1>8, <1>9 DEF ServeRefresh

\* What an action that loses a request or its answer leaves alone.
Lossy ==
    /\ UNCHANGED <<aged, route>>
    /\ events' \in 0..MaxEvents /\ lost' \in 0..events' /\ (lost' = 0 => lost = 0)

\* Awaiting the refresh keeps the invariant.
LEMMA AskStep ==
  ASSUME IInv, NEW t \in Task, NEW place \in Place, AskEffect(t, place),
         UNCHANGED <<accessToken, bearer, auth, server, env>>,
         \/ pc[t] = "mount" /\ place = "restoring"
         \/ pc[t] = "sent" /\ ~Accepted(t) /\ place = "renewing"
  PROVE  IInv'
<1>1. TypeOK'
  BY DEF IInv, TypeOK, NoRefresh, RefreshRow, AskEffect, auth, server, env
<1>2. OneRefresh'
  BY DEF IInv, OneRefresh, NoRefresh, AskEffect, auth, server, env
<1>3. TokensIssued'
  BY DEF IInv, TokensIssued, AskEffect, NoRefresh, auth, server, env
<1>4. Places'
  BY DEF IInv, Places, TypeOK, AskEffect, auth, server, env
<1>5. LoginIsNew'
  BY DEF IInv, LoginIsNew, AskEffect, NoRefresh, auth, server, env
<1>6. NotSpent'
  BY DEF IInv, NotSpent, AskEffect, NoRefresh, auth, server, env
<1>7. RestoringAlone'
  <2>1. RestoringAlone
    BY DEF IInv
  <2>2. SUFFICES ASSUME loading PROVE RestoringAlone'
    BY DEF RestoringAlone, auth
  <2>3. t \in Mount
    BY <2>1, <2>2 DEF IInv, Places, RestoringAlone, Task
  <2>4. refresh' # refresh => waits'[t] = inFlight'
    BY DEF IInv, TypeOK, AskEffect
  <2> QED
    BY <2>1, <2>2, <2>3, <2>4, ApiClientAssumption
       DEF IInv, TypeOK, OneRefresh, RestoringAlone, AskEffect, NoRefresh, auth, Task
<1>8. RestoringKnows'
  BY DEF IInv, RestoringKnows, OnTheWire, Accepted, AskEffect, NoRefresh, auth, server, env
<1>9. LoginKnows'
  BY DEF IInv, LoginKnows, Accepted, AskEffect, auth, server, env
<1>10. SettledOut'
  BY DEF IInv, SettledOut, AskEffect, NoRefresh, auth, server, env
<1> QED
  BY <1>1, <1>2, <1>3, <1>4, <1>5, <1>6, <1>7, <1>8, <1>9, <1>10 DEF IInv

\* The server rotates the cookie, denies it, or fails on it.
LEMMA ServeStep ==
  ASSUME IInv, NEW s \in Slot, ServeEffect(s)
  PROVE  IInv'
<1>1. TypeOK'
  <2>1. next \in Nat \ {0} /\ live \subseteq 1..(next - 1) /\ rotated \subseteq 1..(next - 1)
    BY DEF IInv, TypeOK
  <2>2. events' \in 0..MaxEvents /\ lost \in 0..events'
    BY ApiClientAssumption DEF IInv, TypeOK, ServeEffect
  <2>3. /\ next' \in Nat \ {0} /\ live' \subseteq 1..(next' - 1)
        /\ rotated' \subseteq 1..(next' - 1)
    <3>1. CASE ~UNCHANGED <<live, rotated, next>>
      <4>1. /\ next' = next + 1 /\ live' = (live \ {refresh[s].cookie}) \cup {next}
            /\ rotated' = rotated \cup {refresh[s].cookie} /\ refresh[s].cookie \in live
        BY <3>1 DEF ServeEffect
      <4>2. 1..(next - 1) \subseteq 1..next /\ next \in 1..next
        BY <2>1
      <4>3. next' \in Nat \ {0} /\ next' - 1 = next
        BY <2>1, <4>1
      <4> QED
        BY <2>1, <3>1, <4>1, <4>2, <4>3
    <3>2. CASE UNCHANGED <<live, rotated, next>>
      <4>1. next' = next /\ live' = live /\ rotated' = rotated
        BY <3>2
      <4> QED
        BY <2>1, <4>1
    <3> QED
      BY <3>1, <3>2
  <2>4. parted' \in {"no", "left", "failed"} /\ refresh' \in [Slot -> RefreshRow]
        /\ inFlight' \in {u \in Slot : refresh'[u] # NoRefresh} \cup {0}
    BY DEF IInv, TypeOK, NoRefresh, ServeEffect
  <2> QED
    BY <2>2, <2>3, <2>4 DEF IInv, TypeOK, ServeEffect, RefreshRow
<1>2. OneRefresh'
  BY DEF IInv, OneRefresh, TypeOK, NoRefresh, ServeEffect
<1>3. TokensIssued'
  BY DEF IInv, TokensIssued, TypeOK, ServeEffect, NoRefresh
<1>4. LoginIsNew'
  BY ApiClientAssumption
     DEF IInv, LoginIsNew, TypeOK, TokensIssued, ServeEffect, NoRefresh, Task
<1>5. NotSpent'
  BY DEF IInv, NotSpent, TypeOK, OneRefresh, ServeEffect, NoRefresh
<1>6. RestoringKnows'
  <2>1. CASE ~loading
    BY <2>1 DEF ServeEffect, RestoringKnows
  <2>2. CASE loading /\ refresh'[s].state = "served"
    <3>1. /\ live' = {next} /\ refresh'[s].state = "served" /\ refresh'[s].cookie = next
          /\ next \notin aged
      <4>1. live \subseteq {refresh[s].cookie}
        BY <2>2 DEF IInv, RestoringKnows, ServeEffect
      <4>2. next \notin aged
        BY DEF IInv, TypeOK, TokensIssued
      <4> QED
        BY <2>2, <4>1, <4>2 DEF ServeEffect
    <3>2. \A m \in Mount : pc[m] # "renewing" /\ (OnTheWire(m) => Accepted(m))
      BY <2>2 DEF IInv, RestoringKnows, ServeEffect
    <3>3. \A u \in Slot \ {s} : refresh'[u].state = "none"
      BY DEF ServeEffect, NoRefresh
    <3>4. \A m \in Mount : pc'[m] # "renewing" /\ (OnTheWire(m)' => Accepted(m)')
      BY <3>2 DEF ServeEffect, OnTheWire, Accepted
    <3> QED
      BY <3>1, <3>3, <3>4, "served" # "denied", "served" # "none" DEF RestoringKnows, ServeEffect
  <2>3. CASE loading /\ refresh'[s].state = "denied"
    <3>1. live' = {} /\ refresh'[s].state = "denied"
      BY <2>3 DEF IInv, RestoringKnows, ServeEffect
    <3> QED
      BY <3>1 DEF RestoringKnows, ServeEffect, NoRefresh
  <2>4. CASE loading /\ refresh'[s].state = "erred"
    BY <2>4 DEF IInv, RestoringKnows, ServeEffect, NoRefresh, OnTheWire, Accepted
  <2> QED
    BY <2>1, <2>2, <2>3, <2>4 DEF ServeEffect
<1>7. LoginKnows'
  BY DEF IInv, LoginKnows, TypeOK, Accepted, ServeEffect, NoRefresh
<1>8. SettledOut'
  BY DEF IInv, SettledOut, TypeOK, ServeEffect, NoRefresh
<1>9. Places' /\ RestoringAlone'
  BY DEF IInv, Places, RestoringAlone, ServeEffect, NoRefresh
<1> QED
  BY <1>1, <1>2, <1>3, <1>4, <1>5, <1>6, <1>7, <1>8, <1>9 DEF IInv

\* The tokens of a refresh are stored.
LEMMA LandsStep ==
  ASSUME IInv, NEW s \in Slot, LandsEffect(s)
  PROVE  IInv'
<1>1. TypeOK'
  BY DEF IInv, TypeOK, Place, RefreshState, LandsEffect, Slot, NoRefresh
<1>2. OneRefresh'
  BY DEF IInv, OneRefresh, TypeOK, NoRefresh, LandsEffect, Slot
<1>3. TokensIssued'
  BY DEF IInv, TokensIssued, TypeOK, LandsEffect, Slot, NoRefresh
<1>4. Places'
  BY ApiClientAssumption DEF IInv, Places, LandsEffect, Slot, NoRefresh, Task
<1>5. LoginIsNew'
  BY ApiClientAssumption DEF IInv, LoginIsNew, LandsEffect, Slot, NoRefresh, Task
<1>6. NotSpent'
  BY DEF IInv, NotSpent, LandsEffect, Slot, NoRefresh
<1>7. RestoringAlone'
  BY ApiClientAssumption
     DEF IInv, RestoringAlone, TypeOK, Places, LandsEffect, NoRefresh, Slot, Task
<1>8. RestoringKnows'
  BY ApiClientAssumption
     DEF IInv, RestoringKnows, TypeOK, OnTheWire, Accepted, LandsEffect, NoRefresh, Task
<1>9. LoginKnows'
  BY ApiClientAssumption DEF IInv, LoginKnows, TypeOK, Places, Accepted, LandsEffect, Slot, Task
<1>10. SettledOut'
  BY ApiClientAssumption DEF IInv, SettledOut, LandsEffect, Slot, NoRefresh, Task
<1> QED
  BY <1>1, <1>2, <1>3, <1>4, <1>5, <1>6, <1>7, <1>8, <1>9, <1>10 DEF IInv

\* A refresh fails for a session that is gone, or by a failure that is put down to
\* those who waited.
LEMMA FailsStep ==
  ASSUME IInv, NEW s \in Slot, refresh[s] # NoRefresh, FailsEffect(s), Lossy,
         \/ refresh[s].state = "denied" /\ UNCHANGED parted
         \/ parted' = Parted(Waiters(s)),
         refresh[s].state = "served" => lost' # 0
  PROVE  IInv'
<1>1. TypeOK'
  <2>1. parted' \in {"no", "left", "failed"}
    BY DEF IInv, TypeOK, Parted
  <2> QED
    BY <2>1 DEF IInv, TypeOK, Place, RefreshState, FailsEffect, Slot, NoRefresh, Lossy
<1>2. OneRefresh'
  BY DEF IInv, OneRefresh, NoRefresh, FailsEffect, Slot, Lossy
<1>3. TokensIssued'
  BY DEF IInv, TokensIssued, TypeOK, FailsEffect, Slot, NoRefresh, Lossy
<1>4. Places'
  BY ApiClientAssumption DEF IInv, Places, FailsEffect, Slot, NoRefresh, Lossy, Task
<1>5. LoginIsNew'
  BY ApiClientAssumption DEF IInv, LoginIsNew, FailsEffect, Slot, NoRefresh, Lossy, Task
<1>6. NotSpent'
  <2>1. SUFFICES ASSUME lost' = 0 PROVE cookie \notin rotated
    BY DEF NotSpent, FailsEffect, NoRefresh
  <2>2. lost = 0 /\ refresh[s].state # "served"
    BY <2>1 DEF Lossy
  <2>3. \A u \in Slot : refresh[u].state # "served"
    BY <2>2 DEF IInv, OneRefresh, NoRefresh
  <2> QED
    BY <2>2, <2>3 DEF IInv, NotSpent
<1>7. ~loading'
  BY DEF IInv, RestoringAlone, OneRefresh, FailsEffect
<1>8. RestoringAlone' /\ RestoringKnows'
  BY <1>7 DEF RestoringAlone, RestoringKnows
<1>9. LoginKnows'
  BY ApiClientAssumption DEF IInv, LoginKnows, Accepted, FailsEffect, NoRefresh, Lossy, Task
<1>10. SettledOut'
  <2> SUFFICES ASSUME parted' = "no", pc'["login"] \in {"idle", "asked"}, ~user PROVE live = {}
    BY DEF SettledOut, FailsEffect
  <2>1. CASE refresh[s].state = "denied" /\ UNCHANGED parted
    <3>1. CASE loading
      BY <2>1, <3>1 DEF IInv, RestoringKnows
    <3>2. CASE ~loading /\ waits["login"] = s
      <4>1. pc["login"] = "renewing"
        BY <3>2, ApiClientAssumption DEF IInv, Places, Task, Slot
      <4> QED
        BY <4>1 DEF IInv, LoginKnows
    <3>3. CASE ~loading /\ waits["login"] # s
      <4>1. pc'["login"] = pc["login"]
        BY <3>3 DEF FailsEffect, Task
      <4> QED
        BY <2>1, <3>3, <4>1 DEF IInv, SettledOut
    <3> QED
      BY <3>1, <3>2, <3>3
  <2>2. CASE parted' = Parted(Waiters(s))
    <3>1. Waiters(s) \cap (Mount \cup {"login"}) = {} /\ parted = "no"
      BY <2>2 DEF Parted
    <3>2. waits["login"] # s /\ \A m \in Mount : waits[m] # s
      BY <3>1 DEF Waiters, Task
    <3>3. pc'["login"] = pc["login"] /\ ~loading
      BY <3>2, <1>7 DEF FailsEffect, Task
    <3> QED
      BY <3>1, <3>3 DEF IInv, SettledOut
  <2> QED
    BY <2>1, <2>2
<1> QED
  BY <1>1, <1>2, <1>3, <1>4, <1>5, <1>6, <1>8, <1>9, <1>10 DEF IInv

\* A request ends without an answer or with a final 401.
LEMMA TaskFailsStep ==
  ASSUME IInv, NEW t \in Task, TaskFails(t), Lossy,
         \/ OnTheWire(t) \/ (t = "login" /\ pc[t] \in {"asked", "served"}),
         \/ parted' = Parted({t})
         \/ UNCHANGED parted /\ (pc[t] = "asked" \/ (OnTheWire(t) /\ ~Accepted(t)))
  PROVE  IInv'
<1>1. TypeOK'
  <2>1. parted' \in {"no", "left", "failed"}
    BY DEF IInv, TypeOK, Parted
  <2> QED
    BY <2>1 DEF IInv, TypeOK, Place, TaskFails, AfterTask, server, Lossy
<1>2. TokensIssued'
  BY DEF IInv, TokensIssued, TypeOK, TaskFails, AfterTask, server, Lossy
<1>3. Places'
  BY ApiClientAssumption DEF IInv, Places, TaskFails, OnTheWire, AfterTask, Lossy, Task
<1>4. LoginIsNew'
  BY DEF IInv, LoginIsNew, TypeOK, TaskFails, AfterTask, server, Lossy
<1>5. NotSpent'
  BY DEF IInv, NotSpent, TaskFails, Accepted, AfterTask, server, Lossy
<1>6. RestoringAlone'
  BY DEF IInv, RestoringAlone, TypeOK, TaskFails, AfterTask, server, Lossy
<1>7. RestoringKnows'
  <2> SUFFICES ASSUME loading' PROVE RestoringKnows'
    BY DEF RestoringKnows
  <2>1. loading /\ t \notin Mount
    BY DEF TaskFails
  <2>2. t \in Call \cup {"login", "logout"}
    BY <2>1 DEF Task
  <2> QED
    BY <2>1, <2>2 DEF IInv, RestoringAlone, OnTheWire
<1>8. LoginKnows'
  BY DEF IInv, LoginKnows, TypeOK, Accepted, TaskFails, AfterTask, server, Lossy
<1>9. SettledOut'
  <2> SUFFICES ASSUME parted' = "no", pc'["login"] \in {"idle", "asked"}, ~loading', ~user
               PROVE  live = {}
    BY DEF SettledOut, TaskFails, server
  <2>1. CASE parted' = Parted({t})
    <3>1. t \notin Mount \cup {"login"} /\ parted = "no"
      BY <2>1 DEF Parted
    <3>2. pc'["login"] = pc["login"] /\ ~loading
      BY <3>1 DEF IInv, TypeOK, TaskFails, Task
    <3> QED
      BY <3>1, <3>2 DEF IInv, SettledOut
  <2>2. CASE UNCHANGED parted /\ pc[t] = "asked"
    <3>1. t = "login"
      BY <2>2 DEF OnTheWire
    <3>2. ~loading
      BY <2>2, <3>1, ApiClientAssumption DEF IInv, RestoringAlone
    <3> QED
      BY <2>2, <3>1, <3>2 DEF IInv, SettledOut
  <2>3. CASE UNCHANGED parted /\ OnTheWire(t) /\ ~Accepted(t)
    <3>1. CASE loading
      BY <2>3, <3>1 DEF IInv, RestoringKnows, RestoringAlone, OnTheWire, Task
    <3>2. CASE ~loading /\ t = "login"
      BY <2>3, <3>2 DEF IInv, LoginKnows, OnTheWire
    <3>3. CASE ~loading /\ t # "login"
      <4>1. pc'["login"] = pc["login"]
        BY <3>3 DEF IInv, TypeOK, TaskFails, Task
      <4> QED
        BY <2>3, <3>3, <4>1 DEF IInv, SettledOut
    <3> QED
      BY <3>1, <3>2, <3>3
  <2> QED
    BY <2>1, <2>2, <2>3
<1>10. OneRefresh'
  BY DEF IInv, OneRefresh, TaskFails, Accepted, AfterTask, server, Lossy
<1> QED
  BY <1>1, <1>2, <1>3, <1>4, <1>5, <1>6, <1>7, <1>8, <1>9, <1>10 DEF IInv

\* The client forgets its session once the logout is answered.
LEMMA DropStep ==
  ASSUME IInv, pc["logout"] \in {"asked", "served"}, DropSession, cookie' \in {0, cookie}, Lossy
  PROVE  IInv'
<1>1. TypeOK'
  <2>1. pc' \in [Task -> Place] /\ bearer' \in [Task -> Nat]
    BY DEF IInv, TypeOK, Place, DropSession
  <2>2. accessToken' \in Nat /\ cookie' \in Nat
    BY DEF IInv, TypeOK, DropSession
  <2>4. user' \in BOOLEAN /\ parted' = "left"
    BY DEF DropSession
  <2>3. /\ UNCHANGED <<inFlight, refresh, waits, loading, live, next, rotated, aged, route>>
        /\ events' \in 0..MaxEvents /\ lost' \in 0..events'
    BY DEF DropSession, Lossy
  <2> QED
    BY <2>1, <2>2, <2>3, <2>4 DEF IInv, TypeOK
<1>2. TokensIssued'
  BY DEF IInv, TokensIssued, TypeOK, DropSession, Lossy
<1>3. Places'
  BY DEF IInv, Places, TypeOK, DropSession, Lossy
<1>4. LoginIsNew'
  BY DEF IInv, LoginIsNew, TypeOK, DropSession, Lossy
<1>5. NotSpent'
  BY DEF IInv, NotSpent, TypeOK, DropSession, Lossy
<1>6. RestoringAlone'
  BY DEF IInv, RestoringAlone, TypeOK, DropSession, Lossy
<1>7. RestoringKnows'
  BY DEF IInv, RestoringKnows, TypeOK, RestoringAlone, Accepted, DropSession, Lossy
<1>8. LoginKnows'
  BY DEF IInv, LoginKnows, TypeOK, Accepted, DropSession, Lossy
<1>9. SettledOut'
  BY DEF IInv, SettledOut, DropSession, Lossy
<1>10. OneRefresh'
  BY DEF IInv, OneRefresh, NoRefresh, DropSession, Lossy
<1> QED
  BY <1>1, <1>2, <1>3, <1>4, <1>5, <1>6, <1>7, <1>8, <1>9, <1>10 DEF IInv

\* A request is answered.
LEMMA AnsweredStep ==
  ASSUME IInv, NEW t \in Task, Answered(t)
  PROVE  IInv'
<1>1. TypeOK'
  BY DEF IInv, TypeOK, Place, Answered, AfterTask, server, env
<1>2. TokensIssued'
  BY DEF IInv, TokensIssued, TypeOK, Answered, AfterTask, server, env
<1>3. Places'
  BY ApiClientAssumption DEF IInv, Places, Answered, OnTheWire, AfterTask, env, Task
<1>4. LoginIsNew'
  BY DEF IInv, LoginIsNew, Answered, OnTheWire, AfterTask, server, env
<1>5. RestoringAlone'
  BY ApiClientAssumption DEF IInv, RestoringAlone, Answered, OnTheWire, server, env, Task
<1>6. RestoringKnows'
  BY DEF IInv, RestoringKnows, TypeOK, OnTheWire, Accepted, Answered, AfterTask, server, env
<1>7. LoginKnows'
  BY DEF IInv, LoginKnows, TypeOK, Accepted, Answered, AfterTask, server, env
<1>8. SettledOut'
  BY ApiClientAssumption DEF IInv, SettledOut, TypeOK, Answered, server, env, Task
<1>9. OneRefresh' /\ NotSpent'
  BY DEF IInv, OneRefresh, NotSpent, NoRefresh, Answered, OnTheWire, AfterTask, server, env
<1> QED
  BY <1>1, <1>2, <1>3, <1>4, <1>5, <1>6, <1>7, <1>8, <1>9 DEF IInv

\* A login is sent.
LEMMA LoginStep ==
  ASSUME IInv, Login
  PROVE  IInv'
<1>1. TypeOK'
  <2>1. pc' \in [Task -> Place]
    BY DEF IInv, TypeOK, Place, Login
  <2>2. events' \in 0..MaxEvents /\ lost \in 0..events'
    BY ApiClientAssumption DEF IInv, TypeOK, Login, Event
  <2> QED
    BY <2>1, <2>2 DEF IInv, TypeOK, Login, client, auth, server
<1>2. Places'
  BY DEF IInv, Places, Login, RouteGuard, client, auth, server
<1>3. LoginIsNew'
  BY DEF IInv, LoginIsNew, Login, RouteGuard, client, auth, server
<1>4. RestoringAlone'
  BY DEF IInv, RestoringAlone, Login, Shows, RouteGuard, auth, server
<1>5. RestoringKnows'
  BY DEF IInv, RestoringKnows, Login, Shows, RouteGuard, auth, server
<1>6. LoginKnows'
  BY DEF IInv, LoginKnows, Login, RouteGuard, client, auth, server
<1>7. SettledOut'
  BY ApiClientAssumption DEF IInv, SettledOut, TypeOK, Login, auth, server, Task
<1>8. OneRefresh' /\ TokensIssued' /\ NotSpent'
  BY DEF IInv, OneRefresh, TokensIssued, NotSpent, NoRefresh, Login, Event, Shows, RouteGuard,
     client, auth, server
<1> QED
  BY <1>1, <1>2, <1>3, <1>4, <1>5, <1>6, <1>7, <1>8 DEF IInv

\* The server opens a session for it.
LEMMA ServeLoginStep ==
  ASSUME IInv, ServeLogin
  PROVE  IInv'
<1>1. TypeOK'
  BY ApiClientAssumption DEF IInv, TypeOK, Place, ServeLogin, auth, env, Task
<1>2. TokensIssued'
  BY DEF IInv, TokensIssued, TypeOK, ServeLogin, auth, env
<1>3. Places'
  BY DEF IInv, Places, TypeOK, ServeLogin, auth, env
<1>4. LoginIsNew'
  BY DEF IInv, LoginIsNew, TypeOK, TokensIssued, ServeLogin, auth, env
<1>5. RestoringAlone'
  BY DEF IInv, RestoringAlone, TypeOK, ServeLogin, auth, env
<1>6. RestoringKnows'
  BY DEF IInv, RestoringKnows, TypeOK, RestoringAlone, ServeLogin, auth, env
<1>7. LoginKnows'
  BY DEF IInv, LoginKnows, TypeOK, TokensIssued, Accepted, ServeLogin, env
<1>8. SettledOut'
  BY DEF IInv, SettledOut, TypeOK, ServeLogin, Task, auth, env
<1>9. OneRefresh' /\ NotSpent'
  BY DEF IInv, OneRefresh, NotSpent, NoRefresh, ServeLogin, auth, env
<1> QED
  BY <1>1, <1>2, <1>3, <1>4, <1>5, <1>6, <1>7, <1>8, <1>9 DEF IInv

\* Its tokens are stored, and the user is loaded with them.
LEMMA LoginLandsStep ==
  ASSUME IInv, LoginLands
  PROVE  IInv'
<1>1. TypeOK'
  BY ApiClientAssumption DEF IInv, TypeOK, Place, LoginLands, auth, env, Task
<1>2. TokensIssued'
  BY ApiClientAssumption DEF IInv, TokensIssued, LoginIsNew, LoginLands, auth, env, Task
<1>3. Places'
  BY DEF IInv, Places, TypeOK, LoginLands, auth, env
<1>4. LoginIsNew'
  BY ApiClientAssumption DEF IInv, LoginIsNew, TypeOK, LoginLands, auth, env, Task
<1>5. NotSpent'
  BY DEF IInv, NotSpent, LoginIsNew, LoginLands, auth, env
<1>6. RestoringAlone'
  BY DEF IInv, RestoringAlone, TypeOK, LoginLands, auth, env
<1>7. RestoringKnows'
  BY DEF IInv, RestoringKnows, TypeOK, RestoringAlone, LoginLands, auth, env
<1>8. LoginKnows'
  BY DEF IInv, LoginKnows, Accepted, LoginLands, auth, env
<1>9. SettledOut'
  BY DEF IInv, SettledOut, TypeOK, LoginLands, auth, env
<1>10. OneRefresh'
  BY DEF IInv, OneRefresh, NoRefresh, LoginLands, auth, env
<1> QED
  BY <1>1, <1>2, <1>3, <1>4, <1>5, <1>6, <1>7, <1>8, <1>9, <1>10 DEF IInv

\* A logout is sent.
LEMMA LogoutStep ==
  ASSUME IInv, Logout
  PROVE  IInv'
<1>1. TypeOK'
  BY ApiClientAssumption DEF IInv, TypeOK, Place, Logout, Event, auth, server, Task
<1>2. TokensIssued'
  BY DEF IInv, TokensIssued, Logout, Event, auth, server
<1>3. Places'
  BY DEF IInv, Places, Logout, Event, auth, server
<1>4. LoginIsNew'
  BY DEF IInv, LoginIsNew, Logout, Event, auth, server
<1>5. RestoringAlone'
  BY DEF IInv, RestoringAlone, Logout, Event, auth, server
<1>6. RestoringKnows'
  BY DEF IInv, RestoringKnows, OnTheWire, Accepted, Logout, auth, server
<1>7. LoginKnows'
  BY DEF IInv, LoginKnows, Accepted, Logout, Event, auth, server
<1>8. SettledOut'
  BY DEF IInv, SettledOut, Logout, Event, auth, server
<1>9. OneRefresh' /\ NotSpent'
  BY DEF IInv, OneRefresh, NotSpent, NoRefresh, Logout, Event, auth, server
<1> QED
  BY <1>1, <1>2, <1>3, <1>4, <1>5, <1>6, <1>7, <1>8, <1>9 DEF IInv

\* The server ends the cookie's session.
LEMMA ServeLogoutStep ==
  ASSUME IInv, ServeLogout
  PROVE  IInv'
<1>1. TypeOK'
  BY DEF IInv, TypeOK, Place, ServeLogout, client, auth, env
<1>2. Places'
  BY DEF IInv, Places, ServeLogout, client, auth, env
<1>3. LoginIsNew'
  BY DEF IInv, LoginIsNew, ServeLogout, client, auth, env
<1>4. RestoringAlone'
  BY DEF IInv, RestoringAlone, ServeLogout, client, auth, env
<1>5. RestoringKnows'
  BY DEF IInv, RestoringKnows, OnTheWire, Accepted, ServeLogout, client, auth, env
<1>6. LoginKnows'
  BY DEF IInv, LoginKnows, Accepted, ServeLogout, client, auth, env
<1>7. SettledOut'
  BY DEF IInv, SettledOut, ServeLogout, client, auth, env
<1>8. OneRefresh' /\ TokensIssued' /\ NotSpent'
  BY DEF IInv, OneRefresh, TokensIssued, NotSpent, NoRefresh, ServeLogout, client, auth, env
<1> QED
  BY <1>1, <1>2, <1>3, <1>4, <1>5, <1>6, <1>7, <1>8 DEF IInv

\* A page sends a request.
LEMMA BeginCallStep ==
  ASSUME IInv, NEW c \in Call, BeginCall(c)
  PROVE  IInv'
<1>1. TypeOK'
  BY DEF IInv, TypeOK, Place, BeginCall, Send, auth, server, env
<1>2. TokensIssued'
  BY DEF IInv, TokensIssued, BeginCall, Send, auth, server, env
<1>3. Places'
  BY ApiClientAssumption DEF IInv, Places, BeginCall, Send, server, env, Task
<1>4. LoginIsNew'
  BY DEF IInv, LoginIsNew, BeginCall, Send, auth, server, env
<1>5. RestoringAlone'
  BY DEF IInv, RestoringAlone, BeginCall, Send, auth, server, env
<1>6. RestoringKnows'
  BY ApiClientAssumption
     DEF IInv, RestoringKnows, OnTheWire, Accepted, BeginCall, Send, auth, server, env
<1>7. LoginKnows'
  BY ApiClientAssumption DEF IInv, LoginKnows, Accepted, BeginCall, Send, server, env
<1>8. SettledOut'
  BY DEF IInv, SettledOut, BeginCall, Send, auth, server, env
<1>9. OneRefresh' /\ NotSpent'
  BY DEF IInv, OneRefresh, NotSpent, NoRefresh, BeginCall, Send, auth, server, env
<1> QED
  BY <1>1, <1>2, <1>3, <1>4, <1>5, <1>6, <1>7, <1>8, <1>9 DEF IInv

\* Access tokens expire.
LEMMA AgeStep ==
  ASSUME IInv, Age
  PROVE  IInv'
<1>1. TypeOK'
  BY ApiClientAssumption DEF IInv, TypeOK, Age, Event, client, auth, server
<1>2. TokensIssued'
  BY DEF IInv, TokensIssued, Age, Event, client, auth, server
<1>3. RestoringKnows'
  BY ApiClientAssumption DEF IInv, RestoringKnows, TypeOK, TokensIssued, OnTheWire, Accepted,
     Age, client, auth, server, Task
<1>4. LoginKnows'
  BY ApiClientAssumption DEF IInv, LoginKnows, Accepted, Age, client, server, Task
<1>5. /\ OneRefresh' /\ Places' /\ LoginIsNew' /\ NotSpent' /\ RestoringAlone'
      /\ SettledOut'
  BY DEF IInv, OneRefresh, Places, LoginIsNew, NotSpent, RestoringAlone, SettledOut,
     NoRefresh, Age, Event, client, auth, server
<1> QED
  BY <1>1, <1>2, <1>3, <1>4, <1>5 DEF IInv

\* The session ends elsewhere.
LEMMA EndSessionStep ==
  ASSUME IInv, EndSession
  PROVE  IInv'
<1>1. TypeOK'
  BY ApiClientAssumption DEF IInv, TypeOK, EndSession, Event, client, auth, Task
<1>2. TokensIssued'
  BY DEF IInv, TokensIssued, TypeOK, EndSession, Event, client, auth
<1>3. RestoringKnows'
  BY DEF IInv, RestoringKnows, Accepted, EndSession, Event, client, auth
<1>4. LoginKnows'
  BY DEF IInv, LoginKnows, Accepted, EndSession, Event, client, auth
<1>5. SettledOut'
  BY DEF IInv, SettledOut, EndSession, Event, client, auth
<1>6. OneRefresh' /\ Places' /\ LoginIsNew' /\ NotSpent' /\ RestoringAlone'
  BY DEF IInv, OneRefresh, Places, LoginIsNew, NotSpent, RestoringAlone, NoRefresh,
     EndSession, Event, client, auth
<1> QED
  BY <1>1, <1>2, <1>3, <1>4, <1>5, <1>6 DEF IInv

\* A lost request ends its task, or those that waited for it.
LEMMA LoseStep ==
  ASSUME IInv, Lose
  PROVE  IInv'
<1>1. Lossy /\ lost' # 0
  BY ApiClientAssumption DEF IInv, TypeOK, Lose, Event, Lossy
<1>2. ASSUME NEW s \in Slot, NEW threw \in BOOLEAN, refresh[s] # NoRefresh,
             RefreshFails(s, threw), parted' = Parted(Waiters(s))
      PROVE  IInv'
  BY <1>1, <1>2, FailsDoes, FailsStep DEF IInv
<1>3. ASSUME NEW t \in Task, OnTheWire(t), TaskFails(t), parted' = Parted({t}) PROVE IInv'
  BY <1>1, <1>3, TaskFailsStep
<1>4. ASSUME pc["login"] \in {"asked", "served"}, TaskFails("login"), parted' = Parted({"login"})
      PROVE  IInv'
  <2>1. "login" \in Task
    BY DEF Task
  <2> QED
    BY <1>1, <1>4, <2>1, TaskFailsStep
<1>5. ASSUME pc["logout"] \in {"asked", "served"}, DropSession, UNCHANGED cookie PROVE IInv'
  BY <1>1, <1>5, DropStep
<1> QED
  BY <1>2, <1>3, <1>4, <1>5 DEF Lose

\* Going to another route leaves the session alone.
LEMMA RouteStep ==
  ASSUME IInv, route' \in Visited,
         UNCHANGED <<client, auth, pc, server, aged, events, lost>>
  PROVE  IInv'
BY DEF IInv, TypeOK, OneRefresh, TokensIssued, Places, LoginIsNew, NotSpent,
   RestoringAlone, RestoringKnows, LoginKnows, SettledOut, OnTheWire, Accepted, client, auth, server

-----------------------------------------------------------------------------
(* The theorems.                                                           *)

\* When the page is loaded, no token has been spent.
LEMMA InitIInv == Init => IInv
<1> SUFFICES ASSUME Init PROVE IInv
  OBVIOUS
<1>1. TypeOK
  <2>1. NoRefresh \in [state : RefreshState, cookie : Nat]
    BY DEF NoRefresh, RefreshState
  <2>2. /\ pc \in [Task -> Place]
        /\ refresh \in [Slot -> [state : RefreshState, cookie : Nat]]
    BY <2>1 DEF Init, Place
  <2>3. live \subseteq 1..(next - 1) /\ rotated \subseteq 1..(next - 1) /\ cookie \in Nat
    BY DEF Init
  <2>4. events \in 0..MaxEvents /\ lost \in 0..events
    BY ApiClientAssumption DEF Init
  <2>5. /\ user \in BOOLEAN /\ loading \in BOOLEAN /\ parted = "no" /\ route \in Visited
        /\ aged \subseteq Nat
    BY DEF Init
  <2>6. /\ accessToken \in Nat /\ next \in Nat \ {0} /\ inFlight = 0
        /\ bearer \in [Task -> Nat] /\ waits \in [Task -> Slot \cup {0}]
    BY DEF Init
  <2> QED
    BY <2>2, <2>3, <2>4, <2>5, <2>6 DEF TypeOK
<1>2. OneRefresh /\ TokensIssued
  BY DEF Init, OneRefresh, TokensIssued, NoRefresh
<1>3. Places /\ LoginIsNew /\ RestoringAlone /\ LoginKnows
  BY ApiClientAssumption
     DEF Init, Places, LoginIsNew, RestoringAlone, LoginKnows, NoRefresh, Task
<1>4. NotSpent /\ RestoringKnows /\ SettledOut
  BY DEF Init, NotSpent, RestoringKnows, SettledOut, NoRefresh, OnTheWire, Task
<1> QED
  BY <1>1, <1>2, <1>3, <1>4 DEF IInv

\* The inductive invariant holds throughout, whatever the tab, the server and
\* the network do.
THEOREM Invariance == Spec => []IInv
<1>1. IInv /\ [Next]_vars => IInv'
  <2> SUFFICES ASSUME IInv, [Next]_vars PROVE IInv'
    OBVIOUS
  <2>1. ASSUME NEW m \in Mount, Restore(m) PROVE IInv'
    <3>1. m \in Task /\ "restoring" \in Place
      BY DEF Task, Place
    <3> QED
      BY <2>1, <3>1, RefreshSessionDoes, AskStep DEF IInv, Restore
  <2>2. ASSUME NEW t \in Task, Unauthorized(t) PROVE IInv'
    <3>1. "renewing" \in Place
      BY DEF Place
    <3> QED
      BY <2>2, <3>1, RefreshSessionDoes, AskStep DEF IInv, Unauthorized
  <2>3. ASSUME NEW t \in Task, Refused(t) PROVE IInv'
    <3>1. Lossy /\ OnTheWire(t) /\ ~Accepted(t)
      BY <2>3 DEF IInv, TypeOK, Refused, Lossy, OnTheWire, env
    <3> QED
      BY <2>3, <3>1, TaskFailsStep DEF Refused
  <2>4. ASSUME NEW s \in Slot, RefreshDenied(s) PROVE IInv'
    <3>1. Lossy
      BY <2>4 DEF IInv, TypeOK, RefreshDenied, Lossy, env
    <3>2. /\ RefreshFails(s, FALSE) /\ refresh[s].state \in {"denied", "erred"}
          /\ \/ refresh[s].state = "denied" /\ UNCHANGED parted
             \/ parted' = Parted(Waiters(s))
      BY <2>4 DEF RefreshDenied
    <3>3. refresh[s] # NoRefresh
      BY <3>2 DEF NoRefresh
    <3> QED
      BY <3>1, <3>2, <3>3, FailsDoes, FailsStep DEF IInv
  <2>5. ASSUME LogoutLands PROVE IInv'
    <3>1. Lossy
      BY <2>5 DEF IInv, TypeOK, LogoutLands, Lossy, env
    <3> QED
      BY <2>5, <3>1, DropStep DEF LogoutLands
  <2>6. ASSUME Redirect \/ \E r \in Visited : Navigate(r) PROVE IInv'
    <3>1. route' \in Visited
      BY <2>6, VisitedAssumption DEF Redirect, Navigate
    <3> QED
      BY <2>6, <3>1, RouteStep DEF Redirect, Navigate
  <2>7. CASE UNCHANGED vars
    <3>1. route' \in Visited
      BY <2>7 DEF IInv, TypeOK, vars, env
    <3> QED
      BY <2>7, <3>1, RouteStep DEF vars, env
  <2>8. ASSUME NEW t \in Task, Progress(t) PROVE IInv'
    BY <2>2, <2>3, <2>8, AnsweredStep DEF Progress
  <2>9. ASSUME Deliver PROVE IInv'
    BY <2>4, <2>9, ServeDoes, ServeStep, LandsDoes, LandsStep DEF Deliver, IInv
  <2>11. ASSUME RefuseLogin PROVE IInv'
    <3>1. Lossy
      BY <2>11 DEF IInv, TypeOK, RefuseLogin, Lossy, env
    <3>2. "login" \in Task
      BY DEF Task
    <3> QED
      BY <2>11, <3>1, <3>2, TaskFailsStep DEF RefuseLogin
  <2>10. ASSUME Sign PROVE IInv'
    BY <2>5, <2>10, <2>11, ServeLoginStep, LoginLandsStep, ServeLogoutStep DEF Sign
  <2> QED
    BY <2>1, <2>6, <2>7, <2>8, <2>9, <2>10, LoginStep, LogoutStep, BeginCallStep, AgeStep,
       EndSessionStep, LoseStep DEF Next
<1> QED
  BY InitIInv, <1>1, PTL DEF Spec

\* Every variable keeps its type (the tab and its server).
THEOREM TypeCorrect == Spec => []TypeOK
<1>1. IInv => TypeOK
  BY DEF IInv
<1> QED
  BY Invariance, <1>1, PTL

\* Overlapping callers of refreshSession share one refresh, so that, unless an
\* answer was lost, none sends a cookie that another has spent (api.ts).
THEOREM NeverSpent == Spec => []SpentCookieNeverSent
<1>1. IInv => SpentCookieNeverSent
  BY DEF IInv, NotSpent, SpentCookieNeverSent
<1> QED
  BY Invariance, <1>1, PTL

\* A tab that goes from a guarded page to the login form has no session, was left,
\* is coming in, or could not load its user: a request of the mount effect or of a
\* login was lost, or was answered with a 429 or a 5xx (App.tsx, auth.tsx, api.ts).
THEOREM NeverBounced == Spec => NoBounce
<1>1. IInv /\ [Next]_vars =>
        [RouteGuard[route] = "auth" /\ Redirect
            => cookie \notin live \/ parted # "no" \/ pc["login"] # "idle"]_vars
  <2> SUFFICES ASSUME IInv, RouteGuard[route] = "auth", Redirect,
                      parted = "no", pc["login"] = "idle"
               PROVE  cookie \notin live
    OBVIOUS
  <2>1. ~loading /\ ~user
    <3>1. Shows(route) = IF loading THEN "restoring" ELSE IF user THEN "page" ELSE "redirect"
      BY DEF Shows
    <3> QED
      BY <3>1 DEF Redirect
  <2> QED
    BY <2>1 DEF IInv, SettledOut
<1> QED
  BY Invariance, <1>1, PTL DEF Spec, NoBounce

=============================================================================

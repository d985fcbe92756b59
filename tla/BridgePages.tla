------------------------------ MODULE BridgePages ------------------------------
(***************************************************************************)
(* The dataset finder of NC++ (Bridge.tsx with bridge.ts) for one model    *)
(* and a verified user, in front of the server and its worker.             *)
(*                                                                         *)
(* A search asks whether the topic's verdict exists and, if not, starts a  *)
(* run.  The page polls while a run is active, announces the run that it   *)
(* watches when it succeeds, and loads its two lists again: the user's     *)
(* recent searches and the topics that have a verdict.  An answer carries  *)
(* what the server held when it served the request; answers land in any    *)
(* order.                                                                  *)
(***************************************************************************)
EXTENDS Integers, FiniteSets

CONSTANTS
    Topic,      \* the topics that are searched
    MaxRuns,    \* bound: the user's runs
    MaxEvents,  \* bound: what other users and the user's other tabs do, and
                \* requests whose answer never comes
    MaxPolls,   \* bound: polls on the wire at the same time
    None

\* RECENT_LIMIT is 3: with no more topics nothing is evicted.
BridgePagesConstants ==
    /\ None \notin Topic /\ Cardinality(Topic) <= 3
    /\ MaxRuns \in Nat \ {0} /\ MaxEvents \in Nat /\ MaxPolls \in Nat \ {0}

Run == 1..MaxRuns   \* in the order of creation
ACTIVE_STATUSES == {"queued", "running"}
Status == {"none", "succeeded", "failed", "cancelled"} \cup ACTIVE_STATUSES
Row == [topic : Topic \cup {None}, status : Status]
NoRow == [topic |-> None, status |-> "none"]
Rows == [Run -> Row]

VARIABLES
    srv,        \* the user's runs of this model, on the server
    ready,      \* the topics with a verdict
    recorded,   \* the user's recent searches
    unrecorded, \* topics of runs that succeeded and are about to be recorded
    runs, recents, checked, justFound, watched, \* what the page holds
    pending,    \* the parts of the first load that are still out
    loading, error, busy,
    flight,     \* the requests on the wire
    quick,      \* a list loaded by onSearch already had its run's success (a ghost)
    stale,      \* a list was served before what it should show, or two overlapped (a ghost)
    others, lost

server == <<srv, ready, recorded, unrecorded, others>>
lists == <<runs, recents, checked>>
page == <<lists, justFound, watched, pending, loading, error, busy>>
vars == <<server, page, flight, quick, stale, lost>>

Kind == {"shelf", "found", "runs", "lookup", "start", "cancel"}
Why == {"load", "poll", "search", "cancel"}
Request == [kind : Kind, why : Why, id : Nat, topic : Topic \cup {None}, run : Run \cup {0},
            phase : {"asked", "ok", "refused"}, served : SUBSET {"recents", "checked"},
            rows : Rows, recents : SUBSET Topic, checked : SUBSET Topic]

TypeOK ==
    /\ srv \in Rows /\ runs \in Rows
    /\ ready \subseteq Topic /\ recorded \subseteq ready /\ unrecorded \subseteq ready
    /\ recents \subseteq Topic /\ checked \subseteq Topic
    /\ justFound \in Topic \cup {None} /\ watched \in Run \cup {0}
    /\ pending \subseteq {"shelf", "found"}
    /\ loading \in BOOLEAN /\ error \in BOOLEAN /\ busy \in BOOLEAN
    /\ flight \subseteq Request
    /\ quick \in BOOLEAN /\ stale \in BOOLEAN
    /\ others \in 0..MaxEvents /\ lost \in 0..MaxEvents

Ask(kind, why, i, t, run) ==
    [kind |-> kind, why |-> why, id |-> i, topic |-> t, run |-> run, phase |-> "asked",
     served |-> {}, rows |-> [n \in Run |-> NoRow], recents |-> {}, checked |-> {}]

\* findActiveRun: is a run of this list queued or running?
HasActive(rows) == \E n \in Run : rows[n].status \in ACTIVE_STATUSES

\* Mutants: the list of the render that made the interval; a run that has ended.
StaleCompleted(fresh, old) == watched # 0 /\ old[watched].status = "succeeded"
EndedCompleted(fresh, old) == watched # 0 /\ fresh[watched].status \notin ACTIVE_STATUSES

\* completedRun, in the list that the poll has just fetched.
Completed(fresh, old) == watched # 0 /\ fresh[watched].status = "succeeded"

-----------------------------------------------------------------------------
(* What the user does.                                                     *)

\* The button is disabled while a search starts and while a run is shown.
Search(t) ==
    /\ ~loading /\ ~busy /\ ~HasActive(runs)
    /\ busy' = TRUE /\ error' = FALSE
    /\ flight' = flight \cup {Ask("lookup", "search", 0, t, 0)}
    /\ UNCHANGED <<server, lists, justFound, watched, pending, loading, quick, stale, lost>>

\* "Stop waiting" is offered for a run that is shown as stalled, which is queued.
Cancel(n) ==
    /\ runs[n].status = "queued"
    /\ \A r \in flight : r.why # "cancel"
    /\ error' = FALSE
    /\ flight' = flight \cup {Ask("cancel", "cancel", 0, None, n)}
    /\ UNCHANGED <<server, lists, justFound, watched, pending, loading, busy, quick, stale, lost>>

\* The interval, at either of its rates.
Tick ==
    /\ HasActive(runs)
    /\ \E i \in 1..MaxPolls :
          /\ \A r \in flight : ~(r.kind = "runs" /\ r.why = "poll" /\ r.id = i)
          /\ flight' = flight \cup {Ask("runs", "poll", i, None, 0)}
    /\ UNCHANGED <<server, page, quick, stale, lost>>

-----------------------------------------------------------------------------
(* The server and its worker.                                              *)

\* start_run: a verdict that exists is recorded and returned; an active run or
\* a limit refuses; else the next run is queued.
Started(r) ==
    \/ /\ r.topic \in ready
       /\ recorded' = recorded \cup {r.topic}
       /\ flight' = (flight \ {r}) \cup {[r EXCEPT !.phase = "ok"]}
       /\ UNCHANGED srv
    \/ /\ r.topic \notin ready
       /\ flight' = (flight \ {r}) \cup {[r EXCEPT !.phase = "refused"]}
       /\ UNCHANGED <<recorded, srv>>
    \/ /\ r.topic \notin ready /\ ~HasActive(srv)
       /\ \E n \in Run :
             /\ srv[n] = NoRow /\ (n > 1 => srv[n - 1] # NoRow)
             /\ srv' = [srv EXCEPT ![n] = [topic |-> r.topic, status |-> "queued"]]
             /\ flight' = (flight \ {r}) \cup {[r EXCEPT !.phase = "ok", !.run = n]}
       /\ UNCHANGED recorded

\* POST /bridge/recent: `checked` of the answer says whether the verdict exists.
LookedUp(r) ==
    /\ recorded' = recorded \cup (ready \cap {r.topic})
    /\ flight' = (flight \ {r}) \cup {[r EXCEPT !.phase = "ok", !.checked = ready]}
    /\ UNCHANGED srv

\* cancel_run: a queued run only.
Cancelled(r) ==
    /\ IF srv[r.run].status = "queued"
       THEN /\ srv' = [srv EXCEPT ![r.run].status = "cancelled"]
            /\ flight' = (flight \ {r}) \cup {[r EXCEPT !.phase = "ok"]}
       ELSE /\ flight' = (flight \ {r}) \cup {[r EXCEPT !.phase = "refused"]}
            /\ UNCHANGED srv
    /\ UNCHANGED recorded

\* The two requests of loadFound are served one after the other.
FoundServed(r, part) ==
    LET now == r.served \cup {part}
    IN  flight' = (flight \ {r}) \cup
            {[r EXCEPT !.served = now, !.phase = IF now = {"recents", "checked"} THEN "ok" ELSE "asked",
                       !.recents = IF part = "recents" THEN recorded ELSE @,
                       !.checked = IF part = "checked" THEN ready ELSE @]}

Serve(r) ==
    /\ r.phase = "asked"
    /\ CASE r.kind = "start" -> Started(r)
         [] r.kind = "lookup" -> LookedUp(r)
         [] r.kind = "cancel" -> Cancelled(r)
         [] r.kind = "found" ->
              /\ \E part \in {"recents", "checked"} \ r.served : FoundServed(r, part)
              /\ UNCHANGED <<srv, recorded>>
         [] OTHER ->
              /\ flight' = (flight \ {r}) \cup
                    {[r EXCEPT !.phase = "ok", !.rows = IF r.kind = "runs" THEN srv ELSE @]}
              /\ UNCHANGED <<srv, recorded>>
    /\ UNCHANGED <<ready, unrecorded, others, page, quick, stale, lost>>

\* run_bridge_job: the verdict and the status are committed, the recent search
\* after them.
Work(n) ==
    /\ \/ /\ srv[n].status = "queued"
          /\ srv' = [srv EXCEPT ![n].status = "running"]
          /\ UNCHANGED <<ready, unrecorded>>
       \/ /\ srv[n].status = "running"
          /\ srv' = [srv EXCEPT ![n].status = "succeeded"]
          /\ ready' = ready \cup {srv[n].topic}
          /\ unrecorded' = unrecorded \cup {srv[n].topic}
       \/ /\ srv[n].status = "running"
          /\ srv' = [srv EXCEPT ![n].status = "failed"]
          /\ UNCHANGED <<ready, unrecorded>>
    /\ UNCHANGED <<recorded, others, page, flight, quick, stale, lost>>

\* _remember_search.
Record(t) ==
    /\ t \in unrecorded
    /\ recorded' = recorded \cup {t} /\ unrecorded' = unrecorded \ {t}
    /\ UNCHANGED <<srv, ready, others, page, flight, quick, stale, lost>>

\* Another user's run stores a verdict, or another tab starts a run.
Other(t) ==
    /\ others + lost < MaxEvents /\ others' = others + 1 /\ t \notin ready
    /\ \/ ready' = ready \cup {t} /\ UNCHANGED srv
       \/ /\ ~HasActive(srv) /\ UNCHANGED ready
          /\ \E n \in Run :
                /\ srv[n] = NoRow /\ (n > 1 => srv[n - 1] # NoRow)
                /\ srv' = [srv EXCEPT ![n] = [topic |-> t, status |-> "queued"]]
    /\ UNCHANGED <<recorded, unrecorded, page, flight, quick, stale, lost>>

-----------------------------------------------------------------------------
(* The answers.                                                            *)

\* Mutant: only one list is loaded again.
BugAskFound(why, t) == Ask(IF why = "poll" THEN "shelf" ELSE "found", "load", 0, t, 0)

\* loadFound, asked after a topic was announced.  The lists miss the topic if
\* it is not recorded yet, or if an older answer lands last.
AskFound(why, t) == Ask("found", why, 0, t, 0)
Misses(t) == t \in unrecorded \/ \E r \in flight : r.kind = "found"

\* Promise.all of the first load: the runs are asked for when both are in.
Arrived(part, why) ==
    IF why = "load" /\ pending = {part} THEN {Ask("runs", "load", 0, None, 0)} ELSE {}

ShelfLands(r) ==
    /\ r.kind = "shelf" /\ r.phase = "ok"
    /\ pending' = pending \ {"shelf"}
    /\ flight' = (flight \ {r}) \cup Arrived("shelf", "load")
    /\ UNCHANGED <<server, lists, justFound, watched, loading, error, busy, quick, stale, lost>>

FoundLands(r) ==
    /\ r.kind = "found" /\ r.phase = "ok"
    /\ recents' = r.recents /\ checked' = r.checked
    /\ pending' = IF r.why = "load" THEN pending \ {"found"} ELSE pending
    /\ flight' = (flight \ {r}) \cup Arrived("found", r.why)
    /\ busy' = (busy /\ r.why # "search")
    /\ UNCHANGED <<server, runs, justFound, watched, loading, error, quick, stale, lost>>

\* The poll announces the run it watches when it finds it completed.
RunsLand(r) ==
    LET done == r.why = "poll" /\ Completed(r.rows, runs)
        t == r.rows[watched].topic
    IN  /\ r.kind = "runs" /\ r.phase = "ok"
        /\ runs' = r.rows
        /\ loading' = (loading /\ r.why # "load")
        /\ busy' = (busy /\ r.why # "search")
        /\ quick' = (quick \/ (r.why # "poll" /\ watched # 0 /\ r.rows[watched].status = "succeeded"))
        /\ IF done
           THEN /\ justFound' = t /\ watched' = 0
                /\ flight' = (flight \ {r}) \cup {AskFound("poll", t)}
                /\ stale' = (stale \/ Misses(t))
           ELSE flight' = flight \ {r} /\ UNCHANGED <<justFound, watched, stale>>
        /\ UNCHANGED <<server, recents, checked, pending, error, lost>>

\* announce.
Announce(r, others1) ==
    /\ justFound' = r.topic
    /\ flight' = others1 \cup {AskFound("search", r.topic)}
    /\ stale' = (stale \/ \E q \in flight : q.kind = "found")
    /\ UNCHANGED <<watched, quick>>

LookupLands(r) ==
    /\ r.kind = "lookup" /\ r.phase = "ok"
    /\ IF r.topic \in r.checked THEN Announce(r, flight \ {r})
       ELSE /\ flight' = (flight \ {r}) \cup {Ask("start", "search", 0, r.topic, 0)}
            /\ UNCHANGED <<justFound, watched, quick, stale>>
    /\ UNCHANGED <<server, lists, pending, loading, error, busy, lost>>

StartLands(r) ==
    /\ r.kind = "start" /\ r.phase = "ok"
    /\ IF r.run = 0 THEN Announce(r, flight \ {r})
       ELSE /\ watched' = r.run /\ justFound' = None
            /\ quick' = (runs[r.run].status = "succeeded")
            /\ flight' = (flight \ {r}) \cup {Ask("runs", "search", 0, None, 0)}
            /\ UNCHANGED stale
    /\ UNCHANGED <<server, lists, pending, loading, error, busy, lost>>

CancelLands(r) ==
    /\ r.kind = "cancel" /\ r.phase = "ok"
    /\ flight' = (flight \ {r}) \cup {Ask("runs", "cancel", 0, None, 0)}
    /\ UNCHANGED <<server, page, quick, stale, lost>>

\* A failure: the poll ignores its own, the others show it.
Fails(r) ==
    /\ r.phase = "refused"
    /\ flight' = flight \ {r}
    /\ error' = (error \/ r.why # "poll")
    /\ pending' = IF r.why = "load" THEN {} ELSE pending
    /\ loading' = (loading /\ r.why # "load")
    /\ busy' = (busy /\ r.why # "search")
    /\ UNCHANGED <<server, lists, justFound, watched, quick, stale, lost>>

\* fetch rejects, before or after the server did its part.
Lose(r) ==
    /\ r.phase # "refused" /\ others + lost < MaxEvents
    /\ lost' = lost + 1
    /\ flight' = (flight \ {r}) \cup {[r EXCEPT !.phase = "refused"]}
    /\ UNCHANGED <<server, page, quick, stale>>

Init ==
    /\ srv \in {[n \in Run |-> IF n = 1 THEN row ELSE NoRow] :
                   row \in {NoRow} \cup [topic : Topic, status : {"queued", "failed"}]}
    /\ ready \in SUBSET Topic /\ recorded = {} /\ unrecorded = {}
    /\ srv[1].topic \notin ready
    /\ runs = [n \in Run |-> NoRow] /\ recents = {} /\ checked = {}
    /\ justFound = None /\ watched = 0 /\ pending = {"shelf", "found"}
    /\ loading = TRUE /\ error = FALSE /\ busy = FALSE
    /\ flight = {Ask("shelf", "load", 0, None, 0), Ask("found", "load", 0, None, 0)}
    /\ quick = FALSE /\ stale = FALSE /\ others = 0 /\ lost = 0

Next ==
    \/ \E t \in Topic : Search(t) \/ Record(t) \/ Other(t)
    \/ \E n \in Run : Cancel(n) \/ Work(n)
    \/ Tick
    \/ \E r \in flight :
          \/ Serve(r) \/ Lose(r) \/ ShelfLands(r) \/ FoundLands(r) \/ RunsLand(r)
          \/ LookupLands(r) \/ StartLands(r) \/ CancelLands(r) \/ Fails(r)

Spec == Init /\ [][Next]_vars

-----------------------------------------------------------------------------
(* Properties.                                                             *)

\* What the page announces can be opened: its topic has a verdict.
AnnouncedIsReady == justFound # None => justFound \in ready

\* Bridge.tsx: "Both lists move together after a search".  When the lists have
\* been loaded, an announced topic is in both, unless the worker had not
\* recorded the search yet or an older answer landed last.
AnnouncedIsListed ==
    justFound # None /\ lost = 0 /\ ~stale /\ (\A r \in flight : r.kind # "found")
        => justFound \in recents \cap checked

\* Bridge.tsx: a finished search never just vanishes.  A watched run that the
\* page shows as succeeded has been announced, unless the list that onSearch
\* loads, or an earlier one, had its success already (no poll ever sees the wait end then).
FinishIsAnnounced ==
    watched # 0 /\ runs[watched].status = "succeeded" => quick

=============================================================================

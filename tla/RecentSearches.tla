--------------------------- MODULE RecentSearches ---------------------------
(***************************************************************************)
(* The topics one student looked up for one step (recents.py): a search is *)
(* a transaction of an upsert and a delete, and the student's tabs and the *)
(* worker that finishes a run of theirs may be in one at the same time.    *)
(* Lists of other students and steps share nothing with it.                *)
(*                                                                         *)
(* A statement sees what was committed when it began and what its own      *)
(* transaction wrote; it waits for a row that another has written.  Every  *)
(* topic here has a verdict, without which nothing records a search.       *)
(***************************************************************************)
EXTENDS Integers, FiniteSetsExt

CONSTANTS
    Tab,        \* what records searches: requests and the worker
    Topic,      \* topic_slugs
    Id,         \* the ids of rows, as they compare
    RECENT_SEARCH_LIMIT,
    MaxTime     \* bound: ticks of the clock

RecentSearchesConstants ==
    /\ IsFiniteSet(Tab) /\ IsFiniteSet(Topic) /\ Id \subseteq Nat
    /\ RECENT_SEARCH_LIMIT \in Nat \ {0} /\ MaxTime \in Nat

VARIABLES
    clock,      \* utcnow
    rows,       \* bridge_recent_searches, as committed
    tab,        \* the transactions
    asked,      \* the searches the list should know of: topic and time
    alone       \* the last search to commit had met no other

vars == <<clock, rows, tab, asked, alone>>

Nothing == [pc |-> "idle", row |-> 0, evicted |-> {}, alone |-> FALSE]
At(t, p) == tab[t].pc = p

\* An upsert holds its row until the end.
Writing(t) == At(t, "written") \/ At(t, "evicted")

Init ==
    /\ clock = 0 /\ rows = {} /\ asked = {} /\ alone = TRUE
    /\ tab = [t \in Tab |-> Nothing]

Tick ==
    /\ clock < MaxTime /\ clock' = clock + 1
    /\ UNCHANGED <<rows, tab, asked, alone>>

\* record_search: the topic and the time of the search.
Begin(t, topic) ==
    /\ At(t, "idle")
    /\ LET first == \A u \in Tab : At(u, "idle")
       IN  tab' = [u \in Tab |->
               IF u = t THEN [Nothing EXCEPT !.pc = "begun", !.alone = first,
                                             !.row = [topic |-> topic, at |-> clock, id |-> 0]]
               ELSE [tab[u] EXCEPT !.alone = FALSE]]
    /\ UNCHANGED <<clock, rows, asked, alone>>

\* The upsert: the topic's row is bumped, or there is a new one.
Used == {r.id : r \in rows} \cup {tab[t].row.id : t \in {u \in Tab : Writing(u)}}
RowIds(topic) ==
    LET own == {r \in rows : r.topic = topic}
    IN  IF own = {} THEN Id \ Used ELSE {r.id : r \in own}

Upsert(t) ==
    LET topic == tab[t].row.topic
    IN  /\ At(t, "begun")
        /\ \A u \in Tab : Writing(u) => tab[u].row.topic # topic
        /\ \E i \in RowIds(topic) :
              tab' = [tab EXCEPT ![t].pc = "written", ![t].row.id = i]
        /\ UNCHANGED <<clock, rows, asked, alone>>

\* Newest first, ties by id; the newest n of s.
Newer(r, s) == r.at > s.at \/ (r.at = s.at /\ r.id > s.id)
BugNewest(s, n) == {r \in s : Cardinality({q \in s : Newer(q, r)}) <= n}
Newest(s, n) == {r \in s : Cardinality({q \in s : Newer(q, r)}) < n}

\* What the transaction sees.
BugSeen(t) == rows
Seen(t) == {r \in rows : r.topic # tab[t].row.topic} \cup {tab[t].row}

\* The delete, up to the rows it finds.
Evict(t) ==
    /\ At(t, "written")
    /\ LET old == Seen(t) \ Newest(Seen(t), RECENT_SEARCH_LIMIT)
       IN  tab' = [tab EXCEPT ![t].pc = "evicted", ![t].evicted = {r.id : r \in old}]
    /\ UNCHANGED <<clock, rows, asked, alone>>

\* The delete waits for rows that others have bumped, and takes them all the
\* same: what it keeps was settled when it began.  Then the commit.
Commit(t) ==
    LET topic == tab[t].row.topic
        search == [topic |-> topic, at |-> tab[t].row.at]
    IN  /\ At(t, "evicted")
        /\ \A u \in Tab \ {t} : Writing(u) => tab[u].row.id \notin tab[t].evicted
        /\ rows' = {r \in Seen(t) : r.id \notin tab[t].evicted}
        /\ asked' = IF tab[t].alone THEN {s \in asked : s.topic # topic} \cup {search}
                    ELSE {[topic |-> r.topic, at |-> r.at] : r \in rows'}
        /\ alone' = tab[t].alone
        /\ tab' = [tab EXCEPT ![t] = Nothing]
        /\ UNCHANGED clock

\* An error, a lost connection or a deadlock: the API fails, the worker logs it
\* (record_search_quietly).
Abort(t) ==
    /\ ~At(t, "idle")
    /\ tab' = [tab EXCEPT ![t] = Nothing]
    /\ UNCHANGED <<clock, rows, asked, alone>>

Next ==
    \/ Tick
    \/ \E t \in Tab :
          \/ \E topic \in Topic : Begin(t, topic)
          \/ Upsert(t) \/ Evict(t) \/ Commit(t) \/ Abort(t)

Spec == Init /\ [][Next]_vars

----------------------------------------------------------------------------
\* Properties.

Row == [topic: Topic, at: 0..MaxTime, id: Id \cup {0}]

\* The values of the rows and of the transactions.
TypeOK ==
    /\ clock \in 0..MaxTime /\ alone \in BOOLEAN
    /\ rows \subseteq Row
    /\ asked \subseteq [topic: Topic, at: 0..MaxTime]
    /\ \A t \in Tab :
          /\ tab[t].pc \in {"idle", "begun", "written", "evicted"}
          /\ ~At(t, "idle") => tab[t].row \in Row
          /\ tab[t].evicted \subseteq Id /\ tab[t].alone \in BOOLEAN

\* One row per topic and per id (uq_bridge_recent_user_model_topic).
RowsAreDistinct ==
    \A r \in rows, s \in rows : r.topic = s.topic \/ r.id = s.id => r = s

\* Searches one after another leave the newest RECENT_SEARCH_LIMIT of them:
\* "the fourth replaces the oldest" (record_search).  After searches that met,
\* the next one alone puts the list right.
AloneListsNewest ==
    alone =>
        /\ Cardinality(rows) = (IF Cardinality(asked) < RECENT_SEARCH_LIMIT
                                THEN Cardinality(asked) ELSE RECENT_SEARCH_LIMIT)
        /\ \A r \in rows : [topic |-> r.topic, at |-> r.at] \in asked
        /\ \A r \in rows, s \in asked : s.at > r.at => \E q \in rows : q.topic = s.topic

\* However searches meet, the list is too long by one row at most for each of
\* the others.
NeverMuchTooLong == Cardinality(rows) < RECENT_SEARCH_LIMIT + Cardinality(Tab)

\* The student's list of recent searches.
RecentsAreRight == RowsAreDistinct /\ AloneListsNewest /\ NeverMuchTooLong
=============================================================================

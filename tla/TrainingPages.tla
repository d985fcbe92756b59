----------------------------- MODULE TrainingPages -----------------------------
(***************************************************************************)
(* The training pages of NC++: the list of jobs with its poll and its      *)
(* clear button (Training.tsx), and a model's page with its run form       *)
(* (TrainingModel.tsx), for a verified user.  An answer carries what the   *)
(* server held when it served the request, and answers land in any order.  *)
(* The effect of a page that has gone is cancelled by a flag that its      *)
(* closure reads; the poll and the clear button have no such flag.         *)
(***************************************************************************)
EXTENDS Integers, FiniteSets

CONSTANTS
    Job,        \* jobs that are ever submitted
    Model,      \* the registered models
    Dataset,    \* the values of a model's dataset parameter
    Field,      \* its other parameters
    Overrides,  \* the fields that each model's dataset_defaults set, per dataset
    MaxMoves,   \* bound: pages mounted after the first, and requests whose answer
                \* never comes
    MaxPolls,   \* bound: polls on the wire at the same time
    None

\* The registry: the datasets of a model override the same fields.
TrainingPagesConstants ==
    /\ MaxMoves \in Nat /\ MaxPolls \in Nat \ {0}
    /\ Model # {} /\ Dataset # {}
    /\ "list" \notin Model /\ None \notin Model
    /\ Overrides \in [Model -> [Dataset -> SUBSET Field]]
    /\ \A m \in Model : \A d, e \in Dataset : Overrides[m][d] = Overrides[m][e]

Status == {"none", "queued", "running", "ended"}
ACTIVE == {"queued", "running"}
Rows == [Job -> Status]
NoRows == [j \in Job |-> "none"]

\* Where a field's value comes from: the parameter, a dataset, or the keyboard.
Source == Dataset \cup {"base", "typed"}
Values == [dataset : Dataset, of : [Field -> Source]]

Kind == {"models", "jobs", "clear", "run"}
Why == {"load", "poll", "clear", "form"}

VARIABLES
    at,         \* the route: "list", or a model's page
    mount,      \* the number of the mounted page
    srv,        \* the user's jobs on the server
    rows,       \* the jobs the list shows
    loading, clearing,
    error,      \* a failure has been shown (a form keeps its own)
    shown,      \* the model whose form is on the page
    values, busy,
    flight,     \* the requests on the wire
    raced,      \* a clear overtook a list on its way, or a clear or a run was
                \* served after its page had gone (a ghost)
    lost

page == <<rows, loading, error, clearing, shown, values, busy>>
vars == <<at, mount, srv, page, flight, raced, lost>>

Request == [kind : Kind, why : Why, mount : Nat, id : Nat, phase : {"asked", "ok", "refused"}, url : Model \cup {"list"}, got : Rows]

TypeOK ==
    /\ at \in Model \cup {"list"} /\ mount \in 1..MaxMoves + 2
    /\ srv \in Rows /\ rows \in Rows
    /\ loading \in BOOLEAN /\ error \in BOOLEAN /\ clearing \in BOOLEAN /\ busy \in BOOLEAN
    /\ shown \in Model \cup {None}
    /\ values \in Values
    /\ flight \subseteq Request /\ \A r \in flight : r.mount <= mount
    /\ raced \in BOOLEAN /\ lost \in 0..MaxMoves

Mounted(r) == r.mount = mount

HasActive(r) == \E j \in Job : r[j] \in ACTIVE

Ask(kind, why, n, i, url) ==
    [kind |-> kind, why |-> why, mount |-> n, id |-> i, phase |-> "asked", url |-> url, got |-> NoRows]

-----------------------------------------------------------------------------
(* The run form.                                                           *)

\* withDatasetDefaults: the chosen dataset's defaults over the rest.
WithDatasetDefaults(m, v, d) ==
    [v EXCEPT !.of = [f \in Field |-> IF f \in Overrides[m][d] THEN d ELSE @[f]]]

SomeDataset == CHOOSE d \in Dataset : TRUE

\* initialValues.
InitialValues(m) ==
    WithDatasetDefaults(m, [dataset |-> SomeDataset, of |-> [f \in Field |-> "base"]], SomeDataset)

\* No form.
Blank == InitialValues(CHOOSE m \in Model : TRUE)

\* Mutant: the overlay of the dataset that was chosen before.
BugSetDataset(v, m, d) == WithDatasetDefaults(m, [v EXCEPT !.dataset = d], v.dataset)

\* setParam for the dataset parameter.
SetDataset(v, m, d) == WithDatasetDefaults(m, [v EXCEPT !.dataset = d], d)

Choose(d) ==
    /\ at # "list" /\ shown # None
    /\ values' = SetDataset(values, shown, d)
    /\ UNCHANGED <<at, mount, srv, rows, loading, error, clearing, shown, busy, flight, raced, lost>>

Type(f) ==
    /\ at # "list" /\ shown # None
    /\ values' = [values EXCEPT !.of[f] = "typed"]
    /\ UNCHANGED <<at, mount, srv, rows, loading, error, clearing, shown, busy, flight, raced, lost>>

Submit ==
    /\ at # "list" /\ shown # None /\ ~busy
    /\ busy' = TRUE
    /\ flight' = flight \cup {Ask("run", "form", mount, 0, at)}
    /\ UNCHANGED <<at, mount, srv, rows, loading, error, clearing, shown, values, raced, lost>>

-----------------------------------------------------------------------------
(* Navigation and effects.                                                 *)

\* Mutant: the effect of TrainingModel has no cancelled flag.
BugCancelled(r) == r.why # "form" /\ r.url = "list"

\* The cleanup of an effect cancels what it had asked: the answer, when it
\* comes, changes nothing.
Cancelled(r) == r.why # "form"

\* Another route.  Moving between two models keeps the page and what it shows;
\* any other move mounts a new one.  Reads that are cancelled, or whose page is
\* gone, are dropped: their answers would change nothing.
GoTo(r, others) ==
    LET same == at # "list" /\ r # "list"
        kept(q) == q.kind \in {"clear", "run"} \/ (same /\ ~Cancelled(q))
    IN  /\ at' = r /\ mount' = IF same THEN mount ELSE mount + 1
        /\ flight' = {q \in others : kept(q)} \cup {Ask("models", "load", mount', 0, r)}
        /\ IF same THEN UNCHANGED page
           ELSE /\ rows' = NoRows /\ loading' = TRUE /\ error' = FALSE /\ clearing' = FALSE
                /\ shown' = None /\ busy' = FALSE /\ values' = Blank

Navigate(r) ==
    /\ r # at /\ mount + lost <= MaxMoves
    /\ GoTo(r, flight)
    /\ UNCHANGED <<srv, raced, lost>>

\* Mutant: the interval runs only while a job is running.
BugPolls == \E j \in Job : rows[j] = "running"

\* The interval of the list runs while a job is active.
Polls == HasActive(rows)

Tick ==
    /\ at = "list" /\ Polls
    /\ \E i \in 1..MaxPolls :
          LET q == Ask("jobs", "poll", mount, i, "list")
          IN  /\ \A r \in flight : ~(r.why = "poll" /\ r.id = i /\ r.mount = mount)
              /\ flight' = flight \cup {q}
    /\ UNCHANGED <<at, mount, srv, page, raced, lost>>

\* The button, shown while a finished job is.
ClearFinished ==
    /\ at = "list" /\ ~clearing
    /\ \E j \in Job : rows[j] = "ended"
    /\ clearing' = TRUE /\ error' = FALSE
    /\ flight' = flight \cup {Ask("clear", "clear", mount, 0, "list")}
    /\ UNCHANGED <<at, mount, srv, rows, loading, shown, values, busy, raced, lost>>

-----------------------------------------------------------------------------
(* The server.                                                             *)

\* A run is refused while the user has an active job.
Served(r, srv1) == flight' = (flight \ {r}) \cup {[r EXCEPT !.phase = "ok", !.got = srv1]}

Serve(r) ==
    /\ r.phase = "asked"
    /\ CASE r.kind = "run" ->
              IF HasActive(srv)
              THEN /\ flight' = (flight \ {r}) \cup {[r EXCEPT !.phase = "refused"]}
                   /\ UNCHANGED srv
              ELSE \E j \in Job :
                     /\ srv[j] = "none"
                     /\ srv' = [srv EXCEPT ![j] = "queued"]
                     /\ Served(r, NoRows)
         [] r.kind = "clear" ->
              /\ srv' = [j \in Job |-> IF srv[j] = "ended" THEN "none" ELSE srv[j]]
              /\ Served(r, NoRows)
         [] r.kind = "jobs" -> Served(r, srv) /\ UNCHANGED srv
         [] r.kind = "models" -> Served(r, NoRows) /\ UNCHANGED srv
    /\ raced' = \/ raced
                \/ r.kind = "clear" /\ \E q \in flight : q.kind = "jobs" /\ q.phase = "ok"
                \/ r.kind \in {"clear", "run"} /\ ~Mounted(r)
    /\ UNCHANGED <<at, mount, page, lost>>

\* The worker takes a job and finishes it.
Work(j) ==
    /\ srv[j] \in ACTIVE
    /\ srv' = [srv EXCEPT ![j] = IF @ = "queued" THEN "running" ELSE "ended"]
    /\ UNCHANGED <<at, mount, page, flight, raced, lost>>

-----------------------------------------------------------------------------
(* The answers.                                                            *)

\* GET /train/models: the list goes on to its jobs, a model's page shows its
\* model and seeds the form.
ModelsLand(r) ==
    /\ r.kind = "models" /\ r.phase = "ok"
    /\ IF r.url = "list"
       THEN /\ flight' = (flight \ {r}) \cup {Ask("jobs", "load", mount, 0, "list")}
            /\ UNCHANGED page
       ELSE /\ flight' = flight \ {r}
            /\ shown' = r.url
            /\ IF r.url = shown THEN UNCHANGED <<values, busy>>
               ELSE values' = InitialValues(r.url) /\ busy' = FALSE
            /\ loading' = FALSE
            /\ UNCHANGED <<rows, error, clearing>>
    /\ UNCHANGED <<at, mount, srv, raced, lost>>

\* loadJobs: the rows are replaced, whoever asked.
JobsLand(r) ==
    /\ r.kind = "jobs" /\ r.phase = "ok"
    /\ flight' = flight \ {r}
    /\ rows' = r.got
    /\ loading' = (loading /\ r.why # "load")
    /\ clearing' = (clearing /\ r.why # "clear")
    /\ UNCHANGED <<at, mount, srv, error, shown, values, busy, raced, lost>>

\* The clear button goes on to reload the list.
ClearLands(r) ==
    /\ r.kind = "clear" /\ r.phase = "ok"
    /\ flight' = (flight \ {r}) \cup (IF Mounted(r) THEN {Ask("jobs", "clear", mount, 0, "list")} ELSE {})
    /\ UNCHANGED <<at, mount, srv, page, raced, lost>>

\* The submitted job is shown in the list, wherever the user is by then.
RunLands(r) ==
    /\ r.kind = "run" /\ r.phase = "ok"
    /\ IF at = "list"
       THEN flight' = flight \ {r} /\ UNCHANGED <<at, mount, page>>
       ELSE GoTo("list", flight \ {r})
    /\ UNCHANGED <<srv, raced, lost>>

\* A failure: the poll ignores it, the others show it.
Fails(r) ==
    /\ r.phase = "refused"
    /\ flight' = flight \ {r}
    /\ IF Mounted(r) /\ r.why # "poll"
       THEN /\ error' = TRUE
            /\ loading' = (loading /\ r.why # "load")
            /\ clearing' = (clearing /\ r.why # "clear")
            /\ busy' = (busy /\ r.why # "form")
            /\ UNCHANGED <<rows, shown, values>>
       ELSE UNCHANGED page
    /\ UNCHANGED <<at, mount, srv, raced, lost>>

Lose(r) ==
    /\ r.phase # "refused" /\ mount + lost <= MaxMoves
    /\ lost' = lost + 1
    /\ flight' = (flight \ {r}) \cup {[r EXCEPT !.phase = "refused", !.got = NoRows]}
    /\ UNCHANGED <<at, mount, srv, page, raced>>

\* The tab opens on either page, perhaps with a job under way.
Init ==
    /\ at \in Model \cup {"list"} /\ mount = 1
    /\ srv \in {NoRows} \cup {[NoRows EXCEPT ![j] = "queued"] : j \in Job}
    /\ rows = NoRows /\ loading = TRUE /\ error = FALSE /\ clearing = FALSE
    /\ shown = None /\ values = Blank /\ busy = FALSE
    /\ flight = {Ask("models", "load", 1, 0, at)}
    /\ raced = FALSE /\ lost = 0

Next ==
    \/ \E d \in Dataset : Choose(d)
    \/ \E f \in Field : Type(f)
    \/ Submit \/ ClearFinished \/ Tick
    \/ \E r \in Model \cup {"list"} : Navigate(r)
    \/ \E j \in Job : Work(j)
    \/ \E r \in flight :
          \/ Serve(r) \/ Lose(r) \/ ModelsLand(r) \/ JobsLand(r)
          \/ ClearLands(r) \/ RunLands(r) \/ Fails(r)

Spec == Init /\ [][Next]_vars

-----------------------------------------------------------------------------
(* Properties.                                                             *)

\* The list never comes to rest on rows that are wrong: with nothing on the
\* wire and no poll to come, it shows the jobs as the server has them, however
\* the answers of polls, load and clear were reordered.  A failure that it
\* shows and a clear that raced a list excuse it (Training.tsx).
RestingRowsAreTrue ==
    at = "list" /\ ~Polls /\ ~error /\ ~raced
    /\ (\A r \in flight : ~Mounted(r) \/ r.kind = "run")
        => rows = srv

\* TrainingModel.tsx: whichever answer comes last, the page does not settle on
\* a model that its route does not name.
ShownModelIsCurrent ==
    at # "list" /\ ~error /\ (\A r \in flight : r.kind # "models")
        => shown = at

\* Picking a dataset fills in its defaults: a field that was not typed since
\* holds the default of the dataset that is chosen (TrainingModel.tsx).
DefaultsFollowDataset ==
    shown # None => \A f \in Field :
        values.of[f] \in {"typed", IF f \in Overrides[shown][values.dataset]
                                   THEN values.dataset ELSE "base"}

=============================================================================

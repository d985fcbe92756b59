------------------------------ MODULE VerdictPage ------------------------------
(***************************************************************************)
(* The page of one verdict of NC++ (BridgeVerdict.tsx), for a verified     *)
(* user.  A link from one topic to another keeps the page mounted, and     *)
(* what it shows, until the new topic's verdict comes; the effect of the   *)
(* link that was left is cancelled.  What is stored is what the pipeline   *)
(* lets through (verdict.py, critic.py), inherited verdicts included: they *)
(* copy verdict, dataset and fit.                                          *)
(***************************************************************************)
EXTENDS Naturals, Sequences

CONSTANTS
    Shelf,      \* the topics whose verdicts are looked at
    None

VARIABLES
    link,       \* the topic of the route
    stored,     \* the verdicts on the server, None where there is none
    record,     \* what the page shows: a topic and its verdict, or None
    loading, error,
    flight      \* the request whose effect is not cancelled, if any

vars == <<link, stored, record, loading, error, flight>>

-----------------------------------------------------------------------------
(* What the pipeline stores.                                               *)

\* What happened: a dataset survived (with a probe report, or for a step that
\* has no probe), or the APIs that match were tried, best match first.
Outcome == {"pass", "fail", "unconfirmed", "none"}
Found == [dataset : {TRUE}, outcome : Outcome, apis : {<<>>}]
Missing == [dataset : {FALSE}, outcome : {"none"},
            apis : {<<>>} \cup [1..1 -> BOOLEAN] \cup [1..2 -> BOOLEAN]]

\* Mutant: what could not be confirmed does not suit the step.
BugDecide(c) ==
    IF c.dataset
    THEN IF c.outcome \in {"fail", "unconfirmed"} THEN "not_at_this_step" ELSE "buildable_now"
    ELSE IF TRUE \in {c.apis[i] : i \in DOMAIN c.apis} THEN "buildable_after_collection"
                                                       ELSE "not_at_hobby_scale"

decide_verdict_value(c) ==
    IF c.dataset
    THEN IF c.outcome = "fail" THEN "not_at_this_step" ELSE "buildable_now"
    ELSE IF TRUE \in {c.apis[i] : i \in DOMAIN c.apis} THEN "buildable_after_collection"
                                                       ELSE "not_at_hobby_scale"

Artefact == {[verdict |-> decide_verdict_value(c), dataset |-> c.dataset,
              outcome |-> c.outcome, api_path |-> c.apis] : c \in Found \cup Missing}

\* None is nothing that the page could show.
VerdictPageConstants == None \notin [topic : Shelf, verdict : Artefact]

-----------------------------------------------------------------------------
(* What the page says of it.                                               *)

VERDICT_PRESENTATION ==
    [buildable_now |-> [label |-> "Good fit", tone |-> "ok"],
     buildable_after_collection |-> [label |-> "Gather the data first", tone |-> "warn"],
     not_at_this_step |-> [label |-> "Not for this model", tone |-> "warn"],
     not_at_hobby_scale |-> [label |-> "Nothing usable", tone |-> "err"]]

\* The banner, the dataset's card, the heading over the fit, and the API's card.
Page(a) ==
    [banner |-> VERDICT_PRESENTATION[a.verdict],
     data |-> a.dataset,
     heading |-> CASE a.outcome = "pass" -> "Why it suits this model"
                   [] a.outcome = "fail" -> "Why it does not suit this model"
                   [] OTHER -> "How it fits this model",
     collect |-> a.api_path # <<>>]

-----------------------------------------------------------------------------
(* The page.                                                               *)

Ask(t) == [topic |-> t, phase |-> "asked", verdict |-> None]

\* Mutant: the effect has no cancelled flag.
BugSurvives(r) == TRUE

\* The cleanup of an effect cancels what it has asked: the answer, when it
\* comes, changes nothing.
Survives(r) == FALSE

\* The route names another topic of this model.
Follow(t) ==
    /\ t # link
    /\ link' = t
    /\ flight' = {r \in flight : Survives(r)} \cup {Ask(t)}
    /\ UNCHANGED <<stored, record, loading, error>>

\* get_verdict, a draft or a published one.
Serve(r) ==
    /\ r.phase = "asked"
    /\ LET v == stored[r.topic]
       IN  flight' = (flight \ {r}) \cup
               {[r EXCEPT !.verdict = v, !.phase = IF v = None THEN "refused" ELSE "ok"]}
    /\ UNCHANGED <<link, stored, record, loading, error>>

Lands(r) ==
    /\ r.phase = "ok"
    /\ record' = [topic |-> r.topic, verdict |-> r.verdict]
    /\ loading' = FALSE
    /\ flight' = flight \ {r}
    /\ UNCHANGED <<link, stored, error>>

\* The error stays, whatever is shown next.
Fails(r) ==
    /\ r.phase = "refused"
    /\ error' = TRUE /\ loading' = FALSE
    /\ flight' = flight \ {r}
    /\ UNCHANGED <<link, stored, record>>

\* fetch rejects, before or after the server did its part.
Lose(r) ==
    /\ r.phase # "refused"
    /\ flight' = (flight \ {r}) \cup {[r EXCEPT !.phase = "refused", !.verdict = None]}
    /\ UNCHANGED <<link, stored, record, loading, error>>

\* A run stores the verdict of a topic.
Store(t) ==
    /\ stored[t] = None
    /\ \E a \in Artefact : stored' = [stored EXCEPT ![t] = a]
    /\ UNCHANGED <<link, record, loading, error, flight>>

Init ==
    /\ link \in Shelf
    /\ stored \in [Shelf -> Artefact \cup {None}]
    /\ record = None /\ loading = TRUE /\ error = FALSE
    /\ flight = {Ask(link)}

Next ==
    \/ \E t \in Shelf : Follow(t) \/ Store(t)
    \/ \E r \in flight : Serve(r) \/ Lands(r) \/ Fails(r) \/ Lose(r)

Spec == Init /\ [][Next]_vars

-----------------------------------------------------------------------------
(* Properties.                                                             *)

TypeOK ==
    /\ link \in Shelf
    /\ stored \in [Shelf -> Artefact \cup {None}]
    /\ record = None \/ record \in [topic : Shelf, verdict : Artefact]
    /\ loading \in BOOLEAN /\ error \in BOOLEAN
    /\ \A r \in flight : r.topic \in Shelf /\ r.phase \in {"asked", "ok", "refused"}

\* BridgeVerdict.tsx: with every answer in, the page shows the verdict that its
\* route names, or says that something went wrong; it is never blank.
VerdictFollowsLink ==
    flight = {} => ~loading /\ (error \/ (record # None /\ record.topic = link))

\* BridgeVerdict.tsx, on the heading over the fit: "The heading has to follow
\* the answer".  For every verdict that the pipeline lets through, banner,
\* heading and cards agree.
PageAgreesWithItself ==
    record # None =>
        LET p == Page(record.verdict)
        IN  /\ p.heading = "Why it does not suit this model" <=> p.banner.label = "Not for this model"
            /\ p.heading = "Why it suits this model" => p.banner.tone = "ok"
            /\ p.data <=> p.banner.label \in {"Good fit", "Not for this model"}
            /\ p.banner.label = "Gather the data first" => p.collect

=============================================================================

---------------------------- MODULE BridgeAssess ----------------------------
(***************************************************************************)
(* What feasibility runs of the bridge decide for one topic and modality:  *)
(* the pool of candidate datasets they find or reuse, gates 1 to 3, the    *)
(* replanning rounds, the probes of the finalists, the verdict they        *)
(* assemble, the critic that may refuse it, and the step that inherits it. *)
(*                                                                         *)
(* BridgeQueue models how runs are queued, claimed and given up; here a    *)
(* run starts when an executor is free, and an executor's steps are the    *)
(* functions _assess calls.  What the outside world answers (search hits,  *)
(* the judge, inspections, probe reports, APIs) is chosen afresh each time *)
(* it is asked.  Difficulty, queries and the nearest domain are left out.  *)
(***************************************************************************)
EXTENDS Integers, SequencesExt

CONSTANTS
    Executor,       \* what executes runs: drains and seeding sessions
    Step,           \* the steps asked about, some of the registry's
    Datasets,       \* bound: datasets of the outside world
    Hf,             \* those on HuggingFace, free to inspect; the others are Kaggle's
    Licensed,       \* those whose license is on the allowlist
    MAX_FINALISTS,  \* 3
    MAX_REPLANS,    \* 2
    MaxJudged,      \* BRIDGE_MAX_JUDGED_CANDIDATES
    MaxRuns,        \* bound: runs ever started
    None            \* no row; no parent

\* A step's descriptor: what the pipeline branches on.
Own(modality, probe, no_probe_reason) ==
    [modality |-> modality, probe |-> probe, no_probe_reason |-> no_probe_reason,
     inherits_from |-> None]
Heir(modality, parent) ==
    [modality |-> modality, probe |-> FALSE, no_probe_reason |-> FALSE,
     inherits_from |-> parent]

\* The registry; of a probe, and of the reason for having none, that there is one.
BRIDGE_SPECS ==
    [step0 |-> Own("tabular", TRUE, FALSE),     step1 |-> Own("tabular", TRUE, FALSE),
     step2 |-> Heir("tabular", "step1"),        step3 |-> Own("tabular", TRUE, FALSE),
     step4 |-> Own("image_grid", FALSE, TRUE),  step5 |-> Own("sequence", FALSE, TRUE),
     step6 |-> Own("sequence", FALSE, TRUE),    step7 |-> Own("text_pair", FALSE, TRUE),
     step8 |-> Own("text_pair", FALSE, TRUE),   step9 |-> Own("text_pair", FALSE, TRUE)]

Modality == {BRIDGE_SPECS[s].modality : s \in Step}
Assessed == {s \in Step : BRIDGE_SPECS[s].inherits_from = None}

\* What check_bridge_registry demands at boot of the fields above.
check_bridge_registry ==
    \A s \in DOMAIN BRIDGE_SPECS :
        LET spec == BRIDGE_SPECS[s]
        IN  IF spec.inherits_from = None
            THEN spec.probe # spec.no_probe_reason
            ELSE ~spec.probe /\ BRIDGE_SPECS[spec.inherits_from].inherits_from = None

\* The datasets of the outside world, numbered from the most downloaded.
Dataset == 1..Datasets
NoDataset == 0
\* What the model needs of its constants.
AssessConstants ==
    /\ check_bridge_registry
    /\ Step \subseteq DOMAIN BRIDGE_SPECS
    /\ \A s \in Step : BRIDGE_SPECS[s].inherits_from \in Step \cup {None}
    /\ Datasets \in Nat /\ Hf \subseteq Dataset /\ Licensed \subseteq Dataset
    /\ MAX_FINALISTS \in Nat \ {0}
    /\ MAX_REPLANS \in Nat /\ MaxJudged \in Nat /\ MaxRuns \in Nat
    /\ None \notin Step

Gate == {"relevance", "license", "loadable", "scale", "probe"}

\* A probe's report: its outcome, and whether the variants could be measured.
\* What could not be measured is "unconfirmed".
Report == {[outcome |-> o, measured |-> TRUE] : o \in {"pass", "unconfirmed", "fail"}}
          \cup {[outcome |-> "unconfirmed", measured |-> FALSE]}
NoReport == [outcome |-> "none", measured |-> FALSE]

Place == {"idle", "pool", "save", "gates", "replan", "probe", "api", "assemble", "inherit"}
Ended == {"none", "succeeded", "failed", "critic"}

VARIABLES
    modality,   \* the modality in question; the topic's others share nothing with it
    pool,       \* its row of bridge_candidate_pools
    verdict,    \* bridge_verdicts of the topic, by step
    run,        \* what each executor holds in the locals of run_bridge_job and _assess
    started     \* runs started so far

vars == <<modality, pool, verdict, run, started>>

----------------------------------------------------------------------------
\* Records.

Rejected(examples) == [count |-> Len(examples), examples |-> examples]

\* The rejections of a run that begins with a pool's relevance rejections.
Rejections(judgedOut) ==
    [g \in Gate |-> IF g = "relevance" THEN Rejected(judgedOut) ELSE Rejected(<<>>)]

Reject(rejections, gate, datasets) ==
    [rejections EXCEPT ![gate] = Rejected(@.examples \o datasets)]

\* An executor without a run, after one that ended so.
Idle(how) ==
    [pc |-> "idle", model |-> None, spec |-> None, candidates |-> <<>>, fresh |-> <<>>,
     seen |-> {}, rejections |-> Rejections(<<>>), notInspected |-> 0,
     survivors |-> <<>>, round |-> 0, dataset |-> NoDataset, report |-> NoReport,
     api |-> FALSE, ended |-> how]

\* Executor e is at place p with its locals otherwise as in r.
Goto(e, r, p) == run' = [run EXCEPT ![e] = [r EXCEPT !.pc = p]]
End(e, how) == run' = [run EXCEPT ![e] = Idle(how)]
At(e, p) == run[e].pc = p
SpecOf(e) == BRIDGE_SPECS[run[e].spec]

----------------------------------------------------------------------------
\* The stages as functions.

\* The elements of s that are in A, in their order; the first n of s.
Those(s, A) ==
    LET those[n \in 0..Len(s)] ==
            IF n = 0 THEN <<>>
            ELSE IF s[n] \in A THEN Append(those[n - 1], s[n]) ELSE those[n - 1]
    IN  those[Len(s)]
UpTo(n, s) == SubSeq(s, 1, IF Len(s) < n THEN Len(s) ELSE n)

\* _judge_all: the most downloaded first, up to the cap; the rest is dropped.
\* The judge calls those in yes relevant.
ByDownloads == [d \in Dataset |-> d]
Judged(found) == UpTo(MaxJudged, Those(ByDownloads, found))
Relevant(found, yes) == Those(Judged(found), yes)
Irrelevant(found, yes) == Those(Judged(found), Dataset \ yes)

\* Free to inspect first, then by popularity; no list holds a dataset twice.
CheapestFirst(s) ==
    Those(ByDownloads, ToSet(s) \cap Hf) \o Those(ByDownloads, ToSet(s) \ Hf)

\* Those whose answer from an inspection, or outcome of a probe, is a.
With(answers, a) == {d \in DOMAIN answers : answers[d] = a}

\* How many of the licensed candidates _run_gates inspects: it stops at enough.
Passing(answer, s) == Those(s, With(answer, "passed"))
BugInspected(licensed, answer) == Len(licensed)
Inspected(licensed, answer) ==
    LET Enough(n) == Len(Passing(answer, SubSeq(licensed, 1, n))) >= MAX_FINALISTS
    IN  CHOOSE n \in 0..Len(licensed) :
            /\ Enough(n) \/ n = Len(licensed)
            /\ \A k \in 0..(n - 1) : ~Enough(k)

\* A candidate passes gates 2 and 3 or fails the one or the other.
Answer == {"passed", "loadable", "scale"}

\* The licensed candidates never reached are noted, not rejected.
BugUninspected(licensed, n) == IF n < Len(licensed) THEN Len(licensed) - n - 1 ELSE 0
Uninspected(licensed, n) == Len(licensed) - n

\* _run_gates over r.fresh: the license of all, then inspections.
RunGates(r, answer) ==
    LET licensed   == CheapestFirst(Those(r.fresh, Licensed))
        n          == Inspected(licensed, answer)
        looked     == SubSeq(licensed, 1, n)
        Failing(g) == Those(looked, With(answer, g))
        unlicensed == Those(r.fresh, Dataset \ Licensed)
    IN  [r EXCEPT
            !.rejections = Reject(Reject(Reject(@, "license", unlicensed),
                                  "loadable", Failing("loadable")),
                                  "scale", Failing("scale")),
            !.notInspected = @ + Uninspected(licensed, n),
            !.survivors = @ \o Passing(answer, looked),
            !.fresh = <<>>]

\* The outcome cited: a pass, else an unconfirmed one, else a failure.
BugPreference == <<"pass", "fail", "unconfirmed">>
Preference == <<"pass", "unconfirmed", "fail">>

\* The outcomes of the finalists that a probe reports on.
Outcomes(report) == [d \in DOMAIN report |-> report[d].outcome]

\* How many finalists are probed: up to the first that passes.
Probed(finalists, report) ==
    LET Pass(n) == report[finalists[n]].outcome = "pass"
    IN  CHOOSE n \in 1..Len(finalists) :
            /\ Pass(n) \/ n = Len(finalists)
            /\ \A k \in 1..(n - 1) : ~Pass(k)

\* The finalist cited: the first with the best outcome (by_outcome).
Chosen(probed, report) ==
    LET By(k) == Those(probed, With(Outcomes(report), Preference[k]))
    IN  Head(By(1) \o By(2) \o By(3))

\* The failures among the probed; the one that is cited all the same is not rejected.
BugLosers(probed, report, chosen) == Those(probed, With(Outcomes(report), "fail"))
Losers(probed, report, chosen) == Those(probed, With(Outcomes(report), "fail") \ {chosen})

\* _probe_finalists with a probe.
ProbeAll(r, finalists, report) ==
    LET probed == SubSeq(finalists, 1, Probed(finalists, report))
        chosen == Chosen(probed, report)
    IN  [r EXCEPT
            !.dataset = chosen,
            !.report = report[chosen],
            !.survivors = <<>>,
            !.rejections = Reject(@, "probe", Losers(probed, report, chosen))]

----------------------------------------------------------------------------
\* The verdict and the critic.

decide_verdict_value(r) ==
    IF r.dataset # NoDataset
    THEN IF r.report.outcome = "fail" THEN "not_at_this_step" ELSE "buildable_now"
    ELSE IF r.api THEN "buildable_after_collection" ELSE "not_at_hobby_scale"

\* The fit section: measured, or with a reason why not, if there is one.
FitSection(r) ==
    IF r.report.measured
    THEN [probed |-> TRUE, outcome |-> r.report.outcome, unconfirmed_reason |-> FALSE]
    ELSE [probed |-> FALSE, outcome |-> "none",
          unconfirmed_reason |-> \/ r.report # NoReport
                                 \/ BRIDGE_SPECS[r.spec].no_probe_reason]

Evidence(r) ==
    [candidates_considered |-> Len(r.candidates) + r.rejections["relevance"].count,
     rejections |-> r.rejections,
     replan_rounds |-> r.round,
     not_inspected |-> r.notInspected]

\* assemble: the artefact built from the run's records.
Artefact(r) ==
    [verdict |-> decide_verdict_value(r), dataset |-> r.dataset, fit |-> FitSection(r),
     evidence |-> Evidence(r), inherited_from |-> None]

\* critic.check
Accepts(artefact, r) ==
    /\ artefact.verdict = decide_verdict_value(r)
    /\ artefact.dataset # NoDataset => artefact.dataset \in ToSet(r.candidates)
    /\ IF artefact.fit.probed THEN artefact.fit.outcome = r.report.outcome
                              ELSE artefact.fit.unconfirmed_reason
    /\ \A g \in Gate : artefact.evidence.rejections[g].count
                       = Len(artefact.evidence.rejections[g].examples)

----------------------------------------------------------------------------
Init ==
    /\ modality \in Modality
    /\ pool = None
    /\ verdict = [s \in Step |-> None]
    /\ run = [e \in Executor |-> Idle("none")]
    /\ started = 0

\* A run begins.  A verdict on file is served; an inheriting step whose parent
\* has none assesses the parent first.
Start(e, s) ==
    LET parent == BRIDGE_SPECS[s].inherits_from
        At0(spec, p) == [Idle("none") EXCEPT !.pc = p, !.model = s, !.spec = spec]
    IN  /\ At(e, "idle") /\ started < MaxRuns
        /\ BRIDGE_SPECS[s].modality = modality
        /\ started' = started + 1
        /\ run' = [run EXCEPT ![e] =
                IF verdict[s] # None THEN Idle("succeeded")
                ELSE IF parent = None THEN At0(s, "pool")
                ELSE IF verdict[parent] = None THEN At0(parent, "pool")
                ELSE At0(parent, "inherit")]
        /\ UNCHANGED <<modality, pool, verdict>>

\* A run that holds these candidates, and what the judge refused, meets the gates.
Pooled(r, candidates, judgedOut) ==
    [r EXCEPT !.candidates = candidates, !.fresh = candidates, !.seen = ToSet(candidates),
              !.rejections = Rejections(judgedOut)]

\* _get_or_build_pool: the pool of the modality, whichever step built it.
ReusePool(e) ==
    /\ At(e, "pool") /\ pool # None
    /\ Goto(e, Pooled(run[e], pool.candidates, pool.rejected_relevance), "gates")
    /\ UNCHANGED <<modality, pool, verdict, started>>

\* No pool yet: the scouts search, the judge judges.
Scout(e) ==
    /\ At(e, "pool") /\ pool = None
    /\ \E found \in SUBSET Dataset : \E yes \in SUBSET ToSet(Judged(found)) :
          Goto(e, Pooled(run[e], Relevant(found, yes), Irrelevant(found, yes)), "save")
    /\ UNCHANGED <<modality, pool, verdict, started>>

PoolRow(r) == [candidates |-> r.candidates,
               rejected_relevance |-> r.rejections["relevance"].examples]

\* The pool is inserted, unless another run has inserted it meanwhile.
SavePool(e) ==
    /\ At(e, "save")
    /\ IF pool = None
       THEN pool' = PoolRow(run[e]) /\ Goto(e, run[e], "gates")
       ELSE End(e, "failed") /\ UNCHANGED pool
    /\ UNCHANGED <<modality, verdict, started>>

\* _run_gates, and what _assess does next with the survivors.
Gates(e) ==
    /\ At(e, "gates")
    /\ \E answer \in [ToSet(run[e].fresh) \cap Licensed -> Answer] :
          LET r == RunGates(run[e], answer)
          IN  IF r.survivors = <<>> /\ r.round < MAX_REPLANS THEN Goto(e, r, "replan")
              ELSE Goto(e, [r EXCEPT !.seen = {}], IF r.survivors = <<>> THEN "api" ELSE "probe")
    /\ UNCHANGED <<modality, pool, verdict, started>>

\* A replanning round: new searches; what is new is judged, added to the pool
\* and sent to the gates.
BugNextRound(r) == r.round
NextRound(r) == r.round + 1
BugGrown(r, relevant) == r.candidates
Grown(r, relevant) == r.candidates \o relevant

Extended(r, found, yes) == [r EXCEPT
    !.round = NextRound(r),
    !.seen = @ \cup found,
    !.candidates = Grown(r, Relevant(found, yes)),
    !.fresh = Relevant(found, yes),
    !.rejections = Reject(@, "relevance", Irrelevant(found, yes))]

Replan(e) ==
    /\ At(e, "replan")
    /\ \E found \in SUBSET (Dataset \ run[e].seen) : \E yes \in SUBSET ToSet(Judged(found)) :
          LET r == Extended(run[e], found, yes)
          IN  Goto(e, r, "gates") /\ pool' = IF pool = None THEN pool ELSE PoolRow(r)
    /\ UNCHANGED <<modality, verdict, started>>

\* _probe_finalists
Probe(e) ==
    LET finalists == UpTo(MAX_FINALISTS, CheapestFirst(run[e].survivors))
    IN  /\ At(e, "probe")
        /\ IF SpecOf(e).probe
           THEN \E report \in [ToSet(finalists) -> Report] :
                   Goto(e, ProbeAll(run[e], finalists, report), "assemble")
           ELSE Goto(e, [run[e] EXCEPT !.dataset = Head(finalists), !.survivors = <<>>], "assemble")
        /\ UNCHANGED <<modality, pool, verdict, started>>

\* Nothing survived: the API route.
AssessApi(e) ==
    /\ At(e, "api")
    /\ \E reachable \in BOOLEAN : Goto(e, [run[e] EXCEPT !.api = reachable], "assemble")
    /\ UNCHANGED <<modality, pool, verdict, started>>

\* assemble, critic.check and _store_verdict; an inheriting run goes on.
Assemble(e) ==
    LET r == run[e]
    IN  /\ At(e, "assemble")
        /\ IF Accepts(Artefact(r), r)
           THEN /\ verdict' = [verdict EXCEPT ![r.spec] = Artefact(r)]
                /\ IF r.model = r.spec THEN End(e, "succeeded") ELSE Goto(e, r, "inherit")
           ELSE End(e, "critic") /\ UNCHANGED verdict
        /\ UNCHANGED <<modality, pool, started>>

\* build_inherited: the parent's artefact under the step's own name.
Inherit(e) ==
    LET r == run[e]
    IN  /\ At(e, "inherit")
        /\ verdict' = [verdict EXCEPT ![r.model] =
                          [verdict[r.spec] EXCEPT !.inherited_from = r.spec]]
        /\ End(e, "succeeded")
        /\ UNCHANGED <<modality, pool, started>>

\* The spend ceiling, the deadline or an exception stops a run anywhere.
Stop(e) ==
    /\ ~At(e, "idle")
    /\ End(e, "failed")
    /\ UNCHANGED <<modality, pool, verdict, started>>

Advance(e) ==
    \/ ReusePool(e) \/ Scout(e) \/ SavePool(e) \/ Gates(e) \/ Replan(e)
    \/ Probe(e) \/ AssessApi(e) \/ Assemble(e) \/ Inherit(e)

Next == \E e \in Executor :
    \/ \E s \in Step : Start(e, s)
    \/ Advance(e)
    \/ Stop(e)

Spec == Init /\ [][Next]_vars

----------------------------------------------------------------------------
\* Properties.

Artefacts ==
    [verdict: {"buildable_now", "buildable_after_collection", "not_at_this_step",
               "not_at_hobby_scale"},
     dataset: Dataset \cup {NoDataset},
     fit: [probed: BOOLEAN, outcome: {"none", "pass", "unconfirmed", "fail"},
           unconfirmed_reason: BOOLEAN],
     evidence: [candidates_considered: Nat, rejections: [Gate -> [count: Nat, examples: Seq(Dataset)]],
                replan_rounds: 0..MAX_REPLANS, not_inspected: Nat],
     inherited_from: Assessed \cup {None}]

\* The values the database and the runs' locals take: _run_gates hands on at
\* most MAX_FINALISTS survivors, and there are at most MAX_REPLANS rounds.
TypeOK ==
    /\ modality \in Modality
    /\ pool # None => pool \in [candidates: Seq(Dataset), rejected_relevance: Seq(Dataset)]
    /\ \A s \in Step : verdict[s] # None => verdict[s] \in Artefacts
    /\ \A e \in Executor :
          /\ run[e].pc \in Place /\ run[e].ended \in Ended
          /\ run[e].model \in Step \cup {None} /\ run[e].spec \in Assessed \cup {None}
          /\ run[e].candidates \in Seq(Dataset) /\ run[e].fresh \in Seq(Dataset)
          /\ run[e].survivors \in Seq(Dataset) /\ Len(run[e].survivors) <= MAX_FINALISTS
          /\ run[e].seen \subseteq Dataset /\ run[e].notInspected \in Nat
          /\ run[e].round \in 0..MAX_REPLANS
          /\ run[e].rejections \in [Gate -> [count: Nat, examples: Seq(Dataset)]]
          /\ run[e].dataset \in Dataset \cup {NoDataset}
          /\ run[e].report \in Report \cup {NoReport} /\ run[e].api \in BOOLEAN
    /\ started \in 0..MaxRuns

\* What an artefact's evidence leaves over: considered, not refused by the judge
\* or a gate before the probe, not left uninspected.
Finalists(a) ==
    LET count(g) == a.evidence.rejections[g].count
    IN  a.evidence.candidates_considered - a.evidence.not_inspected
        - count("relevance") - count("license") - count("loadable") - count("scale")

\* The evidence a verdict prints adds up, over all replanning rounds: what it
\* leaves over are the finalists (_run_gates, MAX_FINALISTS), there are some
\* exactly if a dataset is cited, and not all of them were rejected by the probe.
EvidenceAddsUp ==
    \A s \in Step : verdict[s] # None =>
        LET a == verdict[s]
        IN  /\ Finalists(a) \in 0..MAX_FINALISTS
            /\ (Finalists(a) = 0) <=> (a.dataset = NoDataset)
            /\ a.evidence.rejections["probe"].count <= Finalists(a)
            /\ a.dataset # NoDataset => a.evidence.rejections["probe"].count < Finalists(a)

\* "Not at this step" is said only when every finalist was probed and failed
\* (_probe_finalists cites a failure last): the others are listed as rejected.
NotAtThisStepIsUnanimous ==
    \A s \in Step : verdict[s] # None /\ verdict[s].verdict = "not_at_this_step" =>
        verdict[s].evidence.rejections["probe"].count = Finalists(verdict[s]) - 1

\* A dataset that a verdict cites is not among those the same verdict says a
\* gate rejected (_run_gates and _probe_finalists share the rejection lists).
CitedSurvivedGates ==
    \A s \in Step : verdict[s] # None =>
        \A g \in Gate \ {"relevance"} :
            verdict[s].dataset \notin ToSet(verdict[s].evidence.rejections[g].examples)

\* The critic refuses what assemble builds in one case only: a step with a
\* probe for which no dataset was left to probe.
CriticRefusesOnlyUnprobed ==
    \A e \in Executor : At(e, "assemble") /\ ~Accepts(Artefact(run[e]), run[e]) =>
        SpecOf(e).probe /\ run[e].dataset = NoDataset

\* Whatever the searches, gates and probes answer, the critic accepts what the
\* pipeline assembles: a refusal "means the PIPELINE is broken" (critic.py).
\* It does not hold for a probed step that finds no dataset, as the README tells.
CriticAccepts == \A e \in Executor : run[e].ended # "critic"

\* How far a run is from its end.
Weight == [pool |-> 6, save |-> 5, gates |-> 4, replan |-> 3, probe |-> 2, api |-> 2,
           assemble |-> 1, inherit |-> 0]
Distance(r) == 7 * (MAX_REPLANS - r.round) + Weight[r.pc]

\* A run ends: each stage that does not end it brings it nearer its end, however
\* often the searches come back with nothing new (the while loop of _assess).
RunsAreBounded ==
    [][\A e \in Executor :
          ~At(e, "idle") /\ run'[e].pc # "idle" /\ run'[e] # run[e] =>
              Distance(run'[e]) \in 0..(Distance(run[e]) - 1)]_vars

\* A verdict stands on its evidence: the counts add up, a refusal is unanimous,
\* what is cited passed the gates, and the critic refuses one kind of artefact.
VerdictsAreBacked ==
    /\ EvidenceAddsUp /\ NotAtThisStepIsUnanimous
    /\ CitedSurvivedGates /\ CriticRefusesOnlyUnprobed

=============================================================================

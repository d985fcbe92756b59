----------------------------- MODULE BridgeParts -----------------------------
(***************************************************************************)
(* The parts of the bridge that share no state with what runs cost, whose  *)
(* module this one extends, side by side with it: one is chosen at the     *)
(* start, and the others do nothing (0; an assessment that is never        *)
(* started; no run is asked for).                                          *)
(***************************************************************************)
EXTENDS BridgeSpend, TLC

CONSTANTS
    Assessor, Step, Datasets, Hf, Licensed, MAX_FINALISTS,
    MAX_REPLANS, MaxJudged, MaxAssessments,                 \* BridgeAssess
    Tab, Topic, Id, RECENT_SEARCH_LIMIT, MaxTime            \* RecentSearches

VARIABLES
    part,
    modality, pool, verdict, run, started,
    clock, rows, tab, asked, alone

A == INSTANCE BridgeAssess WITH Executor <- Assessor, MaxRuns <- MaxAssessments
R == INSTANCE RecentSearches

\* The constants are as each module needs them.
ASSUME PartsAssumption ==
    BridgeSpendConstants /\ A!AssessConstants /\ R!RecentSearchesConstants

assessments == <<modality, pool, verdict, run, started>>
recents == <<clock, rows, tab, asked, alone>>
partsVars == <<part, vars, assessments, recents>>

NoAssess == A!Init /\ modality = CHOOSE m \in A!Modality : TRUE
NoRecents == clock = 0 /\ rows = 0 /\ tab = 0 /\ asked = 0 /\ alone = 0

PartsInit ==
    \/ part = "spend" /\ Init /\ NoAssess /\ NoRecents
    \/ part = "assess" /\ A!Init /\ Init /\ NoRecents
    \/ part = "recents" /\ R!Init /\ Init /\ NoAssess

PartsNext ==
    /\ UNCHANGED part
    /\ \/ part = "spend" /\ Next /\ UNCHANGED <<assessments, recents>>
       \/ part = "assess" /\ A!Next /\ UNCHANGED <<vars, recents>>
       \/ part = "recents" /\ R!Next /\ UNCHANGED <<vars, assessments>>

PartsSpec == PartsInit /\ [][PartsNext]_partsVars

Symmetry == Permutations(Executor \cup Tab)

----------------------------------------------------------------------------
(* Properties: those of each module, on its part; those of BridgeSpend, whose *)
(* names these are, hold as they stand.                                       *)

\* Every variable of the part that is looked at has its type.
TypesOK ==
    /\ TypeOK
    /\ part = "assess" => A!TypeOK
    /\ part = "recents" => R!TypeOK

\* A verdict stands on its evidence (pipeline.py, verdict.py, critic.py).
VerdictsAreBacked == A!VerdictsAreBacked

\* The recent searches are the newest, and almost so when searches meet
\* (recents.py).
RecentsAreRight == part = "recents" => R!RecentsAreRight

\* A run ends (the while loop of _assess).
RunsAreBounded == A!RunsAreBounded
=============================================================================

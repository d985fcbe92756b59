------------------------------- MODULE Screens -------------------------------
(***************************************************************************)
(* The screens of NC++ side by side, in one tab.  It shows one of them,    *)
(* chosen at the start; what the others would keep does not exist (0), and *)
(* the learn flow, whose module this one extends, is Away.  They share no  *)
(* state but the session, which ApiClient.tla has.  What the user does on  *)
(* a screen, navigation between its pages included, is in its module;      *)
(* modules share the variables of the same name.  "anchors" is no screen   *)
(* but the file that an author types for a code panel.                     *)
(***************************************************************************)
EXTENDS Walkthrough

CONSTANTS
    MaxMounts, OwnLink,                                  \* AccountPages
    Job, Model, Dataset, Field, MaxMoves, JobPolls,      \* TrainingPages
    Topic, MaxRuns, MaxEvents, RunPolls,                 \* BridgePages
    Example, Epochs,                                     \* NeuronDemo
    MaxPieces,                                           \* Anchors
    Shelf,                                               \* VerdictPage
    None

VARIABLES
    screen,
    page, mount, form, check, flight, user, resetLink, verifyLink,
    verified, dead, did, late, effect, lost, route, srv, rows, loading,
    error, clearing, formOf, values, busy, raced, ready, recorded,
    unrecorded, runs, recents, checked, justFound, watched, pending, quick,
    stale, others, dataset, lines, next, timers, file, typed,
    link, stored, record

A == INSTANCE AccountPages
T == INSTANCE TrainingPages WITH at <- route, shown <- formOf, MaxPolls <- JobPolls,
        Overrides <- [m \in Model |-> [d \in Dataset |-> IF m = "step0" THEN {} ELSE {"epochs"}]]
B == INSTANCE BridgePages WITH MaxPolls <- RunPolls
N == INSTANCE NeuronDemo WITH Dataset <- Example, shown <- lines
X == INSTANCE Anchors
V == INSTANCE VerdictPage

\* The constants are as each module needs them, and the content that ships is
\* as its own tests want it.
ASSUME ScreensAssumption ==
    /\ A!AccountPagesConstants /\ T!TrainingPagesConstants /\ B!BridgePagesConstants
    /\ FrameConstants /\ N!EpochsConstants /\ V!VerdictPageConstants /\ ContentChecks

\* The variables that only one screen has, and those that two or three share.
accountOwn == <<page, form, check, user, resetLink, verifyLink, verified, dead, did, late, effect>>
trainingOwn == <<route, rows, clearing, formOf, values, raced>>
bridgeOwn == <<ready, recorded, unrecorded, runs, recents, checked, justFound, watched, pending,
               quick, stale, others>>
demoOwn == <<dataset, lines, next, timers>>
anchorsOwn == <<file, typed>>
verdictOwn == <<link, stored, record>>
jobs == <<srv, loading, error, busy>>
shared == <<flight, lost, mount, jobs>>

screensVars == <<screen, accountOwn, trainingOwn, bridgeOwn, demoOwn, anchorsOwn, verdictOwn, shared, vars>>

NoAccount ==
    /\ page = 0 /\ form = 0 /\ check = 0 /\ user = 0 /\ resetLink = 0 /\ verifyLink = 0
    /\ verified = 0 /\ dead = 0 /\ did = 0 /\ late = 0 /\ effect = 0
NoTraining == route = 0 /\ rows = 0 /\ clearing = 0 /\ formOf = 0 /\ values = 0 /\ raced = 0
NoBridge ==
    /\ ready = 0 /\ recorded = 0 /\ unrecorded = 0 /\ runs = 0 /\ recents = 0 /\ checked = 0
    /\ justFound = 0 /\ watched = 0 /\ pending = 0 /\ quick = 0 /\ stale = 0 /\ others = 0
NoDemo == dataset = 0 /\ lines = 0 /\ next = 0 /\ timers = 0
NoAnchors == file = 0 /\ typed = 0
NoVerdict == link = 0 /\ stored = 0 /\ record = 0
NoJobs == srv = 0 /\ loading = 0 /\ error = 0 /\ busy = 0
NoShared == flight = 0 /\ lost = 0 /\ mount = 0 /\ NoJobs
NoLearn == Init /\ at = Away /\ mode = "play"

ScreensInit ==
    \/ /\ screen = "account" /\ A!Init
       /\ NoLearn /\ NoTraining /\ NoBridge /\ NoDemo /\ NoAnchors /\ NoVerdict /\ NoJobs
    \/ /\ screen = "training" /\ T!Init
       /\ NoLearn /\ NoAccount /\ NoBridge /\ NoDemo /\ NoAnchors /\ NoVerdict
    \/ /\ screen = "bridge" /\ B!Init
       /\ NoLearn /\ NoAccount /\ NoTraining /\ NoDemo /\ NoAnchors /\ NoVerdict /\ mount = 0
    \/ /\ screen = "learn" /\ Init
       /\ NoAccount /\ NoTraining /\ NoBridge /\ NoDemo /\ NoAnchors /\ NoVerdict /\ NoShared
    \/ /\ screen = "demo" /\ N!Init
       /\ NoLearn /\ NoAccount /\ NoTraining /\ NoBridge /\ NoAnchors /\ NoVerdict /\ NoShared
    \/ /\ screen = "anchors" /\ X!Init
       /\ NoLearn /\ NoAccount /\ NoTraining /\ NoBridge /\ NoDemo /\ NoVerdict /\ NoShared
    \/ /\ screen = "verdict" /\ V!Init
       /\ NoLearn /\ NoAccount /\ NoTraining /\ NoBridge /\ NoDemo /\ NoAnchors
       /\ mount = 0 /\ lost = 0 /\ srv = 0 /\ busy = 0

ScreensNext ==
    /\ UNCHANGED screen
    /\ \/ /\ screen = "account" /\ A!Next
          /\ UNCHANGED <<vars, trainingOwn, bridgeOwn, demoOwn, anchorsOwn, verdictOwn, jobs>>
       \/ /\ screen = "training" /\ T!Next
          /\ UNCHANGED <<vars, accountOwn, bridgeOwn, demoOwn, anchorsOwn, verdictOwn>>
       \/ /\ screen = "bridge" /\ B!Next
          /\ UNCHANGED <<vars, accountOwn, trainingOwn, demoOwn, anchorsOwn, verdictOwn, mount>>
       \/ /\ screen = "learn" /\ Next
          /\ UNCHANGED <<accountOwn, trainingOwn, bridgeOwn, demoOwn, anchorsOwn, verdictOwn, shared>>
       \/ /\ screen = "demo" /\ N!Next
          /\ UNCHANGED <<vars, accountOwn, trainingOwn, bridgeOwn, anchorsOwn, verdictOwn, shared>>
       \/ /\ screen = "anchors" /\ X!Next
          /\ UNCHANGED <<vars, accountOwn, trainingOwn, bridgeOwn, demoOwn, verdictOwn, shared>>
       \/ /\ screen = "verdict" /\ V!Next
          /\ UNCHANGED <<vars, accountOwn, trainingOwn, bridgeOwn, demoOwn, anchorsOwn, mount, lost, srv, busy>>

ScreensSpec == ScreensInit /\ [][ScreensNext]_screensVars

-----------------------------------------------------------------------------
(* Properties: those of each module, on its screen; Walkthrough's hold as    *)
(* they stand.                                                               *)

\* Every variable of the screen that is shown has its type.
TypesOK ==
    /\ TypeOK
    /\ screen = "account" => A!TypeOK
    /\ screen = "training" => T!TypeOK
    /\ screen = "bridge" => B!TypeOK
    /\ screen = "verdict" => V!TypeOK

\* A form that has stopped working tells the truth about its last submission,
\* and nobody stays signed in after a new password or a deletion.
FormsTellTheTruth == screen = "account" => A!OutcomeIsTrue /\ A!NoZombie

\* The job list never comes to rest on rows that are wrong (Training.tsx).
RestingRowsAreTrue == screen = "training" => T!RestingRowsAreTrue

\* A page does not settle on what its route does not name: a model's page on
\* another model, nor its form on another dataset's defaults (TrainingModel.tsx),
\* and a verdict's page on another topic; nor does that page contradict itself
\* (BridgeVerdict.tsx).
PagesFollowRoutes ==
    /\ screen = "training" => T!ShownModelIsCurrent /\ T!DefaultsFollowDataset
    /\ screen = "verdict" => V!VerdictFollowsLink /\ V!PageAgreesWithItself

\* A finished search never just vanishes, and what the finder announces can be
\* opened and is in both of its lists (Bridge.tsx).
FinishIsAnnounced ==
    screen = "bridge" => B!FinishIsAnnounced /\ B!AnnouncedIsReady /\ B!AnnouncedIsListed

\* The landing page's log never freezes while it says running (NeuronDemo.tsx).
LogNeverFreezes == screen = "demo" => N!LogNeverFreezes

\* A code panel's slice ends where its block ends (anchors.ts).
SliceIsItsBlock == screen = "anchors" => X!SliceIsItsBlock

=============================================================================

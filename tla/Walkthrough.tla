----------------------------- MODULE Walkthrough -----------------------------
(***************************************************************************)
(* The learn flow: the route (pages/Learn.tsx), the walkthrough player with *)
(* its clock (components/walkthrough/Walkthrough.tsx, useTimeline.ts,       *)
(* Transport.tsx, the stages) and the closing page                          *)
(* (components/abstraction/AbstractionPage.tsx), over the shipped content.  *)
(*                                                                          *)
(* Time is in seconds.  A frame may come late (a tab in the background), so *)
(* one frame is FrameGap seconds long, times the rate the reader chose; the *)
(* rate can be changed before any frame and decides nothing else, so each   *)
(* frame takes any of them.  Handlers of clicks and keys are rendered       *)
(* before anything else happens.  What a frame callback sets is rendered    *)
(* later (Render), and so is the address a rail click navigates to (Arrive).*)
(***************************************************************************)
EXTENDS LearnContent, FiniteSetsExt

CONSTANTS FrameGap,   \* seconds a late frame skips at rate 1; a multiple of 4
          Unwritten   \* a slug no chapter has

FrameConstants == FrameGap \in Nat \ {0} /\ FrameGap % 4 = 0

VARIABLES at,        \* the rendered address: a model and a slug, or Away
          goingTo,   \* the chapter a rail click navigated to, not rendered yet, or ""
          clock,     \* tRef, and the t rendered from it
          playing,   \* the state last set
          shown,     \* playing as the mounted handlers and the effect see it
          loops,     \* the animation-frame loops alive
          mode,      \* "play" or "text"
          concept,   \* the closing page's conceptSlug
          untouched  \* whether nothing moved the clock since a link was followed

vars == <<at, goingTo, clock, playing, shown, loops, mode, concept, untouched>>
player == <<clock, playing, shown, loops, mode, untouched>>

Away == [model |-> "none", slug |-> ""]
Places == {Away} \cup
          UNION {[model : {m}, slug : ToSet(Chapters[m]) \cup {"", Epilogue, Unwritten}] : m \in Models}

(* The route: no content leads to the training page, and the closing page   *)
(* is looked for before the walkthrough.                                    *)
Page(p) == IF p.model \notin Models THEN "away"
           ELSE IF p.slug = Epilogue THEN "closing" ELSE "walkthrough"

-----------------------------------------------------------------------------
(* The timeline: everything on screen follows from the clock.               *)

SceneStarts ==
  [m \in Models |->
     [i \in Indices(Scenes[m]) |->
        FoldLeft(LAMBDA sum, s : sum + s.seconds, 0, SubSeq(Scenes[m], 1, i - 1))]]

TotalDuration ==
  [m \in Models |-> FoldLeft(LAMBDA sum, s : sum + s.seconds, 0, Scenes[m])]

(* The scene at t: the last whose start is not after it.  Intervals are     *)
(* half open, and past the end is the last scene.                           *)
SceneAt(m, t) == Max({1} \cup {i \in Indices(Scenes[m]) : SceneStarts[m][i] <= t})

ChapterAt(m, t) == Scenes[m][SceneAt(m, t)].chapter

ChapterStart(m, c) ==
  SceneStarts[m][Min({i \in Indices(Scenes[m]) : Scenes[m][i].chapter = c})]

Known(p) == Page(p) = "walkthrough" /\ p.slug \in ToSet(Chapters[p.model])

-----------------------------------------------------------------------------
(* What is drawn.                                                           *)

(* The picture a stage names: the component, and which one of a family.     *)
(* What is left of the stage only says how much of the picture is there.    *)
Figure(scene) ==
  <<scene.kind, IF scene.kind \in {"neuron", "sigmoid", "xorTransform"} THEN "" ELSE scene.of>>

(* Mutant: the stage of a scene that draws nothing.                         *)
BugHeld(m, t) == LET i == SceneAt(m, t) IN IF Draws(Scenes[m][i]) THEN {Figure(Scenes[m][i])} ELSE {}

(* The player's stage: a scene that draws nothing holds the last picture.   *)
Held(m, t) ==
  LET drawn == {i \in 1..SceneAt(m, t) : Draws(Scenes[m][i])}
  IN  IF drawn = {} THEN {} ELSE {Figure(Scenes[m][Max(drawn)])}

(* The text view draws the stage of a beat whose next beat is another kind. *)
TextFigures(m) ==
  {Figure(Scenes[m][i]) : i \in {j \in Indices(Scenes[m]) :
     /\ Draws(Scenes[m][j])
     /\ j = Len(Scenes[m]) \/ Scenes[m][j + 1].kind # Scenes[m][j].kind}}

(* The closing page's concept: the chosen one, else the model's first.      *)
ShownConcept(m) ==
  IF \E i \in Indices(Concepts[m]) : Concepts[m][i].slug = concept
  THEN concept ELSE Concepts[m][1].slug

-----------------------------------------------------------------------------
(* Init: any address, freshly opened.                                       *)

(* Mutant: the deep-link effect ignores a change of content.                *)
BugOpened(p, old) ==
  IF Known(p) /\ p.slug # old.slug THEN ChapterStart(p.model, p.slug)
  ELSE IF Page(old) = "walkthrough" THEN clock ELSE 0

(* The clock after the deep-link effect of an address rendered after old:   *)
(* a known chapter is sought when the slug or the content changed.          *)
Opened(p, old) ==
  IF Known(p) /\ p # old THEN ChapterStart(p.model, p.slug)
  ELSE IF Page(old) = "walkthrough" THEN clock ELSE 0

Init ==
  /\ at \in Places
  /\ goingTo = ""
  /\ clock = IF Known(at) THEN ChapterStart(at.model, at.slug) ELSE 0
  /\ untouched = Known(at)
  /\ playing = FALSE /\ shown = FALSE /\ loops = 0
  /\ mode \in {"play", "text"}
  /\ concept = IF at = Away THEN "" ELSE Concepts[at.model][1].slug

-----------------------------------------------------------------------------
(* The clock.                                                               *)

Watching == Page(at) = "walkthrough"
Total == TotalDuration[at.model]
RATES == {3, 4, 6, 8}   \* in quarters: 0.75, 1, 1.5 and 2

(* Mutant: the cleanup does not cancel the frame.                           *)
BugAfterEffect(p) == IF p = shown THEN loops ELSE loops + (IF p THEN 1 ELSE 0)

(* The loops after the effect of [playing, total] ran with playing = p: the *)
(* old loop is cancelled, and a new one starts if the clock plays.          *)
AfterEffect(p) == IF p = shown THEN loops ELSE IF p THEN 1 ELSE 0

Commit(p) == playing' = p /\ shown' = p /\ loops' = AfterEffect(p)

(* One frame.  At the end the clock stops and asks for no further frame.    *)
Tick ==
  /\ Watching /\ loops > 0
  /\ \E rate \in RATES :
       LET next == clock + (FrameGap * rate) \div 4
       IN  IF next >= Total
           THEN /\ clock' = Total /\ playing' = FALSE /\ loops' = loops - 1
           ELSE /\ clock' = next /\ UNCHANGED <<playing, loops>>
  /\ untouched' = FALSE
  /\ UNCHANGED <<at, goingTo, shown, mode, concept>>

Render ==
  /\ Watching /\ shown # playing
  /\ Commit(playing)
  /\ UNCHANGED <<at, goingTo, clock, mode, concept, untouched>>

(* Mutant: no clamp.                                                        *)
BugSeek(s) ==
  /\ clock' = s
  /\ untouched' = FALSE
  /\ Commit(playing)
  /\ UNCHANGED <<at, goingTo, mode, concept>>

Seek(s) ==
  /\ clock' = Max({0, Min({s, Total})})
  /\ untouched' = FALSE
  /\ Commit(playing)
  /\ UNCHANGED <<at, goingTo, mode, concept>>

(* The range input, to its ends and to the middle.                          *)
Scrub ==
  /\ Watching /\ mode = "play"
  /\ \E s \in {0, Total \div 2, Total} : Seek(s)

(* The arrow keys inside the player.                                        *)
Arrow == /\ Watching /\ mode = "play"
         /\ Seek(clock - 5) \/ Seek(clock + 5)

(* The play button, space and k.  Playing at the end starts again.          *)
Toggle ==
  /\ Watching /\ mode = "play"
  /\ IF shown THEN clock' = clock /\ Commit(FALSE)
     ELSE /\ clock' = IF clock >= Total THEN 0 ELSE clock
          /\ Commit(TRUE)
  /\ untouched' = FALSE
  /\ UNCHANGED <<at, goingTo, mode, concept>>

-----------------------------------------------------------------------------
(* The page around it.                                                      *)

(* A rail entry: watch, seek, navigate, and play unless playing was shown.  *)
RailClick ==
  /\ Watching
  /\ \E c \in ToSet(Chapters[at.model]) :
       /\ clock' = ChapterStart(at.model, c)
       /\ goingTo' = c
  /\ mode' = "play"
  /\ untouched' = TRUE
  /\ Commit(IF shown THEN playing ELSE TRUE)
  /\ UNCHANGED <<at, concept>>

(* The address of the rail click is rendered, and the deep-link effect runs *)
(* if the slug is a new one.                                                *)
Arrive ==
  /\ Watching /\ goingTo # ""
  /\ at' = [at EXCEPT !.slug = goingTo]
  /\ goingTo' = ""
  /\ clock' = Opened(at', at)
  /\ untouched' = (untouched \/ at' # at)
  /\ UNCHANGED <<playing, shown, loops, mode, concept>>

SetMode ==
  /\ Watching
  /\ mode' \in {"play", "text"} \ {mode}
  /\ UNCHANGED <<at, goingTo, clock, playing, shown, loops, concept, untouched>>

(* A link, or the browser's history.  The same page of another address is   *)
(* the same component, which keeps its state; any other page is mounted     *)
(* afresh, and the one before it is gone with its frame.  Followed before a *)
(* rail click's address is rendered, a link leads to the same states.       *)
Visit ==
  /\ goingTo = "" /\ goingTo' = ""
  /\ at' \in Places \ {at}
  /\ clock' = IF Page(at') = "walkthrough" THEN Opened(at', at) ELSE 0
  /\ untouched' = Known(at')
  /\ IF Page(at') = "walkthrough" /\ Watching
     THEN UNCHANGED <<playing, shown, loops, mode>>
     ELSE /\ playing' = FALSE /\ shown' = FALSE /\ loops' = 0
          /\ IF Page(at') = "walkthrough" THEN mode' \in {"play", "text"} ELSE mode' = "play"
  /\ concept' = IF Page(at') = "closing" /\ Page(at) = "closing" THEN concept
                ELSE IF at' = Away THEN "" ELSE Concepts[at'.model][1].slug

PickConcept ==
  /\ Page(at) = "closing"
  /\ \E i \in Indices(Concepts[at.model]) : concept' = Concepts[at.model][i].slug
  /\ UNCHANGED <<at, goingTo, player>>

Next == \/ Tick \/ Render \/ Scrub \/ Arrow \/ Toggle
        \/ RailClick \/ Arrive \/ SetMode \/ Visit \/ PickConcept

Spec == Init /\ [][Next]_vars

-----------------------------------------------------------------------------
(* Properties.                                                              *)

TypeOK ==
  /\ at \in Places
  /\ goingTo \in {""} \cup (IF Watching THEN ToSet(Chapters[at.model]) ELSE {})
  /\ clock \in 0..Max({TotalDuration[m] : m \in Models})
  /\ playing \in BOOLEAN /\ shown \in BOOLEAN /\ untouched \in BOOLEAN
  /\ loops \in 0..1
  /\ mode \in {"play", "text"}
  /\ concept \in {""} \cup UNION {{Concepts[m][i].slug : i \in Indices(Concepts[m])} : m \in Models}

(* Once what was set is rendered, a playing clock has exactly one frame     *)
(* loop and a stopped one none: it neither plays at double speed nor stands *)
(* still while the button says Pause (useTimeline.ts: the cleanup cancels   *)
(* that exact frame).  Before the render, only the loop that ended is gone. *)
OneFrameLoop ==
  IF Watching /\ shown = playing THEN loops = (IF playing THEN 1 ELSE 0)
  ELSE loops = 0

(* A followed link, or a rail click whose address arrived, stands at the    *)
(* beginning of the chapter it names until something else moves the clock,  *)
(* also when the page was already open on the other model                   *)
(* (Walkthrough.tsx: a /learn/:slug link is a deep link).                   *)
LinkLands ==
  Known(at) /\ goingTo = "" /\ untouched =>
    /\ clock = ChapterStart(at.model, at.slug)
    /\ ChapterAt(at.model, clock) = at.slug

(* Nothing is blank: wherever the clock stands the stage holds a picture,   *)
(* and the closing page shows a concept of its own model, with a cell for   *)
(* every rung, also after a move between the closing pages of two models.   *)
NothingBlank ==
  /\ Watching => Held(at.model, clock) # {}
  /\ Page(at) = "closing" =>
       \E i \in Indices(Concepts[at.model]) :
         /\ Concepts[at.model][i].slug = ShownConcept(at.model)
         /\ DOMAIN Concepts[at.model][i].cells = ToSet(Rungs)

(* What Walkthrough.tsx:24-25 says of its two views, of the pictures:       *)
(* nothing is in one and missing from the other.                            *)
TextShowsEveryPicture ==
  Watching /\ mode = "text" =>
    \A i \in Indices(Scenes[at.model]) :
      Draws(Scenes[at.model][i]) => Figure(Scenes[at.model][i]) \in TextFigures(at.model)

(* A link lands where it says, and wherever it lands there is something to  *)
(* see.                                                                     *)
LinksShowSomething == LinkLands /\ NothingBlank

=============================================================================

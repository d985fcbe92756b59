----------------------------- MODULE NeuronDemo -----------------------------
(***************************************************************************)
(* The landing page's demo: a training run computed at once (demo.ts) whose *)
(* log a timer reveals line by line (components/NeuronDemo.tsx).  The       *)
(* arithmetic is left out; a line is its kind.  What the timer sets is      *)
(* rendered later (Render); clicks are rendered at once, with their effect. *)
(***************************************************************************)
EXTENDS Integers, Sequences, SequencesExt, FiniteSets

CONSTANTS Dataset, Epochs

EpochsConstants == Epochs \in Nat \ {0}

VARIABLES dataset,   \* the chosen tab
          shown,     \* lines on screen
          next,      \* what shown was last set to
          timers     \* the line counters of the intervals alive

vars == <<dataset, shown, next, timers>>

(* The log: a header, a line every tenth of the run and one for the last    *)
(* epoch, the final accuracy and the result.                                *)
Lines ==
  LET every == IF Epochs \div 10 > 1 THEN Epochs \div 10 ELSE 1
      logged == {e \in 0..(Epochs - 1) : e % every = 0 \/ e = Epochs - 1}
  IN  <<"header">> \o [i \in 1..Cardinality(logged) |-> "epoch"] \o <<"final", "result">>

total == Len(Lines)

done == shown >= total

(* Mutant: an interval that outlives its run.                               *)
BugRestart(still) ==
  /\ next' = IF still THEN total ELSE 0
  /\ timers' = IF still THEN timers ELSE Append(timers, 0)

(* The effect of [dataset, attempt, total], its cleanup first: the interval *)
(* is cleared, and unless motion is reduced the log starts over.            *)
Restart(still) ==
  /\ next' = IF still THEN total ELSE 0
  /\ timers' = IF still THEN <<>> ELSE <<0>>

Init ==
  /\ dataset \in Dataset
  /\ \E still \in BOOLEAN : /\ shown = IF still THEN total ELSE 0
                            /\ next = shown
                            /\ timers = IF still THEN <<>> ELSE <<0>>

(* An interval's callback: one more line, and the last clears the interval. *)
Tick ==
  /\ \E i \in DOMAIN timers :
       LET n == timers[i] + 1
       IN  /\ next' = n
           /\ timers' = IF n >= total THEN RemoveAt(timers, i) ELSE [timers EXCEPT ![i] = n]
  /\ UNCHANGED <<dataset, shown>>

Render == next # shown /\ shown' = next /\ UNCHANGED <<dataset, next, timers>>

(* A tab; the one already chosen changes nothing.                           *)
Pick == /\ dataset' \in Dataset \ {dataset}
        /\ \E still \in BOOLEAN : Restart(still)
        /\ shown' = next'

RunAgain == /\ \E still \in BOOLEAN : Restart(still)
            /\ shown' = next'
            /\ UNCHANGED dataset

Next == Tick \/ Render \/ Pick \/ RunAgain

Spec == Init /\ [][Next]_vars

-----------------------------------------------------------------------------
(* The log never freezes while it says running: an unfinished log has one   *)
(* interval alive, which stands at the last line set, and a finished one    *)
(* has none.  Switching tabs or running again mid-run leaves no interval of *)
(* the old run writing into the new one (NeuronDemo.tsx:64-79).             *)
LogNeverFreezes ==
  IF next < total THEN timers = <<next>> ELSE next = total /\ timers = <<>>
=============================================================================

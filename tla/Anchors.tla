------------------------------- MODULE Anchors -------------------------------
(***************************************************************************)
(* Slicing a function out of a C++ file by its signature                    *)
(* (content/walkthrough/anchors.ts), against a definition of what the slice *)
(* should be.  An author types the file; after every piece typed the slice  *)
(* the code panel would show is compared.  A character is one of            *)
(*   "A" the anchor, "q" a quote, "b" a backslash, "/", "*", "{", "}", ";". *)
(***************************************************************************)
EXTENDS Integers, Sequences, SequencesExt, FiniteSets, FiniteSetsExt

CONSTANT MaxPieces   \* pieces typed after the signature

VARIABLES file,      \* the lines, each a sequence of characters
          typed

vars == <<file, typed>>

At(text, i) == IF i <= Len(text) THEN text[i] ELSE "eol"

-----------------------------------------------------------------------------
(* The scanner.                                                             *)

(* The indices a scan can stand at: a jump over two characters may pass the *)
(* end by one.                                                              *)
Places(text) == 1..(Len(text) + 2)

(* The index after the literal whose body starts at i; an escape takes two. *)
AfterLiteral(text) ==
  LET after[i \in Places(text)] ==
        CASE At(text, i) = "eol" -> i
          [] At(text, i) = "b" -> after[i + 2]
          [] At(text, i) = "q" -> i + 1
          [] OTHER -> after[i + 1]
  IN  after

State == [depth : Int, inBlockComment : BOOLEAN]
Commenting(s, b) == [s EXCEPT !.inBlockComment = b]

(* Depth and block-comment state after the characters from i on.            *)
ScanFrom(text) ==
  LET Two(i, a, b) == At(text, i) = a /\ At(text, i + 1) = b
      scan[i \in Places(text)] == [s \in State |->
        IF At(text, i) = "eol" THEN s
        ELSE IF s.inBlockComment THEN
          IF Two(i, "*", "/") THEN scan[i + 2][Commenting(s, FALSE)] ELSE scan[i + 1][s]
        ELSE IF Two(i, "/", "/") THEN s
        ELSE IF Two(i, "/", "*") THEN scan[i + 2][Commenting(s, TRUE)]
        ELSE CASE At(text, i) = "q" -> scan[AfterLiteral(text)[i + 1]][s]
               [] At(text, i) = "{" -> scan[i + 1][[s EXCEPT !.depth = @ + 1]]
               [] At(text, i) = "}" -> scan[i + 1][[s EXCEPT !.depth = @ - 1]]
               [] OTHER -> scan[i + 1][s]]
  IN  scan

(* Mutant: the comment state is forgotten at the end of a line.             *)
BugScanLine(text, s) == ScanFrom(text)[1][Commenting(s, FALSE)]

ScanLine(text, s) == ScanFrom(text)[1][s]

Matches(lines) ==
  {i \in DOMAIN lines : At(lines[i], 1) = "A" /\ lines[i][Len(lines[i])] # ";"}

(* The first line from i on that leaves the depth at zero or below after    *)
(* one has left it above; 0 when the block never closes.                    *)
CloseFrom(lines) ==
  LET close[i \in 1..(Len(lines) + 1)] == [s \in State |-> [opened \in BOOLEAN |->
        IF i > Len(lines) THEN 0
        ELSE LET after == ScanLine(lines[i], s)
                 open == opened \/ after.depth > 0
             IN  IF open /\ after.depth <= 0 THEN i ELSE close[i + 1][after][open]]]
  IN  close

ExtractAnchor(lines) ==
  LET start == CHOOSE i \in Matches(lines) : TRUE
      end == CloseFrom(lines)[start][[depth |-> 0, inBlockComment |-> FALSE]][FALSE]
  IN  IF Matches(lines) = {} THEN "missing"
      ELSE IF Cardinality(Matches(lines)) > 1 THEN "ambiguous"
      ELSE IF end = 0 THEN "never closes"
      ELSE <<start, end>>

-----------------------------------------------------------------------------
(* What the slice should be, by reading C++ one character at a time.        *)

Lexed(s, c) ==
  LET In(next) == [s EXCEPT !.in = next]
      Code == CASE c = "{" -> [s EXCEPT !.in = "code", !.depth = @ + 1, !.deepest = Max({@, s.depth + 1})]
                [] c = "}" -> [s EXCEPT !.in = "code", !.depth = @ - 1]
                [] c = "q" -> In("literal")
                [] c = "/" -> In("slash")
                [] OTHER -> In("code")
  IN  CASE s.in = "code" -> Code
        [] s.in = "slash" -> IF c = "/" THEN In("line") ELSE IF c = "*" THEN In("block") ELSE Code
        [] s.in = "block" -> IF c = "*" THEN In("star") ELSE s
        [] s.in = "star" -> IF c = "/" THEN In("code") ELSE IF c = "*" THEN s ELSE In("block")
        [] s.in = "literal" -> IF c = "b" THEN In("escape") ELSE IF c = "q" THEN In("code") ELSE s
        [] s.in = "escape" -> In("literal")
        [] OTHER -> s

(* The reading after lines from..to; only a block comment outlives a line.  *)
Reading(lines, from, to) ==
  FoldLeft(LAMBDA s, text : LET end == FoldLeft(Lexed, s, text)
                            IN  [end EXCEPT !.in = IF @ \in {"block", "star"} THEN "block" ELSE "code"],
           [in |-> "code", depth |-> 0, deepest |-> 0],
           SubSeq(lines, from, to))

(* The lines at which the block opened at or after start has closed.        *)
Closed(lines, start) ==
  {i \in start..Len(lines) : LET r == Reading(lines, start, i) IN r.deepest > 0 /\ r.depth <= 0}

-----------------------------------------------------------------------------
Pieces == {<<"A">>, <<"{">>, <<"}">>, <<"/", "/">>, <<"/", "*">>, <<"*", "/">>,
           <<"q">>, <<"b", "q">>, <<";">>}

Init == file = << <<"A", "{">> >> /\ typed = 0

Type == \E piece \in Pieces :
          file' = [file EXCEPT ![Len(file)] = @ \o piece]

NewLine == Last(file) # <<>> /\ file' = Append(file, <<>>)

Next == typed < MaxPieces /\ typed' = typed + 1 /\ (Type \/ NewLine)

Spec == Init /\ [][Next]_vars

(* A slice starts at the one line that carries the anchor and ends at the   *)
(* line that closes its block, whatever braces its comments and literals    *)
(* hold; without one, no slice is shown.  Of blocks that stay open over the *)
(* end of some line: one that opens and closes within a line is passed over *)
(* for the next.                                                            *)
SliceIsItsBlock ==
  \A start \in Matches(file) :
    Cardinality(Matches(file)) = 1 =>
      LET closed == Closed(file, start)
          multiline == \E i \in start..Len(file) :
                         /\ Reading(file, start, i).depth > 0
                         /\ closed # {} => i < Min(closed)
      IN  multiline => ExtractAnchor(file) =
                         IF closed = {} THEN "never closes" ELSE <<start, Min(closed)>>
=============================================================================

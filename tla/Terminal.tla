------------------------------ MODULE Terminal ------------------------------
(***************************************************************************)
(* What a writer to the screen may expect: lines of text, the last one in  *)
(* progress.  A full line or a newline starts the next; when there are     *)
(* more than the screen has, the first goes.  Once an echo or another      *)
(* writer has come into the middle of a character, nothing is promised.    *)
(***************************************************************************)
EXTENDS Naturals, Sequences, SequencesExt

CONSTANTS
  LINES, COLUMNS,   \* the size of the screen
  Char,             \* characters
  NL,               \* the newline
  MaxText           \* bound on the characters written at a time

VARIABLES
  lines,    \* what is on the screen, from the top
  torn      \* something has come into the middle of a character

vars == <<lines, torn>>

NextLine(ls) ==
  IF Len(ls) < LINES THEN Append(ls, <<>>) ELSE Append(Tail(ls), <<>>)

Put(ls, c) ==
  LET longer == [ls EXCEPT ![Len(ls)] = Append(@, c)] IN
  IF c = NL THEN NextLine(ls)
  ELSE IF Len(longer[Len(ls)]) = COLUMNS THEN NextLine(longer)
  ELSE longer

------------------------------------------------------------------------------

Init == lines = << <<>> >> /\ torn = FALSE

Write(text) ==
  /\ ~torn
  /\ lines' = FoldLeft(Put, lines, text)
  /\ UNCHANGED torn

Tear == torn' = TRUE

Next ==
  \/ \E n \in 1 .. MaxText : \E text \in [1 .. n -> Char \cup {NL}] : Write(text)
  \/ Tear

Spec == Init /\ [][Next]_vars
=============================================================================

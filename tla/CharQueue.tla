------------------------------ MODULE CharQueue ------------------------------
(***************************************************************************)
(* What readers of the console may rely on: the characters typed and not   *)
(* yet read form a queue.  They are read in the order they were typed,     *)
(* each at most once, and as long as at most Capacity are waiting none is  *)
(* lost; when more arrive, some of the oldest may go.                      *)
(***************************************************************************)
EXTENDS Naturals, Sequences

CONSTANTS
  Char,      \* characters
  Capacity   \* characters that are kept for certain

VARIABLES
  queue,     \* the characters waiting, oldest first
  typed,     \* the characters that arrived last
  answer     \* the characters the last read returned

Init == queue = <<>> /\ typed = <<>> /\ answer = <<>>

Type(s) ==
  LET all == queue \o s IN
  /\ typed' = s
  /\ IF Len(all) <= Capacity
     THEN queue' = all
     ELSE \E lost \in 1..Len(all) : queue' = SubSeq(all, lost + 1, Len(all))
  /\ UNCHANGED answer

(* A read never waits: it returns what is there, at most n characters. *)
Read(n) ==
  LET k == IF n < Len(queue) THEN n ELSE Len(queue) IN
  /\ answer' = SubSeq(queue, 1, k)
  /\ queue' = SubSeq(queue, k + 1, Len(queue))
  /\ UNCHANGED typed

CONSTANTS
  MaxTyped,  \* characters that arrive at a time
  MaxRead    \* characters asked for at a time

Next ==
  \/ \E n \in 0..MaxTyped : \E s \in [1..n -> Char] : Type(s)
  \/ \E n \in 0..MaxRead : Read(n)

Spec == Init /\ [][Next]_<<queue, typed, answer>>
=============================================================================

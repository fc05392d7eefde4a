---------------------------- MODULE PrivateMemory ----------------------------
(***************************************************************************)
(* What a program may expect of its memory: every process sees bytes of    *)
(* its own, but for the pages at kernel addresses, which are one memory    *)
(* for all.  A store to a page of its own is seen by the storing process   *)
(* only; fork hands the child a copy of the program's pages as they are at *)
(* that moment; exec replaces them; a page never touched reads as zero.    *)
(* No frames, no page tables, no sharing of frames.  Nothing is promised   *)
(* once a program has overwritten the kernel.                              *)
(***************************************************************************)
EXTENDS Naturals

CONSTANTS
  Proc,       \* process slots
  Kernel,     \* whose the pages at kernel addresses are
  Page,       \* the pages a program can name
  ProgPage,   \* those of the program image and stack, which fork copies
  Common,     \* those at kernel addresses, one memory for all
  Value,      \* page contents
  Zero        \* the content of a fresh page

VARIABLES
  alive,      \* the processes that exist
  view,       \* view[q][v]: what is read in page v of q
  broken      \* the kernel has been overwritten

vars == <<alive, view, broken>>

Blank == [v \in Page |-> Zero]
Whose(p, v) == IF v \in Common THEN Kernel ELSE p

(* The pages of p as they are once image has replaced the program. *)
Replaced(p, image) == [v \in Page |-> IF v \in ProgPage THEN image[v] ELSE view[p][v]]

------------------------------------------------------------------------------

(* One process exists, with some image. *)
Init ==
  \E p \in Proc, image \in [Page -> Value] :
    /\ alive = {p}
    /\ view = [q \in Proc \cup {Kernel} |-> IF q = p THEN image ELSE Blank]
    /\ broken = FALSE

Store(p, v, x) ==
  /\ p \in alive
  /\ view' = [view EXCEPT ![Whose(p, v)][v] = x]
  /\ UNCHANGED <<alive, broken>>

Fork(p, c) ==
  /\ p \in alive /\ c \notin alive
  /\ alive' = alive \cup {c}
  /\ view' = [view EXCEPT ![c] = [v \in Page |-> IF v \in ProgPage THEN view[p][v] ELSE Zero]]
  /\ UNCHANGED broken

(* A new image, or none: a file that is no program leaves an empty memory. *)
Exec(p, v, x) ==
  /\ p \in alive
  /\ view' = [view EXCEPT ![p] = Replaced(p, [Blank EXCEPT ![v] = x])]
  /\ UNCHANGED <<alive, broken>>

Exit(p) ==
  /\ p \in alive
  /\ alive' = alive \ {p}
  /\ view' = [view EXCEPT ![p] = Blank]
  /\ UNCHANGED broken

(* A store to an address where the kernel itself is. *)
Break == broken' = TRUE

Next ==
  \/ \E p \in Proc :
       \/ \E v \in Page, x \in Value : Store(p, v, x) \/ Exec(p, v, x)
       \/ \E c \in Proc : Fork(p, c)
       \/ Exit(p)
  \/ Break

Spec == Init /\ [][Next]_vars
=============================================================================

------------------------------ MODULE FramePool ------------------------------
(***************************************************************************)
(* What the rest of the kernel relies on when it calls alloc_page and      *)
(* free_page (kernel/mm.c): every frame carries a number of references, a  *)
(* frame is handed out only while nobody refers to it, and a request is    *)
(* refused only when every frame is referred to.  No free list here: which *)
(* frame is handed out is left open.                                       *)
(***************************************************************************)
EXTENDS Naturals

CONSTANTS
  Frame,      \* the frames the pool manages
  NoFrame     \* the NULL answer of alloc_page

VARIABLES
  refs,       \* refs[f]: how many references exist to frame f
  got         \* the answer of the last request

vars == <<refs, got>>

------------------------------------------------------------------------------

Init ==
  /\ refs = [f \in Frame |-> 0]
  /\ got = NoFrame

(* A request is answered with a frame nobody refers to. *)
Issue ==
  \E f \in Frame :
    /\ refs[f] = 0
    /\ refs' = [refs EXCEPT ![f] = 1]
    /\ got' = f

(* A request is refused only when no frame is left. *)
Refuse ==
  /\ \A f \in Frame : refs[f] > 0
  /\ got' = NoFrame
  /\ UNCHANGED refs

(* A holder passes a second reference on (fork). *)
Share(f) ==
  /\ refs[f] > 0
  /\ refs' = [refs EXCEPT ![f] = @ + 1]
  /\ UNCHANGED got

(* A holder gives its reference up. *)
Release(f) ==
  /\ refs[f] > 0
  /\ refs' = [refs EXCEPT ![f] = @ - 1]
  /\ UNCHANGED got

Next ==
  \/ Issue
  \/ Refuse
  \/ \E f \in Frame : Share(f) \/ Release(f)

Spec == Init /\ [][Next]_vars
=============================================================================

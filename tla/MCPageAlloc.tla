----------------------------- MODULE MCPageAlloc -----------------------------
(***************************************************************************)
(* A small memory for TLC: nine frames, the trampoline at 2, the hole at   *)
(* 4, kernel data below 6, so that each of the three runs init_page pushes *)
(* is non-empty and five frames are managed.  The descriptors hold 0 or -1 *)
(* at boot: with -1 a reserved frame ends up with count 0.                 *)
(***************************************************************************)
EXTENDS PageAlloc

MCLeftover == {-1, 0}
=============================================================================

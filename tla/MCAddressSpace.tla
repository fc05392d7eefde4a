---------------------------- MODULE MCAddressSpace ----------------------------
(***************************************************************************)
(* Small memories for TLC.  Frames are numbers and alloc_page picks the    *)
(* lowest free one: which frame it picks makes no difference to the        *)
(* properties, and one choice keeps the state space small.                 *)
(***************************************************************************)
EXTENDS AddressSpace, FiniteSetsExt, TLC

Lowest(S) == IF S = {} THEN {} ELSE {Min(S)}

(* A call reads one block. *)
LowestBatch(S) == {{f} : f \in Lowest(S)}

(* Slots other than the first are interchangeable. *)
OtherSlots == Permutations(Proc \ {First})

Frames8 == 1..8
Frames9 == 1..9
Frames10 == 1..10
=============================================================================

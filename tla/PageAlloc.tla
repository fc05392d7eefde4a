------------------------------ MODULE PageAlloc ------------------------------
(***************************************************************************)
(* The physical page allocator of kernel/mm.c: the array of page           *)
(* descriptors (count), the LIFO free list threaded through them (phead),  *)
(* and the three operations of its callers: alloc_page, free_page and the  *)
(* bare "pp->count++" with which sys_fork shares a page.                   *)
(*                                                                         *)
(* Frames are the page-frame numbers 0..NPages-1.  Frame 0, the frame of   *)
(* the SMP trampoline, and everything from the legacy hole at 0xA0000 up   *)
(* to the end of the kernel's own data never enter the free list.          *)
(***************************************************************************)
EXTENDS Integers, Sequences, Functions

CONSTANTS
  NPages,     \* number of page descriptors (npages)
  Tramp,      \* frame of TRAMPOLINE_BASE (8 in the code)
  Hole,       \* first frame of the legacy hole (0xA0 in the code)
  KUsed,      \* first frame after the kernel's own data (kused_mem)
  Leftover,   \* what RAM may hold in pages[i].count before init_page
  MaxRefs,    \* bound on the references to one frame
  NoFrame     \* NULL

ASSUME LayoutAssumption ==
  /\ NPages \in Nat /\ Tramp \in Nat /\ Hole \in Nat /\ KUsed \in Nat
  /\ 0 < Tramp /\ Tramp < Hole /\ Hole <= KUsed /\ KUsed <= NPages
ASSUME LeftoverAssumption == Leftover \subseteq Int
ASSUME MaxRefsAssumption == MaxRefs \in Nat
ASSUME NoFrameAssumption == NoFrame \notin 0..NPages-1

VARIABLES
  freelist,   \* the frames on the free list, head (phead) first
  count,      \* count[f]: pages[f].count
  got         \* the value the last alloc_page returned

vars == <<freelist, count, got>>

Frame == 0..NPages-1

(* Frames init_page gives away, and those it keeps for ever. *)
Usable == (1..Hole-1 \ {Tramp}) \cup (KUsed..NPages-1)
Reserved == Frame \ Usable

(* The sequence a, a+1, ..., b (empty when b < a). *)
Run(a, b) == [i \in 1..(IF b < a THEN 0 ELSE b - a + 1) |-> a + i - 1]

(* Plausible slips in the bounds of those loops; used by no specification. *)
SlipPastEnd == Run(Tramp + 1, Hole - 1) \o Run(1, Tramp - 1) \o Run(KUsed, NPages)
SlipTrampoline == Run(Tramp, Hole - 1) \o Run(1, Tramp - 1) \o Run(KUsed, NPages - 1)

(* The three loops of init_page push downwards, so that each run ends up  *)
(* in ascending order and the run pushed last is the head of the list.    *)
InitialFreeList == Run(Tramp + 1, Hole - 1) \o Run(1, Tramp - 1) \o Run(KUsed, NPages - 1)

FreeFrames == Range(freelist)

------------------------------------------------------------------------------

(* count++ is applied to whatever the descriptors hold (the array is never *)
(* cleared); only the frames that join the free list are then set to 0.    *)
Init ==
  /\ freelist = InitialFreeList
  /\ \E left \in [Reserved -> Leftover] :
       count = [f \in Frame |-> IF f \in Usable THEN 0 ELSE left[f] + 1]
  /\ got = NoFrame

(* Slips: alloc_page without its count++, free_page without its test of 0. *)
SlipAllocUncounted ==
  /\ freelist # <<>>
  /\ freelist' = Tail(freelist)
  /\ got' = Head(freelist)
  /\ UNCHANGED count

SlipFreeAlways(f) ==
  /\ count[f] > 0
  /\ count' = [count EXCEPT ![f] = @ - 1]
  /\ freelist' = <<f>> \o freelist
  /\ UNCHANGED got

(* alloc_page: pop the head, or answer NULL. *)
AllocPage ==
  \/ /\ freelist # <<>>
     /\ freelist' = Tail(freelist)
     /\ count' = [count EXCEPT ![Head(freelist)] = @ + 1]
     /\ got' = Head(freelist)
  \/ /\ freelist = <<>>
     /\ got' = NoFrame
     /\ UNCHANGED <<freelist, count>>

(* sys_fork: "pp->count++" on a page the parent maps. *)
SharePage(f) ==
  /\ count[f] \in 1..MaxRefs-1
  /\ count' = [count EXCEPT ![f] = @ + 1]
  /\ UNCHANGED <<freelist, got>>

(* free_page by a holder: the frame is pushed when the last one lets go. *)
FreePage(f) ==
  /\ count[f] > 0
  /\ count' = [count EXCEPT ![f] = @ - 1]
  /\ freelist' = IF count'[f] = 0 THEN <<f>> \o freelist ELSE freelist
  /\ UNCHANGED got

Next ==
  \/ AllocPage
  \/ \E f \in Usable : SharePage(f) \/ FreePage(f)

Spec == Init /\ [][Next]_vars

------------------------------------------------------------------------------

(* The shape of the state. *)
TypeOK ==
  /\ freelist \in Seq(Frame)
  /\ count \in [Frame -> Int]
  /\ got \in Frame \cup {NoFrame}

(* The free list holds every managed frame nobody refers to, exactly once, *)
(* and no frame in use: no frame is lost by alloc_page/free_page and none  *)
(* is handed to two owners (mm.c 112-140).                                 *)
FreeListExact ==
  /\ FreeFrames = {f \in Usable : count[f] = 0}
  /\ IsInjective(freelist)

(* The frames of the trampoline, the hole and the kernel are never handed *)
(* out, whatever the uncleared descriptors held at boot (mm.c 63-93).     *)
ReservedNeverIssued ==
  /\ got \notin Reserved
  /\ FreeFrames \cap Reserved = {}

(* The allocator keeps the promises of FramePool. *)
Pool == INSTANCE FramePool WITH Frame <- Usable, refs <- [f \in Usable |-> count[f]]
PoolSpec == Pool!Spec
=============================================================================

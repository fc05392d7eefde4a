---------------------------- MODULE AddressSpace ----------------------------
(***************************************************************************)
(* User memory: frames with reference counts (kernel/mm.c), the page       *)
(* tables of the processes, and everything that changes them: fork with    *)
(* copy-on-write (proc.c), the page-fault handler (trap.c), exec (exec.c), *)
(* exit (proc.c), stores of programs, stores of the kernel into a          *)
(* program's buffer (sys_read), and the frames that reading the disk takes *)
(* (bread, fs.c).                                                          *)
(*                                                                         *)
(* The pages of a program are those of [UTEXT, USTACKTOP): VPage for the   *)
(* image and data, Stack for the one stack page.  Outside stands for       *)
(* addresses beyond that range, which the fault handler maps just as well, *)
(* and Common for those of the kernel half that head.S maps nothing at.    *)
(* All directories share the tables of the kernel half (alloc_vm copies    *)
(* their entry): what is mapped there belongs to no process but to Kernel. *)
(* Frame is in the memory that head.S maps, so the kernel reaches it.      *)
(* The table pages below the page directory are collapsed into one frame   *)
(* per region.  Any live process may take the next step (who runs is the   *)
(* subject of Scheduler); a handler is one step (TrapContext looks inside  *)
(* the one that can be interrupted).                                       *)
(***************************************************************************)
EXTENDS Naturals, FiniteSets

CONSTANTS
  Proc,           \* process slots
  First,          \* the slot of the first process
  Kernel,         \* whose the tables of the kernel half are
  Frame,          \* frames of the page allocator
  NoFrame,        \* an empty page-table entry, a NULL frame
  Huge,           \* the frames at which a 2MB page begins
  VPage,          \* pages of image and data
  Stack,          \* the stack page
  Outside,        \* pages beyond [UTEXT, USTACKTOP) that programs touch
  Common,         \* pages of the kernel half not mapped at boot
  Value,          \* contents of a page
  Zero,           \* the content of a page filled with zeros
  Candidates(_),  \* frames alloc_page may pick from a set of free ones
  Batches(_),     \* those a call that reads blocks may take, one for each
  KernelStores    \* buffers of system calls: "own" pages only, or "any"

Prog == VPage \cup {Stack}
Page == Prog \cup Outside \cup Common
Region == {"prog", "outside", "kernel"}
RegionOf(v) == IF v \in Common THEN "kernel" ELSE IF v \in Outside THEN "outside" ELSE "prog"
Owner == Proc \cup {Kernel}

ASSUME ConstantsAssumption ==
  /\ First \in Proc /\ Kernel \notin Proc /\ Zero \in Value /\ NoFrame \notin Frame
  /\ Huge \subseteq Frame
  /\ Stack \notin VPage /\ Prog \cap Outside = {} /\ (Prog \cup Outside) \cap Common = {}
  /\ KernelStores \in {"own", "any"}
  /\ IsFiniteSet(Proc)
  /\ IsFiniteSet(VPage) /\ IsFiniteSet(Outside) /\ IsFiniteSet(Common)
ASSUME CandidatesAssumption ==
  \A S \in SUBSET Frame : Candidates(S) \subseteq S /\ (S # {} => Candidates(S) # {})
ASSUME BatchesAssumption ==
  \A S \in SUBSET Frame : Batches(S) \subseteq SUBSET S

VARIABLES
  free,       \* the free frames (module PageAlloc keeps them in a list)
  count,      \* count[f]: references as counted by the kernel
  mem,        \* mem[f]: content of frame f
  slot,       \* "free", "live", or "lost" to a fork that failed
  pgdir,      \* frame of the page directory
  table,      \* table[q][r]: frame of the page tables of region r
  map,        \* map[q][v]: the frame page v is mapped to
  writable,   \* writable[q]: the pages mapped with PTE_W
  halted,     \* the kernel is in panic
  wild,       \* history: a store has gone into the kernel's own memory
  lost        \* history: frames in use that nothing leads to any more:
              \* exited processes left them behind, or bread took them

vars == <<free, count, mem, slot, pgdir, table, map, writable, halted, wild, lost>>

------------------------------------------------------------------------------
(* References and releasing *)

Live == {p \in Proc : slot[p] = "live"}
Whose(p, v) == IF v \in Common THEN Kernel ELSE p
Mapped(q, v) == map[q][v] # NoFrame
MappedIn(q, V) == {v \in V : Mapped(q, v)}
FramesOf(q, V) == {map[q][v] : v \in MappedIn(q, V)}

(* remove_page/free_page on the frames D: what is then free, the counts,   *)
(* and the contents (those of a free frame no longer matter).              *)
Freed(D) == {f \in D : count[f] = 1}
CountAfter(D) == [f \in Frame |-> IF f \in D THEN count[f] - 1 ELSE count[f]]
MemAfter(D) == [f \in Frame |-> IF f \in Freed(D) THEN Zero ELSE mem[f]]

(* The kernel faults, by panic or through a wild pointer, and the          *)
(* behaviour modelled ends.  In a system call the processor stops for good *)
(* (hlt with interrupts off); in a fault handler interrupts are on, and    *)
(* what goes on after that is not modelled.                                *)
Halt ==
  /\ halted' = TRUE
  /\ UNCHANGED <<free, count, mem, slot, pgdir, table, map, writable, wild, lost>>

(* bread takes a frame for every block, and nobody gives it back: B is in  *)
(* use from then on.  (What is in it does not matter.)                     *)
CountWith(B, ct) == [f \in Frame |-> IF f \in B THEN 1 ELSE ct[f]]

------------------------------------------------------------------------------

(* create_proc for init: a page directory, tables, an image page and a     *)
(* stack, all writable.                                                    *)
Init ==
  \E d \in Candidates(Frame) : \E t \in Candidates(Frame \ {d}) :
  \E i \in Candidates(Frame \ {d, t}) : \E s \in Candidates(Frame \ {d, t, i}) :
  \E v \in VPage, x \in Value :
    /\ free = Frame \ {d, t, i, s}
    /\ count = [f \in Frame |-> IF f \in free THEN 0 ELSE 1]
    /\ mem = [f \in Frame |-> IF f = i THEN x ELSE Zero]
    /\ slot = [p \in Proc |-> IF p = First THEN "live" ELSE "free"]
    /\ pgdir = [q \in Owner |-> IF q = First THEN d ELSE NoFrame]
    /\ table = [q \in Owner |-> [r \in Region |->
                  IF q = First /\ r = "prog" THEN t ELSE NoFrame]]
    /\ map = [q \in Owner |-> [u \in Page |->
                IF q # First THEN NoFrame
                ELSE IF u = v THEN i ELSE IF u = Stack THEN s ELSE NoFrame]]
    /\ writable = [q \in Owner |-> IF q = First THEN {v, Stack} ELSE {}]
    /\ halted = FALSE /\ wild = FALSE
    /\ lost = {}

(* Process p takes a step: it runs a program, not the idle loop of panic. *)
Ready(p) == ~halted /\ slot[p] = "live"

(* A program stores into a page it may write. *)
UserStore(p, v, x) ==
  LET q == Whose(p, v) IN
  /\ Ready(p)
  /\ v \in writable[q]
  /\ mem' = [mem EXCEPT ![map[q][v]] = x]
  /\ UNCHANGED <<free, count, slot, pgdir, table, map, writable, halted, wild, lost>>

(* sys_read puts data into the caller's buffer from kernel mode, from the  *)
(* console or from blocks B of a file.  CR0.WP is clear, so a read-only    *)
(* mapping does not stop the store; a page that is not mapped faults in    *)
(* the kernel, which is a panic.  Programs that have stored into their     *)
(* buffer before have it in a page of their own.                           *)
KernelStore(p, v, x) ==
  LET q == Whose(p, v) IN
  /\ Ready(p)
  /\ KernelStores = "any" \/ ~Mapped(q, v) \/ v \in writable[q]
  /\ \/ /\ Mapped(q, v)
        /\ mem' = [mem EXCEPT ![map[q][v]] = x]
        /\ \E B \in {{}} \cup Batches(free) :
             /\ free' = free \ B
             /\ count' = CountWith(B, count)
             /\ lost' = lost \cup B
        /\ UNCHANGED <<slot, pgdir, table, map, writable, halted, wild>>
     \/ ~Mapped(q, v) /\ Halt

(* sys_open and sys_write read blocks B as well; sys_create_vcpu,          *)
(* sys_alloc_vm_mem and sys_mmap_mem (module Vmx) keep what they take,     *)
(* too.  Without a frame bread goes on through a wild pointer.             *)
FileCall(p) ==
  /\ Ready(p)
  /\ \/ \E B \in Batches(free) :
          /\ free' = free \ B
          /\ count' = CountWith(B, count)
          /\ lost' = lost \cup B
          /\ UNCHANGED <<mem, slot, pgdir, table, map, writable, halted, wild>>
     \/ Halt

(* do_trap, page not present, wherever the address is: a zeroed frame for  *)
(* the page, and one for the tables of a region touched for the first      *)
(* time.  Without a frame for the page nothing changes; without one for    *)
(* the tables the kernel goes wild.                                        *)
NewTable(q, r, S) == IF table[q][r] = NoFrame THEN Candidates(S) ELSE {table[q][r]}

NotPresentFault(p, v) ==
  LET q == Whose(p, v)
      r == RegionOf(v) IN
  /\ Ready(p) /\ ~Mapped(q, v)
  /\ \/ \E f \in Candidates(free) : \E t \in NewTable(q, r, free \ {f}) :
          /\ free' = free \ {f, t}
          /\ count' = [g \in Frame |-> IF g \in free \cap {f, t} THEN 1 ELSE count[g]]
          /\ mem' = [mem EXCEPT ![f] = Zero]
          /\ table' = [table EXCEPT ![q][r] = t]
          /\ map' = [map EXCEPT ![q][v] = f]
          /\ writable' = [writable EXCEPT ![q] = @ \cup {v}]
          /\ UNCHANGED <<slot, pgdir, halted, wild, lost>>
     \/ table[q][r] = NoFrame /\ Cardinality(free) = 1 /\ Halt
     \/ free = {} /\ UNCHANGED vars

(* Slips of the copy: remove_page, or the memcpy, left out. *)
SlipKeepOld(q, v) == {}
SlipNoCopy(q, v) == Zero

(* What copy-on-write lets go of, and what it puts into the new frame. *)
CowReleased(q, v) == {map[q][v]}
CowContent(q, v) == mem[map[q][v]]

(* do_trap, store to a read-only page: a copy of the frame, even for its   *)
(* last user, replaces the old mapping and gives the reference back.       *)
CowFault(p, v) ==
  LET q == Whose(p, v) IN
  /\ Ready(p) /\ Mapped(q, v) /\ v \notin writable[q]
  /\ LET D == CowReleased(q, v) IN
     \/ \E f \in Candidates(free) :
          /\ free' = (free \ {f}) \cup Freed(D)
          /\ count' = [CountAfter(D) EXCEPT ![f] = 1]
          /\ mem' = [MemAfter(D) EXCEPT ![f] = CowContent(q, v)]
          /\ map' = [map EXCEPT ![q][v] = f]
          /\ writable' = [writable EXCEPT ![q] = @ \cup {v}]
          /\ UNCHANGED <<slot, pgdir, table, halted, wild, lost>>
     \/ free = {} /\ Halt

(* A store into the kernel's own memory: a word of a frame in W, or of     *)
(* what is no frame, is overwritten, and a frame may be given back whoever *)
(* uses it.  What the kernel does after that is not followed.              *)
Damage(W, fr, ct) ==
  /\ mem' \in {mem} \cup {[mem EXCEPT ![g] = x] : g \in W, x \in Value}
  /\ \/ free' = fr /\ count' = ct
     \/ \E g \in Frame :
          /\ ct[g] > 0
          /\ free' = IF ct[g] = 1 THEN fr \cup {g} ELSE fr
          /\ count' = [ct EXCEPT ![g] = @ - 1]
  /\ wild' = TRUE /\ halted' = TRUE
  /\ UNCHANGED <<slot, pgdir, table, map, writable, lost>>

(* do_trap, a program stores to an address of the kernel that head.S maps. *)
(* The fault looks like copy-on-write.  walk_dir takes the first 4KB that  *)
(* the 2MB entry maps for a page table: remove_page gives back what one of *)
(* its words seems to lead to, and insert_page overwrites the word.        *)
(* (Reading such an address faults forever and changes nothing.)  sys_read *)
(* to such an address overwrites the kernel at once.                       *)
KernelOverwritten(p) ==
  /\ Ready(p)
  /\ \/ \E f \in Candidates(free) : Damage(Huge, free \ {f}, [count EXCEPT ![f] = 1])
     \/ KernelStores = "any" /\ Damage(Frame, free, count)
     \/ free = {} /\ Halt

------------------------------------------------------------------------------
(* sys_fork *)

(* alloc_proc reads through the NULL head of the list of slots. *)
ForkNoSlot(p) ==
  /\ \A c \in Proc : slot[c] # "free"
  /\ Halt

(* Slip: the result of alloc_vm is not looked at. *)
SlipForkUnchecked(p, c) ==
  /\ slot[c] = "free" /\ free = {}
  /\ slot' = [slot EXCEPT ![c] = "live"]
  /\ UNCHANGED <<free, count, mem, pgdir, table, map, writable, halted, wild, lost>>

(* alloc_vm fails: -1, and the slot is not given back. *)
ForkNoDirectory(p, c) ==
  /\ slot[c] = "free" /\ free = {}
  /\ slot' = [slot EXCEPT ![c] = "lost"]
  /\ UNCHANGED <<free, count, mem, pgdir, table, map, writable, halted, wild, lost>>

(* No frame for the tables or for the copy of the stack, or the parent has *)
(* no stack page to copy: a fault in the kernel.                           *)
ForkPanic(p, c) ==
  /\ slot[c] = "free" /\ free # {}
  /\ Cardinality(free) < 3 \/ ~Mapped(p, Stack)
  /\ Halt

(* Slips of the loop over the pages: no count++, the parent's entry left   *)
(* as it was.                                                              *)
SlipUncounted(p, new) == [f \in Frame |-> IF f \in new THEN 1 ELSE count[f]]
SlipParentWrites(p, c) == [writable EXCEPT ![c] = {Stack}]

(* Every page of p below the stack gets one more reference and becomes     *)
(* read-only for p as well as for c; the frames in new get their first.    *)
CountAfterFork(p, new) ==
  [f \in Frame |-> IF f \in new THEN 1
                   ELSE IF f \in FramesOf(p, VPage) THEN count[f] + 1 ELSE count[f]]
WritableAfterFork(p, c) == [writable EXCEPT ![p] = @ \ VPage, ![c] = {Stack}]

(* The pages below the stack are shared read-only by parent and child; the *)
(* stack page is copied at once.                                           *)
ForkOK(p, c) ==
  /\ slot[c] = "free" /\ Mapped(p, Stack)
  /\ \E d \in Candidates(free) : \E t \in Candidates(free \ {d}) :
     \E s \in Candidates(free \ {d, t}) :
       /\ free' = free \ {d, t, s}
       /\ count' = CountAfterFork(p, {d, t, s})
       /\ mem' = [mem EXCEPT ![s] = mem[map[p][Stack]]]
       /\ pgdir' = [pgdir EXCEPT ![c] = d]
       /\ table' = [table EXCEPT ![c]["prog"] = t]
       /\ map' = [map EXCEPT ![c] = [v \in Page |-> IF v \in VPage THEN map[p][v]
                                                    ELSE IF v = Stack THEN s
                                                    ELSE NoFrame]]
  /\ slot' = [slot EXCEPT ![c] = "live"]
  /\ writable' = WritableAfterFork(p, c)
  /\ UNCHANGED <<halted, wild, lost>>

Fork(p) ==
  /\ Ready(p)
  /\ \/ ForkNoSlot(p)
     \/ \E c \in Proc : ForkNoDirectory(p, c) \/ ForkPanic(p, c) \/ ForkOK(p, c)

------------------------------------------------------------------------------
(* sys_execve *)

(* Slip: the page tables go as well, though the directory still names them. *)
SlipDropTables(p) == FramesOf(p, Prog) \cup {table[p]["prog"]}

(* The program's pages are dropped before the file is looked at. *)
Dropped(p) == FramesOf(p, Prog)
FreeAfterDrop(p) == free \cup Freed(Dropped(p))

(* Blocks A of the directory are read before the pages are dropped, and    *)
(* blocks B of the file after it.                                          *)
CountAfterExec(p, A, B) == CountWith(A \cup B, CountAfter(Dropped(p)))

(* An image of one page v with content x, and a fresh stack.  A frame      *)
(* missing for the stack only leaves the stack unmapped.                   *)
ExecOK(p, v, x) ==
  /\ Ready(p)
  /\ \E A \in Batches(free) : \E B \in Batches(FreeAfterDrop(p) \ A) :
     LET S == FreeAfterDrop(p) \ (A \cup B) IN
     \E f \in Candidates(S) :
     \E s \in (IF S = {f} THEN {NoFrame} ELSE Candidates(S \ {f})) :
       /\ free' = S \ {f, s}
       /\ count' = CountWith({f, s}, CountAfterExec(p, A, B))
       /\ lost' = lost \cup (A \cup B)
       /\ mem' = [g \in Frame |-> IF g = f THEN x ELSE IF g = s THEN Zero
                                   ELSE MemAfter(Dropped(p))[g]]
       /\ map' = [map EXCEPT ![p] = [u \in Page |-> IF u \notin Prog THEN map[p][u]
                                                    ELSE IF u = v THEN f
                                                    ELSE IF u = Stack THEN s
                                                    ELSE NoFrame]]
       /\ writable' = [writable EXCEPT ![p] =
                         (@ \ Prog) \cup (IF s = NoFrame THEN {v} ELSE {v, Stack})]
       /\ UNCHANGED <<slot, pgdir, table, halted, wild>>

(* Not an ELF file, or an empty one, of which no block is read: -1 to a    *)
(* caller whose memory is gone.                                            *)
ExecRejected(p) ==
  /\ Ready(p)
  /\ \E A \in Batches(free) : \E B \in {{}} \cup Batches(FreeAfterDrop(p) \ A) :
       /\ free' = FreeAfterDrop(p) \ (A \cup B)
       /\ count' = CountAfterExec(p, A, B)
       /\ lost' = lost \cup (A \cup B)
  /\ mem' = MemAfter(Dropped(p))
  /\ map' = [map EXCEPT ![p] = [u \in Page |-> IF u \notin Prog THEN map[p][u] ELSE NoFrame]]
  /\ writable' = [writable EXCEPT ![p] = @ \ Prog]
  /\ UNCHANGED <<slot, pgdir, table, halted, wild>>

(* No file of that name, and the header is read through a pointer nobody   *)
(* has set; or no frame for a block or for the image, which is used all    *)
(* the same.                                                               *)
ExecPanic(p) == Ready(p) /\ Halt

------------------------------------------------------------------------------

(* destroy_vm and free_proc: the pages of [UTEXT, USTACKTOP), the tables   *)
(* of that region and the page directory are released, and nothing else.   *)
(* The program in the first slot never exits.                              *)
ReleasedByExit(p) == FramesOf(p, Prog) \cup (({table[p]["prog"]} \cup {pgdir[p]}) \ {NoFrame})

(* What a process had beyond that range is released by nobody. *)
LeftBehind(p) == FramesOf(p, Outside) \cup ({table[p]["outside"]} \ {NoFrame})

Exit(p) ==
  LET D == ReleasedByExit(p) IN
  /\ Ready(p) /\ p # First
  /\ free' = free \cup Freed(D)
  /\ count' = CountAfter(D)
  /\ mem' = MemAfter(D)
  /\ slot' = [slot EXCEPT ![p] = "free"]
  /\ pgdir' = [pgdir EXCEPT ![p] = NoFrame]
  /\ table' = [table EXCEPT ![p] = [r \in Region |-> NoFrame]]
  /\ map' = [map EXCEPT ![p] = [v \in Page |-> NoFrame]]
  /\ writable' = [writable EXCEPT ![p] = {}]
  /\ lost' = lost \cup LeftBehind(p)
  /\ UNCHANGED <<halted, wild>>

Next ==
  \/ \E p \in Proc, v \in Page, x \in Value : UserStore(p, v, x) \/ KernelStore(p, v, x)
  \/ \E p \in Proc, v \in Page : NotPresentFault(p, v) \/ CowFault(p, v)
  \/ \E p \in Proc : Fork(p) \/ FileCall(p) \/ KernelOverwritten(p)
  \/ \E p \in Proc, v \in VPage, x \in Value : ExecOK(p, v, x)
  \/ \E p \in Proc : ExecRejected(p) \/ ExecPanic(p) \/ Exit(p)

Spec == Init /\ [][Next]_vars

------------------------------------------------------------------------------
(* Properties *)

(* The shape of the state; a live process has a page directory and tables, *)
(* and the kernel half has no directory of its own.                        *)
TypeOK ==
  /\ free \subseteq Frame
  /\ count \in [Frame -> Nat]
  /\ mem \in [Frame -> Value]
  /\ slot \in [Proc -> {"free", "live", "lost"}]
  /\ pgdir \in [Owner -> Frame \cup {NoFrame}] /\ pgdir[Kernel] = NoFrame
  /\ table \in [Owner -> [Region -> Frame \cup {NoFrame}]]
  /\ map \in [Owner -> [Page -> Frame \cup {NoFrame}]]
  /\ writable \in [Owner -> SUBSET Page]
  /\ halted \in BOOLEAN /\ wild \in BOOLEAN
  /\ lost \subseteq Frame
  /\ \A p \in Live : pgdir[p] # NoFrame /\ table[p]["prog"] # NoFrame

(* Every way page tables lead to frame f. *)
References(f) ==
  Cardinality({qv \in Owner \X Page : map[qv[1]][qv[2]] = f})
  + Cardinality({qr \in Owner \X Region : table[qr[1]][qr[2]] = f})
  + Cardinality({q \in Owner : pgdir[q] = f})

(* Until a store hits the kernel's own memory: no frame in use is on the   *)
(* free list, and none returns there while a process can still reach it:   *)
(* fork's count++ against the count-- of copy-on-write, exec and exit.     *)
NoDangling ==
  ~wild => \A f \in Frame :
    /\ f \in free <=> count[f] = 0
    /\ References(f) <= count[f]

(* Until then counts are exact, so a frame is free as soon as nobody       *)
(* refers to it.  The exceptions, with the one reference nobody gives      *)
(* back, are the frames mapped beyond [UTEXT, USTACKTOP) by processes that *)
(* exited, and those that bread took (fs.c 60-67).  Frames of the kernel   *)
(* half stay in its tables for good, so there they are referred to.        *)
NoLeak ==
  ~wild => \A f \in Frame : count[f] = References(f) + (IF f \in lost THEN 1 ELSE 0)

(* A frame two mappings lead to can be written through neither, unless the *)
(* kernel's own memory is hit.  (A page of the kernel half, which all      *)
(* processes share and may write, is one mapping: their one table's.)      *)
SharedReadOnly ==
  ~wild => \A p, q \in Owner : \A v \in MappedIn(p, Page), w \in MappedIn(q, Page) :
    map[p][v] = map[q][w] /\ <<p, v>> # <<q, w>> => v \notin writable[p]

(* A frame of a page directory or of page tables is used for nothing else, *)
(* and nobody has a frame at two pages, unless the kernel's own memory is  *)
(* hit.                                                                    *)
TablesPrivate ==
  ~wild =>
    /\ \A q \in Live \cup {Kernel}, f \in Frame :
         f \in {pgdir[q]} \cup {table[q][r] : r \in Region} => References(f) = 1
    /\ \A q \in Owner : \A v, w \in MappedIn(q, Page) : map[q][v] = map[q][w] => v = w

(* What is read in the pages of a process, and in those of the kernel half *)
(* by all; one never touched reads as zero.                                *)
View == [q \in Owner |-> [v \in Page |-> IF Mapped(q, v) THEN mem[map[q][v]] ELSE Zero]]

(* Page faults are invisible: neither a zeroed page that appears nor a     *)
(* copy-on-write changes what any process reads (trap.c 185-208).          *)
FaultsInvisible ==
  [][(\E p \in Proc, v \in Page : NotPresentFault(p, v) \/ CowFault(p, v)) => View' = View]_vars

(* Processes that store from user mode only have memory of their own, and  *)
(* one that they share in the kernel half: a store to their own is seen by *)
(* nobody else, fork copies, exec and exit touch only their caller's pages *)
(* (proc.c 464-488, trap.c 197-208, exec.c 35-82).  Nothing is promised    *)
(* once a program has stored to a kernel address mapped at boot.           *)
Private == INSTANCE PrivateMemory WITH
  ProgPage <- Prog, alive <- Live, view <- View, broken <- wild
PrivateSpec == Private!Spec
=============================================================================

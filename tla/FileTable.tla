------------------------------ MODULE FileTable ------------------------------
(***************************************************************************)
(* The table of open files (kernel/file.c) and the descriptors of the      *)
(* processes: open, opencons, read, write and lseek as far as they use the *)
(* table, and what fork and exit (proc.c) do to it.  The blocks of a file  *)
(* are the subject of FileBlocks, characters that of KeyBuffer and Screen. *)
(*                                                                         *)
(* close is in file.c, but do_syscall has no case for its number: a call   *)
(* answers 0 and changes nothing.  exec leaves descriptors alone.          *)
(***************************************************************************)
EXTENDS Integers, FiniteSets, FiniteSetsExt, Functions

CONSTANTS
  Proc,       \* process slots
  First,      \* the slot of the first process
  NFile,      \* entries of filetable: MAXFILE
  NFd,        \* descriptors of a process: MAXOPENFILE
  Inode,      \* the inodes of files that exist
  Null,       \* NULL, and the inode of a console
  Blk,        \* BLKSIZE
  MaxOffset,  \* bound: offsets of lseek, and those from which reads start
  MaxCount,   \* bound: words of a read or write
  MaxRef      \* bound: fork is not called once an entry has this many references

ASSUME FileTableAssumption ==
  /\ First \in Proc
  /\ NFile \in Nat \ {0} /\ NFd \in Nat \ {0} /\ Blk \in Nat \ {0}
  /\ MaxOffset \in Nat /\ MaxCount \in Nat /\ MaxRef \in Nat
  /\ Null \notin Inode \cup 0 .. NFile - 1

File == 0 .. NFile - 1
Fd == 0 .. NFd - 1
Type == {"FDEUNKNOWN", "FDCONS", "FDFILE"}

VARIABLES
  filetable,  \* filetable[e]: [refcount, offset, inode, type]
  fdtable,    \* fdtable[p][i]: the entry descriptor i of p points to
  live,       \* the processes that exist
  halted,     \* the kernel followed a NULL pointer, or one it made up
  lost        \* history: references of descriptors that were overwritten

vars == <<filetable, fdtable, live, halted, lost>>

------------------------------------------------------------------------------

Blank == [refcount |-> 0, offset |-> 0, inode |-> Null, type |-> "FDEUNKNOWN"]

Init ==
  /\ filetable = [e \in File |-> Blank]
  /\ fdtable = [p \in Proc |-> [i \in Fd |-> Null]]
  /\ live = {First}
  /\ halted = FALSE
  /\ lost = [e \in File |-> 0]

Ready(p) == ~halted /\ p \in live

(* Slip of the search: an entry with one reference passes for unused. *)
SlipOffByOne == {e \in File : filetable[e].refcount <= 1}

(* Entries allocfile may give out: it takes the first of them. *)
Unused == {e \in File : filetable[e].refcount = 0}

(* `fd = allocfd() < 0' is the comparison, not the descriptor: 0, or 1,    *)
(* which is returned at once.                                              *)
Allocfd(p) ==
  LET I == {i \in Fd : fdtable[p][i] = Null} IN IF I = {} THEN -1 ELSE Min(I)
FdOf(p) == IF Allocfd(p) < 0 THEN 1 ELSE 0

(* What descriptor i of p points to is forgotten: its reference stays. *)
LostBy(p, i) ==
  IF fdtable[p][i] = Null THEN lost ELSE [lost EXCEPT ![fdtable[p][i]] = @ + 1]

(* sys_open of a file that exists, and sys_opencons: the first unused      *)
(* entry, cleared, with one reference.  Without one: -1.                   *)
Install(p, inode, type) ==
  LET e == Min(Unused)
      i == FdOf(p) IN
  /\ Ready(p) /\ i = 0 /\ Unused # {}
  /\ filetable' = [filetable EXCEPT ![e] =
                     [refcount |-> 1, offset |-> 0, inode |-> inode, type |-> type]]
  /\ fdtable' = [fdtable EXCEPT ![p][i] = e]
  /\ lost' = LostBy(p, i)
  /\ UNCHANGED <<live, halted>>

OpenCons(p) == Install(p, Null, "FDCONS")
OpenFile(p, n) == Install(p, n, "FDFILE")

(* No such name: the entry was cleared, and is not taken. *)
OpenMissing(p) ==
  /\ Ready(p) /\ FdOf(p) = 0 /\ Unused # {}
  /\ filetable' = [filetable EXCEPT ![Min(Unused)] = Blank]
  /\ UNCHANGED <<fdtable, live, halted, lost>>

Halt ==
  /\ halted' = TRUE
  /\ UNCHANGED <<filetable, fdtable, live, lost>>

(* What the rounds of file_read and file_write have moved after each: a    *)
(* round goes to the end of the block, but no further than the count of    *)
(* the whole call.                                                         *)
LeastOf(a, b) == IF a > b THEN b ELSE a
Moved(offset, count) ==
  LET after[k \in 0 .. count] ==
        IF k = 0 THEN 0
        ELSE LET n == after[k - 1] IN
             IF n >= count THEN n ELSE n + LeastOf(Blk - ((offset + n) % Blk), count)
  IN  Range(after)

(* sys_read, sys_write and sys_lseek take their number as an index and     *)
(* compare it with nothing (file.c 217, 235, 273).  procs is an array of   *)
(* slots one size apart, so a number that is negative or beyond the table  *)
(* may be that of descriptor j of another slot q, one that a process left  *)
(* behind in a slot that is free included: such a number is <<q, j>>.      *)
Number == Proc \X Fd
EntryAt(h) == fdtable[h[1]][h[2]]

(* Any other number leads to a word that is no descriptor at all, and is   *)
(* taken for the address of a struct file: what follows is not modelled.   *)
Wild(p) == Ready(p) /\ Halt

(* sys_read and sys_write: the offset of the entry moves by what the       *)
(* rounds moved, all of them or, where a block is missing, fewer.  The     *)
(* console has no position; an entry that was cleared behind a descriptor  *)
(* left over from an exited process answers -1.                            *)
ReadWrite(p, h, n) ==
  LET e == EntryAt(h) IN
  /\ Ready(p)
  /\ \/ e = Null /\ Halt
     \/ /\ e # Null
        /\ \/ filetable[e].type # "FDFILE" /\ UNCHANGED filetable
           \/ /\ filetable[e].type = "FDFILE" /\ filetable[e].offset <= MaxOffset
              /\ \E m \in Moved(filetable[e].offset, n) :
                   filetable' = [filetable EXCEPT ![e].offset = @ + m]
        /\ UNCHANGED <<fdtable, live, halted, lost>>

(* sys_lseek: -1 for an unused descriptor, any offset for a file; without  *)
(* an inode, as a console or a cleared entry, there is no size to print.   *)
Lseek(p, h, offset) ==
  LET e == EntryAt(h) IN
  /\ Ready(p) /\ e # Null
  /\ \/ filetable[e].inode = Null /\ Halt
     \/ /\ filetable[e].inode # Null
        /\ filetable' = [filetable EXCEPT ![e].offset = offset]
        /\ UNCHANGED <<fdtable, live, halted, lost>>

(* How many descriptors of p point to entry e. *)
Uses(p, e) == Cardinality({i \in Fd : fdtable[p][i] = e})

(* Slip: the child's descriptors are copied without refcount++. *)
SlipUncounted(p) == filetable

AfterFork(p) == [e \in File |-> [filetable[e] EXCEPT !.refcount = @ + Uses(p, e)]]

(* sys_fork: the slot of the child was cleared, and gets the parent's      *)
(* descriptors.                                                            *)
Fork(p, c) ==
  /\ Ready(p) /\ c \notin live
  /\ \A e \in File : filetable[e].refcount < MaxRef
  /\ filetable' = AfterFork(p)
  /\ fdtable' = [fdtable EXCEPT ![c] = fdtable[p]]
  /\ live' = live \cup {c}
  /\ UNCHANGED <<halted, lost>>

(* Slip: an entry whose last user goes keeps a reference. *)
SlipKeepLast(p) ==
  [e \in File |-> [filetable[e] EXCEPT !.refcount = IF @ = 1 THEN 1 ELSE @ - Uses(p, e)]]

AfterExit(p) == [e \in File |-> [filetable[e] EXCEPT !.refcount = @ - Uses(p, e)]]

(* destroy_proc: one reference back for each descriptor; those of entries  *)
(* still in use stay in the slot until alloc_proc clears it.               *)
Exit(p) ==
  /\ Ready(p) /\ p # First
  /\ filetable' = AfterExit(p)
  /\ fdtable' = [fdtable EXCEPT ![p] = [i \in Fd |->
                   IF @[i] # Null /\ AfterExit(p)[@[i]].refcount = 0 THEN Null ELSE @[i]]]
  /\ live' = live \ {p}
  /\ UNCHANGED <<halted, lost>>

Next ==
  \E p \in Proc :
    \/ OpenCons(p) \/ OpenMissing(p) \/ Wild(p) \/ Exit(p)
    \/ \E n \in Inode : OpenFile(p, n)
    \/ \E h \in Number, n \in 1 .. MaxCount : ReadWrite(p, h, n)
    \/ \E h \in Number, offset \in 0 .. MaxOffset : Lseek(p, h, offset)
    \/ \E c \in Proc : Fork(p, c)

Spec == Init /\ [][Next]_vars

------------------------------------------------------------------------------
(* Properties *)

(* The shape of the state; every descriptor of a process that exists       *)
(* points to an entry that is in use, of a known type.                     *)
TypeOK ==
  /\ filetable \in [File -> [refcount : Nat, offset : Nat,
                             inode : Inode \cup {Null}, type : Type]]
  /\ fdtable \in [Proc -> [Fd -> File \cup {Null}]]
  /\ live \subseteq Proc /\ halted \in BOOLEAN
  /\ lost \in [File -> Nat]
  /\ \A p \in live, i \in Fd : fdtable[p][i] # Null =>
       filetable[fdtable[p][i]].refcount > 0 /\ filetable[fdtable[p][i]].type # "FDEUNKNOWN"

(* The count of an entry is the number of descriptors of processes that    *)
(* exist that point to it (fork's refcount++ in proc.c 494 against exit's  *)
(* refcount-- in 378), and of those that did when an open overwrote them   *)
(* (file.c 149, 206): these are never given back.                          *)
RefcountsExact ==
  \A e \in File :
    filetable[e].refcount
      = Cardinality({pi \in live \X Fd : fdtable[pi[1]][pi[2]] = e}) + lost[e]

(* A position is shared by the descriptors that fork made of one another   *)
(* and by no other: entries are not given out again while a descriptor     *)
(* points to them (file.c 28), whatever the order of opens, forks and      *)
(* exits.  Whose call moves a position is left open, since numbers are not *)
(* checked; a call never moves two positions, or that of half the sharers. *)
Pointed(h) == IF h[1] \in live THEN {fdtable[h[1]][h[2]]} \ {Null} ELSE {}
Files == INSTANCE OpenFiles WITH
  What <- Inode \cup {Null},
  alive <- live,
  names <- [h \in Proc \X Fd |-> {filetable[e].inode : e \in Pointed(h)}],
  pos <- [h \in Proc \X Fd |-> IF Pointed(h) = {} THEN 0 ELSE filetable[fdtable[h[1]][h[2]]].offset],
  share <- [h \in Proc \X Fd |-> {g \in Proc \X Fd : Pointed(g) \cap Pointed(h) # {}}]
FilesSpec == Files!Spec
=============================================================================

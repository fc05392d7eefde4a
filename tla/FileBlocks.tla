------------------------------ MODULE FileBlocks ------------------------------
(***************************************************************************)
(* Files on the disk that DiskImage describes: the inode table and the     *)
(* block bitmap, which the kernel reads at boot (fs.c 87-110) and changes  *)
(* in memory only; the blocks of the disk; and file_read, file_write of    *)
(* kernel/file.c with walk_path, walk_block, get_blk and bread of          *)
(* kernel/fs.c.                                                            *)
(*                                                                         *)
(* What a word of a block means depends on who reads it.  bread reads the  *)
(* disk each time, into a page of its own, so a pointer into an indirect   *)
(* block points into a copy that nobody writes back.  The kernel creates   *)
(* no files: there are the root directory and the file of the image.       *)
(*                                                                         *)
(* The IDE driver polls with interrupts off: a call is one step.  A crash  *)
(* within a call loses what one after a shorter call would lose.           *)
(***************************************************************************)
EXTENDS DiskImage

CONSTANTS
  Disks,     \* [blocks, content]: a disk, and the file put into its image
  Value,     \* words that are written
  Buffers(_), \* Buffers(n): what n words of a program's memory may hold
  MaxWord,   \* bound on positions in a file
  MaxCount   \* bound on the count of a call

ASSUME BlocksAssumption ==
  /\ Value \subseteq Block \cup {0}
  /\ \A d \in Disks : /\ d.blocks \subseteq Block /\ d.blocks # {}
                      /\ d.content \in Seq(Value) /\ Len(d.content) <= Blk * (Direct + Blk)
  /\ \A n \in 1 .. MaxCount + Blk : Buffers(n) \subseteq [1 .. n -> Value]
  /\ MaxWord \in Nat /\ MaxCount \in Nat /\ MaxWord <= Blk * (Direct + Blk)

VARIABLES
  image,     \* the disk image of this behaviour,
  content,   \* and what its file was to hold
  inode,     \* inode[f][k]: the inode table in memory
  bitmap,    \* the free blocks, in memory
  disk,      \* disk[b][i]: what is on the disk
  probe,     \* a file and a position in it whose history is kept:
  written,   \* the last word a call was asked to write there, or -1
  spilled,   \* whether a call has since written there and was not asked to
  lost,      \* history: blocks whose number went into a copy
  opened,    \* a program has the file open
  halted     \* the kernel has used a NULL or uninitialised pointer

vars == <<image, content, inode, bitmap, disk, probe, written, spilled, lost, opened, halted>>

Blocks == DOMAIN image.disk
File == {Root, TheFile}
Position == 0..MaxWord-1
(* The positions of the file, and that of its name in the directory. *)
Place == ({TheFile} \X Position) \cup {<<Root, 0>>}

(* The blocks of a file that were made with the image. *)
InImage(gu) == (gu[2] \div Blk) * Blk < image.size[gu[1]]

(* What is expected at a position at first: the name, and what mkxxx was   *)
(* given, as far as it fits.                                               *)
Given(gu) ==
  IF gu[1] = Root THEN TheFile
  ELSE IF gu[2] < image.size[gu[1]] THEN content[gu[2] + 1] ELSE -1

(* read_superblock, on an image made before. *)
Init ==
  /\ \E d \in Disks : image = MakeImage(d.blocks, d.content) /\ content = d.content
  /\ inode = image.inode
  /\ bitmap = image.bitmap
  /\ disk = image.disk
  /\ probe \in Place
  /\ written = Given(probe)
  /\ spilled = FALSE
  /\ lost = {}
  /\ opened = FALSE
  /\ halted = FALSE

------------------------------------------------------------------------------
(* A call in progress is a record: its copies of inode, bitmap and disk,   *)
(* the position pos it has reached, whether it failed or went wild, and    *)
(* at, where diskno points: a slot of the inode, or a word copied from an  *)
(* indirect block; "wild" before it is set, "null" if walk_block said so.  *)

Begin(off) == [inode |-> inode, bitmap |-> bitmap, disk |-> disk, pos |-> off,
               at |-> [kind |-> "wild", n |-> 0], failed |-> FALSE, wild |-> FALSE,
               data |-> <<>>, astray |-> {}, lost |-> lost]

(* *diskno *)
Pointed(s, f) == IF s.at.kind = "slot" THEN s.inode[f][s.at.n] ELSE s.at.n

InSlot(s, k) == [s EXCEPT !.at = [kind |-> "slot", n |-> k]]
InCopy(s, b, i) == [s EXCEPT !.at = [kind |-> "copy", n |-> s.disk[b][i]]]

(* Slips of get_blk: the bit is not cleared; its -1 is stored. *)
SlipKeepBit(s, f) ==
  IF s.bitmap = {} THEN s
  ELSE IF s.at.kind = "slot" THEN [s EXCEPT !.inode[f][s.at.n] = Min(s.bitmap)]
  ELSE [s EXCEPT !.at.n = Min(s.bitmap)]
SlipUnchecked(s, f) ==
  IF s.bitmap = {} THEN [s EXCEPT !.inode[f][0] = -1]
  ELSE [s EXCEPT !.bitmap = @ \ {Min(s.bitmap)},
                 !.inode[f][IF s.at.kind = "slot" THEN s.at.n ELSE 0] = Min(s.bitmap)]
SlipNotAttached(s, f) ==
  IF s.bitmap = {} THEN s
  ELSE [s EXCEPT !.bitmap = @ \ {Min(s.bitmap)}, !.at = [kind |-> "copy", n |-> Min(s.bitmap)]]

(* *diskno = get_blk(), if there is a free block. *)
Attach(s, f) ==
  IF s.bitmap = {} THEN s
  ELSE LET b == Min(s.bitmap)
           t == [s EXCEPT !.bitmap = @ \ {b}]
       IN IF s.at.kind = "slot" THEN [t EXCEPT !.inode[f][s.at.n] = b]
          ELSE [t EXCEPT !.at.n = b, !.lost = @ \cup {b}]

(* walk_block with alloc set.  Without a block for the indirect block      *)
(* diskno keeps its old value, and the caller does not look at the answer. *)
WalkAlloc(s, f, fileno) ==
  IF fileno < Direct THEN InSlot(s, fileno)
  ELSE LET t == IF s.inode[f][Direct] # 0 \/ s.bitmap = {} THEN s
                ELSE [s EXCEPT !.inode[f][Direct] = Min(s.bitmap), !.bitmap = @ \ {Min(s.bitmap)}]
       IN IF t.inode[f][Direct] = 0 THEN t ELSE InCopy(t, t.inode[f][Direct], fileno - Direct)

(* walk_block with alloc clear. *)
WalkLook(s, f, fileno) ==
  IF fileno < Direct THEN InSlot(s, fileno)
  ELSE IF s.inode[f][Direct] = 0 THEN [s EXCEPT !.at.kind = "null"]
  ELSE InCopy(s, s.inode[f][Direct], fileno - Direct)

(* What one round moves: up to the end of the block, at most the count of  *)
(* the whole call, whatever was moved before.                              *)
Chunk(pos, count) == Min({Blk - (pos % Blk), count})

(* The block a position really has: that of its slot, or the one the       *)
(* image's indirect block names.                                           *)
Proper(s, gu) ==
  IF gu[2] \div Blk < Direct THEN s.inode[gu[1]][gu[2] \div Blk]
  ELSE IF image.inode[gu[1]][Direct] = 0 THEN 0
  ELSE NumberAt(image, gu[1], gu[2] \div Blk)

(* The positions that a round overwrites in block b though it is not the   *)
(* block of the position it writes to: walk_block failed and left diskno   *)
(* where it was, or an indirect block of the kernel's, which nobody clears *)
(* or updates, still holds old data.                                       *)
Astray(s, f, b, n) ==
  IF b = 0 \/ Proper(s, <<f, s.pos>>) = b THEN {}
  ELSE {gu \in Place : /\ Proper(s, gu) = b
                       /\ gu[2] % Blk \in s.pos % Blk .. (s.pos % Blk) + n - 1}

(* Slip (the line commented out in file_write): the rest of the block is   *)
(* copied whatever the count.                                              *)
SlipStoreRest(s, b, off, count, memory) ==
  [s EXCEPT !.disk[b] = [i \in 0..Blk-1 |-> IF i < s.pos % Blk THEN s.disk[b][i]
                                            ELSE memory[Min({s.pos - off + i - (s.pos % Blk) + 1, Len(memory)})]],
            !.pos = @ + Chunk(s.pos, count)]

(* Block b gets the words of the round and goes back to the disk. *)
Store(s, b, off, count, memory) ==
  LET cur == s.pos % Blk
      n == Chunk(s.pos, count) IN
  [s EXCEPT !.disk[b] = [i \in 0..Blk-1 |-> IF i \in cur..cur+n-1 THEN memory[s.pos - off + i - cur + 1]
                                            ELSE s.disk[b][i]],
            !.pos = @ + n]

WriteRound(s, f, off, count, memory) ==
  LET w == WalkAlloc(s, f, s.pos \div Blk)
      a == IF Pointed(w, f) = 0 THEN Attach(w, f) ELSE w IN
  IF s.failed \/ s.wild \/ s.pos >= off + count THEN s
  ELSE IF w.at.kind = "wild" THEN [w EXCEPT !.wild = TRUE]
  ELSE IF Pointed(a, f) = 0 THEN [a EXCEPT !.failed = TRUE]
  ELSE Store([a EXCEPT !.astray = @ \cup Astray(w, f, Pointed(w, f), Chunk(a.pos, count))],
             Pointed(a, f), off, count, memory)

ReadRound(s, f, off, count) ==
  LET w == WalkLook(s, f, s.pos \div Blk)
      cur == s.pos % Blk
      n == Chunk(s.pos, count) IN
  IF s.failed \/ s.wild \/ s.pos >= off + count THEN s
  ELSE IF w.at.kind = "null" THEN [w EXCEPT !.wild = TRUE]
  ELSE IF Pointed(w, f) = 0 THEN [w EXCEPT !.failed = TRUE]
  ELSE [w EXCEPT !.data = @ \o [i \in 1..n |-> w.disk[Pointed(w, f)][cur + i - 1]], !.pos = @ + n]

(* The loops: at most count rounds. *)
WriteCall(f, off, count, memory) ==
  LET s[k \in 0..count] == IF k = 0 THEN Begin(off) ELSE WriteRound(s[k-1], f, off, count, memory)
  IN s[count]
ReadCall(f, off, count) ==
  LET s[k \in 0..count] == IF k = 0 THEN Begin(off) ELSE ReadRound(s[k-1], f, off, count)
  IN s[count]

------------------------------------------------------------------------------

(* file_write at position off; memory is what the caller's buffer holds,   *)
(* and what lies behind it.                                                *)
Write(f, off, count, memory) ==
  LET s == WriteCall(f, off, count, memory)
      asked == {f} \X (off .. Min({off + count, s.pos}) - 1)
      spill == {f} \X (off + count .. s.pos - 1) IN
  /\ ~halted /\ opened
  /\ inode' = s.inode /\ bitmap' = s.bitmap /\ disk' = s.disk /\ lost' = s.lost
  /\ written' = IF probe \in asked THEN memory[probe[2] - off + 1] ELSE written
  /\ spilled' = \/ probe \in spill \cup s.astray
                \/ spilled /\ probe \notin asked
  /\ halted' = s.wild
  /\ UNCHANGED <<image, content, probe, opened>>

(* file_read: it changes nothing on the disk, but may follow NULL. *)
Read(f, off, count) ==
  /\ ~halted /\ opened
  /\ halted' = ReadCall(f, off, count).wild
  /\ UNCHANGED <<image, content, inode, bitmap, disk, probe, written, spilled, lost, opened>>

(* walk_path: the blocks of the root directory, entry by entry; j is not   *)
(* reset from one block to the next, but there is only one.                *)
LookUp(name) ==
  \E i \in 0 .. (image.size[Root] \div Blk) - 1, j \in 0 .. Blk - 1 :
    inode[Root][i] # 0 /\ disk[inode[Root][i]][j] = name

(* file_open: an open file stays usable whatever becomes of its name. *)
Open ==
  /\ ~halted /\ ~opened /\ LookUp(TheFile)
  /\ opened' = TRUE
  /\ UNCHANGED <<image, content, inode, bitmap, disk, probe, written, spilled, lost, halted>>

(* The machine stops and starts again; only the disk has kept anything.    *)
(* What lay in blocks the image did not know is not expected back.         *)
Reboot ==
  /\ inode' = image.inode
  /\ bitmap' = image.bitmap
  /\ written' = IF InImage(probe) THEN written ELSE -1
  /\ lost' = {} /\ opened' = FALSE
  /\ halted' = FALSE
  /\ UNCHANGED <<image, content, disk, probe, spilled>>

Next ==
  \/ \E off \in Position, count \in 1..MaxCount :
       /\ off + count <= MaxWord
       /\ \/ Read(TheFile, off, count)
          \/ \E memory \in Buffers(count + Blk - 1) : Write(TheFile, off, count, memory)
  \/ Open
  \/ Reboot

Spec == Init /\ [][Next]_vars

------------------------------------------------------------------------------

(* The shape of the state. *)
TypeOK ==
  /\ inode \in [Ino -> [Slot -> Block \cup {0}]]
  /\ bitmap \subseteq Blocks /\ lost \subseteq Blocks
  /\ disk \in [Blocks -> [0..Blk-1 -> Block \cup {0, TheFile}]]
  /\ probe \in Place
  /\ written \in Value \cup {-1, TheFile}
  /\ spilled \in BOOLEAN /\ opened \in BOOLEAN
  /\ halted \in BOOLEAN

(* What holds a block: the slots in use and the words of the indirect      *)
(* blocks of the image.                                                    *)
Words == {fi \in Ino \X (0 .. Blk - 1) : image.inode[fi[1]][Direct] # 0}
Used == {<<"slot", fk[1], fk[2], inode[fk[1]][fk[2]]>> : fk \in Ino \X Slot}
        \cup {<<"word", fi[1], fi[2], disk[image.inode[fi[1]][Direct]][fi[2]]>> : fi \in Words}
InUse == {u \in Used : u[4] # 0}

(* No block is held twice, and none that is held is free: mkxxx, and       *)
(* walk_block and get_blk of the kernel, never give a block away twice,    *)
(* reboots or not (mkxxx.c 57-86, 157-167, 208-217; fs.c 48-58, 122-137).  *)
BlocksExclusive ==
  /\ \A x, y \in InUse : x[4] = y[4] => x = y
  /\ \A x \in InUse : x[4] \notin bitmap \cup lost

(* Every block is held or free, but for those whose number was put into a  *)
(* copy of an indirect block: a call that fails half-way loses no other    *)
(* (file.c 101-105).                                                       *)
BlocksExact == bitmap = Blocks \ (lost \cup {x[4] : x \in InUse})

(* file_read finds the word that was to be written at the probe, or        *)
(* walk_path the name of the file.                                         *)
Found ==
  IF probe[1] = Root THEN LookUp(TheFile)
  ELSE written # -1 => ReadCall(probe[1], probe[2], 1).data = <<written>>

(* The number of the block of a position is kept in the inode, or was      *)
(* written with the image.                                                 *)
Kept == probe[2] \div Blk < Direct \/ InImage(probe)

(* The file is found under its name; what mkxxx put into it, and what      *)
(* file_write was asked to write to direct blocks or blocks of the image,  *)
(* file_read gives back, until it is overwritten, a later call runs over   *)
(* its count, or a wrong block number is used: rounds, blocks and          *)
(* positions agree in mkxxx.c 191-226, file.c 59-80 and file.c 92-125.     *)
ReadBack == ~halted /\ ~spilled /\ Kept => Found
=============================================================================

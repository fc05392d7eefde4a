------------------------------ MODULE DiskImage ------------------------------
(***************************************************************************)
(* The disk image as scripts/mkxxx.c builds it: a bitmap of blocks, one of *)
(* inodes, the inode table, a root directory, and the one file it is       *)
(* given.  The image is mapped into memory, so everything reaches it, the  *)
(* words of an indirect block too.                                         *)
(*                                                                         *)
(* A block is Blk words: data, numbers of blocks, or directory entries.  A *)
(* directory entry is one word, the inode; an empty name is 0.  Blocks for *)
(* the super block, the bitmaps and the inode table are left out.          *)
(***************************************************************************)
EXTENDS Integers, Sequences, SequencesExt

CONSTANTS
  NIno,      \* inodes of the table
  Direct,    \* direct blocks of an inode (10); slot Direct is indirect
  Blk,       \* words of a block
  Block      \* blocks behind the inode table, of the largest disk

ASSUME DiskImageAssumption ==
  /\ NIno \in Nat \ {0, 1} /\ Direct \in Nat \ {0} /\ Blk \in Nat \ {0}
  /\ Block \subseteq Nat \ {0}

Ino == 0 .. NIno - 1
Root == 0
Slot == 0 .. Direct

(* main, up to the root inode: the blocks B of the disk, zeroed and free;  *)
(* no inode in use but the root's, a directory of no blocks.               *)
NewImage(B) ==
  [inode |-> [f \in Ino |-> [k \in Slot |-> 0]], size |-> [f \in Ino |-> 0],
   bitmap |-> B, inodes |-> Ino \ {Root},
   disk |-> [b \in B |-> [i \in 0 .. Blk - 1 |-> 0]], failed |-> FALSE]

(* get_free_no and set_bitmap: the first free block. *)
TakeBlock(img) ==
  IF img.bitmap = {} THEN [img EXCEPT !.failed = TRUE]
  ELSE [img EXCEPT !.bitmap = @ \ {Min(img.bitmap)}]

(* walk_block with alloc set, as far as it changes the image: the indirect *)
(* block.                                                                  *)
Walked(img, f, fileno) ==
  IF fileno < Direct \/ img.inode[f][Direct] # 0 \/ img.bitmap = {} THEN img
  ELSE [TakeBlock(img) EXCEPT !.inode[f][Direct] = Min(img.bitmap)]

(* *diskno, for a block number that the inode or its indirect block holds. *)
NumberAt(img, f, fileno) ==
  IF fileno < Direct THEN img.inode[f][fileno]
  ELSE IF img.inode[f][Direct] = 0 THEN 0
  ELSE img.disk[img.inode[f][Direct]][fileno - Direct]

(* *diskno = b *)
SetNumber(img, f, fileno, b) ==
  IF fileno < Direct THEN [img EXCEPT !.inode[f][fileno] = b]
  ELSE [img EXCEPT !.disk[img.inode[f][Direct]][fileno - Direct] = b]

(* A block for fileno, if it has none: walk_block, get_free_no, set_bitmap *)
(* and the store through diskno.                                           *)
WithBlock(img, f, fileno) ==
  LET w == Walked(img, f, fileno) IN
  IF NumberAt(w, f, fileno) # 0 THEN w
  ELSE IF w.bitmap = {} THEN [w EXCEPT !.failed = TRUE]
  ELSE SetNumber(TakeBlock(w), f, fileno, Min(w.bitmap))

(* alloc_file on a directory without blocks: one, for the first entry. *)
AllocFile(img) ==
  LET t == WithBlock(img, Root, 0) IN
  IF t.failed THEN t ELSE [t EXCEPT !.size[Root] = @ + Blk]

(* The round of write_file for one read of at most Blk words: read fills   *)
(* every buffer but the last, so each starts at the start of a block.      *)
WriteChunk(img, f, words) ==
  LET fileno == img.size[f] \div Blk
      t == WithBlock(img, f, fileno) IN
  IF img.failed \/ t.failed THEN t
  ELSE LET b == NumberAt(t, f, fileno) IN
       [t EXCEPT !.disk[b] = [i \in 0 .. Blk - 1 |-> IF i < Len(words) THEN words[i + 1] ELSE @[i]],
                 !.size[f] = @ + Len(words)]

Chunks(content) ==
  [k \in 1 .. (Len(content) + Blk - 1) \div Blk |->
     SubSeq(content, (k - 1) * Blk + 1, IF k * Blk < Len(content) THEN k * Blk ELSE Len(content))]

(* write_file *)
WriteFile(img, f, content) ==
  LET n == Len(Chunks(content))
      s[k \in 0 .. n] == IF k = 0 THEN img ELSE WriteChunk(s[k - 1], f, Chunks(content)[k])
  IN s[n]

(* create_file_image: the entry, the inode, and what of the content fits:  *)
(* nobody looks at the answer of write_file.  The name is the inode's.     *)
MakeImage(B, content) ==
  LET a == AllocFile(NewImage(B))
      f == Min(a.inodes) IN
  IF a.failed THEN a
  ELSE WriteFile([a EXCEPT !.inodes = @ \ {f}, !.disk[NumberAt(a, Root, 0)][0] = f], f, content)

(* The file of the image: the first inode behind the root's. *)
TheFile == Root + 1
=============================================================================

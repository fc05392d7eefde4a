----------------------------- MODULE MCFileBlocks -----------------------------
(***************************************************************************)
(* Small disks for TLC: the file is empty, ends within its direct block,   *)
(* or reaches beyond it.                                                   *)
(***************************************************************************)
EXTENDS FileBlocks

Blocks4 == 1 .. 4
Disk(n, words) == [blocks |-> 1 .. n, content |-> words]
Disks3 == {Disk(3, <<>>), Disk(4, <<2>>), Disk(4, <<2, 1, 2>>)}

(* The same word throughout, or two in turn. *)
Patterns(n) ==
  {[i \in 1 .. n |-> IF i % 2 = 1 THEN x ELSE y] : x, y \in Value}
=============================================================================

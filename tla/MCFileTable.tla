----------------------------- MODULE MCFileTable -----------------------------
(* Processes other than the first are interchangeable. *)
EXTENDS FileTable, TLC

Alike == Permutations(Proc \ {First})
=============================================================================

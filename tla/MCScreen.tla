------------------------------ MODULE MCScreen ------------------------------
(* Numbers at the ends of their range, of one digit and of two. *)
EXTENDS Screen, TLC

Alike == Permutations(Proc)

MCInts == {-4, -3, 0, 3}
MCLongs == {-16, -1, 7, 8, 15}
=============================================================================

------------------------------- MODULE MCVmx -------------------------------
EXTENDS Vmx, TLC

CONSTANT rax
OneOther == <<rax>>

Symmetry == Permutations(Frame) \cup Permutations(Vector)
=============================================================================

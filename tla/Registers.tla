------------------------------- MODULE Registers -------------------------------
(***************************************************************************)
(* What a process may expect of its registers: they change by its own      *)
(* steps and by the answers to its own system calls, whatever runs in      *)
(* between.  A process may lose them (Lost) only while it has an exception *)
(* being handled.                                                          *)
(***************************************************************************)
EXTENDS Integers

CONSTANTS
  Proc,     \* processes
  First,    \* the one there is at the beginning
  Data,     \* what a process computes with
  Entry,    \* the data of a program that starts
  Result,   \* what a system call leaves in rax
  Late,     \* what it leaves there when it gave the processor away
  Dead,     \* no process, no registers
  Lost      \* registers nothing is promised about

VARIABLES
  reg,      \* reg[p]: the registers of p
  trapped   \* processes with an exception being handled

vars == <<reg, trapped>>

Regs == [data : Data, rax : Result]

Init ==
  /\ trapped = {}
  /\ \E r \in Regs : reg = [p \in Proc |-> IF p = First THEN r ELSE Dead]

Alive(p) == reg[p] # Dead
Set(p, r) == reg' = [reg EXCEPT ![p] = IF reg[p] = Lost THEN Lost ELSE r]

(* p computes. *)
Compute(p) == Alive(p) /\ \E d \in Data : Set(p, [reg[p] EXCEPT !.data = d])

(* p is answered. *)
Answer(p) == Alive(p) /\ \E x \in Result : Set(p, [reg[p] EXCEPT !.rax = x])

(* p starts another program. *)
Exec(p) == Alive(p) /\ Set(p, [data |-> Entry, rax |-> Late])

(* p forks c: both go on with the registers of p, but for rax. *)
Fork(p, c) ==
  /\ Alive(p) /\ ~Alive(c)
  /\ IF reg[p] = Lost
     THEN \E r \in Regs \cup {Lost} : reg' = [reg EXCEPT ![c] = r]
     ELSE reg' = [reg EXCEPT ![p].rax = c, ![c] = [reg[p] EXCEPT !.rax = 0]]

Exit(p) == Alive(p) /\ reg' = [reg EXCEPT ![p] = Dead]

(* A trap begins or ends; when it ends, any other process may be the one   *)
(* that runs on.                                                           *)
Next ==
  /\ \/ \E p \in Proc \ trapped :
         Compute(p) \/ Answer(p) \/ Exec(p) \/ Exit(p) \/ \E c \in Proc : Fork(p, c)
     \/ \E p \in trapped : reg' = [reg EXCEPT ![p] = Lost]
     \/ UNCHANGED reg
  /\ trapped' \in SUBSET Proc

Spec == Init /\ [][Next]_vars
=============================================================================

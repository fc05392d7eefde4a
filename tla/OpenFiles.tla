------------------------------ MODULE OpenFiles ------------------------------
(***************************************************************************)
(* What programs may expect of their descriptors: each names a file at a   *)
(* position, and those that fork made of one another share the position    *)
(* with nobody else.  No table of files, no reference counts.  Which       *)
(* descriptor an open answers with is left open, also one in use, which    *)
(* then names the new file.  So is whose position a call moves: there is   *)
(* no promise that it is one of the caller's own.                          *)
(***************************************************************************)
EXTENDS Naturals

CONSTANTS
  Proc,       \* process slots
  Fd,         \* descriptors of a process
  What        \* what can be opened

VARIABLES
  alive,      \* the processes that exist
  names,      \* names[h]: what a holder's descriptor names, {} if nothing
  pos,        \* pos[h]: the position it reads and writes at
  share       \* share[h]: the holders that share its position

vars == <<alive, names, pos, share>>

Holder == Proc \X Fd      \* a descriptor of a process
Nobody == [h \in Holder |-> {}]

(* The sharing that is left when the holders H leave, and others join. *)
Without(H) == [h \in Holder |-> IF h \in H THEN {} ELSE share[h] \ H]

------------------------------------------------------------------------------

Init ==
  /\ \E p \in Proc : alive = {p}
  /\ names = Nobody /\ share = Nobody
  /\ pos = [h \in Holder |-> 0]

(* Descriptor i of p names x, at its start, and shares it with nobody. *)
Open(p, i, x) ==
  /\ p \in alive
  /\ names' = [names EXCEPT ![<<p, i>>] = {x}]
  /\ pos' = [pos EXCEPT ![<<p, i>>] = 0]
  /\ share' = [Without({<<p, i>>}) EXCEPT ![<<p, i>>] = {<<p, i>>}]
  /\ UNCHANGED alive

(* A read, a write or a seek, by any process, moves the position of one    *)
(* descriptor and of all that share it, and no other.                      *)
Move(p, g) ==
  /\ p \in alive /\ names[g] # {}
  /\ pos'[g] \in Nat
  /\ pos' = [h \in Holder |-> IF h \in share[g] THEN pos'[g] ELSE pos[h]]
  /\ UNCHANGED <<alive, names, share>>

(* The child has every descriptor of the parent, and shares its position. *)
Fork(p, c) ==
  LET Of(h) == IF h[1] = c THEN <<p, h[2]>> ELSE h
      Twin(h) == <<c, h[2]>> IN
  /\ p \in alive /\ c \notin alive
  /\ alive' = alive \cup {c}
  /\ names' = [h \in Holder |-> names[Of(h)]]
  /\ pos' = [h \in Holder |-> pos[Of(h)]]
  /\ share' = [h \in Holder |->
                 share[Of(h)] \cup {Twin(g) : g \in {k \in share[Of(h)] : k[1] = p}}]

Exit(p) ==
  LET H == {p} \X Fd IN
  /\ p \in alive
  /\ alive' = alive \ {p}
  /\ names' = [h \in Holder |-> IF h \in H THEN {} ELSE names[h]]
  /\ pos' = [h \in Holder |-> IF h \in H THEN 0 ELSE pos[h]]
  /\ share' = Without(H)

Next ==
  \E p \in Proc :
    \/ \E i \in Fd, x \in What : Open(p, i, x)
    \/ \E g \in Holder : Move(p, g)
    \/ \E c \in Proc : Fork(p, c)
    \/ Exit(p)

Spec == Init /\ [][Next]_vars
=============================================================================

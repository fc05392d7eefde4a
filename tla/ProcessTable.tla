---------------------------- MODULE ProcessTable ----------------------------
(***************************************************************************)
(* What fork, exit and the scheduler of kernel/proc.c promise together: a  *)
(* set of live processes, one of which runs.  A fork brings one process to *)
(* life in a slot that had none; a process leaves only by its own exit;    *)
(* the processor is only ever given to a live process.                     *)
(***************************************************************************)
EXTENDS Naturals

CONSTANTS
  Slot,       \* process slots
  InitSlot    \* the slot of the first process

VARIABLES
  live,       \* the slots that hold a live process
  running     \* the one that has the processor

vars == <<live, running>>

------------------------------------------------------------------------------

Init ==
  /\ live = {InitSlot}
  /\ running = InitSlot

Switch ==
  /\ running' \in live
  /\ UNCHANGED live

Create ==
  \E s \in Slot \ live :
    /\ live' = live \cup {s}
    /\ UNCHANGED running

Leave ==
  /\ live' = live \ {running}
  /\ running' \in live'

Next == Switch \/ Create \/ Leave

Spec == Init /\ [][Next]_vars
=============================================================================

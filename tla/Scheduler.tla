------------------------------ MODULE Scheduler ------------------------------
(***************************************************************************)
(* The process slots of kernel/proc.c: the array procs with its status     *)
(* fields, the free list threaded through it (proc_head), the pointer      *)
(* current, and the operations that move them: the timer interrupt and the *)
(* system calls yield, fork, waitpid and exit.                             *)
(*                                                                         *)
(* System calls run with interrupts off (interrupt gate, trap.c 82) and    *)
(* schedule never returns to a running caller (run_proc ends in iretq), so *)
(* each handler is one step.  Memory is left to module AddressSpace: a     *)
(* fork may or may not find a frame for its page directory.                *)
(***************************************************************************)
EXTENDS Integers, Sequences, Functions

CONSTANTS
  MaxProc,    \* MAXPROC
  MaxForks,   \* bound on the calls of fork in a behaviour
  None        \* NULL, for current

ASSUME MaxProcAssumption == MaxProc \in Nat /\ MaxProc >= 2
ASSUME MaxForksAssumption == MaxForks \in Nat
ASSUME NoneAssumption == None \notin Int

VARIABLES
  status,     \* procs[s].status; RUNNING is what a slot never used holds
  freelist,   \* the slots on the free list, proc_head first
  current,    \* the running process
  leaked,     \* history: slots a failed fork took and did not give back
  forks,      \* calls of fork so far
  halted      \* the kernel has stopped in panic

vars == <<status, freelist, current, leaked, forks, halted>>

Slot == 0..MaxProc-1

(* SLEEP exists in proc.h but is assigned nowhere. *)
Status == {"RUNNING", "RUNNABLE", "STOP"}

Runnable(st, s) == s \in Slot /\ st[s] = "RUNNABLE"
Live == {s \in Slot : status[s] = "RUNNABLE"}

------------------------------------------------------------------------------

(* Plausible slips of this module, used by no specification.  In schedule: *)
(* the scan starts at the caller, or wraps round to slot 1.                *)
SlipScanSelfFirst(c) == [k \in 1..MaxProc |-> (c + k - 1) % MaxProc]
SlipScanSkipsZero(c) == [k \in 1..MaxProc |-> 1 + ((c + k - 1) % (MaxProc - 1))]

(* The slots schedule inspects, in order, when slot c gives way.  nextind  *)
(* starts at c + 1 and is reduced modulo MAXPROC only from the second      *)
(* round on: the last slot looks at the entry behind the table (never      *)
(* RUNNABLE) and then goes on with slot 1.  The last look is at c itself.  *)
Scan(c) == [k \in 1..MaxProc |-> IF k = 1 THEN c + 1 ELSE (c + k) % MaxProc]

(* Slip: everything that is not STOP counts as runnable. *)
SlipFoundNotStopped(st, c, k) ==
  /\ k \in 1..MaxProc
  /\ Scan(c)[k] \in Slot /\ st[Scan(c)[k]] # "STOP"
  /\ \A j \in 1..k-1 : Scan(c)[j] \notin Slot \/ st[Scan(c)[j]] = "STOP"

(* k is the first place of the scan from c that holds a runnable process. *)
FirstFound(st, c, k) ==
  /\ k \in 1..MaxProc
  /\ Runnable(st, Scan(c)[k])
  /\ \A j \in 1..k-1 : ~Runnable(st, Scan(c)[j])

(* The slot schedule runs next; None when it finds no runnable process. *)
NextProc(st, c) ==
  IF \E k \in 1..MaxProc : FirstFound(st, c, k)
  THEN Scan(c)[CHOOSE k \in 1..MaxProc : FirstFound(st, c, k)]
  ELSE None

------------------------------------------------------------------------------

(* Slip: init_proc threads one entry too many. *)
SlipInitOneMore ==
  /\ status = [s \in Slot |-> IF s = 0 THEN "RUNNABLE" ELSE "RUNNING"]
  /\ freelist = [i \in 1..MaxProc |-> i]
  /\ current = 0
  /\ leaked = {}
  /\ forks = 0
  /\ halted = FALSE

(* init_proc threads all slots in ascending order; create_proc takes the   *)
(* first one for init and runs it.                                         *)
Init ==
  /\ status = [s \in Slot |-> IF s = 0 THEN "RUNNABLE" ELSE "RUNNING"]
  /\ freelist = [i \in 1..MaxProc-1 |-> i]
  /\ current = 0
  /\ leaked = {}
  /\ forks = 0
  /\ halted = FALSE

(* A system call or an interrupt of a process that runs in user mode. *)
Running == ~halted /\ current \in Slot

(* schedule() called for the current process. *)
Reschedule ==
  /\ current' = NextProc(status, current)
  /\ UNCHANGED <<status, freelist, leaked, forks, halted>>

Timer == Running /\ Reschedule

Yield == Running /\ Reschedule

(* Slips of fork: alloc_proc does not unlink the slot; the failing fork    *)
(* marks the parent STOP instead of the child.                             *)
SlipForkNoUnlink ==
  /\ freelist # <<>>
  /\ status' = [status EXCEPT ![Head(freelist)] = "RUNNABLE"]
  /\ UNCHANGED <<freelist, leaked, halted>>

SlipForkStopsParent ==
  /\ freelist # <<>>
  /\ status' = [status EXCEPT ![current] = "STOP"]
  /\ freelist' = Tail(freelist)
  /\ leaked' = leaked \cup {Head(freelist)}
  /\ UNCHANGED halted

(* alloc_proc takes the head of the free list; without one it reads        *)
(* through NULL, and the page fault in the kernel ends in panic.           *)
ForkNoSlot ==
  /\ freelist = <<>>
  /\ halted' = TRUE
  /\ UNCHANGED <<status, freelist, leaked>>

ForkOK ==
  /\ freelist # <<>>
  /\ status' = [status EXCEPT ![Head(freelist)] = "RUNNABLE"]
  /\ freelist' = Tail(freelist)
  /\ UNCHANGED <<leaked, halted>>

(* alloc_vm finds no frame: fork answers -1 and keeps the slot. *)
ForkNoMemory ==
  /\ freelist # <<>>
  /\ status' = [status EXCEPT ![Head(freelist)] = "STOP"]
  /\ freelist' = Tail(freelist)
  /\ leaked' = leaked \cup {Head(freelist)}
  /\ UNCHANGED halted

Fork ==
  /\ Running
  /\ forks < MaxForks
  /\ forks' = forks + 1
  /\ UNCHANGED current
  /\ ForkNoSlot \/ ForkOK \/ ForkNoMemory

(* waitpid(t): a bad pid and a stopped process are answered at once; for   *)
(* any other t schedule() gives the processor away, and the caller is back *)
(* in user mode when it is next dispatched, whatever t does meanwhile.     *)
(* pid MAXPROC passes the check; the entry behind the table is not STOP.   *)
Waitpid(t) ==
  /\ Running
  /\ t <= MaxProc
  /\ IF t \in Slot /\ status[t] = "STOP" THEN UNCHANGED vars ELSE Reschedule

(* destroy_proc: the slot goes to the head of the free list, the status    *)
(* becomes STOP, current is cleared, and schedule scans as if called by    *)
(* slot 0.  The program in slot 0 (user/init.c) never exits.               *)
Exit ==
  /\ Running
  /\ current # 0
  /\ freelist' = <<current>> \o freelist
  /\ status' = [status EXCEPT ![current] = "STOP"]
  /\ current' = NextProc(status', 0)
  /\ UNCHANGED <<leaked, forks, halted>>

Next ==
  \/ Timer
  \/ Yield
  \/ Fork
  \/ \E t \in 0..MaxProc : Waitpid(t)
  \/ Exit

(* The timer keeps interrupting user mode: processes run with IF set       *)
(* (proc.c 254) and the PIT is periodic (pit.c).                           *)
Fairness == WF_vars(Timer)

Spec == Init /\ [][Next]_vars
FairSpec == Spec /\ Fairness

------------------------------------------------------------------------------

(* The shape of the state. *)
TypeOK ==
  /\ status \in [Slot -> Status]
  /\ freelist \in Seq(Slot)
  /\ current \in Slot \cup {None}
  /\ leaked \subseteq Slot
  /\ forks \in 0..MaxForks
  /\ halted \in BOOLEAN

(* The processor is always with a runnable process: the idle branch of     *)
(* schedule, "No runnable process" (proc.c 424), is never taken.           *)
CurrentRunnable == Runnable(status, current)

(* The free list names each slot without a process exactly once, except    *)
(* for those a fork without memory dropped (proc.c 459-462): no live       *)
(* process can be overwritten by alloc_proc, no slot is listed twice.      *)
FreeListExact ==
  /\ IsInjective(freelist)
  /\ Range(freelist) = (Slot \ Live) \ leaked

(* Fork, exit and dispatching implement the abstract process table. *)
Table == INSTANCE ProcessTable WITH InitSlot <- 0, live <- Live, running <- current
TableSpec == Table!Spec

(* Every runnable process of a slot other than 0 gets the processor        *)
(* (schedule, proc.c 407-418): whatever exits and restarts of the scan     *)
(* happen in between, as long as forks come to an end.                     *)
EveryRunnableRuns ==
  \A s \in Slot \ {0} : (status[s] = "RUNNABLE") ~> (current = s \/ halted)

(* Slot 0, the shell, runs again and again, except while the last slot is  *)
(* in use: dispatched from there, the scan goes on with slot 1.            *)
ShellRuns == []<>(current = 0 \/ Runnable(status, MaxProc - 1) \/ halted)
=============================================================================

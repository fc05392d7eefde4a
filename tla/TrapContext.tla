------------------------------ MODULE TrapContext ------------------------------
(***************************************************************************)
(* The register contexts of kernel/amd64/trap.c, trapentry.S and           *)
(* kernel/proc.c: what the processor runs with, the frame at the top of    *)
(* the one kernel stack (every trap from user mode starts there), and      *)
(* procs[p].pregs, from which run_proc resumes p.                          *)
(*                                                                         *)
(* System calls and interrupts come through interrupt gates and run with   *)
(* interrupts off; exceptions come through trap gates, so the timer and    *)
(* the keyboard can interrupt the handling of a page fault.  do_trap then  *)
(* saves the handler's own context into current->pregs.                    *)
(*                                                                         *)
(* When another process has trapped meanwhile, a handler resumes on a      *)
(* stack that is not its own any more.  Of what may happen then the model  *)
(* keeps that it ends with the registers it finds in the frame; what it    *)
(* does to memory is left out.                                             *)
(***************************************************************************)
EXTENDS Integers

CONSTANTS
  N,         \* number of process slots
  Data,      \* what a process computes with: all registers but rax
  Entry,     \* the data of a program that starts
  Late,      \* rax of a call that schedules: the number of the call
  Dead,      \* stands for the registers of no process
  Lost       \* stands for registers nothing is promised about

ASSUME ConstantsAssumption ==
  /\ N \in Nat \ {0} /\ Entry \in Data /\ Late \notin -1..N-1
  /\ Dead # Lost
  /\ {Dead, Lost} \cap [data : Data, rax : (-1..N-1) \cup {Late}] = {}

Proc == 0..N-1
First == 0

(* What a system call may leave in rax; -1 is the error. *)
Result == (-1..N-1) \cup {Late}
Regs == [data : Data, rax : Result]

VARIABLES
  live,      \* the runnable processes
  current,   \* the process the processor is with
  mode,      \* "user", or the stage of an exception handler:
             \* "entry" before do_trap has saved the frame, "body" after
  regs,      \* the user registers in user mode; the frame's in a handler
  frame,     \* the pt_regs at the top of the kernel stack
  pregs,     \* pregs[p].regs, and at: the mode p is resumed in
  preempted  \* history: processes that lost the processor in a handler

vars == <<live, current, mode, regs, frame, pregs, preempted>>

User(r) == [at |-> "user", regs |-> r]

Init ==
  /\ live = {First} /\ current = First
  /\ mode = "user"
  /\ regs = [data |-> Entry, rax |-> 0]
  /\ frame = regs
  /\ pregs = [p \in Proc |-> User(regs)]
  /\ preempted = {}

------------------------------------------------------------------------------
(* Entering and leaving the kernel *)

(* A trap from user mode: the registers go to the top of the stack, and    *)
(* do_trap copies them to pregs of the current process.                    *)
Saved(r) == [pregs EXCEPT ![current] = User(r)]

(* schedule and run_proc: some live process is resumed from its pregs.     *)
(* Which one is the subject of Scheduler.                                  *)
Dispatch ==
  \E q \in live' :
    /\ current' = q
    /\ mode' = pregs'[q].at
    /\ regs' = IF mode' = "user" THEN pregs'[q].regs ELSE frame'

(* The program computes. *)
Compute ==
  /\ mode = "user"
  /\ \E d \in Data : regs' = [regs EXCEPT !.data = d]
  /\ UNCHANGED <<live, current, mode, frame, pregs, preempted>>

(* The timer interrupts the program, *)
TimerInUser ==
  /\ mode = "user"
  /\ frame' = regs
  /\ pregs' = Saved(regs)
  /\ UNCHANGED <<live, preempted>>
  /\ Dispatch

(* or an exception handler, below whose stack it saves its own frame. *)
TimerInHandler ==
  /\ mode # "user"
  /\ pregs' = [pregs EXCEPT ![current] = [at |-> mode, regs |-> frame]]
  /\ UNCHANGED <<live, frame>>
  /\ Dispatch
  /\ preempted' = IF current' = current THEN preempted ELSE preempted \cup {current}

(* The keyboard interrupt goes back to where it came from, by its frame. *)
Keyboard ==
  /\ IF mode = "user"
     THEN frame' = regs /\ pregs' = Saved(regs)
     ELSE frame' = frame /\ pregs' = [pregs EXCEPT ![current] = [at |-> mode, regs |-> frame]]
  /\ UNCHANGED <<live, current, mode, regs, preempted>>

------------------------------------------------------------------------------
(* Exceptions *)

FaultEntry ==
  /\ mode = "user"
  /\ mode' = "entry"
  /\ frame' = regs
  /\ UNCHANGED <<live, current, regs, pregs, preempted>>

FaultSave ==
  /\ mode = "entry"
  /\ mode' = "body"
  /\ pregs' = Saved(frame)
  /\ UNCHANGED <<live, current, regs, frame, preempted>>

(* do_alltrap pops the frame. *)
FaultReturn ==
  /\ mode = "body"
  /\ mode' = "user"
  /\ regs' = frame
  /\ UNCHANGED <<live, current, frame, pregs, preempted>>

------------------------------------------------------------------------------
(* System calls *)

(* The program puts the number of the call into rax and traps. *)
Called == [regs EXCEPT !.rax = Late]

(* Slip: the answer counts processes from 1. *)
SlipAnswerFromOne(x) == [Called EXCEPT !.rax = x + 1]

(* A call that answers x: do_trap puts it into the frame. *)
Answered(x) == [Called EXCEPT !.rax = x]

Syscall(x) ==
  /\ mode = "user"
  /\ pregs' = Saved(Called)
  /\ regs' = Answered(x) /\ frame' = Answered(x)
  /\ UNCHANGED <<live, current, mode, preempted>>

(* yield, and waitpid for a process that has not stopped: schedule does    *)
(* not come back, so the caller is resumed from pregs, without an answer.  *)
Yield ==
  /\ mode = "user"
  /\ frame' = Called
  /\ pregs' = Saved(Called)
  /\ UNCHANGED <<live, preempted>>
  /\ Dispatch

(* Slip: the child's rax is not cleared. *)
SlipChildNotZero(c) == Called

(* pregs of the child: those the parent has just saved, with rax 0. *)
ChildRegs(c) == [Called EXCEPT !.rax = 0]

Fork(c) ==
  /\ mode = "user"
  /\ c \notin live
  /\ live' = live \cup {c}
  /\ pregs' = [Saved(Called) EXCEPT ![c] = User(ChildRegs(c))]
  /\ regs' = Answered(c) /\ frame' = Answered(c)
  /\ UNCHANGED <<current, mode, preempted>>

(* execve sets the entry point and the stack in pregs and resumes there;   *)
(* rax keeps the number of the call.                                       *)
Exec ==
  LET r == [Called EXCEPT !.data = Entry] IN
  /\ mode = "user"
  /\ frame' = Called
  /\ pregs' = Saved(r)
  /\ regs' = r
  /\ UNCHANGED <<live, current, mode, preempted>>

(* exit leaves the kernel stack behind and schedules another process. *)
Exit ==
  /\ mode = "user" /\ current # First
  /\ live' = live \ {current}
  /\ frame' = Called
  /\ pregs' = Saved(Called)
  /\ preempted' = preempted \ {current}
  /\ Dispatch

Next ==
  \/ Compute \/ TimerInUser \/ TimerInHandler \/ Keyboard
  \/ FaultEntry \/ FaultSave \/ FaultReturn
  \/ \E x \in Result \ {Late} : Syscall(x)
  \/ Yield
  \/ \E c \in Proc : Fork(c)
  \/ Exec \/ Exit

Spec == Init /\ [][Next]_vars

------------------------------------------------------------------------------

(* The shape of the state. *)
TypeOK ==
  /\ live \subseteq Proc /\ current \in live
  /\ mode \in {"user", "entry", "body"}
  /\ regs \in Regs /\ frame \in Regs
  /\ pregs \in [Proc -> [at : {"user", "entry", "body"}, regs : Regs]]
  /\ preempted \subseteq live

(* The registers of p, wherever they are kept at the moment. *)
RegsOf(p) ==
  IF p \notin live THEN Dead
  ELSE IF p \in preempted THEN Lost
  ELSE IF p = current THEN regs
  ELSE pregs[p].regs

(* A process whose exception handlers were never preempted in favour of    *)
(* another process finds its own registers, and the answers to its own     *)
(* calls, whenever it runs (do_trap trap.c 164-168, run_proc, sys_fork).   *)
Context == INSTANCE Registers WITH
             reg <- [p \in Proc |-> RegsOf(p)],
             trapped <- IF mode = "user" THEN {} ELSE {current}
ContextSpec == Context!Spec
=============================================================================

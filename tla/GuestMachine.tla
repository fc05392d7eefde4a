---------------------------- MODULE GuestMachine ----------------------------
(***************************************************************************)
(* What a virtual machine gets: the pages it was given, holding what was   *)
(* put there and what it stored itself, and its registers, which its own   *)
(* instructions change and, while an interrupt is handed on to it, a       *)
(* second attempt to run it.  An instruction the host takes over is passed *)
(* over; an interrupt is delivered once, with its own vector.              *)
(***************************************************************************)
EXTENDS Integers

CONSTANTS
  GPage,      \* guest pages
  Screen,     \* the one that may become the host's screen
  PageSize,   \* cells of a page
  Value,      \* what a cell or a register holds
  Reg,        \* general registers
  Vector,     \* interrupt vectors
  None        \* no page, no vector

VARIABLES
  ram,        \* the pages
  gpr,        \* general registers
  cpu,        \* instruction pointer, interrupt flag, mode, last vector
  pending,    \* the interrupt it has been trapped for
  phase       \* "off", "runs", "trapped"; "gone": nothing is promised

vars == <<ram, gpr, cpu, pending, phase>>

Cell == 0 .. PageSize - 1
Zero == [c \in Cell |-> 0]
PowerOn == [rip |-> 0, if |-> FALSE, mode |-> "legacy", vector |-> None]
Gpr == [Reg -> Value]
Interrupted == phase = "trapped" /\ pending # None

------------------------------------------------------------------------------

Init ==
  /\ ram = [g \in GPage |-> None]
  /\ gpr = [r \in Reg |-> 0]
  /\ cpu = PowerOn
  /\ pending = None
  /\ phase = "off"

(* A new machine, also in the place of one with an interrupt under way. *)
Reset ==
  /\ phase = "off" \/ Interrupted
  /\ ram' = [g \in GPage |-> None]
  /\ gpr' = [r \in Reg |-> 0]
  /\ cpu' = PowerOn
  /\ pending' = None /\ phase' = "off"

(* Pages of zeros, and the screen; a page with something loaded into it. *)
Provide(S) ==
  /\ phase = "off" \/ Interrupted
  /\ ram' = [g \in GPage |-> IF g \in S THEN Zero
                           ELSE IF g = Screen THEN None ELSE ram[g]]
  /\ UNCHANGED <<gpr, cpu, pending, phase>>

Load(g, k, text) ==
  /\ phase = "off" \/ Interrupted
  /\ ram' = [ram EXCEPT ![g] =
               [c \in Cell |-> IF c - k + 1 \in DOMAIN text THEN text[c - k + 1] ELSE 0]]
  /\ UNCHANGED <<gpr, cpu, pending, phase>>

(* The general registers it starts with are not specified. *)
Launch ==
  /\ phase = "off" /\ phase' = "runs"
  /\ gpr' \in Gpr
  /\ UNCHANGED <<ram, cpu, pending>>

Instruction ==
  /\ phase = "runs" /\ UNCHANGED <<pending, phase>>
  /\ \/ /\ gpr' \in Gpr
        /\ \E rip \in 0 .. 1, flag \in BOOLEAN : cpu' = [cpu EXCEPT !.rip = rip, !.if = flag]
        /\ UNCHANGED ram
     \/ /\ \E g \in {h \in GPage : ram[h] # None}, c \in Cell, v \in Value :
             ram' = [ram EXCEPT ![g][c] = v]
        /\ UNCHANGED <<gpr, cpu>>

Trap ==
  /\ phase = "runs" /\ phase' = "trapped"
  /\ pending' \in Vector \cup {None}
  /\ UNCHANGED <<ram, gpr, cpu>>

(* Somebody else tries to run it: its registers are not kept. *)
RunAgain ==
  /\ Interrupted
  /\ gpr' \in Gpr
  /\ UNCHANGED <<ram, cpu, pending, phase>>

(* The instruction is passed over, or the interrupt delivered. *)
Continue ==
  /\ phase = "trapped" /\ phase' = "runs"
  /\ IF pending = None
     THEN \E mode \in {cpu.mode, "long"} : cpu' = [cpu EXCEPT !.rip = 1 - @, !.mode = mode]
     ELSE cpu.if /\ cpu' = [cpu EXCEPT !.if = FALSE, !.vector = pending]
  /\ pending' = None
  /\ UNCHANGED <<ram, gpr>>

Gone == phase' = "gone"

Next ==
  \/ Reset \/ Launch \/ Instruction \/ Trap \/ RunAgain \/ Continue \/ Gone
  \/ \E S \in SUBSET GPage : Provide(S)
  \/ \E g \in GPage, k \in Cell, n \in 1 .. PageSize : \E text \in [1 .. n -> Value] : Load(g, k, text)

Spec == Init /\ [][Next]_vars
=============================================================================

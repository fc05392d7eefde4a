-------------------------------- MODULE Vmx --------------------------------
(***************************************************************************)
(* The hypervisor of kernel/amd64/vmx.c: the system calls that create a    *)
(* virtual cpu, give the guest memory, load into it and run it, and the    *)
(* loop of vmexit, the handlers and vmresume.                              *)
(*                                                                         *)
(* System calls and handlers run with interrupts off, but for handle_intr, *)
(* which turns them on before it resumes: in that window other processes   *)
(* run, and may call run_vm themselves.  A handler preempted there has     *)
(* nothing left to do but vmresume, so it does not matter whose it is.  A  *)
(* page of guest memory is a few cells; the tables of the EPT are left     *)
(* out.  Once the host has gone astray it is not followed any further.     *)
(***************************************************************************)
EXTENDS Integers, FiniteSets, Sequences, Functions

CONSTANTS
  Frame,       \* frames of the host
  Low, High,   \* how many guest pages lie below 0xA0000, from 0x218000 on
  PageSize, Value, Vector,
  Base,        \* rcx: the address of allregs while registers are moved
  Others,      \* the other general registers, in the order of the code
  Video,       \* the frame at 0xb8000, which is not in the pool
  None

Reg == Range(Others) \cup {Base}

ASSUME VmxAssumption ==
  /\ Others \in Seq(Range(Others)) /\ Base \notin Range(Others)
  /\ Low \in Nat /\ High \in Nat /\ PageSize \in Nat \ {0}
  /\ 0 \in Value /\ Video \notin Frame
  /\ None \notin Frame \cup Vector \cup [0 .. PageSize - 1 -> Value]

VARIABLES
  free, others,   \* the pool; frames the rest of the kernel holds
  mem,            \* what the frames of the guest hold; others are not followed
  control,        \* the frames of the VMCS and of the EPT root
  ept,            \* guest page to frame
  host,           \* where the host is: at, exit reason, vector
  gpr,            \* the registers of the processor, while the guest runs
  allregs,
  vmcs,           \* launched, event to inject, and the guest's state
  lost            \* history: frames nothing leads to

memory == <<free, others, mem, control, ept, lost>>
vcpu == <<host, gpr, allregs, vmcs>>
vars == <<memory, vcpu>>

Cell == 0 .. PageSize - 1
Zero == [c \in Cell |-> 0]
Gpr == [Reg -> Value]

(* Guest pages by number: low memory, one that is never provided (like the *)
(* hole the kernel image is loaded into), the screen, high memory.         *)
Screen == Low + 1
GPage == 0 .. Low + High + 1

Reason == {"interrupt", "hlt", "io", "rdmsr", "wrmsr", "ept", "other"}
Mapped == {ept[g] : g \in GPage} \cap Frame
PowerOn == [rip |-> 0, if |-> FALSE, mode |-> "legacy", vector |-> None]
In(place) == [at |-> place, reason |-> "other", vector |-> None]
Callable == host.at \in {"ready", "window"}

------------------------------------------------------------------------------

Init ==
  /\ free = Frame /\ others = {}
  /\ mem = [f \in Frame |-> Zero]
  /\ control = {} /\ ept = [g \in GPage |-> None]
  /\ host = In("none")
  /\ gpr = [r \in Reg |-> 0] /\ allregs = gpr
  /\ vmcs = [launched |-> FALSE, inject |-> None, guest |-> PowerOn]
  /\ lost = {}

(* What is followed of memory, given who has which guest page. *)
Followed(m, pages) ==
  [f \in Frame |-> IF \E g \in GPage : pages[g] = f THEN m[f] ELSE Zero]

(* Slip: the page stays in the pool. *)
SlipKept(f) == {}

(* What alloc_page takes from the pool. *)
Taken(f) == {f}

(* sys_create_vcpu: what an earlier one had is left behind.  (With fewer   *)
(* than two free frames it writes through a null page; so does             *)
(* sys_mmap_mem with none.  Both are left out.)                            *)
sys_create_vcpu ==
  /\ Callable \/ host.at = "none"
  /\ \E f, h \in free :
       /\ f # h
       /\ free' = free \ (Taken(f) \cup Taken(h))
       /\ control' = {f, h}
  /\ lost' = lost \cup control \cup Mapped
  /\ ept' = [g \in GPage |-> None]
  /\ mem' = [f \in Frame |-> Zero]
  /\ allregs' = [r \in Reg |-> 0]
  /\ vmcs' = [launched |-> FALSE, inject |-> None, guest |-> PowerOn]
  /\ host' = IF host.at = "none" THEN In("ready") ELSE host
  /\ UNCHANGED <<others, gpr>>

(* sys_alloc_vm_mem: the pages of low memory, then those of high memory;   *)
(* once the pool is empty the rest are passed over, and 0 is returned.     *)
sys_alloc_vm_mem(high) ==
  /\ Callable
  /\ LET asked == 0 .. Low - 1 \cup (Screen + 1) .. (Screen + high)
         got == {g \in asked :
                   Cardinality({h \in asked : h <= g}) <= Cardinality(free)}
     IN  \E new \in [got -> free] :
           /\ \A g, h \in got : g # h => new[g] # new[h]
           /\ free' = free \ UNION {Taken(new[g]) : g \in got}
           /\ ept' = [g \in GPage |-> IF g \in got THEN new[g]
                                      ELSE IF g = Screen THEN Video ELSE ept[g]]
           /\ mem' = Followed([f \in Frame |-> IF \E g \in got : new[g] = f THEN Zero ELSE mem[f]],
                              ept')
           /\ lost' = lost \cup ({ept[g] : g \in got \cup {Screen}} \cap Frame)
  /\ UNCHANGED <<others, control, vcpu>>

(* sys_mmap_mem: a new page of zeros with the text from the offset of gpa  *)
(* on takes the place of the page that was there.  memcpy does not end     *)
(* with the page: a longer text goes on into whatever the next frame is.   *)
sys_mmap_mem(g, offset, text) ==
  /\ Callable
  /\ \E f \in free :
       /\ free' = free \ Taken(f)
       /\ ept' = [ept EXCEPT ![g] = f]
       /\ mem' = Followed([mem EXCEPT ![f] = [c \in Cell |->
                     IF c - offset + 1 \in DOMAIN text THEN text[c - offset + 1] ELSE 0]], ept')
       /\ lost' = lost \cup ({ept[g]} \cap Frame)
  /\ host' = IF offset + Len(text) > PageSize THEN In("astray") ELSE host
  /\ UNCHANGED <<others, control, gpr, allregs, vmcs>>

(* The rest of the kernel. *)
KernelTakes ==
  /\ host.at \in {"none", "ready", "window"}
  /\ \E f \in free : free' = free \ {f} /\ others' = others \cup {f}
  /\ UNCHANGED <<mem, control, ept, lost, vcpu>>

KernelGives ==
  /\ host.at \in {"none", "ready", "window"}
  /\ \E f \in others : others' = others \ {f} /\ free' = free \cup {f}
  /\ UNCHANGED <<mem, control, ept, lost, vcpu>>

------------------------------------------------------------------------------
(* sys_run_vm and vmexit *)

(* Vmx_exit saves the registers through rcx, and rcx, which it pushed      *)
(* before it put the address there, last.  (An address counts as 0.)       *)
Saved(regs) ==
  LET pushed == regs[Base]
      now == [regs EXCEPT ![Base] = 0]
  IN  [r \in Reg |-> IF r = Base THEN pushed ELSE now[r]]

(* Slip: rcx is loaded with the first registers. *)
SlipReload == <<Base>> \o Others

(* The order in which vmresume loads the registers. *)
Reload == Append(Others, Base)

(* Each is read through rcx, from allregs as long as rcx has not been      *)
(* loaded, and from elsewhere once it has.                                 *)
Restored(regs) ==
  [r \in Reg |-> IF \E i \in 1 .. Len(Reload) : Reload[i] = r /\ \A j \in 1 .. i - 1 : Reload[j] # Base
                 THEN regs[r] ELSE 0]

(* vmlaunch, with what is in the registers: allregs is not loaded.  In the *)
(* window this is the launch of a cpu another process created there.       *)
RunFirst ==
  /\ Callable /\ ~vmcs.launched
  /\ gpr' \in Gpr
  /\ host' = In("guest")
  /\ vmcs' = [vmcs EXCEPT !.launched = TRUE]
  /\ UNCHANGED <<memory, allregs>>

(* In the window of handle_intr vmlaunch fails, because the VMCS has been  *)
(* launched, and the code goes on at Vmx_exit as if the guest had been     *)
(* left: the registers of the host are saved over those of the guest.  The *)
(* exit reason is still the interrupt, so handle_intr asks for the same    *)
(* vector once more and the caller is in the window as well.               *)
RunAgain ==
  /\ host.at = "window" /\ vmcs.launched
  /\ \E regs \in Gpr : allregs' = Saved(regs)
  /\ UNCHANGED <<memory, host, gpr, vmcs>>

(* Without a cpu vmlaunch is an invalid instruction. *)
RunNothing ==
  /\ host.at = "none"
  /\ host' = In("astray")
  /\ UNCHANGED <<memory, gpr, allregs, vmcs>>

sys_run_vm == RunFirst \/ RunAgain \/ RunNothing

GuestComputes ==
  /\ host.at = "guest"
  /\ gpr' \in Gpr
  /\ \E rip \in 0 .. 1, flag \in BOOLEAN :
       vmcs' = [vmcs EXCEPT !.guest.rip = rip, !.guest.if = flag]
  /\ UNCHANGED <<memory, host, allregs>>

GuestStores ==
  /\ host.at = "guest"
  /\ \E g \in {h \in GPage : ept[h] \in Frame}, c \in Cell, v \in Value :
       mem' = [mem EXCEPT ![ept[g]][c] = v]
  /\ UNCHANGED <<free, others, control, ept, lost, vcpu>>

(* The guest is left: Vmx_exit. *)
VmExit(reason, vector) ==
  /\ host.at = "guest"
  /\ reason = "ept" => \E g \in GPage : ept[g] = None
  /\ host' = [at |-> "exit", reason |-> reason, vector |-> vector]
  /\ allregs' = Saved(gpr)
  /\ gpr' = [r \in Reg |-> 0]
  /\ UNCHANGED <<memory, vmcs>>

(* Slip: the length of the instruction is added twice. *)
SlipPastTwo(rip) == rip + 2

(* Instructions are told apart by parity. *)
Past(rip) == 1 - rip

(* handle_io, handle_rdmsr and handle_wrmsr pass over the instruction; a   *)
(* wrmsr, of whichever register, turns on long mode.                       *)
Handle ==
  /\ host.at = "exit" /\ host.reason \in {"io", "rdmsr", "wrmsr"}
  /\ vmcs' = [vmcs EXCEPT !.guest.rip = Past(@),
                          !.guest.mode = IF host.reason = "wrmsr" THEN "long" ELSE @]
  /\ gpr' = Restored(allregs)
  /\ host' = In("guest")
  /\ UNCHANGED <<memory, allregs>>

(* handle_intr asks for the same vector at the next entry, and opens the   *)
(* window with sti.                                                        *)
handle_intr ==
  /\ host.at = "exit" /\ host.reason = "interrupt"
  /\ vmcs' = [vmcs EXCEPT !.inject = host.vector]
  /\ host' = In("window")
  /\ UNCHANGED <<memory, gpr, allregs>>

(* vmresume after the window.  It fails on a VMCS not launched, and with   *)
(* an interrupt for a guest whose interrupts are off.  The next entry      *)
(* delivers, and clears the request and the flag.                          *)
Resume ==
  /\ host.at = "window"
  /\ IF vmcs.launched /\ vmcs.inject # None /\ vmcs.guest.if
     THEN /\ host' = In("guest")
          /\ vmcs' = [vmcs EXCEPT !.inject = None, !.guest.if = FALSE,
                                  !.guest.vector = vmcs.inject]
          /\ gpr' = Restored(allregs)
          /\ UNCHANGED <<memory, allregs>>
     ELSE host' = In("astray") /\ UNCHANGED <<memory, gpr, allregs, vmcs>>

(* hlt: the host loops with interrupts off.  An EPT violation or another   *)
(* reason: vmexit returns, on the stack and page table that sys_create_vcpu *)
(* noted, with the registers of the guest.                                 *)
Outcome(reason) == IF reason = "hlt" THEN "hung" ELSE "astray"

Fatal ==
  /\ host.at = "exit" /\ host.reason \in {"hlt", "ept", "other"}
  /\ host' = In(Outcome(host.reason))
  /\ UNCHANGED <<memory, gpr, allregs, vmcs>>

Next ==
  \/ sys_create_vcpu \/ sys_run_vm \/ KernelTakes \/ KernelGives
  \/ \E n \in 0 .. High : sys_alloc_vm_mem(n)
  \/ \E g \in GPage, k \in Cell, n \in 1 .. PageSize :
       \E text \in [1 .. n -> Value \ {0}] : sys_mmap_mem(g, k, text)
  \/ GuestComputes \/ GuestStores
  \/ \E v \in Vector : VmExit("interrupt", v)
  \/ \E r \in Reason \ {"interrupt"} : VmExit(r, None)
  \/ Handle \/ handle_intr \/ Resume \/ Fatal

Spec == Init /\ [][Next]_vars

------------------------------------------------------------------------------
(* Properties *)

(* The shape of the state. *)
TypeOK ==
  /\ free \subseteq Frame /\ others \subseteq Frame /\ control \subseteq Frame /\ lost \subseteq Frame
  /\ mem \in [Frame -> [Cell -> Value]]
  /\ ept \in [GPage -> Frame \cup {None, Video}]
  /\ host.at \in {"none", "ready", "guest", "exit", "window", "hung", "astray"}
  /\ host.reason \in Reason /\ host.vector \in Vector \cup {None}
  /\ gpr \in Gpr /\ allregs \in Gpr
  /\ vmcs.guest.rip \in 0 .. 1 /\ vmcs.guest.vector \in Vector \cup {None}

(* Every frame is in one place: free, with the rest of the kernel, under   *)
(* the guest, with the VMCS and the EPT root, or left behind by a page     *)
(* that took its place or a second cpu (vmx.c 249-279, 778-869); and no    *)
(* two guest pages are the same frame.                                     *)
FramesApart ==
  /\ \A f \in Frame :
       Cardinality({S \in {1, 2, 3, 4, 5} :
         f \in CASE S = 1 -> free [] S = 2 -> others [] S = 3 -> control
                 [] S = 4 -> Mapped [] S = 5 -> lost}) = 1
  /\ \A g, h \in GPage : g # h /\ ept[g] \in Frame => ept[g] # ept[h]

(* The guest sees a machine of its own: the exits, the handlers, the       *)
(* window of handle_intr and what other processes do in it change nothing  *)
(* of it but the instruction passed over, the mode, the vector, and, when  *)
(* a process calls run_vm in that window, the registers (vmx.c 189-247,    *)
(* 321-522).  A cpu created in the window is a new machine.  Nothing is    *)
(* promised once a load has gone on into the next frame.                   *)
Machine == INSTANCE GuestMachine WITH
  ram <- [g \in GPage |-> IF ept[g] \in Frame THEN mem[ept[g]] ELSE None],
  gpr <- IF host.at = "guest" THEN gpr ELSE allregs,
  cpu <- vmcs.guest,
  pending <- IF host.at = "exit" THEN host.vector ELSE vmcs.inject,
  phase <- IF host.at \in {"hung", "astray"} THEN "gone"
           ELSE IF ~vmcs.launched THEN "off"
           ELSE IF host.at = "guest" THEN "runs" ELSE "trapped"
GuestSpec == Machine!Spec
=============================================================================

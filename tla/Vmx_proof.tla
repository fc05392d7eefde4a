----------------------------- MODULE Vmx_proof -----------------------------
(***************************************************************************)
(* What is proved of the hypervisor: its frames never get into two places, *)
(* and a guest sees a machine of its own.                                  *)
(***************************************************************************)
EXTENDS Vmx, FiniteSetTheorems, TLAPS

(* A guest page is frame f. *)
Guests(f) == \E g \in GPage : ept[g] = f

MemoryType ==
  /\ free \subseteq Frame /\ others \subseteq Frame /\ control \subseteq Frame /\ lost \subseteq Frame
  /\ mem \in [Frame -> [Cell -> Value]]
  /\ ept \in [GPage -> Frame \cup {None, Video}]

(* Every frame is in one place, *)
Somewhere == \A f \in Frame : f \in free \cup others \cup control \cup lost \/ Guests(f)
Nowhere2 ==
  \A f \in Frame :
    /\ f \in free => f \notin others \cup control \cup lost /\ ~Guests(f)
    /\ f \in others => f \notin control \cup lost /\ ~Guests(f)
    /\ f \in control => f \notin lost /\ ~Guests(f)
    /\ f \in lost => ~Guests(f)

(* and at most one guest page. *)
PagesApart == \A g, h \in GPage : g # h /\ ept[g] \in Frame => ept[g] # ept[h]

Memory == MemoryType /\ Somewhere /\ Nowhere2 /\ PagesApart

(* The VMCS asks for an interrupt in the window only, and there as long as *)
(* it is the one that was left; it is launched from the first entry on;    *)
(* and an exit has a vector if and only if it is an interrupt's.           *)
GuestState == [rip : 0 .. 1, if : BOOLEAN, mode : {"legacy", "long"},
               vector : Vector \cup {None}]
Vcpu ==
  /\ host \in [at : {"none", "ready", "guest", "exit", "window", "hung", "astray"},
               reason : Reason, vector : Vector \cup {None}]
  /\ gpr \in Gpr /\ allregs \in Gpr
  /\ vmcs \in [launched : BOOLEAN, inject : Vector \cup {None}, guest : GuestState]
  /\ host.at \in {"none", "ready", "guest", "exit"} => vmcs.inject = None
  /\ host.at \in {"none", "ready"} => ~vmcs.launched
  /\ host.at \in {"guest", "exit"} => vmcs.launched
  /\ host.at = "window" => (vmcs.launched <=> vmcs.inject # None)
  /\ host.at = "exit" => (host.reason = "interrupt" <=> host.vector # None)

Inv == Memory /\ Vcpu

------------------------------------------------------------------------------

LEMMA Empties ==
  /\ Zero \in [Cell -> Value] /\ [r \in Reg |-> 0] \in Gpr
  /\ PowerOn \in GuestState
  /\ \A place \in {"none", "ready", "guest", "window", "hung", "astray"} :
       /\ In(place) \in [at : {"none", "ready", "guest", "exit", "window", "hung", "astray"},
                         reason : Reason, vector : Vector \cup {None}]
       /\ In(place).at = place
BY VmxAssumption DEF Zero, Gpr, PowerOn, GuestState, In, Reason

(* However the registers go through rcx, none is lost: rcx is pushed       *)
(* before it is used, and loaded after its last use.                       *)
LEMMA RegistersKept ==
  ASSUME NEW regs \in Gpr
  PROVE  Saved(regs) = regs /\ Restored(regs) = regs
<1> USE VmxAssumption
<1>1. Base \in Reg /\ regs \in [Reg -> Value]
  BY DEF Reg, Gpr
<1>2. Saved(regs) = regs
  BY <1>1 DEF Saved
<1>3. /\ Len(Reload) = Len(Others) + 1 /\ Len(Others) \in Nat
      /\ Reload[Len(Others) + 1] = Base
      /\ \A j \in 1 .. Len(Others) : Reload[j] = Others[j] /\ Others[j] \in Range(Others)
  BY DEF Reload, Range
<1>4. \A j \in 1 .. Len(Others) : Reload[j] # Base
  BY <1>3
<1>5. ASSUME NEW r \in Reg
      PROVE  \E i \in 1 .. Len(Reload) : Reload[i] = r /\ \A j \in 1 .. i - 1 : Reload[j] # Base
  <2>1. CASE r = Base
    <3>1. Len(Others) + 1 \in 1 .. Len(Reload) /\ (Len(Others) + 1) - 1 = Len(Others)
      BY <1>3
    <3> QED
      BY <1>3, <1>4, <2>1, <3>1
  <2>2. CASE r # Base
    <3>1. PICK i \in 1 .. Len(Others) : Others[i] = r
      BY <2>2 DEF Reg, Range
    <3>2. i \in 1 .. Len(Reload) /\ 1 .. i - 1 \subseteq 1 .. Len(Others)
      BY <1>3, <3>1
    <3> QED
      BY <1>3, <1>4, <3>1, <3>2
  <2> QED
    BY <2>1, <2>2
<1>6. Restored(regs) = regs
  BY <1>1, <1>5 DEF Restored
<1> QED
  BY <1>2, <1>6

LEMMA InvInit == Init => Inv
<1> SUFFICES ASSUME Init PROVE Inv
  OBVIOUS
<1>1. MemoryType
  BY Empties DEF Init, MemoryType
<1>2. \A f : f \in Frame => ~Guests(f)
  BY VmxAssumption DEF Init, Guests
<1>3. Somewhere /\ Nowhere2
  BY <1>2 DEF Init, Somewhere, Nowhere2
<1>4. PagesApart
  BY VmxAssumption DEF Init, PagesApart
<1>5. Vcpu
  BY Empties DEF Init, Vcpu
<1> QED
  BY <1>1, <1>3, <1>4, <1>5 DEF Inv, Memory

(* The pages of the guest that are asked for exist. *)
LEMMA Asked ==
  ASSUME NEW high \in 0 .. High
  PROVE  /\ 0 .. Low - 1 \cup (Screen + 1) .. (Screen + high) \subseteq GPage \ {Screen}
         /\ Screen \in GPage
BY VmxAssumption DEF Screen, GPage

LEMMA FollowedType ==
  ASSUME NEW m \in [Frame -> [Cell -> Value]], NEW pages
  PROVE  Followed(m, pages) \in [Frame -> [Cell -> Value]]
BY Empties DEF Followed

(* Guest pages S get frames of the pool, each one of its own; the screen   *)
(* may become Video.  What was there is left behind.                       *)
Provided(S, new, shown) ==
  /\ \A g, h \in S : g # h => new[g] # new[h]
  /\ free' = free \ {new[g] : g \in S}
  /\ ept' = [g \in GPage |-> IF g \in S THEN new[g] ELSE IF g \in shown THEN Video ELSE ept[g]]
  /\ lost' = lost \cup ({ept[g] : g \in S \cup shown} \cap Frame)
  /\ mem' \in [Frame -> [Cell -> Value]]
  /\ UNCHANGED <<others, control>>

LEMMA MemoryProvided ==
  ASSUME Memory, NEW S \in SUBSET GPage, NEW new \in [S -> free],
         NEW shown \in SUBSET (GPage \ S), Provided(S, new, shown)
  PROVE  Memory'
<1> USE VmxAssumption DEF Provided
<1>1. /\ MemoryType /\ Somewhere /\ Nowhere2 /\ PagesApart
      /\ \A g \in S : new[g] \in free /\ new[g] \in Frame
  BY DEF Memory, MemoryType
<1>2. MemoryType'
  BY <1>1 DEF MemoryType
<1>3. \A g \in GPage : ept'[g] = IF g \in S THEN new[g] ELSE IF g \in shown THEN Video ELSE ept[g]
  OBVIOUS
<1>4. ASSUME NEW f \in Frame
      PROVE  /\ f \in free' <=> f \in free /\ \A g \in S : new[g] # f
             /\ f \in lost' <=> f \in lost \/ \E g \in S \cup shown : ept[g] = f
             /\ Guests(f)' <=> \/ \E g \in S : new[g] = f
                               \/ \E g \in GPage \ (S \cup shown) : ept[g] = f
  <2>1. Guests(f)' <=> \E g \in GPage : ept'[g] = f
    BY DEF Guests
  <2>2. f # Video
    OBVIOUS
  <2> QED
    BY <1>3, <2>1, <2>2
<1>5. Somewhere'
  BY <1>1, <1>4 DEF Somewhere, Guests
<1>6. Nowhere2'
  <2>1. ASSUME NEW f \in Frame
        PROVE  /\ f \in free' => f \notin others \cup control \cup lost' /\ ~Guests(f)'
               /\ f \in others => f \notin control \cup lost' /\ ~Guests(f)'
               /\ f \in control => f \notin lost' /\ ~Guests(f)'
    BY <1>1, <1>4 DEF Nowhere2, Guests
  <2>2. ASSUME NEW f \in Frame, f \in lost'
        PROVE  ~Guests(f)'
    <3>1. CASE f \in lost
      BY <1>1, <1>4, <3>1 DEF Nowhere2, Guests
    <3>2. ASSUME NEW g \in S \cup shown, ept[g] = f
          PROVE  ~Guests(f)'
      <4>1. Guests(f)
        BY <3>2 DEF Guests
      <4>2. f \notin free
        BY <1>1, <4>1 DEF Nowhere2
      <4>3. \A h \in GPage \ (S \cup shown) : ept[h] # f
        BY <1>1, <3>2 DEF PagesApart
      <4> QED
        BY <1>1, <1>4, <4>2, <4>3
    <3> QED
      BY <1>4, <2>2, <3>1, <3>2
  <2> QED
    BY <2>1, <2>2 DEF Nowhere2
<1>7. PagesApart'
  <2>1. ASSUME NEW g \in GPage, NEW h \in GPage, g # h, ept'[g] \in Frame, ept'[g] = ept'[h]
        PROVE  FALSE
    <3>1. g \notin shown /\ h \notin shown
      BY <1>1, <1>3, <2>1
    <3>2. CASE g \in S /\ h \in S
      BY <1>3, <2>1, <3>2
    <3>3. ASSUME NEW k \in S, NEW l \in GPage \ S, new[k] = ept[l]
          PROVE  FALSE
      BY <1>1, <3>3 DEF Nowhere2, Guests
    <3>4. CASE g \notin S /\ h \notin S
      BY <1>1, <1>3, <2>1, <3>1, <3>4 DEF PagesApart
    <3> QED
      BY <1>3, <2>1, <3>1, <3>2, <3>3, <3>4
  <2> QED
    BY <2>1 DEF PagesApart
<1> QED
  BY <1>2, <1>5, <1>6, <1>7 DEF Memory

LEMMA MemoryCreated ==
  ASSUME Memory, sys_create_vcpu
  PROVE  Memory'
<1> USE VmxAssumption
<1>1. PICK f \in free, h \in free :
        /\ f # h /\ free' = free \ {f, h} /\ control' = {f, h}
  BY DEF sys_create_vcpu, Taken
<1>2. /\ lost' = lost \cup control \cup Mapped /\ others' = others
      /\ ept' = [g \in GPage |-> None] /\ mem' = [x \in Frame |-> Zero]
  BY DEF sys_create_vcpu
<1>3. MemoryType /\ Somewhere /\ Nowhere2 /\ PagesApart
  BY DEF Memory
<1>4. \A x \in Frame : x \in Mapped <=> Guests(x)
  BY DEF Mapped, Guests
<1>5. \A x \in Frame : ~Guests(x)'
  BY <1>2 DEF Guests
<1>6. MemoryType'
  BY <1>1, <1>2, <1>3, Empties DEF MemoryType, Mapped
<1>7. Somewhere' /\ Nowhere2'
  BY <1>1, <1>2, <1>3, <1>4, <1>5 DEF Somewhere, Nowhere2
<1>8. PagesApart'
  BY <1>2 DEF PagesApart
<1> QED
  BY <1>6, <1>7, <1>8 DEF Memory

(* A frame goes from the pool to the rest of the kernel, or back. *)
LEMMA MemoryElsewhere ==
  ASSUME Memory, KernelTakes \/ KernelGives
  PROVE  Memory'
<1>1. MemoryType /\ Somewhere /\ Nowhere2 /\ PagesApart
  BY DEF Memory
<1>2. UNCHANGED <<mem, control, ept, lost>>
  BY DEF KernelTakes, KernelGives
<1>3. \A x : Guests(x)' <=> Guests(x)
  BY <1>2 DEF Guests
<1>4. PICK f \in Frame : \/ f \in free /\ free' = free \ {f} /\ others' = others \cup {f}
                         \/ f \in others /\ others' = others \ {f} /\ free' = free \cup {f}
  BY <1>1 DEF KernelTakes, KernelGives, MemoryType
<1>5. MemoryType'
  BY <1>1, <1>2, <1>4 DEF MemoryType
<1>6. Somewhere' /\ Nowhere2'
  BY <1>1, <1>2, <1>3, <1>4 DEF Somewhere, Nowhere2
<1>7. PagesApart'
  BY <1>1, <1>2 DEF PagesApart
<1> QED
  BY <1>5, <1>6, <1>7 DEF Memory

(* A store of the guest changes what a frame holds, not where it is. *)
LEMMA MemoryStored ==
  ASSUME Memory, mem' \in [Frame -> [Cell -> Value]], UNCHANGED <<free, others, control, ept, lost>>
  PROVE  Memory'
<1>1. \A x : Guests(x)' <=> Guests(x)
  BY DEF Guests
<1> QED
  BY <1>1 DEF Memory, MemoryType, Somewhere, Nowhere2, PagesApart

(* What sys_alloc_vm_mem does when the guest pages that get a frame are S. *)
Given(S) ==
  \E new \in [S -> free] :
     /\ \A g, h \in S : g # h => new[g] # new[h]
     /\ free' = free \ UNION {Taken(new[g]) : g \in S}
     /\ ept' = [g \in GPage |-> IF g \in S THEN new[g]
                                ELSE IF g = Screen THEN Video ELSE ept[g]]
     /\ mem' = Followed([f \in Frame |-> IF \E g \in S : new[g] = f THEN Zero ELSE mem[f]],
                        ept')
     /\ lost' = lost \cup ({ept[g] : g \in S \cup {Screen}} \cap Frame)

LEMMA SomeGiven ==
  ASSUME NEW n \in 0 .. High, sys_alloc_vm_mem(n)
  PROVE  \E S \in SUBSET (GPage \ {Screen}) : Given(S)
<1> DEFINE asked == 0 .. Low - 1 \cup (Screen + 1) .. (Screen + n)
           some == {g \in asked : Cardinality({h \in asked : h <= g}) <= Cardinality(free)}
<1>1. Given(some)
  BY DEF sys_alloc_vm_mem, Given
<1>2. some \subseteq GPage \ {Screen}
  BY Asked
<1> HIDE DEF some
<1> QED
  BY <1>1, <1>2

LEMMA MemoryAllocated ==
  ASSUME Memory, NEW n \in 0 .. High, sys_alloc_vm_mem(n)
  PROVE  Memory'
<1>a. PICK got \in SUBSET (GPage \ {Screen}) : Given(got)
  BY SomeGiven
<1>1. PICK new \in [got -> free] :
     /\ \A g, h \in got : g # h => new[g] # new[h]
     /\ free' = free \ UNION {Taken(new[g]) : g \in got}
     /\ ept' = [g \in GPage |-> IF g \in got THEN new[g]
                                ELSE IF g = Screen THEN Video ELSE ept[g]]
     /\ mem' = Followed([f \in Frame |-> IF \E g \in got : new[g] = f THEN Zero ELSE mem[f]],
                        ept')
     /\ lost' = lost \cup ({ept[g] : g \in got \cup {Screen}} \cap Frame)
  BY <1>a DEF Given
<1>2. got \subseteq GPage /\ {Screen} \in SUBSET (GPage \ got)
  BY Asked
<1>3. UNION {Taken(new[g]) : g \in got} = {new[g] : g \in got}
  BY DEF Taken
<1>4. mem \in [Frame -> [Cell -> Value]]
  BY DEF Memory, MemoryType
<1>5. [f \in Frame |-> IF \E g \in got : new[g] = f THEN Zero ELSE mem[f]]
        \in [Frame -> [Cell -> Value]]
  BY <1>4, Empties
<1>6. mem' \in [Frame -> [Cell -> Value]]
  BY <1>1, <1>5, FollowedType
<1>7. ept' = [g \in GPage |-> IF g \in got THEN new[g]
                              ELSE IF g \in {Screen} THEN Video ELSE ept[g]]
  BY <1>1
<1>8. UNCHANGED <<others, control>>
  BY DEF sys_alloc_vm_mem
<1>9. PICK shown \in SUBSET (GPage \ got) : shown = {Screen}
  BY <1>2
<1>10. Provided(got, new, shown)
  BY <1>1, <1>3, <1>6, <1>7, <1>8, <1>9 DEF Provided
<1>11. got \in SUBSET GPage
  BY <1>2
<1> QED
  BY <1>10, <1>11, MemoryProvided

(* The page a text is loaded into: zeros around it. *)
Page(offset, text) ==
  [c \in Cell |-> IF c - offset + 1 \in DOMAIN text THEN text[c - offset + 1] ELSE 0]

LEMMA MemoryLoaded ==
  ASSUME Memory, NEW g \in GPage, NEW k \in Cell, NEW n \in 1 .. PageSize,
         NEW text \in [1 .. n -> Value \ {0}], sys_mmap_mem(g, k, text)
  PROVE  Memory'
<1>1. PICK f \in free :
        /\ free' = free \ {f} /\ ept' = [ept EXCEPT ![g] = f]
        /\ mem' = Followed([mem EXCEPT ![f] = Page(k, text)], ept')
        /\ lost' = lost \cup ({ept[g]} \cap Frame)
  BY DEF sys_mmap_mem, Taken, Page
<1>2. mem \in [Frame -> [Cell -> Value]] /\ f \in Frame /\ ept \in [GPage -> Frame \cup {None, Video}]
  BY DEF Memory, MemoryType
<1>3. Page(k, text) \in [Cell -> Value]
  BY VmxAssumption DEF Page
<1>4. mem' \in [Frame -> [Cell -> Value]]
  BY <1>1, <1>2, <1>3, FollowedType
<1> DEFINE new == [h \in {g} |-> f]
<1>6. \A h \in GPage : ept'[h] = IF h = g THEN f ELSE ept[h]
  BY <1>1, <1>2
<1>7. ept' = [h \in GPage |-> IF h = g THEN f ELSE ept[h]]
  BY <1>1, <1>2
<1>8. {new[h] : h \in {g}} = {f} /\ {ept[h] : h \in {g} \cup {}} = {ept[g]}
  OBVIOUS
<1>9. Provided({g}, new, {})
  BY <1>1, <1>4, <1>7, <1>8 DEF Provided, sys_mmap_mem
<1>10. {g} \in SUBSET GPage /\ new \in [{g} -> free] /\ {} \in SUBSET (GPage \ {g})
  OBVIOUS
<1> HIDE DEF new
<1> QED
  BY <1>9, <1>10, MemoryProvided

LEMMA MemoryNext == Inv /\ [Next]_vars => Memory'
<1> SUFFICES ASSUME Inv, [Next]_vars PROVE Memory'
  OBVIOUS
<1>1. Memory /\ mem \in [Frame -> [Cell -> Value]]
  BY DEF Inv, Memory, MemoryType
<1>2. CASE UNCHANGED memory
  BY <1>1, <1>2, MemoryStored DEF memory
<1>3. CASE sys_create_vcpu
  BY <1>1, <1>3, MemoryCreated
<1>4. ASSUME NEW n \in 0 .. High, sys_alloc_vm_mem(n) PROVE Memory'
  BY <1>1, <1>4, MemoryAllocated
<1>5. ASSUME NEW g \in GPage, NEW k \in Cell, NEW n \in 1 .. PageSize,
             NEW text \in [1 .. n -> Value \ {0}], sys_mmap_mem(g, k, text)
      PROVE  Memory'
  BY <1>1, <1>5, MemoryLoaded
<1>6. CASE KernelTakes \/ KernelGives
  BY <1>1, <1>6, MemoryElsewhere
<1>7. CASE GuestStores
  <2>1. PICK g \in GPage, c \in Cell, v \in Value :
          ept[g] \in Frame /\ mem' = [mem EXCEPT ![ept[g]][c] = v]
    BY <1>7 DEF GuestStores
  <2>2. mem' \in [Frame -> [Cell -> Value]]
    BY <1>1, <2>1
  <2> QED
    BY <1>1, <1>7, <2>2, MemoryStored DEF GuestStores
<1>8. \/ UNCHANGED memory \/ sys_create_vcpu \/ KernelTakes \/ KernelGives \/ GuestStores
      \/ \E n \in 0 .. High : sys_alloc_vm_mem(n)
      \/ \E g \in GPage, k \in Cell, n \in 1 .. PageSize :
           \E text \in [1 .. n -> Value \ {0}] : sys_mmap_mem(g, k, text)
  BY DEF Next, vars, sys_run_vm, RunFirst, RunAgain, RunNothing, GuestComputes, VmExit, Handle,
     handle_intr, Resume, Fatal
<1> QED
  BY <1>2, <1>3, <1>4, <1>5, <1>6, <1>7, <1>8

LEMMA VcpuNext == Inv /\ [Next]_vars => Vcpu'
<1> USE VmxAssumption DEF Vcpu
<1> SUFFICES ASSUME Vcpu, [Next]_vars PROVE Vcpu'
  BY DEF Inv
<1>1. CASE UNCHANGED vcpu
  BY <1>1 DEF vcpu
<1>2. CASE sys_create_vcpu
  <2>1. host.at \in {"none", "ready", "window"}
    BY <1>2 DEF sys_create_vcpu, Callable
  <2>2. /\ vmcs' = [launched |-> FALSE, inject |-> None, guest |-> PowerOn]
        /\ host' = IF host.at = "none" THEN In("ready") ELSE host
        /\ gpr' = gpr /\ allregs' = [r \in Reg |-> 0]
    BY <1>2 DEF sys_create_vcpu
  <2> QED
    BY <2>1, <2>2, Empties
<1>3. ASSUME NEW g \in GPage, NEW k \in Cell, NEW n \in 1 .. PageSize,
             NEW text \in [1 .. n -> Value \ {0}], sys_mmap_mem(g, k, text)
      PROVE  Vcpu'
  <2>1. (host' = In("astray") \/ host' = host) /\ UNCHANGED <<gpr, allregs, vmcs>>
    BY <1>3 DEF sys_mmap_mem
  <2> QED
    BY <2>1, Empties
<1>4. CASE sys_run_vm
  <2>1. CASE RunFirst
    BY <2>1, Empties DEF RunFirst, Callable
  <2>2. CASE RunAgain
    <3>1. allregs' \in Gpr /\ UNCHANGED <<host, gpr, vmcs>>
      BY <2>2, RegistersKept DEF RunAgain
    <3> QED
      BY <3>1
  <2>3. CASE RunNothing
    BY <2>3, Empties DEF RunNothing
  <2> QED
    BY <1>4, <2>1, <2>2, <2>3 DEF sys_run_vm
<1>5. CASE GuestComputes
  <2>1. PICK rip \in 0 .. 1, flag \in BOOLEAN :
          vmcs' = [vmcs EXCEPT !.guest.rip = rip, !.guest.if = flag]
    BY <1>5 DEF GuestComputes
  <2>2. vmcs'.guest \in GuestState
    BY <2>1 DEF GuestState
  <2>3. vmcs' \in [launched : BOOLEAN, inject : Vector \cup {None}, guest : GuestState]
        /\ vmcs'.inject = vmcs.inject /\ vmcs'.launched = vmcs.launched
    BY <2>1, <2>2
  <2> QED
    BY <1>5, <2>3 DEF GuestComputes
<1>6. ASSUME NEW r \in Reason, NEW v \in Vector \cup {None}, r = "interrupt" <=> v # None,
             VmExit(r, v)
      PROVE  Vcpu'
  <2>1. host' = [at |-> "exit", reason |-> r, vector |-> v] /\ host.at = "guest"
        /\ allregs' = gpr /\ gpr' = [x \in Reg |-> 0] /\ vmcs' = vmcs
    BY <1>6, RegistersKept DEF VmExit
  <2> QED
    BY <1>6, <2>1, Empties
<1>7. CASE Handle
  <2>1. /\ host.at = "exit" /\ host' = In("guest") /\ gpr' = allregs /\ allregs' = allregs
        /\ vmcs' = [vmcs EXCEPT !.guest.rip = Past(@),
                                !.guest.mode = IF host.reason = "wrmsr" THEN "long" ELSE @]
    BY <1>7, RegistersKept DEF Handle
  <2>2. PICK rip \in 0 .. 1, mode \in {"legacy", "long"} :
          vmcs' = [vmcs EXCEPT !.guest.rip = rip, !.guest.mode = mode]
    <3>1. Past(vmcs.guest.rip) \in 0 .. 1 /\ vmcs.guest.mode \in {"legacy", "long"}
      BY DEF GuestState, Past
    <3> HIDE DEF Past
    <3>2. CASE host.reason = "wrmsr"
      BY <2>1, <3>1, <3>2
    <3>3. CASE host.reason # "wrmsr"
      BY <2>1, <3>1, <3>3
    <3> QED
      BY <3>2, <3>3
  <2>4. vmcs'.guest \in GuestState
    BY <2>2 DEF GuestState
  <2>3. vmcs' \in [launched : BOOLEAN, inject : Vector \cup {None}, guest : GuestState]
        /\ vmcs'.inject = vmcs.inject /\ vmcs'.launched = vmcs.launched
    BY <2>2, <2>4
  <2> QED
    BY <2>1, <2>3, Empties
<1>8. CASE handle_intr
  <2>1. /\ host' = In("window") /\ UNCHANGED <<gpr, allregs>>
        /\ vmcs' = [vmcs EXCEPT !.inject = host.vector]
        /\ host.at = "exit" /\ host.reason = "interrupt"
    BY <1>8 DEF handle_intr
  <2>2. /\ vmcs' \in [launched : BOOLEAN, inject : Vector \cup {None}, guest : GuestState]
        /\ vmcs'.launched /\ vmcs'.inject # None
    BY <2>1
  <2> QED
    BY <2>1, <2>2, Empties
<1>9. CASE Resume
  <2>1. CASE host' = In("astray") /\ UNCHANGED <<gpr, allregs, vmcs>>
    BY <2>1, Empties
  <2>2. CASE /\ host' = In("guest") /\ gpr' = allregs /\ allregs' = allregs /\ vmcs.launched
             /\ vmcs' = [vmcs EXCEPT !.inject = None, !.guest.if = FALSE,
                                     !.guest.vector = vmcs.inject]
    <3>1. vmcs'.guest \in GuestState
      BY <2>2 DEF GuestState
    <3>2. vmcs' \in [launched : BOOLEAN, inject : Vector \cup {None}, guest : GuestState]
          /\ vmcs'.inject = None /\ vmcs'.launched
      BY <2>2, <3>1
    <3> QED
      BY <2>2, <3>2, Empties
  <2> QED
    BY <1>9, <2>1, <2>2, RegistersKept DEF Resume, memory
<1>10. CASE Fatal
  <2>1. (host' = In("hung") \/ host' = In("astray")) /\ UNCHANGED <<gpr, allregs, vmcs>>
    BY <1>10 DEF Fatal, Outcome
  <2> QED
    BY <2>1, Empties
<1>11. \A v \in Vector : VmExit("interrupt", v) => Vcpu'
  BY <1>6, VmxAssumption DEF Reason
<1>12. \A r \in Reason \ {"interrupt"} : VmExit(r, None) => Vcpu'
  BY <1>6
<1>13. \/ UNCHANGED vcpu \/ sys_create_vcpu \/ sys_run_vm \/ GuestComputes
       \/ Handle \/ handle_intr \/ Resume \/ Fatal
       \/ \E v \in Vector : VmExit("interrupt", v)
       \/ \E r \in Reason \ {"interrupt"} : VmExit(r, None)
       \/ \E g \in GPage, k \in Cell, n \in 1 .. PageSize :
            \E text \in [1 .. n -> Value \ {0}] : sys_mmap_mem(g, k, text)
  BY DEF Next, vars, sys_alloc_vm_mem, KernelTakes, KernelGives, GuestStores
<1> HIDE DEF Vcpu
<1> QED
  BY <1>1, <1>2, <1>3, <1>4, <1>5, <1>7, <1>8, <1>9, <1>10, <1>11, <1>12, <1>13

LEMMA InvNext == Inv /\ [Next]_vars => Inv'
BY MemoryNext, VcpuNext DEF Inv

(* The frames of the guest, its registers and the VMCS keep their shape    *)
(* over all system calls and exits: only frames, or the screen, are mapped *)
(* in the guest, and a handler always has a reason it knows (sys_mmap_mem, *)
(* sys_alloc_vm_mem, vmexit, vmresume).                                    *)
THEOREM HypervisorWellFormed == Spec => []TypeOK
<1>1. Spec => []Inv
  BY InvInit, InvNext, PTL DEF Spec
<1>2. Inv => TypeOK
  BY DEF Inv, Memory, MemoryType, Vcpu, GuestState, TypeOK
<1> QED
  BY <1>1, <1>2, PTL

(* However system calls, exits and the rest of the kernel alternate, a     *)
(* frame is in one place, and at most one guest page (vmx.c 249-279,       *)
(* 778-869).                                                               *)
THEOREM FramesStayApart == Spec => []FramesApart
<1>1. Spec => []Inv
  BY InvInit, InvNext, PTL DEF Spec
<1>2. Inv => FramesApart
  <2> SUFFICES ASSUME Inv PROVE FramesApart
    OBVIOUS
  <2>1. Somewhere /\ Nowhere2 /\ PagesApart
    BY DEF Inv, Memory
  <2>2. ASSUME NEW f \in Frame
        PROVE  Cardinality({S \in {1, 2, 3, 4, 5} :
                 f \in CASE S = 1 -> free [] S = 2 -> others [] S = 3 -> control
                         [] S = 4 -> Mapped [] S = 5 -> lost}) = 1
    <3> DEFINE In5 == {S \in {1, 2, 3, 4, 5} :
                 f \in CASE S = 1 -> free [] S = 2 -> others [] S = 3 -> control
                         [] S = 4 -> Mapped [] S = 5 -> lost}
    <3>1. f \in Mapped <=> Guests(f)
      BY DEF Mapped, Guests
    <3>2. /\ 1 \in In5 <=> f \in free
          /\ 2 \in In5 <=> f \in others
          /\ 3 \in In5 <=> f \in control
          /\ 4 \in In5 <=> Guests(f)
          /\ 5 \in In5 <=> f \in lost
          /\ In5 \subseteq {1, 2, 3, 4, 5}
      BY <3>1
    <3> HIDE DEF In5
    <3>3. \E S \in 1 .. 5 : In5 = {S}
      <4>1. CASE f \in free
        <5>1. In5 = {1}
          BY <2>1, <3>2, <4>1 DEF Nowhere2
        <5> QED
          BY <5>1
      <4>2. CASE f \in others
        <5>1. In5 = {2}
          BY <2>1, <3>2, <4>2 DEF Nowhere2
        <5> QED
          BY <5>1
      <4>3. CASE f \in control
        <5>1. In5 = {3}
          BY <2>1, <3>2, <4>3 DEF Nowhere2
        <5> QED
          BY <5>1
      <4>4. CASE Guests(f)
        <5>1. In5 = {4}
          BY <2>1, <3>2, <4>4 DEF Nowhere2
        <5> QED
          BY <5>1
      <4>5. CASE f \in lost
        <5>1. In5 = {5}
          BY <2>1, <3>2, <4>5 DEF Nowhere2
        <5> QED
          BY <5>1
      <4> QED
        BY <2>1, <4>1, <4>2, <4>3, <4>4, <4>5 DEF Somewhere
    <3>4. Cardinality(In5) = 1
      BY <3>3, FS_Singleton
    <3> QED
      BY <3>4 DEF In5
  <2> QED
    BY <2>1, <2>2 DEF FramesApart, PagesApart
<1> QED
  BY <1>1, <1>2, PTL

------------------------------------------------------------------------------
(* The refinement of GuestMachine: what its variables are. *)

Ram == [g \in GPage |-> IF ept[g] \in Frame THEN mem[ept[g]] ELSE None]
Registers == IF host.at = "guest" THEN gpr ELSE allregs
Pending == IF host.at = "exit" THEN host.vector ELSE vmcs.inject
Phase == IF host.at \in {"hung", "astray"} THEN "gone"
         ELSE IF ~vmcs.launched THEN "off"
         ELSE IF host.at = "guest" THEN "runs" ELSE "trapped"

(* The operators of the machine are those of the hypervisor. *)
LEMMA SameOperators ==
  /\ Machine!Cell = Cell /\ Machine!Zero = Zero /\ Machine!Gpr = Gpr
  /\ Machine!PowerOn = PowerOn
BY DEF Machine!Cell, Cell, Machine!Zero, Zero, Machine!Gpr, Gpr, Machine!PowerOn, PowerOn

LEMMA MachineInit == Init => Machine!Init
<1> SUFFICES ASSUME Init PROVE Machine!Init
  OBVIOUS
<1>1. Ram = [g \in GPage |-> None]
  BY VmxAssumption DEF Init, Ram
<1>2. Phase = "off" /\ Pending = None /\ Registers = [r \in Reg |-> 0] /\ vmcs.guest = PowerOn
  BY Empties DEF Init, Phase, Pending, Registers, In
<1> QED
  BY <1>1, <1>2, SameOperators DEF Machine!Init, Ram, Phase, Pending, Registers

(* What leads to "gone" is allowed, whatever else it does. *)
LEMMA MachineGone ==
  ASSUME Phase' = "gone"
  PROVE  Machine!Next
BY DEF Machine!Next, Machine!Gone, Phase

LEMMA MachineStutters ==
  ASSUME UNCHANGED <<Ram, Registers, Pending, Phase, vmcs.guest>>
  PROVE  UNCHANGED Machine!vars
BY DEF Machine!vars, Ram, Registers, Pending, Phase

(* Outside the guest a page of it is what the frame under it holds. *)
LEMMA RamUnchanged ==
  ASSUME UNCHANGED <<mem, ept>>
  PROVE  Ram' = Ram
BY DEF Ram

LEMMA PhaseUnchanged ==
  ASSUME UNCHANGED vcpu
  PROVE  UNCHANGED <<Registers, Pending, Phase, vmcs.guest>>
BY DEF vcpu, Registers, Pending, Phase

LEMMA MachineReset ==
  ASSUME Inv, sys_create_vcpu
  PROVE  Machine!Next
<1>1. /\ vmcs' = [launched |-> FALSE, inject |-> None, guest |-> PowerOn]
      /\ allregs' = [r \in Reg |-> 0]
      /\ host' = IF host.at = "none" THEN In("ready") ELSE host
      /\ ept' = [g \in GPage |-> None]
      /\ host.at \in {"none", "ready", "window"}
  BY DEF sys_create_vcpu, Callable
<1>2. host'.at \in {"ready", "window"} /\ ~vmcs'.launched
  BY <1>1, Empties
<1>3. Phase = "off" \/ (Phase = "trapped" /\ Pending # None)
  BY <1>1 DEF Phase, Pending, Inv, Vcpu
<1>4. Phase' = "off" /\ Pending' = None
  BY <1>1, <1>2 DEF Phase, Pending
<1>5. Registers' = [r \in Reg |-> 0] /\ vmcs.guest' = PowerOn
  BY <1>1, <1>2 DEF Registers
<1>6. Ram' = [g \in GPage |-> None]
  BY <1>1, VmxAssumption DEF Ram
<1>7. Machine!Reset
  BY <1>3, <1>4, <1>5, <1>6, SameOperators
  DEF Machine!Reset, Machine!Interrupted, Ram, Phase, Pending, Registers
<1> QED
  BY <1>7 DEF Machine!Next

(* What system calls may be made, the machine allows. *)
Open == Phase = "off" \/ (Phase = "trapped" /\ Pending # None)

LEMMA CallableOpen ==
  ASSUME Inv, Callable
  PROVE  Open
BY DEF Open, Callable, Phase, Pending, Inv, Vcpu

LEMMA MachineProvided ==
  ASSUME Inv, NEW n \in 0 .. High, sys_alloc_vm_mem(n)
  PROVE  Machine!Next
<1> USE VmxAssumption
<1>1. UNCHANGED <<Registers, Pending, Phase, vmcs.guest>>
  BY PhaseUnchanged DEF sys_alloc_vm_mem, vcpu
<1>2. CASE Phase = "gone"
  <2>1. Phase' = "gone"
    BY <1>1, <1>2
  <2> QED
    BY <2>1, MachineGone
<1>3. CASE Phase # "gone"
  <2>1. Open
    BY CallableOpen DEF sys_alloc_vm_mem
  <2>2. PICK got \in SUBSET (GPage \ {Screen}) : Given(got)
    BY SomeGiven
  <2>3. PICK new \in [got -> free] :
          /\ ept' = [g \in GPage |-> IF g \in got THEN new[g]
                                     ELSE IF g = Screen THEN Video ELSE ept[g]]
          /\ mem' = Followed([f \in Frame |-> IF \E g \in got : new[g] = f THEN Zero ELSE mem[f]],
                             ept')
    BY <2>2 DEF Given
  <2>4. free \subseteq Frame /\ Nowhere2 /\ \A g \in got : new[g] \in free
    BY DEF Inv, Memory, MemoryType
  <2>5. ASSUME NEW g \in GPage, ept'[g] \in Frame
        PROVE  mem'[ept'[g]] = IF \E h \in got : new[h] = ept'[g] THEN Zero ELSE mem[ept'[g]]
    BY <2>3, <2>5 DEF Followed
  <2>6. ASSUME NEW g \in GPage
        PROVE  Ram'[g] = IF g \in got THEN Zero ELSE IF g = Screen THEN None ELSE Ram[g]
    <3>1. Ram'[g] = IF ept'[g] \in Frame THEN mem'[ept'[g]] ELSE None
      BY DEF Ram
    <3>2. Ram[g] = IF ept[g] \in Frame THEN mem[ept[g]] ELSE None
      BY DEF Ram
    <3>3. CASE g \in got
      <4>1. ept'[g] = new[g] /\ ept'[g] \in Frame
        BY <2>3, <2>4, <3>3
      <4> QED
        BY <2>5, <3>1, <3>3, <4>1
    <3>4. CASE g = Screen
      BY <2>3, <3>1, <3>4
    <3>5. CASE g \notin got /\ g # Screen /\ ept[g] \in Frame
      <4>1. ept'[g] = ept[g]
        BY <2>3, <3>5
      <4>2. \A h \in got : new[h] # ept[g]
        BY <2>4, <3>5 DEF Nowhere2, Guests
      <4> QED
        BY <2>5, <3>1, <3>2, <3>5, <4>1, <4>2
    <3>6. CASE g \notin got /\ g # Screen /\ ept[g] \notin Frame
      BY <2>3, <3>1, <3>2, <3>6
    <3> QED
      BY <3>3, <3>4, <3>5, <3>6
  <2>7. Ram' = [g \in GPage |-> IF g \in got THEN Zero ELSE IF g = Screen THEN None ELSE Ram[g]]
    <3>1. Ram' = [g \in GPage |-> Ram'[g]]
      BY DEF Ram
    <3> QED
      BY <2>6, <3>1
  <2>8. Machine!Provide(got)
    BY <1>1, <2>1, <2>7, SameOperators
    DEF Machine!Provide, Machine!Interrupted, Open, Ram, Registers, Pending, Phase
  <2> QED
    BY <2>8 DEF Machine!Next
<1> QED
  BY <1>2, <1>3

LEMMA MachineLoaded ==
  ASSUME Inv, NEW g \in GPage, NEW k \in Cell, NEW n \in 1 .. PageSize,
         NEW text \in [1 .. n -> Value \ {0}], sys_mmap_mem(g, k, text)
  PROVE  Machine!Next
<1> USE VmxAssumption
<1>1. CASE Phase' = "gone"
  BY <1>1, MachineGone
<1>2. CASE Phase' # "gone"
  <2>1. host' = host
    BY <1>2, Empties DEF sys_mmap_mem, Phase
  <2>2. UNCHANGED <<Registers, Pending, Phase, vmcs.guest>>
    BY <2>1, PhaseUnchanged DEF sys_mmap_mem, vcpu
  <2>3. Open
    BY CallableOpen DEF sys_mmap_mem
  <2>4. PICK f \in free :
          ept' = [ept EXCEPT ![g] = f] /\ mem' = Followed([mem EXCEPT ![f] = Page(k, text)], ept')
    BY DEF sys_mmap_mem, Page
  <2>5. /\ f \in Frame /\ Nowhere2 /\ mem \in [Frame -> [Cell -> Value]]
        /\ ept \in [GPage -> Frame \cup {None, Video}]
    BY DEF Inv, Memory, MemoryType
  <2>6. \A h \in GPage : ept'[h] = IF h = g THEN f ELSE ept[h]
    BY <2>4, <2>5
  <2>7. ASSUME NEW h \in GPage, ept'[h] \in Frame
        PROVE  mem'[ept'[h]] = IF ept'[h] = f THEN Page(k, text) ELSE mem[ept'[h]]
    BY <2>4, <2>5, <2>7 DEF Followed
  <2>8. ASSUME NEW h \in GPage
        PROVE  Ram'[h] = IF h = g THEN Page(k, text) ELSE Ram[h]
    <3>1. Ram'[h] = IF ept'[h] \in Frame THEN mem'[ept'[h]] ELSE None
      BY DEF Ram
    <3>2. Ram[h] = IF ept[h] \in Frame THEN mem[ept[h]] ELSE None
      BY DEF Ram
    <3>3. CASE h = g
      BY <2>5, <2>6, <2>7, <3>1, <3>3
    <3>4. CASE h # g /\ ept[h] \in Frame
      <4>1. ept[h] # f
        BY <2>5, <3>4 DEF Nowhere2, Guests
      <4> QED
        BY <2>6, <2>7, <3>1, <3>2, <3>4, <4>1
    <3>5. CASE h # g /\ ept[h] \notin Frame
      BY <2>6, <3>1, <3>2, <3>5
    <3> QED
      BY <3>3, <3>4, <3>5
  <2>9. Ram' = [Ram EXCEPT ![g] = Page(k, text)]
    <3>1. Ram' = [h \in GPage |-> Ram'[h]] /\ Ram = [h \in GPage |-> Ram[h]]
      BY DEF Ram
    <3> QED
      BY <2>8, <3>1
  <2>10. Machine!Load(g, k, text)
    BY <2>2, <2>3, <2>9, SameOperators
    DEF Machine!Load, Machine!Cell, Machine!Interrupted, Open, Page, Cell, Ram, Registers, Pending,
        Phase
  <2>11. text \in [1 .. n -> Value] /\ k \in Machine!Cell
    BY SameOperators
  <2> QED
    BY <2>10, <2>11 DEF Machine!Next
<1> QED
  BY <1>1, <1>2

LEMMA MachineStores ==
  ASSUME Inv, GuestStores
  PROVE  Machine!Next
<1> USE VmxAssumption
<1>1. PICK g \in GPage, c \in Cell, v \in Value :
        ept[g] \in Frame /\ mem' = [mem EXCEPT ![ept[g]][c] = v]
  BY DEF GuestStores
<1>2. /\ PagesApart /\ mem \in [Frame -> [Cell -> Value]] /\ ept' = ept /\ host.at = "guest"
      /\ UNCHANGED <<Registers, Pending, Phase, vmcs.guest>>
  BY PhaseUnchanged DEF Inv, Memory, MemoryType, GuestStores
<1>3. Ram[g] = mem[ept[g]] /\ Ram[g] # None
  BY <1>1, <1>2 DEF Ram, Cell
<1>4. ASSUME NEW h \in GPage
      PROVE  Ram'[h] = IF h = g THEN [Ram[g] EXCEPT ![c] = v] ELSE Ram[h]
  <2>1. Ram'[h] = IF ept[h] \in Frame THEN mem'[ept[h]] ELSE None
    BY <1>2 DEF Ram
  <2>2. Ram[h] = IF ept[h] \in Frame THEN mem[ept[h]] ELSE None
    BY DEF Ram
  <2>3. h # g /\ ept[h] \in Frame => ept[h] # ept[g]
    BY <1>1, <1>2 DEF PagesApart
  <2> QED
    BY <1>1, <1>2, <1>3, <2>1, <2>2, <2>3
<1>5. Ram' = [Ram EXCEPT ![g][c] = v]
  <2>1. Ram' = [h \in GPage |-> Ram'[h]] /\ Ram = [h \in GPage |-> Ram[h]]
    BY DEF Ram
  <2> QED
    BY <1>4, <2>1
<1>6. Phase = "runs"
  BY <1>2 DEF Phase, Inv, Vcpu
<1>7. \E x \in {h \in GPage : Ram[h] # None}, d \in Machine!Cell, w \in Value :
        Ram' = [Ram EXCEPT ![x][d] = w]
  BY <1>3, <1>5, SameOperators
<1>8. Machine!Instruction
  BY <1>2, <1>6, <1>7 DEF Machine!Instruction, Ram, Registers, Pending, Phase
<1> QED
  BY <1>8 DEF Machine!Next

LEMMA MachineLaunched ==
  ASSUME Inv, RunFirst
  PROVE  Machine!Next
<1>1. /\ host.at \in {"ready", "window"} /\ ~vmcs.launched /\ host' = In("guest") /\ gpr' \in Gpr
      /\ vmcs' = [vmcs EXCEPT !.launched = TRUE] /\ UNCHANGED <<mem, ept>>
  BY DEF RunFirst, Callable, memory
<1>2. vmcs'.guest = vmcs.guest /\ vmcs'.inject = vmcs.inject /\ vmcs'.launched
  BY <1>1 DEF Inv, Vcpu
<1>3. Phase = "off" /\ Phase' = "runs" /\ Registers' = gpr' /\ Pending' = Pending
  BY <1>1, <1>2, Empties DEF Phase, Registers, Pending
<1>4. Machine!Launch
  BY <1>1, <1>2, <1>3, RamUnchanged, SameOperators
  DEF Machine!Launch, Ram, Registers, Pending, Phase
<1> QED
  BY <1>4 DEF Machine!Next

(* A second run_vm in the window: the machine allows what it does to the   *)
(* registers.                                                              *)
LEMMA MachineRunAgain ==
  ASSUME Inv, RunAgain
  PROVE  Machine!Next
<1>1. /\ host.at = "window" /\ vmcs.launched /\ allregs' \in Gpr
      /\ UNCHANGED <<mem, ept, host, gpr, vmcs>>
  BY RegistersKept DEF RunAgain, memory
<1>2. Phase = "trapped" /\ Phase' = Phase /\ Pending # None /\ Pending' = Pending
      /\ Registers' = allregs' /\ vmcs.guest' = vmcs.guest
  BY <1>1 DEF Phase, Pending, Registers, Inv, Vcpu
<1>3. Machine!RunAgain
  BY <1>1, <1>2, RamUnchanged, SameOperators
  DEF Machine!RunAgain, Machine!Interrupted, Ram, Registers, Pending, Phase
<1> QED
  BY <1>3 DEF Machine!Next

LEMMA MachineRun ==
  ASSUME Inv, sys_run_vm
  PROVE  Machine!Next
<1>1. CASE RunNothing
  <2>1. Phase' = "gone"
    BY <1>1, Empties DEF RunNothing, Phase
  <2> QED
    BY <2>1, MachineGone
<1> QED
  BY <1>1, MachineLaunched, MachineRunAgain DEF sys_run_vm

LEMMA MachineComputes ==
  ASSUME Inv, GuestComputes
  PROVE  Machine!Next
<1>1. PICK rip \in 0 .. 1, flag \in BOOLEAN :
        vmcs' = [vmcs EXCEPT !.guest.rip = rip, !.guest.if = flag]
  BY DEF GuestComputes
<1>2. host.at = "guest" /\ host' = host /\ gpr' \in Gpr /\ UNCHANGED <<mem, ept>>
  BY DEF GuestComputes, memory
<1>3. /\ vmcs'.guest = [vmcs.guest EXCEPT !.rip = rip, !.if = flag]
      /\ vmcs'.inject = vmcs.inject
  BY <1>1 DEF Inv, Vcpu
<1>4. Phase = "runs" /\ Phase' = "runs" /\ Registers' = gpr' /\ Pending' = Pending
  BY <1>1, <1>2, <1>3 DEF Phase, Registers, Pending, Inv, Vcpu
<1>5. Machine!Instruction
  BY <1>2, <1>3, <1>4, RamUnchanged, SameOperators
  DEF Machine!Instruction, Ram, Registers, Pending, Phase
<1> QED
  BY <1>5 DEF Machine!Next

LEMMA MachineTraps ==
  ASSUME Inv, NEW r \in Reason, NEW v \in Vector \cup {None}, VmExit(r, v)
  PROVE  Machine!Next
<1>1. /\ host.at = "guest" /\ host' = [at |-> "exit", reason |-> r, vector |-> v]
      /\ allregs' = gpr /\ vmcs' = vmcs /\ UNCHANGED <<mem, ept>>
  BY RegistersKept DEF VmExit, memory, Inv, Vcpu
<1>2. Phase = "runs" /\ Phase' = "trapped" /\ Registers' = Registers /\ Pending' = v
  BY <1>1 DEF Phase, Registers, Pending, Inv, Vcpu
<1>3. Machine!Trap
  BY <1>1, <1>2, RamUnchanged DEF Machine!Trap, Ram, Registers, Pending, Phase
<1> QED
  BY <1>3 DEF Machine!Next

LEMMA MachineHandled ==
  ASSUME Inv, Handle
  PROVE  Machine!Next
<1>1. /\ host.at = "exit" /\ host.reason # "interrupt" /\ host' = In("guest") /\ gpr' = allregs
      /\ vmcs' = [vmcs EXCEPT !.guest.rip = Past(@),
                              !.guest.mode = IF host.reason = "wrmsr" THEN "long" ELSE @]
      /\ UNCHANGED <<mem, ept>>
  BY RegistersKept DEF Handle, memory, Inv, Vcpu
<1>2. PICK mode \in {vmcs.guest.mode, "long"} :
        /\ vmcs'.guest = [vmcs.guest EXCEPT !.rip = 1 - @, !.mode = mode]
        /\ vmcs'.inject = vmcs.inject /\ vmcs'.launched = vmcs.launched
  <2>1. CASE host.reason = "wrmsr"
    BY <1>1, <2>1 DEF Inv, Vcpu, GuestState, Past
  <2>2. CASE host.reason # "wrmsr"
    BY <1>1, <2>2 DEF Inv, Vcpu, GuestState, Past
  <2> QED
    BY <2>1, <2>2
<1>3. Phase = "trapped" /\ Phase' = "runs" /\ Registers' = Registers
  BY <1>1, <1>2, Empties DEF Phase, Registers, Inv, Vcpu
<1>4. Pending = None /\ Pending' = None
  BY <1>1, <1>2, Empties DEF Inv, Vcpu, Pending
<1>5. Machine!Continue
  BY <1>1, <1>2, <1>3, <1>4, RamUnchanged
  DEF Machine!Continue, Ram, Registers, Pending, Phase
<1> QED
  BY <1>5 DEF Machine!Next

LEMMA MachineWindow ==
  ASSUME Inv, handle_intr
  PROVE  UNCHANGED Machine!vars
<1>1. /\ host.at = "exit" /\ host' = In("window") /\ vmcs' = [vmcs EXCEPT !.inject = host.vector]
      /\ UNCHANGED <<mem, ept, gpr, allregs>>
  BY DEF handle_intr, memory
<1>2. /\ vmcs'.guest = vmcs.guest /\ vmcs'.inject = host.vector
      /\ vmcs'.launched = vmcs.launched /\ vmcs.launched
  BY <1>1 DEF Inv, Vcpu
<1>3. Phase' = Phase /\ Registers' = Registers /\ Pending' = Pending
  BY <1>1, <1>2, Empties DEF Phase, Registers, Pending
<1> QED
  BY <1>1, <1>2, <1>3, RamUnchanged, MachineStutters

LEMMA MachineResumes ==
  ASSUME Inv, Resume
  PROVE  Machine!Next
<1>1. CASE host' = In("astray")
  <2>1. Phase' = "gone"
    BY <1>1, Empties DEF Phase
  <2> QED
    BY <2>1, MachineGone
<1>2. CASE host' # In("astray")
  <2>1. /\ host.at = "window" /\ vmcs.launched /\ vmcs.inject # None /\ vmcs.guest.if
        /\ host' = In("guest") /\ gpr' = allregs /\ UNCHANGED <<mem, ept>>
        /\ vmcs' = [vmcs EXCEPT !.inject = None, !.guest.if = FALSE,
                                !.guest.vector = vmcs.inject]
    BY <1>2, RegistersKept DEF Resume, memory, Inv, Vcpu
  <2>2. /\ vmcs'.guest = [vmcs.guest EXCEPT !.if = FALSE, !.vector = vmcs.inject]
        /\ vmcs'.inject = None /\ vmcs'.launched
    BY <2>1 DEF Inv, Vcpu, GuestState
  <2>3. /\ Phase = "trapped" /\ Phase' = "runs" /\ Registers' = Registers
        /\ Pending = vmcs.inject /\ Pending' = None
    BY <2>1, <2>2, Empties DEF Phase, Registers, Pending
  <2>4. Machine!Continue
    BY <2>1, <2>2, <2>3, RamUnchanged
    DEF Machine!Continue, Ram, Registers, Pending, Phase
  <2> QED
    BY <2>4 DEF Machine!Next
<1> QED
  BY <1>1, <1>2

LEMMA MachineNext == Inv /\ [Next]_vars => [Machine!Next]_(Machine!vars)
<1> SUFFICES ASSUME Inv, [Next]_vars PROVE Machine!Next \/ UNCHANGED Machine!vars
  OBVIOUS
<1>1. CASE UNCHANGED <<mem, ept, vcpu>>
  BY <1>1, RamUnchanged, PhaseUnchanged, MachineStutters
<1>2. CASE Fatal
  <2>1. Phase' = "gone"
    BY <1>2, Empties DEF Fatal, Outcome, Phase
  <2> QED
    BY <2>1, MachineGone
<1>3. \A v \in Vector : VmExit("interrupt", v) => Machine!Next
  BY MachineTraps DEF Reason
<1>4. \A r \in Reason \ {"interrupt"} : VmExit(r, None) => Machine!Next
  BY MachineTraps
<1>5. \/ UNCHANGED <<mem, ept, vcpu>> \/ sys_create_vcpu \/ sys_run_vm
      \/ GuestComputes \/ GuestStores \/ Handle \/ handle_intr \/ Resume \/ Fatal
      \/ \E n \in 0 .. High : sys_alloc_vm_mem(n)
      \/ \E g \in GPage, k \in Cell, n \in 1 .. PageSize :
           \E text \in [1 .. n -> Value \ {0}] : sys_mmap_mem(g, k, text)
      \/ \E v \in Vector : VmExit("interrupt", v)
      \/ \E r \in Reason \ {"interrupt"} : VmExit(r, None)
  BY DEF Next, vars, memory, KernelTakes, KernelGives
<1> QED
  BY <1>1, <1>2, <1>3, <1>4, <1>5, MachineReset, MachineRun, MachineComputes, MachineStores,
     MachineHandled, MachineWindow, MachineResumes, MachineProvided, MachineLoaded

(* Whatever system calls, exits, handlers and other processes do in        *)
(* between, the guest's memory and the rest of its cpu change by its own   *)
(* instructions and what the handlers are for, and so do its registers,    *)
(* but for a run_vm in handle_intr's window, which leaves others in their  *)
(* place before the guest goes on (vmx.c 189-247, 321-522).                *)
THEOREM VmxImplementsGuestMachine == Spec => GuestSpec
<1>1. Spec => []Inv
  BY InvInit, InvNext, PTL DEF Spec
<1> QED
  BY <1>1, MachineInit, MachineNext, PTL DEF Spec, GuestSpec, Machine!Spec
=============================================================================

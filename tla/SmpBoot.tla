------------------------------ MODULE SmpBoot ------------------------------
(***************************************************************************)
(* Starting the other processors (amd64): kernel/lapic.c on the boot       *)
(* processor, trampoline_64.S and smp_entry64 of entry.S on the others.    *)
(*                                                                         *)
(* All share one copy of the trampoline, put at TRAMPOLINE_BASE once       *)
(* (mm.c 446), and each adds that base to the three addresses in it: by    *)
(* addl, without lock, so a load and a store.  An address is modelled by   *)
(* the number of times the base has been added.                            *)
(***************************************************************************)
EXTENDS Naturals, FiniteSets, Sequences, SequencesExt

CONSTANTS
  Ids,         \* local APIC ids
  MaxEntries   \* bound on the processor entries of the configuration table

ASSUME SmpAssumption == Ids \subseteq Nat /\ MaxEntries \in Nat \ {0}

VARIABLES
  entries,     \* the configuration table the BIOS left
  bspid,       \* the id of the boot processor
  boot,        \* startup_smp: the table index, the command that is next
  at,          \* where each processor is
  reg,         \* what an addl has loaded
  fixed,       \* how often the base is in each address of the trampoline
  bspdone, aprunning

vars == <<entries, bspid, boot, at, reg, fixed, bspdone, aprunning>>

Address == {"gdt", "startup_32_vector", "startup_64_vector"}

(* The trampoline and smp_entry64, in the order they run. *)
Path == <<"load32", "store32", "load64", "store64", "loadgdt", "storegdt",
          "lgdt", "jump32", "jump64", "spin", "count", "ap_startup">>
Place == ToSet(Path) \cup {"halted", "wait", "boot", "reset", "astray"}
After(place) == Path[1 + CHOOSE k \in 1 .. Len(Path) - 1 : Path[k] = place]

(* The address a step of the trampoline is about. *)
Touches ==
  [p \in {"load32", "store32", "load64", "store64", "loadgdt", "storegdt",
          "lgdt", "jump32", "jump64"} |->
     IF p \in {"loadgdt", "storegdt", "lgdt"} THEN "gdt"
     ELSE IF p \in {"load32", "store32", "jump32"} THEN "startup_32_vector"
     ELSE "startup_64_vector"]

(* init_mp_config: the ids of the processor entries, of disabled ones too, *)
(* in the order of the table.                                              *)
Cores == {k \in DOMAIN entries : entries[k].type = "processor"}
numcores == Cardinality(Cores)
lapic_ids ==
  [i \in 1 .. numcores |->
     entries[CHOOSE k \in Cores : Cardinality({j \in Cores : j <= k}) = i].id]

(* The processors there are. *)
Processors == {entries[k].id : k \in {j \in Cores : entries[j].enabled}}

------------------------------------------------------------------------------

Entry == [type : {"processor"}, id : Ids, enabled : BOOLEAN]
         \cup [type : {"io_apic"}, id : {0}, enabled : {TRUE}]

(* The table lists a processor once, and the boot processor. *)
Listed(es) ==
  \A j, k \in DOMAIN es :
    j # k /\ es[j].type = "processor" /\ es[k].type = "processor" => es[j].id # es[k].id

Init ==
  /\ \E n \in 1 .. MaxEntries : entries \in {es \in [1 .. n -> Entry] : Listed(es)}
  /\ bspid \in Processors
  /\ boot = [i |-> 0, next |-> "init"]
  /\ at = [p \in Processors |-> IF p = bspid THEN "boot" ELSE "halted"]
  /\ reg = [p \in Processors |-> 0]
  /\ fixed = [a \in Address |-> 0]
  /\ bspdone = FALSE
  /\ aprunning = 0

Booting == at[bspid] = "boot"

(* Slip: counted from one. *)
SlipOneBased(i) == i + 1

(* Commands go to the index in the table, not to the id found there. *)
Destination(i) == i

(* startup_smp: the boot processor passes over itself, *)
SkipSelf ==
  /\ Booting /\ boot.i < numcores
  /\ lapic_ids[boot.i + 1] = bspid
  /\ boot' = [boot EXCEPT !.i = @ + 1]
  /\ UNCHANGED <<entries, bspid, at, reg, fixed, bspdone, aprunning>>

(* resets a processor, be it itself, *)
SendInit ==
  /\ Booting /\ boot.i < numcores /\ boot.next = "init"
  /\ lapic_ids[boot.i + 1] # bspid
  /\ boot' = [boot EXCEPT !.next = "startup1"]
  /\ at' = [p \in Processors |-> IF p # Destination(boot.i) THEN at[p]
                                 ELSE IF p = bspid THEN "reset" ELSE "wait"]
  /\ UNCHANGED <<entries, bspid, reg, fixed, bspdone, aprunning>>

(* and starts it, twice: the second command is lost on one that runs. *)
SendStartup ==
  /\ Booting /\ boot.next # "init"
  /\ boot' = IF boot.next = "startup1" THEN [boot EXCEPT !.next = "startup2"]
             ELSE [i |-> boot.i + 1, next |-> "init"]
  /\ at' = [p \in Processors |->
              IF p = Destination(boot.i) /\ at[p] = "wait" THEN Path[1] ELSE at[p]]
  /\ UNCHANGED <<entries, bspid, reg, fixed, bspdone, aprunning>>

commence_smp ==
  /\ Booting /\ boot.i = numcores /\ ~bspdone
  /\ bspdone' = TRUE
  /\ UNCHANGED <<entries, bspid, boot, at, reg, fixed, aprunning>>

------------------------------------------------------------------------------
(* The other processors *)

Goes(p, place) == at' = [at EXCEPT ![p] = place]

(* addl %esi, address *)
Load(p) ==
  /\ at[p] \in {"load32", "load64", "loadgdt"}
  /\ reg' = [reg EXCEPT ![p] = fixed[Touches[at[p]]]]
  /\ Goes(p, After(at[p]))
  /\ UNCHANGED <<entries, bspid, boot, fixed, bspdone, aprunning>>

(* Slips: the base is not added, or once too often. *)
SlipKept(n) == n
SlipTwice(n) == n + 2

Added(n) == n + 1

Store(p) ==
  /\ at[p] \in {"store32", "store64", "storegdt"}
  /\ fixed' = [fixed EXCEPT ![Touches[at[p]]] = Added(reg[p])]
  /\ reg' = [reg EXCEPT ![p] = 0]
  /\ Goes(p, After(at[p]))
  /\ UNCHANGED <<entries, bspid, boot, bspdone, aprunning>>

(* lgdtl and the two jumps: right if the base is in the address once. *)
Follow(p) ==
  /\ at[p] \in {"lgdt", "jump32", "jump64"}
  /\ Goes(p, IF fixed[Touches[at[p]]] = 1 THEN After(at[p]) ELSE "astray")
  /\ UNCHANGED <<entries, bspid, boot, reg, fixed, bspdone, aprunning>>

(* Slip: the test for the wrong value. *)
SlipGateOpen(done) == ~done

GateOpen(done) == done

(* smp_entry64: on the stack of its id, until bspdone. *)
Spin(p) ==
  /\ at[p] = "spin" /\ GateOpen(bspdone)
  /\ Goes(p, After("spin"))
  /\ UNCHANGED <<entries, bspid, boot, reg, fixed, bspdone, aprunning>>

(* lock incb aprunning; ap_startup stays where it is. *)
Count(p) ==
  /\ at[p] = "count"
  /\ aprunning' = aprunning + 1
  /\ Goes(p, After("count"))
  /\ UNCHANGED <<entries, bspid, boot, reg, fixed, bspdone>>

BootStep == SkipSelf \/ SendInit \/ SendStartup \/ commence_smp
ApStep(p) == Load(p) \/ Store(p) \/ Follow(p) \/ Spin(p) \/ Count(p)

Next == BootStep \/ \E p \in Processors : ApStep(p)

(* Every processor that is started runs: no one is scheduled. *)
Spec == /\ Init /\ [][Next]_vars
        /\ WF_vars(BootStep)
        /\ \A p \in Ids : WF_vars(p \in Processors /\ ApStep(p))

------------------------------------------------------------------------------
(* Properties *)

(* The shape of the state. *)
TypeOK ==
  /\ boot \in [i : 0 .. numcores, next : {"init", "startup1", "startup2"}]
  /\ at \in [Processors -> Place]
  /\ reg \in [Processors -> 0 .. Cardinality(Processors) - 1]
  /\ fixed \in [Address -> 0 .. Cardinality(Processors) - 1]
  /\ bspdone \in BOOLEAN /\ aprunning \in 0 .. Cardinality(Processors) - 1

Entered(p) == at[p] \notin {"halted", "wait", "boot", "reset"}
Started == {p \in Processors : at[p] \in {"spin", "count", "ap_startup"}}

(* A processor goes astray in the trampoline only if another went through  *)
(* it as well: nothing but a second addition makes an address wrong, and a *)
(* processor never follows one before its own (trampoline_64.S 18-59).     *)
AloneNeverAstray ==
  \A p \in Processors : at[p] = "astray" => \E q \in Processors \ {p} : Entered(q)

(* The others stay in smp_entry64 until the boot processor has sent its    *)
(* last command, and aprunning is how many have left it (entry.S 77-83,    *)
(* lapic.c 245-249).                                                       *)
HeldAtGate ==
  LET out == {p \in Processors : at[p] \in {"count", "ap_startup"}}
  IN  /\ out # {} => bspdone /\ boot.i = numcores
      /\ aprunning = Cardinality({p \in out : at[p] = "ap_startup"})

(* The ids are the indices of the table: what the code takes them for. *)
InOrder == \A k \in DOMAIN lapic_ids : lapic_ids[k] = k - 1

(* With the ids in order, the boot processor and one other, the other is   *)
(* started (lapic.c 201-243).                                              *)
OneOtherStarts ==
  InOrder /\ Cardinality(Processors) = 2 => <>(Cardinality(Started) = 1 /\ aprunning = 1)

(* Unless the boot processor resets itself, every processor a command went *)
(* to ends in ap_startup or astray: none waits for bspdone for ever.       *)
Settles ==
  Booting ~> \/ ~Booting
             \/ /\ bspdone
                /\ \A p \in Processors \ {bspid} : at[p] \in {"halted", "ap_startup", "astray"}
=============================================================================

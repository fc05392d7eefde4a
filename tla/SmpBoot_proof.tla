---------------------------- MODULE SmpBoot_proof ----------------------------
(***************************************************************************)
(* What is proved of the start of the other processors, for any number of  *)
(* them and any configuration table: how often the base can have been      *)
(* added to the addresses of the trampoline, and who passes the gate.      *)
(***************************************************************************)
EXTENDS SmpBoot, FiniteSetTheorems, TLAPS

(* The places of the trampoline and of smp_entry64. *)
Inside == {"load32", "store32", "load64", "store64", "loadgdt", "storegdt", "lgdt",
           "jump32", "jump64", "spin", "count", "ap_startup", "astray"}

LEMMA PlaceIs == Place = Inside \cup {"halted", "wait", "boot", "reset"}
<1>1. /\ DOMAIN Path = 1 .. 12
      /\ Path[1] = "load32" /\ Path[2] = "store32" /\ Path[3] = "load64"
      /\ Path[4] = "store64" /\ Path[5] = "loadgdt" /\ Path[6] = "storegdt"
      /\ Path[7] = "lgdt" /\ Path[8] = "jump32" /\ Path[9] = "jump64"
      /\ Path[10] = "spin" /\ Path[11] = "count" /\ Path[12] = "ap_startup"
  BY DEF Path
<1>2. ToSet(Path) = {Path[k] : k \in 1 .. 12}
  BY <1>1 DEF ToSet
<1>3. \A k \in 1 .. 12 : k = 1 \/ k = 2 \/ k = 3 \/ k = 4 \/ k = 5 \/ k = 6 \/ k = 7
                        \/ k = 8 \/ k = 9 \/ k = 10 \/ k = 11 \/ k = 12
  OBVIOUS
<1>4. ToSet(Path) = Inside \ {"astray"}
  BY <1>1, <1>2, <1>3 DEF Inside
<1> QED
  BY <1>4 DEF Place, Inside

LEMMA AfterIs ==
  /\ After("load32") = "store32"
  /\ After("store32") = "load64"
  /\ After("load64") = "store64"
  /\ After("store64") = "loadgdt"
  /\ After("loadgdt") = "storegdt"
  /\ After("storegdt") = "lgdt"
  /\ After("lgdt") = "jump32"
  /\ After("jump32") = "jump64"
  /\ After("jump64") = "spin"
  /\ After("spin") = "count"
  /\ After("count") = "ap_startup"
<1>0. /\ Len(Path) = 12
      /\ Path[1] = "load32" /\ Path[2] = "store32" /\ Path[3] = "load64"
      /\ Path[4] = "store64" /\ Path[5] = "loadgdt" /\ Path[6] = "storegdt"
      /\ Path[7] = "lgdt" /\ Path[8] = "jump32" /\ Path[9] = "jump64"
      /\ Path[10] = "spin" /\ Path[11] = "count" /\ Path[12] = "ap_startup"
  BY DEF Path
<1>1. After("load32") = "store32"
  <2>1. \A k \in 1 .. 11 : Path[k] = "load32" <=> k = 1
    BY <1>0
  <2>2. (CHOOSE k \in 1 .. Len(Path) - 1 : Path[k] = "load32") = 1
    BY <1>0, <2>1
  <2> QED
    BY <1>0, <2>2 DEF After
<1>2. After("store32") = "load64"
  <2>1. \A k \in 1 .. 11 : Path[k] = "store32" <=> k = 2
    BY <1>0
  <2>2. (CHOOSE k \in 1 .. Len(Path) - 1 : Path[k] = "store32") = 2
    BY <1>0, <2>1
  <2> QED
    BY <1>0, <2>2 DEF After
<1>3. After("load64") = "store64"
  <2>1. \A k \in 1 .. 11 : Path[k] = "load64" <=> k = 3
    BY <1>0
  <2>2. (CHOOSE k \in 1 .. Len(Path) - 1 : Path[k] = "load64") = 3
    BY <1>0, <2>1
  <2> QED
    BY <1>0, <2>2 DEF After
<1>4. After("store64") = "loadgdt"
  <2>1. \A k \in 1 .. 11 : Path[k] = "store64" <=> k = 4
    BY <1>0
  <2>2. (CHOOSE k \in 1 .. Len(Path) - 1 : Path[k] = "store64") = 4
    BY <1>0, <2>1
  <2> QED
    BY <1>0, <2>2 DEF After
<1>5. After("loadgdt") = "storegdt"
  <2>1. \A k \in 1 .. 11 : Path[k] = "loadgdt" <=> k = 5
    BY <1>0
  <2>2. (CHOOSE k \in 1 .. Len(Path) - 1 : Path[k] = "loadgdt") = 5
    BY <1>0, <2>1
  <2> QED
    BY <1>0, <2>2 DEF After
<1>6. After("storegdt") = "lgdt"
  <2>1. \A k \in 1 .. 11 : Path[k] = "storegdt" <=> k = 6
    BY <1>0
  <2>2. (CHOOSE k \in 1 .. Len(Path) - 1 : Path[k] = "storegdt") = 6
    BY <1>0, <2>1
  <2> QED
    BY <1>0, <2>2 DEF After
<1>7. After("lgdt") = "jump32"
  <2>1. \A k \in 1 .. 11 : Path[k] = "lgdt" <=> k = 7
    BY <1>0
  <2>2. (CHOOSE k \in 1 .. Len(Path) - 1 : Path[k] = "lgdt") = 7
    BY <1>0, <2>1
  <2> QED
    BY <1>0, <2>2 DEF After
<1>8. After("jump32") = "jump64"
  <2>1. \A k \in 1 .. 11 : Path[k] = "jump32" <=> k = 8
    BY <1>0
  <2>2. (CHOOSE k \in 1 .. Len(Path) - 1 : Path[k] = "jump32") = 8
    BY <1>0, <2>1
  <2> QED
    BY <1>0, <2>2 DEF After
<1>9. After("jump64") = "spin"
  <2>1. \A k \in 1 .. 11 : Path[k] = "jump64" <=> k = 9
    BY <1>0
  <2>2. (CHOOSE k \in 1 .. Len(Path) - 1 : Path[k] = "jump64") = 9
    BY <1>0, <2>1
  <2> QED
    BY <1>0, <2>2 DEF After
<1>10. After("spin") = "count"
  <2>1. \A k \in 1 .. 11 : Path[k] = "spin" <=> k = 10
    BY <1>0
  <2>2. (CHOOSE k \in 1 .. Len(Path) - 1 : Path[k] = "spin") = 10
    BY <1>0, <2>1
  <2> QED
    BY <1>0, <2>2 DEF After
<1>11. After("count") = "ap_startup"
  <2>1. \A k \in 1 .. 11 : Path[k] = "count" <=> k = 11
    BY <1>0
  <2>2. (CHOOSE k \in 1 .. Len(Path) - 1 : Path[k] = "count") = 11
    BY <1>0, <2>1
  <2> QED
    BY <1>0, <2>2 DEF After
<1> QED
  BY <1>1, <1>2, <1>3, <1>4, <1>5, <1>6, <1>7, <1>8, <1>9, <1>10, <1>11

(* The places behind the store to an address; going astray comes after all *)
(* three of them.                                                          *)
AfterStore(a) ==
  Inside \ ({"load32", "store32"}
             \cup (IF a = "startup_32_vector" THEN {} ELSE {"load64", "store64"})
             \cup (IF a = "gdt" THEN {"loadgdt", "storegdt"} ELSE {}))
Storing == {"store32", "store64", "storegdt"}

(* The processors whose addition is in the address. *)
Past(a) == {p \in Processors : at[p] \in AfterStore(a)}

Shape ==
  /\ numcores \in Nat /\ IsFiniteSet(Processors) /\ Processors \subseteq Nat
  /\ bspid \in Processors
  /\ boot \in [i : 0 .. numcores, next : {"init", "startup1", "startup2"}]
  /\ at \in [Processors -> Place]
  /\ reg \in [Processors -> Nat] /\ fixed \in [Address -> Nat]
  /\ bspdone \in BOOLEAN

(* Commands reach each processor once, and start no one that runs. *)
InTurn ==
  /\ at[bspid] \in {"boot", "reset"}
  /\ \A p \in Processors \ {bspid} : at[p] \notin {"boot", "reset"}
  /\ boot.next # "init" => boot.i < numcores /\ lapic_ids[boot.i + 1] # bspid
  /\ \A p \in Processors : at[p] \in Inside \cup {"wait"} =>
       p < boot.i \/ (p = boot.i /\ boot.next # "init")

Gate ==
  /\ bspdone => boot.i = numcores
  /\ \A p \in Processors : at[p] \in {"count", "ap_startup"} => bspdone
  /\ aprunning = Cardinality({p \in Processors : at[p] = "ap_startup"})

(* An addl that has loaded: no more than the additions there are. *)
Loaded(p) ==
  IF at[p] \in Storing THEN reg[p] <= Cardinality(Past(Touches[at[p]])) ELSE reg[p] = 0

(* The base is in an address at most once for everyone who added it, and   *)
(* at least once when there is one.                                        *)
Additions ==
  /\ \A a \in Address : /\ fixed[a] <= Cardinality(Past(a))
                        /\ Past(a) # {} => fixed[a] >= 1
  /\ \A p \in Processors : Loaded(p)

Inv == Shape /\ InTurn /\ Gate /\ Additions /\ AloneNeverAstray

LEMMA Counted ==
  ASSUME NEW S, IsFiniteSet(S), NEW b \in S, NEW Q \in SUBSET S, b \notin Q
  PROVE  /\ IsFiniteSet(Q) /\ Cardinality(Q) \in Nat /\ Cardinality(S) \in Nat
         /\ Cardinality(Q) <= Cardinality(S) - 1
         /\ \A p \in S \ Q : Cardinality(Q \cup {p}) = Cardinality(Q) + 1
<1>1. IsFiniteSet(Q) /\ Cardinality(Q) \in Nat /\ Cardinality(S) \in Nat
  BY FS_Subset, FS_CardinalityType
<1>2. IsFiniteSet(S \ {b}) /\ Cardinality(S \ {b}) = Cardinality(S) - 1
  BY FS_RemoveElement
<1>3. Q \in SUBSET (S \ {b})
  OBVIOUS
<1>4. Cardinality(Q) <= Cardinality(S \ {b})
  BY <1>2, <1>3, FS_Subset
<1>5. \A p \in S \ Q : Cardinality(Q \cup {p}) = Cardinality(Q) + 1
  BY <1>1, FS_AddElement
<1> QED
  BY <1>1, <1>2, <1>4, <1>5

LEMMA InvTypeOK == Inv => TypeOK
<1> SUFFICES ASSUME Inv PROVE TypeOK
  OBVIOUS
<1> USE DEF Inv, Shape
<1>1. \A Q \in SUBSET (Processors \ {bspid}) :
        Cardinality(Q) \in Nat /\ Cardinality(Q) <= Cardinality(Processors) - 1
  BY Counted
<1>2. Cardinality(Processors) - 1 \in Nat
  <2>1. Cardinality({}) = 0 /\ {} \in SUBSET (Processors \ {bspid})
    BY FS_EmptySet
  <2>2. Cardinality(Processors) \in Nat
    BY FS_CardinalityType
  <2> QED
    BY <1>1, <2>1, <2>2
<1>3. \A a \in Address : Past(a) \in SUBSET (Processors \ {bspid})
  BY DEF Past, AfterStore, Inside, InTurn
<1>4. ASSUME NEW a \in Address PROVE fixed[a] \in 0 .. Cardinality(Processors) - 1
  BY <1>1, <1>2, <1>3 DEF Additions, Loaded
<1>5. ASSUME NEW p \in Processors PROVE reg[p] \in 0 .. Cardinality(Processors) - 1
  <2>1. CASE at[p] \in Storing
    <3>1. Touches[at[p]] \in Address
      BY <2>1 DEF Touches, Address, Storing
    <3>2. reg[p] <= Cardinality(Past(Touches[at[p]]))
      BY <2>1 DEF Additions, Loaded
    <3> QED
      BY <1>1, <1>2, <1>3, <3>1, <3>2
  <2>2. CASE at[p] \notin Storing
    BY <1>2, <2>2 DEF Additions, Loaded
  <2> QED
    BY <2>1, <2>2
<1>6. aprunning \in 0 .. Cardinality(Processors) - 1
  <2>1. {p \in Processors : at[p] = "ap_startup"} \in SUBSET (Processors \ {bspid})
    BY DEF InTurn
  <2> QED
    BY <1>1, <1>2, <2>1 DEF Gate
<1> QED
  BY <1>4, <1>5, <1>6 DEF TypeOK

LEMMA InvHeldAtGate == Inv => HeldAtGate
<1> SUFFICES ASSUME Inv PROVE HeldAtGate
  OBVIOUS
<1>1. {p \in {q \in Processors : at[q] \in {"count", "ap_startup"}} : at[p] = "ap_startup"}
        = {p \in Processors : at[p] = "ap_startup"}
  OBVIOUS
<1> QED
  BY <1>1 DEF HeldAtGate, Inv, Gate

------------------------------------------------------------------------------

LEMMA InvInit == Init => Inv
<1> SUFFICES ASSUME Init PROVE Inv
  OBVIOUS
<1>1. PICK n \in 1 .. MaxEntries : entries \in [1 .. n -> Entry]
  BY DEF Init
<1>2. IsFiniteSet(Cores) /\ numcores \in Nat
  <2>1. n \in Nat /\ DOMAIN entries = 1 .. n
    BY <1>1, SmpAssumption
  <2>2. IsFiniteSet(1 .. n)
    BY <2>1, FS_Interval
  <2>3. Cores \in SUBSET (1 .. n)
    BY <2>1 DEF Cores
  <2>4. IsFiniteSet(Cores)
    BY <2>2, <2>3, FS_Subset
  <2> QED
    BY <2>4, FS_CardinalityType DEF numcores
<1>3. IsFiniteSet(Processors)
  <2> DEFINE T == {j \in Cores : entries[j].enabled}
             id == [k \in T |-> entries[k].id]
  <2>1. IsFiniteSet(T)
    BY <1>2, FS_Subset
  <2>2. id \in Surjection(T, Processors)
    BY DEF Processors, Surjection
  <2> HIDE DEF T, id
  <2> QED
    BY <2>1, <2>2, FS_Surjection
<1>4. Processors \subseteq Nat
  <2>1. ASSUME NEW k \in Cores PROVE entries[k].id \in Nat
    BY <1>1, SmpAssumption DEF Cores, Entry
  <2> QED
    BY <2>1 DEF Processors
<1>5. /\ bspid \in Processors /\ boot = [i |-> 0, next |-> "init"]
      /\ at = [p \in Processors |-> IF p = bspid THEN "boot" ELSE "halted"]
      /\ reg = [p \in Processors |-> 0] /\ fixed = [a \in Address |-> 0]
      /\ bspdone = FALSE /\ aprunning = 0
  BY DEF Init
<1> HIDE DEF Init
<1>6. Shape
  <2>1. at \in [Processors -> Place]
    BY <1>5, PlaceIs
  <2>2. boot \in [i : 0 .. numcores, next : {"init", "startup1", "startup2"}]
    BY <1>2, <1>5
  <2> QED
    BY <1>2, <1>3, <1>4, <1>5, <2>1, <2>2 DEF Shape
<1>7. InTurn
  BY <1>5 DEF InTurn, Inside
<1>8. Gate
  <2>1. {p \in Processors : at[p] = "ap_startup"} = {}
    BY <1>5
  <2> QED
    BY <1>5, <2>1, FS_EmptySet DEF Gate
<1>9. Additions
  <2>1. \A a \in Address : Past(a) = {}
    BY <1>5 DEF Past, AfterStore, Inside
  <2> QED
    BY <1>5, <2>1, FS_EmptySet DEF Additions, Loaded, Storing
<1>10. AloneNeverAstray
  BY <1>5 DEF AloneNeverAstray
<1> QED
  BY <1>6, <1>7, <1>8, <1>9, <1>10 DEF Inv

(* The table is not written. *)
LEMMA Table ==
  ASSUME entries' = entries
  PROVE  /\ numcores' = numcores /\ lapic_ids' = lapic_ids
         /\ Processors' = Processors
<1>1. Cores' = Cores
  BY DEF Cores
<1>2. numcores' = numcores /\ Processors' = Processors
  BY <1>1 DEF numcores, Processors
<1>3. lapic_ids' = lapic_ids
  BY <1>1, <1>2 DEF lapic_ids
<1> QED
  BY <1>2, <1>3

LEMMA StoresTouch == \A x \in Storing : Touches[x] \in Address
BY DEF Storing, Touches, Address

(* A command changes where p is, but for a processor that is inside it     *)
(* only lets one more in.                                                  *)
LEMMA Commanded ==
  ASSUME Inv, entries' = entries, UNCHANGED <<bspid, reg, fixed, bspdone, aprunning>>,
         at' \in [Processors -> Place],
         \A p \in Processors : at[p] \in Inside => at'[p] = at[p],
         \A p \in Processors : at[p] \notin Inside /\ at'[p] \in Inside => at'[p] = "load32"
  PROVE  Additions' /\ AloneNeverAstray' /\ aprunning' = Cardinality({p \in Processors : at'[p] = "ap_startup"})
         /\ \A p \in Processors : at'[p] \in {"count", "ap_startup"} => bspdone'
<1> USE Table
<1>1. \A a \in Address : Past(a)' = Past(a)
  <2> SUFFICES ASSUME NEW a \in Address PROVE {p \in Processors : at'[p] \in AfterStore(a)} = Past(a)
    BY DEF Past
  <2>1. AfterStore(a) \subseteq Inside \ {"load32"}
    BY DEF AfterStore
  <2> QED
    BY <2>1 DEF Past
<1>2. ASSUME NEW p \in Processors
      PROVE  IF at'[p] \in Storing THEN reg'[p] <= Cardinality(Past(Touches[at'[p]])) ELSE reg'[p] = 0
  BY DEF Inv, Additions, Loaded, Storing, Inside
<1>3. Additions'
  BY <1>1, <1>2, StoresTouch DEF Additions, Loaded, Inv
<1>4. AloneNeverAstray'
  <2> SUFFICES ASSUME NEW p \in Processors, at'[p] = "astray"
               PROVE  \E q \in Processors \ {p} : Entered(q)'
    BY DEF AloneNeverAstray
  <2>1. at[p] = "astray"
    BY DEF Inside
  <2>2. PICK q \in Processors \ {p} : Entered(q)
    BY <2>1 DEF Inv, AloneNeverAstray
  <2>3. at[q] \in Inside
    BY <2>2, PlaceIs DEF Inv, Shape, Entered
  <2> QED
    BY <2>2, <2>3 DEF Entered
<1>5. {p \in Processors : at'[p] = "ap_startup"} = {p \in Processors : at[p] = "ap_startup"}
  BY DEF Inside
<1>6. \A p \in Processors : at'[p] \in {"count", "ap_startup"} => bspdone'
  BY DEF Inside, Inv, Gate
<1> QED
  BY <1>3, <1>4, <1>5, <1>6 DEF Inv, Gate

LEMMA InvBootStep == Inv /\ BootStep => Inv'
<1> SUFFICES ASSUME Inv, BootStep PROVE Inv'
  OBVIOUS
<1>1. Shape /\ InTurn /\ Gate
  BY DEF Inv
<1>2. entries' = entries /\ UNCHANGED <<bspid, reg, fixed, aprunning>> /\ at[bspid] = "boot"
  BY DEF BootStep, SkipSelf, SendInit, SendStartup, commence_smp, Booting
<1>3. Processors' = Processors /\ numcores' = numcores /\ lapic_ids' = lapic_ids
  BY <1>2, Table
<1>4. CASE SkipSelf \/ commence_smp
  <2>1. at' = at /\ boot.next = "init" /\ boot'.next = "init"
        /\ boot' \in [i : 0 .. numcores, next : {"init", "startup1", "startup2"}]
        /\ (boot'.i = boot.i \/ boot'.i = boot.i + 1) /\ bspdone' \in BOOLEAN
        /\ (bspdone' => boot'.i = numcores) /\ (bspdone => bspdone')
    <3>1. CASE SkipSelf
      BY <1>1, <3>1 DEF SkipSelf, Shape, InTurn, Gate
    <3>2. CASE commence_smp
      BY <1>1, <3>2 DEF commence_smp, Shape, InTurn, Gate
    <3> QED
      BY <1>4, <3>1, <3>2
  <2>2. Shape'
    BY <1>1, <1>2, <1>3, <2>1 DEF Shape
  <2>3. InTurn'
    BY <1>1, <1>2, <1>3, <2>1 DEF InTurn, Shape
  <2>4. Gate'
    BY <1>1, <1>2, <1>3, <2>1 DEF Gate
  <2>5. Additions'
    <3>1. \A a \in Address : Past(a)' = Past(a)
      BY <1>3, <2>1 DEF Past
    <3> QED
      BY <1>2, <1>3, <2>1, <3>1, StoresTouch DEF Additions, Loaded, Inv
  <2>6. AloneNeverAstray'
    BY <1>3, <2>1 DEF AloneNeverAstray, Entered, Inv
  <2> QED
    BY <2>2, <2>3, <2>4, <2>5, <2>6 DEF Inv
<1>5. CASE SendInit \/ SendStartup
  <2>1. /\ at' \in [Processors -> Place] /\ bspdone' = bspdone /\ boot.i < numcores
        /\ boot' \in [i : 0 .. numcores, next : {"init", "startup1", "startup2"}]
        /\ boot.i \in Nat
    <3>1. CASE SendInit
      BY <1>1, <3>1, PlaceIs DEF SendInit, Shape
    <3>2. CASE SendStartup
      <4>1. Path[1] = "load32"
        BY DEF Path
      <4> QED
        BY <1>1, <3>2, <4>1, PlaceIs DEF SendStartup, Shape, InTurn, Inside
    <3> QED
      BY <1>5, <3>1, <3>2
  <2>2. /\ \A p \in Processors : at[p] \in Inside => at'[p] = at[p]
        /\ \A p \in Processors : at[p] \notin Inside /\ at'[p] \in Inside => at'[p] = "load32"
        /\ InTurn'
    <3>1. CASE SendInit
      <4>1. /\ boot' = [boot EXCEPT !.next = "startup1"] /\ boot.next = "init"
            /\ lapic_ids[boot.i + 1] # bspid
            /\ \A p \in Processors : at'[p] = IF p # boot.i THEN at[p]
                                              ELSE IF p = bspid THEN "reset" ELSE "wait"
        BY <3>1 DEF SendInit, Destination
      <4>2. \A p \in Processors : at[p] \in Inside \cup {"wait"} => p # boot.i
        BY <1>1, <4>1, <2>1 DEF InTurn, Shape
      <4>3. boot'.i = boot.i /\ boot'.next = "startup1"
        BY <1>1, <4>1 DEF Shape
      <4>4. InTurn'
        BY <1>1, <1>2, <1>3, <2>1, <4>1, <4>2, <4>3 DEF InTurn, Shape, Inside
      <4> QED
        BY <4>1, <4>2, <4>4 DEF Inside
    <3>2. CASE SendStartup
      <4>1. /\ boot.next # "init"
            /\ boot' = IF boot.next = "startup1" THEN [boot EXCEPT !.next = "startup2"]
                       ELSE [i |-> boot.i + 1, next |-> "init"]
            /\ \A p \in Processors : at'[p] = IF p = boot.i /\ at[p] = "wait" THEN "load32" ELSE at[p]
        BY <3>2 DEF SendStartup, Destination, Path
      <4>2. \/ boot'.i = boot.i /\ boot'.next # "init"
            \/ boot'.i = boot.i + 1 /\ boot'.next = "init"
        BY <1>1, <4>1 DEF Shape
      <4>3. \A p \in Processors : p \in Nat
        BY <1>1 DEF Shape
      <4>4. \A p \in Processors : at'[p] \in Inside \cup {"wait"} =>
              p < boot'.i \/ (p = boot'.i /\ boot'.next # "init")
        <5> SUFFICES ASSUME NEW p \in Processors, at'[p] \in Inside \cup {"wait"}
                     PROVE  p < boot'.i \/ (p = boot'.i /\ boot'.next # "init")
          OBVIOUS
        <5>1. at[p] \in Inside \cup {"wait"}
          BY <4>1
        <5>2. p < boot.i \/ p = boot.i
          BY <1>1, <5>1 DEF InTurn
        <5> QED
          <6>1. p \in Nat /\ boot.i \in Nat
            BY <2>1, <4>3
          <6>2. CASE boot'.i = boot.i /\ boot'.next # "init"
            BY <5>2, <6>2
          <6>3. CASE boot'.i = boot.i + 1
            BY <5>2, <6>1, <6>3
          <6> QED
            BY <4>2, <6>2, <6>3
      <4>5. /\ at'[bspid] \in {"boot", "reset"}
            /\ \A p \in Processors \ {bspid} : at'[p] \notin {"boot", "reset"}
        BY <1>1, <4>1 DEF InTurn, Shape
      <4>6. boot'.next # "init" => boot'.i < numcores /\ lapic_ids[boot'.i + 1] # bspid
        BY <1>1, <4>1, <4>2 DEF InTurn
      <4>7. InTurn'
        BY <1>2, <1>3, <4>4, <4>5, <4>6 DEF InTurn
      <4> QED
        BY <4>1, <4>7 DEF Inside
    <3> QED
      BY <1>5, <3>1, <3>2
  <2>3. Shape'
    BY <1>1, <1>2, <1>3, <2>1 DEF Shape
  <2>4. /\ Additions' /\ AloneNeverAstray'
        /\ aprunning' = Cardinality({p \in Processors : at'[p] = "ap_startup"})
        /\ \A p \in Processors : at'[p] \in {"count", "ap_startup"} => bspdone'
    BY <1>2, <2>1, <2>2, Commanded
  <2>5. Gate'
    BY <1>1, <1>3, <2>1, <2>4 DEF Gate, Shape
  <2> QED
    BY <2>2, <2>3, <2>4, <2>5 DEF Inv
<1> QED
  BY <1>4, <1>5 DEF BootStep

------------------------------------------------------------------------------
(* The steps of the others *)

(* A processor in the trampoline or behind it goes on: nobody's turn       *)
(* changes, and it is not the boot processor.                              *)
LEMMA GoesOn ==
  ASSUME Inv, entries' = entries, UNCHANGED <<bspid, boot>>,
         NEW p \in Processors, at[p] \in Inside, NEW y \in Inside, Goes(p, y)
  PROVE  /\ at' \in [Processors -> Place] /\ InTurn' /\ p # bspid
         /\ \A q \in Processors : at'[q] = IF q = p THEN y ELSE at[q]
         /\ y # "astray" => AloneNeverAstray'
<1>1. Shape /\ InTurn
  BY DEF Inv
<1>2. /\ at' \in [Processors -> Place]
      /\ \A q \in Processors : at'[q] = IF q = p THEN y ELSE at[q]
  BY <1>1, PlaceIs DEF Shape, Goes
<1>3. p # bspid
  BY <1>1 DEF InTurn, Inside
<1>4. InTurn'
  <2>1. at'[bspid] = at[bspid] /\ bspid' = bspid /\ boot' = boot /\ Processors' = Processors
        /\ numcores' = numcores /\ lapic_ids' = lapic_ids
    BY <1>1, <1>2, <1>3, Table DEF Shape
  <2>2. \A q \in Processors \ {bspid} : at'[q] \notin {"boot", "reset"}
    BY <1>1, <1>2 DEF InTurn, Inside
  <2>3. \A q \in Processors : at'[q] \in Inside \cup {"wait"} =>
          q < boot.i \/ (q = boot.i /\ boot.next # "init")
    BY <1>1, <1>2 DEF InTurn
  <2> QED
    BY <1>1, <2>1, <2>2, <2>3 DEF InTurn
<1>5. ASSUME y # "astray" PROVE AloneNeverAstray'
  <2> SUFFICES ASSUME NEW q \in Processors, at'[q] = "astray"
               PROVE  \E r \in Processors \ {q} : Entered(r)'
    BY Table DEF AloneNeverAstray
  <2>1. at[q] = "astray"
    BY <1>2, <1>5
  <2>2. PICK r \in Processors \ {q} : Entered(r)
    BY <2>1 DEF Inv, AloneNeverAstray
  <2>3. Entered(r)'
    BY <1>2, <2>2 DEF Entered, Inside
  <2> QED
    BY <2>2, <2>3
<1> QED
  BY <1>2, <1>3, <1>4, <1>5

(* Only a store puts a processor past an address, the one it is about.     *)
LEMMA GoesPast ==
  ASSUME Inv, entries' = entries, UNCHANGED <<bspid, boot>>,
         NEW p \in Processors, at[p] \in Inside \ {"ap_startup", "astray"},
         Goes(p, After(at[p]))
  PROVE  /\ After(at[p]) \in Inside \ {"astray"}
         /\ \A a \in Address :
              IF at[p] \in Storing /\ Touches[at[p]] = a
              THEN p \notin Past(a) /\ Past(a)' = Past(a) \cup {p}
              ELSE Past(a)' = Past(a)
<1>1. After(at[p]) \in Inside \ {"astray"}
  BY AfterIs DEF Inside
<1>2. \A q \in Processors : at'[q] = IF q = p THEN After(at[p]) ELSE at[q]
  BY <1>1, GoesOn
<1> SUFFICES ASSUME NEW a \in Address
             PROVE  IF at[p] \in Storing /\ Touches[at[p]] = a
                    THEN p \notin Past(a) /\ Past(a)' = Past(a) \cup {p}
                    ELSE Past(a)' = Past(a)
  BY <1>1
<1>3. Past(a)' = {q \in Processors : at'[q] \in AfterStore(a)}
  BY Table DEF Past
<1>4. CASE at[p] \in Storing /\ Touches[at[p]] = a
  <2>1. at[p] \notin AfterStore(a) /\ After(at[p]) \in AfterStore(a)
    BY <1>4, AfterIs DEF Storing, Touches, AfterStore, Inside
  <2> QED
    BY <1>2, <1>3, <1>4, <2>1 DEF Past
<1>5. CASE ~(at[p] \in Storing /\ Touches[at[p]] = a)
  <2>1. at[p] \in AfterStore(a) <=> After(at[p]) \in AfterStore(a)
    <3>1. a \in {"gdt", "startup_32_vector", "startup_64_vector"}
      BY DEF Address
    <3>2. /\ Touches["store32"] = "startup_32_vector" /\ Touches["store64"] = "startup_64_vector"
          /\ Touches["storegdt"] = "gdt"
      BY DEF Touches
    <3> QED
      BY <1>5, <3>1, <3>2, AfterIs DEF Storing, AfterStore, Inside
  <2> QED
    BY <1>2, <1>3, <1>5, <2>1 DEF Past
<1> QED
  BY <1>4, <1>5

(* Those past an address are not the boot processor, so they are few.      *)
LEMMA PastFinite ==
  ASSUME Inv, NEW a \in Address
  PROVE  /\ IsFiniteSet(Past(a)) /\ Cardinality(Past(a)) \in Nat
         /\ \A p \in Processors \ Past(a) : Cardinality(Past(a) \cup {p}) = Cardinality(Past(a)) + 1
<1>1. IsFiniteSet(Processors) /\ bspid \in Processors
  BY DEF Inv, Shape
<1>2. Past(a) \in SUBSET Processors /\ bspid \notin Past(a)
  BY DEF Inv, InTurn, Past, AfterStore, Inside
<1> HIDE DEF Past, Processors
<1> QED
  BY <1>1, <1>2, Counted

(* addl reads the address. *)
LEMMA InvLoad == ASSUME Inv, NEW p \in Processors, Load(p) PROVE Inv'
<1> USE Table DEF Inv
<1>1. /\ at[p] \in {"load32", "load64", "loadgdt"} /\ Goes(p, After(at[p])) /\ entries' = entries
      /\ reg' = [reg EXCEPT ![p] = fixed[Touches[at[p]]]]
      /\ UNCHANGED <<bspid, boot, fixed, bspdone, aprunning>>
  BY DEF Load
<1>2. at[p] \in Inside \ {"ap_startup", "astray"} /\ at[p] \notin Storing
  BY <1>1 DEF Inside, Storing
<1> DEFINE a == Touches[at[p]]
<1>3. /\ After(at[p]) \in Storing /\ Touches[After(at[p])] = a /\ a \in Address
  BY <1>1, AfterIs DEF Storing, Touches, Address
<1>4. /\ After(at[p]) \in Inside \ {"astray"}
      /\ \A b \in Address : Past(b)' = Past(b)
  BY <1>1, <1>2, GoesPast
<1>5. /\ at' \in [Processors -> Place] /\ InTurn' /\ AloneNeverAstray'
      /\ \A q \in Processors : at'[q] = IF q = p THEN After(at[p]) ELSE at[q]
  BY <1>1, <1>2, <1>4, GoesOn
<1>6. Shape'
  BY <1>1, <1>3, <1>5 DEF Shape
<1>7. Gate'
  <2>1. After(at[p]) \notin {"count", "ap_startup"}
    BY <1>3 DEF Storing
  <2>2. {q \in Processors : at'[q] = "ap_startup"} = {q \in Processors : at[q] = "ap_startup"}
    BY <1>1, <1>5, <2>1
  <2> QED
    BY <1>1, <1>5, <2>1, <2>2 DEF Gate
<1>8. Additions'
  <2>1. \A b \in Address : /\ fixed'[b] <= Cardinality(Past(b)')
                           /\ Past(b)' # {} => fixed'[b] >= 1
    BY <1>1, <1>4 DEF Additions, Loaded
  <2>2. ASSUME NEW q \in Processors
        PROVE  Loaded(q)'
    <3>1. CASE q = p
      <4>1. reg'[p] = fixed[a] /\ at'[p] = After(at[p])
        BY <1>1, <1>5 DEF Shape
      <4>2. reg'[p] <= Cardinality(Past(a)')
        BY <1>3, <1>4, <4>1 DEF Additions, Loaded
      <4> QED
        BY <1>3, <3>1, <4>1, <4>2 DEF Loaded
    <3>2. CASE q # p
      <4>1. reg'[q] = reg[q] /\ at'[q] = at[q]
        BY <1>1, <1>5, <3>2 DEF Shape
      <4> QED
        BY <1>4, <4>1, StoresTouch DEF Additions, Loaded
    <3> QED
      BY <3>1, <3>2
  <2> QED
    BY <1>1, <2>1, <2>2 DEF Additions
<1> QED
  BY <1>5, <1>6, <1>7, <1>8

(* and writes it: of several that have read the same, one addition stays.  *)
LEMMA InvStore == ASSUME Inv, NEW p \in Processors, Store(p) PROVE Inv'
<1> USE Table DEF Inv
<1>1. /\ at[p] \in Storing /\ Goes(p, After(at[p])) /\ entries' = entries
      /\ fixed' = [fixed EXCEPT ![Touches[at[p]]] = reg[p] + 1]
      /\ reg' = [reg EXCEPT ![p] = 0]
      /\ UNCHANGED <<bspid, boot, bspdone, aprunning>>
  BY DEF Store, Storing, Added
<1>2. at[p] \in Inside \ {"ap_startup", "astray"}
  BY <1>1 DEF Inside, Storing
<1>3. PICK a \in Address : a = Touches[at[p]]
  BY <1>1, StoresTouch
<1>4. After(at[p]) \in Inside \ {"astray"} /\ After(at[p]) \notin Storing
      /\ After(at[p]) \notin {"count", "ap_startup"}
  BY <1>1, AfterIs DEF Storing, Inside
<1>5. /\ p \notin Past(a) /\ Past(a)' = Past(a) \cup {p}
      /\ \A b \in Address \ {a} : Past(b)' = Past(b)
  BY <1>1, <1>2, <1>3, GoesPast
<1>6. /\ at' \in [Processors -> Place] /\ InTurn' /\ AloneNeverAstray'
      /\ \A q \in Processors : at'[q] = IF q = p THEN After(at[p]) ELSE at[q]
  BY <1>1, <1>2, <1>4, GoesOn
<1>7. Shape'
  <2>1. reg' \in [Processors -> Nat] /\ fixed' \in [Address -> Nat]
    BY <1>1, <1>3 DEF Shape
  <2> QED
    BY <1>1, <1>6, <2>1 DEF Shape
<1>8. Gate'
  <2>1. {q \in Processors : at'[q] = "ap_startup"} = {q \in Processors : at[q] = "ap_startup"}
    BY <1>1, <1>4, <1>6 DEF Storing
  <2> QED
    BY <1>1, <1>4, <1>6, <2>1 DEF Gate
<1>9. Cardinality(Past(a)) \in Nat /\ Cardinality(Past(a)') = Cardinality(Past(a)) + 1
  BY <1>5, PastFinite
<1>10. reg[p] \in Nat /\ reg[p] <= Cardinality(Past(a))
  BY <1>1, <1>3 DEF Additions, Loaded, Shape
<1>11. Additions'
  <2>1. ASSUME NEW b \in Address
        PROVE  /\ fixed'[b] <= Cardinality(Past(b)')
               /\ Past(b)' # {} => fixed'[b] >= 1
    <3>1. CASE b = a
      <4>1. fixed'[a] = reg[p] + 1
        BY <1>1, <1>3 DEF Shape
      <4> QED
        BY <1>9, <1>10, <3>1, <4>1
    <3>2. CASE b # a
      <4>1. fixed'[b] = fixed[b]
        BY <1>1, <1>3, <3>2 DEF Shape
      <4> QED
        BY <1>5, <3>2, <4>1 DEF Additions, Loaded
    <3> QED
      BY <3>1, <3>2
  <2>2. ASSUME NEW q \in Processors
        PROVE  Loaded(q)'
    <3>1. CASE q = p
      BY <1>1, <1>4, <1>6, <3>1 DEF Shape, Loaded
    <3>2. CASE q # p /\ at[q] \in Storing
      <4>1. reg'[q] = reg[q] /\ at'[q] = at[q] /\ reg[q] \in Nat
        BY <1>1, <1>6, <3>2 DEF Shape
      <4>2. PICK b \in Address : b = Touches[at[q]]
        BY <3>2, StoresTouch
      <4>3. reg[q] <= Cardinality(Past(b))
        BY <3>2, <4>2 DEF Additions, Loaded
      <4>4. reg[q] <= Cardinality(Past(b)')
        BY <1>5, <1>9, <4>1, <4>3
      <4> QED
        BY <3>2, <4>1, <4>2, <4>4 DEF Loaded
    <3>3. CASE q # p /\ at[q] \notin Storing
      BY <1>1, <1>6, <3>3 DEF Additions, Loaded, Shape
    <3> QED
      BY <3>1, <3>2, <3>3
  <2> QED
    BY <1>1, <2>1, <2>2 DEF Additions
<1> QED
  BY <1>6, <1>7, <1>8, <1>11

(* An address is followed after one's own addition to it: it is wrong only *)
(* by the addition of another, who is past it too.                         *)
LEMMA WrongByAnother ==
  ASSUME Inv, NEW p \in Processors, at[p] \in {"lgdt", "jump32", "jump64"},
         fixed[Touches[at[p]]] # 1
  PROVE  \E q \in Processors \ {p} : at[q] \in Inside
<1>1. PICK a \in Address : a = Touches[at[p]] /\ at[p] \in AfterStore(a)
  BY DEF Touches, Address, AfterStore, Inside
<1>2. p \in Past(a)
  BY <1>1 DEF Past
<1>3. fixed[a] \in Nat /\ fixed[a] # 1 /\ fixed[a] >= 1 /\ fixed[a] <= Cardinality(Past(a))
  BY <1>1, <1>2 DEF Inv, Additions, Loaded, Shape
<1>4. Cardinality(Past(a)) \in Nat /\ Cardinality(Past(a)) >= 2
  BY <1>3, PastFinite
<1>5. Cardinality({p}) = 1
  BY FS_Singleton
<1>6. PICK q \in Past(a) : q # p
  BY <1>2, <1>4, <1>5
<1> QED
  BY <1>6 DEF Past, AfterStore

LEMMA InvFollow == ASSUME Inv, NEW p \in Processors, Follow(p) PROVE Inv'
<1> USE Table DEF Inv
<1>1. PICK y : /\ y = (IF fixed[Touches[at[p]]] = 1 THEN After(at[p]) ELSE "astray")
               /\ at[p] \in {"lgdt", "jump32", "jump64"} /\ Goes(p, y) /\ entries' = entries
               /\ UNCHANGED <<bspid, boot, reg, fixed, bspdone, aprunning>>
  BY DEF Follow
<1>2. at[p] \in Inside /\ y \in {"jump32", "jump64", "spin", "astray"}
  BY <1>1, AfterIs DEF Inside
<1>3. y \in Inside
  BY <1>2 DEF Inside
<1>4. /\ at' \in [Processors -> Place] /\ InTurn' /\ (y # "astray" => AloneNeverAstray')
      /\ \A q \in Processors : at'[q] = IF q = p THEN y ELSE at[q]
  BY <1>1, <1>2, <1>3, GoesOn
<1>5. Shape'
  BY <1>1, <1>4 DEF Shape
<1>6. Gate'
  <2>1. {q \in Processors : at'[q] = "ap_startup"} = {q \in Processors : at[q] = "ap_startup"}
    BY <1>1, <1>2, <1>4
  <2> QED
    BY <1>1, <1>2, <1>4, <2>1 DEF Gate
<1>7. Additions'
  <2>1. \A a \in Address : Past(a)' = Past(a)
    <3> SUFFICES ASSUME NEW a \in Address
                 PROVE  {q \in Processors : at'[q] \in AfterStore(a)} = Past(a)
      BY <1>1 DEF Past
    <3>1. at[p] \in AfterStore(a) /\ y \in AfterStore(a)
      BY <1>1, <1>2 DEF AfterStore, Inside
    <3> QED
      BY <1>4, <3>1 DEF Past
  <2>2. \A q \in Processors : at'[q] \in Storing <=> at[q] \in Storing
    BY <1>1, <1>2, <1>4 DEF Storing
  <2>3. \A q \in Processors : at[q] \in Storing => at'[q] = at[q]
    BY <1>1, <1>4 DEF Storing
  <2> QED
    BY <1>1, <2>1, <2>2, <2>3, StoresTouch DEF Additions, Loaded
<1>8. AloneNeverAstray'
  <2>1. CASE y # "astray"
    BY <1>4, <2>1
  <2>2. CASE y = "astray"
    <3>1. fixed[Touches[at[p]]] # 1
      BY <1>1, <2>2, AfterIs
    <3>2. PICK r \in Processors \ {p} : at[r] \in Inside
      BY <1>1, <3>1, WrongByAnother
    <3> SUFFICES ASSUME NEW q \in Processors, at'[q] = "astray"
                 PROVE  \E s \in Processors \ {q} : Entered(s)'
      BY <1>1 DEF AloneNeverAstray
    <3>3. at'[r] \in Inside /\ at'[p] \in Inside
      BY <1>3, <1>4, <3>2
    <3>4. Entered(r)' /\ Entered(p)'
      BY <3>3 DEF Entered, Inside
    <3> QED
      BY <3>2, <3>4
  <2> QED
    BY <2>1, <2>2
<1> QED
  BY <1>4, <1>5, <1>6, <1>7, <1>8

LEMMA InvSpinCount == ASSUME Inv, NEW p \in Processors, Spin(p) \/ Count(p) PROVE Inv'
<1> USE Table DEF Inv
<1>1. PICK y : /\ (at[p] = "spin" /\ y = "count" /\ bspdone /\ aprunning' = aprunning)
                  \/ (at[p] = "count" /\ y = "ap_startup" /\ aprunning' = aprunning + 1)
               /\ y = After(at[p]) /\ Goes(p, y) /\ entries' = entries
               /\ UNCHANGED <<bspid, boot, reg, fixed, bspdone>>
  BY AfterIs DEF Spin, Count, GateOpen
<1>2. at[p] \in Inside \ {"ap_startup", "astray"} /\ at[p] \notin Storing /\ y \notin Storing
  BY <1>1 DEF Inside, Storing
<1>3. y \in Inside \ {"astray"} /\ \A a \in Address : Past(a)' = Past(a)
  BY <1>1, <1>2, GoesPast
<1>4. /\ at' \in [Processors -> Place] /\ InTurn' /\ AloneNeverAstray' /\ p # bspid
      /\ \A q \in Processors : at'[q] = IF q = p THEN y ELSE at[q]
  BY <1>1, <1>2, <1>3, GoesOn
<1>5. Shape'
  BY <1>1, <1>4 DEF Shape
<1>6. Additions'
  BY <1>1, <1>2, <1>3, <1>4, StoresTouch DEF Additions, Loaded
<1>7. PICK Q \in SUBSET Processors : Q = {q \in Processors : at[q] = "ap_startup"}
  OBVIOUS
<1>8. bspid \notin Q /\ aprunning = Cardinality(Q) /\ p \notin Q
  BY <1>1, <1>7 DEF InTurn, Gate
<1>9. Cardinality({q \in Processors : at'[q] = "ap_startup"}) = aprunning'
  <2>1. CASE y = "count"
    <3>1. {q \in Processors : at'[q] = "ap_startup"} = Q
      BY <1>1, <1>4, <1>7, <2>1
    <3> QED
      BY <1>1, <1>8, <2>1, <3>1
  <2>2. CASE y = "ap_startup"
    <3>1. {q \in Processors : at'[q] = "ap_startup"} = Q \cup {p}
      BY <1>4, <1>7, <2>2
    <3>2. IsFiniteSet(Processors) /\ bspid \in Processors
      BY DEF Shape
    <3>3. Cardinality(Q \cup {p}) = Cardinality(Q) + 1
      BY ONLY <1>7, <1>8, <3>2, Counted, p \in Processors, Q \in SUBSET Processors
    <3> QED
      BY <1>1, <1>8, <2>2, <3>1, <3>3
  <2> QED
    BY <1>1, <2>1, <2>2
<1>10. Gate'
  <2>1. (bspdone' => boot'.i = numcores')
        /\ \A q \in Processors : at'[q] \in {"count", "ap_startup"} => bspdone'
    BY <1>1, <1>4 DEF Gate
  <2> QED
    BY <1>1, <1>9, <2>1 DEF Gate
<1> QED
  BY <1>4, <1>5, <1>6, <1>10

LEMMA InvNext == Inv /\ [Next]_vars => Inv'
<1> SUFFICES ASSUME Inv, [Next]_vars PROVE Inv'
  OBVIOUS
<1>1. CASE BootStep
  BY <1>1, InvBootStep
<1>2. ASSUME NEW p \in Processors, ApStep(p) PROVE Inv'
  BY <1>2, InvLoad, InvStore, InvFollow, InvSpinCount DEF ApStep
<1>3. CASE UNCHANGED vars
  <2>1. entries' = entries /\ UNCHANGED <<bspid, boot, at, reg, fixed, bspdone, aprunning>>
    BY <1>3 DEF vars
  <2>2. numcores' = numcores /\ lapic_ids' = lapic_ids /\ Processors' = Processors
    BY <2>1, Table
  <2>3. \A a : Past(a)' = Past(a)
    BY <2>1, <2>2 DEF Past
  <2>4. Shape' /\ InTurn' /\ Gate'
    BY <2>1, <2>2 DEF Inv, Shape, InTurn, Gate
  <2>5. Additions' /\ AloneNeverAstray'
    BY <2>1, <2>2, <2>3 DEF Inv, Additions, Loaded, AloneNeverAstray, Entered
  <2> QED
    BY <2>4, <2>5 DEF Inv
<1> QED
  BY <1>1, <1>2, <1>3 DEF Next

------------------------------------------------------------------------------
(* Theorems *)

(* However many processors there are, no address gets the base more often  *)
(* than there are processors beside the boot processor, and aprunning      *)
(* never exceeds their number (trampoline_64.S 18-59, entry.S 77-83).      *)
THEOREM AdditionsBounded == Spec => []TypeOK
<1>1. Spec => []Inv
  BY InvInit, InvNext, PTL DEF Spec
<1> QED
  BY <1>1, InvTypeOK, PTL

(* A processor alone in the trampoline never goes astray, whatever ids the *)
(* table lists: the base is added to each address without lock, but each   *)
(* processor follows it only after its own addition                        *)
(* (trampoline_64.S 18-59).                                                *)
THEOREM LoneProcessorArrives == Spec => []AloneNeverAstray
<1>1. Spec => []Inv
  BY InvInit, InvNext, PTL DEF Spec
<1>2. Inv => AloneNeverAstray
  BY DEF Inv
<1> QED
  BY <1>1, <1>2, PTL

(* No processor leaves smp_entry64 before the boot processor has sent its  *)
(* last command, and aprunning counts those that have gone to ap_startup   *)
(* (entry.S 77-83, lapic.c 245-249).                                       *)
THEOREM GateHolds == Spec => []HeldAtGate
<1>1. Spec => []Inv
  BY InvInit, InvNext, PTL DEF Spec
<1> QED
  BY <1>1, InvHeldAtGate, PTL
=============================================================================

--------------------------- MODULE FileTable_proof ---------------------------
(***************************************************************************)
(* Proofs about kernel/file.c: the table of open files, for every number   *)
(* of processes, entries and descriptors, and the keyboard ring its        *)
(* cons_read takes from, for every size and alphabet.                      *)
(***************************************************************************)
EXTENDS FileTable, KeyBuffer, FiniteSetTheorems, SequenceTheorems, WellFoundedInduction,
        TLAPS

------------------------------------------------------------------------------
(* Natural numbers, values reached by repeating a step, and counts *)

(* A non-empty set of natural numbers has a least element. *)
LEMMA LeastLemma ==
  ASSUME NEW T \in SUBSET Nat, T # {}
  PROVE  \E m \in T : \A k \in T : ~(k < m)
<1>1. \E m \in T : \A k \in T : ~(<<k, m>> \in OpToRel(<, Nat))
  BY NatLessThanWellFounded, WFMin
<1> QED
  BY <1>1 DEF OpToRel

(* A set of natural numbers that holds 0, and with each number the next,   *)
(* holds them all.                                                         *)
LEMMA AllNaturals ==
  ASSUME NEW T, 0 \in T, \A k \in Nat : k \in T => k + 1 \in T
  PROVE  Nat \subseteq T
<1> SUFFICES ASSUME Nat \ T # {} PROVE FALSE
  OBVIOUS
<1>1. PICK m \in Nat \ T : \A k \in Nat \ T : ~(k < m)
  BY LeastLemma
<1>2. m - 1 \in Nat /\ m - 1 < m /\ (m - 1) + 1 = m
  BY <1>1
<1>3. m - 1 \in T
  BY <1>1, <1>2
<1> QED
  BY <1>1, <1>2, <1>3

(* What comes of repeating a step n times, from base on. *)
Repetitions(D, base, step, n) ==
  {f \in [0 .. n -> D] : f[0] = base /\ \A k \in 1 .. n : f[k] = step[f[k - 1]]}

(* A step can be repeated any number of times. *)
LEMMA Repetition ==
  ASSUME NEW D, NEW base \in D, NEW step \in [D -> D], NEW n \in Nat
  PROVE  Repetitions(D, base, step, n) # {}
<1> DEFINE Good(m, f) == f[0] = base /\ \A k \in 1 .. m : f[k] = step[f[k - 1]]
           T == {m \in Nat : \E f \in [0 .. m -> D] : Good(m, f)}
<1>1. 0 \in T
  <2>1. PICK f : f = [k \in 0 .. 0 |-> base]
    OBVIOUS
  <2>2. f \in [0 .. 0 -> D] /\ Good(0, f)
    BY <2>1
  <2> QED
    BY <2>2
<1>2. ASSUME NEW m \in Nat, m \in T PROVE m + 1 \in T
  <2>1. PICK f \in [0 .. m -> D] : Good(m, f)
    BY <1>2
  <2>2. PICK g : g = [k \in 0 .. m + 1 |-> IF k = m + 1 THEN step[f[m]] ELSE f[k]]
    OBVIOUS
  <2>3. g \in [0 .. m + 1 -> D]
    BY <2>1, <2>2
  <2>4. g[0] = base
    BY <2>1, <2>2
  <2>5. ASSUME NEW k \in 1 .. m + 1 PROVE g[k] = step[g[k - 1]]
    <3>1. CASE k = m + 1
      BY <2>2, <3>1
    <3>2. CASE k # m + 1
      <4>1. k \in 1 .. m /\ k \in 0 .. m + 1 /\ k - 1 \in 0 .. m + 1 /\ k - 1 # m + 1
        BY <3>2
      <4> QED
        BY <2>1, <2>2, <4>1
    <3> QED
      BY <3>1, <3>2
  <2> QED
    BY <2>3, <2>4, <2>5
<1>3. n \in T
  <2> HIDE DEF T
  <2> QED
    BY <1>1, <1>2, AllNaturals
<1> QED
  BY <1>3 DEF Repetitions

(* Pairs with one and the same first component are as many as the second   *)
(* ones (the descriptors of one process).                                  *)
LEMMA FixedFirst ==
  ASSUME NEW c, NEW I, IsFiniteSet(I)
  PROVE  IsFiniteSet({c} \X I) /\ Cardinality({c} \X I) = Cardinality(I)
<1>1. IsFiniteSet({c}) /\ Cardinality({c}) = 1
  BY FS_Singleton
<1>2. IsFiniteSet({c} \X I) /\ Cardinality({c} \X I) = 1 * Cardinality(I)
  BY <1>1, FS_Product
<1> QED
  BY <1>2, FS_CardinalityType

(* Sets with nothing in common add up. *)
LEMMA DisjointSum ==
  ASSUME NEW S, NEW T, IsFiniteSet(S), IsFiniteSet(T), S \cap T = {}
  PROVE  /\ IsFiniteSet(S \cup T)
         /\ Cardinality(S \cup T) = Cardinality(S) + Cardinality(T)
<1>1. Cardinality(S \cap T) = 0
  BY FS_EmptySet
<1> QED
  BY <1>1, FS_Union, FS_CardinalityType

------------------------------------------------------------------------------
(* The proofs *)

(* The descriptors of processes that exist which point to entry e. *)
Holders(e) == {pi \in live \X Fd : fdtable[pi[1]][pi[2]] = e}

(* RefcountsExact counts descriptors, which says something only of         *)
(* finitely many: processes come one at a time.                            *)
Inv ==
  /\ TypeOK
  /\ RefcountsExact
  /\ IsFiniteSet(live)

LEMMA FdFinite == IsFiniteSet(Fd) /\ 0 \in Fd
<1>1. NFd \in Nat /\ NFd > 0
  BY FileTableAssumption
<1> QED
  BY <1>1, FS_Interval DEF Fd

LEMMA HoldersFinite ==
  ASSUME IsFiniteSet(live), NEW e
  PROVE  IsFiniteSet(Holders(e)) /\ Cardinality(Holders(e)) \in Nat
<1>1. IsFiniteSet(live \X Fd)
  BY FdFinite, FS_Product
<1>2. Holders(e) \subseteq live \X Fd
  BY DEF Holders
<1> QED
  BY <1>1, <1>2, FS_Subset, FS_CardinalityType

(* allocfile answers with an unused entry, and nobody points to that. *)
LEMMA MinUnused ==
  ASSUME Unused # {}
  PROVE  Min(Unused) \in Unused
<1>1. Unused \in SUBSET Nat
  BY FileTableAssumption DEF Unused, File
<1>2. PICK m \in Unused : \A k \in Unused : ~(k < m)
  BY <1>1, LeastLemma
<1>3. \A k \in Unused : m <= k
  BY <1>1, <1>2
<1> QED
  BY <1>2, <1>3 DEF Min

LEMMA UnusedUnheld ==
  ASSUME Inv, NEW e \in Unused
  PROVE  /\ e \in File /\ filetable[e].refcount = 0
         /\ Holders(e) = {} /\ lost[e] = 0
<1>1. e \in File /\ filetable[e].refcount = 0
  BY DEF Unused
<1>2. /\ Cardinality(Holders(e)) \in Nat /\ lost[e] \in Nat
      /\ 0 = Cardinality(Holders(e)) + lost[e]
  BY <1>1, HoldersFinite DEF Inv, TypeOK, RefcountsExact, Holders
<1>3. Cardinality(Holders(e)) = 0 /\ lost[e] = 0
  BY <1>2
<1> QED
  BY <1>1, <1>3, HoldersFinite, FS_EmptySet DEF Inv

------------------------------------------------------------------------------

LEMMA InvInit == Init => Inv
<1> SUFFICES ASSUME Init PROVE Inv
  OBVIOUS
<1> USE FileTableAssumption
<1>1. \A p \in live, i \in Fd : fdtable[p][i] = Null
  BY DEF Init
<1>2. TypeOK
  BY <1>1 DEF Init, TypeOK, Blank, Type
<1>3. IsFiniteSet(live)
  BY FS_Singleton DEF Init
<1>4. ASSUME NEW e \in File
      PROVE  filetable[e].refcount = Cardinality(Holders(e)) + lost[e]
  <2>1. Holders(e) = {}
    BY <1>1, <1>4 DEF Holders, File
  <2> QED
    BY <2>1, FS_EmptySet DEF Init, Blank
<1>5. RefcountsExact
  BY <1>4 DEF RefcountsExact, Holders
<1> QED
  BY <1>2, <1>3, <1>5 DEF Inv

(* An open gives the entry its one holder; the entry the descriptor led to *)
(* before loses one, and lost has one more.                                *)
LEMMA InvInstall ==
  ASSUME Inv, NEW p \in Proc, NEW inode \in Inode \cup {Null}, NEW type \in {"FDCONS", "FDFILE"},
         Install(p, inode, type)
  PROVE  Inv'
<1> DEFINE e == Min(Unused)
           h == <<p, 0>>
<1> USE FileTableAssumption, FdFinite
<1>1. /\ p \in live /\ Unused # {} /\ live' = live /\ halted' = halted
      /\ filetable' = [filetable EXCEPT ![e] =
                          [refcount |-> 1, offset |-> 0, inode |-> inode, type |-> type]]
      /\ fdtable' = [fdtable EXCEPT ![p][0] = e]
      /\ lost' = LostBy(p, 0)
  BY DEF Install, Ready
<1>2. /\ filetable \in [File -> [refcount : Nat, offset : Nat,
                                 inode : Inode \cup {Null}, type : Type]]
      /\ fdtable \in [Proc -> [Fd -> File \cup {Null}]]
      /\ live \subseteq Proc /\ lost \in [File -> Nat] /\ halted \in BOOLEAN
      /\ \A q \in live, i \in Fd : fdtable[q][i] # Null =>
           filetable[fdtable[q][i]].refcount > 0 /\ filetable[fdtable[q][i]].type # "FDEUNKNOWN"
      /\ IsFiniteSet(live)
  BY DEF Inv, TypeOK
<1>3. e \in File /\ filetable[e].refcount = 0 /\ Holders(e) = {} /\ lost[e] = 0
  BY <1>1, MinUnused, UnusedUnheld
<1> HIDE DEF e
<1>4. /\ filetable' \in [File -> [refcount : Nat, offset : Nat,
                                  inode : Inode \cup {Null}, type : Type]]
      /\ \A f \in File : filetable'[f] =
           IF f = e THEN [refcount |-> 1, offset |-> 0, inode |-> inode, type |-> type]
           ELSE filetable[f]
  BY <1>1, <1>2, <1>3 DEF Type
<1>5. /\ fdtable' \in [Proc -> [Fd -> File \cup {Null}]]
      /\ \A q \in Proc, i \in Fd :
           fdtable'[q][i] = IF q = p /\ i = 0 THEN e ELSE fdtable[q][i]
  BY <1>1, <1>2, <1>3
<1>6. e # Null /\ fdtable[p][0] # e
  BY <1>1, <1>2, <1>3 DEF File
<1>7. /\ lost' \in [File -> Nat]
      /\ \A f \in File : lost'[f] = IF f = fdtable[p][0] THEN lost[f] + 1 ELSE lost[f]
  BY <1>1, <1>2 DEF LostBy, File
<1>8. TypeOK'
  <2>1. ASSUME NEW q \in live', NEW i \in Fd, fdtable'[q][i] # Null
        PROVE  /\ filetable'[fdtable'[q][i]].refcount > 0
               /\ filetable'[fdtable'[q][i]].type # "FDEUNKNOWN"
    <3>1. CASE q = p /\ i = 0
      BY <1>3, <1>4, <1>5, <3>1, <1>1, <1>2
    <3>2. CASE ~(q = p /\ i = 0)
      BY <1>1, <1>2, <1>3, <1>4, <1>5, <2>1, <3>2
    <3> QED
      BY <3>1, <3>2
  <2> QED
    BY <1>1, <1>2, <1>4, <1>5, <1>7, <2>1 DEF TypeOK
<1>9. ASSUME NEW f \in File
      PROVE  filetable'[f].refcount = Cardinality(Holders(f)') + lost'[f]
  <2>1. /\ IsFiniteSet(Holders(f)) /\ Cardinality(Holders(f)) \in Nat
        /\ filetable[f].refcount = Cardinality(Holders(f)) + lost[f]
    BY <1>2, HoldersFinite DEF Inv, RefcountsExact, Holders
  <2>2. h \in live \X Fd /\ h[1] = p /\ h[2] = 0
    BY <1>1
  <2>3. \A pi \in live \X Fd : fdtable'[pi[1]][pi[2]] = IF pi = h THEN e ELSE fdtable[pi[1]][pi[2]]
    <3> SUFFICES ASSUME NEW q \in live, NEW i \in Fd
                 PROVE  fdtable'[q][i] = IF <<q, i>> = h THEN e ELSE fdtable[q][i]
      OBVIOUS
    <3> QED
      BY <1>2, <1>5
  <2> HIDE DEF h
  <2>4. CASE f = e
    <3>1. Holders(f)' = {h}
      BY <1>1, <1>3, <2>2, <2>3, <2>4 DEF Holders
    <3>2. Cardinality({h}) = 1
      BY FS_Singleton
    <3>3. filetable'[f].refcount = 1 /\ lost'[f] = 0
      BY <1>3, <1>4, <1>6, <1>7, <2>4
    <3> QED
      BY <3>1, <3>2, <3>3
  <2>5. CASE f # e /\ f = fdtable[p][0]
    <3>1. Holders(f)' = Holders(f) \ {h} /\ h \in Holders(f)
      BY <1>1, <2>2, <2>3, <2>5 DEF Holders
    <3>2. Cardinality(Holders(f) \ {h}) = Cardinality(Holders(f)) - 1
      BY <2>1, <3>1, FS_RemoveElement
    <3>3. filetable'[f].refcount = filetable[f].refcount /\ lost'[f] = lost[f] + 1 /\ lost[f] \in Nat
      BY <1>2, <1>4, <1>7, <2>5
    <3> QED
      BY <2>1, <3>1, <3>2, <3>3
  <2>6. CASE f # e /\ f # fdtable[p][0]
    <3>1. Holders(f)' = Holders(f)
      BY <1>1, <2>2, <2>3, <2>6 DEF Holders
    <3> QED
      BY <1>4, <1>7, <2>1, <2>6, <3>1
  <2> QED
    BY <2>4, <2>5, <2>6
<1> QED
  BY <1>1, <1>2, <1>8, <1>9 DEF Inv, RefcountsExact, Holders

(* Steps that leave descriptors, counts and types alone. *)
LEMMA InvSame ==
  ASSUME Inv, UNCHANGED <<fdtable, live, lost>>, halted' \in BOOLEAN,
         filetable' \in [File -> [refcount : Nat, offset : Nat,
                                 inode : Inode \cup {Null}, type : Type]],
         \A f \in File : /\ filetable'[f].refcount = filetable[f].refcount
                         /\ \/ filetable'[f].type = filetable[f].type
                            \/ filetable[f].refcount = 0
  PROVE  Inv'
<1>1. TypeOK'
  <2>1. ASSUME NEW q \in live, NEW i \in Fd, fdtable[q][i] # Null
        PROVE  /\ filetable'[fdtable[q][i]].refcount > 0
               /\ filetable'[fdtable[q][i]].type # "FDEUNKNOWN"
    <3>1. /\ fdtable[q][i] \in File /\ filetable[fdtable[q][i]].refcount > 0
          /\ filetable[fdtable[q][i]].type # "FDEUNKNOWN"
      BY <2>1 DEF Inv, TypeOK
    <3> QED
      BY <3>1
  <2> QED
    BY <2>1 DEF Inv, TypeOK
<1>2. RefcountsExact'
  BY DEF Inv, RefcountsExact
<1> QED
  BY <1>1, <1>2 DEF Inv

(* However many rounds a read or write gets through, it moves forward. *)
LEMMA MovedForward ==
  ASSUME NEW offset \in Nat, NEW count \in Nat
  PROVE  Moved(offset, count) \subseteq Nat
<1> DEFINE After(n) == IF n >= count THEN n ELSE n + LeastOf(Blk - ((offset + n) % Blk), count)
           Is(f) == f = [k \in 0 .. count |-> IF k = 0 THEN 0 ELSE After(f[k - 1])]
<1>1. ASSUME NEW n \in Nat PROVE After(n) \in Nat
  <2>1. Blk \in Nat /\ Blk > 0 /\ offset + n \in Nat
    BY FileTableAssumption
  <2>2. (offset + n) % Blk \in 0 .. Blk - 1
    BY <2>1
  <2>3. LeastOf(Blk - ((offset + n) % Blk), count) \in Nat
    BY <2>1, <2>2 DEF LeastOf
  <2> QED
    BY <2>3
<1>2. PICK step : step = [n \in Nat |-> After(n)]
  OBVIOUS
<1>3. step \in [Nat -> Nat]
  BY <1>1, <1>2
<1>4. PICK f \in [0 .. count -> Nat] : f[0] = 0 /\ \A k \in 1 .. count : f[k] = step[f[k - 1]]
  <2>1. Repetitions(Nat, 0, step, count) # {}
    BY <1>3, Repetition
  <2> QED
    BY <2>1 DEF Repetitions
<1>5. Is(f)
  <2>1. ASSUME NEW k \in 0 .. count, k # 0
        PROVE  f[k] = After(f[k - 1])
    <3>1. k \in 1 .. count /\ k - 1 \in 0 .. count
      BY <2>1
    <3>2. f[k - 1] \in Nat
      BY <3>1, <1>4
    <3> QED
      BY <1>2, <1>4, <3>1, <3>2
  <2> HIDE DEF After
  <2>2. f = [k \in 0 .. count |-> IF k = 0 THEN 0 ELSE After(f[k - 1])]
    BY <1>4, <2>1
  <2> QED
    BY <2>2
<1>6. PICK after : after = CHOOSE g : Is(g)
  OBVIOUS
<1>7. Is(after)
  <2> HIDE DEF Is
  <2> QED
    BY <1>5, <1>6
<1>8. Moved(offset, count) = Range(after)
  BY <1>6 DEF Moved
<1>9. \A k \in Nat : k \in 0 .. count => after[k] \in Nat
  <2> DEFINE T == {k \in Nat : k \in 0 .. count => after[k] \in Nat}
  <2> HIDE DEF After
  <2>1. 0 \in T
    BY <1>7
  <2>2. ASSUME NEW k \in Nat, k \in T PROVE k + 1 \in T
    <3>1. CASE k + 1 \in 0 .. count
      <4>1. k \in 0 .. count /\ k + 1 # 0 /\ (k + 1) - 1 = k /\ after[k] \in Nat
        BY <2>2, <3>1
      <4>2. k + 1 \in 0 .. count /\ after[k + 1] = After(after[k])
        BY <1>7, <3>1, <4>1
      <4>3. After(after[k]) \in Nat
        BY <1>1, <4>1
      <4> QED
        BY <4>2, <4>3
    <3> QED
      BY <3>1
  <2> HIDE DEF T
  <2>3. Nat \subseteq T
    BY <2>1, <2>2, AllNaturals
  <2> QED
    BY <2>3 DEF T
<1>10. DOMAIN after = 0 .. count
  BY <1>7
<1> QED
  BY <1>8, <1>9, <1>10 DEF Range

(* The descriptors of p that point to entry f. *)
PointingTo(p, f) == {i \in Fd : fdtable[p][i] = f}

(* They are as many as the child of p gets. *)
LEMMA UsesCounted ==
  ASSUME NEW p, NEW c, NEW f
  PROVE  /\ IsFiniteSet({c} \X PointingTo(p, f))
         /\ Uses(p, f) \in Nat /\ Cardinality({c} \X PointingTo(p, f)) = Uses(p, f)
<1>1. IsFiniteSet(PointingTo(p, f))
  BY FdFinite, FS_Subset DEF PointingTo
<1>2. Cardinality(PointingTo(p, f)) \in Nat /\ Uses(p, f) = Cardinality(PointingTo(p, f))
  BY <1>1, FS_CardinalityType DEF Uses, PointingTo
<1> QED
  BY <1>1, <1>2, FixedFirst

(* A fork counts every descriptor the child gets. *)
LEMMA InvFork ==
  ASSUME Inv, NEW p \in Proc, NEW c \in Proc, Fork(p, c)
  PROVE  Inv'
<1> USE FileTableAssumption, FdFinite
<1>1. /\ p \in live /\ c \notin live /\ live' = live \cup {c}
      /\ halted' = halted /\ lost' = lost
      /\ filetable' = AfterFork(p) /\ fdtable' = [fdtable EXCEPT ![c] = fdtable[p]]
  BY DEF Fork, Ready
<1>2. /\ filetable \in [File -> [refcount : Nat, offset : Nat,
                                 inode : Inode \cup {Null}, type : Type]]
      /\ fdtable \in [Proc -> [Fd -> File \cup {Null}]]
      /\ live \subseteq Proc /\ lost \in [File -> Nat] /\ halted \in BOOLEAN
      /\ \A q \in live, i \in Fd : fdtable[q][i] # Null =>
           filetable[fdtable[q][i]].refcount > 0 /\ filetable[fdtable[q][i]].type # "FDEUNKNOWN"
      /\ IsFiniteSet(live)
  BY DEF Inv, TypeOK
<1>3. \A f \in File : Uses(p, f) \in Nat
  BY UsesCounted
<1>4. /\ filetable' \in [File -> [refcount : Nat, offset : Nat,
                                  inode : Inode \cup {Null}, type : Type]]
      /\ \A f \in File : /\ filetable'[f].refcount = filetable[f].refcount + Uses(p, f)
                          /\ filetable'[f].type = filetable[f].type
  <2>1. filetable' = [f \in File |-> [filetable[f] EXCEPT !.refcount = @ + Uses(p, f)]]
    BY <1>1 DEF AfterFork
  <2>2. ASSUME NEW f \in File
        PROVE  /\ filetable'[f] \in [refcount : Nat, offset : Nat,
                                    inode : Inode \cup {Null}, type : Type]
               /\ filetable'[f].refcount = filetable[f].refcount + Uses(p, f)
               /\ filetable'[f].type = filetable[f].type
    <3>1. PICK n \in Nat : n = Uses(p, f)
      BY <1>3
    <3>2. filetable'[f] = [filetable[f] EXCEPT !.refcount = filetable[f].refcount + n]
      BY <2>1, <3>1
    <3>3. filetable[f] \in [refcount : Nat, offset : Nat, inode : Inode \cup {Null}, type : Type]
      BY <1>2
    <3> QED
      BY <3>1, <3>2, <3>3
  <2> QED
    BY <2>1, <2>2
<1>5. /\ fdtable' \in [Proc -> [Fd -> File \cup {Null}]]
      /\ \A q \in Proc, i \in Fd : fdtable'[q][i] = IF q = c THEN fdtable[p][i] ELSE fdtable[q][i]
  BY <1>1, <1>2
<1>6. TypeOK'
  <2>1. ASSUME NEW q \in live', NEW i \in Fd, fdtable'[q][i] # Null
        PROVE  /\ filetable'[fdtable'[q][i]].refcount > 0
               /\ filetable'[fdtable'[q][i]].type # "FDEUNKNOWN"
    <3>1. PICK f \in File : /\ f = fdtable'[q][i]
                           /\ filetable[f].refcount > 0 /\ filetable[f].type # "FDEUNKNOWN"
      BY <1>1, <1>2, <1>5, <2>1
    <3>2. filetable[f].refcount \in Nat
      BY <1>2
    <3> QED
      BY <1>3, <1>4, <3>1, <3>2
  <2> QED
    BY <1>1, <1>2, <1>4, <1>5, <2>1 DEF TypeOK
<1>7. ASSUME NEW f \in File
      PROVE  filetable'[f].refcount = Cardinality(Holders(f)') + lost'[f]
  <2>1. /\ IsFiniteSet(Holders(f)) /\ Cardinality(Holders(f)) \in Nat
        /\ filetable[f].refcount = Cardinality(Holders(f)) + lost[f]
    BY <1>2, HoldersFinite DEF Inv, RefcountsExact, Holders
  <2>2. Holders(f)' = Holders(f) \cup ({c} \X PointingTo(p, f))
    <3>1. ASSUME NEW q \in live', NEW i \in Fd
          PROVE  <<q, i>> \in Holders(f)' <=> <<q, i>> \in Holders(f) \cup ({c} \X PointingTo(p, f))
      BY <1>1, <1>2, <1>5, <3>1 DEF Holders, PointingTo
    <3>2. Holders(f)' \subseteq live' \X Fd /\ Holders(f) \cup ({c} \X PointingTo(p, f)) \subseteq live' \X Fd
      BY <1>1 DEF Holders, PointingTo
    <3> QED
      BY <3>1, <3>2
  <2>3. Holders(f) \cap ({c} \X PointingTo(p, f)) = {}
    BY <1>1 DEF Holders
  <2>4. /\ IsFiniteSet({c} \X PointingTo(p, f)) /\ Uses(p, f) \in Nat
        /\ Cardinality({c} \X PointingTo(p, f)) = Uses(p, f)
    BY UsesCounted
  <2>5. Cardinality(Holders(f) \cup ({c} \X PointingTo(p, f))) = Cardinality(Holders(f)) + Uses(p, f)
    BY <2>1, <2>3, <2>4, DisjointSum
  <2>6. lost'[f] = lost[f] /\ lost[f] \in Nat
    BY <1>1, <1>2
  <2> QED
    BY <1>4, <2>1, <2>2, <2>4, <2>5, <2>6
<1>8. IsFiniteSet(live')
  BY <1>1, <1>2, FS_AddElement
<1> QED
  BY <1>6, <1>7, <1>8 DEF Inv, RefcountsExact, Holders

(* An exit gives back one reference for each descriptor of the process. *)
LEMMA InvExit ==
  ASSUME Inv, NEW p \in Proc, Exit(p)
  PROVE  Inv'
<1> USE FileTableAssumption, FdFinite
<1>1. /\ p \in live /\ live' = live \ {p}
      /\ halted' = halted /\ lost' = lost
      /\ filetable' = AfterExit(p)
      /\ fdtable' = [fdtable EXCEPT ![p] = [i \in Fd |->
                       IF @[i] # Null /\ AfterExit(p)[@[i]].refcount = 0 THEN Null ELSE @[i]]]
  BY DEF Exit, Ready
<1>2. /\ filetable \in [File -> [refcount : Nat, offset : Nat,
                                 inode : Inode \cup {Null}, type : Type]]
      /\ fdtable \in [Proc -> [Fd -> File \cup {Null}]]
      /\ live \subseteq Proc /\ lost \in [File -> Nat] /\ halted \in BOOLEAN
      /\ \A q \in live, i \in Fd : fdtable[q][i] # Null =>
           filetable[fdtable[q][i]].refcount > 0 /\ filetable[fdtable[q][i]].type # "FDEUNKNOWN"
      /\ IsFiniteSet(live)
  BY DEF Inv, TypeOK
<1>3. /\ fdtable' \in [Proc -> [Fd -> File \cup {Null}]]
      /\ \A q \in Proc \ {p}, i \in Fd : fdtable'[q][i] = fdtable[q][i]
  BY <1>1, <1>2
<1>4. \A f \in File : Uses(p, f) \in Nat
  BY UsesCounted
<1>5. ASSUME NEW f \in File
      PROVE  /\ filetable[f].refcount - Uses(p, f) \in Nat
             /\ filetable[f].refcount - Uses(p, f) = Cardinality(Holders(f)') + lost[f]
             /\ Cardinality(Holders(f)') \in Nat /\ IsFiniteSet(Holders(f)') /\ lost[f] \in Nat
  <2>1. /\ IsFiniteSet(Holders(f)) /\ Cardinality(Holders(f)) \in Nat
        /\ filetable[f].refcount = Cardinality(Holders(f)) + lost[f] /\ lost[f] \in Nat
    BY <1>2, HoldersFinite DEF Inv, RefcountsExact, Holders
  <2>2. Holders(f) = Holders(f)' \cup ({p} \X PointingTo(p, f))
    <3>1. ASSUME NEW q \in live, NEW i \in Fd
          PROVE  <<q, i>> \in Holders(f) <=> <<q, i>> \in Holders(f)' \cup ({p} \X PointingTo(p, f))
      BY <1>1, <1>2, <1>3, <3>1 DEF Holders, PointingTo
    <3>2. Holders(f) \subseteq live \X Fd /\ Holders(f)' \cup ({p} \X PointingTo(p, f)) \subseteq live \X Fd
      BY <1>1 DEF Holders, PointingTo
    <3> QED
      BY <3>1, <3>2
  <2>3. Holders(f)' \cap ({p} \X PointingTo(p, f)) = {}
    BY <1>1 DEF Holders
  <2>4. /\ IsFiniteSet({p} \X PointingTo(p, f)) /\ Uses(p, f) \in Nat
        /\ Cardinality({p} \X PointingTo(p, f)) = Uses(p, f)
    BY UsesCounted
  <2>5. IsFiniteSet(Holders(f)') /\ Cardinality(Holders(f)') \in Nat
    BY <2>1, <2>2, FS_Subset, FS_CardinalityType
  <2>6. Cardinality(Holders(f)' \cup ({p} \X PointingTo(p, f))) = Cardinality(Holders(f)') + Uses(p, f)
    BY <2>3, <2>4, <2>5, DisjointSum
  <2> QED
    BY <2>1, <2>2, <2>4, <2>5, <2>6
<1>6. /\ filetable' \in [File -> [refcount : Nat, offset : Nat,
                                  inode : Inode \cup {Null}, type : Type]]
      /\ \A f \in File : /\ filetable'[f].refcount = filetable[f].refcount - Uses(p, f)
                          /\ filetable'[f].type = filetable[f].type
  BY <1>1, <1>2, <1>5 DEF AfterExit
<1>7. TypeOK'
  <2>1. ASSUME NEW q \in live', NEW i \in Fd, fdtable'[q][i] # Null
        PROVE  /\ filetable'[fdtable'[q][i]].refcount > 0
               /\ filetable'[fdtable'[q][i]].type # "FDEUNKNOWN"
    <3>1. PICK f \in File : f = fdtable'[q][i] /\ filetable[f].type # "FDEUNKNOWN"
      BY <1>1, <1>2, <1>3, <2>1
    <3>2. <<q, i>> \in Holders(f)'
      BY <2>1, <3>1 DEF Holders
    <3>3. Cardinality(Holders(f)') # 0
      BY <1>5, <3>2, FS_EmptySet
    <3> QED
      BY <1>5, <1>6, <3>1, <3>3
  <2> QED
    BY <1>1, <1>2, <1>3, <1>6, <2>1 DEF TypeOK
<1>8. IsFiniteSet(live')
  BY <1>1, <1>2, FS_RemoveElement
<1> QED
  BY <1>1, <1>5, <1>6, <1>7, <1>8 DEF Inv, RefcountsExact, Holders

(* Read, write and lseek of a file move its position and nothing else. *)
LEMMA InvMove ==
  ASSUME Inv, NEW e \in File, NEW m \in Nat,
         filetable' = [filetable EXCEPT ![e].offset = m],
         UNCHANGED <<fdtable, live, halted, lost>>
  PROVE  Inv'
<1>1. /\ filetable \in [File -> [refcount : Nat, offset : Nat,
                                 inode : Inode \cup {Null}, type : Type]]
      /\ halted \in BOOLEAN
  BY DEF Inv, TypeOK
<1>2. /\ filetable' \in [File -> [refcount : Nat, offset : Nat,
                                  inode : Inode \cup {Null}, type : Type]]
      /\ \A f \in File : /\ filetable'[f].refcount = filetable[f].refcount
                          /\ filetable'[f].type = filetable[f].type
  BY <1>1
<1> QED
  BY <1>1, <1>2, InvSame

(* A number leads to an entry or to nothing, whoever's it is. *)
LEMMA EntryIs ==
  ASSUME Inv, NEW h \in Number
  PROVE  EntryAt(h) \in File \cup {Null}
<1>1. PICK q \in Proc, j \in Fd : h = <<q, j>>
  BY DEF Number
<1> QED
  BY <1>1 DEF EntryAt, Inv, TypeOK

LEMMA InvNext == Inv /\ [Next]_vars => Inv'
<1> SUFFICES ASSUME Inv, [Next]_vars PROVE Inv'
  OBVIOUS
<1> USE FileTableAssumption
<1>0. /\ filetable \in [File -> [refcount : Nat, offset : Nat,
                                 inode : Inode \cup {Null}, type : Type]]
      /\ fdtable \in [Proc -> [Fd -> File \cup {Null}]]
      /\ live \subseteq Proc /\ halted \in BOOLEAN
  BY DEF Inv, TypeOK
<1>1. ASSUME NEW p \in Proc, OpenCons(p)
      PROVE  Inv'
  BY <1>1, InvInstall DEF OpenCons
<1>2. ASSUME NEW p \in Proc, NEW n \in Inode, OpenFile(p, n)
      PROVE  Inv'
  BY <1>2, InvInstall DEF OpenFile
<1>3. ASSUME NEW p \in Proc, OpenMissing(p)
      PROVE  Inv'
  <2>1. PICK e \in File : /\ filetable[e].refcount = 0
                         /\ filetable' = [filetable EXCEPT ![e] = Blank]
                         /\ UNCHANGED <<fdtable, live, halted, lost>>
    BY <1>3, MinUnused DEF OpenMissing, Unused
  <2>2. Blank \in [refcount : Nat, offset : Nat, inode : Inode \cup {Null}, type : Type]
        /\ Blank.refcount = 0
    BY DEF Blank, Type
  <2>3. /\ filetable' \in [File -> [refcount : Nat, offset : Nat,
                                    inode : Inode \cup {Null}, type : Type]]
        /\ \A f \in File : f # e => filetable'[f] = filetable[f]
        /\ filetable'[e].refcount = 0
    BY <1>0, <2>1, <2>2
  <2> QED
    BY <1>0, <2>1, <2>3, InvSame
<1>4. CASE Halt
  BY <1>0, <1>4, InvSame DEF Halt
<1>5. CASE UNCHANGED vars
  BY <1>0, <1>5, InvSame DEF vars
<1>6. ASSUME NEW p \in Proc, NEW h \in Number, NEW n \in 1 .. MaxCount, ReadWrite(p, h, n)
      PROVE  Inv'
  <2>1. CASE EntryAt(h) = Null /\ Halt
    BY <1>4, <2>1
  <2>2. CASE /\ EntryAt(h) # Null
             /\ UNCHANGED <<filetable, fdtable, live, halted, lost>>
    BY <1>5, <2>2 DEF vars
  <2>3. CASE /\ EntryAt(h) # Null
             /\ \E m \in Moved(filetable[EntryAt(h)].offset, n) :
                  filetable' = [filetable EXCEPT ![EntryAt(h)].offset = @ + m]
             /\ UNCHANGED <<fdtable, live, halted, lost>>
    <3>1. PICK e \in File : e = EntryAt(h) /\ filetable[e].offset \in Nat
      BY <1>0, <2>3, EntryIs
    <3>2. PICK m \in Moved(filetable[e].offset, n) :
            filetable' = [filetable EXCEPT ![e].offset = @ + m]
      BY <2>3, <3>1
    <3>3. n \in Nat
      OBVIOUS
    <3>4. m \in Nat
      BY <3>1, <3>2, <3>3, MovedForward
    <3>5. PICK k \in Nat : k = filetable[e].offset + m
      BY <3>1, <3>4
    <3>6. filetable' = [filetable EXCEPT ![e].offset = k]
      BY <3>2, <3>5
    <3> QED
      BY <2>3, <3>6, InvMove
  <2> QED
    BY <1>6, <2>1, <2>2, <2>3 DEF ReadWrite
<1>7. ASSUME NEW p \in Proc, NEW h \in Number, NEW offset \in 0 .. MaxOffset, Lseek(p, h, offset)
      PROVE  Inv'
  <2>1. PICK e \in File : e = EntryAt(h)
    BY <1>0, <1>7, EntryIs DEF Lseek
  <2>2. CASE Halt
    BY <1>4, <2>2
  <2>3. CASE /\ filetable' = [filetable EXCEPT ![e].offset = offset]
             /\ UNCHANGED <<fdtable, live, halted, lost>>
    <3>1. offset \in Nat
      OBVIOUS
    <3> QED
      BY <2>3, <3>1, InvMove
  <2> QED
    BY <1>7, <2>1, <2>2, <2>3 DEF Lseek
<1>10. ASSUME NEW p \in Proc, Wild(p)
      PROVE  Inv'
  BY <1>4, <1>10 DEF Wild
<1>8. ASSUME NEW p \in Proc, NEW c \in Proc, Fork(p, c)
      PROVE  Inv'
  BY <1>8, InvFork
<1>9. ASSUME NEW p \in Proc, Exit(p)
      PROVE  Inv'
  BY <1>9, InvExit
<1> QED
  BY <1>1, <1>2, <1>3, <1>5, <1>6, <1>7, <1>8, <1>9, <1>10 DEF Next

(* The table is well formed: every descriptor of a process that exists     *)
(* leads to an entry in use, of a known type (allocfile, file.c 23-34).    *)
THEOREM DescriptorsLeadSomewhere == Spec => []TypeOK
<1>1. Spec => []Inv
  BY InvInit, InvNext, PTL DEF Spec
<1>2. Inv => TypeOK
  BY DEF Inv
<1> QED
  BY <1>1, <1>2, PTL

(* Over any order of opens, forks and exits the count of an entry is the   *)
(* number of descriptors that lead to it, and of those an open overwrote   *)
(* (proc.c 494 and 378, file.c 149 and 206).                               *)
THEOREM ReferencesAreCounted == Spec => []RefcountsExact
<1>1. Spec => []Inv
  BY InvInit, InvNext, PTL DEF Spec
<1>2. Inv => RefcountsExact
  BY DEF Inv
<1> QED
  BY <1>1, <1>2, PTL

------------------------------------------------------------------------------
(* The refinement of OpenFiles: what its variables are, by the entry that  *)
(* each descriptor leads to.                                               *)

Holder == Proc \X Fd
Entry(h) == IF h[1] \in live THEN fdtable[h[1]][h[2]] ELSE Null
Names == [h \in Holder |-> IF Entry(h) = Null THEN {} ELSE {filetable[Entry(h)].inode}]
Position == [h \in Holder |-> IF Entry(h) = Null THEN 0 ELSE filetable[Entry(h)].offset]
Sharers == [h \in Holder |-> {g \in Holder : Entry(h) # Null /\ Entry(g) = Entry(h)}]

MappedNames == [h \in Proc \X Fd |-> {filetable[e].inode : e \in Pointed(h)}]
MappedPosition ==
  [h \in Proc \X Fd |-> IF Pointed(h) = {} THEN 0 ELSE filetable[fdtable[h[1]][h[2]]].offset]
MappedSharers ==
  [h \in Proc \X Fd |-> {g \in Proc \X Fd : Pointed(g) \cap Pointed(h) # {}}]

Mapping == MappedNames = Names /\ MappedPosition = Position /\ MappedSharers = Sharers

LEMMA MappingHolds == Mapping
<1>1. \A h : Pointed(h) = {Entry(h)} \ {Null}
  BY DEF Pointed, Entry
<1>2. MappedNames = Names
  <2>1. ASSUME NEW h \in Holder
        PROVE  {filetable[e].inode : e \in Pointed(h)}
                 = IF Entry(h) = Null THEN {} ELSE {filetable[Entry(h)].inode}
    BY <1>1
  <2> QED
    BY <2>1 DEF MappedNames, Names, Holder
<1>3. MappedPosition = Position
  <2>1. ASSUME NEW h \in Holder
        PROVE  (IF Pointed(h) = {} THEN 0 ELSE filetable[fdtable[h[1]][h[2]]].offset)
                 = IF Entry(h) = Null THEN 0 ELSE filetable[Entry(h)].offset
    BY <1>1 DEF Entry
  <2> QED
    BY <2>1 DEF MappedPosition, Position, Holder
<1>4. MappedSharers = Sharers
  <2>1. ASSUME NEW h \in Holder, NEW g \in Holder
        PROVE  Pointed(g) \cap Pointed(h) # {} <=> Entry(h) # Null /\ Entry(g) = Entry(h)
    BY <1>1
  <2> QED
    BY <2>1 DEF MappedSharers, Sharers, Holder
<1> QED
  BY <1>2, <1>3, <1>4 DEF Mapping

LEMMA MappingHoldsNext == Mapping'
BY MappingHolds, PTL

LEMMA FilesInit == Init => Files!Init
<1> SUFFICES ASSUME Init PROVE Files!Init
  OBVIOUS
<1>1. \A h \in Holder : Entry(h) = Null
  BY DEF Init, Entry, Holder
<1>2. /\ Names = [h \in Holder |-> {}] /\ Sharers = [h \in Holder |-> {}]
      /\ Position = [h \in Holder |-> 0]
  BY <1>1 DEF Names, Sharers, Position
<1>3. First \in Proc /\ live = {First}
  BY FileTableAssumption DEF Init
<1> QED
  BY <1>2, <1>3, MappingHolds DEF Files!Init, Files!Nobody, Files!Holder, Holder, Mapping,
     MappedNames, MappedPosition, MappedSharers

(* An open: the entry had no holder, so it has one, and nobody else's      *)
(* entry changes.                                                          *)
LEMMA FilesInstall ==
  ASSUME Inv, NEW p \in Proc, NEW inode \in Inode \cup {Null}, NEW type \in {"FDCONS", "FDFILE"},
         Install(p, inode, type)
  PROVE  Files!Next
<1> DEFINE e == Min(Unused)
           a == <<p, 0>>
<1> USE FileTableAssumption, FdFinite
<1>1. /\ p \in live /\ Unused # {} /\ live' = live
      /\ filetable' = [filetable EXCEPT ![e] =
                          [refcount |-> 1, offset |-> 0, inode |-> inode, type |-> type]]
      /\ fdtable' = [fdtable EXCEPT ![p][0] = e]
  BY DEF Install, Ready
<1>2. /\ filetable \in [File -> [refcount : Nat, offset : Nat,
                                 inode : Inode \cup {Null}, type : Type]]
      /\ fdtable \in [Proc -> [Fd -> File \cup {Null}]] /\ live \subseteq Proc
  BY DEF Inv, TypeOK
<1>3. e \in File /\ Holders(e) = {}
  BY <1>1, MinUnused, UnusedUnheld
<1>4. e # Null
  BY <1>3 DEF File
<1> HIDE DEF e
<1>5. a \in Holder /\ a[1] = p /\ a[2] = 0
  BY DEF Holder
<1>6. ASSUME NEW h \in Holder
      PROVE  /\ Entry(h)' = IF h = a THEN e ELSE Entry(h)
             /\ Entry(h) \in File \cup {Null} /\ Entry(h) # e
  <2>1. PICK q \in Proc, i \in Fd : h = <<q, i>>
    BY DEF Holder
  <2>2. fdtable'[q][i] = IF q = p /\ i = 0 THEN e ELSE fdtable[q][i]
    BY <1>1, <1>2, <2>1
  <2>3. Entry(h)' = IF h = a THEN e ELSE Entry(h)
    BY <1>1, <2>1, <2>2 DEF Entry
  <2>4. Entry(h) \in File \cup {Null}
    BY <1>2, <2>1 DEF Entry
  <2>5. Entry(h) # e
    <3>1. CASE q \in live
      BY <1>3, <2>1, <3>1 DEF Entry, Holders
    <3>2. CASE q \notin live
      BY <1>4, <2>1, <3>2 DEF Entry
    <3> QED
      BY <3>1, <3>2
  <2> QED
    BY <2>3, <2>4, <2>5
<1>7. \A f \in File : filetable'[f] =
        IF f = e THEN [refcount |-> 1, offset |-> 0, inode |-> inode, type |-> type] ELSE filetable[f]
  BY <1>1, <1>2, <1>3
<1> HIDE DEF a
<1>8. Names' = [Names EXCEPT ![a] = {inode}]
  <2>1. ASSUME NEW h \in Holder
        PROVE  (IF Entry(h)' = Null THEN {} ELSE {filetable'[Entry(h)'].inode})
                 = IF h = a THEN {inode}
                   ELSE IF Entry(h) = Null THEN {} ELSE {filetable[Entry(h)].inode}
    <3>1. CASE h = a
      <4>1. filetable'[e].inode = inode
        BY <1>3, <1>7
      <4> QED
        BY <1>4, <1>6, <3>1, <4>1
    <3>2. CASE h # a /\ Entry(h) = Null
      BY <1>6, <3>2
    <3>3. CASE h # a /\ Entry(h) # Null
      <4>1. filetable'[Entry(h)] = filetable[Entry(h)]
        BY <1>6, <1>7, <3>3
      <4> QED
        BY <1>6, <3>3, <4>1
    <3> QED
      BY <3>1, <3>2, <3>3
  <2> QED
    BY <1>5, <2>1 DEF Names, Holder
<1>9. Position' = [Position EXCEPT ![a] = 0]
  <2>1. ASSUME NEW h \in Holder
        PROVE  (IF Entry(h)' = Null THEN 0 ELSE filetable'[Entry(h)'].offset)
                 = IF h = a THEN 0
                   ELSE IF Entry(h) = Null THEN 0 ELSE filetable[Entry(h)].offset
    BY <1>3, <1>4, <1>6, <1>7
  <2> QED
    BY <1>5, <2>1 DEF Position, Holder
<1>10. Sharers' = [h \in Holder |-> IF h = a THEN {a} ELSE Sharers[h] \ {a}]
  <2>1. ASSUME NEW h \in Holder, NEW g \in Holder
        PROVE  (Entry(h)' # Null /\ Entry(g)' = Entry(h)')
                 <=> g \in IF h = a THEN {a} ELSE Sharers[h] \ {a}
    BY <1>4, <1>5, <1>6 DEF Sharers
  <2>2. Sharers \in [Holder -> SUBSET Holder]
    BY DEF Sharers
  <2>3. \A h \in Holder : (IF h = a THEN {a} ELSE Sharers[h] \ {a}) \subseteq Holder
    BY <1>5, <2>2
  <2> QED
    BY <2>1, <2>3 DEF Sharers, Holder
<1>11. Files!Open(p, 0, inode)
  <2>1. [Files!Without({a}) EXCEPT ![a] = {a}] = Sharers'
    <3>1. MappedSharers = Sharers
      BY MappingHolds DEF Mapping
    <3> QED
      BY <1>10, <3>1 DEF Files!Without, Files!Holder, Holder, MappedSharers
  <2> QED
    BY <1>1, <1>8, <1>9, <2>1, MappingHolds, MappingHoldsNext
    DEF Files!Open, Mapping, MappedNames, MappedPosition, MappedSharers, a
<1> QED
  BY <1>11 DEF Files!Next

(* A step that leaves every holder's entry, its inode and its offset as    *)
(* they are, or changes them only where nobody leads.                      *)
LEMMA FilesSame ==
  ASSUME live' = live,
         \A h \in Holder :
           /\ Entry(h)' = Entry(h)
           /\ Entry(h) # Null => filetable'[Entry(h)] = filetable[Entry(h)]
  PROVE  UNCHANGED Files!vars
<1>1. Names' = Names
  <2>1. ASSUME NEW h \in Holder
        PROVE  (IF Entry(h)' = Null THEN {} ELSE {filetable'[Entry(h)'].inode})
                 = IF Entry(h) = Null THEN {} ELSE {filetable[Entry(h)].inode}
    <3>1. CASE Entry(h) = Null
      BY <3>1
    <3>2. CASE Entry(h) # Null
      BY <3>2
    <3> QED
      BY <3>1, <3>2
  <2> QED
    BY <2>1 DEF Names, Holder
<1>2. Position' = Position
  <2>1. ASSUME NEW h \in Holder
        PROVE  (IF Entry(h)' = Null THEN 0 ELSE filetable'[Entry(h)'].offset)
                 = IF Entry(h) = Null THEN 0 ELSE filetable[Entry(h)].offset
    <3>1. CASE Entry(h) = Null
      BY <3>1
    <3>2. CASE Entry(h) # Null
      BY <3>2
    <3> QED
      BY <3>1, <3>2
  <2> QED
    BY <2>1 DEF Position, Holder
<1>3. Sharers' = Sharers
  BY DEF Sharers, Holder
<1> QED
  BY <1>1, <1>2, <1>3, MappingHolds, MappingHoldsNext
  DEF Files!vars, Mapping, MappedNames, MappedPosition, MappedSharers

(* An open of a name that does not exist clears an entry nobody leads to.  *)
LEMMA FilesOpenMissing ==
  ASSUME Inv, NEW p \in Proc, OpenMissing(p)
  PROVE  UNCHANGED Files!vars
<1> USE FileTableAssumption, FdFinite
<1>1. PICK e \in File : e = Min(Unused) /\ Holders(e) = {}
  BY MinUnused, UnusedUnheld DEF OpenMissing
<1>2. /\ filetable' = [filetable EXCEPT ![e] = Blank]
      /\ UNCHANGED <<fdtable, live>>
  BY <1>1 DEF OpenMissing
<1>3. /\ filetable \in [File -> [refcount : Nat, offset : Nat,
                                 inode : Inode \cup {Null}, type : Type]]
      /\ fdtable \in [Proc -> [Fd -> File \cup {Null}]]
  BY DEF Inv, TypeOK
<1>4. ASSUME NEW h \in Holder
      PROVE  /\ Entry(h)' = Entry(h)
             /\ Entry(h) # Null => filetable'[Entry(h)] = filetable[Entry(h)]
  <2>1. Entry(h)' = Entry(h)
    BY <1>2 DEF Entry
  <2>2. ASSUME Entry(h) # Null PROVE Entry(h) \in File \ {e}
    <3>1. PICK q \in Proc, i \in Fd : h = <<q, i>>
      BY DEF Holder
    <3>2. q \in live /\ Entry(h) = fdtable[q][i]
      BY <2>2, <3>1 DEF Entry
    <3>3. fdtable[q][i] # e
      <4>1. <<q, i>> \in live \X Fd /\ <<q, i>>[1] = q /\ <<q, i>>[2] = i
        BY <3>2
      <4>2. fdtable[q][i] = e => <<q, i>> \in Holders(e)
        BY <4>1 DEF Holders
      <4> QED
        BY <1>1, <4>2
    <3> QED
      BY <1>3, <2>2, <3>2, <3>3
  <2>3. ASSUME Entry(h) # Null PROVE filetable'[Entry(h)] = filetable[Entry(h)]
    BY <1>2, <1>3, <2>2, <2>3
  <2> QED
    BY <2>1, <2>3
<1> QED
  BY <1>2, <1>4, FilesSame

(* A new position is seen by all who share the entry, and by nobody else,  *)
(* whichever process p made the call.                                      *)
LEMMA FilesMove ==
  ASSUME Inv, NEW p \in live, NEW a \in Holder, NEW k \in Nat, NEW e \in File, Entry(a) = e,
         filetable' = [filetable EXCEPT ![e].offset = k],
         UNCHANGED <<fdtable, live>>
  PROVE  Files!Next
<1> USE FileTableAssumption
<1>1. /\ filetable \in [File -> [refcount : Nat, offset : Nat,
                                 inode : Inode \cup {Null}, type : Type]]
      /\ fdtable \in [Proc -> [Fd -> File \cup {Null}]] /\ p \in Proc
  BY DEF Inv, TypeOK
<1>3. a \in Holder /\ Entry(a) = e /\ e # Null
  BY DEF File
<1>4. \A f \in File : /\ filetable'[f].inode = filetable[f].inode
                      /\ filetable'[f].offset = IF f = e THEN k ELSE filetable[f].offset
  BY <1>1
<1>5. ASSUME NEW h \in Holder
      PROVE  Entry(h)' = Entry(h) /\ Entry(h) \in File \cup {Null}
  <2>1. PICK q \in Proc, j \in Fd : h = <<q, j>>
    BY DEF Holder
  <2> QED
    BY <1>1, <2>1 DEF Entry
<1>6. Names' = Names
  <2>1. ASSUME NEW h \in Holder
        PROVE  (IF Entry(h)' = Null THEN {} ELSE {filetable'[Entry(h)'].inode})
                 = IF Entry(h) = Null THEN {} ELSE {filetable[Entry(h)].inode}
    <3>1. CASE Entry(h) = Null
      BY <1>5, <3>1
    <3>2. CASE Entry(h) # Null
      BY <1>4, <1>5, <3>2
    <3> QED
      BY <3>1, <3>2
  <2> QED
    BY <2>1 DEF Names, Holder
<1>7. \A h \in Holder : h \in Sharers[a] <=> Entry(h) = e
  BY <1>3 DEF Sharers
<1>8. \A h \in Holder :
        Position'[h] = IF h \in Sharers[a] THEN k ELSE Position[h]
  <2>1. ASSUME NEW h \in Holder
        PROVE  Position'[h] = IF h \in Sharers[a] THEN k ELSE Position[h]
    <3>1. Position'[h] = IF Entry(h) = Null THEN 0 ELSE filetable'[Entry(h)].offset
      BY <1>5 DEF Position, Holder
    <3>2. Position[h] = IF Entry(h) = Null THEN 0 ELSE filetable[Entry(h)].offset
      BY DEF Position
    <3>3. CASE Entry(h) = Null
      BY <1>3, <1>7, <3>1, <3>2, <3>3
    <3>4. CASE Entry(h) # Null
      <4>1. filetable'[Entry(h)].offset = IF Entry(h) = e THEN k ELSE filetable[Entry(h)].offset
        BY <1>4, <1>5, <3>4
      <4> QED
        BY <1>7, <3>1, <3>2, <3>4, <4>1
    <3> QED
      BY <3>3, <3>4
  <2> QED
    BY <2>1
<1>9. Position'[a] = k
  BY <1>3, <1>7, <1>8
<1>10. Position' = [h \in Holder |-> IF h \in Sharers[a] THEN Position'[a] ELSE Position[h]]
  <2>1. Position' = [h \in Holder |-> Position'[h]]
    BY DEF Position, Holder
  <2> QED
    BY <1>8, <1>9, <2>1
<1>11. Sharers' = Sharers
  BY <1>5 DEF Sharers, Holder
<1>12. Names[a] # {}
  BY <1>3 DEF Names
<1>13. Files!Move(p, a)
  BY <1>6, <1>9, <1>10, <1>11, <1>12, MappingHolds, MappingHoldsNext
  DEF Files!Move, Files!Holder, Holder, Mapping, MappedNames, MappedPosition, MappedSharers
<1> QED
  BY <1>1, <1>13 DEF Files!Next, Files!Holder, Holder

(* A number that led to entry e, the caller's or a stranger's: somebody's  *)
(* position moves, or, where no process that exists leads to e, nothing    *)
(* that anybody has.                                                       *)
LEMMA FilesCall ==
  ASSUME Inv, NEW p \in live, NEW e \in File, NEW k \in Nat,
         filetable' = [filetable EXCEPT ![e].offset = k],
         UNCHANGED <<fdtable, live>>
  PROVE  [Files!Next]_(Files!vars)
<1>1. CASE \E a \in Holder : Entry(a) = e
  <2>1. PICK a \in Holder : Entry(a) = e
    BY <1>1
  <2>2. Files!Next
    BY <2>1, FilesMove
  <2> QED
    BY <2>2
<1>2. CASE \A h \in Holder : Entry(h) # e
  <2>1. /\ filetable \in [File -> [refcount : Nat, offset : Nat,
                                   inode : Inode \cup {Null}, type : Type]]
        /\ fdtable \in [Proc -> [Fd -> File \cup {Null}]]
    BY DEF Inv, TypeOK
  <2>2. ASSUME NEW h \in Holder
        PROVE  /\ Entry(h)' = Entry(h)
               /\ Entry(h) # Null => filetable'[Entry(h)] = filetable[Entry(h)]
    <3>1. Entry(h)' = Entry(h)
      BY DEF Entry
    <3>2. ASSUME Entry(h) # Null PROVE Entry(h) \in File
      <4>1. PICK q \in Proc, j \in Fd : h = <<q, j>>
        BY DEF Holder
      <4> QED
        BY <2>1, <3>2, <4>1 DEF Entry
    <3>3. ASSUME Entry(h) # Null PROVE filetable'[Entry(h)] = filetable[Entry(h)]
      BY <1>2, <2>1, <3>2, <3>3
    <3> QED
      BY <3>1, <3>3
  <2> QED
    BY <2>2, FilesSame
<1> QED
  BY <1>1, <1>2

(* The child leads where its parent does. *)
LEMMA FilesFork ==
  ASSUME Inv, NEW p \in Proc, NEW c \in Proc, Fork(p, c)
  PROVE  Files!Next
<1> USE FileTableAssumption
<1> DEFINE Of(h) == IF h[1] = c THEN <<p, h[2]>> ELSE h
           Twin(h) == <<c, h[2]>>
<1>1. /\ p \in live /\ c \notin live /\ live' = live \cup {c}
      /\ filetable' = AfterFork(p)
      /\ fdtable' = [fdtable EXCEPT ![c] = fdtable[p]]
  BY DEF Fork, Ready
<1>2. /\ filetable \in [File -> [refcount : Nat, offset : Nat,
                                 inode : Inode \cup {Null}, type : Type]]
      /\ fdtable \in [Proc -> [Fd -> File \cup {Null}]]
  BY DEF Inv, TypeOK
<1>3. \A f \in File : /\ filetable'[f].inode = filetable[f].inode
                      /\ filetable'[f].offset = filetable[f].offset
  BY <1>1, <1>2 DEF AfterFork
<1>4. ASSUME NEW h \in Holder
      PROVE  /\ Of(h) \in Holder /\ Entry(Of(h)) \in File \cup {Null}
             /\ Entry(h)' = Entry(Of(h))
             /\ h[1] = c => Entry(h) = Null
  <2>1. PICK q \in Proc, j \in Fd : h = <<q, j>>
    BY DEF Holder
  <2>2. CASE q = c
    BY <1>1, <1>2, <2>1, <2>2 DEF Entry, Holder
  <2>3. CASE q # c
    BY <1>1, <1>2, <2>1, <2>3 DEF Entry, Holder
  <2> QED
    BY <2>2, <2>3
<1>5. Names' = [h \in Holder |-> Names[Of(h)]]
  <2>1. ASSUME NEW h \in Holder
        PROVE  (IF Entry(h)' = Null THEN {} ELSE {filetable'[Entry(h)'].inode})
                 = IF Entry(Of(h)) = Null THEN {} ELSE {filetable[Entry(Of(h))].inode}
    <3> HIDE DEF Of
    <3>1. CASE Entry(Of(h)) = Null
      BY <1>4, <3>1
    <3>2. CASE Entry(Of(h)) # Null
      BY <1>3, <1>4, <3>2
    <3> QED
      BY <3>1, <3>2
  <2>2. \A h \in Holder : Of(h) \in Holder
    BY <1>4
  <2> HIDE DEF Of
  <2> QED
    BY <2>1, <2>2 DEF Names, Holder
<1>6. Position' = [h \in Holder |-> Position[Of(h)]]
  <2>1. ASSUME NEW h \in Holder
        PROVE  (IF Entry(h)' = Null THEN 0 ELSE filetable'[Entry(h)'].offset)
                 = IF Entry(Of(h)) = Null THEN 0 ELSE filetable[Entry(Of(h))].offset
    <3> HIDE DEF Of
    <3>1. CASE Entry(Of(h)) = Null
      BY <1>4, <3>1
    <3>2. CASE Entry(Of(h)) # Null
      BY <1>3, <1>4, <3>2
    <3> QED
      BY <3>1, <3>2
  <2>2. \A h \in Holder : Of(h) \in Holder
    BY <1>4
  <2> HIDE DEF Of
  <2> QED
    BY <2>1, <2>2 DEF Position, Holder
<1>7. ASSUME NEW h \in Holder
      PROVE  Sharers'[h] = Sharers[Of(h)] \cup {Twin(g) : g \in {k \in Sharers[Of(h)] : k[1] = p}}
  <2> DEFINE S == Sharers[Of(h)]
             x == Entry(Of(h))
  <2>1. /\ S = {g \in Holder : x # Null /\ Entry(g) = x}
        /\ Sharers'[h] = {g \in Holder : x # Null /\ Entry(Of(g)) = x}
    <3>1. Of(h) \in Holder
      BY <1>4
    <3> HIDE DEF Of
    <3> QED
      BY <1>4, <3>1 DEF Sharers, Holder
  <2> HIDE DEF S, x
  <2>2. ASSUME NEW g \in Sharers'[h]
        PROVE  g \in S \cup {Twin(k) : k \in {l \in S : l[1] = p}}
    <3>1. PICK q \in Proc, j \in Fd : g = <<q, j>>
      BY <2>1 DEF Holder
    <3>2. CASE q = c
      <4>1. <<p, j>> \in Holder /\ Entry(<<p, j>>) = x /\ x # Null
        BY <1>4, <2>1, <3>1, <3>2
      <4>2. <<p, j>> \in {l \in S : l[1] = p}
        BY <2>1, <4>1
      <4>3. g = Twin(<<p, j>>)
        BY <3>1, <3>2
      <4> QED
        BY <4>2, <4>3
    <3>3. CASE q # c
      BY <2>1, <3>1, <3>3
    <3> QED
      BY <3>2, <3>3
  <2>3. ASSUME NEW g \in S PROVE g \in Sharers'[h]
    <3>1. g \in Holder /\ x # Null /\ Entry(g) = x
      BY <2>1
    <3>2. g[1] # c
      BY <1>4, <3>1
    <3> QED
      BY <2>1, <3>1, <3>2
  <2>4. ASSUME NEW k \in S, k[1] = p PROVE Twin(k) \in Sharers'[h]
    <3>1. PICK j \in Fd : k = <<p, j>>
      BY <2>1, <2>4 DEF Holder
    <3>2. Twin(k) \in Holder /\ Of(Twin(k)) = k
      BY <3>1 DEF Holder
    <3> QED
      BY <2>1, <3>2
  <2> QED
    BY <2>2, <2>3, <2>4 DEF S
<1>8. Sharers' = [h \in Holder |->
                    Sharers[Of(h)] \cup {Twin(g) : g \in {k \in Sharers[Of(h)] : k[1] = p}}]
  <2>1. Sharers' = [h \in Holder |-> Sharers'[h]]
    BY DEF Sharers, Holder
  <2> HIDE DEF Of, Twin
  <2> QED
    BY <1>7, <2>1
<1>9. Files!Fork(p, c)
  BY <1>1, <1>5, <1>6, <1>8, MappingHolds, MappingHoldsNext
  DEF Files!Fork, Files!Holder, Holder, Mapping, MappedNames, MappedPosition, MappedSharers
<1> QED
  BY <1>9 DEF Files!Next

(* The descriptors of a process that exits lead nowhere, the others where  *)
(* they did.                                                               *)
LEMMA FilesExit ==
  ASSUME Inv, NEW p \in Proc, Exit(p)
  PROVE  Files!Next
<1> USE FileTableAssumption
<1> DEFINE H == {p} \X Fd
<1>1. /\ p \in live /\ live' = live \ {p} /\ filetable' = AfterExit(p)
      /\ \A q \in Proc \ {p} : fdtable'[q] = fdtable[q]
  BY DEF Exit, Ready, Inv, TypeOK
<1>2. /\ filetable \in [File -> [refcount : Nat, offset : Nat,
                                 inode : Inode \cup {Null}, type : Type]]
      /\ fdtable \in [Proc -> [Fd -> File \cup {Null}]]
  BY DEF Inv, TypeOK
<1>3. \A f \in File : /\ filetable'[f].inode = filetable[f].inode
                      /\ filetable'[f].offset = filetable[f].offset
  BY <1>1, <1>2 DEF AfterExit
<1>4. ASSUME NEW h \in Holder
      PROVE  /\ Entry(h)' = IF h \in H THEN Null ELSE Entry(h)
             /\ Entry(h) \in File \cup {Null}
  <2>1. PICK q \in Proc, j \in Fd : h = <<q, j>>
    BY DEF Holder
  <2>2. h \in H <=> q = p
    BY <2>1
  <2> QED
    BY <1>1, <1>2, <2>1, <2>2 DEF Entry
<1>5. H \subseteq Holder
  BY DEF Holder
<1> HIDE DEF H
<1>6. Names' = [h \in Holder |-> IF h \in H THEN {} ELSE Names[h]]
  <2>1. ASSUME NEW h \in Holder
        PROVE  (IF Entry(h)' = Null THEN {} ELSE {filetable'[Entry(h)'].inode})
                 = IF h \in H THEN {}
                   ELSE IF Entry(h) = Null THEN {} ELSE {filetable[Entry(h)].inode}
    <3>1. CASE h \in H \/ Entry(h) = Null
      BY <1>4, <3>1
    <3>2. CASE h \notin H /\ Entry(h) # Null
      BY <1>3, <1>4, <3>2
    <3> QED
      BY <3>1, <3>2
  <2> QED
    BY <2>1 DEF Names, Holder
<1>7. Position' = [h \in Holder |-> IF h \in H THEN 0 ELSE Position[h]]
  <2>1. ASSUME NEW h \in Holder
        PROVE  (IF Entry(h)' = Null THEN 0 ELSE filetable'[Entry(h)'].offset)
                 = IF h \in H THEN 0
                   ELSE IF Entry(h) = Null THEN 0 ELSE filetable[Entry(h)].offset
    <3>1. CASE h \in H \/ Entry(h) = Null
      BY <1>4, <3>1
    <3>2. CASE h \notin H /\ Entry(h) # Null
      BY <1>3, <1>4, <3>2
    <3> QED
      BY <3>1, <3>2
  <2> QED
    BY <2>1 DEF Position, Holder
<1>8. Sharers' = [h \in Holder |-> IF h \in H THEN {} ELSE Sharers[h] \ H]
  <2>1. ASSUME NEW h \in Holder, NEW g \in Holder
        PROVE  (Entry(h)' # Null /\ Entry(g)' = Entry(h)')
                 <=> g \in IF h \in H THEN {} ELSE Sharers[h] \ H
    BY <1>4 DEF Sharers
  <2>2. \A h \in Holder : (IF h \in H THEN {} ELSE Sharers[h] \ H) \subseteq Holder
    BY DEF Sharers
  <2> QED
    BY <2>1, <2>2 DEF Sharers, Holder
<1>9. Files!Exit(p)
  BY <1>1, <1>6, <1>7, <1>8, MappingHolds, MappingHoldsNext
  DEF Files!Exit, Files!Without, Files!Holder, Holder, Mapping, MappedNames, MappedPosition,
      MappedSharers, H
<1> QED
  BY <1>9 DEF Files!Next

LEMMA FilesNext == Inv /\ [Next]_vars => [Files!Next]_(Files!vars)
<1> USE FileTableAssumption
<1> SUFFICES ASSUME Inv, [Next]_vars PROVE [Files!Next]_(Files!vars)
  OBVIOUS
<1>1. ASSUME UNCHANGED <<filetable, fdtable, live>>
      PROVE  UNCHANGED Files!vars
  <2>1. \A h : Entry(h)' = Entry(h)
    BY <1>1 DEF Entry
  <2> QED
    BY <1>1, <2>1, FilesSame
<1>2. CASE UNCHANGED vars
  BY <1>1, <1>2 DEF vars
<1>3. ASSUME NEW p \in Proc, OpenCons(p)
      PROVE  [Files!Next]_(Files!vars)
  BY <1>3, FilesInstall DEF OpenCons
<1>4. ASSUME NEW p \in Proc, NEW n \in Inode, OpenFile(p, n)
      PROVE  [Files!Next]_(Files!vars)
  BY <1>4, FilesInstall DEF OpenFile
<1>5. ASSUME NEW p \in Proc, OpenMissing(p)
      PROVE  [Files!Next]_(Files!vars)
  BY <1>5, FilesOpenMissing
<1>6. ASSUME NEW p \in Proc, NEW h \in Number, NEW n \in 1 .. MaxCount, ReadWrite(p, h, n)
      PROVE  [Files!Next]_(Files!vars)
  <2>1. CASE Halt
    BY <1>1, <2>1 DEF Halt
  <2>2. CASE UNCHANGED filetable /\ UNCHANGED <<fdtable, live, halted, lost>>
    BY <1>1, <2>2
  <2>3. ASSUME EntryAt(h) # Null,
               NEW m \in Moved(filetable[EntryAt(h)].offset, n),
               filetable' = [filetable EXCEPT ![EntryAt(h)].offset = @ + m],
               UNCHANGED <<fdtable, live, halted, lost>>
        PROVE  [Files!Next]_(Files!vars)
    <3>1. PICK e \in File : e = EntryAt(h)
      BY <2>3, EntryIs
    <3>2. filetable[e].offset \in Nat /\ n \in Nat
      BY <3>1 DEF Inv, TypeOK
    <3>3. m \in Nat
      BY <2>3, <3>1, <3>2, MovedForward
    <3>4. PICK k \in Nat : k = filetable[e].offset + m
      BY <3>2, <3>3
    <3>5. filetable' = [filetable EXCEPT ![e].offset = k]
      BY <2>3, <3>1, <3>4
    <3>6. p \in live
      BY <1>6 DEF ReadWrite, Ready
    <3> QED
      BY <2>3, <3>5, <3>6, FilesCall
  <2> QED
    BY <1>6, <2>1, <2>2, <2>3 DEF ReadWrite
<1>7. ASSUME NEW p \in Proc, NEW h \in Number, NEW offset \in 0 .. MaxOffset, Lseek(p, h, offset)
      PROVE  [Files!Next]_(Files!vars)
  <2>1. CASE Halt
    BY <1>1, <2>1 DEF Halt
  <2>2. CASE /\ filetable' = [filetable EXCEPT ![EntryAt(h)].offset = offset]
             /\ UNCHANGED <<fdtable, live, halted, lost>>
    <3>1. offset \in Nat /\ p \in live /\ EntryAt(h) \in File
      BY <1>7, EntryIs DEF Lseek, Ready
    <3> QED
      BY <2>2, <3>1, FilesCall
  <2> QED
    BY <1>7, <2>1, <2>2 DEF Lseek
<1>10. ASSUME NEW p \in Proc, Wild(p)
      PROVE  [Files!Next]_(Files!vars)
  BY <1>1, <1>10 DEF Wild, Halt
<1>8. ASSUME NEW p \in Proc, NEW c \in Proc, Fork(p, c)
      PROVE  [Files!Next]_(Files!vars)
  BY <1>8, FilesFork
<1>9. ASSUME NEW p \in Proc, Exit(p)
      PROVE  [Files!Next]_(Files!vars)
  BY <1>9, FilesExit
<1> QED
  BY <1>2, <1>3, <1>4, <1>5, <1>6, <1>7, <1>8, <1>9, <1>10 DEF Next

(* The table gives programs what OpenFiles promises, and no more: the      *)
(* descriptors that fork made of one another share a position with no      *)
(* other, and a call, also one with a number that is not the caller's      *)
(* (file.c 217, 235, 273), moves the one position it leads to.             *)
THEOREM FileTableImplementsOpenFiles == Spec => FilesSpec
<1>1. Spec => []Inv
  BY InvInit, InvNext, PTL DEF Spec
<1> QED
  BY <1>1, FilesInit, FilesNext, PTL DEF Spec, FilesSpec, Files!Spec

------------------------------------------------------------------------------
(* Loops, whose rounds differ *)

(* What was after each of n rounds: step makes of the number of a round    *)
(* and of what was before it what is after it.                             *)
IsRounds(f, n, base, step) ==
  f = [k \in 0 .. n |-> IF k = 0 THEN base ELSE step[<<k, f[k - 1]>>]]

(* There is a function that keeps what was after every round. *)
LEMMA RoundsExist ==
  ASSUME NEW n \in Nat, NEW base, NEW step
  PROVE  \E f : IsRounds(f, n, base, step)
<1> DEFINE T == {m \in Nat : \E f : IsRounds(f, m, base, step)}
<1>1. 0 \in T
  <2>1. PICK f : f = [k \in 0 .. 0 |-> base]
    OBVIOUS
  <2>2. IsRounds(f, 0, base, step)
    BY <2>1 DEF IsRounds
  <2> QED
    BY <2>2
<1>2. ASSUME NEW m \in Nat, m \in T PROVE m + 1 \in T
  <2>1. PICK f : IsRounds(f, m, base, step)
    BY <1>2
  <2>2. PICK g : g = [k \in 0 .. m + 1 |-> IF k = m + 1 THEN step[<<k, f[m]>>] ELSE f[k]]
    OBVIOUS
  <2>3. ASSUME NEW k \in 0 .. m + 1
        PROVE  g[k] = IF k = 0 THEN base ELSE step[<<k, g[k - 1]>>]
    <3>1. CASE k = m + 1
      <4>1. k \in 0 .. m + 1 /\ k - 1 = m /\ k # 0 /\ m \in 0 .. m + 1 /\ m # m + 1
        BY <3>1
      <4>2. g[k] = step[<<k, f[m]>>] /\ g[m] = f[m]
        BY <2>2, <3>1, <4>1
      <4> QED
        BY <4>1, <4>2
    <3>2. CASE k # m + 1 /\ k # 0
      <4>1. k \in 0 .. m /\ k - 1 \in 0 .. m /\ k - 1 \in 0 .. m + 1 /\ k - 1 # m + 1
        BY <3>2
      <4>2. f[k] = step[<<k, f[k - 1]>>]
        BY <2>1, <3>2, <4>1 DEF IsRounds
      <4> QED
        BY <2>2, <3>2, <4>1, <4>2
    <3>3. CASE k = 0
      <4>1. 0 \in 0 .. m /\ k # m + 1
        BY <3>3
      <4> QED
        BY <2>1, <2>2, <3>3, <4>1 DEF IsRounds
    <3> QED
      BY <3>1, <3>2, <3>3
  <2>4. g = [k \in 0 .. m + 1 |-> IF k = 0 THEN base ELSE step[<<k, g[k - 1]>>]]
    BY <2>2, <2>3
  <2>5. IsRounds(g, m + 1, base, step)
    BY <2>4 DEF IsRounds
  <2> QED
    BY <2>5
<1> QED
  <2> HIDE DEF T
  <2>1. n \in T
    BY <1>1, <1>2, AllNaturals
  <2> QED
    BY <2>1 DEF T

(* What every round keeps, the last one leaves. *)
LEMMA LoopStays ==
  ASSUME NEW n \in Nat, NEW D, NEW f, f[0] \in D, \A k \in 1 .. n : f[k - 1] \in D => f[k] \in D
  PROVE  \A k \in 0 .. n : f[k] \in D
<1> DEFINE T == {m \in Nat : m \in 0 .. n => f[m] \in D}
<1>1. 0 \in T
  OBVIOUS
<1>2. ASSUME NEW m \in Nat, m \in T PROVE m + 1 \in T
  <2>1. CASE m + 1 \in 0 .. n
    <3>1. m + 1 \in 1 .. n /\ (m + 1) - 1 = m /\ m \in 0 .. n
      BY <2>1
    <3> QED
      BY <1>2, <3>1
  <2> QED
    BY <2>1
<1> QED
  <2> HIDE DEF T
  <2>1. Nat \subseteq T
    BY <1>1, <1>2, AllNaturals
  <2> QED
    BY <2>1 DEF T

(* Rounds that stay in D can be made. *)
LEMMA LoopFound ==
  ASSUME NEW n \in Nat, NEW D, NEW base \in D, NEW step \in [(1 .. n) \X D -> D]
  PROVE  \E f \in [0 .. n -> D] : IsRounds(f, n, base, step)
<1>1. PICK f : IsRounds(f, n, base, step)
  BY RoundsExist
<1>2. f[0] = base /\ \A k \in 1 .. n : f[k] = step[<<k, f[k - 1]>>]
  BY <1>1 DEF IsRounds
<1>3. \A k \in 0 .. n : f[k] \in D
  BY <1>2, LoopStays
<1>4. f \in [0 .. n -> D]
  BY <1>1, <1>3 DEF IsRounds
<1> QED
  BY <1>1, <1>4

(* A set that holds 0, and each number up to n with the one before it. *)
LEMMA UpTo ==
  ASSUME NEW n \in Nat, NEW D, 0 \in D, \A k \in 1 .. n : k - 1 \in D => k \in D
  PROVE  n \in D
<1>1. PICK id : id = [k \in 0 .. n |-> k]
  OBVIOUS
<1>2. id[0] \in D
  BY <1>1
<1>3. ASSUME NEW k \in 1 .. n, id[k - 1] \in D PROVE id[k] \in D
  <2>1. k - 1 \in 0 .. n /\ k \in 0 .. n
    OBVIOUS
  <2> QED
    BY <1>1, <1>3, <2>1
<1>4. \A k \in 0 .. n : id[k] \in D
  BY <1>2, <1>3, LoopStays
<1> QED
  BY <1>1, <1>4

------------------------------------------------------------------------------
(* The keyboard ring *)

(* Positions of the ring are reduced modulo its size; in terms of cases: *)
LEMMA Wrap ==
  ASSUME NEW p \in Pos, NEW d \in Pos
  PROVE  (p + d) % Size = IF p + d < Size THEN p + d ELSE p + d - Size
<1> USE RingAssumption DEF Pos
<1>1. CASE p + d < Size
  <2>1. p + d = Size * 0 + (p + d) /\ p + d \in 0 .. Size - 1
    BY <1>1
  <2> QED
    BY <1>1, <2>1
<1>2. CASE ~(p + d < Size)
  <2>1. PICK r \in 0 .. Size - 1 : r = p + d - Size
    BY <1>2
  <2>2. p + d = Size * 1 + r
    BY <2>1
  <2>3. (p + d) % Size = r
    BY <2>1, <2>2
  <2> QED
    BY <1>2, <2>1, <2>3
<1> QED
  BY <1>1, <1>2

(* How many characters lie between two positions. *)
Dist(r, w) == IF r <= w THEN w - r ELSE w - r + Size

(* It is what console.c computes modulo the size of the ring. *)
LEMMA DistIs ==
  ASSUME NEW r \in Pos, NEW w \in Pos
  PROVE  (w - r) % Size = Dist(r, w) /\ Dist(r, w) \in Pos
<1> USE RingAssumption DEF Pos, Dist
<1>1. CASE r <= w
  <2>1. w - r = Size * 0 + (w - r) /\ w - r \in 0 .. Size - 1
    BY <1>1
  <2> QED
    BY <1>1, <2>1
<1>2. CASE ~(r <= w)
  <2>1. PICK d \in 0 .. Size - 1 : d = w - r + Size
    BY <1>2
  <2>2. w - r = Size * (-1) + d
    BY <2>1
  <2>3. (w - r) % Size = d
    BY <2>1, <2>2, Z3
  <2> QED
    BY <1>2, <2>1, <2>3
<1> QED
  BY <1>1, <1>2

(* The position of the character that was written j characters before the *)
(* last one.                                                               *)
Behind(w, j) == IF j < w THEN w - 1 - j ELSE w - 1 - j + Size

(* The i-th of n unread characters was written n - i before the last. *)
LEMMA BehindIs ==
  ASSUME NEW r \in Pos, NEW w \in Pos, NEW n \in Nat, n = Dist(r, w), NEW i \in 1 .. n,
         NEW m, m = IF r + (i - 1) < Size THEN r + (i - 1) ELSE r + (i - 1) - Size
  PROVE  m \in Pos /\ m = Behind(w, n - i)
BY RingAssumption DEF Pos, Behind, Dist

(* The rings of well-formed states. *)
Rings == [buf : [Pos -> Char], rpos : Pos, wpos : Pos]

(* The ring k holds the end of the sequence all, all of it if there is     *)
(* room.                                                                   *)
Holds(k, all) ==
  /\ Dist(k.rpos, k.wpos) <= Len(all)
  /\ Len(all) < Size => Dist(k.rpos, k.wpos) = Len(all)
  /\ \A j \in Pos : j < Len(all) => k.buf[Behind(k.wpos, j)] = all[Len(all) - j]

(* The characters of ring k that a reader has not seen. *)
UnreadOf(k) == [i \in 1 .. Dist(k.rpos, k.wpos) |-> k.buf[(k.rpos + i - 1) % Size]]

(* It is the queue of the state. *)
LEMMA UnreadIs ==
  ASSUME kbs \in Rings
  PROVE  Unread = UnreadOf(kbs)
BY DistIs DEF Unread, UnreadOf, Rings

(* The unread characters are those before the position to write to. *)
LEMMA UnreadAt ==
  ASSUME NEW k \in Rings
  PROVE  /\ UnreadOf(k) \in Seq(Char) /\ Len(UnreadOf(k)) = Dist(k.rpos, k.wpos)
         /\ \A j \in Pos : j < Dist(k.rpos, k.wpos) =>
              /\ UnreadOf(k)[Dist(k.rpos, k.wpos) - j] = k.buf[Behind(k.wpos, j)]
<1>1. k.rpos \in Pos /\ k.wpos \in Pos /\ k.buf \in [Pos -> Char]
  BY DEF Rings
<1>2. PICK n \in Pos : n = Dist(k.rpos, k.wpos)
  BY <1>1, DistIs
<1>3. n \in Nat
  BY <1>2, RingAssumption DEF Pos
<1>4. PICK u : u = [i \in 1 .. n |-> k.buf[(k.rpos + i - 1) % Size]]
  OBVIOUS
<1>5. ASSUME NEW i \in 1 .. n
      PROVE  (k.rpos + i - 1) % Size \in Pos /\ (k.rpos + i - 1) % Size = Behind(k.wpos, n - i)
  <2>1. i - 1 \in Pos /\ n - i \in Pos
    BY <1>2, RingAssumption DEF Pos
  <2>2. (k.rpos + (i - 1)) % Size
          = IF k.rpos + (i - 1) < Size THEN k.rpos + (i - 1) ELSE k.rpos + (i - 1) - Size
    BY <1>1, <2>1, Wrap
  <2>3. k.rpos + i - 1 = k.rpos + (i - 1)
    BY <1>1, RingAssumption DEF Pos
  <2>4. (k.rpos + i - 1) % Size = IF k.rpos + (i - 1) < Size THEN k.rpos + (i - 1) ELSE k.rpos + (i - 1) - Size
    BY <2>2, <2>3
  <2>5. PICK m : m = (k.rpos + i - 1) % Size
    OBVIOUS
  <2>6. m = IF k.rpos + (i - 1) < Size THEN k.rpos + (i - 1) ELSE k.rpos + (i - 1) - Size
    BY <2>4, <2>5
  <2>7. PICK r \in Pos, w \in Pos : r = k.rpos /\ w = k.wpos
    BY <1>1
  <2>8. n = Dist(r, w) /\ m = IF r + (i - 1) < Size THEN r + (i - 1) ELSE r + (i - 1) - Size
    BY <1>2, <2>6, <2>7
  <2>9. m \in Pos /\ m = Behind(w, n - i)
    BY <1>3, <2>8, BehindIs
  <2> QED
    BY <2>5, <2>7, <2>9
<1>6. u \in [1 .. n -> Char]
  BY <1>1, <1>4, <1>5
<1>7. u \in Seq(Char) /\ Len(u) = n
  BY <1>3, <1>6
<1>8. ASSUME NEW j \in Pos, j < n PROVE u[n - j] = k.buf[Behind(k.wpos, j)]
  <2>1. n - j \in 1 .. n /\ n - (n - j) = j
    BY <1>2, <1>8, RingAssumption DEF Pos
  <2> QED
    BY <1>4, <1>5, <2>1
<1> QED
  BY <1>2, <1>4, <1>7, <1>8 DEF UnreadOf

(* The next position to write to, and what is behind it then. *)
LEMMA NextWrite ==
  ASSUME NEW r \in Pos, NEW w \in Pos, NEW v, v = (w + 1) % Size
  PROVE  /\ v \in Pos /\ v = (IF w + 1 < Size THEN w + 1 ELSE 0)
         /\ Dist(r, v) = IF Dist(r, w) + 1 < Size THEN Dist(r, w) + 1 ELSE 0
         /\ Behind(v, 0) = w
         /\ \A j \in Pos : j > 0 => /\ Behind(v, j) = Behind(w, j - 1)
                                    /\ Behind(v, j) # w /\ Behind(v, j) \in Pos
<1>1. 1 \in Pos
  BY RingAssumption DEF Pos
<1>2. v = IF w + 1 < Size THEN w + 1 ELSE w + 1 - Size
  BY <1>1, Wrap
<1>3. v \in Pos /\ v = (IF w + 1 < Size THEN w + 1 ELSE 0)
  BY <1>2, RingAssumption DEF Pos
<1>4. Dist(r, v) = IF Dist(r, w) + 1 < Size THEN Dist(r, w) + 1 ELSE 0
  BY <1>3, RingAssumption DEF Pos, Dist
<1>5. Behind(v, 0) = w
  BY <1>3, RingAssumption DEF Pos, Behind
<1>6. ASSUME NEW j \in Pos, j > 0
      PROVE  Behind(v, j) = Behind(w, j - 1) /\ Behind(v, j) # w /\ Behind(v, j) \in Pos
  BY <1>3, <1>6, RingAssumption DEF Pos, Behind
<1> QED
  BY <1>3, <1>4, <1>5, <1>6

(* A character comes to the ring, full or not. *)
LEMMA AddHolds ==
  ASSUME NEW k \in Rings, NEW all \in Seq(Char), Holds(k, all), NEW c \in Char
  PROVE  /\ AddKbdata(k, c) \in Rings /\ AddKbdata(k, c).rpos = k.rpos
         /\ Append(all, c) \in Seq(Char) /\ Holds(AddKbdata(k, c), Append(all, c))
<1>1. k.rpos \in Pos /\ k.wpos \in Pos /\ k.buf \in [Pos -> Char]
  BY DEF Rings
<1>2. PICK v : v = (k.wpos + 1) % Size
  OBVIOUS
<1>3. /\ v \in Pos
      /\ Dist(k.rpos, v) = IF Dist(k.rpos, k.wpos) + 1 < Size THEN Dist(k.rpos, k.wpos) + 1 ELSE 0
      /\ Behind(v, 0) = k.wpos
      /\ \A j \in Pos : j > 0 => /\ Behind(v, j) = Behind(k.wpos, j - 1)
                                 /\ Behind(v, j) # k.wpos /\ Behind(v, j) \in Pos
  BY <1>1, <1>2, NextWrite
<1>4. PICK t : t = AddKbdata(k, c)
  OBVIOUS
<1>5. /\ t \in Rings /\ t.rpos = k.rpos /\ t.wpos = v
      /\ t.buf[k.wpos] = c /\ \A p \in Pos : p # k.wpos => t.buf[p] = k.buf[p]
  BY <1>1, <1>2, <1>3, <1>4 DEF AddKbdata, Rings
<1>6. PICK n \in Nat : n = Len(all)
  OBVIOUS
<1>7. PICK a : a = Append(all, c)
  OBVIOUS
<1>8. a \in Seq(Char) /\ Len(a) = n + 1 /\ a[n + 1] = c /\ \A i \in 1 .. n : a[i] = all[i]
  BY <1>6, <1>7
<1>9. PICK d \in Pos : d = Dist(k.rpos, k.wpos)
  BY <1>1, DistIs
<1>10. Dist(t.rpos, t.wpos) = IF d + 1 < Size THEN d + 1 ELSE 0
  BY <1>3, <1>5, <1>9
<1>11. d <= n /\ (n < Size => d = n)
  BY <1>6, <1>9 DEF Holds
<1>12. /\ Dist(t.rpos, t.wpos) <= n + 1
       /\ n + 1 < Size => Dist(t.rpos, t.wpos) = n + 1
  BY <1>9, <1>10, <1>11, RingAssumption DEF Pos
<1>13. ASSUME NEW j \in Pos, j < n + 1 PROVE t.buf[Behind(t.wpos, j)] = a[n + 1 - j]
  <2>1. CASE j = 0
    BY <1>3, <1>5, <1>8, <2>1
  <2>2. CASE j > 0
    <3>1. j - 1 \in Pos /\ j - 1 < n /\ n + 1 - j \in 1 .. n /\ n - (j - 1) = n + 1 - j
      BY <1>13, <2>2, RingAssumption DEF Pos
    <3>2. t.buf[Behind(t.wpos, j)] = k.buf[Behind(k.wpos, j - 1)]
      BY <1>3, <1>5, <2>2
    <3>3. k.buf[Behind(k.wpos, j - 1)] = all[n - (j - 1)]
      BY <1>6, <3>1 DEF Holds
    <3> QED
      BY <1>8, <3>1, <3>2, <3>3
  <2> QED
    BY <2>1, <2>2, RingAssumption DEF Pos
<1>14. Holds(t, a)
  <2>1. ASSUME NEW j \in Pos, j < Len(a) PROVE t.buf[Behind(t.wpos, j)] = a[Len(a) - j]
    <3>1. Len(a) = n + 1
      BY <1>8
    <3>2. j < n + 1 /\ Len(a) - j = n + 1 - j
      BY <2>1, <3>1, RingAssumption DEF Pos
    <3>3. t.buf[Behind(t.wpos, j)] = a[n + 1 - j]
      BY <1>13, <3>2
    <3> QED
      BY <3>2, <3>3
  <2>2. Dist(t.rpos, t.wpos) <= Len(a) /\ (Len(a) < Size => Dist(t.rpos, t.wpos) = Len(a))
    BY <1>8, <1>12
  <2> QED
    BY <2>1, <2>2 DEF Holds
<1> QED
  BY <1>4, <1>5, <1>7, <1>8, <1>14

(* What the ring of a state holds at first: what is unread. *)
LEMMA UnreadHeld ==
  ASSUME NEW k \in Rings
  PROVE  Holds(k, UnreadOf(k))
<1>1. Dist(k.rpos, k.wpos) \in Pos
  BY DistIs DEF Rings
<1> QED
  BY <1>1, UnreadAt, RingAssumption DEF Holds, Pos

(* What a ring that holds all can still tell of it: everything, or what is *)
(* left after some of the oldest have gone.                                *)
LEMMA UnreadEnds ==
  ASSUME NEW k \in Rings, NEW all \in Seq(Char), Holds(k, all)
  PROVE  IF Len(all) <= Size - 1 THEN UnreadOf(k) = all
         ELSE \E gone \in 1 .. Len(all) : UnreadOf(k) = SubSeq(all, gone + 1, Len(all))
<1>1. PICK d \in Pos : d = Dist(k.rpos, k.wpos)
  BY DistIs DEF Rings
<1>2. PICK n \in Nat : n = Len(all)
  OBVIOUS
<1>3. d \in Nat /\ d < Size /\ d <= n /\ (n < Size => d = n)
  BY <1>1, <1>2, RingAssumption DEF Holds, Pos
<1>4. PICK u : u = UnreadOf(k)
  OBVIOUS
<1>5. u \in Seq(Char) /\ Len(u) = d /\ \A j \in Pos : j < d => u[d - j] = k.buf[Behind(k.wpos, j)]
  BY <1>1, <1>4, UnreadAt
<1>6. ASSUME NEW i \in 1 .. d PROVE u[i] = all[n - d + i]
  <2>1. d - i \in Pos /\ d - i < d /\ d - i < n /\ d - (d - i) = i /\ n - (d - i) = n - d + i
    BY <1>3, RingAssumption DEF Pos
  <2>2. u[i] = k.buf[Behind(k.wpos, d - i)]
    BY <1>5, <2>1
  <2>3. k.buf[Behind(k.wpos, d - i)] = all[n - (d - i)]
    BY <1>2, <2>1 DEF Holds
  <2> QED
    BY <2>1, <2>2, <2>3
<1>7. CASE n <= Size - 1
  <2>1. d = n
    BY <1>3, <1>7, RingAssumption
  <2>2. ASSUME NEW i \in 1 .. n PROVE u[i] = all[i]
    <3>1. n - d + i = i
      BY <2>1
    <3> QED
      BY <1>6, <2>1, <3>1
  <2>3. u = all
    BY <1>2, <1>5, <2>1, <2>2
  <2> QED
    BY <1>2, <1>4, <1>7, <2>3
<1>8. CASE ~(n <= Size - 1)
  <2>1. PICK gone \in Nat : gone = n - d
    BY <1>3
  <2>2. gone \in 1 .. n
    BY <1>3, <1>8, <2>1, RingAssumption
  <2>3. PICK s : s = SubSeq(all, gone + 1, n)
    OBVIOUS
  <2>4. s \in Seq(Char) /\ Len(s) = d /\ \A i \in 1 .. d : s[i] = all[gone + i]
    BY <1>2, <1>3, <2>1, <2>2, <2>3
  <2>5. ASSUME NEW i \in 1 .. d PROVE u[i] = s[i]
    <3>1. n - d + i = gone + i
      BY <1>1, <1>3, <2>1
    <3> QED
      BY <1>6, <2>4, <3>1
  <2>6. u = s
    BY <1>5, <2>4, <2>5
  <2> QED
    BY <1>2, <1>4, <1>8, <2>2, <2>3, <2>6
<1> QED
  BY <1>7, <1>8

(* One code leaves a ring. *)
LEMMA CodeKeepsRing ==
  ASSUME NEW k \in Rings, NEW c \in Char \cup {None}
  PROVE  HandleCode(k, c) \in Rings
<1>1. k.wpos \in Pos /\ 1 \in Pos /\ k.rpos \in Pos /\ k.buf \in [Pos -> Char]
  BY RingAssumption DEF Rings, Pos
<1>2. (k.wpos + 1) % Size \in Pos
  BY <1>1, NextWrite
<1> QED
  BY <1>1, <1>2 DEF HandleCode, AddKbdata, Rings

(* The loop of kbd_handler, code by code. *)
LEMMA HandledIs ==
  ASSUME kbs \in Rings, NEW cs \in Seq(Char \cup {None})
  PROVE  \E k \in [0 .. Len(cs) -> Rings] :
           /\ k[0] = kbs /\ Handled(cs) = k[Len(cs)]
           /\ \A n \in 1 .. Len(cs) : k[n] = HandleCode(k[n - 1], cs[n])
<1> DEFINE N == Len(cs)
           Is(k) == k = [n \in 0 .. N |-> IF n = 0 THEN kbs ELSE HandleCode(k[n - 1], cs[n])]
<1>1. N \in Nat /\ \A n \in 1 .. N : cs[n] \in Char \cup {None}
  OBVIOUS
<1>2. Handled(cs) = (CHOOSE k : Is(k))[N]
  BY DEF Handled
<1> HIDE DEF N
<1>3. PICK step : step = [nk \in (1 .. N) \X Rings |-> HandleCode(nk[2], cs[nk[1]])]
  OBVIOUS
<1>4. step \in [(1 .. N) \X Rings -> Rings]
  BY <1>1, <1>3, CodeKeepsRing
<1>5. PICK f \in [0 .. N -> Rings] : IsRounds(f, N, kbs, step)
  BY <1>1, <1>4, LoopFound
<1>6. Is(f)
  <2>1. ASSUME NEW n \in 0 .. N, n # 0 PROVE step[<<n, f[n - 1]>>] = HandleCode(f[n - 1], cs[n])
    <3>1. n \in 1 .. N /\ f[n - 1] \in Rings
      BY <1>1, <2>1
    <3> QED
      BY <1>3, <3>1
  <2> QED
    BY <1>5, <2>1 DEF IsRounds
<1>7. PICK k : k = CHOOSE h : Is(h)
  OBVIOUS
<1>8. Is(k)
  <2> HIDE DEF Is
  <2> QED
    BY <1>6, <1>7
<1>9. k[0] = kbs /\ \A n \in 1 .. N : k[n] = HandleCode(k[n - 1], cs[n])
  BY <1>1, <1>8
<1>10. \A n \in 0 .. N : k[n] \in Rings
  <2>1. \A n \in 1 .. N : k[n - 1] \in Rings => k[n] \in Rings
    BY <1>1, <1>9, CodeKeepsRing
  <2> QED
    BY <1>1, <1>9, <2>1, LoopStays
<1>11. k \in [0 .. N -> Rings]
  BY <1>8, <1>10
<1> QED
  BY <1>2, <1>7, <1>9, <1>11 DEF N

(* The characters among the codes, code by code. *)
LEMMA CharsIs ==
  ASSUME NEW cs \in Seq(Char \cup {None})
  PROVE  \E t \in [0 .. Len(cs) -> Seq(Char)] :
           /\ t[0] = <<>> /\ Chars(cs) = t[Len(cs)]
           /\ \A n \in 1 .. Len(cs) :
                t[n] = IF cs[n] = None THEN t[n - 1] ELSE Append(t[n - 1], cs[n])
<1> DEFINE N == Len(cs)
           With(s, n) == IF cs[n] = None THEN s ELSE Append(s, cs[n])
           Is(t) == t = [n \in 0 .. N |->
                          IF n = 0 THEN <<>> ELSE IF cs[n] = None THEN t[n - 1] ELSE Append(t[n - 1], cs[n])]
<1>1. N \in Nat /\ \A n \in 1 .. N : cs[n] \in Char \cup {None}
  OBVIOUS
<1>2. Chars(cs) = (CHOOSE t : Is(t))[N]
  BY DEF Chars
<1> HIDE DEF N
<1>3. ASSUME NEW n \in 1 .. N, NEW s \in Seq(Char) PROVE With(s, n) \in Seq(Char)
  BY <1>1
<1>4. PICK step : step = [nt \in (1 .. N) \X Seq(Char) |-> With(nt[2], nt[1])]
  OBVIOUS
<1>5. step \in [(1 .. N) \X Seq(Char) -> Seq(Char)]
  <2> HIDE DEF With
  <2> QED
    BY <1>3, <1>4
<1>6. <<>> \in Seq(Char)
  OBVIOUS
<1>7. PICK f \in [0 .. N -> Seq(Char)] : IsRounds(f, N, <<>>, step)
  BY <1>1, <1>5, <1>6, LoopFound
<1>8. Is(f)
  <2>1. ASSUME NEW n \in 0 .. N, n # 0 PROVE step[<<n, f[n - 1]>>] = With(f[n - 1], n)
    <3>1. n \in 1 .. N /\ f[n - 1] \in Seq(Char)
      BY <1>1, <2>1
    <3> HIDE DEF With
    <3> QED
      BY <1>4, <3>1
  <2> QED
    BY <1>7, <2>1 DEF IsRounds
<1>9. PICK t : t = CHOOSE h : Is(h)
  OBVIOUS
<1>10. Is(t)
  <2> HIDE DEF Is
  <2> QED
    BY <1>8, <1>9
<1>11. t[0] = <<>> /\ \A n \in 1 .. N : t[n] = With(t[n - 1], n)
  <2>1. \A n \in 0 .. N : t[n] = IF n = 0 THEN <<>> ELSE With(t[n - 1], n)
    BY <1>10
  <2>2. 0 \in 0 .. N /\ \A n \in 1 .. N : n \in 0 .. N /\ n # 0
    BY <1>1
  <2> HIDE DEF With
  <2> QED
    BY <2>1, <2>2
<1>12. \A n \in 0 .. N : t[n] \in Seq(Char)
  <2>1. ASSUME NEW n \in 1 .. N, t[n - 1] \in Seq(Char) PROVE t[n] \in Seq(Char)
    <3> HIDE DEF With
    <3> QED
      BY <1>3, <1>11, <2>1
  <2> QED
    BY <1>1, <1>6, <1>11, <2>1, LoopStays
<1>13. t \in [0 .. N -> Seq(Char)]
  BY <1>10, <1>12
<1> QED
  BY <1>2, <1>9, <1>11, <1>13 DEF N

(* Appending to what follows something appends to the whole. *)
LEMMA AppendAfter ==
  ASSUME NEW u \in Seq(Char), NEW s \in Seq(Char), NEW c \in Char
  PROVE  Append(u \o s, c) = u \o Append(s, c)
OBVIOUS

(* After an interrupt the ring holds the end of what was unread and came,  *)
(* and nothing else has changed.                                           *)
LEMMA InterruptHolds ==
  ASSUME kbs \in Rings, NEW cs \in Seq(Char \cup {None})
  PROVE  /\ Handled(cs) \in Rings /\ Chars(cs) \in Seq(Char) /\ Len(Chars(cs)) <= Len(cs)
         /\ UnreadOf(kbs) \o Chars(cs) \in Seq(Char)
         /\ Holds(Handled(cs), UnreadOf(kbs) \o Chars(cs))
<1>1. PICK N \in Nat : N = Len(cs)
  OBVIOUS
<1>2. PICK k \in [0 .. N -> Rings] : /\ k[0] = kbs /\ Handled(cs) = k[N]
                                     /\ \A n \in 1 .. N : k[n] = HandleCode(k[n - 1], cs[n])
  BY <1>1, HandledIs
<1>3. PICK t \in [0 .. N -> Seq(Char)] :
           /\ t[0] = <<>> /\ Chars(cs) = t[N]
           /\ \A n \in 1 .. N : t[n] = IF cs[n] = None THEN t[n - 1] ELSE Append(t[n - 1], cs[n])
  BY <1>1, CharsIs
<1>4. PICK u \in Seq(Char) : u = UnreadOf(kbs)
  BY UnreadAt
<1>5. PICK D : D = {n \in 0 .. N : Len(t[n]) <= n /\ Holds(k[n], u \o t[n])}
  OBVIOUS
<1>6. 0 \in D
  <2>1. u \o t[0] = u /\ Len(t[0]) = 0
    BY <1>3, ConcatEmptySeq
  <2>2. Holds(k[0], u)
    BY <1>2, <1>4, UnreadHeld
  <2>3. 0 \in 0 .. N /\ Len(t[0]) <= 0 /\ Holds(k[0], u \o t[0])
    BY <2>1, <2>2
  <2> QED
    BY <1>5, <2>3
<1>7. ASSUME NEW n \in 1 .. N, n - 1 \in D PROVE n \in D
  <2>1. n - 1 \in 0 .. N /\ n \in 0 .. N /\ n \in Nat /\ n - 1 \in Nat
    BY <1>1
  <2>2. PICK x, s, c : x = k[n - 1] /\ s = t[n - 1] /\ c = cs[n]
    OBVIOUS
  <2>3. x \in Rings /\ s \in Seq(Char) /\ c \in Char \cup {None} /\ Len(s) \in Nat /\ Len(s) <= n - 1
    <3>1. x \in Rings /\ s \in Seq(Char)
      BY <2>1, <2>2
    <3>2. c \in Char \cup {None}
      BY <1>1, <2>2
    <3>3. Len(s) \in Nat /\ Len(s) <= n - 1
      BY <1>5, <1>7, <2>2, <3>1
    <3> QED
      BY <3>1, <3>2, <3>3
  <2>4. Holds(x, u \o s) /\ u \o s \in Seq(Char)
    BY <1>5, <1>7, <2>2, <2>3
  <2>5. k[n] = HandleCode(x, c) /\ t[n] = IF c = None THEN s ELSE Append(s, c)
    BY <1>2, <1>3, <2>2
  <2>6. CASE c = None
    <3>1. k[n] = x /\ t[n] = s
      BY <2>5, <2>6 DEF HandleCode
    <3>2. Len(s) <= n
      BY <2>1, <2>3
    <3> QED
      BY <1>5, <2>1, <2>4, <3>1, <3>2
  <2>7. CASE c # None
    <3>1. c \in Char /\ k[n] = AddKbdata(x, c) /\ t[n] = Append(s, c)
      BY <2>3, <2>5, <2>7 DEF HandleCode
    <3>2. Holds(AddKbdata(x, c), Append(u \o s, c))
      BY <2>3, <2>4, <3>1, AddHolds
    <3>3. Append(u \o s, c) = u \o Append(s, c)
      <4>1. s \in Seq(Char) /\ c \in Char
        BY <2>3, <3>1
      <4> QED
        BY <4>1, AppendAfter
    <3>4. Len(Append(s, c)) <= n
      <4>1. Len(Append(s, c)) = Len(s) + 1
        BY <2>3
      <4> QED
        BY <2>1, <2>3, <4>1
    <3> QED
      BY <1>5, <2>1, <3>1, <3>2, <3>3, <3>4
  <2> QED
    BY <2>6, <2>7
<1>8. N \in D
  BY <1>6, <1>7, UpTo
<1>9. Len(t[N]) <= N /\ Holds(k[N], u \o t[N]) /\ k[N] \in Rings /\ t[N] \in Seq(Char)
  BY <1>1, <1>5, <1>8
<1>10. u \o t[N] \in Seq(Char)
  BY <1>9
<1> QED
  BY <1>1, <1>2, <1>3, <1>4, <1>9, <1>10

(* After n rounds of cons_read: as many of the oldest characters, as far   *)
(* as there are any, are in its answer and out of the ring.                *)
Least(n, m) == IF n < m THEN n ELSE m

TakenSo(s, n) ==
  LET d == Dist(kbs.rpos, kbs.wpos) IN
  /\ s.kbs \in Rings /\ s.kbs.buf = kbs.buf /\ s.kbs.wpos = kbs.wpos
  /\ Dist(s.kbs.rpos, kbs.wpos) = d - Least(n, d)
  /\ s.got \in Seq(Char) /\ Len(s.got) = Least(n, d)
  /\ \A i \in 1 .. Least(n, d) : s.got[i] = UnreadOf(kbs)[i]

(* The position that is read next, and how many remain. *)
LEMMA NextRead ==
  ASSUME NEW r \in Pos, NEW w \in Pos, r # w
  PROVE  /\ (r + 1) % Size \in Pos /\ Dist((r + 1) % Size, w) = Dist(r, w) - 1
         /\ Dist(r, w) \in Pos /\ Dist(r, w) > 0 /\ Behind(w, Dist(r, w) - 1) = r
<1>1. 1 \in Pos
  BY RingAssumption DEF Pos
<1>2. PICK v : v = (r + 1) % Size
  OBVIOUS
<1>3. v = IF r + 1 < Size THEN r + 1 ELSE r + 1 - Size
  BY <1>1, <1>2, Wrap
<1>4. v \in Pos /\ Dist(v, w) = Dist(r, w) - 1
  BY <1>3, RingAssumption DEF Pos, Dist
<1>5. Dist(r, w) \in Pos /\ Dist(r, w) > 0 /\ Behind(w, Dist(r, w) - 1) = r
  BY RingAssumption DEF Pos, Dist, Behind
<1> QED
  BY <1>2, <1>4, <1>5

(* Positions are equal when nothing is between them. *)
LEMMA EmptyRing ==
  ASSUME NEW r \in Pos, NEW w \in Pos
  PROVE  Dist(r, w) = 0 <=> r = w
BY RingAssumption DEF Pos, Dist

(* One round. *)
LEMMA RoundTakes ==
  ASSUME kbs \in Rings, NEW n \in Nat, NEW s \in [kbs : Rings, got : Seq(Char)], TakenSo(s, n)
  PROVE  GetKbdata(s) \in [kbs : Rings, got : Seq(Char)] /\ TakenSo(GetKbdata(s), n + 1)
<1>1. PICK w \in Pos, r \in Pos : w = kbs.wpos /\ r = s.kbs.rpos
  BY DEF Rings
<1>2. PICK d \in Pos : d = Dist(kbs.rpos, w)
  BY <1>1, DistIs DEF Rings
<1>3. d \in Nat
  BY RingAssumption DEF Pos
<1>4. PICK m \in Nat : m = Least(n, d)
  BY <1>3 DEF Least
<1>5. /\ s.kbs \in Rings /\ s.kbs.buf = kbs.buf /\ s.kbs.wpos = w /\ Dist(r, w) = d - m
      /\ s.got \in Seq(Char) /\ Len(s.got) = m
      /\ \A i \in 1 .. m : s.got[i] = UnreadOf(kbs)[i]
  BY <1>1, <1>2, <1>4 DEF TakenSo
<1>6. CASE r = w
  <2>1. GetKbdata(s) = s
    BY <1>1, <1>5, <1>6 DEF GetKbdata
  <2>2. d - m = 0
    BY <1>5, <1>6, EmptyRing
  <2>3. m = d /\ Least(n + 1, d) = m
    BY <1>3, <1>4, <2>2 DEF Least
  <2> QED
    BY <1>1, <1>2, <1>5, <2>1, <2>3 DEF TakenSo
<1>7. CASE r # w
  <2>1. PICK v : v = (r + 1) % Size
    OBVIOUS
  <2>2. v \in Pos /\ Dist(v, w) = d - m - 1 /\ d - m \in Pos /\ d - m > 0 /\ Behind(w, d - m - 1) = r
    BY <1>5, <1>7, <2>1, NextRead
  <2>3. m < d /\ m + 1 \in Nat /\ Least(n + 1, d) = m + 1 /\ d - m - 1 = d - (m + 1)
    BY <1>3, <1>4, <2>2 DEF Least
  <2>4. PICK c, t, k : c = kbs.buf[r] /\ t = Append(s.got, c) /\ k = [s.kbs EXCEPT !.rpos = v]
    OBVIOUS
  <2>5. GetKbdata(s) = [kbs |-> k, got |-> t]
    BY <1>1, <1>5, <1>7, <2>1, <2>4 DEF GetKbdata
  <2>6. k \in Rings /\ k.buf = kbs.buf /\ k.wpos = w /\ k.rpos = v
    BY <1>5, <2>2, <2>4 DEF Rings
  <2>7. c \in Char /\ c = UnreadOf(kbs)[m + 1]
    <3>1. kbs.buf \in [Pos -> Char]
      BY DEF Rings
    <3>2. d - m - 1 \in Pos /\ d - m - 1 < d /\ d - (d - m - 1) = m + 1
      BY <1>3, <2>2, <2>3, RingAssumption DEF Pos
    <3>3. UnreadOf(kbs)[d - (d - m - 1)] = kbs.buf[Behind(w, d - m - 1)]
      BY <1>1, <1>2, <3>2, UnreadAt
    <3> QED
      BY <2>2, <2>4, <3>1, <3>2, <3>3
  <2>8. t \in Seq(Char) /\ Len(t) = m + 1 /\ t[m + 1] = c /\ \A i \in 1 .. m : t[i] = s.got[i]
    BY <1>5, <2>4, <2>7
  <2>9. ASSUME NEW i \in 1 .. m + 1 PROVE t[i] = UnreadOf(kbs)[i]
    <3>1. i \in 1 .. m \/ i = m + 1
      OBVIOUS
    <3> QED
      BY <1>5, <2>7, <2>8, <3>1
  <2>10. TakenSo([kbs |-> k, got |-> t], n + 1)
    BY <1>1, <1>2, <2>2, <2>3, <2>6, <2>8, <2>9 DEF TakenSo
  <2> QED
    BY <2>5, <2>6, <2>8, <2>10
<1> QED
  BY <1>6, <1>7

(* The loop of cons_read. *)
LEMMA ReadTakes ==
  ASSUME kbs \in Rings, NEW count \in Nat
  PROVE  Taken(count) \in [kbs : Rings, got : Seq(Char)] /\ TakenSo(Taken(count), count)
<1> DEFINE Calls == [kbs : Rings, got : Seq(Char)]
           base == [kbs |-> kbs, got |-> <<>>]
           Is(r) == r = [n \in 0 .. count |-> IF n = 0 THEN base ELSE GetKbdata(r[n - 1])]
<1>1. Taken(count) = (CHOOSE r : Is(r))[count]
  BY DEF Taken
<1>2. base \in Calls /\ TakenSo(base, 0)
  <2>1. kbs.rpos \in Pos /\ kbs.wpos \in Pos /\ <<>> \in Seq(Char)
    BY DEF Rings
  <2>2. PICK d \in Nat : d = Dist(kbs.rpos, kbs.wpos)
    <3>1. Dist(kbs.rpos, kbs.wpos) \in Pos
      BY <2>1, DistIs
    <3>2. Dist(kbs.rpos, kbs.wpos) \in Nat
      BY <3>1, RingAssumption DEF Pos
    <3> QED
      BY <3>2
  <2>3. Least(0, d) = 0 /\ d - 0 = d
    BY <2>2 DEF Least
  <2>4. Len(base.got) = 0 /\ base.kbs = kbs
    OBVIOUS
  <2> QED
    BY <2>1, <2>2, <2>3, <2>4 DEF TakenSo
<1>3. ASSUME NEW s \in Calls PROVE GetKbdata(s) \in Calls
  <2>1. s.kbs.rpos \in Pos /\ s.kbs.wpos \in Pos /\ s.kbs \in Rings /\ s.got \in Seq(Char)
    BY DEF Rings
  <2>2. CASE s.kbs.rpos = s.kbs.wpos
    BY <2>2 DEF GetKbdata
  <2>3. CASE s.kbs.rpos # s.kbs.wpos
    <3>1. (s.kbs.rpos + 1) % Size \in Pos
      BY <2>1, <2>3, NextRead
    <3>2. [s.kbs EXCEPT !.rpos = (s.kbs.rpos + 1) % Size] \in Rings
      BY <2>1, <3>1 DEF Rings
    <3>3. Append(s.got, s.kbs.buf[s.kbs.rpos]) \in Seq(Char)
      BY <2>1 DEF Rings
    <3> QED
      BY <2>3, <3>2, <3>3 DEF GetKbdata
  <2> QED
    BY <2>2, <2>3
<1> HIDE DEF Calls, base
<1>4. PICK step : step = [ns \in (1 .. count) \X Calls |-> GetKbdata(ns[2])]
  OBVIOUS
<1>5. step \in [(1 .. count) \X Calls -> Calls]
  BY <1>3, <1>4
<1>6. PICK f \in [0 .. count -> Calls] : IsRounds(f, count, base, step)
  BY <1>2, <1>5, LoopFound
<1>7. Is(f)
  <2>1. ASSUME NEW n \in 0 .. count, n # 0 PROVE step[<<n, f[n - 1]>>] = GetKbdata(f[n - 1])
    <3>1. n \in 1 .. count /\ f[n - 1] \in Calls
      BY <2>1
    <3> QED
      BY <1>4, <3>1
  <2> QED
    BY <1>6, <2>1 DEF IsRounds
<1>8. PICK r : r = CHOOSE h : Is(h)
  OBVIOUS
<1>9. Is(r)
  <2> HIDE DEF Is
  <2> QED
    BY <1>7, <1>8
<1>10. r[0] = base /\ \A n \in 1 .. count : r[n] = GetKbdata(r[n - 1])
  BY <1>9
<1>11. PICK D : D = {n \in 0 .. count : r[n] \in Calls /\ TakenSo(r[n], n)}
  OBVIOUS
<1>12. 0 \in D
  BY <1>2, <1>10, <1>11
<1>13. ASSUME NEW n \in 1 .. count, n - 1 \in D PROVE n \in D
  <2>1. n - 1 \in Nat /\ (n - 1) + 1 = n /\ n \in 0 .. count
    OBVIOUS
  <2>2. r[n - 1] \in Calls /\ TakenSo(r[n - 1], n - 1)
    BY <1>11, <1>13
  <2>3. GetKbdata(r[n - 1]) \in Calls /\ TakenSo(GetKbdata(r[n - 1]), (n - 1) + 1)
    BY <2>1, <2>2, RoundTakes DEF Calls
  <2> QED
    BY <1>10, <1>11, <2>1, <2>3
<1>14. count \in D
  BY <1>12, <1>13, UpTo
<1> QED
  BY <1>1, <1>8, <1>11, <1>14 DEF Calls

(* What is left of a queue of which the first characters were taken. *)
LEMMA ReadLeaves ==
  ASSUME kbs \in Rings, NEW count \in Nat, NEW s, TakenSo(s, count),
         NEW u, u = UnreadOf(kbs), NEW m, m = Least(count, Len(u))
  PROVE  s.got = SubSeq(u, 1, m) /\ UnreadOf(s.kbs) = SubSeq(u, m + 1, Len(u))
<1>1. kbs.rpos \in Pos /\ kbs.wpos \in Pos
  BY DEF Rings
<1>2. PICK d \in Nat : d = Dist(kbs.rpos, kbs.wpos)
  <2>1. Dist(kbs.rpos, kbs.wpos) \in Pos
    BY <1>1, DistIs
  <2>2. Dist(kbs.rpos, kbs.wpos) \in Nat
    BY <2>1, RingAssumption DEF Pos
  <2> QED
    BY <2>2
<1>3. u \in Seq(Char) /\ Len(u) = d /\ d \in Pos
  BY <1>1, <1>2, UnreadAt, DistIs
<1>4. m \in 0 .. d
  BY <1>3 DEF Least
<1>5. PICK k, g : k = s.kbs /\ g = s.got
  OBVIOUS
<1>6. /\ k \in Rings /\ k.buf = kbs.buf /\ k.wpos = kbs.wpos /\ Dist(k.rpos, kbs.wpos) = d - m
      /\ g \in Seq(Char) /\ Len(g) = m /\ \A i \in 1 .. m : g[i] = u[i]
  BY <1>2, <1>3, <1>5 DEF TakenSo
<1>7. g = SubSeq(u, 1, m)
  <2>1. PICK t : t = SubSeq(u, 1, m)
    OBVIOUS
  <2>2. t \in Seq(Char) /\ Len(t) = m /\ \A i \in 1 .. m : t[i] = u[i]
    BY <1>3, <1>4, <2>1
  <2>3. \A i \in 1 .. m : g[i] = t[i]
    BY <1>6, <2>2
  <2>4. g = t
    BY <1>6, <2>2, <2>3
  <2> QED
    BY <2>1, <2>4
<1>8. UnreadOf(k) = SubSeq(u, m + 1, d)
  <2>1. PICK t, v : t = SubSeq(u, m + 1, d) /\ v = UnreadOf(k)
    OBVIOUS
  <2>2. t \in Seq(Char) /\ Len(t) = d - m /\ \A i \in 1 .. d - m : t[i] = u[m + i]
    BY <1>3, <1>4, <2>1
  <2>3. /\ v \in Seq(Char) /\ Len(v) = d - m
        /\ \A j \in Pos : j < d - m => v[d - m - j] = kbs.buf[Behind(kbs.wpos, j)]
    BY <1>6, <2>1, UnreadAt
  <2>4. ASSUME NEW i \in 1 .. d - m PROVE v[i] = t[i]
    <3>1. PICK j \in Pos : j = d - m - i
      BY <1>3, <1>4, RingAssumption DEF Pos
    <3>2. j < d - m /\ j < d /\ d - m - j = i /\ d - j = m + i
      BY <1>4, <3>1
    <3>3. v[d - m - j] = kbs.buf[Behind(kbs.wpos, j)]
      BY <2>3, <3>2
    <3>4. u[d - j] = kbs.buf[Behind(kbs.wpos, j)]
      BY <1>2, <3>2, UnreadAt
    <3> QED
      BY <2>2, <3>2, <3>3, <3>4
  <2>5. v = t
    BY <2>2, <2>3, <2>4
  <2> QED
    BY <2>1, <2>5
<1> QED
  BY <1>3, <1>5, <1>7, <1>8

(* The ring of boot is well formed, *)
LEMMA RingTypeInit == RingInit => RingTypeOK
BY RingAssumption DEF RingInit, RingTypeOK, Pos

(* and interrupts and reads leave it so. *)
LEMMA RingTypeNext == RingTypeOK /\ [RingNext]_ringvars => RingTypeOK'
<1> SUFFICES ASSUME RingTypeOK, [RingNext]_ringvars PROVE RingTypeOK'
  OBVIOUS
<1>0. kbs \in Rings
  BY DEF RingTypeOK, Rings
<1>1. ASSUME NEW n \in 1 .. MaxCodes, NEW cs \in [1 .. n -> Char \cup {None}], KbdHandler(cs)
      PROVE  RingTypeOK'
  <2>1. cs \in Seq(Char \cup {None})
    OBVIOUS
  <2>2. Handled(cs) \in Rings
    BY <1>0, <2>1, InterruptHolds
  <2> QED
    BY <1>1, <2>1, <2>2 DEF KbdHandler, RingTypeOK, Rings
<1>2. ASSUME NEW count \in 0 .. MaxRead, ConsRead(count) PROVE RingTypeOK'
  <2>1. count \in Nat
    BY RingAssumption
  <2>2. Taken(count) \in [kbs : Rings, got : Seq(Char)]
    BY <1>0, <2>1, ReadTakes
  <2>3. Taken(count).kbs \in Rings /\ Taken(count).got \in Seq(Char)
    BY <2>2
  <2> QED
    BY <1>2, <2>3 DEF ConsRead, RingTypeOK, Rings
<1>3. CASE UNCHANGED ringvars
  BY <1>3 DEF ringvars, RingTypeOK
<1> QED
  BY <1>1, <1>2, <1>3 DEF RingNext

(* Both positions stay inside the ring, however full it is and however     *)
(* many characters come at a time (console.c 409-439).                     *)
THEOREM RingWellFormed == RingSpec => []RingTypeOK
BY RingTypeInit, RingTypeNext, PTL DEF RingSpec

(* The empty ring is the empty queue. *)
LEMMA QueueInit == RingInit => Queue!Init
<1> SUFFICES ASSUME RingInit PROVE Queue!Init
  OBVIOUS
<1>1. kbs \in Rings /\ kbs.rpos = 0 /\ kbs.wpos = 0 /\ codes = <<>> /\ answer = <<>>
  BY RingAssumption DEF RingInit, Rings, Pos
<1>2. Unread = <<>>
  <2>1. UnreadOf(kbs) \in Seq(Char) /\ Len(UnreadOf(kbs)) = 0
    BY <1>1, UnreadAt DEF Dist
  <2> QED
    BY <1>1, <2>1, UnreadIs
<1>3. Chars(codes) = <<>>
  <2>1. codes \in Seq(Char \cup {None}) /\ Len(codes) = 0
    BY <1>1
  <2> QED
    BY <2>1, CharsIs
<1> QED
  BY <1>1, <1>2, <1>3 DEF Queue!Init

(* An interrupt adds to the queue, a read takes from its front. *)
LEMMA QueueNext ==
  RingTypeOK /\ RingTypeOK' /\ [RingNext]_ringvars => [Queue!Next]_<<Unread, Chars(codes), answer>>
<1> SUFFICES ASSUME RingTypeOK, RingTypeOK', [RingNext]_ringvars
             PROVE  [Queue!Next]_<<Unread, Chars(codes), answer>>
  OBVIOUS
<1>0. kbs \in Rings /\ kbs' \in Rings
  BY DEF RingTypeOK, Rings
<1>1. PICK u, v : u = Unread /\ v = Unread'
  OBVIOUS
<1>2. u = UnreadOf(kbs) /\ v = UnreadOf(kbs') /\ u \in Seq(Char)
  <2>1. \A k \in Rings : UnreadOf(k) = [i \in 1 .. ((k.wpos - k.rpos) % Size) |-> k.buf[(k.rpos + i - 1) % Size]]
    BY DistIs DEF UnreadOf, Rings
  <2>2. u = UnreadOf(kbs)
    BY <1>0, <1>1, <2>1 DEF Unread
  <2>3. v = UnreadOf(kbs')
    BY <1>0, <1>1, <2>1 DEF Unread
  <2> QED
    BY <1>0, <2>2, <2>3, UnreadAt
<1>3. ASSUME NEW n \in 1 .. MaxCodes, NEW cs \in [1 .. n -> Char \cup {None}], KbdHandler(cs)
      PROVE  Queue!Next
  <2>1. cs \in Seq(Char \cup {None}) /\ Len(cs) = n
    OBVIOUS
  <2>2. PICK all, t : t = Chars(cs) /\ all = u \o t
    OBVIOUS
  <2>3. /\ kbs' = Handled(cs) /\ t \in Seq(Char) /\ Len(t) <= n
        /\ all \in Seq(Char) /\ Holds(kbs', all)
    BY <1>0, <1>2, <1>3, <2>1, <2>2, InterruptHolds DEF KbdHandler
  <2>4. IF Len(all) <= Size - 1 THEN v = all
        ELSE \E gone \in 1 .. Len(all) : v = SubSeq(all, gone + 1, Len(all))
    BY <1>0, <1>2, <2>3, UnreadEnds
  <2>5. Chars(codes)' = t /\ answer' = answer
    BY <1>3, <2>2 DEF KbdHandler
  <2>6. Queue!Type(t)
    BY <1>1, <2>2, <2>4, <2>5 DEF Queue!Type
  <2>7. Len(t) \in 0 .. MaxCodes /\ t \in [1 .. Len(t) -> Char]
    BY <2>3, RingAssumption
  <2> QED
    BY <2>6, <2>7 DEF Queue!Next
<1>4. ASSUME NEW count \in 0 .. MaxRead, ConsRead(count) PROVE Queue!Next
  <2>1. count \in Nat
    BY RingAssumption
  <2>2. PICK s : s = Taken(count)
    OBVIOUS
  <2>3. TakenSo(s, count) /\ kbs' = s.kbs /\ answer' = s.got /\ codes' = codes
    BY <1>0, <1>4, <2>1, <2>2, ReadTakes DEF ConsRead
  <2>4. PICK m : m = Least(count, Len(u))
    OBVIOUS
  <2>5. s.got = SubSeq(u, 1, m) /\ v = SubSeq(u, m + 1, Len(u))
    BY <1>0, <1>2, <2>1, <2>3, <2>4, ReadLeaves
  <2>6. Queue!Read(count)
    BY <1>1, <2>3, <2>4, <2>5 DEF Queue!Read, Least
  <2> QED
    BY <2>6 DEF Queue!Next
<1>5. CASE UNCHANGED ringvars
  BY <1>5 DEF ringvars, Unread
<1> QED
  BY <1>3, <1>4, <1>5 DEF RingNext

(* Reads return what was typed, in order and once; nothing is lost while   *)
(* at most KBBUFSIZE - 1 characters wait, and when more come what stays,   *)
(* if anything, is the end of it (console.c 408-440, 448-486; file.c       *)
(* 155-168).                                                               *)
THEOREM RingIsQueue == RingSpec => QueueSpec
<1>1. RingSpec => []RingTypeOK
  BY RingWellFormed
<1> QED
  BY <1>1, QueueInit, QueueNext, PTL DEF RingSpec, QueueSpec, Queue!Spec
=============================================================================

------------------------- MODULE AddressSpace_proof -------------------------
(***************************************************************************)
(* What is proved of user memory.  Page-table entries, table frames and    *)
(* page directories are all the same to the counts: places that lead to a  *)
(* frame.  The first part is about such places and the counts of frames    *)
(* alone; every action of AddressSpace then is a sequence of few           *)
(* bookkeeping steps of that part.                                         *)
(***************************************************************************)
EXTENDS AddressSpace, Integers, Sequences, FiniteSetTheorems, TLAPS

------------------------------------------------------------------------------
(* Counts of finite sets *)

(* Pairs with one and the same first component are as many as the second   *)
(* ones (the descriptors of one process).                                  *)
LEMMA FixedFirst ==
  ASSUME NEW c, NEW I, IsFiniteSet(I)
  PROVE  IsFiniteSet({c} \X I) /\ Cardinality({c} \X I) = Cardinality(I)
<1>1. IsFiniteSet({c}) /\ Cardinality({c}) = 1
  BY FS_Singleton
<1>2. IsFiniteSet({c} \X I) /\ Cardinality({c} \X I) = 1 * Cardinality(I)
  BY <1>1, FS_Product
<1> QED
  BY <1>2, FS_CardinalityType

(* Sets with nothing in common add up. *)
LEMMA DisjointSum ==
  ASSUME NEW S, NEW T, IsFiniteSet(S), IsFiniteSet(T), S \cap T = {}
  PROVE  /\ IsFiniteSet(S \cup T)
         /\ Cardinality(S \cup T) = Cardinality(S) + Cardinality(T)
<1>1. Cardinality(S \cap T) = 0
  BY FS_EmptySet
<1> QED
  BY <1>1, FS_Union, FS_CardinalityType

------------------------------------------------------------------------------
(* The proofs *)

(* The places that can lead to a frame. *)
Holder == ({"page"} \X Owner \X Page) \cup ({"table"} \X Owner \X Region)
            \cup ({"dir"} \X Owner \X {"dir"})

(* L[h] is the frame that h leads to. *)
Users(L, f) == {h \in Holder : L[h] = f}

(* The counts ct, the free frames fr and the frames ls left behind agree   *)
(* with what leads where.                                                  *)
Lost01(ls, f) == IF f \in ls THEN 1 ELSE 0
Exact(L, ct, fr, ls) ==
  /\ L \in [Holder -> Frame \cup {NoFrame}]
  /\ ct \in [Frame -> Nat] /\ fr \subseteq Frame /\ ls \subseteq Frame
  /\ \A f \in Frame : ct[f] = Cardinality(Users(L, f)) + Lost01(ls, f)
  /\ \A f \in Frame : f \in fr <=> ct[f] = 0
  /\ \A f \in ls : Users(L, f) = {}

LEMMA HolderFinite == IsFiniteSet(Holder)
<1> USE ConstantsAssumption
<1>1. IsFiniteSet(Page)
  <2>1. IsFiniteSet({Stack})
    BY FS_Singleton
  <2>2. IsFiniteSet(VPage \cup {Stack})
    BY <2>1, FS_Union
  <2> QED
    BY <2>2, FS_Union DEF Page, Prog
<1>2. IsFiniteSet(Region)
  <2>1. IsFiniteSet({"prog"})
    BY FS_Singleton
  <2>2. IsFiniteSet({"prog"} \cup {"outside"})
    BY <2>1, FS_AddElement
  <2>3. Region = ({"prog"} \cup {"outside"}) \cup {"kernel"}
    BY DEF Region
  <2> QED
    BY <2>2, <2>3, FS_AddElement
<1>10. IsFiniteSet(Owner)
  BY FS_AddElement DEF Owner
<1>3. ASSUME NEW tag, NEW S, IsFiniteSet(S)
      PROVE  IsFiniteSet({tag} \X Owner \X S)
  <2>1. IsFiniteSet(Owner \X S)
    BY <1>3, <1>10, FS_Product
  <2>2. IsFiniteSet({tag} \X (Owner \X S))
    BY <2>1, FixedFirst
  <2> DEFINE A == {tag} \X (Owner \X S)
             B == {tag} \X Owner \X S
             b == [a \in A |-> <<a[1], a[2][1], a[2][2]>>]
  <2>3. b \in [A -> B]
    OBVIOUS
  <2>4. \A x, y \in A : b[x] = b[y] => x = y
    OBVIOUS
  <2>5. \A z \in B : <<z[1], <<z[2], z[3]>>>> \in A /\ b[<<z[1], <<z[2], z[3]>>>>] = z
    OBVIOUS
  <2> HIDE DEF A, B, b
  <2>6. b \in Bijection(A, B)
    BY <2>3, <2>4, <2>5 DEF Bijection, Injection, Surjection, IsInjective
  <2>7. IsFiniteSet(B)
    BY <2>2, <2>6, FS_Bijection DEF ExistsBijection, A
  <2> QED
    BY <2>7 DEF B
<1>4. IsFiniteSet({"dir"})
  BY FS_Singleton
<1>5. /\ IsFiniteSet({"page"} \X Owner \X Page)
      /\ IsFiniteSet({"table"} \X Owner \X Region)
      /\ IsFiniteSet({"dir"} \X Owner \X {"dir"})
  BY <1>1, <1>2, <1>3, <1>4
<1> HIDE DEF Page, Region, Owner
<1>6. PICK A, B, C : /\ A = {"page"} \X Owner \X Page
                     /\ B = {"table"} \X Owner \X Region
                     /\ C = {"dir"} \X Owner \X {"dir"}
  OBVIOUS
<1>7. IsFiniteSet(A \cup B)
  BY <1>5, <1>6, FS_Union
<1>8. IsFiniteSet((A \cup B) \cup C)
  BY <1>5, <1>6, <1>7, FS_Union
<1>9. Holder = (A \cup B) \cup C
  BY <1>6 DEF Holder
<1> QED
  BY <1>8, <1>9

LEMMA UsersFinite ==
  ASSUME NEW L, NEW f
  PROVE  IsFiniteSet(Users(L, f)) /\ Cardinality(Users(L, f)) \in Nat
<1>1. Users(L, f) \in SUBSET Holder
  BY DEF Users
<1>2. IsFiniteSet(Users(L, f))
  BY <1>1, HolderFinite, FS_Subset
<1> QED
  BY <1>2, FS_CardinalityType

(* A count, and how many lead to the frame, change together. *)
LEMMA OneMore ==
  ASSUME NEW L, NEW K, NEW f, NEW h \in Holder, L[h] # f, K[h] = f,
         \A k \in Holder \ {h} : K[k] = f <=> L[k] = f
  PROVE  Cardinality(Users(K, f)) = Cardinality(Users(L, f)) + 1
<1>1. Users(K, f) = Users(L, f) \cup {h} /\ h \notin Users(L, f)
  BY DEF Users
<1>2. Cardinality(Users(L, f) \cup {h}) = Cardinality(Users(L, f)) + 1
  BY <1>1, UsersFinite, FS_AddElement
<1> QED
  BY <1>1, <1>2

LEMMA OneLess ==
  ASSUME NEW L, NEW K, NEW f, NEW h \in Holder, L[h] = f, K[h] # f,
         \A k \in Holder \ {h} : K[k] = f <=> L[k] = f
  PROVE  Cardinality(Users(L, f)) = Cardinality(Users(K, f)) + 1
BY OneMore

LEMMA AsMany ==
  ASSUME NEW L, NEW K, NEW f, \A k \in Holder : K[k] = f <=> L[k] = f
  PROVE  Users(K, f) = Users(L, f)
BY DEF Users

LEMMA NoUsers ==
  ASSUME NEW L, NEW f, Cardinality(Users(L, f)) = 0
  PROVE  \A h \in Holder : L[h] # f
<1>1. Users(L, f) = {}
  BY UsersFinite, FS_EmptySet
<1> QED
  BY <1>1 DEF Users

LEMMA NoUsersCount ==
  ASSUME NEW L, NEW f, \A h \in Holder : L[h] # f
  PROVE  Cardinality(Users(L, f)) = 0
<1>1. Users(L, f) = {}
  BY DEF Users
<1> QED
  BY <1>1, FS_EmptySet

(* A free frame, and one left behind, is led to by nobody. *)
LEMMA Unused ==
  ASSUME NEW L, NEW ct, NEW fr, NEW ls, Exact(L, ct, fr, ls)
  PROVE  /\ \A f \in fr : f \in Frame /\ f \notin ls /\ \A h \in Holder : L[h] # f
         /\ \A f \in ls : \A h \in Holder : L[h] # f
<1>1. ASSUME NEW f \in fr
      PROVE  f \in Frame /\ f \notin ls /\ \A h \in Holder : L[h] # f
  <2>1. f \in Frame /\ Cardinality(Users(L, f)) + Lost01(ls, f) = 0
    BY DEF Exact
  <2>2. f \notin ls /\ Cardinality(Users(L, f)) = 0
    BY <2>1, UsersFinite DEF Lost01
  <2> QED
    BY <2>1, <2>2, NoUsers
<1> QED
  BY <1>1 DEF Exact, Users

------------------------------------------------------------------------------
(* The bookkeeping steps. *)

(* A free frame gets its first user. *)
LEMMA ExactTake ==
  ASSUME NEW L, NEW ct, NEW fr, NEW ls, Exact(L, ct, fr, ls),
         NEW h \in Holder, L[h] = NoFrame, NEW f \in fr
  PROVE  Exact([L EXCEPT ![h] = f], [ct EXCEPT ![f] = 1], fr \ {f}, ls)
<1> USE ConstantsAssumption
<1>1. PICK K, c : K = [L EXCEPT ![h] = f] /\ c = [ct EXCEPT ![f] = 1]
  OBVIOUS
<1>2. /\ L \in [Holder -> Frame \cup {NoFrame}] /\ ct \in [Frame -> Nat]
      /\ fr \subseteq Frame /\ ls \subseteq Frame /\ f \in Frame /\ f \notin ls
      /\ \A k \in Holder : L[k] # f
  <2>1. /\ L \in [Holder -> Frame \cup {NoFrame}] /\ ct \in [Frame -> Nat]
        /\ fr \subseteq Frame /\ ls \subseteq Frame
    BY DEF Exact
  <2> QED
    BY <2>1, Unused
<1>3. /\ K \in [Holder -> Frame \cup {NoFrame}] /\ K[h] = f
      /\ \A k \in Holder \ {h} : K[k] = L[k]
      /\ c \in [Frame -> Nat] /\ \A g \in Frame : c[g] = IF g = f THEN 1 ELSE ct[g]
  BY <1>1, <1>2
<1>4. Cardinality(Users(K, f)) = 1
  <2>1. Cardinality(Users(L, f)) = 0
    BY <1>2, NoUsersCount
  <2>2. Cardinality(Users(K, f)) = Cardinality(Users(L, f)) + 1
    BY <1>2, <1>3, OneMore
  <2> QED
    BY <2>1, <2>2
<1>5. \A g \in Frame \ {f} : Users(K, g) = Users(L, g)
  <2> SUFFICES ASSUME NEW g \in Frame \ {f} PROVE Users(K, g) = Users(L, g)
    OBVIOUS
  <2>1. g # NoFrame
    OBVIOUS
  <2> QED
    BY <1>3, <2>1, AsMany
<1>6. \A g \in Frame : c[g] = Cardinality(Users(K, g)) + Lost01(ls, g)
  BY <1>2, <1>3, <1>4, <1>5 DEF Exact, Lost01
<1>7. \A g \in Frame : g \in fr \ {f} <=> c[g] = 0
  BY <1>3 DEF Exact
<1>8. \A g \in ls : Users(K, g) = {}
  BY <1>2, <1>5 DEF Exact
<1>9. Exact(K, c, fr \ {f}, ls)
  BY <1>2, <1>3, <1>6, <1>7, <1>8 DEF Exact
<1> QED
  BY <1>1, <1>9

(* The frames that the places H lead to, and what is left without H. *)
LedTo(L, H) == {L[h] : h \in H} \ {NoFrame}
Without(L, H) == [h \in Holder |-> IF h \in H THEN NoFrame ELSE L[h]]
Fewer(ct, D) == [f \in Frame |-> IF f \in D THEN ct[f] - 1 ELSE ct[f]]
Lasts(ct, D) == {f \in D : ct[f] = 1}

LEMMA WithoutUsers ==
  ASSUME NEW L \in [Holder -> Frame \cup {NoFrame}], NEW H \in SUBSET Holder,
         \A h, k \in H : h # k /\ L[h] = L[k] => L[h] = NoFrame
  PROVE  /\ Without(L, H) \in [Holder -> Frame \cup {NoFrame}]
         /\ LedTo(L, H) \subseteq Frame
         /\ \A f \in Frame \ LedTo(L, H) : Users(Without(L, H), f) = Users(L, f)
         /\ \A f \in LedTo(L, H) :
              Cardinality(Users(L, f)) = Cardinality(Users(Without(L, H), f)) + 1
<1> USE ConstantsAssumption
<1>1. PICK K : K = Without(L, H)
  OBVIOUS
<1>2. /\ K \in [Holder -> Frame \cup {NoFrame}]
      /\ \A k \in Holder : K[k] = IF k \in H THEN NoFrame ELSE L[k]
  BY <1>1 DEF Without
<1>3. LedTo(L, H) \subseteq Frame
  BY DEF LedTo
<1>4. ASSUME NEW f \in Frame \ LedTo(L, H) PROVE Users(K, f) = Users(L, f)
  <2>1. \A k \in Holder : K[k] = f <=> L[k] = f
    BY <1>2 DEF LedTo
  <2> QED
    BY <2>1, AsMany
<1>5. ASSUME NEW f \in LedTo(L, H)
      PROVE  Cardinality(Users(L, f)) = Cardinality(Users(K, f)) + 1
  <2>1. PICK h \in H : L[h] = f /\ f # NoFrame
    BY DEF LedTo
  <2>2. h \in Holder /\ K[h] # f
    BY <1>2, <2>1
  <2>3. \A k \in Holder \ {h} : K[k] = f <=> L[k] = f
    BY <1>2, <2>1
  <2> QED
    BY <2>1, <2>2, <2>3, OneLess
<1> QED
  BY <1>1, <1>2, <1>3, <1>4, <1>5

(* Places H let go of their frames, which are free if they were the last. *)
LEMMA ExactLeave ==
  ASSUME NEW L, NEW ct, NEW fr, NEW ls, Exact(L, ct, fr, ls), NEW H \in SUBSET Holder,
         \A h, k \in H : h # k /\ L[h] = L[k] => L[h] = NoFrame
  PROVE  Exact(Without(L, H), Fewer(ct, LedTo(L, H)), fr \cup Lasts(ct, LedTo(L, H)), ls)
<1>1. PICK K, D, c : K = Without(L, H) /\ D = LedTo(L, H) /\ c = Fewer(ct, D)
  OBVIOUS
<1>2. /\ L \in [Holder -> Frame \cup {NoFrame}] /\ ct \in [Frame -> Nat]
      /\ fr \subseteq Frame /\ ls \subseteq Frame
  BY DEF Exact
<1>3. /\ K \in [Holder -> Frame \cup {NoFrame}] /\ D \subseteq Frame
      /\ \A f \in Frame \ D : Users(K, f) = Users(L, f)
      /\ \A f \in D : Cardinality(Users(L, f)) = Cardinality(Users(K, f)) + 1
  BY <1>1, <1>2, WithoutUsers
<1>4. ASSUME NEW f \in D
      PROVE  /\ ct[f] = Cardinality(Users(K, f)) + 1 /\ f \notin ls /\ f \notin fr
             /\ Cardinality(Users(K, f)) \in Nat
  <2>1. Cardinality(Users(L, f)) = Cardinality(Users(K, f)) + 1 /\ Cardinality(Users(K, f)) \in Nat
    BY <1>3, UsersFinite
  <2>2. f \notin ls
    <3>1. f \in ls => Cardinality(Users(L, f)) = 0
      BY FS_EmptySet DEF Exact
    <3> QED
      BY <2>1, <3>1
  <2>3. ct[f] = Cardinality(Users(L, f)) + Lost01(ls, f)
    BY <1>3 DEF Exact
  <2>4. ct[f] = Cardinality(Users(K, f)) + 1
    BY <2>1, <2>2, <2>3 DEF Lost01
  <2>5. f \notin fr
    BY <1>3, <2>1, <2>4 DEF Exact
  <2> QED
    BY <2>1, <2>2, <2>4, <2>5
<1>5. /\ c \in [Frame -> Int] /\ \A f \in Frame : c[f] = IF f \in D THEN ct[f] - 1 ELSE ct[f]
  BY <1>1, <1>2 DEF Fewer
<1>6. c \in [Frame -> Nat]
  BY <1>2, <1>4, <1>5
<1>7. \A f \in Frame : c[f] = Cardinality(Users(K, f)) + Lost01(ls, f)
  <2> SUFFICES ASSUME NEW f \in Frame PROVE c[f] = Cardinality(Users(K, f)) + Lost01(ls, f)
    OBVIOUS
  <2>1. CASE f \in D
    BY <1>4, <1>5, <2>1 DEF Lost01
  <2>2. CASE f \notin D
    BY <1>3, <1>5, <2>2 DEF Exact
  <2> QED
    BY <2>1, <2>2
<1>8. \A f \in Frame : f \in fr \cup Lasts(ct, D) <=> c[f] = 0
  BY <1>2, <1>3, <1>4, <1>5 DEF Exact, Lasts
<1>9. \A f \in ls : Users(K, f) = {}
  BY <1>2, <1>3, <1>4 DEF Exact
<1>10. Lasts(ct, D) \subseteq Frame
  BY <1>3 DEF Lasts
<1>11. Exact(K, c, fr \cup Lasts(ct, D), ls)
  BY <1>2, <1>3, <1>6, <1>7, <1>8, <1>9, <1>10 DEF Exact
<1> QED
  BY <1>1, <1>11

(* Places H disappear without letting go: their frames are left behind. *)
LEMMA ExactAbandon ==
  ASSUME NEW L, NEW ct, NEW fr, NEW ls, Exact(L, ct, fr, ls), NEW H \in SUBSET Holder,
         \A h \in H, k \in Holder : h # k /\ L[h] = L[k] => L[h] = NoFrame
  PROVE  Exact(Without(L, H), ct, fr, ls \cup LedTo(L, H))
<1> USE ConstantsAssumption
<1>1. PICK K, D : K = Without(L, H) /\ D = LedTo(L, H)
  OBVIOUS
<1>2. /\ L \in [Holder -> Frame \cup {NoFrame}] /\ ct \in [Frame -> Nat]
      /\ fr \subseteq Frame /\ ls \subseteq Frame
  BY DEF Exact
<1>3. /\ K \in [Holder -> Frame \cup {NoFrame}] /\ D \subseteq Frame
      /\ \A f \in Frame \ D : Users(K, f) = Users(L, f)
      /\ \A f \in D : Cardinality(Users(L, f)) = Cardinality(Users(K, f)) + 1
  BY <1>1, <1>2, WithoutUsers
<1>4. ASSUME NEW f \in D PROVE Users(K, f) = {} /\ f \notin ls
  <2>1. PICK h \in H : L[h] = f /\ f # NoFrame
    BY <1>1 DEF LedTo
  <2>2. \A k \in Holder : L[k] = f => k = h
    BY <2>1
  <2>3. \A k \in Holder : K[k] # f
    BY <1>1, <1>3, <2>1, <2>2 DEF Without
  <2>4. Users(K, f) = {}
    BY <2>3 DEF Users
  <2>5. f \notin ls
    BY <2>1, Unused
  <2> QED
    BY <2>4, <2>5
<1>5. \A f \in Frame : ct[f] = Cardinality(Users(K, f)) + Lost01(ls \cup D, f)
  <2> SUFFICES ASSUME NEW f \in Frame
               PROVE  ct[f] = Cardinality(Users(K, f)) + Lost01(ls \cup D, f)
    OBVIOUS
  <2>1. CASE f \in D
    <3>1. Cardinality(Users(K, f)) = 0
      BY <1>4, <2>1, FS_EmptySet
    <3> QED
      BY <1>3, <1>4, <2>1, <3>1 DEF Exact, Lost01
  <2>2. CASE f \notin D
    BY <1>3, <2>2 DEF Exact, Lost01
  <2> QED
    BY <2>1, <2>2
<1>6. \A f \in ls \cup D : Users(K, f) = {}
  BY <1>2, <1>3, <1>4 DEF Exact
<1>7. Exact(K, ct, fr, ls \cup D)
  BY <1>2, <1>3, <1>5, <1>6 DEF Exact
<1> QED
  BY <1>1, <1>7

(* Free frames B are taken by bread. *)
LEMMA ExactBuffers ==
  ASSUME NEW L, NEW ct, NEW fr, NEW ls, Exact(L, ct, fr, ls), NEW B \in SUBSET fr
  PROVE  Exact(L, CountWith(B, ct), fr \ B, ls \cup B)
<1>1. PICK c : c = CountWith(B, ct)
  OBVIOUS
<1>2. /\ L \in [Holder -> Frame \cup {NoFrame}] /\ ct \in [Frame -> Nat]
      /\ fr \subseteq Frame /\ ls \subseteq Frame
  BY DEF Exact
<1>3. c \in [Frame -> Nat] /\ \A f \in Frame : c[f] = IF f \in B THEN 1 ELSE ct[f]
  BY <1>1, <1>2 DEF CountWith
<1>4. \A f \in B : Users(L, f) = {} /\ f \notin ls
  <2>1. \A f \in B : f \notin ls /\ \A h \in Holder : L[h] # f
    BY Unused
  <2> QED
    BY <2>1 DEF Users
<1>5. \A f \in Frame : c[f] = Cardinality(Users(L, f)) + Lost01(ls \cup B, f)
  <2> SUFFICES ASSUME NEW f \in Frame
               PROVE  c[f] = Cardinality(Users(L, f)) + Lost01(ls \cup B, f)
    OBVIOUS
  <2>1. CASE f \in B
    <3>1. Cardinality(Users(L, f)) = 0
      BY <1>4, <2>1, FS_EmptySet
    <3> QED
      BY <1>3, <2>1, <3>1 DEF Lost01
  <2>2. CASE f \notin B
    BY <1>3, <2>2 DEF Exact, Lost01
  <2> QED
    BY <2>1, <2>2
<1>6. \A f \in Frame : f \in fr \ B <=> c[f] = 0
  BY <1>2, <1>3 DEF Exact
<1>7. \A f \in ls \cup B : Users(L, f) = {}
  BY <1>4 DEF Exact
<1>8. Exact(L, c, fr \ B, ls \cup B)
  BY <1>2, <1>3, <1>5, <1>6, <1>7 DEF Exact
<1> QED
  BY <1>1, <1>8

(* Places H that led nowhere join others: one more for each frame. *)
More(ct, E) == [f \in Frame |-> IF f \in E THEN ct[f] + 1 ELSE ct[f]]

LEMMA ExactJoin ==
  ASSUME NEW L, NEW ct, NEW fr, NEW ls, Exact(L, ct, fr, ls), NEW H \in SUBSET Holder,
         NEW K \in [Holder -> Frame \cup {NoFrame}], L = Without(K, H),
         \A h, k \in H : h # k /\ K[h] = K[k] => K[h] = NoFrame,
         \A h \in H : K[h] # NoFrame => \E k \in Holder : L[k] = K[h]
  PROVE  Exact(K, More(ct, LedTo(K, H)), fr, ls)
<1> USE ConstantsAssumption
<1>1. PICK E, c : E = LedTo(K, H) /\ c = More(ct, E)
  OBVIOUS
<1>2. /\ L \in [Holder -> Frame \cup {NoFrame}] /\ ct \in [Frame -> Nat]
      /\ fr \subseteq Frame /\ ls \subseteq Frame
  BY DEF Exact
<1>3. /\ E \subseteq Frame
      /\ \A f \in Frame \ E : Users(L, f) = Users(K, f)
      /\ \A f \in E : Cardinality(Users(K, f)) = Cardinality(Users(L, f)) + 1
  BY <1>1, WithoutUsers
<1>4. \A f \in E : f \notin fr /\ f \notin ls
  <2> SUFFICES ASSUME NEW f \in E PROVE f \notin fr /\ f \notin ls
    OBVIOUS
  <2>1. PICK k \in Holder : L[k] = f
    BY <1>1 DEF LedTo
  <2> QED
    BY <2>1, Unused
<1>5. c \in [Frame -> Nat] /\ \A f \in Frame : c[f] = IF f \in E THEN ct[f] + 1 ELSE ct[f]
  BY <1>1, <1>2 DEF More
<1>6. \A f \in Frame : c[f] = Cardinality(Users(K, f)) + Lost01(ls, f)
  <2> SUFFICES ASSUME NEW f \in Frame PROVE c[f] = Cardinality(Users(K, f)) + Lost01(ls, f)
    OBVIOUS
  <2>1. ct[f] = Cardinality(Users(L, f)) + Lost01(ls, f) /\ Cardinality(Users(L, f)) \in Nat
    BY UsersFinite DEF Exact
  <2>2. CASE f \in E
    BY <1>3, <1>5, <2>1, <2>2 DEF Lost01
  <2>3. CASE f \notin E
    BY <1>3, <1>5, <2>1, <2>3
  <2> QED
    BY <2>2, <2>3
<1>7. \A f \in Frame : f \in fr <=> c[f] = 0
  BY <1>2, <1>4, <1>5 DEF Exact
<1>8. \A f \in ls : Users(K, f) = {}
  BY <1>2, <1>3, <1>4 DEF Exact
<1>9. Exact(K, c, fr, ls)
  BY <1>2, <1>5, <1>6, <1>7, <1>8 DEF Exact
<1> QED
  BY <1>1, <1>9

------------------------------------------------------------------------------
(* What is read-only, and what a frame shared by two places is: the same   *)
(* page of the image of two processes, which neither may write.            *)
Shared(L, W) ==
  \A h, k \in Holder :
    h # k /\ L[h] = L[k] /\ L[h] # NoFrame =>
      /\ h[1] = "page" /\ k[1] = "page" /\ h[3] = k[3]
      /\ h[3] \in VPage /\ h[3] \notin W[h[2]]

(* Nothing becomes writable but the places H. *)
Grants(W, X, H) == \A q \in Owner, u \in Page : u \in X[q] => u \in W[q] \/ <<"page", q, u>> \in H

LEMMA SharedTake ==
  ASSUME NEW L, NEW W, Shared(L, W), L \in [Holder -> Frame \cup {NoFrame}],
         NEW h \in Holder, NEW f, \A k \in Holder : L[k] # f,
         NEW X, Grants(W, X, {h})
  PROVE  Shared([L EXCEPT ![h] = f], X)
<1> USE DEF Grants
<1>1. PICK K : K = [L EXCEPT ![h] = f]
  OBVIOUS
<1>2. \A k \in Holder : K[k] = IF k = h THEN f ELSE L[k]
  BY <1>1
<1>3. ASSUME NEW g \in Holder, NEW k \in Holder, g # k, K[g] = K[k], K[g] # NoFrame
      PROVE  /\ g[1] = "page" /\ k[1] = "page" /\ g[3] = k[3]
             /\ g[3] \in VPage /\ g[3] \notin X[g[2]]
  <2>1. g # h /\ k # h
    BY <1>2, <1>3
  <2>2. /\ g[1] = "page" /\ k[1] = "page" /\ g[3] = k[3]
        /\ g[3] \in VPage /\ g[3] \notin W[g[2]]
    BY <1>2, <1>3, <2>1 DEF Shared
  <2>3. g = <<"page", g[2], g[3]>> /\ g[2] \in Owner /\ g[3] \in Page
    BY <2>2 DEF Holder, Page, Prog
  <2> QED
    BY <2>1, <2>2, <2>3
<1>4. Shared(K, X)
  BY <1>3 DEF Shared
<1> QED
  BY <1>1, <1>4

LEMMA SharedLeave ==
  ASSUME NEW L, NEW W, Shared(L, W), NEW H, NEW X, Grants(W, X, H)
  PROVE  Shared(Without(L, H), X)
<1> USE DEF Grants
<1>1. PICK K : K = Without(L, H)
  OBVIOUS
<1>2. \A k \in Holder : K[k] = IF k \in H THEN NoFrame ELSE L[k]
  BY <1>1 DEF Without
<1>3. ASSUME NEW g \in Holder, NEW k \in Holder, g # k, K[g] = K[k], K[g] # NoFrame
      PROVE  /\ g[1] = "page" /\ k[1] = "page" /\ g[3] = k[3]
             /\ g[3] \in VPage /\ g[3] \notin X[g[2]]
  <2>1. g \notin H /\ k \notin H
    BY <1>2, <1>3
  <2>2. /\ g[1] = "page" /\ k[1] = "page" /\ g[3] = k[3]
        /\ g[3] \in VPage /\ g[3] \notin W[g[2]]
    BY <1>2, <1>3, <2>1 DEF Shared
  <2>3. g = <<"page", g[2], g[3]>> /\ g[2] \in Owner /\ g[3] \in Page
    BY <2>2 DEF Holder, Page, Prog
  <2> QED
    BY <2>1, <2>2, <2>3
<1>4. Shared(K, X)
  BY <1>3 DEF Shared
<1> QED
  BY <1>1, <1>4

(* The image pages of c join those of p, which neither may write. *)
Joins(K, L, p, c) ==
  /\ \A v \in VPage : K[<<"page", c, v>>] = L[<<"page", p, v>>]
  /\ \A h \in Holder : h \notin {"page"} \X {c} \X VPage => K[h] = L[h]
Protects(X, W, p, c) ==
  /\ \A v \in VPage : v \notin X[p] /\ v \notin X[c]
  /\ \A q \in Owner \ {p, c} : X[q] = W[q]

LEMMA SharedJoin ==
  ASSUME NEW L, NEW W, Shared(L, W), NEW p \in Owner, NEW c \in Owner, p # c, NEW K,
         Joins(K, L, p, c), NEW X, Protects(X, W, p, c)
  PROVE  Shared(K, X)
<1> USE DEF Joins, Protects
<1> DEFINE from(h) == IF h \in {"page"} \X {c} \X VPage THEN <<"page", p, h[3]>> ELSE h
<1>1. ASSUME NEW h \in Holder
      PROVE  from(h) \in Holder /\ K[h] = L[from(h)] /\ from(h)[1] = h[1] /\ from(h)[3] = h[3]
  <2>1. CASE h \in {"page"} \X {c} \X VPage
    <3>1. PICK v \in VPage : h = <<"page", c, v>>
      BY <2>1
    <3> QED
      BY <2>1, <3>1 DEF Holder, Page, Prog
  <2>2. CASE h \notin {"page"} \X {c} \X VPage
    BY <2>2
  <2> QED
    BY <2>1, <2>2
<1>2. ASSUME NEW g \in Holder, NEW k \in Holder, g # k, K[g] = K[k], K[g] # NoFrame
      PROVE  /\ g[1] = "page" /\ k[1] = "page" /\ g[3] = k[3]
             /\ g[3] \in VPage /\ g[3] \notin X[g[2]]
  <2>1. CASE from(g) = from(k)
    <3>1. \/ g \in {"page"} \X {c} \X VPage /\ k = <<"page", p, g[3]>>
          \/ k \in {"page"} \X {c} \X VPage /\ g = <<"page", p, k[3]>>
      BY <1>2, <2>1
    <3> QED
      BY <3>1
  <2>2. CASE from(g) # from(k)
    <3>1. /\ from(g)[1] = "page" /\ from(k)[1] = "page" /\ from(g)[3] = from(k)[3]
          /\ from(g)[3] \in VPage /\ from(g)[3] \notin W[from(g)[2]]
      <4>1. /\ from(g) \in Holder /\ from(k) \in Holder
            /\ L[from(g)] = L[from(k)] /\ L[from(g)] # NoFrame
        BY <1>1, <1>2
      <4> HIDE DEF from
      <4> QED
        BY <2>2, <4>1 DEF Shared
    <3>2. g[1] = "page" /\ k[1] = "page" /\ g[3] = k[3] /\ g[3] \in VPage
      BY <1>1, <3>1
    <3>3. g[2] \in Owner
      BY <3>2 DEF Holder
    <3>4. CASE g[2] \in {p, c}
      BY <3>2, <3>4
    <3>5. CASE g[2] \notin {p, c}
      <4>1. from(g) = g
        BY <3>5
      <4> QED
        BY <3>1, <3>2, <3>3, <3>5, <4>1
    <3> QED
      BY <3>2, <3>4, <3>5
  <2> QED
    BY <2>1, <2>2
<1> QED
  BY <1>2 DEF Shared

------------------------------------------------------------------------------
(* The state of AddressSpace in these terms. *)

LeadsOf(m, t, d) ==
  [h \in Holder |-> IF h[1] = "page" THEN m[h[2]][h[3]]
                    ELSE IF h[1] = "table" THEN t[h[2]][h[3]]
                    ELSE d[h[2]]]
Leads == LeadsOf(map, table, pgdir)

(* Slots without a process lead nowhere, and no process has pages or       *)
(* tables of the kernel half of its own.                                   *)
Blank ==
  /\ \A p \in Proc : slot[p] # "live" =>
       /\ writable[p] = {} /\ pgdir[p] = NoFrame
       /\ \A r \in Region : table[p][r] = NoFrame
       /\ \A v \in Page : map[p][v] = NoFrame
  /\ \A p \in Proc : table[p]["kernel"] = NoFrame /\ \A v \in Common : map[p][v] = NoFrame

WritableMapped == \A p \in Owner : \A v \in writable[p] : map[p][v] # NoFrame

Inv ==
  /\ TypeOK /\ Blank /\ WritableMapped
  /\ Shared(Leads, writable)
  /\ Exact(Leads, count, free, lost)

LEMMA HolderIs ==
  /\ \A p \in Owner, v \in Page : <<"page", p, v>> \in Holder
  /\ \A p \in Owner, r \in Region : <<"table", p, r>> \in Holder
  /\ \A p \in Owner : <<"dir", p, "dir">> \in Holder
  /\ \A h \in Holder : \/ \E p \in Owner, v \in Page : h = <<"page", p, v>>
                       \/ \E p \in Owner, r \in Region : h = <<"table", p, r>>
                       \/ \E p \in Owner : h = <<"dir", p, "dir">>
BY DEF Holder

LEMMA LeadsOfIs ==
  ASSUME NEW m, NEW t, NEW d
  PROVE  /\ \A p \in Owner, v \in Page : LeadsOf(m, t, d)[<<"page", p, v>>] = m[p][v]
         /\ \A p \in Owner, r \in Region : LeadsOf(m, t, d)[<<"table", p, r>>] = t[p][r]
         /\ \A p \in Owner : LeadsOf(m, t, d)[<<"dir", p, "dir">>] = d[p]
         /\ LeadsOf(m, t, d) = [h \in Holder |-> LeadsOf(m, t, d)[h]]
BY HolderIs DEF LeadsOf

LEMMA LeadsIs ==
  /\ \A p \in Owner, v \in Page : Leads[<<"page", p, v>>] = map[p][v]
  /\ \A p \in Owner, r \in Region : Leads[<<"table", p, r>>] = table[p][r]
  /\ \A p \in Owner : Leads[<<"dir", p, "dir">>] = pgdir[p]
  /\ Leads = [h \in Holder |-> Leads[h]]
BY LeadsOfIs DEF Leads

(* It is enough to look at the three kinds of places. *)
LEMMA SameLeads ==
  ASSUME NEW L, L = [h \in Holder |-> L[h]], NEW m, NEW t, NEW d,
         \A p \in Owner, v \in Page : L[<<"page", p, v>>] = m[p][v],
         \A p \in Owner, r \in Region : L[<<"table", p, r>>] = t[p][r],
         \A p \in Owner : L[<<"dir", p, "dir">>] = d[p]
  PROVE  L = LeadsOf(m, t, d)
<1>1. PICK K : K = LeadsOf(m, t, d)
  OBVIOUS
<1>2. /\ \A p \in Owner, v \in Page : K[<<"page", p, v>>] = m[p][v]
      /\ \A p \in Owner, r \in Region : K[<<"table", p, r>>] = t[p][r]
      /\ \A p \in Owner : K[<<"dir", p, "dir">>] = d[p]
      /\ K = [h \in Holder |-> K[h]]
  BY <1>1, LeadsOfIs
<1>3. ASSUME NEW h \in Holder PROVE L[h] = K[h]
  <2>1. ASSUME NEW p \in Owner, NEW v \in Page, h = <<"page", p, v>> PROVE L[h] = K[h]
    BY <1>2, <2>1
  <2>2. ASSUME NEW p \in Owner, NEW r \in Region, h = <<"table", p, r>> PROVE L[h] = K[h]
    BY <1>2, <2>2
  <2>3. ASSUME NEW p \in Owner, h = <<"dir", p, "dir">> PROVE L[h] = K[h]
    BY <1>2, <2>3
  <2> QED
    BY <2>1, <2>2, <2>3, HolderIs
<1>4. L = K
  BY <1>2, <1>3
<1> QED
  BY <1>1, <1>4

LEMMA LeadsNext == Leads' = LeadsOf(map', table', pgdir')
BY DEF Leads, LeadsOf, Holder

(* An empty machine. *)
LEMMA Nothing ==
  /\ Exact([h \in Holder |-> NoFrame], [f \in Frame |-> 0], Frame, {})
  /\ \A W : Shared([h \in Holder |-> NoFrame], W)
<1> USE ConstantsAssumption
<1>1. PICK L : L = [h \in Holder |-> NoFrame]
  OBVIOUS
<1>2. \A f \in Frame : Cardinality(Users(L, f)) = 0
  BY <1>1, NoUsersCount
<1>3. Exact(L, [f \in Frame |-> 0], Frame, {})
  BY <1>1, <1>2 DEF Exact, Lost01
<1> QED
  BY <1>1, <1>3 DEF Shared

(* alloc_page picks one of the free frames. *)
LEMMA Picked ==
  ASSUME NEW S \in SUBSET Frame, NEW f \in Candidates(S)
  PROVE  f \in S /\ f # NoFrame
BY CandidatesAssumption, ConstantsAssumption

(* What the constants are, without the names of pages and regions. *)
LEMMA Names ==
  /\ Stack \in Page /\ Stack \notin VPage /\ Stack \notin Outside /\ Stack \notin Common
  /\ VPage \subseteq Page /\ Outside \subseteq Page /\ Prog \subseteq Page
  /\ Common \subseteq Page /\ VPage \cap Common = {} /\ Outside \cap Common = {}
  /\ VPage \cap Outside = {} /\ Prog = VPage \cup {Stack}
  /\ Page = Prog \cup Outside \cup Common
  /\ Region = {"prog", "outside", "kernel"} /\ NoFrame \notin Frame
  /\ Zero \in Value
  /\ First \in Proc /\ Proc \subseteq Owner /\ Kernel \in Owner /\ Kernel \notin Proc
  /\ Owner = Proc \cup {Kernel}
BY ConstantsAssumption DEF Page, Prog, Region, Owner

(* The row of page tables in which page v of process p is. *)
LEMMA WhoseIs ==
  ASSUME NEW p \in Proc, NEW v \in Page
  PROVE  /\ Whose(p, v) \in Owner
         /\ v \in Common => Whose(p, v) = Kernel
         /\ v \notin Common => Whose(p, v) = p
BY Names DEF Whose

(* The initial state with its frames named. *)
InitWith(d, t, i, s, v, x) ==
  /\ free = Frame \ {d, t, i, s}
  /\ count = [f \in Frame |-> IF f \in free THEN 0 ELSE 1]
  /\ mem = [f \in Frame |-> IF f = i THEN x ELSE Zero]
  /\ slot = [p \in Proc |-> IF p = First THEN "live" ELSE "free"]
  /\ pgdir = [p \in Owner |-> IF p = First THEN d ELSE NoFrame]
  /\ table = [p \in Owner |-> [r \in Region |->
                IF p = First /\ r = "prog" THEN t ELSE NoFrame]]
  /\ map = [p \in Owner |-> [u \in Page |->
              IF p # First THEN NoFrame
              ELSE IF u = v THEN i ELSE IF u = Stack THEN s ELSE NoFrame]]
  /\ writable = [p \in Owner |-> IF p = First THEN {v, Stack} ELSE {}]
  /\ halted = FALSE /\ wild = FALSE
  /\ lost = {}

LEMMA InitNames ==
  ASSUME Init
  PROVE  \E d, t, i, s \in Frame, v \in VPage, x \in Value :
           /\ d # t /\ d # i /\ d # s /\ t # i /\ t # s /\ i # s
           /\ InitWith(d, t, i, s, v, x)
<1>1. PICK d \in Candidates(Frame) : \E t \in Candidates(Frame \ {d}) :
        \E i \in Candidates(Frame \ {d, t}) : \E s \in Candidates(Frame \ {d, t, i}) :
        \E v \in VPage, x \in Value : InitWith(d, t, i, s, v, x)
  BY DEF Init, InitWith
<1>2. PICK t \in Candidates(Frame \ {d}) :
        \E i \in Candidates(Frame \ {d, t}) : \E s \in Candidates(Frame \ {d, t, i}) :
        \E v \in VPage, x \in Value : InitWith(d, t, i, s, v, x)
  BY <1>1
<1>3. PICK i \in Candidates(Frame \ {d, t}) : \E s \in Candidates(Frame \ {d, t, i}) :
        \E v \in VPage, x \in Value : InitWith(d, t, i, s, v, x)
  BY <1>2
<1>4. PICK s \in Candidates(Frame \ {d, t, i}), v \in VPage, x \in Value :
        InitWith(d, t, i, s, v, x)
  BY <1>3
<1>5. d \in Frame /\ t \in Frame \ {d} /\ i \in Frame \ {d, t} /\ s \in Frame \ {d, t, i}
  BY Picked
<1> QED
  BY <1>4, <1>5

LEMMA InvInit == Init => Inv
<1> SUFFICES ASSUME Init PROVE Inv
  OBVIOUS
<1>1. PICK d, t, i, s \in Frame, v \in VPage, x \in Value :
        /\ d # t /\ d # i /\ d # s /\ t # i /\ t # s /\ i # s
        /\ InitWith(d, t, i, s, v, x)
  BY InitNames
<1> USE Names DEF InitWith
<1>2. TypeOK /\ Blank /\ WritableMapped
  BY <1>1 DEF TypeOK, Live, Blank, WritableMapped
<1> DEFINE hd == <<"dir", First, "dir">>
           ht == <<"table", First, "prog">>
           hi == <<"page", First, v>>
           hs == <<"page", First, Stack>>
<1>3. PICK L0, L1, L2, L3, L4 :
        /\ L0 = [h \in Holder |-> NoFrame] /\ L1 = [L0 EXCEPT ![hd] = d]
        /\ L2 = [L1 EXCEPT ![ht] = t] /\ L3 = [L2 EXCEPT ![hi] = i] /\ L4 = [L3 EXCEPT ![hs] = s]
  OBVIOUS
<1>4. PICK c0, c1, c2, c3, c4 :
        /\ c0 = [f \in Frame |-> 0] /\ c1 = [c0 EXCEPT ![d] = 1] /\ c2 = [c1 EXCEPT ![t] = 1]
        /\ c3 = [c2 EXCEPT ![i] = 1] /\ c4 = [c3 EXCEPT ![s] = 1]
  OBVIOUS
<1>5. /\ hd \in Holder /\ ht \in Holder /\ hi \in Holder /\ hs \in Holder
      /\ ht # hd /\ hi # hd /\ hi # ht /\ hs # hd /\ hs # ht /\ hs # hi
  BY HolderIs
<1>6. Exact(L0, c0, Frame, {}) /\ Shared(L0, writable)
  BY <1>3, <1>4, Nothing
<1>7. Exact(L1, c1, Frame \ {d}, {})
  BY <1>3, <1>4, <1>5, <1>6, ExactTake
<1>8. L1[ht] = NoFrame /\ t \in Frame \ {d}
  BY <1>1, <1>3, <1>5
<1>9. Exact(L2, c2, (Frame \ {d}) \ {t}, {})
  BY <1>3, <1>4, <1>5, <1>7, <1>8, ExactTake
<1>10. L2[hi] = NoFrame /\ i \in (Frame \ {d}) \ {t}
  BY <1>1, <1>3, <1>5
<1>11. Exact(L3, c3, ((Frame \ {d}) \ {t}) \ {i}, {})
  BY <1>3, <1>4, <1>5, <1>9, <1>10, ExactTake
<1>12. L3[hs] = NoFrame /\ s \in ((Frame \ {d}) \ {t}) \ {i}
  BY <1>1, <1>3, <1>5
<1>13. Exact(L4, c4, (((Frame \ {d}) \ {t}) \ {i}) \ {s}, {})
  BY <1>3, <1>4, <1>5, <1>11, <1>12, ExactTake
<1>14. free = (((Frame \ {d}) \ {t}) \ {i}) \ {s}
  BY <1>1
<1>15. c4 = count
  BY <1>1, <1>4, <1>14
<1>16. \A h \in Holder : L4[h] = IF h = hd THEN d ELSE IF h = ht THEN t
                                 ELSE IF h = hi THEN i ELSE IF h = hs THEN s ELSE NoFrame
  BY <1>3, <1>5
<1>17. L4 = Leads
  <2>1. L4 = [h \in Holder |-> L4[h]]
    BY <1>3
  <2>2. ASSUME NEW p \in Owner, NEW u \in Page
        PROVE  L4[<<"page", p, u>>] = map[p][u]
    <3>1. map[p][u] = IF p # First THEN NoFrame
                      ELSE IF u = v THEN i ELSE IF u = Stack THEN s ELSE NoFrame
      BY <1>1
    <3>2. /\ <<"page", p, u>> # hd /\ <<"page", p, u>> # ht
          /\ <<"page", p, u>> = hi <=> p = First /\ u = v
          /\ <<"page", p, u>> = hs <=> p = First /\ u = Stack
      OBVIOUS
    <3>3. <<"page", p, u>> \in Holder
      BY HolderIs
    <3> HIDE DEF hd, ht, hi, hs
    <3> QED
      BY <1>16, <3>1, <3>2, <3>3
  <2>3. ASSUME NEW p \in Owner, NEW r \in Region
        PROVE  L4[<<"table", p, r>>] = table[p][r]
    <3>1. table[p][r] = IF p = First /\ r = "prog" THEN t ELSE NoFrame
      BY <1>1
    <3>2. /\ <<"table", p, r>> # hd /\ <<"table", p, r>> # hi /\ <<"table", p, r>> # hs
          /\ <<"table", p, r>> = ht <=> p = First /\ r = "prog"
      OBVIOUS
    <3>3. <<"table", p, r>> \in Holder
      BY HolderIs
    <3> HIDE DEF hd, ht, hi, hs
    <3> QED
      BY <1>16, <3>1, <3>2, <3>3
  <2>4. ASSUME NEW p \in Owner PROVE L4[<<"dir", p, "dir">>] = pgdir[p]
    <3>1. pgdir[p] = IF p = First THEN d ELSE NoFrame
      BY <1>1
    <3>2. /\ <<"dir", p, "dir">> # ht /\ <<"dir", p, "dir">> # hi /\ <<"dir", p, "dir">> # hs
          /\ <<"dir", p, "dir">> = hd <=> p = First
      OBVIOUS
    <3>3. <<"dir", p, "dir">> \in Holder
      BY HolderIs
    <3> HIDE DEF hd, ht, hi, hs
    <3> QED
      BY <1>16, <3>1, <3>2, <3>3
  <2> QED
    BY <2>1, <2>2, <2>3, <2>4, SameLeads DEF Leads
<1>18. Shared(L4, writable)
  BY <1>1, <1>16 DEF Shared
<1>19. Exact(Leads, count, free, lost)
  BY <1>1, <1>13, <1>14, <1>15, <1>17
<1> QED
  BY <1>2, <1>17, <1>18, <1>19 DEF Inv

------------------------------------------------------------------------------
(* One lemma for each action. *)

LEMMA InvParts ==
  ASSUME Inv
  PROVE  /\ free \subseteq Frame /\ count \in [Frame -> Nat] /\ mem \in [Frame -> Value]
         /\ slot \in [Proc -> {"free", "live", "lost"}]
         /\ pgdir \in [Owner -> Frame \cup {NoFrame}]
         /\ table \in [Owner -> [Region -> Frame \cup {NoFrame}]]
         /\ map \in [Owner -> [Page -> Frame \cup {NoFrame}]]
         /\ writable \in [Owner -> SUBSET Page] /\ halted \in BOOLEAN /\ lost \subseteq Frame
         /\ wild \in BOOLEAN /\ pgdir[Kernel] = NoFrame
         /\ \A p \in Proc : slot[p] = "live" => pgdir[p] # NoFrame /\ table[p]["prog"] # NoFrame
         /\ Blank /\ WritableMapped /\ Shared(Leads, writable) /\ Exact(Leads, count, free, lost)
         /\ Leads \in [Holder -> Frame \cup {NoFrame}]
BY DEF Inv, TypeOK, Live, Exact

(* What must hold after a step, with the places given as a function L. *)
LEMMA InvAfter ==
  ASSUME free' \subseteq Frame, count' \in [Frame -> Nat], mem' \in [Frame -> Value],
         slot' \in [Proc -> {"free", "live", "lost"}],
         pgdir' \in [Owner -> Frame \cup {NoFrame}],
         table' \in [Owner -> [Region -> Frame \cup {NoFrame}]],
         map' \in [Owner -> [Page -> Frame \cup {NoFrame}]],
         writable' \in [Owner -> SUBSET Page], halted' \in BOOLEAN, lost' \subseteq Frame,
         wild' \in BOOLEAN, pgdir'[Kernel] = NoFrame,
         \A p \in Proc : slot'[p] = "live" => pgdir'[p] # NoFrame /\ table'[p]["prog"] # NoFrame,
         Blank', WritableMapped',
         NEW L, L = Leads', Shared(L, writable'), Exact(L, count', free', lost')
  PROVE  Inv'
<1>1. TypeOK'
  BY DEF TypeOK, Live
<1>2. Shared(Leads, writable)'
  BY DEF Shared, Holder
<1>3. Exact(Leads, count, free, lost)'
  BY DEF Exact, Users, Holder, Lost01
<1> QED
  BY <1>1, <1>2, <1>3 DEF Inv

(* Stores, and halting, leave what leads where. *)
LEMMA InvSame ==
  ASSUME Inv, mem' \in [Frame -> Value], halted' \in BOOLEAN, wild' \in BOOLEAN,
         UNCHANGED <<free, count, slot, pgdir, table, map, writable, lost>>
  PROVE  Inv'
<1>1. Leads' = Leads
  BY DEF Leads, LeadsOf, Holder
<1>2. Blank' /\ WritableMapped'
  BY InvParts DEF Blank, WritableMapped
<1> QED
  BY <1>1, <1>2, InvParts, InvAfter

LEMMA InvHalt ==
  ASSUME Inv, Halt
  PROVE  Inv'
BY InvParts, InvSame DEF Halt

LEMMA InvUserStore ==
  ASSUME Inv, NEW p \in Proc, NEW v \in Page, NEW x \in Value, UserStore(p, v, x)
  PROVE  Inv'
<1>1. mem' \in [Frame -> Value] /\ halted' \in BOOLEAN /\ wild' \in BOOLEAN
  BY InvParts DEF UserStore
<1> QED
  BY <1>1, InvSame DEF UserStore

(* Blocks are read into free frames B. *)
LEMMA InvBuffers ==
  ASSUME Inv, NEW B, B \in {{}} \cup Batches(free), mem' \in [Frame -> Value],
         free' = free \ B, count' = CountWith(B, count), lost' = lost \cup B,
         UNCHANGED <<slot, pgdir, table, map, writable, halted, wild>>
  PROVE  Inv'
<1>1. B \in SUBSET free
  BY InvParts, BatchesAssumption
<1>2. Leads' = Leads
  BY DEF Leads, LeadsOf, Holder
<1>3. Exact(Leads, count', free', lost')
  BY <1>1, InvParts, ExactBuffers
<1>4. free' \subseteq Frame /\ count' \in [Frame -> Nat] /\ lost' \subseteq Frame
  BY <1>3 DEF Exact
<1>5. Blank' /\ WritableMapped'
  BY InvParts DEF Blank, WritableMapped
<1> QED
  BY <1>2, <1>3, <1>4, <1>5, InvParts, InvAfter

LEMMA InvKernelStore ==
  ASSUME Inv, NEW p \in Proc, NEW v \in Page, NEW x \in Value, KernelStore(p, v, x)
  PROVE  Inv'
<1>1. CASE Halt
  BY <1>1, InvHalt
<1>2. CASE ~Halt
  <2>1. PICK B \in {{}} \cup Batches(free) :
          free' = free \ B /\ count' = CountWith(B, count) /\ lost' = lost \cup B
    BY <1>2 DEF KernelStore
  <2>2. /\ mem' = [mem EXCEPT ![map[Whose(p, v)][v]] = x]
        /\ UNCHANGED <<slot, pgdir, table, map, writable, halted, wild>>
    BY <1>2 DEF KernelStore
  <2>3. mem' \in [Frame -> Value]
    BY <2>2, InvParts
  <2> QED
    BY <2>1, <2>2, <2>3, InvBuffers
<1> QED
  BY <1>1, <1>2

LEMMA InvFileCall ==
  ASSUME Inv, NEW p \in Proc, FileCall(p)
  PROVE  Inv'
<1>1. CASE Halt
  BY <1>1, InvHalt
<1>2. CASE ~Halt
  <2>1. PICK B \in Batches(free) :
          /\ free' = free \ B /\ count' = CountWith(B, count) /\ lost' = lost \cup B
          /\ UNCHANGED <<mem, slot, pgdir, table, map, writable, halted, wild>>
    BY <1>2 DEF FileCall
  <2> QED
    BY <2>1, InvParts, InvBuffers
<1> QED
  BY <1>1, <1>2

(* A page of p that was not mapped gets a free frame. *)
LEMMA ExactMap ==
  ASSUME NEW L, NEW ct, NEW fr, NEW ls, Exact(L, ct, fr, ls),
         NEW W, NEW X, Shared(L, W), NEW h \in Holder, L[h] = NoFrame, NEW f \in fr,
         Grants(W, X, {h})
  PROVE  /\ Exact([L EXCEPT ![h] = f], [ct EXCEPT ![f] = 1], fr \ {f}, ls)
         /\ Shared([L EXCEPT ![h] = f], X)
<1>1. L \in [Holder -> Frame \cup {NoFrame}] /\ \A k \in Holder : L[k] # f
  <2>1. L \in [Holder -> Frame \cup {NoFrame}]
    BY DEF Exact
  <2> QED
    BY <2>1, Unused
<1>2. Exact([L EXCEPT ![h] = f], [ct EXCEPT ![f] = 1], fr \ {f}, ls)
  BY ExactTake
<1>3. Shared([L EXCEPT ![h] = f], X)
  BY <1>1, SharedTake
<1> QED
  BY <1>2, <1>3

(* A missing page v of row q gets frame f, its region the tables t. *)
FaultTakes(q, v, r, f, t) ==
  /\ free' = free \ {f, t}
  /\ count' = [g \in Frame |-> IF g \in free \cap {f, t} THEN 1 ELSE count[g]]
  /\ mem' = [mem EXCEPT ![f] = Zero]
  /\ table' = [table EXCEPT ![q][r] = t]
  /\ map' = [map EXCEPT ![q][v] = f]
  /\ writable' = [writable EXCEPT ![q] = @ \cup {v}]
  /\ UNCHANGED <<slot, pgdir, halted, wild, lost>>

LEMMA FaultNames ==
  ASSUME NEW a, NEW v, NotPresentFault(a, v)
  PROVE  \/ \E f \in Candidates(free) :
              \E t \in NewTable(Whose(a, v), RegionOf(v), free \ {f}) :
                FaultTakes(Whose(a, v), v, RegionOf(v), f, t)
         \/ Halt
         \/ UNCHANGED vars
BY DEF NotPresentFault, FaultTakes

LEMMA InvNotPresent ==
  ASSUME Inv, NEW a \in Proc, NEW v \in Page, NotPresentFault(a, v)
  PROVE  Inv'
<1> USE Names
<1>0. PICK p \in Owner : p = Whose(a, v)
  BY WhoseIs
<1> DEFINE r == RegionOf(v)
           hv == <<"page", p, v>>
           hr == <<"table", p, r>>
<1>1. /\ r \in Region /\ map[p][v] = NoFrame
      /\ p \in Proc => slot[p] = "live" /\ v \notin Common /\ r # "kernel"
  BY <1>0, WhoseIs DEF NotPresentFault, RegionOf, Ready, Mapped
<1>2. CASE Halt
  BY <1>2, InvHalt
<1>3. CASE UNCHANGED vars
  BY <1>3, InvParts, InvSame DEF vars
<1>4. ASSUME NEW f \in Candidates(free), NEW t \in NewTable(p, r, free \ {f}),
             free' = free \ {f, t},
             count' = [g \in Frame |-> IF g \in free \cap {f, t} THEN 1 ELSE count[g]],
             mem' = [mem EXCEPT ![f] = Zero],
             table' = [table EXCEPT ![p][r] = t],
             map' = [map EXCEPT ![p][v] = f],
             writable' = [writable EXCEPT ![p] = @ \cup {v}],
             UNCHANGED <<slot, pgdir, halted, wild, lost>>
      PROVE  Inv'
  <2>1. f \in free /\ f \in Frame /\ f # NoFrame
    BY Picked, InvParts
  <2>2. /\ hv \in Holder /\ hr \in Holder /\ hv # hr
        /\ Leads[hv] = NoFrame /\ Leads[hr] = table[p][r]
    <3>1. r \in Region
      BY <1>1
    <3>2. hv # hr
      OBVIOUS
    <3>3. hv \in Holder /\ Leads[hv] = map[p][v]
      BY HolderIs, LeadsIs
    <3> HIDE DEF r
    <3>4. hr \in Holder /\ Leads[hr] = table[p][r]
      BY <3>1, HolderIs, LeadsIs
    <3> QED
      BY <1>1, <3>2, <3>3, <3>4
  <2>3. t \in Frame /\ t # NoFrame /\ t # f
    <3>1. CASE table[p][r] = NoFrame
      <4>1. t \in Candidates(free \ {f})
        BY <1>4, <3>1 DEF NewTable
      <4> QED
        BY <4>1, Picked, InvParts
    <3>2. CASE table[p][r] # NoFrame
      <4>1. t = table[p][r]
        BY <1>4, <3>2 DEF NewTable
      <4>2. f # t
        BY <2>1, <2>2, <4>1, Unused, InvParts
      <4> QED
        BY <1>1, <3>2, <4>1, <4>2, InvParts
    <3> QED
      BY <3>1, <3>2
  <2> HIDE DEF r
  <2>4. /\ free' \subseteq Frame /\ count' \in [Frame -> Nat] /\ mem' \in [Frame -> Value]
        /\ table' \in [Owner -> [Region -> Frame \cup {NoFrame}]]
        /\ map' \in [Owner -> [Page -> Frame \cup {NoFrame}]]
        /\ writable' \in [Owner -> SUBSET Page]
    <3>1. /\ free' \subseteq Frame /\ count' \in [Frame -> Nat] /\ mem' \in [Frame -> Value]
      BY <1>4, InvParts
    <3>2. table' \in [Owner -> [Region -> Frame \cup {NoFrame}]]
      BY <1>1, <1>4, <2>3, InvParts
    <3>3. map' \in [Owner -> [Page -> Frame \cup {NoFrame}]]
      BY <1>4, <2>1, InvParts
    <3>4. writable' \in [Owner -> SUBSET Page]
      BY <1>4, InvParts
    <3> QED
      BY <3>1, <3>2, <3>3, <3>4
  <2>5. /\ \A q \in Owner, w \in Region :
             table'[q][w] = IF q = p /\ w = r THEN t ELSE table[q][w]
        /\ \A q \in Owner, u \in Page : map'[q][u] = IF q = p /\ u = v THEN f ELSE map[q][u]
        /\ \A q \in Owner : writable'[q] = IF q = p THEN writable[p] \cup {v} ELSE writable[q]
    BY <1>1, <1>4, InvParts
  <2>6. Blank' /\ WritableMapped'
        /\ \A q \in Proc : slot'[q] = "live" => pgdir'[q] # NoFrame /\ table'[q]["prog"] # NoFrame
    BY <1>1, <1>4, <2>1, <2>3, <2>5, InvParts DEF Blank, WritableMapped
  <2>7. PICK K, c : K = [Leads EXCEPT ![hv] = f] /\ c = [count EXCEPT ![f] = 1]
    OBVIOUS
  <2>8. Exact(K, c, free \ {f}, lost) /\ Shared(K, writable')
    <3>1. Grants(writable, writable', {hv})
      BY <2>5 DEF Grants
    <3> HIDE DEF hv
    <3> QED
      BY <2>1, <2>2, <2>7, <3>1, InvParts, ExactMap
  <2>9. /\ K \in [Holder -> Frame \cup {NoFrame}]
        /\ \A h \in Holder : K[h] = IF h = hv THEN f ELSE Leads[h]
    BY <2>1, <2>2, <2>7, InvParts
  <2>10. PICK J : J = [K EXCEPT ![hr] = t]
    OBVIOUS
  <2>11. J = Leads'
    <3>1. \A h \in Holder : J[h] = IF h = hr THEN t ELSE IF h = hv THEN f ELSE Leads[h]
      BY <2>2, <2>9, <2>10
    <3>2. J = [h \in Holder |-> J[h]]
      BY <2>9, <2>10
    <3>3. ASSUME NEW q \in Owner, NEW u \in Page
          PROVE  J[<<"page", q, u>>] = map'[q][u]
      <4>1. <<"page", q, u>> \in Holder /\ Leads[<<"page", q, u>>] = map[q][u]
        BY HolderIs, LeadsIs
      <4>2. <<"page", q, u>> # hr /\ (<<"page", q, u>> = hv <=> q = p /\ u = v)
        OBVIOUS
      <4> HIDE DEF hr, hv
      <4> QED
        BY <2>5, <3>1, <4>1, <4>2
    <3>4. ASSUME NEW q \in Owner, NEW w \in Region
          PROVE  J[<<"table", q, w>>] = table'[q][w]
      <4>1. <<"table", q, w>> \in Holder /\ Leads[<<"table", q, w>>] = table[q][w]
        BY HolderIs, LeadsIs
      <4>2. <<"table", q, w>> # hv /\ (<<"table", q, w>> = hr <=> q = p /\ w = r)
        OBVIOUS
      <4> HIDE DEF hr, hv
      <4> QED
        BY <2>5, <3>1, <4>1, <4>2
    <3>5. \A q \in Owner : J[<<"dir", q, "dir">>] = pgdir'[q]
      BY <1>4, <3>1, HolderIs, LeadsIs
    <3> QED
      BY <3>2, <3>3, <3>4, <3>5, SameLeads, LeadsNext
  <2>12. Exact(J, count', free', lost') /\ Shared(J, writable')
    <3>1. CASE table[p][r] = NoFrame
      <4>1. t \in free \ {f}
        BY <1>4, <3>1, Picked, InvParts DEF NewTable
      <4>2. K[hr] = NoFrame
        BY <2>2, <2>9, <3>1
      <4>3. \A q \in Owner, u \in Page : hr # <<"page", q, u>>
        OBVIOUS
      <4>4. Exact(J, [c EXCEPT ![t] = 1], (free \ {f}) \ {t}, lost) /\ Shared(J, writable')
        <5>1. Grants(writable', writable', {hr})
          BY DEF Grants
        <5> HIDE DEF hr
        <5> QED
          BY <2>2, <2>8, <2>10, <4>1, <4>2, <5>1, ExactMap
      <4>5. (free \ {f}) \ {t} = free'
        BY <1>4
      <4>6. [c EXCEPT ![t] = 1] = count'
        <5>1. c \in [Frame -> Nat] /\ \A g \in Frame : c[g] = IF g = f THEN 1 ELSE count[g]
          BY <2>1, <2>7, InvParts
        <5>2. free \cap {f, t} = {f, t}
          BY <2>1, <4>1
        <5> QED
          BY <1>4, <2>3, <5>1, <5>2
      <4> QED
        BY <1>4, <4>4, <4>5, <4>6
    <3>2. CASE table[p][r] # NoFrame
      <4>1. t = table[p][r]
        BY <1>4, <3>2 DEF NewTable
      <4>2. t \notin free
        BY <2>2, <4>1, Unused, InvParts
      <4>3. J = K
        BY <2>2, <2>9, <2>10, <4>1
      <4>4. free \ {f} = free' /\ free \cap {f, t} = {f}
        BY <1>4, <2>1, <4>2
      <4>5. c = count'
        BY <1>4, <2>1, <2>7, <4>4, InvParts
      <4> QED
        BY <1>4, <2>8, <4>3, <4>4, <4>5
    <3> QED
      BY <3>1, <3>2
  <2> QED
    BY <1>4, <2>4, <2>6, <2>11, <2>12, InvParts, InvAfter
<1>5. ASSUME NEW f \in Candidates(free), NEW t \in NewTable(p, r, free \ {f}),
             FaultTakes(p, v, r, f, t)
      PROVE  Inv'
  BY <1>4, <1>5 DEF FaultTakes
<1> QED
  BY <1>0, <1>2, <1>3, <1>5, FaultNames

(* Pages V of p, as places. *)
PagesOf(p, V) == {"page"} \X {p} \X V

LEMMA PagesOfIs ==
  ASSUME Inv, NEW p \in Owner, NEW V \in SUBSET Page
  PROVE  /\ PagesOf(p, V) \in SUBSET Holder
         /\ \A h, k \in PagesOf(p, V) : h # k /\ Leads[h] = Leads[k] => Leads[h] = NoFrame
         /\ LedTo(Leads, PagesOf(p, V)) = FramesOf(p, V)
         /\ \A q \in Owner, u \in Page : <<"page", q, u>> \in PagesOf(p, V) <=> q = p /\ u \in V
<1>1. PagesOf(p, V) \in SUBSET Holder
  BY DEF PagesOf, Holder
<1>2. \A h \in PagesOf(p, V) : \E v \in V : h = <<"page", p, v>> /\ Leads[h] = map[p][v]
  BY LeadsIs DEF PagesOf
<1>3. \A v \in V : <<"page", p, v>> \in PagesOf(p, V) /\ Leads[<<"page", p, v>>] = map[p][v]
  BY LeadsIs DEF PagesOf
<1>4. ASSUME NEW h \in PagesOf(p, V), NEW k \in PagesOf(p, V), h # k, Leads[h] = Leads[k],
             Leads[h] # NoFrame
      PROVE  FALSE
  <2>1. h \in Holder /\ k \in Holder
    BY <1>1
  <2>2. h[3] = k[3]
    BY <1>4, <2>1, InvParts DEF Shared
  <2> QED
    BY <1>2, <1>4, <2>2
<1>5. LedTo(Leads, PagesOf(p, V)) = FramesOf(p, V)
  <2>1. ASSUME NEW f \in LedTo(Leads, PagesOf(p, V)) PROVE f \in FramesOf(p, V)
    <3>1. PICK h \in PagesOf(p, V) : f = Leads[h] /\ f # NoFrame
      BY DEF LedTo
    <3> QED
      BY <1>2, <3>1 DEF FramesOf, MappedIn, Mapped
  <2>2. ASSUME NEW f \in FramesOf(p, V) PROVE f \in LedTo(Leads, PagesOf(p, V))
    <3>1. PICK v \in V : f = map[p][v] /\ f # NoFrame
      BY DEF FramesOf, MappedIn, Mapped
    <3> QED
      BY <1>3, <3>1 DEF LedTo
  <2> QED
    BY <2>1, <2>2
<1>6. \A q \in Owner, u \in Page : <<"page", q, u>> \in PagesOf(p, V) <=> q = p /\ u \in V
  BY DEF PagesOf
<1> QED
  BY <1>1, <1>4, <1>5, <1>6

(* Only entries of page tables have changed. *)
LEMMA OnlyPages ==
  ASSUME NEW K, K = [h \in Holder |-> K[h]], UNCHANGED <<table, pgdir>>,
         \A q \in Owner, u \in Page : K[<<"page", q, u>>] = map'[q][u],
         \A h \in Holder : h[1] # "page" => K[h] = Leads[h]
  PROVE  K = Leads'
<1>1. ASSUME NEW q \in Owner, NEW w \in Region
      PROVE  K[<<"table", q, w>>] = table'[q][w]
  <2>1. <<"table", q, w>> \in Holder /\ Leads[<<"table", q, w>>] = table[q][w]
    BY HolderIs, LeadsIs
  <2>2. <<"table", q, w>>[1] # "page"
    OBVIOUS
  <2> QED
    BY <2>1, <2>2
<1>2. ASSUME NEW q \in Owner
      PROVE  K[<<"dir", q, "dir">>] = pgdir'[q]
  <2>1. <<"dir", q, "dir">> \in Holder /\ Leads[<<"dir", q, "dir">>] = pgdir[q]
    BY HolderIs, LeadsIs
  <2>2. <<"dir", q, "dir">>[1] # "page"
    OBVIOUS
  <2> QED
    BY <2>1, <2>2
<1> QED
  BY <1>1, <1>2, SameLeads, LeadsNext

LEMMA Release ==
  ASSUME NEW D
  PROVE  Fewer(count, D) = CountAfter(D) /\ Lasts(count, D) = Freed(D)
BY DEF Fewer, CountAfter, Lasts, Freed

(* Pages V of p are taken out of its tables. *)
LEMMA DropPages ==
  ASSUME Inv, NEW p \in Owner, NEW V \in SUBSET Page
  PROVE  /\ Exact(Without(Leads, PagesOf(p, V)), CountAfter(FramesOf(p, V)),
                  free \cup Freed(FramesOf(p, V)), lost)
         /\ Shared(Without(Leads, PagesOf(p, V)), writable)
<1>1. Exact(Without(Leads, PagesOf(p, V)), Fewer(count, LedTo(Leads, PagesOf(p, V))),
            free \cup Lasts(count, LedTo(Leads, PagesOf(p, V))), lost)
  <2>1. PICK H : H = PagesOf(p, V)
    OBVIOUS
  <2>2. /\ H \in SUBSET Holder
        /\ \A h, k \in H : h # k /\ Leads[h] = Leads[k] => Leads[h] = NoFrame
    BY <2>1, PagesOfIs
  <2>3. Exact(Leads, count, free, lost)
    BY InvParts
  <2>4. Exact(Without(Leads, H), Fewer(count, LedTo(Leads, H)),
              free \cup Lasts(count, LedTo(Leads, H)), lost)
    BY ONLY <2>2, <2>3, ExactLeave
  <2> QED
    BY <2>1, <2>4
<1>2. Grants(writable, writable, PagesOf(p, V))
  BY DEF Grants
<1>3. Shared(Without(Leads, PagesOf(p, V)), writable)
  BY <1>2, InvParts, SharedLeave
<1> QED
  BY <1>1, <1>3, PagesOfIs, Release

LEMMA MemAfterType ==
  ASSUME Inv, NEW D
  PROVE  MemAfter(D) \in [Frame -> Value] /\ CountAfter(D) \in [Frame -> Int]
BY InvParts, Names DEF MemAfter, CountAfter

LEMMA InvCowFault ==
  ASSUME Inv, NEW a \in Proc, NEW v \in Page, CowFault(a, v)
  PROVE  Inv'
<1> USE Names
<1>0. PICK p \in Owner : p = Whose(a, v)
  BY WhoseIs
<1> DEFINE D == {map[p][v]}
           hv == <<"page", p, v>>
<1>1. map[p][v] # NoFrame /\ (p \in Proc => slot[p] = "live" /\ v \notin Common)
  BY <1>0, WhoseIs DEF CowFault, Ready, Mapped
<1>2. CASE Halt
  BY <1>2, InvHalt
<1>3. ASSUME NEW f \in Candidates(free),
             free' = (free \ {f}) \cup Freed(D),
             count' = [CountAfter(D) EXCEPT ![f] = 1],
             mem' = [MemAfter(D) EXCEPT ![f] = mem[map[p][v]]],
             map' = [map EXCEPT ![p][v] = f],
             writable' = [writable EXCEPT ![p] = @ \cup {v}],
             UNCHANGED <<slot, pgdir, table, halted, wild, lost>>
      PROVE  Inv'
  <2>1. f \in free /\ f \in Frame /\ f # NoFrame
    BY Picked, InvParts
  <2>2. FramesOf(p, {v}) = D
    BY <1>1 DEF FramesOf, MappedIn, Mapped
  <2>3. PICK L : L = Without(Leads, PagesOf(p, {v}))
    OBVIOUS
  <2>4. Exact(L, CountAfter(D), free \cup Freed(D), lost) /\ Shared(L, writable)
    BY <2>2, <2>3, DropPages
  <2>5. /\ hv \in Holder /\ L[hv] = NoFrame
        /\ \A h \in Holder : h # hv => L[h] = Leads[h]
        /\ L \in [Holder -> Frame \cup {NoFrame}]
    BY <2>3, <2>4, HolderIs DEF Without, PagesOf, Holder, Exact
  <2>6. PICK K : K = [L EXCEPT ![hv] = f]
    OBVIOUS
  <2>7. (free \cup Freed(D)) \ {f} = free'
    <3>1. f \notin Freed(D)
      BY <2>1, InvParts DEF Freed, Exact
    <3> QED
      BY <1>3, <3>1
  <2>8. Exact(K, count', free', lost') /\ Shared(K, writable')
    <3>1. Grants(writable, writable', {hv})
      BY <1>3, InvParts DEF Grants
    <3>2. PICK c, fr : c = CountAfter(D) /\ fr = free \cup Freed(D)
      OBVIOUS
    <3>3. f \in fr /\ count' = [c EXCEPT ![f] = 1] /\ free' = fr \ {f} /\ lost' = lost
      BY <1>3, <2>1, <2>7, <3>2
    <3>4. Exact(L, c, fr, lost) /\ Shared(L, writable) /\ hv \in Holder /\ L[hv] = NoFrame
      BY <2>4, <2>5, <3>2
    <3> HIDE DEF hv, D
    <3>5. Exact(K, [c EXCEPT ![f] = 1], fr \ {f}, lost) /\ Shared(K, writable')
      BY <2>6, <3>1, <3>3, <3>4, ExactMap
    <3> QED
      BY <3>3, <3>5
  <2>9. /\ \A q \in Owner, u \in Page : map'[q][u] = IF q = p /\ u = v THEN f ELSE map[q][u]
        /\ \A q \in Owner : writable'[q] = IF q = p THEN writable[p] \cup {v} ELSE writable[q]
    BY <1>1, <1>3, InvParts
  <2>10. K = Leads'
    <3>1. K = [h \in Holder |-> K[h]] /\ \A h \in Holder : K[h] = IF h = hv THEN f ELSE Leads[h]
      BY <2>5, <2>6
    <3>2. ASSUME NEW q \in Owner, NEW u \in Page
          PROVE  K[<<"page", q, u>>] = map'[q][u]
      <4>1. <<"page", q, u>> \in Holder /\ Leads[<<"page", q, u>>] = map[q][u]
        BY HolderIs, LeadsIs
      <4>2. <<"page", q, u>> = hv <=> q = p /\ u = v
        OBVIOUS
      <4> HIDE DEF hv
      <4> QED
        BY <2>9, <3>1, <4>1, <4>2
    <3>3. \A h \in Holder : h[1] # "page" => K[h] = Leads[h]
      BY <3>1
    <3>4. UNCHANGED <<table, pgdir>>
      BY <1>3
    <3> HIDE DEF hv
    <3> QED
      BY ONLY <3>1, <3>2, <3>3, <3>4, OnlyPages
  <2>11. /\ free' \subseteq Frame /\ count' \in [Frame -> Nat]
    BY <2>8 DEF Exact
  <2>12. mem' \in [Frame -> Value] /\ map' \in [Owner -> [Page -> Frame \cup {NoFrame}]]
         /\ writable' \in [Owner -> SUBSET Page]
    <3>1. map[p][v] \in Frame /\ mem[map[p][v]] \in Value
      BY <1>1, InvParts
    <3>2. MemAfter(D) \in [Frame -> Value]
      BY MemAfterType
    <3>3. mem' \in [Frame -> Value]
      BY <1>3, <3>1, <3>2
    <3>4. map' \in [Owner -> [Page -> Frame \cup {NoFrame}]]
      BY <1>3, <2>1, InvParts
    <3>5. writable' \in [Owner -> SUBSET Page]
      BY <1>3, InvParts
    <3> QED
      BY <3>3, <3>4, <3>5
  <2>13. Blank' /\ WritableMapped'
    BY <1>1, <1>3, <2>1, <2>9, InvParts DEF Blank, WritableMapped
  <2> QED
    BY <1>3, <2>8, <2>10, <2>11, <2>12, <2>13, InvParts, InvAfter
<1> QED
  BY <1>0, <1>2, <1>3 DEF CowFault, CowReleased, CowContent

(* The frames of blocks of the directory and of the file. *)
LEMMA ExecBuffers ==
  ASSUME Inv, NEW p \in Proc, NEW A, A \in Batches(free),
         NEW B, B \in {{}} \cup Batches(FreeAfterDrop(p) \ A)
  PROVE  A \cup B \in SUBSET (free \cup Freed(FramesOf(p, Prog)))
<1>1. p \in Owner /\ Prog \in SUBSET Page
  BY Names
<1>2. free \cup Freed(FramesOf(p, Prog)) \subseteq Frame /\ free \subseteq Frame
  BY <1>1, InvParts, DropPages DEF Exact
<1>3. FreeAfterDrop(p) = free \cup Freed(FramesOf(p, Prog))
  BY DEF FreeAfterDrop, Dropped
<1>4. A \subseteq free
  BY <1>2, BatchesAssumption
<1>5. FreeAfterDrop(p) \ A \in SUBSET Frame
  BY <1>2, <1>3
<1>6. B \subseteq FreeAfterDrop(p) \ A
  BY <1>5, BatchesAssumption
<1> QED
  BY <1>3, <1>4, <1>6

(* exec drops the pages D of p, and blocks are read into frames E. *)
LEMMA ExecDrops ==
  ASSUME Inv, NEW p \in Proc, NEW D, D = FramesOf(p, Prog),
         NEW E, E \in SUBSET (free \cup Freed(D))
  PROVE  /\ Exact(Without(Leads, PagesOf(p, Prog)), CountWith(E, CountAfter(D)),
                  (free \cup Freed(D)) \ E, lost \cup E)
         /\ Shared(Without(Leads, PagesOf(p, Prog)), writable)
<1>1. p \in Owner /\ Prog \in SUBSET Page
  BY Names
<1> QED
  BY <1>1, DropPages, ExactBuffers

LEMMA InvExecRejected ==
  ASSUME Inv, NEW p \in Proc, ExecRejected(p)
  PROVE  Inv'
<1> USE Names
<1> DEFINE D == FramesOf(p, Prog)
<1>a. PICK A \in Batches(free) : \E B \in {{}} \cup Batches(FreeAfterDrop(p) \ A) :
        /\ free' = FreeAfterDrop(p) \ (A \cup B)
        /\ count' = CountAfterExec(p, A, B)
        /\ lost' = lost \cup (A \cup B)
  BY DEF ExecRejected
<1>0. PICK B \in {{}} \cup Batches(FreeAfterDrop(p) \ A) :
        /\ free' = FreeAfterDrop(p) \ (A \cup B)
        /\ count' = CountAfterExec(p, A, B)
        /\ lost' = lost \cup (A \cup B)
  BY <1>a
<1>1. /\ slot[p] = "live" /\ mem' = MemAfter(D)
      /\ map' = [map EXCEPT ![p] = [u \in Page |-> IF u \notin Prog THEN map[p][u] ELSE NoFrame]]
      /\ writable' = [writable EXCEPT ![p] = @ \ Prog]
      /\ UNCHANGED <<slot, pgdir, table, halted, wild>>
  BY DEF ExecRejected, Ready, Dropped
<1>2. PICK L : L = Without(Leads, PagesOf(p, Prog))
  OBVIOUS
<1>3. Exact(L, count', free', lost')
  <2>1. PICK E : E = A \cup B
    OBVIOUS
  <2>2. E \in SUBSET (free \cup Freed(D))
    BY <2>1, ExecBuffers
  <2>3. Exact(L, CountWith(E, CountAfter(D)), (free \cup Freed(D)) \ E, lost \cup E)
    BY <1>2, <2>2, ExecDrops
  <2>4. /\ free' = (free \cup Freed(D)) \ E /\ count' = CountWith(E, CountAfter(D))
        /\ lost' = lost \cup E
    BY <1>0, <2>1 DEF FreeAfterDrop, Dropped, CountAfterExec
  <2> QED
    BY <2>3, <2>4
<1>4. /\ \A q \in Owner, u \in Page :
           map'[q][u] = IF q = p /\ u \in Prog THEN NoFrame ELSE map[q][u]
      /\ \A q \in Owner : writable'[q] = IF q = p THEN writable[p] \ Prog ELSE writable[q]
  BY <1>1, InvParts
<1>5. Shared(L, writable')
  <2>1. Grants(writable, writable', PagesOf(p, Prog))
    BY <1>4 DEF Grants
  <2> QED
    BY <1>2, <2>1, InvParts, SharedLeave
<1>6. L = Leads'
  <2>1. /\ L = [h \in Holder |-> L[h]]
        /\ \A h \in Holder : L[h] = IF h \in PagesOf(p, Prog) THEN NoFrame ELSE Leads[h]
    BY <1>2 DEF Without
  <2>2. \A q \in Owner, u \in Page : L[<<"page", q, u>>] = map'[q][u]
    <3> SUFFICES ASSUME NEW q \in Owner, NEW u \in Page
                 PROVE  L[<<"page", q, u>>] = map'[q][u]
      OBVIOUS
    <3>1. <<"page", q, u>> \in Holder /\ Leads[<<"page", q, u>>] = map[q][u]
      BY HolderIs, LeadsIs
    <3>2. <<"page", q, u>> \in PagesOf(p, Prog) <=> q = p /\ u \in Prog
      BY PagesOfIs
    <3> QED
      BY <1>4, <2>1, <3>1, <3>2
  <2>3. \A h \in PagesOf(p, Prog) : h[1] = "page"
    BY DEF PagesOf
  <2>4. \A h \in Holder : h[1] # "page" => L[h] = Leads[h]
    BY <2>1, <2>3
  <2>5. UNCHANGED <<table, pgdir>>
    BY <1>1
  <2> QED
    BY ONLY <2>1, <2>2, <2>4, <2>5, OnlyPages
<1>7. free' \subseteq Frame /\ count' \in [Frame -> Nat] /\ lost' \subseteq Frame
  BY <1>3 DEF Exact
<1>8. /\ mem' \in [Frame -> Value] /\ map' \in [Owner -> [Page -> Frame \cup {NoFrame}]]
      /\ writable' \in [Owner -> SUBSET Page]
  BY <1>1, InvParts, MemAfterType
<1>9. Blank' /\ WritableMapped'
  BY <1>1, <1>4, InvParts DEF Blank, WritableMapped
<1> QED
  BY <1>1, <1>3, <1>5, <1>6, <1>7, <1>8, <1>9, InvParts, InvAfter

(* exec when there are frames f for the image and s for the stack, of what *)
(* dropping the pages D and reading blocks into the frames E leave free, S. *)
ExecTakes(p, v, x, S, E, D, f, s) ==
  /\ free' = S \ {f, s}
  /\ count' = CountWith({f, s}, CountWith(E, CountAfter(D)))
  /\ lost' = lost \cup E
  /\ mem' = [g \in Frame |-> IF g = f THEN x ELSE IF g = s THEN Zero ELSE MemAfter(D)[g]]
  /\ map' = [map EXCEPT ![p] = [u \in Page |-> IF u \notin Prog THEN map[p][u]
                                               ELSE IF u = v THEN f
                                               ELSE IF u = Stack THEN s
                                               ELSE NoFrame]]
  /\ writable' = [writable EXCEPT ![p] =
                    (@ \ Prog) \cup (IF s = NoFrame THEN {v} ELSE {v, Stack})]
  /\ UNCHANGED <<slot, pgdir, table, halted, wild>>

LEMMA ExecNames ==
  ASSUME Inv, NEW p \in Proc, NEW v \in VPage, NEW x \in Value, ExecOK(p, v, x),
         NEW D, D = FramesOf(p, Prog)
  PROVE  \E E \in SUBSET (free \cup Freed(D)) :
         \E f \in (free \cup Freed(D)) \ E, s \in ((free \cup Freed(D)) \ E) \cup {NoFrame} :
           f \in Frame /\ f # s /\ ExecTakes(p, v, x, (free \cup Freed(D)) \ E, E, D, f, s)
<1>1. PICK A \in Batches(free) : \E B \in Batches(FreeAfterDrop(p) \ A) :
        \E f \in Candidates(FreeAfterDrop(p) \ (A \cup B)) :
        \E s \in (IF FreeAfterDrop(p) \ (A \cup B) = {f} THEN {NoFrame}
                 ELSE Candidates((FreeAfterDrop(p) \ (A \cup B)) \ {f})) :
          ExecTakes(p, v, x, FreeAfterDrop(p) \ (A \cup B), A \cup B, D, f, s)
  <2>1. D = Dropped(p)
    BY DEF Dropped
  <2>2. \E A \in Batches(free) : \E B \in Batches(FreeAfterDrop(p) \ A) :
        \E f \in Candidates(FreeAfterDrop(p) \ (A \cup B)) :
        \E s \in (IF FreeAfterDrop(p) \ (A \cup B) = {f} THEN {NoFrame}
                 ELSE Candidates((FreeAfterDrop(p) \ (A \cup B)) \ {f})) :
          ExecTakes(p, v, x, FreeAfterDrop(p) \ (A \cup B), A \cup B, Dropped(p), f, s)
    BY Zenon DEF ExecOK, ExecTakes, CountAfterExec
  <2> QED
    BY ONLY <2>1, <2>2
<1>2. PICK B \in Batches(FreeAfterDrop(p) \ A) :
        \E f \in Candidates(FreeAfterDrop(p) \ (A \cup B)) :
        \E s \in (IF FreeAfterDrop(p) \ (A \cup B) = {f} THEN {NoFrame}
                 ELSE Candidates((FreeAfterDrop(p) \ (A \cup B)) \ {f})) :
          ExecTakes(p, v, x, FreeAfterDrop(p) \ (A \cup B), A \cup B, D, f, s)
  BY <1>1
<1>3. PICK E, S : E = A \cup B /\ S = (free \cup Freed(D)) \ E
  OBVIOUS
<1>4. E \in SUBSET (free \cup Freed(D))
  BY <1>3, ExecBuffers
<1>5. S \in SUBSET Frame /\ S = FreeAfterDrop(p) \ (A \cup B)
  <2>1. Exact(Without(Leads, PagesOf(p, Prog)), CountWith(E, CountAfter(D)), S, lost \cup E)
    BY <1>3, <1>4, ExecDrops
  <2> QED
    BY <1>3, <2>1 DEF Exact, FreeAfterDrop, Dropped
<1>6. PICK f \in Candidates(S) : \E s \in (IF S = {f} THEN {NoFrame} ELSE Candidates(S \ {f})) :
        ExecTakes(p, v, x, S, E, D, f, s)
  <2>1. E = A \cup B /\ S = FreeAfterDrop(p) \ (A \cup B)
    BY <1>3, <1>5
  <2> QED
    BY ONLY <1>2, <2>1
<1>7. f \in S /\ f \in Frame /\ f # NoFrame
  BY <1>5, Picked
<1>8. \E s \in S \cup {NoFrame} : f # s /\ ExecTakes(p, v, x, S, E, D, f, s)
  <2>1. CASE S = {f}
    BY <1>6, <1>7, <2>1
  <2>2. CASE S # {f}
    <3>1. PICK s \in Candidates(S \ {f}) : ExecTakes(p, v, x, S, E, D, f, s)
      BY <1>6, <2>2
    <3>2. s \in S \ {f} /\ s # NoFrame
      BY <1>5, Picked
    <3> QED
      BY <1>7, <3>1, <3>2
  <2> QED
    BY <2>1, <2>2
<1> QED
  BY <1>3, <1>4, <1>7, <1>8

LEMMA InvExecOK ==
  ASSUME Inv, NEW p \in Proc, NEW v \in VPage, NEW x \in Value, ExecOK(p, v, x)
  PROVE  Inv'
<1> USE Names
<1> DEFINE D == FramesOf(p, Prog)
           S == free \cup Freed(D)
           hv == <<"page", p, v>>
           hs == <<"page", p, Stack>>
<1>1. slot[p] = "live"
  BY DEF ExecOK, Ready
<1>3. ASSUME NEW E \in SUBSET S, NEW f \in S \ E, NEW s \in (S \ E) \cup {NoFrame},
             f \in Frame, f # s, ExecTakes(p, v, x, S \ E, E, D, f, s)
      PROVE  Inv'
  <2>0. /\ free' = (S \ E) \ {f, s}
        /\ count' = CountWith({f, s}, CountWith(E, CountAfter(D)))
        /\ lost' = lost \cup E
        /\ mem' = [g \in Frame |-> IF g = f THEN x ELSE IF g = s THEN Zero ELSE MemAfter(D)[g]]
        /\ map' = [map EXCEPT ![p] = [u \in Page |-> IF u \notin Prog THEN map[p][u]
                                               ELSE IF u = v THEN f
                                               ELSE IF u = Stack THEN s
                                               ELSE NoFrame]]
        /\ writable' = [writable EXCEPT ![p] =
                    (@ \ Prog) \cup (IF s = NoFrame THEN {v} ELSE {v, Stack})]
        /\ UNCHANGED <<slot, pgdir, table, halted, wild>>
    BY <1>3 DEF ExecTakes
  <2>1. PICK L, c, fr, ls : /\ L = Without(Leads, PagesOf(p, Prog))
                            /\ c = CountWith(E, CountAfter(D))
                            /\ fr = S \ E /\ ls = lost \cup E
    OBVIOUS
  <2>2. Exact(L, c, fr, ls) /\ Shared(L, writable)
    <3>1. D = FramesOf(p, Prog) /\ S = free \cup Freed(D)
      OBVIOUS
    <3> HIDE DEF D, S
    <3> QED
      BY <2>1, <3>1, ExecDrops
  <2>3. /\ L \in [Holder -> Frame \cup {NoFrame}] /\ c \in [Frame -> Nat] /\ fr \subseteq Frame
        /\ \A h \in Holder : L[h] = IF h \in PagesOf(p, Prog) THEN NoFrame ELSE Leads[h]
    <3> HIDE DEF D, S
    <3> QED
      BY <2>1, <2>2 DEF Exact, Without
  <2>4. f \in fr /\ f \in Frame /\ f # NoFrame
    BY <1>3, <2>1
  <2>5. s = NoFrame \/ s \in fr \ {f}
    BY <1>3, <2>1
  <2> HIDE DEF S, D
  <2>6. /\ hv \in Holder /\ hs \in Holder /\ hv # hs
        /\ hv \in PagesOf(p, Prog) /\ hs \in PagesOf(p, Prog)
    BY HolderIs, PagesOfIs
  <2>7. L[hv] = NoFrame /\ L[hs] = NoFrame
    BY <2>3, <2>6
  <2>8. /\ \A q \in Owner, u \in Page :
             map'[q][u] = IF q # p \/ u \notin Prog THEN map[q][u]
                          ELSE IF u = v THEN f ELSE IF u = Stack THEN s ELSE NoFrame
        /\ \A q \in Owner \ {p} : writable'[q] = writable[q]
        /\ writable'[p] = (writable[p] \ Prog)
                            \cup (IF s = NoFrame THEN {v} ELSE {v, Stack})
    BY <2>0, InvParts
  <2>9. PICK K, k : K = [L EXCEPT ![hv] = f] /\ k = [c EXCEPT ![f] = 1]
    OBVIOUS
  <2>10. PICK X : X = [writable EXCEPT ![p] = @ \cup {v}]
    OBVIOUS
  <2>11. Exact(K, k, fr \ {f}, ls) /\ Shared(K, X)
    <3>1. Grants(writable, X, {hv})
      BY <2>10, InvParts DEF Grants
    <3> HIDE DEF hv
    <3> QED
      BY <2>2, <2>4, <2>6, <2>7, <2>9, <3>1, ExactMap
  <2>12. /\ \A h \in Holder : K[h] = IF h = hv THEN f ELSE L[h]
         /\ K \in [Holder -> Frame \cup {NoFrame}]
         /\ \A g \in Frame : k[g] = IF g = f THEN 1 ELSE c[g]
    BY <2>3, <2>4, <2>6, <2>9
  <2>13. PICK J : J = [K EXCEPT ![hs] = s]
    OBVIOUS
  <2>14. \A h \in Holder : J[h] = IF h = hs THEN s ELSE IF h = hv THEN f ELSE L[h]
    BY <2>6, <2>12, <2>13
  <2>15. Exact(J, count', free', lost') /\ Shared(J, writable')
    <3>1. CASE s = NoFrame
      <4>1. J = K
        BY <2>6, <2>7, <2>12, <2>13, <3>1
      <4>2. count' = k
        <5>1. k \in [Frame -> Nat] /\ count' = [g \in Frame |-> IF g = f THEN 1 ELSE c[g]]
          BY <2>0, <2>1, <2>3, <2>4, <2>9, <3>1 DEF CountWith
        <5> QED
          BY <2>12, <5>1
      <4>3. free' = fr \ {f}
        BY <2>0, <2>1, <2>3, <3>1
      <4>4. Shared(K, writable')
        <5>1. \A q \in Owner : writable'[q] \subseteq X[q]
          BY <2>8, <2>10, <3>1, InvParts
        <5>2. \A h \in Holder : h[1] = "page" => h[2] \in Owner
          BY DEF Holder
        <5> QED
          BY <2>11, <5>1, <5>2 DEF Shared
      <4> QED
        BY <2>0, <2>1, <2>11, <4>1, <4>2, <4>3, <4>4
    <3>2. CASE s \in fr \ {f}
      <4>1. Grants(X, writable', {hs})
        BY <2>8, <2>10, InvParts DEF Grants
      <4>2. K[hs] = NoFrame
        BY <2>6, <2>7, <2>12
      <4>3. Exact(J, [k EXCEPT ![s] = 1], (fr \ {f}) \ {s}, ls) /\ Shared(J, writable')
        <5> HIDE DEF hs, hv
        <5> QED
          BY <2>6, <2>11, <2>13, <3>2, <4>1, <4>2, ExactMap
      <4>4. (fr \ {f}) \ {s} = free'
        BY <2>0, <2>1
      <4>5. [k EXCEPT ![s] = 1] = count'
        BY <2>0, <2>1, <2>3, <2>4, <2>9, <3>2 DEF CountWith
      <4> QED
        BY <2>0, <2>1, <4>3, <4>4, <4>5
    <3> QED
      BY <2>5, <3>1, <3>2
  <2>16. J = Leads'
    <3>1. J = [h \in Holder |-> J[h]]
      BY <2>12, <2>13
    <3>2. ASSUME NEW q \in Owner, NEW u \in Page
          PROVE  J[<<"page", q, u>>] = map'[q][u]
      <4>1. <<"page", q, u>> \in Holder /\ Leads[<<"page", q, u>>] = map[q][u]
        BY HolderIs, LeadsIs
      <4>2. /\ <<"page", q, u>> = hv <=> q = p /\ u = v
            /\ <<"page", q, u>> = hs <=> q = p /\ u = Stack
            /\ <<"page", q, u>> \in PagesOf(p, Prog) <=> q = p /\ u \in Prog
        BY PagesOfIs
      <4> HIDE DEF hv, hs
      <4>3. J[<<"page", q, u>>] = IF q = p /\ u = Stack THEN s ELSE IF q = p /\ u = v THEN f
                                  ELSE IF q = p /\ u \in Prog THEN NoFrame ELSE map[q][u]
        BY <2>3, <2>14, <4>1, <4>2
      <4>4. CASE q = p /\ u \in Prog
        <5>1. u \in Prog /\ v # Stack /\ p \in Owner /\ u \in Page
          BY <4>4
        <5>2. map'[p][u] = IF u = v THEN f ELSE IF u = Stack THEN s ELSE NoFrame
          BY ONLY <2>8, <5>1
        <5> QED
          BY <4>3, <4>4, <5>1, <5>2
      <4>5. CASE q # p \/ u \notin Prog
        BY <2>8, <4>3, <4>5
      <4> QED
        BY <4>4, <4>5
    <3>3. \A h \in Holder : h[1] # "page" => J[h] = Leads[h]
      <4>1. \A h \in PagesOf(p, Prog) : h[1] = "page"
        BY DEF PagesOf
      <4>2. hv[1] = "page" /\ hs[1] = "page"
        OBVIOUS
      <4> HIDE DEF hv, hs
      <4> QED
        BY <2>3, <2>14, <4>1, <4>2
    <3>4. UNCHANGED <<table, pgdir>>
      BY <2>0
    <3> QED
      BY ONLY <3>1, <3>2, <3>3, <3>4, OnlyPages
  <2>17. free' \subseteq Frame /\ count' \in [Frame -> Nat] /\ lost' \subseteq Frame
    BY <2>15 DEF Exact
  <2>18. mem' \in [Frame -> Value]
    BY <2>0, InvParts, MemAfterType
  <2>19. map' \in [Owner -> [Page -> Frame \cup {NoFrame}]] /\ writable' \in [Owner -> SUBSET Page]
    <3>1. s \in Frame \cup {NoFrame}
      BY <2>3, <2>5
    <3> QED
      BY <2>0, <2>4, <3>1, InvParts
  <2>20. Blank'
    BY <1>1, <2>0, <2>8, InvParts DEF Blank
  <2>21. WritableMapped'
    <3> SUFFICES ASSUME NEW q \in Owner, NEW u \in writable'[q] PROVE map'[q][u] # NoFrame
      BY DEF WritableMapped
    <3>1. CASE q # p
      BY <2>8, <2>19, <3>1, InvParts DEF WritableMapped
    <3>2. CASE q = p
      BY <2>4, <2>8, <2>19, <3>2, InvParts DEF WritableMapped
    <3> QED
      BY <3>1, <3>2
  <2>22. /\ slot' \in [Proc -> {"free", "live", "lost"}]
         /\ pgdir' \in [Owner -> Frame \cup {NoFrame}] /\ pgdir'[Kernel] = NoFrame
         /\ table' \in [Owner -> [Region -> Frame \cup {NoFrame}]]
         /\ halted' \in BOOLEAN /\ wild' \in BOOLEAN
         /\ \A q \in Proc : slot'[q] = "live" => pgdir'[q] # NoFrame /\ table'[q]["prog"] # NoFrame
    BY <2>0, InvParts
  <2> QED
    BY ONLY <2>15, <2>16, <2>17, <2>18, <2>19, <2>20, <2>21, <2>22, InvAfter
<1> QED
  <2> HIDE DEF S, D
  <2>1. PICK E \in SUBSET S : \E f \in S \ E, s \in (S \ E) \cup {NoFrame} :
          f \in Frame /\ f # s /\ ExecTakes(p, v, x, S \ E, E, D, f, s)
    BY ExecNames DEF S, D
  <2> QED
    BY <1>3, <2>1

(* A slot is lost: it had no process, and has none. *)
LEMMA InvForkNoDirectory ==
  ASSUME Inv, NEW c \in Proc, NEW p \in Proc, ForkNoDirectory(p, c)
  PROVE  Inv'
<1>1. /\ slot[c] = "free" /\ slot' = [slot EXCEPT ![c] = "lost"]
      /\ UNCHANGED <<free, count, mem, pgdir, table, map, writable, halted, wild, lost>>
  BY DEF ForkNoDirectory
<1>2. Leads' = Leads
  BY <1>1 DEF Leads, LeadsOf, Holder
<1>3. Blank' /\ WritableMapped'
  BY <1>1, InvParts DEF Blank, WritableMapped
<1> QED
  BY <1>1, <1>2, <1>3, InvParts, InvAfter

(* fork when there are frames d, t and s for the child's directory, its    *)
(* tables and its stack.                                                   *)
ForkTakes(p, c, d, t, s) ==
  /\ free' = free \ {d, t, s}
  /\ count' = CountAfterFork(p, {d, t, s})
  /\ mem' = [mem EXCEPT ![s] = mem[map[p][Stack]]]
  /\ pgdir' = [pgdir EXCEPT ![c] = d]
  /\ table' = [table EXCEPT ![c]["prog"] = t]
  /\ map' = [map EXCEPT ![c] = [v \in Page |-> IF v \in VPage THEN map[p][v]
                                               ELSE IF v = Stack THEN s
                                               ELSE NoFrame]]

LEMMA ForkNames ==
  ASSUME Inv, NEW p \in Proc, NEW c \in Proc, ForkOK(p, c)
  PROVE  \E d, t, s \in free : /\ d # t /\ d # s /\ t # s
                               /\ d \in Frame /\ t \in Frame /\ s \in Frame
                               /\ ForkTakes(p, c, d, t, s)
<1>1. PICK d \in Candidates(free) : \E t \in Candidates(free \ {d}) :
        \E s \in Candidates(free \ {d, t}) : ForkTakes(p, c, d, t, s)
  BY Zenon DEF ForkOK, ForkTakes
<1>2. PICK t \in Candidates(free \ {d}) :
        \E s \in Candidates(free \ {d, t}) : ForkTakes(p, c, d, t, s)
  BY <1>1
<1>3. PICK s \in Candidates(free \ {d, t}) : ForkTakes(p, c, d, t, s)
  BY <1>2
<1>4. free \subseteq Frame
  BY InvParts
<1>5. d \in free /\ t \in free \ {d} /\ s \in free \ {d, t}
  BY <1>4, Picked
<1> QED
  BY <1>3, <1>4, <1>5

LEMMA InvForkOK ==
  ASSUME Inv, NEW p \in Proc, NEW c \in Proc, slot[p] = "live",
         UNCHANGED <<halted, wild, lost>>, ForkOK(p, c)
  PROVE  Inv'
<1> USE Names
<1> DEFINE hd == <<"dir", c, "dir">>
           ht == <<"table", c, "prog">>
           hs == <<"page", c, Stack>>
           H == PagesOf(c, VPage)
<1>0. p \in Owner /\ c \in Owner /\ c # Kernel
  OBVIOUS
<1>1. /\ slot[c] = "free" /\ slot' = [slot EXCEPT ![c] = "live"] /\ map[p][Stack] # NoFrame
      /\ writable' = [writable EXCEPT ![p] = @ \ VPage, ![c] = {Stack}] /\ p # c
  BY DEF ForkOK, WritableAfterFork, Mapped
<1>2. PICK d, t, s \in free : /\ d # t /\ d # s /\ t # s
                              /\ d \in Frame /\ t \in Frame /\ s \in Frame
                              /\ ForkTakes(p, c, d, t, s)
  BY ForkNames
<1>3. /\ free' = free \ {d, t, s} /\ count' = CountAfterFork(p, {d, t, s})
      /\ mem' \in [Frame -> Value]
      /\ pgdir' \in [Owner -> Frame \cup {NoFrame}]
      /\ \A q \in Owner : pgdir'[q] = IF q = c THEN d ELSE pgdir[q]
      /\ table' \in [Owner -> [Region -> Frame \cup {NoFrame}]]
      /\ \A q \in Owner, w \in Region :
           table'[q][w] = IF q = c /\ w = "prog" THEN t ELSE table[q][w]
      /\ map' \in [Owner -> [Page -> Frame \cup {NoFrame}]]
      /\ \A q \in Owner, u \in Page :
           map'[q][u] = IF q # c THEN map[q][u] ELSE IF u \in VPage THEN map[p][u]
                        ELSE IF u = Stack THEN s ELSE NoFrame
  <2>1. map[p][Stack] \in Frame
    BY <1>1, InvParts
  <2>2. free' = free \ {d, t, s} /\ count' = CountAfterFork(p, {d, t, s})
    BY <1>2 DEF ForkTakes
  <2>3. mem' \in [Frame -> Value]
    BY <1>2, <2>1, InvParts DEF ForkTakes
  <2>4. /\ pgdir' \in [Owner -> Frame \cup {NoFrame}]
        /\ \A q \in Owner : pgdir'[q] = IF q = c THEN d ELSE pgdir[q]
    BY <1>2, InvParts DEF ForkTakes
  <2>5. /\ table' \in [Owner -> [Region -> Frame \cup {NoFrame}]]
        /\ \A q \in Owner, w \in Region :
             table'[q][w] = IF q = c /\ w = "prog" THEN t ELSE table[q][w]
    BY <1>2, InvParts DEF ForkTakes
  <2>6. /\ map' \in [Owner -> [Page -> Frame \cup {NoFrame}]]
        /\ \A q \in Owner, u \in Page :
             map'[q][u] = IF q # c THEN map[q][u] ELSE IF u \in VPage THEN map[p][u]
                          ELSE IF u = Stack THEN s ELSE NoFrame
    BY <1>2, InvParts DEF ForkTakes
  <2> QED
    BY <2>2, <2>3, <2>4, <2>5, <2>6
<1>4. /\ \A q \in Owner : writable'[q] = IF q = c THEN {Stack}
                                        ELSE IF q = p THEN writable[p] \ VPage ELSE writable[q]
      /\ writable' \in [Owner -> SUBSET Page]
  <2>1. writable \in [Owner -> SUBSET Page] /\ Stack \in Page /\ p \in Owner
    BY InvParts
  <2> QED
    BY ONLY <1>0, <1>1, <2>1
<1>5. /\ \A u \in Page : map[c][u] = NoFrame
      /\ \A w \in Region : table[c][w] = NoFrame
      /\ pgdir[c] = NoFrame
  BY <1>1, InvParts DEF Blank
<1>6. /\ hd \in Holder /\ ht \in Holder /\ hs \in Holder /\ hd # ht /\ hd # hs /\ ht # hs
      /\ hd \notin H /\ ht \notin H /\ hs \notin H /\ H \in SUBSET Holder
      /\ Leads[hd] = NoFrame /\ Leads[ht] = NoFrame /\ Leads[hs] = NoFrame
      /\ \A h \in H : Leads[h] = NoFrame
  <2>1. /\ hd \in Holder /\ ht \in Holder /\ hs \in Holder
        /\ Leads[hd] = NoFrame /\ Leads[ht] = NoFrame /\ Leads[hs] = NoFrame
    <3>1. c \in Owner /\ Stack \in Page /\ "prog" \in Region
      OBVIOUS
    <3>2. hd \in Holder /\ Leads[hd] = pgdir[c]
      BY <3>1, HolderIs, LeadsIs
    <3>3. ht \in Holder /\ Leads[ht] = table[c]["prog"]
      BY <3>1, HolderIs, LeadsIs
    <3>4. hs \in Holder /\ Leads[hs] = map[c][Stack]
      BY <3>1, HolderIs, LeadsIs
    <3> QED
      BY <1>5, <3>1, <3>2, <3>3, <3>4
  <2>2. hd # ht /\ hd # hs /\ ht # hs /\ hd \notin H /\ ht \notin H /\ hs \notin H
    BY DEF PagesOf
  <2>3. H \in SUBSET Holder
    BY PagesOfIs
  <2>4. ASSUME NEW h \in H PROVE Leads[h] = NoFrame
    <3>1. PICK u \in VPage : h = <<"page", c, u>>
      BY DEF PagesOf
    <3>2. Leads[<<"page", c, u>>] = map[c][u] /\ map[c][u] = NoFrame
      BY <1>5, LeadsIs
    <3> QED
      BY <3>1, <3>2
  <2> QED
    BY <2>1, <2>2, <2>3, <2>4
<1>7. /\ \A q \in Owner, u \in Page : <<"page", q, u>> \in H <=> q = c /\ u \in VPage
      /\ \A h \in H : h \in Holder /\ h[1] = "page" /\ h[2] = c /\ h[3] \in VPage
                      /\ h = <<"page", c, h[3]>> /\ h[3] \in Page
  BY PagesOfIs DEF PagesOf, Holder
<1>8. PICK L1, L2, c1, c2 :
        /\ L1 = [Leads EXCEPT ![hd] = d] /\ L2 = [L1 EXCEPT ![ht] = t]
        /\ c1 = [count EXCEPT ![d] = 1] /\ c2 = [c1 EXCEPT ![t] = 1]
  OBVIOUS
<1>9. /\ \A h \in Holder : L2[h] = IF h = hd THEN d ELSE IF h = ht THEN t ELSE Leads[h]
      /\ L1[ht] = NoFrame /\ L2 \in [Holder -> Frame \cup {NoFrame}]
  BY <1>2, <1>6, <1>8, InvParts
<1>10. PICK L3 : L3 = [h \in Holder |-> IF h \in H THEN map[p][h[3]] ELSE L2[h]]
  OBVIOUS
<1>11. L3 \in [Holder -> Frame \cup {NoFrame}]
  BY <1>7, <1>9, <1>10, InvParts
<1>12. PICK L4 : L4 = [L3 EXCEPT ![hs] = s]
  OBVIOUS
<1>13. \A h \in Holder : L4[h] = IF h = hs THEN s ELSE IF h \in H THEN map[p][h[3]]
                                 ELSE IF h = hd THEN d ELSE IF h = ht THEN t ELSE Leads[h]
  BY <1>6, <1>9, <1>10, <1>11, <1>12
<1>14. L4 = Leads'
  <2>1. L4 = [h \in Holder |-> L4[h]]
    BY <1>11, <1>12
  <2>2. ASSUME NEW q \in Owner, NEW u \in Page
        PROVE  L4[<<"page", q, u>>] = map'[q][u]
    <3>1. <<"page", q, u>> \in Holder /\ Leads[<<"page", q, u>>] = map[q][u]
      BY HolderIs, LeadsIs
    <3>2. <<"page", q, u>> = hs <=> q = c /\ u = Stack
      OBVIOUS
    <3>3. <<"page", q, u>> # hd /\ <<"page", q, u>> # ht /\ <<"page", q, u>>[3] = u
      OBVIOUS
    <3>4. <<"page", q, u>> \in H <=> q = c /\ u \in VPage
      BY <1>7
    <3>5. L4[<<"page", q, u>>] = IF q = c /\ u = Stack THEN s ELSE IF q = c /\ u \in VPage
                                 THEN map[p][u] ELSE map[q][u]
      <4> HIDE DEF hs, hd, ht, H
      <4> QED
        BY <1>13, <3>1, <3>2, <3>3, <3>4
    <3>6. map'[q][u] = IF q # c THEN map[q][u] ELSE IF u \in VPage THEN map[p][u]
                       ELSE IF u = Stack THEN s ELSE NoFrame
      BY <1>3
    <3>7. q = c => map[q][u] = NoFrame
      BY <1>5
    <3> QED
      BY <3>5, <3>6, <3>7
  <2>3. ASSUME NEW q \in Owner, NEW w \in Region
        PROVE  L4[<<"table", q, w>>] = table'[q][w]
    <3>1. <<"table", q, w>> \in Holder /\ Leads[<<"table", q, w>>] = table[q][w]
      BY HolderIs, LeadsIs
    <3>2. <<"table", q, w>> = ht <=> q = c /\ w = "prog"
      OBVIOUS
    <3>3. <<"table", q, w>> # hd /\ <<"table", q, w>> # hs /\ <<"table", q, w>> \notin H
      BY <1>7
    <3>4. table'[q][w] = IF q = c /\ w = "prog" THEN t ELSE table[q][w]
      BY <1>3
    <3> HIDE DEF hs, hd, ht, H
    <3> QED
      BY <1>13, <3>1, <3>2, <3>3, <3>4
  <2>4. ASSUME NEW q \in Owner
        PROVE  L4[<<"dir", q, "dir">>] = pgdir'[q]
    <3>1. <<"dir", q, "dir">> \in Holder /\ Leads[<<"dir", q, "dir">>] = pgdir[q]
      BY HolderIs, LeadsIs
    <3>2. <<"dir", q, "dir">> = hd <=> q = c
      OBVIOUS
    <3>3. <<"dir", q, "dir">> # ht /\ <<"dir", q, "dir">> # hs /\ <<"dir", q, "dir">> \notin H
      BY <1>7
    <3>4. pgdir'[q] = IF q = c THEN d ELSE pgdir[q]
      BY <1>3
    <3> HIDE DEF hs, hd, ht, H
    <3> QED
      BY <1>13, <3>1, <3>2, <3>3, <3>4
  <2> QED
    BY <2>1, <2>2, <2>3, <2>4, SameLeads, LeadsNext
<1>15. /\ Exact(L2, c2, (free \ {d}) \ {t}, lost) /\ Shared(L2, writable)
  <2>1. \A h : Grants(writable, writable, {h})
    BY DEF Grants
  <2> HIDE DEF hd, ht
  <2>2. Exact(L1, c1, free \ {d}, lost) /\ Shared(L1, writable)
    BY <1>6, <1>8, <2>1, InvParts, ExactMap
  <2>3. t \in free \ {d}
    BY <1>2
  <2> QED
    BY <1>6, <1>8, <1>9, <2>1, <2>2, <2>3, ExactMap
<1>16. \A h \in Holder : L3[h] = IF h \in H THEN map[p][h[3]] ELSE L2[h]
  BY <1>10
<1>17. \A u \in Page : <<"page", p, u>> \in Holder \ H /\ Leads[<<"page", p, u>>] = map[p][u]
                       /\ L2[<<"page", p, u>>] = map[p][u]
  <2> SUFFICES ASSUME NEW u \in Page
               PROVE  <<"page", p, u>> \in Holder \ H /\ Leads[<<"page", p, u>>] = map[p][u]
                      /\ L2[<<"page", p, u>>] = map[p][u]
    OBVIOUS
  <2>1. <<"page", p, u>> \in Holder /\ Leads[<<"page", p, u>>] = map[p][u]
    BY HolderIs, LeadsIs
  <2>2. <<"page", p, u>> # hd /\ <<"page", p, u>> # ht
    OBVIOUS
  <2> HIDE DEF hd, ht, H
  <2>3. <<"page", p, u>> \notin H
    BY <1>1, <1>7
  <2> QED
    BY <1>9, <2>1, <2>2, <2>3
<1>18. LedTo(L3, H) = FramesOf(p, VPage)
  <2>1. ASSUME NEW f \in LedTo(L3, H) PROVE f \in FramesOf(p, VPage)
    <3>1. PICK h \in H : f = L3[h] /\ f # NoFrame
      BY DEF LedTo
    <3>2. h[3] \in VPage /\ f = map[p][h[3]]
      BY <1>7, <1>16, <3>1
    <3> QED
      BY <3>1, <3>2 DEF FramesOf, MappedIn, Mapped
  <2>2. ASSUME NEW f \in FramesOf(p, VPage) PROVE f \in LedTo(L3, H)
    <3>1. PICK u \in VPage : f = map[p][u] /\ f # NoFrame
      BY DEF FramesOf, MappedIn, Mapped
    <3>2. PICK h \in H : h = <<"page", c, u>>
      BY <1>7
    <3>3. L3[h] = f
      BY <1>7, <1>16, <3>1, <3>2
    <3> QED
      BY <3>1, <3>3 DEF LedTo
  <2> QED
    BY <2>1, <2>2
<1>19. Exact(L3, More(c2, FramesOf(p, VPage)), (free \ {d}) \ {t}, lost)
  <2>1. L2 = Without(L3, H)
    <3>1. \A h \in Holder : L2[h] = IF h \in H THEN NoFrame ELSE L3[h]
      BY <1>6, <1>9, <1>16
    <3> QED
      BY <1>9, <3>1 DEF Without
  <2>2. ASSUME NEW h \in H, NEW k \in H, h # k, L3[h] = L3[k], L3[h] # NoFrame
        PROVE  FALSE
    <3>1. h[3] \in Page /\ k[3] \in Page /\ h[3] # k[3] /\ map[p][h[3]] = map[p][k[3]]
          /\ map[p][h[3]] # NoFrame
      BY <1>7, <1>16, <2>2
    <3>2. PICK x, y : x = <<"page", p, h[3]>> /\ y = <<"page", p, k[3]>>
      OBVIOUS
    <3>3. x \in Holder /\ y \in Holder /\ x # y /\ Leads[x] = Leads[y] /\ Leads[x] # NoFrame
      BY <1>17, <3>1, <3>2
    <3>4. x[3] = y[3]
      BY <3>3, InvParts DEF Shared
    <3> QED
      BY <3>1, <3>2, <3>4
  <2>3. ASSUME NEW h \in H PROVE \E k \in Holder : L2[k] = L3[h]
    <3>1. L3[h] = map[p][h[3]] /\ h[3] \in Page
      BY <1>7, <1>16
    <3>2. PICK k : k = <<"page", p, h[3]>>
      OBVIOUS
    <3>3. k \in Holder /\ L2[k] = L3[h]
      BY <1>17, <3>1, <3>2
    <3> QED
      BY <3>3
  <2> QED
    BY <1>6, <1>11, <1>15, <1>18, <2>1, <2>2, <2>3, ExactJoin
<1>20. Shared(L3, writable')
  <2>1. \A v \in VPage : L3[<<"page", c, v>>] = L2[<<"page", p, v>>]
    <3> SUFFICES ASSUME NEW v \in VPage PROVE L3[<<"page", c, v>>] = L2[<<"page", p, v>>]
      OBVIOUS
    <3>1. PICK h \in H : h = <<"page", c, v>>
      BY <1>7
    <3>2. L3[h] = map[p][v]
      BY <1>7, <1>16, <3>1
    <3> QED
      BY <1>17, <3>1, <3>2
  <2>2. \A h \in Holder : h \notin {"page"} \X {c} \X VPage => L3[h] = L2[h]
    BY <1>16 DEF PagesOf
  <2>3. Protects(writable', writable, p, c)
    BY <1>1, <1>4 DEF Protects
  <2>4. Joins(L3, L2, p, c)
    BY <2>1, <2>2 DEF Joins
  <2> QED
    BY <1>1, <1>15, <2>3, <2>4, SharedJoin
<1>21. Exact(L4, count', free', lost') /\ Shared(L4, writable')
  <2>1. PICK c3, fr : c3 = More(c2, FramesOf(p, VPage)) /\ fr = (free \ {d}) \ {t}
    OBVIOUS
  <2>2. s \in fr /\ L3[hs] = NoFrame
    BY <1>2, <1>6, <1>9, <1>16, <2>1
  <2>3. Grants(writable', writable', {hs})
    BY DEF Grants
  <2>4. Exact(L4, [c3 EXCEPT ![s] = 1], fr \ {s}, lost) /\ Shared(L4, writable')
    <3> HIDE DEF hs
    <3> QED
      BY <1>6, <1>12, <1>19, <1>20, <2>1, <2>2, <2>3, ExactMap
  <2>5. fr \ {s} = free'
    BY <1>3, <2>1
  <2>6. [c3 EXCEPT ![s] = 1] = count'
    <3>1. /\ count \in [Frame -> Nat]
          /\ \A f \in Frame : c2[f] = IF f = t \/ f = d THEN 1 ELSE count[f]
      BY <1>2, <1>8, InvParts
    <3>2. \A f \in FramesOf(p, VPage) : f # d /\ f # t /\ f # s
      <4>1. ASSUME NEW f \in FramesOf(p, VPage) PROVE \E h \in Holder : Leads[h] = f
        <5>1. PICK u \in Page : f = map[p][u]
          BY DEF FramesOf, MappedIn
        <5> QED
          BY <1>17, <5>1
      <4> QED
        BY <4>1, InvParts, Unused
    <3>3. /\ c3 = [f \in Frame |-> IF f \in FramesOf(p, VPage) THEN c2[f] + 1 ELSE c2[f]]
          /\ count' = [f \in Frame |-> IF f \in {d, t, s} THEN 1
                         ELSE IF f \in FramesOf(p, VPage) THEN count[f] + 1 ELSE count[f]]
      BY <1>3, <2>1 DEF More, CountAfterFork
    <3>4. \A f \in Frame : [c3 EXCEPT ![s] = 1][f] = count'[f]
      BY <1>2, <3>1, <3>2, <3>3
    <3> QED
      BY <3>3, <3>4
  <2> QED
    BY <2>4, <2>5, <2>6
<1>22. free' \subseteq Frame /\ count' \in [Frame -> Nat]
  BY <1>21 DEF Exact
<1>23. Blank'
  <2>1. ASSUME NEW q \in Proc, slot'[q] # "live"
        PROVE  /\ writable'[q] = {} /\ pgdir'[q] = NoFrame
               /\ \A r \in Region : table'[q][r] = NoFrame
               /\ \A v \in Page : map'[q][v] = NoFrame
    <3>1. q \in Owner /\ q # c /\ q # p /\ slot[q] # "live"
      BY <1>1, <2>1, InvParts
    <3>2. /\ writable[q] = {} /\ pgdir[q] = NoFrame
          /\ \A r \in Region : table[q][r] = NoFrame
          /\ \A v \in Page : map[q][v] = NoFrame
      BY <3>1, InvParts DEF Blank
    <3> QED
      BY <1>3, <1>4, <3>1, <3>2
  <2>2. ASSUME NEW q \in Proc
        PROVE  table'[q]["kernel"] = NoFrame /\ \A v \in Common : map'[q][v] = NoFrame
    <3>1. /\ q \in Owner /\ "kernel" \in Region
          /\ table[q]["kernel"] = NoFrame /\ \A v \in Common : map[q][v] = NoFrame
      BY InvParts DEF Blank
    <3> QED
      BY <1>3, <3>1
  <2> QED
    BY <2>1, <2>2 DEF Blank
<1>24. WritableMapped'
  <2> SUFFICES ASSUME NEW q \in Owner, NEW u \in writable'[q] PROVE map'[q][u] # NoFrame
    BY DEF WritableMapped
  <2>1. CASE q = c
    BY <1>2, <1>3, <1>4, <2>1
  <2>2. CASE q # c
    <3>1. u \in writable[q] /\ u \in Page
      BY <1>4, <2>2, InvParts
    <3>2. map[q][u] # NoFrame
      BY <3>1, InvParts DEF WritableMapped
    <3> QED
      BY <1>3, <2>2, <3>1, <3>2
  <2> QED
    BY <2>1, <2>2
<1>25. /\ slot' \in [Proc -> {"free", "live", "lost"}]
       /\ \A q \in Proc : slot'[q] = "live" => pgdir'[q] # NoFrame /\ table'[q]["prog"] # NoFrame
  BY <1>1, <1>2, <1>3, InvParts
<1>26. pgdir'[Kernel] = NoFrame
  BY <1>0, <1>3, InvParts
<1> QED
  BY <1>26, <1>3, <1>4, <1>14, <1>21, <1>22, <1>23, <1>24, <1>25, InvParts, InvAfter

(* The places of one process never share a frame. *)
LEMMA OneProcess ==
  ASSUME Inv, NEW p \in Owner, NEW H \in SUBSET Holder, \A h \in H : h[2] = p
  PROVE  \A h, k \in H : h # k /\ Leads[h] = Leads[k] => Leads[h] = NoFrame
<1> SUFFICES ASSUME NEW h \in H, NEW k \in H, h # k, Leads[h] = Leads[k], Leads[h] # NoFrame
             PROVE  FALSE
  OBVIOUS
<1>1. h \in Holder /\ k \in Holder /\ h[2] = k[2]
  OBVIOUS
<1>2. h[1] = "page" /\ k[1] = "page" /\ h[3] = k[3]
  BY <1>1, InvParts DEF Shared
<1> QED
  BY <1>1, <1>2, HolderIs

LEMMA InvExit ==
  ASSUME Inv, NEW p \in Proc, Exit(p)
  PROVE  Inv'
<1> USE Names
<1> DEFINE D == ReleasedByExit(p)
           hd == <<"dir", p, "dir">>
           ht == <<"table", p, "prog">>
           ho == <<"table", p, "outside">>
           H == PagesOf(p, Prog) \cup {ht, hd}
           G == PagesOf(p, Outside) \cup {ho}
<1>0. p \in Owner /\ p # Kernel /\ Prog \in SUBSET Page /\ Outside \in SUBSET Page
  OBVIOUS
<1>1. /\ free' = free \cup Freed(D) /\ count' = CountAfter(D) /\ mem' = MemAfter(D)
      /\ slot[p] = "live" /\ slot' = [slot EXCEPT ![p] = "free"]
      /\ pgdir' = [pgdir EXCEPT ![p] = NoFrame]
      /\ table' = [table EXCEPT ![p] = [r \in Region |-> NoFrame]]
      /\ map' = [map EXCEPT ![p] = [v \in Page |-> NoFrame]]
      /\ writable' = [writable EXCEPT ![p] = {}]
      /\ lost' = lost \cup LeftBehind(p) /\ halted' = halted /\ wild' = wild
  BY DEF Exit, Ready
<1>2. /\ \A q \in Owner, u \in Page : map'[q][u] = IF q = p THEN NoFrame ELSE map[q][u]
      /\ \A q \in Owner, r \in Region : table'[q][r] = IF q = p THEN NoFrame ELSE table[q][r]
      /\ \A q \in Owner : pgdir'[q] = IF q = p THEN NoFrame ELSE pgdir[q]
      /\ \A q \in Owner : writable'[q] = IF q = p THEN {} ELSE writable[q]
      /\ \A q \in Proc : slot'[q] = IF q = p THEN "free" ELSE slot[q]
  BY <1>1, InvParts
<1>3. /\ hd \in Holder /\ Leads[hd] = pgdir[p] /\ ht \in Holder /\ Leads[ht] = table[p]["prog"]
      /\ ho \in Holder /\ Leads[ho] = table[p]["outside"]
  <2>1. "prog" \in Region /\ "outside" \in Region
    OBVIOUS
  <2>2. hd \in Holder /\ Leads[hd] = pgdir[p]
    BY HolderIs, LeadsIs
  <2>3. ht \in Holder /\ Leads[ht] = table[p]["prog"]
    BY <2>1, HolderIs, LeadsIs
  <2>4. ho \in Holder /\ Leads[ho] = table[p]["outside"]
    BY <2>1, HolderIs, LeadsIs
  <2> QED
    BY <2>2, <2>3, <2>4
<1>4. H \in SUBSET Holder /\ \A h \in H : h[2] = p
  <2>1. H \in SUBSET Holder
    BY <1>3, PagesOfIs
  <2>2. \A h \in PagesOf(p, Prog) : h[2] = p
    BY DEF PagesOf
  <2> QED
    BY <2>1, <2>2
<1>5. G \in SUBSET Holder /\ G \cap H = {}
  <2>1. G \in SUBSET Holder
    BY <1>3, PagesOfIs
  <2>2. PagesOf(p, Outside) \cap PagesOf(p, Prog) = {}
    BY ConstantsAssumption DEF PagesOf
  <2>3. hd \notin G /\ ht \notin G /\ ho \notin H
    BY DEF PagesOf
  <2> QED
    BY <2>1, <2>2, <2>3
<1>6. PICK L : L = Without(Leads, H)
  OBVIOUS
<1>7. /\ L = [h \in Holder |-> L[h]]
      /\ \A h \in Holder : L[h] = IF h \in H THEN NoFrame ELSE Leads[h]
  BY <1>6 DEF Without
<1>8. LedTo(Leads, H) = D
  <2>1. LedTo(Leads, H) = LedTo(Leads, PagesOf(p, Prog)) \cup ({Leads[ht], Leads[hd]} \ {NoFrame})
    BY DEF LedTo
  <2>2. LedTo(Leads, PagesOf(p, Prog)) = FramesOf(p, Prog)
    BY PagesOfIs
  <2> QED
    BY <1>3, <2>1, <2>2 DEF ReleasedByExit
<1>9. Exact(L, count', free', lost)
  <2> HIDE DEF H, D
  <2>1. Exact(L, Fewer(count, D), free \cup Lasts(count, D), lost)
    <3>1. Exact(Leads, count, free, lost) /\ p \in Owner
      BY InvParts
    <3>2. \A h, k \in H : h # k /\ Leads[h] = Leads[k] => Leads[h] = NoFrame
      BY ONLY Inv, <1>4, <3>1, OneProcess
    <3> QED
      BY ONLY <1>4, <1>6, <1>8, <3>1, <3>2, ExactLeave
  <2> QED
    BY <1>1, <2>1, Release
<1>10. Shared(L, writable')
  <2>1. Grants(writable, writable', H)
    BY <1>2 DEF Grants
  <2> HIDE DEF H
  <2> QED
    BY <1>6, <2>1, InvParts, SharedLeave
<1>11. PICK K : K = Without(L, G)
  OBVIOUS
<1>12. Shared(K, writable')
  <2>1. Grants(writable', writable', G)
    BY DEF Grants
  <2> HIDE DEF G
  <2> QED
    BY <1>10, <1>11, <2>1, SharedLeave
<1>13. LedTo(L, G) = LeftBehind(p)
  <2>1. \A h \in G : L[h] = Leads[h]
    BY <1>5, <1>7
  <2>2. LedTo(L, G) = LedTo(Leads, G)
    BY <2>1 DEF LedTo
  <2>3. LedTo(Leads, G) = LedTo(Leads, PagesOf(p, Outside)) \cup ({Leads[ho]} \ {NoFrame})
    BY DEF LedTo
  <2>4. LedTo(Leads, PagesOf(p, Outside)) = FramesOf(p, Outside)
    BY PagesOfIs
  <2> QED
    BY <1>3, <2>2, <2>3, <2>4 DEF LeftBehind
<1>14. Exact(K, count', free', lost')
  <2>1. ASSUME NEW h \in G, NEW k \in Holder, h # k, L[h] = L[k], L[h] # NoFrame
        PROVE  FALSE
    <3>1. h \in Holder
      BY <1>5
    <3>2. h[1] = "page" /\ h[3] \in VPage
      BY <1>10, <2>1, <3>1 DEF Shared
    <3>3. h \in PagesOf(p, Outside)
      BY <3>2
    <3>4. h[3] \in Outside
      BY <3>3 DEF PagesOf
    <3> QED
      BY <3>2, <3>4
  <2> HIDE DEF G
  <2>2. Exact(K, count', free', lost \cup LedTo(L, G))
    BY <1>5, <1>9, <1>11, <2>1, ExactAbandon
  <2> QED
    BY <1>1, <1>13, <2>2
<1>15. /\ K = [h \in Holder |-> K[h]]
       /\ \A h \in Holder : K[h] = IF h \in H \cup G THEN NoFrame ELSE Leads[h]
  BY <1>7, <1>11 DEF Without
<1>16. K = Leads'
  <2>1. ASSUME NEW q \in Owner, NEW u \in Page
        PROVE  K[<<"page", q, u>>] = map'[q][u]
    <3>1. <<"page", q, u>> \in Holder /\ Leads[<<"page", q, u>>] = map[q][u]
      BY HolderIs, LeadsIs
    <3>2. <<"page", q, u>> \in H \cup G <=> q = p /\ u \notin Common
      BY DEF PagesOf
    <3>3. q = p /\ u \in Common => map[q][u] = NoFrame
      BY InvParts DEF Blank
    <3> HIDE DEF H, G
    <3> QED
      BY <1>2, <1>15, <3>1, <3>2, <3>3
  <2>2. ASSUME NEW q \in Owner, NEW r \in Region
        PROVE  K[<<"table", q, r>>] = table'[q][r]
    <3>1. <<"table", q, r>> \in Holder /\ Leads[<<"table", q, r>>] = table[q][r]
      BY HolderIs, LeadsIs
    <3>2. <<"table", q, r>> \in H \cup G <=> q = p /\ r # "kernel"
      BY DEF PagesOf
    <3>3. q = p /\ r = "kernel" => table[q][r] = NoFrame
      BY InvParts DEF Blank
    <3> HIDE DEF H, G
    <3> QED
      BY <1>2, <1>15, <3>1, <3>2, <3>3
  <2>3. ASSUME NEW q \in Owner
        PROVE  K[<<"dir", q, "dir">>] = pgdir'[q]
    <3>1. <<"dir", q, "dir">> \in Holder /\ Leads[<<"dir", q, "dir">>] = pgdir[q]
      BY HolderIs, LeadsIs
    <3>2. <<"dir", q, "dir">> \in H \cup G <=> q = p
      BY DEF PagesOf
    <3> HIDE DEF H, G
    <3> QED
      BY <1>2, <1>15, <3>1, <3>2
  <2> QED
    BY <1>15, <2>1, <2>2, <2>3, SameLeads, LeadsNext
<1>17. free' \subseteq Frame /\ count' \in [Frame -> Nat] /\ lost' \subseteq Frame
  BY <1>14 DEF Exact
<1>18. mem' \in [Frame -> Value]
  BY <1>1, MemAfterType
<1>19. /\ slot' \in [Proc -> {"free", "live", "lost"}]
       /\ pgdir' \in [Owner -> Frame \cup {NoFrame}]
       /\ table' \in [Owner -> [Region -> Frame \cup {NoFrame}]]
       /\ map' \in [Owner -> [Page -> Frame \cup {NoFrame}]]
       /\ writable' \in [Owner -> SUBSET Page] /\ halted' \in BOOLEAN /\ wild' \in BOOLEAN
       /\ pgdir'[Kernel] = NoFrame
  BY <1>0, <1>1, InvParts
<1>20. Blank' /\ WritableMapped'
  <2>1. Blank'
    BY <1>2, InvParts DEF Blank
  <2>2. ASSUME NEW q \in Owner, NEW u \in writable'[q]
        PROVE  map'[q][u] # NoFrame
    <3>1. q # p /\ u \in writable[q] /\ u \in Page
      BY <1>2, InvParts
    <3>2. map[q][u] # NoFrame
      BY <3>1, InvParts DEF WritableMapped
    <3> QED
      BY <1>2, <3>1, <3>2
  <2> QED
    BY <2>1, <2>2 DEF WritableMapped
<1>21. \A q \in Proc : slot'[q] = "live" => pgdir'[q] # NoFrame /\ table'[q]["prog"] # NoFrame
  BY <1>2, InvParts
<1> HIDE DEF D, H, G, hd, ht, ho
<1> QED
  BY <1>12, <1>14, <1>16, <1>17, <1>18, <1>19, <1>20, <1>21, InvAfter

(* A store has gone into the kernel's own memory: nothing is known but     *)
(* that nothing follows.                                                   *)
Broken == TypeOK /\ wild /\ halted

LEMMA DamageBreaks ==
  ASSUME Inv, NEW W \in SUBSET Frame, NEW fr \in SUBSET Frame, NEW ct \in [Frame -> Nat],
         Damage(W, fr, ct)
  PROVE  Broken'
<1>1. free' \subseteq Frame /\ count' \in [Frame -> Nat]
  BY DEF Damage
<1>2. mem' \in [Frame -> Value]
  BY InvParts DEF Damage
<1>3. wild' /\ halted' /\ wild' \in BOOLEAN /\ halted' \in BOOLEAN
  BY DEF Damage
<1>4. UNCHANGED <<slot, pgdir, table, map, writable, lost>>
  BY DEF Damage
<1>5. TypeOK'
  BY <1>1, <1>2, <1>3, <1>4, InvParts DEF TypeOK, Live
<1> QED
  BY <1>3, <1>5 DEF Broken

LEMMA KernelOverwrittenBreaks ==
  ASSUME Inv, NEW p \in Proc, KernelOverwritten(p)
  PROVE  Inv' \/ Broken'
<1> USE Names
<1>1. CASE Halt
  BY <1>1, InvHalt
<1>2. ASSUME NEW f \in Candidates(free), Damage(Huge, free \ {f}, [count EXCEPT ![f] = 1])
      PROVE  Broken'
  <2>1. PICK fr, ct : fr = free \ {f} /\ ct = [count EXCEPT ![f] = 1]
    OBVIOUS
  <2>2. fr \in SUBSET Frame /\ ct \in [Frame -> Nat] /\ Huge \in SUBSET Frame
    BY <2>1, InvParts, ConstantsAssumption
  <2>3. Damage(Huge, fr, ct)
    BY <1>2, <2>1
  <2> QED
    BY <2>2, <2>3, DamageBreaks
<1>3. CASE Damage(Frame, free, count)
  BY <1>3, InvParts, DamageBreaks
<1> QED
  BY <1>1, <1>2, <1>3 DEF KernelOverwritten

LEMMA InvNext == Inv /\ [Next]_vars => Inv' \/ Broken'
<1> SUFFICES ASSUME Inv, [Next]_vars PROVE Inv' \/ Broken'
  OBVIOUS
<1>1. ASSUME NEW p \in Proc, NEW v \in Page, NEW x \in Value,
             UserStore(p, v, x) \/ KernelStore(p, v, x)
      PROVE  Inv'
  BY <1>1, InvUserStore, InvKernelStore
<1>2. ASSUME NEW p \in Proc, NEW v \in Page, NotPresentFault(p, v) \/ CowFault(p, v)
      PROVE  Inv'
  BY <1>2, InvNotPresent, InvCowFault
<1>3. ASSUME NEW p \in Proc, Fork(p)
      PROVE  Inv'
  <2>1. CASE ForkNoSlot(p)
    BY <2>1, InvHalt DEF ForkNoSlot
  <2>2. ASSUME NEW c \in Proc, ForkNoDirectory(p, c)
        PROVE  Inv'
    BY <2>2, InvForkNoDirectory
  <2>3. ASSUME NEW c \in Proc, ForkPanic(p, c)
        PROVE  Inv'
    BY <2>3, InvHalt DEF ForkPanic
  <2>4. ASSUME NEW c \in Proc, ForkOK(p, c)
        PROVE  Inv'
    <3>1. slot[p] = "live" /\ UNCHANGED <<halted, wild, lost>>
      BY <1>3, <2>4 DEF Fork, Ready, ForkOK
    <3> QED
      BY <2>4, <3>1, InvForkOK
  <2> QED
    BY <1>3, <2>1, <2>2, <2>3, <2>4 DEF Fork
<1>4. ASSUME NEW p \in Proc, NEW v \in VPage, NEW x \in Value, ExecOK(p, v, x)
      PROVE  Inv'
  BY <1>4, InvExecOK
<1>5. ASSUME NEW p \in Proc, FileCall(p) \/ ExecRejected(p) \/ ExecPanic(p) \/ Exit(p)
      PROVE  Inv'
  BY <1>5, InvFileCall, InvExecRejected, InvHalt, InvExit DEF ExecPanic
<1>6. ASSUME NEW p \in Proc, KernelOverwritten(p)
      PROVE  Inv' \/ Broken'
  BY <1>6, KernelOverwrittenBreaks
<1>7. CASE UNCHANGED vars
  BY <1>7, InvParts, InvSame DEF vars
<1> QED
  BY <1>1, <1>2, <1>3, <1>4, <1>5, <1>6, <1>7 DEF Next

(* A halted kernel takes no step. *)
LEMMA HaltedStays ==
  ASSUME halted = TRUE, [Next]_vars
  PROVE  UNCHANGED vars
<1>1. \A p \in Proc : ~Ready(p)
  BY DEF Ready
<1> QED
  BY <1>1 DEF Next, UserStore, KernelStore, FileCall, NotPresentFault, CowFault,
              KernelOverwritten, Fork, ExecOK, ExecRejected, ExecPanic, Exit

LEMMA BrokenNext == Broken /\ [Next]_vars => Broken'
<1> SUFFICES ASSUME Broken, [Next]_vars PROVE Broken'
  OBVIOUS
<1>1. UNCHANGED vars
  BY HaltedStays DEF Broken, TypeOK
<1> QED
  BY <1>1 DEF Broken, TypeOK, vars, Live

LEMMA InvAlways == Spec => [](Inv \/ Broken)
<1>1. Init => Inv \/ Broken
  BY InvInit
<1>2. (Inv \/ Broken) /\ [Next]_vars => (Inv \/ Broken)'
  BY InvNext, BrokenNext
<1> QED
  BY <1>1, <1>2, PTL DEF Spec

------------------------------------------------------------------------------
(* What References counts are the places that lead to a frame. *)

LEMMA ReferencesAre ==
  ASSUME NEW f \in Frame
  PROVE  References(f) = Cardinality(Users(Leads, f))
<1> DEFINE U == Users(Leads, f)
           P == {pv \in Owner \X Page : map[pv[1]][pv[2]] = f}
           T == {pr \in Owner \X Region : table[pr[1]][pr[2]] = f}
           D == {p \in Owner : pgdir[p] = f}
           UP == {h \in U : h[1] = "page"}
           UT == {h \in U : h[1] = "table"}
           UD == {h \in U : h[1] = "dir"}
<1>1. IsFiniteSet(U)
  BY UsersFinite
<1>2. \A h \in U : h \in Holder /\ Leads[h] = f
  BY DEF Users
<1>3. \A h \in Holder : Leads[h] = f => h \in U
  BY DEF Users
<1> HIDE DEF U
<1>4. IsFiniteSet(UP) /\ IsFiniteSet(UT) /\ IsFiniteSet(UD)
  BY <1>1, FS_Subset
<1>5. Cardinality(P) = Cardinality(UP)
  <2> DEFINE b == [h \in UP |-> <<h[2], h[3]>>]
  <2>1. ASSUME NEW h \in UP
        PROVE  \E p \in Owner, v \in Page : h = <<"page", p, v>> /\ map[p][v] = f
    <3>1. h \in Holder /\ h[1] = "page"
      BY <1>2
    <3>2. PICK p \in Owner, v \in Page : h = <<"page", p, v>>
      BY <3>1, HolderIs
    <3> QED
      BY <1>2, <3>2, LeadsIs
  <2>2. ASSUME NEW z \in P
        PROVE  <<"page", z[1], z[2]>> \in UP /\ b[<<"page", z[1], z[2]>>] = z
    <3>1. PICK p \in Owner, v \in Page : z = <<p, v>> /\ map[p][v] = f
      OBVIOUS
    <3>2. PICK h \in Holder : h = <<"page", p, v>> /\ Leads[h] = f
      BY <3>1, HolderIs, LeadsIs
    <3>3. h \in UP
      BY <1>3, <3>2
    <3> QED
      BY <3>1, <3>2, <3>3
  <2>3. b \in [UP -> P]
    BY <2>1
  <2>4. \A h, k \in UP : b[h] = b[k] => h = k
    BY <2>1
  <2> HIDE DEF P, UP, b
  <2>5. b \in Bijection(UP, P)
    BY <2>2, <2>3, <2>4 DEF Bijection, Injection, Surjection, IsInjective
  <2> QED
    BY <1>4, <2>5, FS_Bijection DEF ExistsBijection
<1>6. Cardinality(T) = Cardinality(UT)
  <2> DEFINE b == [h \in UT |-> <<h[2], h[3]>>]
  <2>1. ASSUME NEW h \in UT
        PROVE  \E p \in Owner, r \in Region : h = <<"table", p, r>> /\ table[p][r] = f
    <3>1. h \in Holder /\ h[1] = "table"
      BY <1>2
    <3>2. PICK p \in Owner, r \in Region : h = <<"table", p, r>>
      BY <3>1, HolderIs
    <3> QED
      BY <1>2, <3>2, LeadsIs
  <2>2. ASSUME NEW z \in T
        PROVE  <<"table", z[1], z[2]>> \in UT /\ b[<<"table", z[1], z[2]>>] = z
    <3>1. PICK p \in Owner, r \in Region : z = <<p, r>> /\ table[p][r] = f
      OBVIOUS
    <3>2. PICK h \in Holder : h = <<"table", p, r>> /\ Leads[h] = f
      BY <3>1, HolderIs, LeadsIs
    <3>3. h \in UT
      BY <1>3, <3>2
    <3> QED
      BY <3>1, <3>2, <3>3
  <2>3. b \in [UT -> T]
    BY <2>1
  <2>4. \A h, k \in UT : b[h] = b[k] => h = k
    BY <2>1
  <2> HIDE DEF T, UT, b
  <2>5. b \in Bijection(UT, T)
    BY <2>2, <2>3, <2>4 DEF Bijection, Injection, Surjection, IsInjective
  <2> QED
    BY <1>4, <2>5, FS_Bijection DEF ExistsBijection
<1>7. Cardinality(D) = Cardinality(UD)
  <2> DEFINE b == [h \in UD |-> h[2]]
  <2>1. ASSUME NEW h \in UD
        PROVE  \E p \in Owner : h = <<"dir", p, "dir">> /\ pgdir[p] = f
    <3>1. h \in Holder /\ h[1] = "dir"
      BY <1>2
    <3>2. PICK p \in Owner : h = <<"dir", p, "dir">>
      BY <3>1, HolderIs
    <3> QED
      BY <1>2, <3>2, LeadsIs
  <2>2. ASSUME NEW p \in D
        PROVE  <<"dir", p, "dir">> \in UD /\ b[<<"dir", p, "dir">>] = p
    <3>1. PICK h \in Holder : h = <<"dir", p, "dir">> /\ Leads[h] = f
      BY HolderIs, LeadsIs
    <3>2. h \in UD
      BY <1>3, <3>1
    <3> QED
      BY <3>1, <3>2
  <2>3. b \in [UD -> D]
    BY <2>1
  <2>4. \A h, k \in UD : b[h] = b[k] => h = k
    BY <2>1
  <2> HIDE DEF D, UD, b
  <2>5. b \in Bijection(UD, D)
    BY <2>2, <2>3, <2>4 DEF Bijection, Injection, Surjection, IsInjective
  <2> QED
    BY <1>4, <2>5, FS_Bijection DEF ExistsBijection
<1>8. U = (UP \cup UT) \cup UD /\ UP \cap UT = {} /\ (UP \cup UT) \cap UD = {}
  <2>1. \A h \in U : h[1] \in {"page", "table", "dir"}
    BY <1>2 DEF Holder
  <2> QED
    BY <2>1
<1>9. References(f) = Cardinality(P) + Cardinality(T) + Cardinality(D)
  BY DEF References
<1> HIDE DEF P, T, D, UP, UT, UD
<1>10. Cardinality(U) = (Cardinality(UP) + Cardinality(UT)) + Cardinality(UD)
  <2>1. /\ IsFiniteSet(UP \cup UT)
        /\ Cardinality(UP \cup UT) = Cardinality(UP) + Cardinality(UT)
    BY <1>4, <1>8, DisjointSum
  <2>2. Cardinality((UP \cup UT) \cup UD) = Cardinality(UP \cup UT) + Cardinality(UD)
    BY <1>4, <1>8, <2>1, DisjointSum
  <2> QED
    BY <1>8, <2>1, <2>2
<1> QED
  BY <1>5, <1>6, <1>7, <1>9, <1>10 DEF U

LEMMA CountsReferences ==
  ASSUME Inv
  PROVE  NoDangling /\ NoLeak
<1>1. ASSUME NEW f \in Frame
      PROVE  /\ count[f] = References(f) + (IF f \in lost THEN 1 ELSE 0)
             /\ f \in free <=> count[f] = 0
             /\ References(f) \in Nat
  <2>1. References(f) = Cardinality(Users(Leads, f))
    BY ReferencesAre
  <2>2. /\ count[f] = Cardinality(Users(Leads, f)) + Lost01(lost, f)
        /\ f \in free <=> count[f] = 0
    BY InvParts DEF Exact
  <2>3. Cardinality(Users(Leads, f)) \in Nat
    BY UsersFinite
  <2> QED
    BY <2>1, <2>2, <2>3 DEF Lost01
<1>2. NoLeak
  BY <1>1 DEF NoLeak
<1>3. ASSUME NEW f \in Frame
      PROVE  References(f) <= count[f]
  BY <1>1
<1> QED
  BY <1>1, <1>2, <1>3 DEF NoDangling

(* Two places a frame is mapped at are the same page, writable in neither. *)
LEMMA SharedPages ==
  ASSUME Inv, NEW p \in Owner, NEW q \in Owner, NEW v \in Page, NEW w \in Page,
         map[p][v] # NoFrame, map[p][v] = map[q][w], <<p, v>> # <<q, w>>
  PROVE  v = w /\ v \notin writable[p]
<1>1. PICK h, k : h = <<"page", p, v>> /\ k = <<"page", q, w>>
  OBVIOUS
<1>2. /\ h \in Holder /\ k \in Holder /\ h # k
      /\ Leads[h] = map[p][v] /\ Leads[k] = map[q][w]
  BY <1>1, HolderIs, LeadsIs
<1>3. h[3] = k[3] /\ h[3] \notin writable[h[2]]
  BY <1>2, InvParts DEF Shared
<1> QED
  BY <1>1, <1>3

LEMMA SharingIsReadOnly ==
  ASSUME Inv
  PROVE  SharedReadOnly /\ TablesPrivate
<1> USE Names
<1>2. SharedReadOnly
  BY SharedPages DEF SharedReadOnly, MappedIn, Mapped
<1>3. ASSUME NEW h \in Holder, h[1] # "page", Leads[h] \in Frame
      PROVE  References(Leads[h]) = 1
  <2>1. PICK f \in Frame : f = Leads[h]
    BY <1>3
  <2>2. \A k \in Holder : Leads[k] = f => k = h
    BY <1>3, <2>1, InvParts DEF Shared
  <2>3. Users(Leads, f) = {h}
    BY <2>1, <2>2 DEF Users
  <2>4. Cardinality({h}) = 1
    BY FS_Singleton
  <2> QED
    BY <2>1, <2>3, <2>4, ReferencesAre
<1>4. ASSUME NEW p \in Live \cup {Kernel}, NEW f \in Frame,
             f \in {pgdir[p]} \cup {table[p][r] : r \in Region}
      PROVE  References(f) = 1
  <2>1. p \in Owner
    BY DEF Live
  <2>2. PICK h \in Holder : h[1] # "page" /\ Leads[h] = f
    <3>1. CASE f = pgdir[p]
      <4>1. PICK h : h = <<"dir", p, "dir">>
        OBVIOUS
      <4>2. h \in Holder /\ Leads[h] = f /\ h[1] # "page"
        BY <2>1, <3>1, <4>1, HolderIs, LeadsIs
      <4> QED
        BY <4>2
    <3>2. ASSUME NEW r \in Region, f = table[p][r]
          PROVE  \E h \in Holder : h[1] # "page" /\ Leads[h] = f
      <4>1. PICK h : h = <<"table", p, r>>
        OBVIOUS
      <4>2. h \in Holder /\ Leads[h] = f /\ h[1] # "page"
        BY <2>1, <3>2, <4>1, HolderIs, LeadsIs
      <4> QED
        BY <4>2
    <3> QED
      BY <1>4, <3>1, <3>2
  <2> QED
    BY <1>3, <2>2
<1>5. \A p \in Owner : \A v, w \in MappedIn(p, Page) : map[p][v] = map[p][w] => v = w
  BY SharedPages DEF MappedIn, Mapped
<1> QED
  BY <1>2, <1>4, <1>5 DEF TablesPrivate

(* The state of user memory keeps its shape whatever the processes do, and *)
(* a live process always has a page directory and tables (alloc_vm,        *)
(* destroy_vm).                                                            *)
THEOREM MemoryWellFormed == Spec => []TypeOK
<1>1. Inv \/ Broken => TypeOK
  BY DEF Inv, Broken
<1> QED
  BY <1>1, InvAlways, PTL

(* No frame that page tables lead to is ever free, for any number of       *)
(* processes, pages and frames, until a store hits the kernel's own memory *)
(* (mm.c: free_page; proc.c: sys_fork; trap.c: do_trap; exec.c:            *)
(* sys_execve).                                                            *)
THEOREM FramesNeverDangle == Spec => []NoDangling
<1>1. Inv => NoDangling
  BY CountsReferences
<1>2. Broken => NoDangling
  BY DEF Broken, NoDangling
<1> QED
  BY <1>1, <1>2, InvAlways, PTL

(* Until then every frame has the count of what leads to it, and one more  *)
(* if an exit left it behind or bread took it, which nobody gives back:    *)
(* fork's count++ is matched by each count-- of copy-on-write, exec and    *)
(* exit, and no other frame is lost (proc.c 464-488, trap.c 197-208,       *)
(* exec.c 35-82, fs.c 60-67).                                              *)
THEOREM FramesNeverLeak == Spec => []NoLeak
<1>1. Inv => NoLeak
  BY CountsReferences
<1>2. Broken => NoLeak
  BY DEF Broken, NoLeak
<1> QED
  BY <1>1, <1>2, InvAlways, PTL

(* What fork shares stays read-only until copy-on-write ends the sharing   *)
(* (sys_fork proc.c 464-482, do_trap trap.c 185-208).                      *)
THEOREM SharedFramesReadOnly == Spec => []SharedReadOnly
<1>1. Inv => SharedReadOnly
  BY SharingIsReadOnly
<1>2. Broken => SharedReadOnly
  BY DEF Broken, SharedReadOnly
<1> QED
  BY <1>1, <1>2, InvAlways, PTL

(* Page directories and tables are frames of their own, which no program   *)
(* can reach through a page of its address space.                          *)
THEOREM TableFramesPrivate == Spec => []TablesPrivate
<1>1. Inv => TablesPrivate
  BY SharingIsReadOnly
<1>2. Broken => TablesPrivate
  BY DEF Broken, TablesPrivate
<1> QED
  BY <1>1, <1>2, InvAlways, PTL

------------------------------------------------------------------------------
(* What processes read. *)

IsView(F) == F = [q \in Owner |-> [u \in Page |-> F[q][u]]]
IsNextView(F) ==
  \A q \in Owner, u \in Page :
    F[q][u] = IF map'[q][u] = NoFrame THEN Zero ELSE mem'[map'[q][u]]

LEMMA ViewIs ==
  /\ IsView(View)
  /\ \A q \in Owner, u \in Page :
       View[q][u] = IF map[q][u] = NoFrame THEN Zero ELSE mem[map[q][u]]
BY DEF View, Mapped, IsView

LEMMA ViewBecomes ==
  ASSUME NEW F, IsView(F), IsNextView(F)
  PROVE  View' = F
<1>1. View' = [q \in Owner |-> [u \in Page |->
                 IF map'[q][u] = NoFrame THEN Zero ELSE mem'[map'[q][u]]]]
  BY DEF View, Mapped
<1> QED
  BY <1>1 DEF IsView, IsNextView

(* No page is mapped to a free frame or one that nothing leads to, and     *)
(* none to a frame that another page that may be written is in.            *)
InUse == \A q \in Owner, u \in Page : map[q][u] \notin free \cup lost
OwnPages ==
  \A p, q \in Owner : \A v, u \in Page :
    v \in writable[p] /\ map[p][v] # NoFrame /\ map[q][u] = map[p][v] => q = p /\ u = v

LEMMA MappedInUse == Inv => InUse /\ OwnPages
<1> SUFFICES ASSUME Inv PROVE InUse /\ OwnPages
  OBVIOUS
<1>1. ASSUME NEW q \in Owner, NEW u \in Page
      PROVE  map[q][u] \notin free \cup lost
  <2>1. PICK h \in Holder : Leads[h] = map[q][u]
    BY HolderIs, LeadsIs
  <2> QED
    BY <2>1, InvParts, Unused
<1>2. ASSUME NEW p \in Owner, NEW q \in Owner, NEW v \in Page, NEW u \in Page,
             v \in writable[p], map[p][v] # NoFrame, map[q][u] = map[p][v]
      PROVE  q = p /\ u = v
  <2>1. <<p, v>> = <<q, u>>
    BY <1>2, SharedPages
  <2> QED
    BY <2>1
<1> QED
  BY <1>1, <1>2 DEF InUse, OwnPages

LEMMA MappedInUseNext == Inv' => InUse' /\ OwnPages'
BY MappedInUse, PTL

LEMMA ViewSame ==
  ASSUME UNCHANGED <<map, mem>>
  PROVE  View' = View
<1>1. IsNextView(View)
  BY ViewIs DEF IsNextView
<1> QED
  BY <1>1, ViewIs, ViewBecomes

LEMMA NotPresentInvisible ==
  ASSUME Inv, NEW a \in Proc, NEW v \in Page, NotPresentFault(a, v)
  PROVE  View' = View
<1> USE Names
<1>0. PICK p \in Owner : p = Whose(a, v)
  BY WhoseIs
<1>1. map[p][v] = NoFrame
  BY <1>0 DEF NotPresentFault, Mapped
<1>2. CASE UNCHANGED <<map, mem>>
  BY <1>2, ViewSame
<1>3. ASSUME NEW f \in Candidates(free), mem' = [mem EXCEPT ![f] = Zero],
             map' = [map EXCEPT ![p][v] = f]
      PROVE  View' = View
  <2>1. f \in free /\ f \in Frame /\ f # NoFrame
    BY Picked, InvParts
  <2>2. ASSUME NEW q \in Owner, NEW u \in Page
        PROVE  View[q][u] = IF map'[q][u] = NoFrame THEN Zero ELSE mem'[map'[q][u]]
    <3>1. map'[q][u] = IF q = p /\ u = v THEN f ELSE map[q][u]
      BY <1>3, InvParts
    <3>2. \A g \in Frame : mem'[g] = IF g = f THEN Zero ELSE mem[g]
      BY <1>3, InvParts
    <3>3. map[q][u] \in Frame \cup {NoFrame} /\ map[q][u] # f
      BY <2>1, InvParts, MappedInUse DEF InUse
    <3>4. CASE q = p /\ u = v
      BY <1>1, <2>1, <3>1, <3>2, <3>4, ViewIs
    <3>5. CASE ~(q = p /\ u = v)
      <4>1. map'[q][u] = map[q][u]
        BY <3>1, <3>5
      <4>2. View[q][u] = IF map[q][u] = NoFrame THEN Zero ELSE mem[map[q][u]]
        BY ViewIs
      <4> QED
        BY <3>2, <3>3, <4>1, <4>2
    <3> QED
      BY <3>4, <3>5
  <2>3. IsNextView(View)
    BY <2>2 DEF IsNextView
  <2> QED
    BY <2>3, ViewIs, ViewBecomes
<1>4. CASE Halt \/ UNCHANGED vars
  BY <1>2, <1>4 DEF Halt, vars
<1>5. ASSUME NEW f \in Candidates(free), NEW g, FaultTakes(p, v, RegionOf(v), f, g)
      PROVE  View' = View
  BY <1>3, <1>5 DEF FaultTakes
<1> QED
  BY <1>0, <1>4, <1>5, FaultNames

(* The contents of frames that are still mapped after a release. *)
LEMMA MemAfterIs ==
  ASSUME NEW D, NEW g \in Frame, g \notin Freed(D)
  PROVE  MemAfter(D)[g] = mem[g]
BY DEF MemAfter

LEMMA CowInvisible ==
  ASSUME Inv, NEW a \in Proc, NEW v \in Page, CowFault(a, v)
  PROVE  View' = View
<1> USE Names
<1>0. PICK p \in Owner : p = Whose(a, v)
  BY WhoseIs
<1> DEFINE D == CowReleased(p, v)
<1>1. map[p][v] # NoFrame
  BY <1>0 DEF CowFault, Mapped
<1>2. CASE UNCHANGED <<map, mem>>
  BY <1>2, ViewSame
<1>3. ASSUME NEW f \in Candidates(free), free' = (free \ {f}) \cup Freed(D),
             mem' = [MemAfter(D) EXCEPT ![f] = CowContent(p, v)],
             map' = [map EXCEPT ![p][v] = f]
      PROVE  View' = View
  <2>1. f \in free /\ f \in Frame /\ f # NoFrame
    BY Picked, InvParts
  <2> HIDE DEF D
  <2>2. ASSUME NEW q \in Owner, NEW u \in Page
        PROVE  View[q][u] = IF map'[q][u] = NoFrame THEN Zero ELSE mem'[map'[q][u]]
    <3>1. map'[q][u] = IF q = p /\ u = v THEN f ELSE map[q][u]
      BY <1>3, InvParts
    <3>2. \A g \in Frame : mem'[g] = IF g = f THEN mem[map[p][v]] ELSE MemAfter(D)[g]
      BY <1>3, MemAfterType DEF CowContent
    <3>3. map[q][u] \in Frame \cup {NoFrame} /\ map[q][u] # f
      BY <2>1, InvParts, MappedInUse DEF InUse
    <3>4. map'[q][u] \notin Freed(D)
      BY <1>3, InvCowFault, MappedInUseNext DEF InUse
    <3>5. CASE q = p /\ u = v
      BY <1>1, <2>1, <3>1, <3>2, <3>5, ViewIs
    <3>6. CASE ~(q = p /\ u = v)
      <4>1. map'[q][u] = map[q][u]
        BY <3>1, <3>6
      <4>2. map[q][u] \in Frame => mem'[map[q][u]] = mem[map[q][u]]
        BY <3>2, <3>3, <3>4, <4>1, MemAfterIs
      <4> QED
        BY <3>3, <4>1, <4>2, ViewIs
    <3> QED
      BY <3>5, <3>6
  <2>3. IsNextView(View)
    BY <2>2 DEF IsNextView
  <2> QED
    BY <2>3, ViewIs, ViewBecomes
<1> QED
  BY <1>0, <1>2, <1>3 DEF CowFault, Halt

(* Neither kind of page fault changes what any process reads (trap.c       *)
(* 185-208), in any reachable state.                                       *)
THEOREM PageFaultsInvisible == Spec => FaultsInvisible
<1>1. Inv /\ [Next]_vars =>
        [(\E p \in Proc, v \in Page : NotPresentFault(p, v) \/ CowFault(p, v)) => View' = View]_vars
  BY NotPresentInvisible, CowInvisible
<1>2. Broken /\ [Next]_vars =>
        [(\E p \in Proc, v \in Page : NotPresentFault(p, v) \/ CowFault(p, v)) => View' = View]_vars
  BY HaltedStays DEF Broken
<1> QED
  BY <1>1, <1>2, InvAlways, PTL DEF Spec, FaultsInvisible

------------------------------------------------------------------------------
(* The detailed memory implements PrivateMemory, step by step.             *)

LEMMA PrivateInit == Init => Private!Init
<1> SUFFICES ASSUME Init PROVE Private!Init
  OBVIOUS
<1> USE Names
<1>1. PICK d, t, i, s \in Frame, v \in VPage, x \in Value :
        /\ d # t /\ d # i /\ d # s /\ t # i /\ t # s /\ i # s
        /\ InitWith(d, t, i, s, v, x)
  BY InitNames
<1>2. PICK image \in [Page -> Value] : image = [u \in Page |-> IF u = v THEN x ELSE Zero]
  OBVIOUS
<1>3. Live = {First}
  BY <1>1 DEF InitWith, Live
<1>4. \A q \in Owner, u \in Page :
        View[q][u] = IF q = First /\ u = v THEN x ELSE Zero
  <2> SUFFICES ASSUME NEW q \in Owner, NEW u \in Page
               PROVE  View[q][u] = IF q = First /\ u = v THEN x ELSE Zero
    OBVIOUS
  <2>1. /\ map[q][u] = IF q # First THEN NoFrame
                       ELSE IF u = v THEN i ELSE IF u = Stack THEN s ELSE NoFrame
        /\ mem[i] = x /\ mem[s] = Zero
    BY <1>1 DEF InitWith
  <2>2. View[q][u] = IF map[q][u] = NoFrame THEN Zero ELSE mem[map[q][u]]
    BY ViewIs
  <2> QED
    BY <2>1, <2>2
<1>5. View = [q \in Proc \cup {Kernel} |-> IF q = First THEN image ELSE Private!Blank]
  <2>1. PICK V, W : V = View /\ W = [q \in Owner |-> IF q = First THEN image ELSE Private!Blank]
    OBVIOUS
  <2>2. V = [q \in Owner |-> [u \in Page |-> V[q][u]]]
    BY <2>1, ViewIs DEF IsView
  <2>3. W = [q \in Owner |-> [u \in Page |-> W[q][u]]]
    BY <2>1 DEF Private!Blank
  <2>4. \A q \in Owner, u \in Page : V[q][u] = W[q][u]
    BY <1>2, <1>4, <2>1 DEF Private!Blank
  <2>5. ASSUME NEW q \in Owner PROVE V[q] = W[q]
    <3>1. V[q] = [u \in Page |-> V[q][u]] /\ W[q] = [u \in Page |-> W[q][u]]
      BY <2>2, <2>3
    <3> QED
      BY <2>4, <3>1
  <2>6. V = W
    BY ONLY <2>2, <2>3, <2>5
  <2> QED
    BY <2>1, <2>6
<1>6. wild = FALSE
  BY <1>1 DEF InitWith
<1> QED
  BY <1>2, <1>3, <1>5, <1>6 DEF Private!Init

(* A view with one page of one process replaced, and one with all of them. *)
PageReplaced(p, v, x) == [View EXCEPT ![p][v] = x]
ProcessReplaced(p, P) == [View EXCEPT ![p] = P]

LEMMA ViewPage ==
  ASSUME NEW p \in Owner, NEW v \in Page, NEW x
  PROVE  /\ IsView(PageReplaced(p, v, x))
         /\ \A q \in Owner, u \in Page :
              PageReplaced(p, v, x)[q][u] = IF q = p /\ u = v THEN x ELSE View[q][u]
<1>0. PICK F : F = PageReplaced(p, v, x)
  OBVIOUS
<1>1. PICK V : V = View
  OBVIOUS
<1>2. V = [q \in Owner |-> [u \in Page |-> V[q][u]]]
  BY <1>1, ViewIs DEF IsView
<1>3. \A q \in Owner, u \in Page : F[q][u] = IF q = p /\ u = v THEN x ELSE V[q][u]
  BY <1>0, <1>1, <1>2 DEF PageReplaced
<1>4. F = [q \in Owner |-> [u \in Page |-> F[q][u]]]
  BY <1>0, <1>1, <1>2 DEF PageReplaced
<1> QED
  BY <1>0, <1>1, <1>3, <1>4 DEF IsView

LEMMA ViewProcess ==
  ASSUME NEW p \in Owner, NEW P, P = [u \in Page |-> P[u]]
  PROVE  /\ IsView(ProcessReplaced(p, P))
         /\ \A q \in Owner, u \in Page :
              ProcessReplaced(p, P)[q][u] = IF q = p THEN P[u] ELSE View[q][u]
<1>0. PICK F : F = ProcessReplaced(p, P)
  OBVIOUS
<1>1. PICK V : V = View
  OBVIOUS
<1>2. V = [q \in Owner |-> [u \in Page |-> V[q][u]]]
  BY <1>1, ViewIs DEF IsView
<1>3. \A q \in Owner, u \in Page : F[q][u] = IF q = p THEN P[u] ELSE V[q][u]
  BY <1>0, <1>1, <1>2 DEF ProcessReplaced
<1>4. F = [q \in Owner |-> [u \in Page |-> F[q][u]]]
  BY <1>0, <1>1, <1>2 DEF ProcessReplaced
<1> QED
  BY <1>0, <1>1, <1>3, <1>4 DEF IsView

(* A store into a page that may be written. *)
LEMMA PrivateStore ==
  ASSUME Inv, NEW a \in Proc, NEW v \in Page, NEW x \in Value, slot[a] = "live",
         v \in writable[Whose(a, v)], mem' = [mem EXCEPT ![map[Whose(a, v)][v]] = x],
         UNCHANGED <<slot, map, wild>>
  PROVE  Private!Store(a, v, x)
<1> USE Names
<1>0. PICK p \in Owner : /\ p = Whose(a, v) /\ v \in writable[p]
                         /\ mem' = [mem EXCEPT ![map[p][v]] = x]
  BY WhoseIs
<1>1. a \in Live /\ Live' = Live
  BY DEF Live
<1>2. map[p][v] \in Frame /\ map[p][v] # NoFrame
  BY <1>0, InvParts DEF WritableMapped
<1>3. PICK F : F = PageReplaced(p, v, x)
  OBVIOUS
<1>4. /\ IsView(F)
      /\ \A q \in Owner, u \in Page : F[q][u] = IF q = p /\ u = v THEN x ELSE View[q][u]
  BY ONLY <1>3, ViewPage
<1>5. ASSUME NEW q \in Owner, NEW u \in Page
      PROVE  F[q][u] = IF map'[q][u] = NoFrame THEN Zero ELSE mem'[map'[q][u]]
  <2>1. \A g \in Frame : mem'[g] = IF g = map[p][v] THEN x ELSE mem[g]
    BY <1>0, <1>2, InvParts
  <2>2. map'[q][u] = map[q][u] /\ map[q][u] \in Frame \cup {NoFrame}
    BY InvParts
  <2>3. map[q][u] = map[p][v] => q = p /\ u = v
    BY <1>0, <1>2, MappedInUse DEF OwnPages
  <2>4. View[q][u] = IF map[q][u] = NoFrame THEN Zero ELSE mem[map[q][u]]
    BY ViewIs
  <2>5. CASE q = p /\ u = v
    BY <1>2, <1>4, <2>1, <2>2, <2>5
  <2>6. CASE ~(q = p /\ u = v)
    <3>1. F[q][u] = View[q][u]
      BY <1>4, <2>6
    <3> QED
      BY <2>1, <2>2, <2>3, <2>4, <2>6, <3>1
  <2> QED
    BY <2>5, <2>6
<1>6. View' = F
  <2>1. IsNextView(F)
    BY <1>5 DEF IsNextView
  <2> QED
    BY <1>4, <2>1, ViewBecomes
<1>7. Private!Whose(a, v) = p
  BY <1>0 DEF Private!Whose, Whose
<1> QED
  BY <1>1, <1>3, <1>6, <1>7 DEF Private!Store, PageReplaced

LEMMA PrivateForkOK ==
  ASSUME Inv, NEW p \in Proc, NEW c \in Proc, slot[p] = "live", ForkOK(p, c)
  PROVE  Private!Fork(p, c)
<1> USE Names
<1>1. PICK d, t, s \in free : /\ d # t /\ d # s /\ t # s
                              /\ d \in Frame /\ t \in Frame /\ s \in Frame
                              /\ ForkTakes(p, c, d, t, s)
  BY ForkNames
<1>2. /\ slot[c] = "free" /\ slot' = [slot EXCEPT ![c] = "live"] /\ map[p][Stack] # NoFrame
      /\ p # c
  BY DEF ForkOK, Mapped
<1>3. p \in Live /\ c \notin Live /\ Live' = Live \cup {c}
  BY <1>2, InvParts DEF Live
<1>4. PICK P, F : /\ P = [v \in Page |-> IF v \in Prog THEN View[p][v] ELSE Zero]
                  /\ F = ProcessReplaced(c, P)
  OBVIOUS
<1>5. /\ IsView(F)
      /\ \A q \in Owner, u \in Page : F[q][u] = IF q = c THEN P[u] ELSE View[q][u]
  <2>1. P = [u \in Page |-> P[u]]
    BY <1>4
  <2>2. c \in Owner
    OBVIOUS
  <2> QED
    BY ONLY <1>4, <2>1, <2>2, ViewProcess
<1>6. /\ \A q \in Owner, u \in Page :
           map'[q][u] = IF q # c THEN map[q][u] ELSE IF u \in VPage THEN map[p][u]
                        ELSE IF u = Stack THEN s ELSE NoFrame
      /\ \A g \in Frame : mem'[g] = IF g = s THEN mem[map[p][Stack]] ELSE mem[g]
  BY <1>1, InvParts DEF ForkTakes
<1>7. ASSUME NEW q \in Owner, NEW u \in Page
      PROVE  /\ map[q][u] \in Frame \cup {NoFrame} /\ map[q][u] # s
             /\ View[q][u] = IF map[q][u] = NoFrame THEN Zero ELSE mem'[map[q][u]]
  <2>1. map[q][u] \in Frame \cup {NoFrame} /\ map[q][u] # s
    BY InvParts, MappedInUse DEF InUse
  <2>2. View[q][u] = IF map[q][u] = NoFrame THEN Zero ELSE mem[map[q][u]]
    BY ViewIs
  <2> QED
    BY <1>6, <2>1, <2>2
<1>8. ASSUME NEW q \in Owner, NEW u \in Page
      PROVE  F[q][u] = IF map'[q][u] = NoFrame THEN Zero ELSE mem'[map'[q][u]]
  <2>1. CASE q # c
    BY <1>5, <1>6, <1>7, <2>1
  <2>2. CASE q = c /\ u \in VPage
    <3>1. F[q][u] = View[p][u]
      BY <1>4, <1>5, <2>2
    <3>2. map'[q][u] = map[p][u]
      BY <1>6, <2>2
    <3> QED
      BY <1>7, <3>1, <3>2
  <2>3. CASE q = c /\ u = Stack
    <3>1. F[q][u] = View[p][Stack]
      BY <1>4, <1>5, <2>3
    <3>2. map'[q][u] = s /\ mem'[s] = mem[map[p][Stack]] /\ s # NoFrame
      BY <1>1, <1>6, <2>3
    <3>3. View[p][Stack] = mem[map[p][Stack]]
      BY <1>2, ViewIs
    <3> QED
      BY <3>1, <3>2, <3>3
  <2>4. CASE q = c /\ u \notin Prog
    <3>1. u \notin Prog /\ u \notin VPage /\ u # Stack
      BY <2>4
    <3>2. F[q][u] = Zero
      BY <1>4, <1>5, <2>4, <3>1
    <3>3. map'[q][u] = NoFrame
      BY <1>6, <2>4, <3>1
    <3> QED
      BY <3>2, <3>3
  <2> QED
    BY <2>1, <2>2, <2>3, <2>4
<1>9. View' = F
  <2>1. IsNextView(F)
    BY <1>8 DEF IsNextView
  <2> QED
    BY <1>5, <2>1, ViewBecomes
<1>10. wild' = wild
  BY DEF ForkOK
<1> QED
  BY <1>3, <1>4, <1>9, <1>10 DEF Private!Fork, ProcessReplaced

LEMMA PrivateExecOK ==
  ASSUME Inv, NEW p \in Proc, NEW v \in VPage, NEW x \in Value, ExecOK(p, v, x)
  PROVE  Private!Exec(p, v, x)
<1> USE Names
<1>1. PICK D : D = FramesOf(p, Prog)
  OBVIOUS
<1>2. PICK E \in SUBSET (free \cup Freed(D)) :
        \E f \in (free \cup Freed(D)) \ E, s \in ((free \cup Freed(D)) \ E) \cup {NoFrame} :
          f \in Frame /\ f # s /\ ExecTakes(p, v, x, (free \cup Freed(D)) \ E, E, D, f, s)
  BY ONLY Inv, ExecOK(p, v, x), <1>1, ExecNames
<1>13. PICK S : S = (free \cup Freed(D)) \ E
  OBVIOUS
<1>14. PICK f \in S, s \in S \cup {NoFrame} :
         f \in Frame /\ f # s /\ ExecTakes(p, v, x, S, E, D, f, s)
  BY <1>2, <1>13
<1>3. p \in Live /\ Live' = Live /\ wild' = wild
  BY <1>14 DEF ExecOK, Ready, Live, ExecTakes
<1>4. PICK P, F : /\ P = [u \in Page |-> IF u \in Prog THEN IF u = v THEN x ELSE Zero
                                         ELSE View[p][u]]
                  /\ F = ProcessReplaced(p, P)
  OBVIOUS
<1>5. /\ IsView(F)
      /\ \A q \in Owner, u \in Page : F[q][u] = IF q = p THEN P[u] ELSE View[q][u]
  <2>1. P = [u \in Page |-> P[u]]
    BY <1>4
  <2>2. p \in Owner
    OBVIOUS
  <2> QED
    BY ONLY <1>4, <2>1, <2>2, ViewProcess
<1>6. /\ \A q \in Owner, u \in Page :
           map'[q][u] = IF q # p \/ u \notin Prog THEN map[q][u]
                        ELSE IF u = v THEN f ELSE IF u = Stack THEN s ELSE NoFrame
      /\ v \in writable'[p] /\ (s # NoFrame => Stack \in writable'[p])
      /\ free' = S \ {f, s} /\ lost' = lost \cup E
      /\ mem' = [g \in Frame |-> IF g = f THEN x ELSE IF g = s THEN Zero ELSE MemAfter(D)[g]]
  BY <1>14, InvParts DEF ExecTakes
<1>7. map'[p][v] = f /\ map'[p][Stack] = s /\ f # NoFrame /\ v \in Page
  BY <1>14, <1>6
<1>8. InUse' /\ OwnPages'
  BY InvExecOK, MappedInUseNext
<1>9. ASSUME NEW q \in Owner, NEW u \in Page, q # p \/ u \notin Prog, map[q][u] # NoFrame
      PROVE  mem'[map'[q][u]] = mem[map[q][u]]
  <2>1. PICK g : g = map[q][u]
    OBVIOUS
  <2>2. g \in Frame /\ map'[q][u] = g
    BY <1>6, <1>9, <2>1, InvParts
  <2>3. g # f
    BY <1>6, <1>7, <1>8, <1>9, <2>2 DEF OwnPages
  <2>4. g # s
    <3>1. CASE s = NoFrame
      BY <2>2, <3>1
    <3>2. CASE s # NoFrame
      BY <1>6, <1>7, <1>8, <1>9, <2>2, <3>2 DEF OwnPages
    <3> QED
      BY <3>1, <3>2
  <2>5. g \notin free' \cup lost'
    BY <1>8, <2>2 DEF InUse
  <2>6. g \notin Freed(D)
    BY <1>6, <1>13, <2>3, <2>4, <2>5
  <2>7. mem'[g] = MemAfter(D)[g]
    BY <1>6, <2>2, <2>3, <2>4
  <2> QED
    BY <2>1, <2>2, <2>6, <2>7, MemAfterIs
<1>10. ASSUME NEW q \in Owner, NEW u \in Page
       PROVE  F[q][u] = IF map'[q][u] = NoFrame THEN Zero ELSE mem'[map'[q][u]]
  <2>1. View[q][u] = IF map[q][u] = NoFrame THEN Zero ELSE mem[map[q][u]]
    BY ViewIs
  <2>2. CASE q # p \/ u \notin Prog
    <3>1. F[q][u] = View[q][u]
      <4>1. CASE q # p
        BY ONLY <1>5, <4>1
      <4>2. CASE q = p /\ u \notin Prog
        BY <1>4, <1>5, <4>2
      <4> QED
        BY <2>2, <4>1, <4>2
    <3>2. map'[q][u] = map[q][u]
      BY <1>6, <2>2
    <3> QED
      BY <1>9, <2>1, <2>2, <3>1, <3>2
  <2>3. CASE q = p /\ u \in Prog
    <3>1. F[q][u] = IF u = v THEN x ELSE Zero
      BY <1>4, <1>5, <2>3
    <3>2. map'[q][u] = IF u = v THEN f ELSE IF u = Stack THEN s ELSE NoFrame
      BY <1>6, <2>3
    <3>3. mem'[f] = x /\ (s # NoFrame => mem'[s] = Zero)
      <4>1. S \subseteq Frame
        <5>1. p \in Owner /\ Prog \in SUBSET Page
          OBVIOUS
        <5> QED
          BY <1>1, <1>13, <5>1, DropPages DEF Exact
      <4> QED
        BY <1>14, <1>6, <4>1
    <3> QED
      BY <1>7, <3>1, <3>2, <3>3
  <2> QED
    BY <2>2, <2>3
<1>11. View' = F
  <2>1. IsNextView(F)
    BY <1>10 DEF IsNextView
  <2> QED
    BY <1>5, <2>1, ViewBecomes
<1>12. P = Private!Replaced(p, [Private!Blank EXCEPT ![v] = x])
  BY <1>4, <1>7 DEF Private!Replaced, Private!Blank
<1> QED
  BY <1>3, <1>4, <1>11, <1>12 DEF Private!Exec, ProcessReplaced

(* A file that is no program leaves an image with nothing in it. *)
LEMMA PrivateExecRejected ==
  ASSUME Inv, NEW p \in Proc, NEW v \in Page, ExecRejected(p)
  PROVE  Private!Exec(p, v, Zero)
<1> USE Names
<1>1. PICK D : D = FramesOf(p, Prog)
  OBVIOUS
<1>2. PICK E : /\ free' = (free \cup Freed(D)) \ E /\ lost' = lost \cup E
  BY <1>1 DEF ExecRejected, Dropped, FreeAfterDrop
<1>9. /\ mem' = MemAfter(D)
      /\ \A q \in Owner, u \in Page :
           map'[q][u] = IF q # p \/ u \notin Prog THEN map[q][u] ELSE NoFrame
      /\ p \in Live /\ Live' = Live /\ wild' = wild
  BY <1>1, InvParts DEF ExecRejected, Ready, Live, Dropped
<1>3. PICK P, F : /\ P = [u \in Page |-> IF u \in Prog THEN Zero ELSE View[p][u]]
                  /\ F = ProcessReplaced(p, P)
  OBVIOUS
<1>4. /\ IsView(F)
      /\ \A q \in Owner, u \in Page : F[q][u] = IF q = p THEN P[u] ELSE View[q][u]
  <2>1. P = [u \in Page |-> P[u]]
    BY <1>3
  <2>2. p \in Owner
    OBVIOUS
  <2> QED
    BY ONLY <1>3, <2>1, <2>2, ViewProcess
<1>5. InUse'
  BY InvExecRejected, MappedInUseNext
<1>6. ASSUME NEW q \in Owner, NEW u \in Page
      PROVE  F[q][u] = IF map'[q][u] = NoFrame THEN Zero ELSE mem'[map'[q][u]]
  <2>1. View[q][u] = IF map[q][u] = NoFrame THEN Zero ELSE mem[map[q][u]]
    BY ViewIs
  <2>2. CASE q # p \/ u \notin Prog
    <3>1. F[q][u] = View[q][u]
      <4>1. CASE q # p
        BY ONLY <1>4, <4>1
      <4>2. CASE q = p /\ u \notin Prog
        BY <1>3, <1>4, <4>2
      <4> QED
        BY <2>2, <4>1, <4>2
    <3>2. map'[q][u] = map[q][u] /\ map[q][u] \in Frame \cup {NoFrame}
      BY <1>9, <2>2, InvParts
    <3>3. map[q][u] \notin Freed(D)
      BY <1>2, <1>5, <3>2 DEF InUse
    <3>4. map[q][u] \in Frame => mem'[map[q][u]] = mem[map[q][u]]
      BY <1>9, <3>3, MemAfterIs
    <3> QED
      BY <2>1, <3>1, <3>2, <3>4
  <2>3. CASE q = p /\ u \in Prog
    <3>1. F[q][u] = Zero
      BY <1>3, <1>4, <2>3
    <3>2. map'[q][u] = NoFrame
      BY <1>9, <2>3
    <3> QED
      BY <3>1, <3>2
  <2> QED
    BY <2>2, <2>3
<1>7. View' = F
  <2>1. IsNextView(F)
    BY <1>6 DEF IsNextView
  <2> QED
    BY <1>4, <2>1, ViewBecomes
<1>8. P = Private!Replaced(p, [Private!Blank EXCEPT ![v] = Zero])
  BY <1>3 DEF Private!Replaced, Private!Blank
<1> QED
  BY <1>9, <1>3, <1>7, <1>8 DEF Private!Exec, ProcessReplaced

LEMMA PrivateExit ==
  ASSUME Inv, NEW p \in Proc, Exit(p)
  PROVE  Private!Exit(p)
<1> USE Names
<1>1. PICK D : D = ReleasedByExit(p)
  OBVIOUS
<1>2. /\ free' = free \cup Freed(D) /\ mem' = MemAfter(D)
      /\ \A q \in Owner, u \in Page : map'[q][u] = IF q = p THEN NoFrame ELSE map[q][u]
      /\ p \in Live /\ Live' = Live \ {p} /\ wild' = wild
  BY <1>1, InvParts DEF Exit, Ready, Live
<1>3. PICK P, F : P = Private!Blank /\ F = ProcessReplaced(p, P)
  OBVIOUS
<1>4. /\ IsView(F)
      /\ \A q \in Owner, u \in Page : F[q][u] = IF q = p THEN P[u] ELSE View[q][u]
  <2>1. P = [u \in Page |-> P[u]]
    BY <1>3 DEF Private!Blank
  <2>2. p \in Owner
    OBVIOUS
  <2> QED
    BY ONLY <1>3, <2>1, <2>2, ViewProcess
<1>5. InUse'
  BY InvExit, MappedInUseNext
<1>6. ASSUME NEW q \in Owner, NEW u \in Page
      PROVE  F[q][u] = IF map'[q][u] = NoFrame THEN Zero ELSE mem'[map'[q][u]]
  <2>1. View[q][u] = IF map[q][u] = NoFrame THEN Zero ELSE mem[map[q][u]]
    BY ViewIs
  <2>2. CASE q # p
    <3>1. F[q][u] = View[q][u]
      BY <1>4, <2>2
    <3>2. map'[q][u] = map[q][u] /\ map[q][u] \in Frame \cup {NoFrame}
      BY <1>2, <2>2, InvParts
    <3>3. map[q][u] \notin Freed(D)
      BY <1>2, <1>5, <3>2 DEF InUse
    <3>4. map[q][u] \in Frame => mem'[map[q][u]] = mem[map[q][u]]
      BY <1>2, <3>3, MemAfterIs
    <3> QED
      BY <2>1, <3>1, <3>2, <3>4
  <2>3. CASE q = p
    <3>1. F[q][u] = Zero
      BY <1>3, <1>4, <2>3 DEF Private!Blank
    <3>2. map'[q][u] = NoFrame
      BY <1>2, <2>3
    <3> QED
      BY <3>1, <3>2
  <2> QED
    BY <2>2, <2>3
<1>7. View' = F
  <2>1. IsNextView(F)
    BY <1>6 DEF IsNextView
  <2> QED
    BY <1>4, <2>1, ViewBecomes
<1> QED
  BY <1>2, <1>3, <1>7 DEF Private!Exit, ProcessReplaced

LEMMA PrivateStutter ==
  ASSUME View' = View, Live' = Live, wild' = wild
  PROVE  UNCHANGED Private!vars
BY DEF Private!vars

LEMMA PrivateHalt ==
  ASSUME Halt
  PROVE  UNCHANGED Private!vars
<1>1. Live' = Live
  BY DEF Halt, Live
<1> QED
  BY <1>1, ViewSame, PrivateStutter DEF Halt

LEMMA PrivateNext ==
  ASSUME KernelStores = "own", Inv, [Next]_vars
  PROVE  [Private!Next]_Private!vars
<1> USE Names
<1>1. ASSUME NEW p \in Proc, NEW v \in Page, NEW x \in Value,
             UserStore(p, v, x) \/ KernelStore(p, v, x)
      PROVE  [Private!Next]_Private!vars
  <2>1. CASE Halt
    BY <2>1, PrivateHalt
  <2>2. CASE ~Halt
    <3>1. slot[p] = "live"
      BY <1>1 DEF UserStore, KernelStore, Ready
    <3>2. /\ v \in writable[Whose(p, v)] /\ mem' = [mem EXCEPT ![map[Whose(p, v)][v]] = x]
          /\ UNCHANGED <<slot, map, wild>>
      BY <1>1, <2>2, ConstantsAssumption DEF UserStore, KernelStore, Mapped
    <3>3. Private!Store(p, v, x)
      BY <3>1, <3>2, PrivateStore
    <3> QED
      BY <3>3 DEF Private!Next
  <2> QED
    BY <2>1, <2>2
<1>2. ASSUME NEW p \in Proc, NEW v \in Page, NotPresentFault(p, v) \/ CowFault(p, v)
      PROVE  [Private!Next]_Private!vars
  <2>1. View' = View
    BY <1>2, NotPresentInvisible, CowInvisible
  <2>2. Live' = Live /\ wild' = wild
    <3>1. UNCHANGED <<slot, wild>>
      BY <1>2 DEF NotPresentFault, CowFault, Halt, vars
    <3> QED
      BY <3>1 DEF Live
  <2> QED
    BY <2>1, <2>2, PrivateStutter
<1>3. ASSUME NEW p \in Proc, Fork(p)
      PROVE  [Private!Next]_Private!vars
  <2>1. CASE Halt
    BY <2>1, PrivateHalt
  <2>2. ASSUME NEW c \in Proc, ForkNoDirectory(p, c)
        PROVE  [Private!Next]_Private!vars
    <3>1. View' = View /\ wild' = wild
      BY <2>2, ViewSame DEF ForkNoDirectory
    <3>2. Live' = Live
      BY <2>2, InvParts DEF ForkNoDirectory, Live
    <3> QED
      BY <3>1, <3>2, PrivateStutter
  <2>3. ASSUME NEW c \in Proc, ForkOK(p, c)
        PROVE  [Private!Next]_Private!vars
    <3>1. slot[p] = "live"
      BY <1>3 DEF Fork, Ready
    <3>2. Private!Fork(p, c)
      BY <2>3, <3>1, PrivateForkOK
    <3> QED
      BY <3>2 DEF Private!Next
  <2> QED
    BY <1>3, <2>1, <2>2, <2>3 DEF Fork, ForkNoSlot, ForkPanic
<1>4. ASSUME NEW p \in Proc, NEW v \in VPage, NEW x \in Value, ExecOK(p, v, x)
      PROVE  [Private!Next]_Private!vars
  <2>1. Private!Exec(p, v, x) /\ v \in Page
    BY <1>4, PrivateExecOK
  <2> QED
    BY <2>1 DEF Private!Next
<1>5. ASSUME NEW p \in Proc, ExecRejected(p)
      PROVE  [Private!Next]_Private!vars
  <2>1. Private!Exec(p, Stack, Zero)
    BY <1>5, PrivateExecRejected
  <2> QED
    BY <2>1 DEF Private!Next
<1>6. ASSUME NEW p \in Proc, Exit(p)
      PROVE  [Private!Next]_Private!vars
  <2>1. Private!Exit(p)
    BY <1>6, PrivateExit
  <2> QED
    BY <2>1 DEF Private!Next
<1>7. ASSUME NEW p \in Proc, ExecPanic(p) \/ FileCall(p)
      PROVE  [Private!Next]_Private!vars
  <2>1. CASE Halt
    BY <2>1, PrivateHalt
  <2>2. CASE ~Halt
    <3>1. UNCHANGED <<slot, map, mem, wild>>
      BY <1>7, <2>2 DEF ExecPanic, FileCall
    <3>2. Live' = Live
      BY <3>1 DEF Live
    <3> QED
      BY <3>1, <3>2, ViewSame, PrivateStutter
  <2> QED
    BY <2>1, <2>2
<1>8. ASSUME NEW p \in Proc, KernelOverwritten(p)
      PROVE  [Private!Next]_Private!vars
  <2>1. CASE Halt
    BY <2>1, PrivateHalt
  <2>2. CASE ~Halt
    <3>1. wild' = TRUE
      BY <1>8, <2>2 DEF KernelOverwritten, Damage
    <3> QED
      BY <3>1 DEF Private!Next, Private!Break
  <2> QED
    BY <2>1, <2>2
<1>9. CASE UNCHANGED vars
  <2>1. Live' = Live
    BY <1>9 DEF vars, Live
  <2> QED
    BY <1>9, <2>1, ViewSame, PrivateStutter DEF vars
<1> QED
  BY <1>1, <1>2, <1>3, <1>4, <1>5, <1>6, <1>7, <1>8, <1>9 DEF Next

(* Where stores come from user mode only, frames, sharing and              *)
(* copy-on-write are an implementation of private memories, and of one     *)
(* more that all processes share at the kernel addresses nothing was       *)
(* mapped at: fork copies the pages of the program (proc.c 464-488), a     *)
(* store to one is seen by nobody else (trap.c 197-208), exec and exit     *)
(* touch their caller's pages only (exec.c 35-82).  Nothing is said of     *)
(* what follows a store to the kernel's own memory.  The assumption is     *)
(* needed: with buffers of any page the run kernel_store finds a store of  *)
(* the kernel that another process sees.                                   *)
THEOREM MemoryIsPrivate ==
  ASSUME KernelStores = "own"
  PROVE  Spec => PrivateSpec
<1>1. Inv /\ [Next]_vars => [Private!Next]_Private!vars
  BY PrivateNext
<1>2. Broken /\ [Next]_vars => [Private!Next]_Private!vars
  <2> SUFFICES ASSUME Broken, [Next]_vars PROVE UNCHANGED Private!vars
    OBVIOUS
  <2>1. UNCHANGED vars
    BY HaltedStays DEF Broken
  <2>2. Live' = Live
    BY <2>1 DEF vars, Live
  <2> QED
    BY <2>1, <2>2, ViewSame, PrivateStutter DEF vars
<1> QED
  BY <1>1, <1>2, PrivateInit, InvAlways, PTL DEF Spec, PrivateSpec, Private!Spec
=============================================================================

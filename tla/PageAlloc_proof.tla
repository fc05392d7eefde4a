--------------------------- MODULE PageAlloc_proof ---------------------------
(***************************************************************************)
(* Proofs about the page allocator, for every memory layout that satisfies *)
(* LayoutAssumption.  Inv strengthens the invariants TLC checks by the one *)
(* fact they miss: the count of a managed frame is never negative.         *)
(***************************************************************************)
EXTENDS PageAlloc, SequenceTheorems, TLAPS

------------------------------------------------------------------------------
(* What popping and pushing do to a LIFO free list without repetitions *)

(* Popping (alloc_page, alloc_proc) takes away exactly the head. *)
LEMMA PopLemma ==
  ASSUME NEW S, NEW s \in Seq(S), s # <<>>, IsInjective(s)
  PROVE  /\ Head(s) \in S
         /\ Head(s) \in Range(s)
         /\ Tail(s) \in Seq(S)
         /\ IsInjective(Tail(s))
         /\ Range(Tail(s)) = Range(s) \ {Head(s)}
<1> DEFINE n == Len(s)
<1>1. /\ n \in Nat /\ n > 0 /\ DOMAIN s = 1..n
      /\ Head(s) = s[1] /\ Head(s) \in S
  BY LenProperties, HeadTailProperties
<1>2. /\ Tail(s) \in Seq(S)
      /\ DOMAIN Tail(s) = 1..n-1
      /\ \A i \in 1..n-1 : Tail(s)[i] = s[i + 1]
  BY <1>1, HeadTailProperties, LenProperties
<1>3. IsInjective(Tail(s))
  BY <1>1, <1>2 DEF IsInjective
<1>4. \A i \in 1..n-1 : Tail(s)[i] \in Range(s) /\ Tail(s)[i] # Head(s)
  BY <1>1, <1>2 DEF IsInjective, Range
<1>5. \A i \in 1..n : s[i] # Head(s) => i - 1 \in 1..n-1 /\ Tail(s)[i - 1] = s[i]
  BY <1>1, <1>2
<1>6. Range(Tail(s)) = Range(s) \ {Head(s)}
  <2>1. ASSUME NEW e \in Range(Tail(s)) PROVE e \in Range(s) \ {Head(s)}
    BY <1>2, <1>4 DEF Range
  <2>2. ASSUME NEW e \in Range(s) \ {Head(s)} PROVE e \in Range(Tail(s))
    <3>1. PICK i \in 1..n : e = s[i]
      BY <1>1 DEF Range
    <3> QED
      BY <1>2, <1>5, <3>1 DEF Range
  <2> QED
    BY <2>1, <2>2
<1>7. Head(s) \in Range(s)
  BY <1>1 DEF Range
<1> QED
  BY <1>1, <1>2, <1>3, <1>6, <1>7

(* Appending two lists that have nothing in common (init_page). *)
LEMMA ConcatLemma ==
  ASSUME NEW S, NEW s \in Seq(S), NEW t \in Seq(S), IsInjective(s), IsInjective(t),
         \A e \in Range(s) : e \notin Range(t)
  PROVE  /\ s \o t \in Seq(S)
         /\ IsInjective(s \o t)
         /\ Range(s \o t) = Range(s) \cup Range(t)
<1> DEFINE n == Len(s)
           m == Len(t)
<1>0. PICK u : u = s \o t
  OBVIOUS
<1>1. /\ n \in Nat /\ DOMAIN s = 1..n
      /\ m \in Nat /\ DOMAIN t = 1..m
  BY LenProperties
<1>2. /\ u \in Seq(S) /\ Len(u) = n + m
      /\ \A i \in 1..n+m : u[i] = IF i <= n THEN s[i] ELSE t[i - n]
  BY <1>0, <1>1, ConcatProperties
<1>3. DOMAIN u = 1..n+m
  BY <1>2, LenProperties
<1>4. \A i \in 1..n : i \in 1..n+m /\ u[i] = s[i] /\ u[i] \in Range(s)
  BY <1>1, <1>2 DEF Range
<1>5. \A i \in n+1..n+m : i - n \in 1..m /\ u[i] = t[i - n] /\ u[i] \in Range(t)
  <2> SUFFICES ASSUME NEW i \in n+1..n+m
               PROVE  i - n \in 1..m /\ u[i] = t[i - n] /\ u[i] \in Range(t)
    OBVIOUS
  <2>1. i - n \in 1..m /\ i \in 1..n+m /\ ~(i <= n)
    BY <1>1
  <2>2. u[i] = t[i - n]
    BY <1>2, <2>1
  <2> QED
    BY <1>1, <2>1, <2>2 DEF Range
<1>6. \A i \in 1..m : i + n \in n+1..n+m /\ i + n \in 1..n+m /\ u[i + n] = t[i]
  <2> SUFFICES ASSUME NEW i \in 1..m
               PROVE  i + n \in n+1..n+m /\ i + n \in 1..n+m /\ u[i + n] = t[i]
    OBVIOUS
  <2>1. i + n \in n+1..n+m /\ i + n \in 1..n+m /\ (i + n) - n = i
    BY <1>1
  <2> QED
    BY <1>5, <2>1
<1>7. IsInjective(u)
  <2> SUFFICES ASSUME NEW i \in 1..n+m, NEW j \in 1..n+m, u[i] = u[j]
               PROVE  i = j
    BY <1>3 DEF IsInjective
  <2>1. CASE i \in 1..n /\ j \in 1..n
    BY <2>1, <1>1, <1>4 DEF IsInjective
  <2>2. CASE i \in n+1..n+m /\ j \in n+1..n+m
    <3>1. i - n = j - n
      BY <2>2, <1>1, <1>5 DEF IsInjective
    <3> QED
      BY <1>1, <3>1
  <2>3. CASE (i \in 1..n /\ j \in n+1..n+m) \/ (j \in 1..n /\ i \in n+1..n+m)
    BY <2>3, <1>4, <1>5
  <2> QED
    BY <1>1, <2>1, <2>2, <2>3
<1>8. Range(u) = Range(s) \cup Range(t)
  <2>1. ASSUME NEW e \in Range(u) PROVE e \in Range(s) \cup Range(t)
    <3>1. PICK i \in 1..n+m : e = u[i]
      BY <1>3 DEF Range
    <3>2. i \in 1..n \/ i \in n+1..n+m
      BY <1>1
    <3> QED
      BY <1>4, <1>5, <3>1, <3>2
  <2>2. ASSUME NEW e \in Range(s) PROVE e \in Range(u)
    <3>1. PICK i \in 1..n : e = s[i]
      BY <1>1 DEF Range
    <3> QED
      BY <1>3, <1>4, <3>1 DEF Range
  <2>3. ASSUME NEW e \in Range(t) PROVE e \in Range(u)
    <3>1. PICK i \in 1..m : e = t[i]
      BY <1>1 DEF Range
    <3> QED
      BY <1>3, <1>6, <3>1 DEF Range
  <2> QED
    BY <2>1, <2>2, <2>3
<1> QED
  BY <1>0, <1>2, <1>7, <1>8

(* Pushing (free_page, free_proc) something unlisted adds exactly that. *)
LEMMA PushLemma ==
  ASSUME NEW S, NEW s \in Seq(S), NEW f \in S, f \notin Range(s), IsInjective(s)
  PROVE  /\ <<f>> \o s \in Seq(S)
         /\ IsInjective(<<f>> \o s)
         /\ Range(<<f>> \o s) = Range(s) \cup {f}
<1>1. PICK u : u = <<f>>
  OBVIOUS
<1>2. u \in Seq(S) /\ IsInjective(u) /\ Range(u) = {f}
  <2>1. u \in Seq(S) /\ DOMAIN u = {1} /\ u[1] = f
    BY <1>1
  <2> QED
    BY <2>1 DEF IsInjective, Range
<1>3. \A e \in Range(u) : e \notin Range(s)
  BY <1>2
<1>4. /\ u \o s \in Seq(S)
      /\ IsInjective(u \o s)
      /\ Range(u \o s) = Range(u) \cup Range(s)
  BY <1>2, <1>3, ConcatLemma
<1> QED
  BY <1>1, <1>2, <1>4

------------------------------------------------------------------------------
(* The proofs *)

Inv ==
  /\ TypeOK
  /\ FreeListExact
  /\ ReservedNeverIssued
  /\ \A f \in Usable : count[f] >= 0

LEMMA UsableIsFrame == Usable \subseteq Frame
  BY LayoutAssumption DEF Usable, Frame

(* A run lists the frames between its bounds, each once. *)
LEMMA RunLemma ==
  ASSUME NEW a \in Int, NEW b \in Int, a <= b + 1
  PROVE  /\ Run(a, b) \in Seq(a..b)
         /\ IsInjective(Run(a, b))
         /\ Range(Run(a, b)) = a..b
<1>1. PICK n \in Nat : n = b - a + 1
  OBVIOUS
<1>2. PICK r : r = [i \in 1..n |-> a + i - 1]
  OBVIOUS
<1>3. r = Run(a, b)
  <2>1. n = IF b < a THEN 0 ELSE b - a + 1
    BY <1>1
  <2> QED
    BY <1>2, <2>1 DEF Run
<1>4. r \in [1..n -> a..b] /\ DOMAIN r = 1..n
  BY <1>1, <1>2
<1>5. r \in Seq(a..b)
  BY <1>4, SeqDef
<1>6. IsInjective(r)
  BY <1>1, <1>2 DEF IsInjective
<1>7. \A e \in a..b : e - a + 1 \in 1..n /\ r[e - a + 1] = e
  BY <1>1, <1>2
<1>8. Range(r) = a..b
  BY <1>4, <1>7 DEF Range
<1> QED
  BY <1>3, <1>6, <1>8, <1>5

(* The three loops of init_page list every managed frame exactly once. *)
LEMMA InitialListLemma ==
  /\ InitialFreeList \in Seq(Frame)
  /\ IsInjective(InitialFreeList)
  /\ Range(InitialFreeList) = Usable
<1>1. PICK a, b, c : /\ a = Run(Tramp + 1, Hole - 1)
                     /\ b = Run(1, Tramp - 1)
                     /\ c = Run(KUsed, NPages - 1)
  OBVIOUS
<1>2. /\ a \in Seq(Tramp+1..Hole-1) /\ IsInjective(a) /\ Range(a) = Tramp+1..Hole-1
      /\ b \in Seq(1..Tramp-1) /\ IsInjective(b) /\ Range(b) = 1..Tramp-1
      /\ c \in Seq(KUsed..NPages-1) /\ IsInjective(c) /\ Range(c) = KUsed..NPages-1
  <2>1. /\ Tramp + 1 \in Int /\ Hole - 1 \in Int /\ Tramp + 1 <= (Hole - 1) + 1
        /\ 1 \in Int /\ Tramp - 1 \in Int /\ 1 <= (Tramp - 1) + 1
        /\ KUsed \in Int /\ NPages - 1 \in Int /\ KUsed <= (NPages - 1) + 1
    BY LayoutAssumption
  <2> QED
    BY <1>1, <2>1, RunLemma
<1>3. /\ Tramp+1..Hole-1 \subseteq Frame
      /\ 1..Tramp-1 \subseteq Frame
      /\ KUsed..NPages-1 \subseteq Frame
  BY LayoutAssumption DEF Frame
<1>4. a \in Seq(Frame) /\ b \in Seq(Frame) /\ c \in Seq(Frame)
  BY <1>2, <1>3, SeqMonotonic
<1>5. /\ \A e \in Range(a) : e \notin Range(b)
      /\ \A e \in Range(a) \cup Range(b) : e \notin Range(c)
      /\ Range(a) \cup Range(b) \cup Range(c) = Usable
  <2>1. /\ \A e \in Tramp+1..Hole-1 : e \notin 1..Tramp-1
        /\ \A e \in (Tramp+1..Hole-1) \cup (1..Tramp-1) : e \notin KUsed..NPages-1
        /\ (Tramp+1..Hole-1) \cup (1..Tramp-1) \cup (KUsed..NPages-1) = Usable
    BY LayoutAssumption DEF Usable
  <2> QED
    BY <1>2, <2>1
<1>6. IsInjective(a) /\ IsInjective(b) /\ IsInjective(c)
  BY <1>2
<1>7. /\ a \o b \in Seq(Frame) /\ IsInjective(a \o b)
      /\ Range(a \o b) = Range(a) \cup Range(b)
  BY <1>4, <1>5, <1>6, ConcatLemma
<1>8. PICK ab : ab = a \o b
  OBVIOUS
<1>9. ab \in Seq(Frame) /\ IsInjective(ab) /\ Range(ab) = Range(a) \cup Range(b)
  BY <1>7, <1>8
<1>10. c \in Seq(Frame) /\ IsInjective(c) /\ \A e \in Range(ab) : e \notin Range(c)
  BY <1>4, <1>5, <1>6, <1>9
<1>11. /\ ab \o c \in Seq(Frame) /\ IsInjective(ab \o c)
      /\ Range(ab \o c) = Range(ab) \cup Range(c)
  BY <1>9, <1>10, ConcatLemma
<1>12. InitialFreeList = ab \o c
  BY <1>1, <1>4, <1>8, ConcatAssociative DEF InitialFreeList
<1> QED
  BY <1>5, <1>11, <1>12, <1>9

------------------------------------------------------------------------------

LEMMA InvInit == Init => Inv
<1> SUFFICES ASSUME Init PROVE Inv
  OBVIOUS
<1> USE UsableIsFrame
<1>1. Reserved \subseteq Frame /\ Reserved \cap Usable = {} /\ NoFrame \notin Frame
  BY NoFrameAssumption DEF Reserved, Frame
<1>2. TypeOK
  <2>1. PICK left \in [Reserved -> Leftover] :
          count = [f \in Frame |-> IF f \in Usable THEN 0 ELSE left[f] + 1]
    BY DEF Init
  <2>2. \A f \in Frame : f \notin Usable => left[f] \in Int
    BY LeftoverAssumption DEF Reserved
  <2>3. count \in [Frame -> Int]
    BY <2>1, <2>2
  <2> QED
    BY <2>3, InitialListLemma DEF Init, TypeOK
<1>3. \A f \in Usable : count[f] = 0
  BY DEF Init
<1>4. FreeListExact
  BY <1>3, InitialListLemma DEF Init, FreeListExact, FreeFrames
<1>5. ReservedNeverIssued
  BY <1>1, InitialListLemma DEF Init, ReservedNeverIssued, FreeFrames
<1> QED
  BY <1>2, <1>3, <1>4, <1>5 DEF Inv

LEMMA InvNext == Inv /\ [Next]_vars => Inv'
<1> SUFFICES ASSUME Inv, [Next]_vars PROVE Inv'
  OBVIOUS
<1> USE UsableIsFrame
<1>0. /\ freelist \in Seq(Frame) /\ count \in [Frame -> Int]
      /\ got \in Frame \cup {NoFrame} /\ NoFrame \notin Frame
      /\ IsInjective(freelist)
      /\ Range(freelist) = {f \in Usable : count[f] = 0}
      /\ Reserved \cap Usable = {}
  BY NoFrameAssumption DEF Inv, TypeOK, FreeListExact, FreeFrames, Reserved, Frame
<1>1. CASE AllocPage
  <2>1. CASE freelist # <<>>
    <3>1. /\ freelist' = Tail(freelist) /\ got' = Head(freelist)
          /\ count' = [count EXCEPT ![Head(freelist)] = @ + 1]
      BY <1>1, <2>1 DEF AllocPage
    <3>2. /\ Head(freelist) \in Range(freelist)
          /\ Tail(freelist) \in Seq(Frame) /\ IsInjective(Tail(freelist))
          /\ Range(Tail(freelist)) = Range(freelist) \ {Head(freelist)}
      BY <1>0, <2>1, PopLemma
    <3>3. TypeOK'
      BY <1>0, <3>1, <3>2 DEF TypeOK
    <3>4. FreeListExact' /\ \A f \in Usable : count'[f] >= 0
      BY <1>0, <3>1, <3>2 DEF FreeListExact, FreeFrames, Inv
    <3>5. ReservedNeverIssued'
      BY <1>0, <3>1, <3>2 DEF ReservedNeverIssued, FreeFrames
    <3> QED
      BY <3>3, <3>4, <3>5 DEF Inv
  <2>2. CASE freelist = <<>>
    <3>1. got' = NoFrame /\ UNCHANGED <<freelist, count>>
      BY <1>1, <2>2 DEF AllocPage
    <3> QED
      BY <1>0, <3>1 DEF Inv, TypeOK, FreeListExact, FreeFrames, ReservedNeverIssued, Reserved
  <2> QED
    BY <2>1, <2>2
<1>2. ASSUME NEW f \in Usable, SharePage(f)
      PROVE  Inv'
  <2>1. /\ count[f] > 0 /\ count' = [count EXCEPT ![f] = @ + 1]
        /\ freelist' = freelist /\ got' = got
    BY <1>0, <1>2, MaxRefsAssumption DEF SharePage
  <2>2. TypeOK'
    BY <1>0, <2>1 DEF TypeOK
  <2>3. FreeListExact' /\ \A g \in Usable : count'[g] >= 0
    BY <1>0, <2>1 DEF FreeListExact, FreeFrames, Inv
  <2>4. ReservedNeverIssued'
    BY <2>1 DEF ReservedNeverIssued, FreeFrames, Inv
  <2> QED
    BY <2>2, <2>3, <2>4 DEF Inv
<1>3. ASSUME NEW f \in Usable, FreePage(f)
      PROVE  Inv'
  <2>1. /\ count[f] > 0 /\ count' = [count EXCEPT ![f] = @ - 1] /\ got' = got
        /\ freelist' = IF count'[f] = 0 THEN <<f>> \o freelist ELSE freelist
    BY <1>3 DEF FreePage
  <2>2. f \notin Range(freelist) /\ f \in Frame
    BY <1>0, <2>1
  <2>3. /\ <<f>> \o freelist \in Seq(Frame) /\ IsInjective(<<f>> \o freelist)
        /\ Range(<<f>> \o freelist) = Range(freelist) \cup {f}
    BY <1>0, <2>2, PushLemma
  <2>4. TypeOK'
    BY <1>0, <2>1, <2>2, <2>3 DEF TypeOK
  <2>5. FreeListExact' /\ \A g \in Usable : count'[g] >= 0
    BY <1>0, <2>1, <2>2, <2>3 DEF FreeListExact, FreeFrames, Inv
  <2>6. ReservedNeverIssued'
    BY <1>0, <2>1, <2>3 DEF ReservedNeverIssued, FreeFrames, Inv
  <2> QED
    BY <2>4, <2>5, <2>6 DEF Inv
<1>4. CASE UNCHANGED vars
  BY <1>4 DEF vars, Inv, TypeOK, FreeListExact, FreeFrames, ReservedNeverIssued
<1> QED
  BY <1>1, <1>2, <1>3, <1>4 DEF Next

(* The free list is at all times exactly the set of managed frames nobody  *)
(* refers to, without repetition (alloc_page and free_page, mm.c 112-140). *)
THEOREM FreeListIsExact == Spec => [](TypeOK /\ FreeListExact)
<1>1. Spec => []Inv
  BY InvInit, InvNext, PTL DEF Spec
<1>2. Inv => TypeOK /\ FreeListExact
  BY DEF Inv
<1> QED
  BY <1>1, <1>2, PTL

(* No request is ever answered with frame 0, the trampoline frame or a     *)
(* frame of the hole or the kernel (init_page, mm.c 56-95).                *)
THEOREM ReservedFramesAreKept == Spec => []ReservedNeverIssued
<1>1. Spec => []Inv
  BY InvInit, InvNext, PTL DEF Spec
<1>2. Inv => ReservedNeverIssued
  BY DEF Inv
<1> QED
  BY <1>1, <1>2, PTL

------------------------------------------------------------------------------

LEMMA PoolInit == Init => Pool!Init
<1> SUFFICES ASSUME Init PROVE Pool!Init
  OBVIOUS
<1>1. \A f \in Usable : count[f] = 0
  BY UsableIsFrame DEF Init
<1> QED
  BY <1>1 DEF Init, Pool!Init

LEMMA PoolNext == Inv /\ [Next]_vars => [Pool!Next]_(Pool!vars)
<1> SUFFICES ASSUME Inv, [Next]_vars PROVE [Pool!Next]_(Pool!vars)
  OBVIOUS
<1> USE UsableIsFrame DEF Pool!Next, Pool!vars
<1>0. /\ count \in [Frame -> Int]
      /\ Range(freelist) = {f \in Usable : count[f] = 0}
      /\ \A f \in Usable : count[f] >= 0
      /\ freelist \in Seq(Frame) /\ IsInjective(freelist)
  BY DEF Inv, TypeOK, FreeListExact, FreeFrames
<1>1. CASE AllocPage
  <2>1. CASE freelist # <<>>
    <3>1. PICK h \in Usable : h = Head(freelist) /\ count[h] = 0
      BY <1>0, <2>1, PopLemma
    <3>2. got' = h /\ count' = [count EXCEPT ![h] = @ + 1]
      BY <1>1, <2>1, <3>1 DEF AllocPage
    <3>3. \A f \in Usable : count'[f] = IF f = h THEN 1 ELSE count[f]
      BY <1>0, <3>1, <3>2
    <3>4. [f \in Usable |-> count'[f]]
            = [[f \in Usable |-> count[f]] EXCEPT ![h] = 1]
      BY <3>3
    <3>5. Pool!Issue
      BY <3>1, <3>2, <3>4 DEF Pool!Issue
    <3> QED
      BY <3>5
  <2>2. CASE freelist = <<>>
    <3>1. got' = NoFrame /\ count' = count
      BY <1>1, <2>2 DEF AllocPage
    <3>2. Range(freelist) = {}
      BY <2>2 DEF Range
    <3>3. Pool!Refuse
      BY <1>0, <3>1, <3>2 DEF Pool!Refuse
    <3> QED
      BY <3>3
  <2> QED
    BY <2>1, <2>2
<1>2. ASSUME NEW f \in Usable, SharePage(f)
      PROVE  Pool!Next
  <2>1. count[f] > 0 /\ count' = [count EXCEPT ![f] = @ + 1] /\ got' = got
    BY <1>0, <1>2, MaxRefsAssumption DEF SharePage
  <2>2. Pool!Share(f)
    BY <1>0, <2>1 DEF Pool!Share
  <2> QED
    BY <2>2
<1>3. ASSUME NEW f \in Usable, FreePage(f)
      PROVE  Pool!Next
  <2>1. count[f] > 0 /\ count' = [count EXCEPT ![f] = @ - 1] /\ got' = got
    BY <1>3 DEF FreePage
  <2>2. Pool!Release(f)
    BY <1>0, <2>1 DEF Pool!Release
  <2> QED
    BY <2>2
<1>4. CASE UNCHANGED vars
  BY <1>4 DEF vars
<1> QED
  BY <1>1, <1>2, <1>3, <1>4 DEF Next

(* The allocator with its LIFO list implements the pool the other parts of *)
(* the kernel rely on: a frame is handed out only while unreferenced and   *)
(* NULL is answered only when every managed frame is in use.               *)
THEOREM AllocatorImplementsPool == Spec => PoolSpec
<1>1. Spec => []Inv
  BY InvInit, InvNext, PTL DEF Spec
<1> QED
  BY <1>1, PoolInit, PoolNext, PTL DEF Spec, PoolSpec, Pool!Spec
=============================================================================

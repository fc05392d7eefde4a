--------------------------- MODULE Scheduler_proof ---------------------------
(***************************************************************************)
(* Proofs about the process slots, for every size of the process table.    *)
(* Inv adds to the invariants TLC checks that slot 0 stays runnable (its   *)
(* program never exits), which is why schedule always finds a process, and *)
(* that a slot dropped by a failed fork is not in use.                     *)
(***************************************************************************)
EXTENDS Scheduler, SequenceTheorems, WellFoundedInduction, TLAPS

------------------------------------------------------------------------------
(* What popping and pushing do to a LIFO free list without repetitions, *)
(* and least elements                                                   *)

(* Popping (alloc_page, alloc_proc) takes away exactly the head. *)
LEMMA PopLemma ==
  ASSUME NEW S, NEW s \in Seq(S), s # <<>>, IsInjective(s)
  PROVE  /\ Head(s) \in S
         /\ Head(s) \in Range(s)
         /\ Tail(s) \in Seq(S)
         /\ IsInjective(Tail(s))
         /\ Range(Tail(s)) = Range(s) \ {Head(s)}
<1> DEFINE n == Len(s)
<1>1. /\ n \in Nat /\ n > 0 /\ DOMAIN s = 1..n
      /\ Head(s) = s[1] /\ Head(s) \in S
  BY LenProperties, HeadTailProperties
<1>2. /\ Tail(s) \in Seq(S)
      /\ DOMAIN Tail(s) = 1..n-1
      /\ \A i \in 1..n-1 : Tail(s)[i] = s[i + 1]
  BY <1>1, HeadTailProperties, LenProperties
<1>3. IsInjective(Tail(s))
  BY <1>1, <1>2 DEF IsInjective
<1>4. \A i \in 1..n-1 : Tail(s)[i] \in Range(s) /\ Tail(s)[i] # Head(s)
  BY <1>1, <1>2 DEF IsInjective, Range
<1>5. \A i \in 1..n : s[i] # Head(s) => i - 1 \in 1..n-1 /\ Tail(s)[i - 1] = s[i]
  BY <1>1, <1>2
<1>6. Range(Tail(s)) = Range(s) \ {Head(s)}
  <2>1. ASSUME NEW e \in Range(Tail(s)) PROVE e \in Range(s) \ {Head(s)}
    BY <1>2, <1>4 DEF Range
  <2>2. ASSUME NEW e \in Range(s) \ {Head(s)} PROVE e \in Range(Tail(s))
    <3>1. PICK i \in 1..n : e = s[i]
      BY <1>1 DEF Range
    <3> QED
      BY <1>2, <1>5, <3>1 DEF Range
  <2> QED
    BY <2>1, <2>2
<1>7. Head(s) \in Range(s)
  BY <1>1 DEF Range
<1> QED
  BY <1>1, <1>2, <1>3, <1>6, <1>7

(* Appending two lists that have nothing in common (init_page). *)
LEMMA ConcatLemma ==
  ASSUME NEW S, NEW s \in Seq(S), NEW t \in Seq(S), IsInjective(s), IsInjective(t),
         \A e \in Range(s) : e \notin Range(t)
  PROVE  /\ s \o t \in Seq(S)
         /\ IsInjective(s \o t)
         /\ Range(s \o t) = Range(s) \cup Range(t)
<1> DEFINE n == Len(s)
           m == Len(t)
<1>0. PICK u : u = s \o t
  OBVIOUS
<1>1. /\ n \in Nat /\ DOMAIN s = 1..n
      /\ m \in Nat /\ DOMAIN t = 1..m
  BY LenProperties
<1>2. /\ u \in Seq(S) /\ Len(u) = n + m
      /\ \A i \in 1..n+m : u[i] = IF i <= n THEN s[i] ELSE t[i - n]
  BY <1>0, <1>1, ConcatProperties
<1>3. DOMAIN u = 1..n+m
  BY <1>2, LenProperties
<1>4. \A i \in 1..n : i \in 1..n+m /\ u[i] = s[i] /\ u[i] \in Range(s)
  BY <1>1, <1>2 DEF Range
<1>5. \A i \in n+1..n+m : i - n \in 1..m /\ u[i] = t[i - n] /\ u[i] \in Range(t)
  <2> SUFFICES ASSUME NEW i \in n+1..n+m
               PROVE  i - n \in 1..m /\ u[i] = t[i - n] /\ u[i] \in Range(t)
    OBVIOUS
  <2>1. i - n \in 1..m /\ i \in 1..n+m /\ ~(i <= n)
    BY <1>1
  <2>2. u[i] = t[i - n]
    BY <1>2, <2>1
  <2> QED
    BY <1>1, <2>1, <2>2 DEF Range
<1>6. \A i \in 1..m : i + n \in n+1..n+m /\ i + n \in 1..n+m /\ u[i + n] = t[i]
  <2> SUFFICES ASSUME NEW i \in 1..m
               PROVE  i + n \in n+1..n+m /\ i + n \in 1..n+m /\ u[i + n] = t[i]
    OBVIOUS
  <2>1. i + n \in n+1..n+m /\ i + n \in 1..n+m /\ (i + n) - n = i
    BY <1>1
  <2> QED
    BY <1>5, <2>1
<1>7. IsInjective(u)
  <2> SUFFICES ASSUME NEW i \in 1..n+m, NEW j \in 1..n+m, u[i] = u[j]
               PROVE  i = j
    BY <1>3 DEF IsInjective
  <2>1. CASE i \in 1..n /\ j \in 1..n
    BY <2>1, <1>1, <1>4 DEF IsInjective
  <2>2. CASE i \in n+1..n+m /\ j \in n+1..n+m
    <3>1. i - n = j - n
      BY <2>2, <1>1, <1>5 DEF IsInjective
    <3> QED
      BY <1>1, <3>1
  <2>3. CASE (i \in 1..n /\ j \in n+1..n+m) \/ (j \in 1..n /\ i \in n+1..n+m)
    BY <2>3, <1>4, <1>5
  <2> QED
    BY <1>1, <2>1, <2>2, <2>3
<1>8. Range(u) = Range(s) \cup Range(t)
  <2>1. ASSUME NEW e \in Range(u) PROVE e \in Range(s) \cup Range(t)
    <3>1. PICK i \in 1..n+m : e = u[i]
      BY <1>3 DEF Range
    <3>2. i \in 1..n \/ i \in n+1..n+m
      BY <1>1
    <3> QED
      BY <1>4, <1>5, <3>1, <3>2
  <2>2. ASSUME NEW e \in Range(s) PROVE e \in Range(u)
    <3>1. PICK i \in 1..n : e = s[i]
      BY <1>1 DEF Range
    <3> QED
      BY <1>3, <1>4, <3>1 DEF Range
  <2>3. ASSUME NEW e \in Range(t) PROVE e \in Range(u)
    <3>1. PICK i \in 1..m : e = t[i]
      BY <1>1 DEF Range
    <3> QED
      BY <1>3, <1>6, <3>1 DEF Range
  <2> QED
    BY <2>1, <2>2, <2>3
<1> QED
  BY <1>0, <1>2, <1>7, <1>8

(* Pushing (free_page, free_proc) something unlisted adds exactly that. *)
LEMMA PushLemma ==
  ASSUME NEW S, NEW s \in Seq(S), NEW f \in S, f \notin Range(s), IsInjective(s)
  PROVE  /\ <<f>> \o s \in Seq(S)
         /\ IsInjective(<<f>> \o s)
         /\ Range(<<f>> \o s) = Range(s) \cup {f}
<1>1. PICK u : u = <<f>>
  OBVIOUS
<1>2. u \in Seq(S) /\ IsInjective(u) /\ Range(u) = {f}
  <2>1. u \in Seq(S) /\ DOMAIN u = {1} /\ u[1] = f
    BY <1>1
  <2> QED
    BY <2>1 DEF IsInjective, Range
<1>3. \A e \in Range(u) : e \notin Range(s)
  BY <1>2
<1>4. /\ u \o s \in Seq(S)
      /\ IsInjective(u \o s)
      /\ Range(u \o s) = Range(u) \cup Range(s)
  BY <1>2, <1>3, ConcatLemma
<1> QED
  BY <1>1, <1>2, <1>4

(* A non-empty set of natural numbers has a least element. *)
LEMMA LeastLemma ==
  ASSUME NEW T \in SUBSET Nat, T # {}
  PROVE  \E m \in T : \A k \in T : ~(k < m)
<1>1. \E m \in T : \A k \in T : ~(<<k, m>> \in OpToRel(<, Nat))
  BY NatLessThanWellFounded, WFMin
<1> QED
  BY <1>1 DEF OpToRel

------------------------------------------------------------------------------
(* The proofs *)

Inv ==
  /\ TypeOK
  /\ CurrentRunnable
  /\ FreeListExact
  /\ status[0] = "RUNNABLE"
  /\ leaked \cap Live = {}

(* The last place schedule looks at is the slot it was called for. *)
LEMMA ScanEndsAtCaller ==
  ASSUME NEW c \in Slot
  PROVE  Scan(c)[MaxProc] = c
<1>1. c \in Nat /\ c < MaxProc /\ MaxProc \in Nat /\ MaxProc > 1
  BY MaxProcAssumption DEF Slot
<1>2. (c + MaxProc) % MaxProc = c
  BY <1>1
<1> QED
  BY <1>1, <1>2 DEF Scan

(* If the slot schedule is called for is runnable, it finds a runnable one. *)
LEMMA NextProcRunnable ==
  ASSUME NEW st, NEW c \in Slot, Runnable(st, c)
  PROVE  Runnable(st, NextProc(st, c))
<1> DEFINE T == {k \in 1..MaxProc : Runnable(st, Scan(c)[k])}
<1>1. MaxProc \in T
  BY ScanEndsAtCaller, MaxProcAssumption
<1>2. PICK m \in T : \A k \in T : ~(k < m)
  <2>1. T \in SUBSET Nat /\ T # {}
    BY <1>1, MaxProcAssumption
  <2> HIDE DEF T
  <2> QED
    BY <2>1, LeastLemma
<1>3. FirstFound(st, c, m)
  <2>1. m \in 1..MaxProc /\ Runnable(st, Scan(c)[m])
    OBVIOUS
  <2>2. \A j \in 1..m-1 : j \in 1..MaxProc /\ j < m
    BY <2>1, MaxProcAssumption
  <2> QED
    BY <1>2, <2>1, <2>2 DEF FirstFound
<1>4. \E k \in 1..MaxProc : FirstFound(st, c, k)
  BY <1>3
<1>5. PICK k : k = CHOOSE j \in 1..MaxProc : FirstFound(st, c, j)
  OBVIOUS
<1>6. FirstFound(st, c, k)
  BY <1>4, <1>5
<1>7. NextProc(st, c) = Scan(c)[k]
  BY <1>4, <1>5 DEF NextProc
<1> QED
  BY <1>6, <1>7 DEF FirstFound

------------------------------------------------------------------------------

LEMMA InvInit == Init => Inv
<1> SUFFICES ASSUME Init PROVE Inv
  OBVIOUS
<1> USE MaxProcAssumption, MaxForksAssumption
<1>1. /\ 0 \in Slot /\ Live = {0} /\ status[0] = "RUNNABLE"
      /\ status \in [Slot -> Status] /\ current = 0 /\ leaked = {}
      /\ forks = 0 /\ halted = FALSE
  BY DEF Init, Slot, Live, Status
<1>2. PICK fl : fl = freelist
  OBVIOUS
<1>3. fl = [i \in 1..MaxProc-1 |-> i]
  BY <1>2 DEF Init
<1>4. fl \in [1..MaxProc-1 -> Slot] /\ MaxProc - 1 \in Nat
  BY <1>3 DEF Slot
<1>5. fl \in Seq(Slot)
  BY <1>4, SeqDef
<1>6. IsInjective(fl) /\ Range(fl) = Slot \ {0}
  <2>1. DOMAIN fl = 1..MaxProc-1 /\ Slot \ {0} = 1..MaxProc-1
    BY <1>3 DEF Slot
  <2> QED
    BY <1>3, <2>1 DEF IsInjective, Range
<1>7. TypeOK
  BY <1>1, <1>2, <1>5 DEF TypeOK
<1>8. FreeListExact
  BY <1>1, <1>2, <1>6 DEF FreeListExact
<1>9. CurrentRunnable
  BY <1>1 DEF CurrentRunnable, Runnable
<1> QED
  BY <1>1, <1>7, <1>8, <1>9 DEF Inv

(* schedule() called by a running process changes nothing but current. *)
LEMMA InvReschedule == Inv /\ Running /\ Reschedule => Inv'
<1> SUFFICES ASSUME Inv, Running, Reschedule PROVE Inv'
  OBVIOUS
<1>1. /\ current \in Slot /\ Runnable(status, current)
      /\ current' = NextProc(status, current)
      /\ status' = status /\ freelist' = freelist /\ leaked' = leaked
      /\ forks' = forks /\ halted' = halted
  BY DEF Running, Reschedule, Inv, CurrentRunnable
<1>2. Runnable(status, current')
  BY <1>1, NextProcRunnable
<1> QED
  BY <1>1, <1>2 DEF Inv, TypeOK, CurrentRunnable, FreeListExact, Live, Runnable

LEMMA InvFork == Inv /\ Fork => Inv'
<1> SUFFICES ASSUME Inv, Fork PROVE Inv'
  OBVIOUS
<1>1. /\ status \in [Slot -> Status] /\ freelist \in Seq(Slot)
      /\ current \in Slot /\ status[current] = "RUNNABLE" /\ status[0] = "RUNNABLE"
      /\ leaked \subseteq Slot /\ leaked \cap Live = {}
      /\ halted \in BOOLEAN /\ 0 \in Slot
      /\ IsInjective(freelist) /\ Range(freelist) = (Slot \ Live) \ leaked
  BY MaxProcAssumption DEF Inv, TypeOK, CurrentRunnable, Runnable, FreeListExact, Slot
<1>2. current' = current /\ forks' \in 0..MaxForks
  BY MaxForksAssumption DEF Fork, Inv, TypeOK
<1>3. CASE ForkNoSlot
  BY <1>1, <1>2, <1>3 DEF ForkNoSlot, Inv, TypeOK, CurrentRunnable, FreeListExact, Live, Runnable
<1>4. CASE ForkOK \/ ForkNoMemory
  <2>1. freelist # <<>> /\ freelist' = Tail(freelist) /\ halted' = halted
    BY <1>4 DEF ForkOK, ForkNoMemory
  <2>2. PICK s : /\ s = Head(freelist)
                 /\ s \in Slot /\ s \notin Live /\ s \notin leaked
                 /\ freelist' \in Seq(Slot) /\ IsInjective(freelist')
                 /\ Range(freelist') = Range(freelist) \ {s}
    BY <1>1, <2>1, PopLemma
  <2>3. s # current /\ s # 0
    BY <1>1, <2>2 DEF Live
  <2>4. CASE ForkOK
    <3>1. status' = [status EXCEPT ![s] = "RUNNABLE"] /\ leaked' = leaked
      BY <2>2, <2>4 DEF ForkOK
    <3>2. Live' = Live \cup {s}
      BY <1>1, <2>2, <3>1 DEF Live
    <3>3. TypeOK'
      BY <1>1, <1>2, <2>1, <2>2, <3>1 DEF TypeOK, Status
    <3>4. FreeListExact'
      BY <1>1, <2>2, <3>1, <3>2 DEF FreeListExact
    <3>5. status'[0] = "RUNNABLE" /\ CurrentRunnable'
      BY <1>1, <1>2, <2>3, <3>1 DEF CurrentRunnable, Runnable
    <3>6. leaked' \cap Live' = {}
      BY <1>1, <2>2, <3>1, <3>2
    <3> QED
      BY <3>3, <3>4, <3>5, <3>6 DEF Inv
  <2>5. CASE ForkNoMemory
    <3>1. status' = [status EXCEPT ![s] = "STOP"] /\ leaked' = leaked \cup {s}
      BY <2>2, <2>5 DEF ForkNoMemory
    <3>2. Live' = Live
      BY <1>1, <2>2, <3>1 DEF Live
    <3>3. TypeOK'
      BY <1>1, <1>2, <2>1, <2>2, <3>1 DEF TypeOK, Status
    <3>4. FreeListExact'
      BY <1>1, <2>2, <3>1, <3>2 DEF FreeListExact
    <3>5. status'[0] = "RUNNABLE" /\ CurrentRunnable'
      BY <1>1, <1>2, <2>3, <3>1 DEF CurrentRunnable, Runnable
    <3>6. leaked' \cap Live' = {}
      BY <1>1, <2>2, <3>1, <3>2
    <3> QED
      BY <3>3, <3>4, <3>5, <3>6 DEF Inv
  <2> QED
    BY <1>4, <2>4, <2>5
<1> QED
  BY <1>3, <1>4 DEF Fork

LEMMA InvExit == Inv /\ Exit => Inv'
<1> SUFFICES ASSUME Inv, Exit PROVE Inv'
  OBVIOUS
<1>1. /\ status \in [Slot -> Status] /\ freelist \in Seq(Slot)
      /\ current \in Slot /\ status[current] = "RUNNABLE" /\ status[0] = "RUNNABLE"
      /\ leaked \subseteq Slot /\ leaked \cap Live = {} /\ 0 \in Slot
      /\ IsInjective(freelist) /\ Range(freelist) = (Slot \ Live) \ leaked
  BY MaxProcAssumption DEF Inv, TypeOK, CurrentRunnable, Runnable, FreeListExact, Slot
<1>2. /\ current # 0 /\ freelist' = <<current>> \o freelist
      /\ status' = [status EXCEPT ![current] = "STOP"]
      /\ current' = NextProc(status', 0)
      /\ leaked' = leaked /\ forks' = forks /\ halted' = halted
  BY DEF Exit
<1>3. current \in Live /\ current \notin Range(freelist) /\ Live' = Live \ {current}
  BY <1>1, <1>2 DEF Live
<1>4. /\ freelist' \in Seq(Slot) /\ IsInjective(freelist')
      /\ Range(freelist') = Range(freelist) \cup {current}
  BY <1>1, <1>2, <1>3, PushLemma
<1>5. status'[0] = "RUNNABLE" /\ status' \in [Slot -> Status]
  BY <1>1, <1>2 DEF Status
<1>6. Runnable(status', current')
  BY <1>1, <1>2, <1>5, NextProcRunnable DEF Runnable
<1>7. TypeOK'
  BY <1>2, <1>4, <1>5, <1>6 DEF Inv, TypeOK, Runnable
<1>8. FreeListExact'
  BY <1>1, <1>2, <1>3, <1>4 DEF FreeListExact
<1>9. leaked' \cap Live' = {}
  BY <1>1, <1>2, <1>3
<1> QED
  BY <1>5, <1>6, <1>7, <1>8, <1>9 DEF Inv, CurrentRunnable

LEMMA InvNext == Inv /\ [Next]_vars => Inv'
<1> SUFFICES ASSUME Inv, [Next]_vars PROVE Inv'
  OBVIOUS
<1>1. CASE Timer
  BY <1>1, InvReschedule DEF Timer
<1>2. CASE Yield
  BY <1>2, InvReschedule DEF Yield
<1>3. CASE Fork
  BY <1>3, InvFork
<1>4. CASE UNCHANGED vars
  BY <1>4 DEF vars, Inv, TypeOK, CurrentRunnable, FreeListExact, Live, Runnable
<1>5. ASSUME NEW t \in 0..MaxProc, Waitpid(t)
      PROVE  Inv'
  BY <1>4, <1>5, InvReschedule DEF Waitpid
<1>6. CASE Exit
  BY <1>6, InvExit
<1> QED
  BY <1>1, <1>2, <1>3, <1>4, <1>5, <1>6 DEF Next

(* The process table is well formed, the processor is always with a       *)
(* runnable process, and the free list is exactly the set of slots that   *)
(* can be given to a new process (alloc_proc, free_proc, schedule).       *)
THEOREM ProcessTableIsSound ==
  Spec => [](TypeOK /\ CurrentRunnable /\ FreeListExact)
<1>1. Spec => []Inv
  BY InvInit, InvNext, PTL DEF Spec
<1>2. Inv => TypeOK /\ CurrentRunnable /\ FreeListExact
  BY DEF Inv
<1> QED
  BY <1>1, <1>2, PTL

------------------------------------------------------------------------------

LEMMA TableInit == Init => Table!Init
<1> SUFFICES ASSUME Init PROVE Table!Init
  OBVIOUS
<1>1. Live = {0}
  BY MaxProcAssumption DEF Init, Live, Slot
<1> QED
  BY <1>1 DEF Init, Table!Init

LEMMA TableReschedule == Inv /\ Inv' /\ Reschedule => Table!Switch
<1> SUFFICES ASSUME Inv, Inv', Reschedule PROVE Table!Switch
  OBVIOUS
<1>1. current' \in Live' /\ Live' = Live
  BY DEF Inv, CurrentRunnable, Runnable, Live, Reschedule
<1> QED
  BY <1>1 DEF Table!Switch

LEMMA TableNext == Inv /\ Inv' /\ [Next]_vars => [Table!Next]_(Table!vars)
<1> SUFFICES ASSUME Inv, Inv', [Next]_vars PROVE [Table!Next]_(Table!vars)
  OBVIOUS
<1> USE DEF Table!Next, Table!vars
<1>1. CASE Timer \/ Yield
  BY <1>1, TableReschedule DEF Timer, Yield
<1>2. CASE Fork
  <2>1. /\ current' = current /\ status \in [Slot -> Status] /\ freelist \in Seq(Slot)
        /\ IsInjective(freelist) /\ Range(freelist) = (Slot \ Live) \ leaked
    BY <1>2 DEF Fork, Inv, TypeOK, FreeListExact
  <2>2. CASE ForkNoSlot
    BY <2>1, <2>2 DEF ForkNoSlot, Live
  <2>3. CASE freelist # <<>>
    <3>1. PICK s \in Slot \ Live : s = Head(freelist)
      BY <2>1, <2>3, PopLemma
    <3>2. CASE ForkOK
      <4>1. Live' = Live \cup {s}
        BY <2>1, <3>1, <3>2 DEF ForkOK, Live
      <4>2. Table!Create
        BY <2>1, <3>1, <4>1 DEF Table!Create
      <4> QED
        BY <4>2
    <3>3. CASE ForkNoMemory
      <4>1. Live' = Live
        BY <2>1, <3>1, <3>3 DEF ForkNoMemory, Live
      <4> QED
        BY <2>1, <4>1
    <3> QED
      BY <1>2, <2>2, <3>2, <3>3 DEF Fork
  <2> QED
    BY <1>2, <2>2, <2>3 DEF Fork, ForkOK, ForkNoMemory
<1>3. CASE UNCHANGED vars
  BY <1>3 DEF vars, Live
<1>4. ASSUME NEW t \in 0..MaxProc, Waitpid(t)
      PROVE  [Table!Next]_(Table!vars)
  BY <1>3, <1>4, TableReschedule DEF Waitpid
<1>5. CASE Exit
  <2>1. status \in [Slot -> Status] /\ status' = [status EXCEPT ![current] = "STOP"]
    BY <1>5 DEF Exit, Inv, TypeOK
  <2>2. current \in Slot /\ Runnable(status', current')
    BY DEF Inv, CurrentRunnable, Runnable
  <2>3. Live' = Live \ {current} /\ current' \in Live'
    BY <2>1, <2>2 DEF Live, Runnable
  <2>4. Table!Leave
    BY <2>3 DEF Table!Leave
  <2> QED
    BY <2>4
<1> QED
  BY <1>1, <1>2, <1>3, <1>4, <1>5 DEF Next

(* Slots, status fields, free list and the scan of schedule implement the  *)
(* abstract process table: fork never lands on a live process, only exit   *)
(* removes one, and the processor goes to live processes only.             *)
THEOREM SchedulerImplementsTable == Spec => TableSpec
<1>1. Spec => []Inv
  BY InvInit, InvNext, PTL DEF Spec
<1> QED
  BY <1>1, TableInit, TableNext, PTL DEF Spec, TableSpec, Table!Spec
=============================================================================

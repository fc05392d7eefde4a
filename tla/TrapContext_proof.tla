------------------------- MODULE TrapContext_proof -------------------------
(***************************************************************************)
(* What is proved of the register contexts: for any number of processes    *)
(* and any data, a process that never loses the processor in an exception  *)
(* handler finds its own registers and the answers to its own calls.       *)
(***************************************************************************)
EXTENDS TrapContext, TLAPS

(* A handler has in the frame what the process had when it trapped, since  *)
(* no other has trapped: whoever does, preempts it.                        *)
Handling == mode # "user" => frame = regs

(* Everyone else is resumed in user mode, but for those preempted in a     *)
(* handler.                                                                *)
Resumable == \A p \in live \ (preempted \cup {current}) : pregs[p].at = "user"

Inv == TypeOK /\ Handling /\ Resumable

LEMMA ProcIsResult == First \in Proc /\ Proc \subseteq Result /\ 0 \in Result /\ Late \in Result
BY ConstantsAssumption DEF First, Proc, Result

LEMMA NoRegs == Dead # Lost /\ Dead \notin Regs /\ Lost \notin Regs
BY ConstantsAssumption DEF Regs, Result

(* What an answered call leaves in the registers. *)
LEMMA Answers ==
  ASSUME regs \in Regs, NEW x \in Result
  PROVE  /\ Called \in Regs /\ Answered(x) \in Regs
         /\ Answered(x) = [data |-> regs.data, rax |-> x]
         /\ Called = [data |-> regs.data, rax |-> Late]
<1>1. Late \in Result
  BY ProcIsResult
<1>2. regs = [data |-> regs.data, rax |-> regs.rax] /\ regs.data \in Data
  BY DEF Regs
<1>3. Called = [data |-> regs.data, rax |-> Late]
  BY <1>2 DEF Called
<1>4. Answered(x) = [data |-> regs.data, rax |-> x]
  BY <1>3 DEF Answered
<1> QED
  BY <1>1, <1>2, <1>3, <1>4 DEF Regs

(* schedule resumes a live process where its pregs say: in user mode, with *)
(* the registers there; in a handler, with those in the frame.             *)
LEMMA Resumed ==
  ASSUME frame' \in Regs, live' \subseteq Proc,
         pregs' \in [Proc -> [at : {"user", "entry", "body"}, regs : Regs]],
         Dispatch
  PROVE  /\ current' \in live' /\ mode' \in {"user", "entry", "body"} /\ regs' \in Regs
         /\ mode' = pregs'[current'].at
         /\ mode' = "user" => regs' = pregs'[current'].regs
         /\ mode' # "user" => regs' = frame'
<1>1. PICK q \in live' : /\ current' = q /\ mode' = pregs'[q].at
                         /\ regs' = IF mode' = "user" THEN pregs'[q].regs ELSE frame'
  BY DEF Dispatch
<1>2. pregs'[q].at \in {"user", "entry", "body"} /\ pregs'[q].regs \in Regs
  OBVIOUS
<1> QED
  BY <1>1, <1>2

LEMMA InvInit == Init => Inv
<1> SUFFICES ASSUME Init PROVE Inv
  OBVIOUS
<1>1. regs \in Regs
  BY ProcIsResult, ConstantsAssumption DEF Init, Regs
<1>2. TypeOK
  BY <1>1, ProcIsResult DEF Init, TypeOK, User
<1>3. Handling /\ Resumable
  BY DEF Init, Handling, Resumable
<1> QED
  BY <1>2, <1>3 DEF Inv

(* A step that gives the processor away: the current process is saved in   *)
(* user mode, or counted as preempted.                                     *)
LEMMA InvSwitch ==
  ASSUME Inv, NEW m \in {"user", "entry", "body"}, NEW r \in Regs,
         pregs' = [pregs EXCEPT ![current] = [at |-> m, regs |-> r]],
         frame' \in Regs, live' \in SUBSET live, preempted' \in SUBSET live',
         preempted \cap live' \subseteq preempted',
         m # "user" /\ current' # current => current \in preempted', Dispatch
  PROVE  Inv'
<1>1. pregs' \in [Proc -> [at : {"user", "entry", "body"}, regs : Regs]] /\ live' \subseteq Proc
  BY DEF Inv, TypeOK
<1>2. /\ current' \in live' /\ mode' \in {"user", "entry", "body"} /\ regs' \in Regs
      /\ mode' # "user" => regs' = frame'
  BY <1>1, Resumed
<1>3. TypeOK'
  BY <1>1, <1>2 DEF TypeOK
<1>4. Resumable'
  <2> SUFFICES ASSUME NEW p \in live', p \notin preempted', p # current' PROVE pregs'[p].at = "user"
    BY DEF Resumable
  <2>1. p \in Proc /\ current \in Proc /\ p \in live /\ p \notin preempted
    BY DEF Inv, TypeOK
  <2>2. CASE p = current
    BY <2>1, <2>2 DEF Inv, TypeOK
  <2>3. CASE p # current
    BY <2>1, <2>3 DEF Inv, TypeOK, Resumable
  <2> QED
    BY <2>2, <2>3
<1> QED
  BY <1>2, <1>3, <1>4 DEF Inv, Handling

(* A step that keeps the processor. *)
LEMMA InvKeep ==
  ASSUME Inv, NEW m \in {"user", "entry", "body"}, NEW r \in Regs,
         pregs' = [pregs EXCEPT ![current] = [at |-> m, regs |-> r]] \/ pregs' = pregs,
         UNCHANGED <<live, current, preempted>>,
         regs' \in Regs, frame' \in Regs, mode' \in {"user", "entry", "body"},
         mode' # "user" => frame' = regs'
  PROVE  Inv'
<1>1. current \in Proc /\ live \subseteq Proc
  BY DEF Inv, TypeOK
<1>2. pregs' \in [Proc -> [at : {"user", "entry", "body"}, regs : Regs]]
  BY <1>1 DEF Inv, TypeOK
<1>3. TypeOK'
  BY <1>2 DEF Inv, TypeOK
<1>4. \A p \in Proc \ {current} : pregs'[p] = pregs[p]
  BY <1>1 DEF Inv, TypeOK
<1>5. Resumable'
  BY <1>1, <1>4 DEF Inv, Resumable
<1> QED
  BY <1>3, <1>5 DEF Inv, Handling

LEMMA InvNext == Inv /\ [Next]_vars => Inv'
<1> SUFFICES ASSUME Inv, [Next]_vars PROVE Inv'
  OBVIOUS
<1>0. TypeOK /\ regs \in Regs /\ frame \in Regs /\ current \in live
  BY DEF Inv, TypeOK
<1>1. CASE Compute
  <2>1. regs' \in Regs
    BY <1>0, <1>1 DEF Compute, Regs
  <2> QED
    BY <1>0, <1>1, <2>1, InvKeep DEF Compute
<1>2. CASE TimerInUser
  BY <1>0, <1>2, InvSwitch DEF TimerInUser, Saved, User, TypeOK
<1>3. CASE TimerInHandler
  <2>1. preempted' \in SUBSET live /\ preempted \subseteq preempted'
        /\ (current' # current => current \in preempted')
    BY <1>0, <1>3 DEF TimerInHandler, TypeOK
  <2> QED
    BY <1>0, <1>3, <2>1, InvSwitch DEF TimerInHandler, TypeOK
<1>4. CASE Keyboard
  <2>1. CASE mode = "user"
    BY <1>0, <1>4, <2>1, InvKeep DEF Keyboard, Saved, User
  <2>2. CASE mode # "user"
    BY <1>0, <1>4, <2>2, InvKeep DEF Keyboard, Inv, Handling, TypeOK
  <2> QED
    BY <2>1, <2>2
<1>5. CASE FaultEntry
  BY <1>0, <1>5, InvKeep DEF FaultEntry
<1>6. CASE FaultSave
  BY <1>0, <1>6, InvKeep DEF FaultSave, Saved, User, Inv, Handling
<1>7. CASE FaultReturn
  BY <1>0, <1>7, InvKeep DEF FaultReturn
<1>8. ASSUME NEW x \in Result \ {Late}, Syscall(x) PROVE Inv'
  <2>1. Called \in Regs /\ Answered(x) \in Regs
    BY <1>0, Answers
  <2>2. mode = "user" /\ mode' = mode /\ regs' = Answered(x) /\ frame' = Answered(x)
        /\ pregs' = [pregs EXCEPT ![current] = [at |-> "user", regs |-> Called]]
        /\ UNCHANGED <<live, current, preempted>>
    BY <1>8 DEF Syscall, Saved, User
  <2> QED
    BY <2>1, <2>2, InvKeep
<1>9. CASE Yield
  <2>1. Called \in Regs
    BY <1>0, ProcIsResult, Answers
  <2>2. frame' = Called /\ UNCHANGED <<live, preempted>> /\ Dispatch
        /\ pregs' = [pregs EXCEPT ![current] = [at |-> "user", regs |-> Called]]
    BY <1>9 DEF Yield, Saved, User
  <2> QED
    BY <1>0, <2>1, <2>2, InvSwitch DEF TypeOK
<1>10. ASSUME NEW c \in Proc, Fork(c) PROVE Inv'
  <2>1. c \in Result /\ Called \in Regs /\ Answered(c) \in Regs /\ ChildRegs(c) \in Regs
    BY <1>0, ProcIsResult, Answers DEF ChildRegs, Answered
  <2>2. /\ c \notin live /\ live' = live \cup {c} /\ mode' = "user"
        /\ pregs' = [pregs EXCEPT ![current] = [at |-> "user", regs |-> Called],
                                  ![c] = [at |-> "user", regs |-> ChildRegs(c)]]
        /\ regs' = Answered(c) /\ frame' = Answered(c)
        /\ UNCHANGED <<current, preempted>>
    BY <1>10 DEF Fork, Saved, User
  <2>3. pregs' \in [Proc -> [at : {"user", "entry", "body"}, regs : Regs]]
    BY <1>0, <2>1, <2>2 DEF TypeOK
  <2>4. TypeOK'
    BY <1>0, <2>1, <2>2, <2>3 DEF TypeOK
  <2>5. Resumable'
    BY <1>0, <2>2 DEF Inv, Resumable, TypeOK
  <2> QED
    BY <2>2, <2>4, <2>5 DEF Inv, Handling
<1>11. CASE Exec
  <2>1. Called \in Regs /\ [Called EXCEPT !.data = Entry] \in Regs
    BY <1>0, ProcIsResult, Answers, ConstantsAssumption DEF Regs
  <2>2. PICK r \in Regs : r = [Called EXCEPT !.data = Entry]
    BY <2>1
  <2>3. mode = "user" /\ mode' = mode /\ regs' = r /\ frame' = Called
        /\ pregs' = [pregs EXCEPT ![current] = [at |-> "user", regs |-> r]]
        /\ UNCHANGED <<live, current, preempted>>
    BY <1>11, <2>2 DEF Exec, Saved, User
  <2> QED
    BY <2>1, <2>3, InvKeep
<1>12. CASE Exit
  <2>1. Called \in Regs
    BY <1>0, ProcIsResult, Answers
  <2>2. /\ live' = live \ {current} /\ frame' = Called /\ preempted' = preempted \ {current}
        /\ Dispatch
        /\ pregs' = [pregs EXCEPT ![current] = [at |-> "user", regs |-> Called]]
    BY <1>12 DEF Exit, Saved, User
  <2> QED
    BY <1>0, <2>1, <2>2, InvSwitch DEF TypeOK
<1>13. CASE UNCHANGED vars
  BY <1>0, <1>13, InvKeep DEF vars, Inv, TypeOK, Handling
<1> QED
  BY <1>1, <1>2, <1>3, <1>4, <1>5, <1>6, <1>7, <1>8, <1>9, <1>10, <1>11, <1>12, <1>13 DEF Next
------------------------------------------------------------------------------
(* The registers of the processes *)

View == [p \in Proc |-> RegsOf(p)]
Trapped == IF mode = "user" THEN {} ELSE {current}

(* The registers of the running process, unless it has lost them. *)
LEMMA RunningRegs ==
  ASSUME Inv
  PROVE  /\ current \in Proc /\ View[current] # Dead
         /\ current \notin preempted => View[current] = regs
         /\ current \in preempted => View[current] = Lost
BY NoRegs DEF Inv, TypeOK, View, RegsOf

(* A step leaves the view of everyone but the current process alone when   *)
(* it changes the pregs and the state of no other.                         *)
LEMMA OthersKept ==
  ASSUME Inv, NEW p \in Proc, p # current, p # current',
         pregs'[p] = pregs[p], p \in live' <=> p \in live, p \in preempted' <=> p \in preempted
  PROVE  View'[p] = View[p]
BY DEF View, RegsOf

(* Dispatch itself is no step of a process: whoever is resumed in user     *)
(* mode finds the registers it had.                                        *)
LEMMA SwitchKeeps ==
  ASSUME Inv, NEW m \in {"user", "entry", "body"}, NEW r \in Regs,
         pregs' = [pregs EXCEPT ![current] = [at |-> m, regs |-> r]],
         frame' \in Regs, live' \in SUBSET live, Dispatch,
         \A p \in Proc \ {current} : /\ p \in live' <=> p \in live
                                     /\ p \in preempted' <=> p \in preempted,
         m = "user" \/ current' = current => (m # "user" => frame' = r),
         m # "user" /\ current' # current => current \in preempted'
  PROVE  /\ \A p \in Proc \ {current} : View'[p] = View[p]
         /\ View'[current] = IF current \notin live' THEN Dead
                             ELSE IF current \in preempted' THEN Lost ELSE r
<1>1. pregs' \in [Proc -> [at : {"user", "entry", "body"}, regs : Regs]] /\ live' \subseteq Proc
      /\ current \in Proc
  BY DEF Inv, TypeOK
<1>2. /\ current' \in live' /\ mode' = pregs'[current'].at
      /\ mode' = "user" => regs' = pregs'[current'].regs
      /\ mode' # "user" => regs' = frame'
  BY <1>1, Resumed
<1>3. /\ pregs'[current] = [at |-> m, regs |-> r]
      /\ \A p \in Proc \ {current} : pregs'[p] = pregs[p]
  BY <1>1 DEF Inv, TypeOK
<1>4. ASSUME NEW p \in Proc \ {current} PROVE View'[p] = View[p]
  <2>1. CASE p # current'
    BY <1>3, <2>1, OthersKept
  <2>2. CASE p = current' /\ p \notin preempted
    <3>1. pregs[p].at = "user" /\ p \in live /\ p \notin preempted'
      BY <1>2, <2>2 DEF Inv, Resumable
    <3>2. regs' = pregs[p].regs
      BY <1>2, <1>3, <2>2, <3>1
    <3> QED
      BY <1>2, <2>2, <3>1, <3>2 DEF View, RegsOf
  <2>3. CASE p = current' /\ p \in preempted
    BY <1>2, <2>3 DEF View, RegsOf
  <2> QED
    BY <2>1, <2>2, <2>3
<1>5. View'[current] = IF current \notin live' THEN Dead
                       ELSE IF current \in preempted' THEN Lost ELSE r
  <2>1. CASE current' # current
    BY <1>1, <1>3, <2>1 DEF View, RegsOf
  <2>2. CASE current' = current
    <3>1. regs' = r
      BY <1>2, <1>3, <2>2
    <3> QED
      BY <1>1, <1>2, <2>2, <3>1 DEF View, RegsOf
  <2> QED
    BY <2>1, <2>2
<1> QED
  BY <1>4, <1>5

(* The steps of Registers, on the view. *)
Gets(v, w, p, r) == w = [v EXCEPT ![p] = IF v[p] = Lost THEN Lost ELSE r]
Forks(v, w, p, c) ==
  IF v[p] = Lost
  THEN \E r \in Regs \cup {Lost} : w = [v EXCEPT ![c] = r]
  ELSE w = [v EXCEPT ![p].rax = c, ![c] = [v[p] EXCEPT !.rax = 0]]

LEMMA ContextIs ==
  /\ Context!Init <=> /\ Trapped = {}
                      /\ \E r \in Regs : View = [p \in Proc |-> IF p = First THEN r ELSE Dead]
  /\ Context!Next <=>
       /\ \/ \E p \in Proc \ Trapped :
               \/ View[p] # Dead /\ \E d \in Data : Gets(View, View', p, [View[p] EXCEPT !.data = d])
               \/ View[p] # Dead /\ \E x \in Result : Gets(View, View', p, [View[p] EXCEPT !.rax = x])
               \/ View[p] # Dead /\ Gets(View, View', p, [data |-> Entry, rax |-> Late])
               \/ View[p] # Dead /\ View' = [View EXCEPT ![p] = Dead]
               \/ \E c \in Proc : /\ View[p] # Dead /\ View[c] = Dead
                                  /\ Forks(View, View', p, c)
          \/ \E p \in Trapped : View' = [View EXCEPT ![p] = Lost]
          \/ UNCHANGED View
       /\ Trapped' \in SUBSET Proc
  /\ UNCHANGED Context!vars <=> UNCHANGED <<View, Trapped>>
BY DEF Context!Init, Context!Next, Context!Compute, Context!Answer, Context!Exec, Context!Exit,
       Context!Fork, Context!Alive, Context!Set, Context!Regs, Context!vars, Regs, View, Trapped,
       Gets, Forks

(* The view after a step that keeps the processor. *)
LEMMA KeptView ==
  ASSUME Inv, UNCHANGED <<live, current, preempted>>,
         \A p \in Proc \ {current} : pregs'[p] = pregs[p]
  PROVE  /\ \A p \in Proc \ {current} : View'[p] = View[p]
         /\ View'[current] = IF current \in preempted THEN Lost ELSE regs'
<1>1. current \in Proc /\ current \in live
  BY DEF Inv, TypeOK
<1>2. \A p \in Proc \ {current} : View'[p] = View[p]
  BY OthersKept
<1>3. View'[current] = IF current \in preempted THEN Lost ELSE regs'
  BY <1>1 DEF View, RegsOf
<1> QED
  BY <1>2, <1>3

LEMMA GetsOne ==
  ASSUME NEW p \in Proc, NEW r,
         \A q \in Proc \ {p} : View'[q] = View[q],
         View'[p] = IF View[p] = Lost THEN Lost ELSE r
  PROVE  Gets(View, View', p, r)
BY DEF Gets, View

LEMMA SameView ==
  ASSUME \A p \in Proc : View'[p] = View[p]
  PROVE  UNCHANGED View
BY DEF View

LEMMA StepContext == Inv /\ Inv' /\ [Next]_vars => Context!Next \/ UNCHANGED Context!vars
<1> SUFFICES ASSUME Inv, Inv', [Next]_vars PROVE Context!Next
  OBVIOUS
<1>0. /\ current \in Proc /\ current \in live /\ current' \in Proc
      /\ regs \in Regs /\ frame \in Regs /\ View[current] # Dead
      /\ current \notin preempted => View[current] = regs
      /\ current \in preempted => View[current] = Lost
      /\ Dead # Lost /\ Dead \notin Regs /\ Lost \notin Regs /\ preempted \subseteq live
  BY RunningRegs, NoRegs DEF Inv, TypeOK
<1>01. Trapped' \in SUBSET Proc
  BY <1>0 DEF Trapped
<1>02. ASSUME UNCHANGED View PROVE Context!Next
  BY <1>01, <1>02, ContextIs
<1>03. ASSUME mode = "user", NEW r, Gets(View, View', current, r),
              \/ \E d \in Data : r = [View[current] EXCEPT !.data = d]
              \/ \E x \in Result : r = [View[current] EXCEPT !.rax = x]
              \/ r = [data |-> Entry, rax |-> Late]
       PROVE  Context!Next
  <2>1. current \in Proc \ Trapped
    BY <1>0, <1>03 DEF Trapped
  <2> QED
    BY <1>0, <1>01, <1>03, <2>1, ContextIs
<1>1. CASE Compute
  <2>1. PICK d \in Data : regs' = [regs EXCEPT !.data = d]
    BY <1>1 DEF Compute
  <2>2. /\ \A p \in Proc \ {current} : View'[p] = View[p]
        /\ View'[current] = IF current \in preempted THEN Lost ELSE regs'
    BY <1>1, KeptView DEF Compute
  <2>3. PICK r : r = [View[current] EXCEPT !.data = d]
    OBVIOUS
  <2>4. View'[current] = IF View[current] = Lost THEN Lost ELSE r
    BY <1>0, <2>1, <2>2, <2>3
  <2>5. Gets(View, View', current, r)
    BY <1>0, <2>2, <2>4, GetsOne
  <2> QED
    BY <1>1, <1>03, <2>3, <2>5 DEF Compute
<1>2. CASE TimerInUser
  <2>1. /\ pregs' = [pregs EXCEPT ![current] = [at |-> "user", regs |-> regs]]
        /\ frame' \in Regs /\ UNCHANGED <<live, preempted>> /\ Dispatch
    BY <1>0, <1>2 DEF TimerInUser, Saved, User
  <2>2. /\ \A p \in Proc \ {current} : View'[p] = View[p]
        /\ View'[current] = IF current \notin live THEN Dead
                            ELSE IF current \in preempted THEN Lost ELSE regs
    BY <1>0, <2>1, SwitchKeeps
  <2>3. View'[current] = View[current]
    BY <1>0, <2>2
  <2> QED
    BY <1>02, <2>2, <2>3, SameView
<1>3. CASE TimerInHandler
  <2>1. /\ mode # "user" /\ mode \in {"user", "entry", "body"} /\ regs = frame
        /\ pregs' = [pregs EXCEPT ![current] = [at |-> mode, regs |-> frame]]
        /\ UNCHANGED <<live, frame>> /\ Dispatch
        /\ preempted' = IF current' = current THEN preempted ELSE preempted \cup {current}
    BY <1>3 DEF TimerInHandler, Inv, Handling, TypeOK
  <2>2. /\ \A p \in Proc \ {current} : View'[p] = View[p]
        /\ View'[current] = IF current \notin live THEN Dead
                            ELSE IF current \in preempted' THEN Lost ELSE frame
    <3>1. current' # current => current \in preempted'
      BY <2>1
    <3>2. \A p \in Proc \ {current} : p \in preempted' <=> p \in preempted
      BY <2>1
    <3> QED
      BY <1>0, <2>1, <3>1, <3>2, SwitchKeeps
  <2>3. CASE current' = current
    <3>1. View'[current] = View[current]
      BY <1>0, <2>1, <2>2, <2>3
    <3> QED
      BY <1>02, <2>2, <3>1, SameView
  <2>4. CASE current' # current
    <3>1. View'[current] = Lost
      BY <1>0, <2>1, <2>2, <2>4
    <3>2. View' = [View EXCEPT ![current] = Lost]
      BY <2>2, <3>1 DEF View
    <3>3. current \in Trapped
      BY <2>1 DEF Trapped
    <3> QED
      BY <1>01, <3>2, <3>3, ContextIs
  <2> QED
    BY <2>3, <2>4
<1>4. CASE Keyboard \/ FaultEntry \/ FaultSave
  <2>1. UNCHANGED <<live, current, regs, preempted>> /\ \A p \in Proc \ {current} : pregs'[p] = pregs[p]
    BY <1>4 DEF Keyboard, FaultEntry, FaultSave, Saved, Inv, TypeOK
  <2>2. \A p \in Proc : View'[p] = View[p]
    BY <1>0, <2>1, KeptView
  <2> QED
    BY <1>02, <2>2, SameView
<1>5. CASE FaultReturn
  <2>1. UNCHANGED <<live, current, preempted, pregs>> /\ regs' = regs
    BY <1>5 DEF FaultReturn, Inv, Handling
  <2>2. \A p \in Proc : View'[p] = View[p]
    BY <1>0, <2>1, KeptView
  <2> QED
    BY <1>02, <2>2, SameView
<1>6. ASSUME NEW x \in Result \ {Late}, Syscall(x) PROVE Context!Next
  <2>1. regs' = [data |-> regs.data, rax |-> x] /\ UNCHANGED <<live, current, preempted>>
        /\ mode = "user" /\ \A p \in Proc \ {current} : pregs'[p] = pregs[p]
    BY <1>0, <1>6, Answers DEF Syscall, Saved, Inv, TypeOK
  <2>2. /\ \A p \in Proc \ {current} : View'[p] = View[p]
        /\ View'[current] = IF current \in preempted THEN Lost ELSE regs'
    BY <2>1, KeptView
  <2>3. PICK r : r = [View[current] EXCEPT !.rax = x]
    OBVIOUS
  <2>4. [regs EXCEPT !.rax = x] = [data |-> regs.data, rax |-> x]
    BY <1>0 DEF Regs
  <2>5. View'[current] = IF View[current] = Lost THEN Lost ELSE r
    BY <1>0, <2>1, <2>2, <2>3, <2>4
  <2>6. Gets(View, View', current, r)
    BY <1>0, <2>2, <2>5, GetsOne
  <2> QED
    BY <1>03, <2>1, <2>3, <2>6
<1>7. CASE Yield
  <2>1. PICK r \in Regs : r = Called /\ r = [data |-> regs.data, rax |-> Late]
    BY <1>0, ProcIsResult, Answers
  <2>2. /\ mode = "user" /\ frame' \in Regs /\ UNCHANGED <<live, preempted>> /\ Dispatch
        /\ pregs' = [pregs EXCEPT ![current] = [at |-> "user", regs |-> r]]
    BY <1>7, <2>1 DEF Yield, Saved, User
  <2>3. /\ \A p \in Proc \ {current} : View'[p] = View[p]
        /\ View'[current] = IF current \notin live THEN Dead
                            ELSE IF current \in preempted THEN Lost ELSE r
    BY <1>0, <2>2, SwitchKeeps
  <2>4. PICK s : s = [View[current] EXCEPT !.rax = Late]
    OBVIOUS
  <2>5. [regs EXCEPT !.rax = Late] = [data |-> regs.data, rax |-> Late]
    BY <1>0 DEF Regs
  <2>6. View'[current] = IF View[current] = Lost THEN Lost ELSE s
    BY <1>0, <2>1, <2>3, <2>4, <2>5
  <2>7. Gets(View, View', current, s)
    BY <1>0, <2>3, <2>6, GetsOne
  <2> QED
    BY <1>03, <2>2, <2>4, <2>7, ProcIsResult
<1>8. ASSUME NEW c \in Proc, Fork(c) PROVE Context!Next
  <2>1. /\ mode = "user" /\ c \notin live /\ live' = live \cup {c} /\ UNCHANGED <<current, preempted>>
        /\ pregs' = [Saved(Called) EXCEPT ![c] = User(ChildRegs(c))]
        /\ regs' = Answered(c)
    BY <1>8 DEF Fork
  <2>2. /\ regs' = [data |-> regs.data, rax |-> c]
        /\ ChildRegs(c) = [data |-> regs.data, rax |-> 0] /\ ChildRegs(c) \in Regs
    BY <1>0, <2>1, ProcIsResult, Answers DEF ChildRegs, Regs
  <2>3. /\ \A p \in Proc \ {current, c} : pregs'[p] = pregs[p]
        /\ pregs'[c].regs = ChildRegs(c) /\ c # current
    BY <1>0, <2>1 DEF Saved, User, Inv, TypeOK
  <2>4. \A p \in Proc \ {current, c} : View'[p] = View[p]
    BY <2>1, <2>3, OthersKept
  <2>5. View[c] = Dead /\ View'[c] = ChildRegs(c)
    BY <1>0, <2>1, <2>3 DEF View, RegsOf
  <2>6. View'[current] = IF current \in preempted THEN Lost ELSE regs'
    BY <1>0, <2>1 DEF View, RegsOf
  <2>7. Forks(View, View', current, c)
    <3>1. CASE current \in preempted
      <4>1. View' = [View EXCEPT ![c] = ChildRegs(c)]
        BY <1>0, <2>3, <2>4, <2>5, <2>6, <3>1 DEF View
      <4> QED
        BY <1>0, <2>2, <3>1, <4>1 DEF Forks
    <3>2. CASE current \notin preempted
      <4>1. View[current] = regs /\ View'[current] = regs'
        BY <1>0, <2>6, <3>2
      <4>2. /\ [View[current] EXCEPT !.rax = c] = regs'
            /\ [View[current] EXCEPT !.rax = 0] = ChildRegs(c)
        BY <1>0, <2>2, <4>1 DEF Regs
      <4>3. View' = [View EXCEPT ![current].rax = c, ![c] = [View[current] EXCEPT !.rax = 0]]
        BY <1>0, <2>3, <2>4, <2>5, <4>1, <4>2 DEF View
      <4> QED
        BY <1>0, <4>1, <4>3 DEF Forks
    <3> QED
      BY <3>1, <3>2
  <2>8. current \in Proc \ Trapped
    BY <1>0, <2>1 DEF Trapped
  <2> QED
    BY <1>0, <1>01, <2>5, <2>7, <2>8, ContextIs
<1>9. CASE Exec
  <2>1. PICK r : r = [Called EXCEPT !.data = Entry]
    OBVIOUS
  <2>2. r = [data |-> Entry, rax |-> Late]
    BY <1>0, <2>1, ProcIsResult, Answers
  <2>3. regs' = r /\ UNCHANGED <<live, current, preempted>> /\ mode = "user"
        /\ \A p \in Proc \ {current} : pregs'[p] = pregs[p]
    BY <1>9, <2>1 DEF Exec, Saved, Inv, TypeOK
  <2>4. /\ \A p \in Proc \ {current} : View'[p] = View[p]
        /\ View'[current] = IF current \in preempted THEN Lost ELSE regs'
    BY <2>3, KeptView
  <2>5. View'[current] = IF View[current] = Lost THEN Lost ELSE r
    BY <1>0, <2>3, <2>4
  <2>6. Gets(View, View', current, r)
    BY <1>0, <2>4, <2>5, GetsOne
  <2> QED
    BY <1>03, <2>2, <2>3, <2>6
<1>10. CASE Exit
  <2>1. PICK r \in Regs : r = Called
    BY <1>0, ProcIsResult, Answers
  <2>2. /\ mode = "user" /\ frame' \in Regs /\ live' = live \ {current}
        /\ preempted' = preempted \ {current} /\ Dispatch
        /\ pregs' = [pregs EXCEPT ![current] = [at |-> "user", regs |-> r]]
    BY <1>10, <2>1 DEF Exit, Saved, User
  <2>3. /\ \A p \in Proc \ {current} : View'[p] = View[p]
        /\ View'[current] = IF current \notin live' THEN Dead
                            ELSE IF current \in preempted' THEN Lost ELSE r
    BY <1>0, <2>2, SwitchKeeps
  <2>4. View' = [View EXCEPT ![current] = Dead]
    BY <2>2, <2>3 DEF View
  <2>5. current \in Proc \ Trapped
    BY <1>0, <2>2 DEF Trapped
  <2> QED
    BY <1>0, <1>01, <2>4, <2>5, ContextIs
<1>11. CASE UNCHANGED vars
  <2>1. UNCHANGED <<live, current, preempted, pregs, regs>>
    BY <1>11 DEF vars
  <2>2. \A p \in Proc : View'[p] = View[p]
    BY <1>0, <2>1, KeptView
  <2> QED
    BY <1>02, <2>2, SameView
<1> QED
  BY <1>1, <1>2, <1>3, <1>4, <1>5, <1>6, <1>7, <1>8, <1>9, <1>10, <1>11 DEF Next

LEMMA InitContext == Init => Context!Init
<1> SUFFICES ASSUME Init PROVE Context!Init
  OBVIOUS
<1>1. regs \in Regs /\ live = {First} /\ current = First /\ preempted = {} /\ mode = "user"
  BY InvInit DEF Inv, TypeOK, Init
<1>2. View = [p \in Proc |-> IF p = First THEN regs ELSE Dead] /\ Trapped = {}
  BY <1>1 DEF View, RegsOf, Trapped
<1> QED
  BY <1>1, <1>2, ContextIs

------------------------------------------------------------------------------
(* Theorems *)

(* Only live processes run, and what is saved of a process is always a set *)
(* of registers with the mode it is resumed in (trap.c 164-168).           *)
THEOREM ContextsWellFormed == Spec => []TypeOK
<1>1. Spec => []Inv
  BY InvInit, InvNext, PTL DEF Spec
<1>2. Inv => TypeOK
  BY DEF Inv
<1> QED
  BY <1>1, <1>2, PTL

(* Whatever runs in between, a process finds its own registers and the     *)
(* answers to its own calls, unless it loses the processor to another      *)
(* while an exception of its own is being handled (do_trap trap.c 164-168, *)
(* run_proc, sys_fork).                                                    *)
THEOREM RegistersAreKept == Spec => ContextSpec
<1>1. Spec => []Inv
  BY InvInit, InvNext, PTL DEF Spec
<1> QED
  BY <1>1, InitContext, StepContext, PTL DEF Spec, ContextSpec, Context!Spec
=============================================================================

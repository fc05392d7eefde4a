------------------------------- MODULE Screen -------------------------------
(***************************************************************************)
(* The text screen (kernel/console.c): myputchar on the cursor and the     *)
(* video memory.  The kernel's print in a system call and write on the     *)
(* console run with interrupts off.  The page-fault handler prints with    *)
(* interrupts on (trap.c 188): the keyboard interrupt, which echoes        *)
(* (console.c 458), can come into the middle of its character, and so can  *)
(* the timer (trap.c 177), after which other processes write, or print in  *)
(* fault handlers of their own, before it goes on.                         *)
(*                                                                         *)
(* myputchar is cut at every access to the cursor and to the video memory; *)
(* xpos++ and the like load, and store later.  Scrolling is one cut.       *)
(***************************************************************************)
EXTENDS Integers, Sequences, SequencesExt, FormattedPrint

CONSTANTS
  LINES, COLUMNS,   \* the size of the screen
  Char,             \* characters other than the newline
  NL,               \* newline, or carriage return
  Blank,            \* what init_vga fills the screen with
  MaxText,          \* bound on the characters written with interrupts off
  Proc,             \* the processes
  MaxDrift          \* bound: a cursor further off the screen is not followed

ASSUME ScreenAssumption ==
  /\ LINES \in Nat \ {0} /\ COLUMNS \in Nat \ {0}
  /\ NL \notin Char /\ Blank \notin Char /\ MaxDrift \in Nat \ {0}

VARIABLES
  screen,   \* video (with a row below the screen), xpos, ypos
  handler,  \* handler[p]: the next cut of its myputchar, character, register
  before,   \* history: the screen when the last character was complete
  torn      \* history: what came into the middle of a character: "no",
            \* "echo", "switch" to another that writes, "lost" for good

vars == <<screen, handler, before, torn>>

CONSIZE == COLUMNS * LINES
Cell == 0 .. CONSIZE + COLUMNS - 1
Cut == {"idle", "address", "store", "xload", "xstore", "xtest", "newline",
        "yload", "ystore", "ytest", "scroll", "yload2", "ystore2"}
Idle(p) == handler[p].at = "idle"
Quiet == \A p \in Proc : Idle(p)

------------------------------------------------------------------------------
(* myputchar *)

Started(c) == [at |-> IF c = NL THEN "newline" ELSE "address", c |-> c, reg |-> 0]

(* Slip: the last line is not cleared.                                     *)
SlipNotCleared(video) ==
  [i \in Cell |-> IF i < CONSIZE - COLUMNS THEN video[i + COLUMNS] ELSE video[i]]

Scrolled(video) ==
  [i \in Cell |-> IF i < CONSIZE - COLUMNS THEN video[i + COLUMNS]
                  ELSE IF i < CONSIZE THEN Blank ELSE video[i]]

(* Slip: `ypos > LINES', one line too late. *)
SlipTooLate(s) == s.ypos > LINES

(* Slip: `xpos > COLUMNS'. *)
SlipTooWide(s) == s.xpos > COLUMNS

(* The test before scrolling, and the one at the end of a line. *)
PastBottom(s) == s.ypos >= LINES
PastEdge(s) == s.xpos >= COLUMNS

(* A store; further behind the screen the memory is not followed. *)
Stored(video, i, c) == IF i \in Cell THEN [video EXCEPT ![i] = c] ELSE video

(* What a cut does to the screen s, *)
ScreenAfter(s, h) ==
  CASE h.at = "store"   -> [s EXCEPT !.video = Stored(@, h.reg, h.c)]
    [] h.at = "xstore"  -> [s EXCEPT !.xpos = h.reg + 1]
    [] h.at = "newline" -> [s EXCEPT !.xpos = 0]
    [] h.at = "ystore"  -> [s EXCEPT !.ypos = h.reg + 1]
    [] h.at = "scroll"  -> [s EXCEPT !.video = Scrolled(@), !.xpos = 0]
    [] h.at = "ystore2" -> [s EXCEPT !.ypos = h.reg - 1]
    [] OTHER            -> s

(* and which cut is next. *)
Follows ==
  [a \in Cut \ {"idle", "xtest", "ytest"} |->
     CASE a = "address" -> "store"   [] a = "store"  -> "xload"
       [] a = "xload"   -> "xstore"  [] a = "xstore" -> "xtest"
       [] a = "newline" -> "yload"   [] a = "yload"  -> "ystore"
       [] a = "ystore"  -> "ytest"   [] a = "scroll" -> "yload2"
       [] a = "yload2"  -> "ystore2" [] a = "ystore2" -> "idle"]

HandlerAfter(s, h) ==
  [h EXCEPT
     !.at = CASE h.at = "xtest" -> IF PastEdge(s) THEN "newline" ELSE "idle"
              [] h.at = "ytest" -> IF PastBottom(s) THEN "scroll" ELSE "idle"
              [] OTHER          -> Follows[h.at],
     !.reg = CASE h.at = "address" -> s.xpos + s.ypos * COLUMNS
               [] h.at = "xload"   -> s.xpos
               [] h.at \in {"yload", "yload2"} -> s.ypos
               [] OTHER            -> h.reg]

(* A call that nothing disturbs. *)
Newline(s) ==
  LET t == [s EXCEPT !.xpos = 0, !.ypos = @ + 1] IN
  IF PastBottom(t) THEN [t EXCEPT !.video = Scrolled(@), !.ypos = @ - 1] ELSE t

Putchar(s, c) ==
  LET t == [s EXCEPT !.video = Stored(@, s.xpos + s.ypos * COLUMNS, c), !.xpos = @ + 1] IN
  IF c = NL THEN Newline(s) ELSE IF PastEdge(t) THEN Newline(t) ELSE t

------------------------------------------------------------------------------

(* init_vga *)
Cleared == [i \in Cell |-> Blank]

Init ==
  /\ screen = [video |-> Cleared, xpos |-> 0, ypos |-> 0]
  /\ handler = [p \in Proc |-> [at |-> "idle", c |-> NL, reg |-> 0]]
  /\ before = screen
  /\ torn = "no"

(* A step that leaves the screen s; once others have written into the      *)
(* middle of a character, only the cursor is followed.                     *)
Shows(s) ==
  /\ screen' = IF torn' \in {"no", "echo"} THEN s ELSE [s EXCEPT !.video = Cleared]
  /\ before' = IF torn' # "no" THEN [s EXCEPT !.video = Cleared, !.xpos = 0, !.ypos = 0]
               ELSE IF Quiet' THEN s ELSE before

(* The bound, which only a cursor that others have disturbed can pass. *)
Near ==
  /\ screen.xpos < COLUMNS + MaxDrift
  /\ screen.ypos > -MaxDrift /\ screen.ypos < LINES + MaxDrift

(* A step of process p that begins to write; others may be preempted in    *)
(* the middle of a character.                                              *)
Writes(p) ==
  /\ Idle(p) /\ torn # "lost" /\ Near
  /\ torn' = IF Quiet THEN torn ELSE "switch"

(* print in a system call, or cons_write: interrupts are off. *)
Say(p, text) ==
  /\ Writes(p)
  /\ UNCHANGED handler
  /\ Shows(FoldLeft(Putchar, screen, text))

(* print in the page-fault handler: a character, *)
Begin(p, c) ==
  /\ Writes(p)
  /\ handler' = [handler EXCEPT ![p] = Started(c)]
  /\ Shows(screen)

(* and its cuts. *)
Step(p) ==
  /\ ~Idle(p) /\ torn # "lost" /\ Near
  /\ handler' = [handler EXCEPT ![p] = HandlerAfter(screen, @)]
  /\ UNCHANGED torn
  /\ Shows(ScreenAfter(screen, handler[p]))

(* The traps of the process that was switched to may have overwritten the  *)
(* handler's frames on the one kernel stack (module TrapContext): then it  *)
(* goes on somewhere else, or prints something else, and nothing is        *)
(* followed any further.                                                   *)
Derail(p) ==
  /\ ~Idle(p)
  /\ torn' = "lost"
  /\ UNCHANGED handler
  /\ Shows(screen)

(* handle_scancode: a character that can be printed is echoed, wherever    *)
(* the handlers are.                                                       *)
Echo(c) ==
  /\ torn # "lost" /\ Near
  /\ torn' = IF torn = "no" /\ ~Quiet THEN "echo" ELSE torn
  /\ UNCHANGED handler
  /\ Shows(Putchar(screen, c))

Next ==
  \/ \E p \in Proc :
       \/ \E n \in 1 .. MaxText : \E text \in [1 .. n -> Char \cup {NL}] : Say(p, text)
       \/ \E c \in Char \cup {NL} : Begin(p, c)
       \/ Step(p) \/ Derail(p)
  \/ \E c \in Char : Echo(c)

Spec == Init /\ [][Next]_vars

------------------------------------------------------------------------------
(* Properties *)

(* The shape of the state; the cursor is on the screen, or one behind it,  *)
(* as long as no other process has written into the middle of a character. *)
TypeOK ==
  /\ screen \in [video : [Cell -> Char \cup {Blank}], xpos : Nat, ypos : Int]
  /\ handler \in [Proc -> [at : Cut, c : Char \cup {NL}, reg : Int]]
  /\ torn \in {"no", "echo", "switch", "lost"}
  /\ torn \in {"no", "echo"} => screen.xpos <= COLUMNS /\ screen.ypos \in 0 .. LINES

(* A message print writes is what its conversions are for, whatever lies   *)
(* above an int in its slot (console.c 113-130, 182-282), in formats of up *)
(* to two items.  (Said of the cleared screen, the state of boot.)         *)
PrintsAsMeant ==
  (torn = "no" /\ Quiet /\ screen = [video |-> Cleared, xpos |-> 0, ypos |-> 0]) =>
    \A n \in 0 .. 2 : \A items \in [1 .. n -> Item] : Regular(items) => AsMeant(items)

(* Whenever no myputchar is under way the cursor is back in the screen's   *)
(* columns, whatever interleaving of handlers, writes and echoes went      *)
(* before, and back in its rows unless other processes wrote into the      *)
(* middle of a character: two ypos++ or two ypos-- may then count as one.  *)
(* With echoes alone the cell it stands for is never more than one row     *)
(* below the screen (console.c 71-87).                                     *)
CursorReturns ==
  /\ Quiet /\ torn # "lost" => screen.xpos < COLUMNS
  /\ Quiet /\ torn \in {"no", "echo"} => screen.ypos \in 0 .. LINES - 1
  /\ torn \in {"no", "echo"} =>
       /\ screen.xpos + screen.ypos * COLUMNS \in Cell
       /\ \A p \in Proc : handler[p].at = "store" => handler[p].reg \in Cell

(* The text a row shows. *)
Row(s, y) ==
  SelectSeq([x \in 1 .. COLUMNS |-> s.video[y * COLUMNS + x - 1]], LAMBDA c : c # Blank)

Lines(s) == SubSeq([y \in 1 .. LINES |-> Row(s, y - 1)], 1, s.ypos + 1)

(* As long as neither an echo nor another process comes into the middle of *)
(* a character, the screen shows the last lines of what was written:       *)
(* cells, scrolling and cursor agree (console.c 65-88).                    *)
Display == INSTANCE Terminal WITH lines <- Lines(before), torn <- torn # "no"
DisplaySpec == Display!Spec
=============================================================================

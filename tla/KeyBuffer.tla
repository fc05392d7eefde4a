------------------------------ MODULE KeyBuffer ------------------------------
(***************************************************************************)
(* The keyboard ring of kernel/console.c (kbs) between the keyboard        *)
(* interrupt, which drains the controller into it, and cons_read of        *)
(* kernel/file.c, the read system call on the console.  Both run with      *)
(* interrupts off, so each is one step.                                    *)
(*                                                                         *)
(* A code the controller delivers is a character (plain_map, ascii_map),   *)
(* or None for those kbd_handler drops: key releases and mouse bytes.      *)
(* Neither map holds 0xFF, the one character cons_read takes for "empty".  *)
(***************************************************************************)
EXTENDS Integers, Sequences

CONSTANTS
  Size,      \* KBBUFSIZE
  Char,      \* characters
  Nul,       \* character 0, what the ring holds at boot
  None,      \* a code that is no character
  MaxCodes,  \* bound on the codes one interrupt finds
  MaxRead    \* bound on the count of a read

ASSUME RingAssumption ==
  /\ Size \in Nat /\ Size >= 2 /\ Nul \in Char /\ None \notin Char
  /\ MaxCodes \in Nat /\ MaxRead \in Nat

VARIABLES
  kbs,       \* the ring: buf, rpos, wpos
  codes,     \* what the controller held at the last interrupt
  answer     \* what the last read put into the caller's buffer

ringvars == <<kbs, codes, answer>>

Pos == 0..Size-1

RingInit ==
  /\ kbs = [buf |-> [i \in Pos |-> Nul], rpos |-> 0, wpos |-> 0]
  /\ codes = <<>>
  /\ answer = <<>>

(* Slips: the position is not wrapped; the character is written after the *)
(* position has moved.                                                    *)
SlipNoWrap(k, c) == [k EXCEPT !.buf[k.wpos % Size] = c, !.wpos = k.wpos + 1]
SlipStoreLate(k, c) == [k EXCEPT !.buf[(k.wpos + 1) % Size] = c,
                                 !.wpos = (k.wpos + 1) % Size]

AddKbdata(k, c) == [k EXCEPT !.buf[k.wpos] = c, !.wpos = (k.wpos + 1) % Size]

(* handle_scancode, for a code that is not dropped. *)
HandleCode(k, c) == IF c = None THEN k ELSE AddKbdata(k, c)

(* One round of cons_read; on an empty ring get_kbdata answers -1, and so  *)
(* do all rounds that would follow.                                        *)
GetKbdata(r) ==
  IF r.kbs.rpos = r.kbs.wpos THEN r
  ELSE [kbs |-> [r.kbs EXCEPT !.rpos = (r.kbs.rpos + 1) % Size],
        got |-> Append(r.got, r.kbs.buf[r.kbs.rpos])]

(* kbd_handler takes codes until the controller has no more. *)
Handled(cs) ==
  LET k[n \in 0..Len(cs)] == IF n = 0 THEN kbs ELSE HandleCode(k[n-1], cs[n])
  IN k[Len(cs)]
KbdHandler(cs) ==
  /\ codes' = cs
  /\ kbs' = Handled(cs)
  /\ UNCHANGED answer

Taken(count) ==
  LET r[n \in 0..count] == IF n = 0 THEN [kbs |-> kbs, got |-> <<>>] ELSE GetKbdata(r[n-1])
  IN r[count]
ConsRead(count) ==
  /\ kbs' = Taken(count).kbs
  /\ answer' = Taken(count).got
  /\ UNCHANGED codes

RingNext ==
  \/ \E n \in 1..MaxCodes : \E cs \in [1..n -> Char \cup {None}] : KbdHandler(cs)
  \/ \E count \in 0..MaxRead : ConsRead(count)

RingSpec == RingInit /\ [][RingNext]_ringvars

------------------------------------------------------------------------------

(* The shape of the state: both positions stay inside the ring. *)
RingTypeOK ==
  /\ kbs \in [buf : [Pos -> Char], rpos : Pos, wpos : Pos]
  /\ codes \in Seq(Char \cup {None})
  /\ answer \in Seq(Char)

(* The characters of the ring a reader has not seen, oldest first. *)
Unread == [i \in 1..((kbs.wpos - kbs.rpos) % Size) |-> kbs.buf[(kbs.rpos + i - 1) % Size]]

(* The characters among the codes.  (SelectSeq, but as a function of their *)
(* number, as in Handled.)                                                 *)
Chars(cs) ==
  LET t[n \in 0..Len(cs)] ==
        IF n = 0 THEN <<>> ELSE IF cs[n] = None THEN t[n-1] ELSE Append(t[n-1], cs[n])
  IN t[Len(cs)]

(* Reads return what was typed, in order and once, and nothing is lost     *)
(* while at most KBBUFSIZE - 1 characters wait (console.c 409-439).        *)
Queue == INSTANCE CharQueue WITH
           Capacity <- Size - 1, MaxTyped <- MaxCodes, queue <- Unread,
           typed <- Chars(codes)
QueueSpec == Queue!Spec
=============================================================================

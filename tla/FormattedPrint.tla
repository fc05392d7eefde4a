--------------------------- MODULE FormattedPrint ---------------------------
(***************************************************************************)
(* print of kernel/console.c on numbers of few bits: which characters a    *)
(* format and its arguments come to, against what the conversions are for. *)
(*                                                                         *)
(* The code walks the characters of the format with two flags; the         *)
(* reference takes a format as items: a letter, or a conversion and its    *)
(* argument.  An int is passed in a slot of a long, with any upper bits.   *)
(***************************************************************************)
EXTENDS Integers, Sequences, SequencesExt, FiniteSetsExt

CONSTANTS
  IntBits, LongBits,   \* widths of int and long
  Letters,             \* ordinary characters of a format
  Ints, Longs,         \* numbers that are printed
  Upper                \* what may lie above an int in its slot

ASSUME PrintAssumption ==
  /\ 0 < IntBits /\ IntBits < LongBits
  /\ Ints \subseteq -(2 ^ (IntBits - 1)) .. 2 ^ (IntBits - 1) - 1
  /\ Longs \subseteq -(2 ^ (LongBits - 1)) .. 2 ^ (LongBits - 1) - 1
  /\ Upper \subseteq 0 .. 2 ^ (LongBits - IntBits) - 1

strtab == <<"0", "1", "2", "3", "4", "5", "6", "7",
            "8", "9", "a", "b", "c", "d", "e", "f">>
Base == [d |-> 10, x |-> 16, o |-> 8]

(* unsigned_recursion *)
Digits(val, base) ==
  LET digits[v \in Nat] ==
        IF v < base THEN <<strtab[v + 1]>>
        ELSE Append(digits[v \div base], strtab[(v % base) + 1])
  IN  digits[val]

(* Numbers as a register holds them, and read as signed. *)
Unsigned(v, bits) == v % (2 ^ bits)
Signed(w, bits) == IF w >= 2 ^ (bits - 1) THEN w - 2 ^ bits ELSE w

------------------------------------------------------------------------------
(* The code *)

(* Slip: an int is taken from its slot as if it were a long.               *)
SlipWide(long) == LongBits

Width(long) == IF long THEN LongBits ELSE IntBits

(* The number a conversion reads from its slot, and the text it becomes.   *)
(* The absolute value of the least int does not fit an int, and becomes a  *)
(* negative long.                                                          *)
Number(conv, long, slot) ==
  LET bits == Width(long)
      w == slot % (2 ^ bits)
      v == IF conv = "d" THEN Signed(w, bits) ELSE w
      abs == IF v < 0 THEN Signed(Unsigned(-v, bits), bits) ELSE v
  IN  (IF v < 0 THEN <<"-">> ELSE <<>>)
      \o Digits(Unsigned(abs, LongBits), Base[conv])

(* One character of the format: r holds the flags, the arguments left, and *)
(* the text so far.  lflags is never cleared.                              *)
PrintChar(r, c) ==
  IF c = "%" THEN [r EXCEPT !.pflags = TRUE]
  ELSE IF ~r.pflags \/ c \notin {"l", "d", "x", "o", "s"} THEN [r EXCEPT !.text = Append(@, c)]
  ELSE IF c = "l" THEN [r EXCEPT !.lflags = TRUE]
  ELSE [r EXCEPT !.pflags = FALSE, !.args = Tail(@),
                 !.text = @ \o IF c = "s" THEN Head(r.args)
                               ELSE Number(c, r.lflags, Head(r.args))]

Printed(format, args) ==
  FoldLeft(PrintChar, [pflags |-> FALSE, lflags |-> FALSE, args |-> args, text |-> <<>>],
           format).text

------------------------------------------------------------------------------
(* The reference *)

Item ==
  [kind : {"letter"}, c : Letters]
  \cup [kind : {"int"}, c : {"d", "x", "o"}, val : Ints, up : Upper]
  \cup [kind : {"long"}, c : {"d", "x", "o"}, val : Longs]
  \cup [kind : {"string"}, val : {<<>>, <<"b", "b">>}]

(* How an item is written in a format, and what is passed for it. *)
Written(i) ==
  CASE i.kind = "letter" -> <<i.c>>
    [] i.kind = "int"    -> <<"%", i.c>>
    [] i.kind = "long"   -> <<"%", "l", i.c>>
    [] i.kind = "string" -> <<"%", "s">>
Passed(i) ==
  CASE i.kind = "letter" -> <<>>
    [] i.kind = "int"    -> <<Unsigned(i.val, IntBits) + i.up * 2 ^ IntBits>>
    [] i.kind = "long"   -> <<Unsigned(i.val, LongBits)>>
    [] i.kind = "string" -> <<i.val>>

(* What it should come to. *)
Meant(i) ==
  LET bits == IF i.kind = "int" THEN IntBits ELSE LongBits IN
  CASE i.kind = "letter" -> <<i.c>>
    [] i.kind = "string" -> i.val
    [] OTHER -> IF i.c # "d" THEN Digits(Unsigned(i.val, bits), Base[i.c])
                ELSE IF i.val < 0 THEN <<"-">> \o Digits(-i.val, 10)
                ELSE Digits(i.val, 10)

(* The cases in which print does something else: an int after a long, as   *)
(* lflags is never cleared, and the least int in decimal.                  *)
Regular(items) ==
  /\ \A j, k \in DOMAIN items : items[j].kind = "long" /\ items[k].kind = "int" => k < j
  /\ \A k \in DOMAIN items : items[k].kind = "int" /\ items[k].c = "d" =>
       items[k].val # -(2 ^ (IntBits - 1))

All(Op(_), items) == FlattenSeq([k \in DOMAIN items |-> Op(items[k])])

(* print writes what the conversions are for. *)
AsMeant(items) == Printed(All(Written, items), All(Passed, items)) = All(Meant, items)
=============================================================================

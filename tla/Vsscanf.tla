------------------------------ MODULE Vsscanf -------------------------------
(***************************************************************************)
(* vsscanf of my_wrappers.c: "%d", "%c" and literal characters, without    *)
(* the white space and the field widths of the C library's.  A format is a *)
(* sequence of directives and literals, a text one of characters.          *)
(***************************************************************************)
EXTENDS Integers, Sequences

CONSTANTS Letters,   \* the characters isalpha accepts
          IntWidth   \* bits of an int: 32 in the code

Digits == <<"0", "1", "2", "3", "4", "5", "6", "7", "8", "9">>

isdigit(ch)    == \E i \in 1 .. 10 : Digits[i] = ch
digit_value(ch) == (CHOOSE i \in 1 .. 10 : Digits[i] = ch) - 1

IsInt(n) == -(2 ^ (IntWidth - 1)) <= n /\ n < 2 ^ (IntWidth - 1)

\* Mutant of ReadDigits: the number is built positive and negated at its end.
MutantReadDigits(str, positive) ==
    LET value[k \in 0 .. Len(str)] ==
          IF k = 0 THEN 0 ELSE value[k - 1] * 10 + digit_value(str[k])
    IN  [value   |-> IF positive THEN value[Len(str)] ELSE -value[Len(str)],
         defined |-> \A k \in 0 .. Len(str) : IsInt(value[k])]

\* The loop of "%d": it counts downwards, as there is one more negative int
\* than there are positive ones, and negates what is positive at the end.  An
\* int that overflows is undefined behaviour.
ReadDigits(str, positive) ==
    LET value[k \in 0 .. Len(str)] ==
          IF k = 0 THEN 0 ELSE value[k - 1] * 10 - digit_value(str[k])
        last == value[Len(str)]
    IN  [value   |-> IF positive THEN -last ELSE last,
         defined |-> /\ \A k \in 0 .. Len(str) : IsInt(value[k])
                     /\ positive => IsInt(-last)]

\* The leading digits of a text.
DigitsOf(str) ==
    LET n == CHOOSE k \in 0 .. Len(str) :
               /\ \A i \in 1 .. k : isdigit(str[i])
               /\ k < Len(str) => ~isdigit(str[k + 1])
    IN  SubSeq(str, 1, n)

After(str, n) == SubSeq(str, n + 1, Len(str))

ScanInt(s) ==
    LET sign   == IF s.str # <<>> /\ s.str[1] = "-" THEN 1 ELSE 0
        digits == DigitsOf(After(s.str, sign))
        read   == ReadDigits(digits, sign = 0)
    IN  IF digits = <<>> THEN [s EXCEPT !.stop = TRUE]
        ELSE [s EXCEPT !.str = After(@, sign + Len(digits)),
                       !.ints = Append(@, read.value),
                       !.defined = @ /\ read.defined,
                       !.val_cnt = @ + 1]

ScanChar(s) ==
    IF s.str = <<>> \/ s.str[1] \notin Letters THEN [s EXCEPT !.stop = TRUE]
    ELSE [s EXCEPT !.str = Tail(@), !.chars = Append(@, s.str[1]), !.val_cnt = @ + 1]

ScanLiteral(s, ch) ==
    IF s.str = <<>> \/ s.str[1] # ch THEN [s EXCEPT !.stop = TRUE]
    ELSE [s EXCEPT !.str = Tail(@)]

\* One turn of the loop over the format.
ScanItem(s, item) ==
    CASE s.stop -> s
      [] ~s.stop /\ item = "%d" -> ScanInt(s)
      [] ~s.stop /\ item = "%c" -> ScanChar(s)
      [] ~s.stop /\ item \notin {"%d", "%c"} -> ScanLiteral(s, item)

\* What the arguments hold at the end, and val_cnt, which is returned.
vsscanf(str, format) ==
    LET state[i \in 0 .. Len(format)] ==
          IF i = 0 THEN [str |-> str, ints |-> <<>>, chars |-> <<>>,
                         defined |-> TRUE, val_cnt |-> 0, stop |-> FALSE]
                   ELSE ScanItem(state[i - 1], format[i])
    IN  state[Len(format)]

\* It sets the same arguments but ends without a return statement: what its
\* caller gets is left over in the register of the value.
sscanf(str, format, leftover) == [vsscanf(str, format) EXCEPT !.val_cnt = leftover]
=============================================================================

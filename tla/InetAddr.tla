------------------------------ MODULE InetAddr ------------------------------
(***************************************************************************)
(* inet_pton_ntop.c: Internet addresses between text and binary form.      *)
(*                                                                         *)
(* A text is a sequence of characters; the one that ends a C string is no  *)
(* character.  An address is four octets or eight 16-bit words.            *)
(* Memory nobody has written is filled with one and the same character.    *)
(***************************************************************************)
EXTENDS Integers, SequencesExt

NUL == ""

Invalid == <<>>    \* inet_pton returns 0; inet_ntop returns NULL

Numerals == <<"0", "1", "2", "3", "4", "5", "6", "7",
              "8", "9", "a", "b", "c", "d", "e", "f">>

UpperCase == <<"A", "B", "C", "D", "E", "F">>

DigitValues ==
    [ch \in Range(Numerals \o UpperCase) |->
        (CHOOSE i \in 1 .. 22 : (Numerals \o UpperCase)[i] = ch) - 1]

\* The value of a digit in either base, -1 for any other character.
hex_digit_value(ch) ==
    IF ch \notin DOMAIN DigitValues THEN -1
    ELSE IF DigitValues[ch] > 15 THEN DigitValues[ch] - 6
    ELSE DigitValues[ch]

\* The digits of n, as "%u" (base 10) and "%x" (base 16) write them.
Written(n, base) ==
    LET text[m \in Nat] ==
          IF m < base THEN <<Numerals[m + 1]>>
          ELSE Append(text[m \div base], Numerals[(m % base) + 1])
    IN  text[n]

\* What strlen measures: the cells before the first NUL, all without one.
CString(cells) ==
    LET nul == SelectInSeq(cells, LAMBDA ch : ch = NUL)
    IN  IF nul = 0 THEN cells ELSE SubSeq(cells, 1, nul - 1)

\* The first n cells of memory at which a text was written.
Cells(text, n, fill) ==
    [i \in 1 .. n |-> IF i <= Len(text) THEN text[i] ELSE fill]

Zeros(n) == [i \in 1 .. n |-> 0]

-----------------------------------------------------------------------------
(* Text to address *)

\* Mutant of Pton4Step: a number may begin with a zero.
MutantPton4Step(s, ch) ==
    LET digit == hex_digit_value(ch)
        value == Last(s.octets) * 10 + digit
        fail  == [s EXCEPT !.left = "return"]
    IN  IF s.left # "no" THEN s
        ELSE IF digit \in 0 .. 9 THEN
          IF value > 255 THEN fail
          ELSE [s EXCEPT !.octets[Len(s.octets)] = value, !.saw_digit = 1]
        ELSE IF ch = "." /\ s.saw_digit = 1 /\ Len(s.octets) < 4 THEN
          [s EXCEPT !.octets = Append(@, 0), !.saw_digit = 0]
        ELSE fail

\* One character of inet_pton4; "octets" is tmp up to tp, and "left" says
\* whether the loop was left.
Pton4Step(s, ch) ==
    LET digit == hex_digit_value(ch)
        value == Last(s.octets) * 10 + digit
        fail  == [s EXCEPT !.left = "return"]
    IN  IF s.left # "no" THEN s
        ELSE IF digit \in 0 .. 9 THEN
          IF (s.saw_digit = 1 /\ Last(s.octets) = 0) \/ value > 255 THEN fail
          ELSE [s EXCEPT !.octets[Len(s.octets)] = value, !.saw_digit = 1]
        ELSE IF ch = "." /\ s.saw_digit = 1 /\ Len(s.octets) < 4 THEN
          [s EXCEPT !.octets = Append(@, 0), !.saw_digit = 0]
        ELSE fail

Pton4States(src) ==
    LET state[i \in 0 .. Len(src)] ==
            IF i = 0 THEN [left |-> "no", octets |-> <<0>>, saw_digit |-> 0]
                     ELSE Pton4Step(state[i - 1], src[i])
    IN  state

\* A number that has no digit yet does not count.
inet_pton4(src) ==
    LET end == Pton4States(src)[Len(src)]
    IN  IF end.left = "no" /\ Len(end.octets) = 4 /\ end.saw_digit = 1
          THEN end.octets ELSE Invalid

\* Four octets as two words, and back.
Packed(octets) == <<octets[1] * 256 + octets[2], octets[3] * 256 + octets[4]>>

Unpacked(words) == <<words[1] \div 256, words[1] % 256,
                     words[2] \div 256, words[2] % 256>>

\* Mutant of ExpandColons: the words after "::" stay where they were put.
MutantExpandColons(words, colonp) == words \o Zeros(8 - Len(words))

\* The words after "::" move to the end, zeros fill the gap.
ExpandColons(words, colonp) ==
    SubSeq(words, 1, colonp) \o Zeros(8 - Len(words))
      \o SubSeq(words, colonp + 1, Len(words))

\* The state of inet_pton6: "tp" are the words so far, "val" the one being
\* read, "xdigits_seen" its digits, "curtok" where it begins; "left" says how
\* the loop was left, if it was.
Pton6Return(s) == [s EXCEPT !.left = "return"]

Pton6Digit(s, digit) ==
    LET val == s.val * 16 + digit
    IN  IF s.xdigits_seen = 4 \/ val > 65535 THEN Pton6Return(s)
        ELSE [s EXCEPT !.val = val, !.xdigits_seen = @ + 1]

\* A colon after no digit is the second one of "::".
Pton6Gap(s, i) ==
    IF s.colonp # -1 THEN Pton6Return(s)
    ELSE [s EXCEPT !.curtok = i + 1, !.colonp = Len(s.tp)]

Pton6Colon(s, src, i) ==
    IF s.xdigits_seen = 0 THEN Pton6Gap(s, i)
    ELSE IF i = Len(src) \/ Len(s.tp) = 8 THEN Pton6Return(s)
    ELSE [s EXCEPT !.curtok = i + 1, !.tp = Append(@, s.val),
                   !.xdigits_seen = 0, !.val = 0]

Pton6Dot(s, src) ==
    LET quad == inet_pton4(SubSeq(src, s.curtok, Len(src)))
    IN  IF Len(s.tp) > 6 \/ quad = Invalid THEN Pton6Return(s)
        ELSE [s EXCEPT !.left = "break", !.tp = @ \o Packed(quad), !.xdigits_seen = 0]

\* One character, the i-th of src.
Pton6Step(s, src, i) ==
    LET digit == hex_digit_value(src[i])
    IN  IF s.left # "no" THEN s
        ELSE IF digit >= 0 THEN Pton6Digit(s, digit)
        ELSE IF src[i] = ":" THEN Pton6Colon(s, src, i)
        ELSE IF src[i] = "." THEN Pton6Dot(s, src)
        ELSE Pton6Return(s)

\* A colon that begins the text is skipped: another one must follow it.
Pton6States(src) ==
    LET first == IF Len(src) > 0 /\ src[1] = ":" THEN 2 ELSE 1
        state[i \in 0 .. Len(src)] ==
            IF i < first
              THEN [tp |-> <<>>, colonp |-> -1, curtok |-> first,
                    xdigits_seen |-> 0, val |-> 0, left |-> "no"]
              ELSE Pton6Step(state[i - 1], src, i)
    IN  state

inet_pton6(src) ==
    LET end   == Pton6States(src)[Len(src)]
        words == IF end.xdigits_seen > 0 THEN Append(end.tp, end.val) ELSE end.tp
        fails == \/ src = <<>>
                 \/ src[1] = ":" /\ (Len(src) = 1 \/ src[2] # ":")
                 \/ end.left = "return"
                 \/ end.xdigits_seen > 0 /\ Len(end.tp) = 8
                 \/ end.colonp = -1 <=> Len(words) # 8
    IN  IF fails THEN Invalid
        ELSE IF end.colonp = -1 THEN words
        ELSE ExpandColons(words, end.colonp)

-----------------------------------------------------------------------------
(* Address to text *)

\* "%u.%u.%u.%u"
QuadText(src) ==
    Written(src[1], 10) \o <<".">> \o Written(src[2], 10) \o <<".">>
      \o Written(src[3], 10) \o <<".">> \o Written(src[4], 10)

\* Mutant of inet_ntop4: no room is asked for the NUL.
MutantInetNtop4(src, size, fill) ==
    IF Len(QuadText(src)) > size THEN Invalid ELSE Cells(QuadText(src), size, fill)

\* The cells of dst after inet_ntop4: strncpy copies the text and no NUL.
inet_ntop4(src, size, fill) ==
    IF Len(QuadText(src)) >= size THEN Invalid ELSE Cells(QuadText(src), size, fill)

NoRun == [base |-> -1, len |-> 0]

\* Mutant of Longer: a run of the same length replaces an earlier one.
MutantLonger(best, cur) == IF cur.len >= best.len THEN cur ELSE best

\* A run of zeros ended: it replaces the best one only if it is longer.
Longer(best, cur) ==
    IF cur.base # -1 /\ (best.base = -1 \/ cur.len > best.len) THEN cur ELSE best

\* One turn of the loop over the words: the runs of zeros after the i-th, the
\* best one that ended and the current one, with indices from 0.
ZeroStep(s, word, i) ==
    IF word # 0 THEN [best |-> Longer(s.best, s.cur), cur |-> NoRun]
    ELSE IF s.cur.base = -1 THEN [s EXCEPT !.cur = [base |-> i - 1, len |-> 1]]
    ELSE [s EXCEPT !.cur.len = @ + 1]

ZeroRuns(words) ==
    LET state[i \in 0 .. 8] ==
          IF i = 0 THEN [best |-> NoRun, cur |-> NoRun]
                   ELSE ZeroStep(state[i - 1], words[i], i)
    IN  state

\* The run of zero words that "::" stands for.
BestRun(words) ==
    LET end  == ZeroRuns(words)[8]
        best == Longer(end.best, end.cur)
    IN  IF best.len < 2 THEN NoRun ELSE best

\* The cells of dst after inet_ntop6, whose strncpy pads them with NULs; tmp
\* is the buffer of 46 characters the text is put together in.
inet_ntop6(words, size, fill) ==
    LET best == BestRun(words)
        encapsulated == /\ best.base = 0
                        /\ best.len = 6 \/ (best.len = 5 /\ words[6] = 65535)
        octets == Unpacked(<<words[7], words[8]>>)
        colon(i) == IF i = 0 THEN <<>> ELSE <<":">>
        tmp[i \in 0 .. 8] ==  \* the text before word i
          IF i = 0 THEN <<>>
          ELSE LET tp == tmp[i - 1]
               IN  IF best.base <= i - 1 /\ i - 1 < best.base + best.len
                     THEN IF i - 1 = best.base THEN Append(tp, ":") ELSE tp
                   ELSE IF encapsulated /\ i = 7
                     THEN LET room == 46 - Len(tp) - 1
                          IN  tp \o <<":">> \o CString(inet_ntop4(octets, room, fill))
                   ELSE IF encapsulated /\ i = 8 THEN tp
                   ELSE tp \o colon(i - 1) \o Written(words[i], 16)
        text == tmp[8] \o (IF best.base + best.len = 8 THEN <<":">> ELSE <<>>)
    IN  IF Len(text) + 1 > size THEN Invalid ELSE Cells(text, 46, NUL)
=============================================================================

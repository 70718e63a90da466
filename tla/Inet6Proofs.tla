----------------------------- MODULE Inet6Proofs -----------------------------
(***************************************************************************)
(* What inet_ntop6 writes, inet_pton6 reads back, for every IPv6 address.  *)
(*                                                                         *)
(* The text is put together of one piece for each word: the word and the   *)
(* colon before it, the colon of "::", nothing, or the IPv4 address of an  *)
(* encapsulated one.  inet_pton6 is followed piece by piece: the words it  *)
(* has after a piece are those of the address up to there without the run  *)
(* of zeros, and once it passed the run, it knows its place.               *)
(***************************************************************************)
EXTENDS ConversionProofs

-----------------------------------------------------------------------------
(* An IPv6 address that was written reads back *)

\* The characters of an IPv6 address.
Chars6 == {Digit(d) : d \in 0 .. 15} \cup {":", "."}

LEMMA NoNulInChars6 == NUL \notin Chars6
<1>1. /\ "0" # NUL /\ "1" # NUL /\ "2" # NUL /\ "3" # NUL /\ "4" # NUL /\ "5" # NUL
      /\ "6" # NUL /\ "7" # NUL /\ "8" # NUL /\ "9" # NUL /\ "a" # NUL /\ "b" # NUL
      /\ "c" # NUL /\ "d" # NUL /\ "e" # NUL /\ "f" # NUL /\ "." # NUL /\ ":" # NUL
  BY DEF NUL
<1>2. \A k \in 1 .. 16 : Numerals[k] # NUL
  BY <1>1 DEF Numerals
<1>3. \A d \in 0 .. 15 : Digit(d) # NUL
  <2> SUFFICES ASSUME NEW d \in 0 .. 15 PROVE Numerals[d + 1] # NUL
    BY DEF Digit
  <2>1. d + 1 \in 1 .. 16
    OBVIOUS
  <2> QED BY <1>2, <2>1
<1> QED BY <1>1, <1>3 DEF Chars6

LEMMA MoreChars == Chars \subseteq Chars6
<1>1. \A d \in Nat : d <= 9 => d \in 0 .. 15
  OBVIOUS
<1> QED BY <1>1, Zenon DEF Chars, Chars6

LEMMA ColonValue == hex_digit_value(":") = -1 /\ hex_digit_value(".") = -1
<1>1. ":" \notin DOMAIN DigitValues
  BY DEF DigitValues, Range, Numerals, UpperCase
<1> QED BY <1>1, DotValue, DigitIndex

\* Where inet_pton6 is: the words it has, where "::" is, where the word it is
\* at begins, and the digits of that and their number.
Word6(q, c, cur, k, v) ==
    [tp |-> q, colonp |-> c, curtok |-> cur, xdigits_seen |-> k, val |-> v, left |-> "no"]

At6(s, q, c, cur, k, v) == s = Word6(q, c, cur, k, v)

\* The updates of it, one field each.
TpSet(s, x) == [s EXCEPT !.tp = x]
CurtokSet(s, x) == [s EXCEPT !.curtok = x]
DigitsSet(s, x) == [s EXCEPT !.xdigits_seen = x]
ValSet(s, x) == [s EXCEPT !.val = x]

LEMMA Word6Updates ==
    \A q, c, cur, k, v, x :
      LET s == Word6(q, c, cur, k, v)
      IN  /\ TpSet(s, x) = Word6(x, c, cur, k, v)
          /\ CurtokSet(s, x) = Word6(q, c, x, k, v)
          /\ DigitsSet(s, x) = Word6(q, c, cur, x, v)
          /\ ValSet(s, x) = Word6(q, c, cur, k, x)
BY DEF Word6, TpSet, CurtokSet, DigitsSet, ValSet

LEMMA Word6Parts ==
    \A q, c, cur, k, v :
      LET s == Word6(q, c, cur, k, v)
      IN  /\ s.tp = q /\ s.colonp = c /\ s.curtok = cur /\ s.xdigits_seen = k
          /\ s.val = v /\ s.left = "no"
BY DEF Word6

LEMMA DigitHeld ==
    \A q, c, cur, k, v, x, m :
      LET s == ValSet(Word6(q, c, cur, k, v), x)
      IN  s.xdigits_seen = k /\ DigitsSet(s, m) = Word6(q, c, cur, m, x)
BY Word6Updates, Word6Parts

LEMMA WordHeld ==
    \A q, c, cur, k, v, j, x :
      LET s == CurtokSet(Word6(q, c, cur, k, v), j)
      IN  s.tp = q /\ ValSet(DigitsSet(TpSet(s, x), 0), 0) = Word6(x, c, j, 0, 0)
BY Word6Updates, Word6Parts

\* A word v of k digits with one more digit is x, of m digits, and fits.
OneDigit(k, v, d, m, x) ==
    /\ k \in Nat /\ k < 4 /\ m = k + 1
    /\ v \in Nat /\ d \in 0 .. 15 /\ x = v * 16 + d /\ x <= MaxWord

LEMMA DigitStep ==
    ASSUME NEW k, NEW v, NEW d, NEW m, NEW x, OneDigit(k, v, d, m, x),
           NEW src, NEW i, src[i] = Digit(d),
           NEW s, NEW q, NEW c, NEW cur, At6(s, q, c, cur, k, v)
    PROVE  At6(Pton6Step(s, src, i), q, c, cur, m, x)
<1> DEFINE digit == hex_digit_value(src[i])
           e == ValSet(s, x)
           t == DigitsSet(e, e.xdigits_seen + 1)
           over == s.xdigits_seen = 4 \/ x > 65535
<1> /\ k \in Nat /\ k < 4 /\ m = k + 1
    /\ v \in Nat /\ d \in 0 .. 15 /\ x = v * 16 + d /\ x <= MaxWord
  BY DEF OneDigit
<1> s = Word6(q, c, cur, k, v)
  BY DEF At6
<1>1. digit = d
  BY NumeralValue DEF Digit
<1>2. s.left = "no" /\ s.xdigits_seen = k /\ s.val = v
  BY Word6Parts
<1>3. t = Word6(q, c, cur, m, x)
  <2> HIDE DEF over
  <2>1. e.xdigits_seen = k
    BY DigitHeld
  <2>2. DigitsSet(e, k + 1) = Word6(q, c, cur, m, x)
    BY DigitHeld
  <2> HIDE DEF e
  <2> QED BY <2>1, <2>2
<1>4. d >= 0 /\ ~over
  BY <1>2 DEF MaxWord
<1>5. Pton6Digit(s, d) = t
  <2>1. s.val * 16 + d = x
    BY <1>2
  <2> DEFINE val == s.val * 16 + d
             many == s.xdigits_seen = 4 \/ val > 65535
  <2>2. Pton6Digit(s, d) = IF many THEN Pton6Return(s)
          ELSE DigitsSet(ValSet(s, val), ValSet(s, val).xdigits_seen + 1)
    BY DEF Pton6Digit, DigitsSet, ValSet
  <2>3. ~many
    BY <1>4, <2>1
  <2> HIDE DEF many
  <2>4. Pton6Digit(s, d) = DigitsSet(ValSet(s, val), ValSet(s, val).xdigits_seen + 1)
    BY <2>2, <2>3
  <2> HIDE DEF val
  <2>5. val = x
    BY <2>1 DEF val
  <2> QED BY <2>4, <2>5
<1> HIDE DEF t, digit
<1>6. Pton6Step(s, src, i) = IF s.left # "no" THEN s
        ELSE IF digit >= 0 THEN Pton6Digit(s, digit)
        ELSE IF src[i] = ":" THEN Pton6Colon(s, src, i)
        ELSE IF src[i] = "." THEN Pton6Dot(s, src)
        ELSE Pton6Return(s)
  BY DEF Pton6Step, digit
<1>7. Pton6Step(s, src, i) = Pton6Digit(s, d)
  BY <1>1, <1>2, <1>4, <1>6
<1> QED BY <1>3, <1>5, <1>7 DEF At6

\* A colon ends a word.
LEMMA ColonStep ==
    ASSUME NEW q \in Seq(Nat), Len(q) # 8, NEW c, NEW cur, NEW k \in Nat, k # 0, NEW v \in Nat,
           NEW src, NEW i \in Nat, src[i] = ":", i # Len(src)
    PROVE  Pton6Step(Word6(q, c, cur, k, v), src, i) = Word6(Append(q, v), c, i + 1, 0, 0)
<1> DEFINE s == Word6(q, c, cur, k, v)
           a == CurtokSet(s, i + 1)
           b == TpSet(a, Append(a.tp, s.val))
           t == ValSet(DigitsSet(b, 0), 0)
<1>1. ~(hex_digit_value(src[i]) >= 0)
  BY ColonValue
<1>2. s.left = "no" /\ s.xdigits_seen = k /\ s.val = v /\ s.tp = q
  BY Word6Parts
<1>3. Pton6Step(s, src, i) = Pton6Colon(s, src, i)
  BY <1>1, <1>2, Zenon DEF Pton6Step
<1>4. t = Word6(Append(q, v), c, i + 1, 0, 0)
  <2>1. a.tp = q /\ s.val = v
    BY <1>2, WordHeld
  <2> DEFINE put == Append(q, v)
  <2>2. ValSet(DigitsSet(TpSet(a, put), 0), 0) = Word6(put, c, i + 1, 0, 0)
    <3> HIDE DEF put
    <3> QED BY WordHeld
  <2> HIDE DEF s, a
  <2> QED BY <2>1, <2>2
<1> HIDE DEF s
<1>5. Pton6Colon(s, src, i) = t
  <2>1. Pton6Colon(s, src, i) =
          IF s.xdigits_seen = 0 THEN Pton6Gap(s, i)
          ELSE IF i = Len(src) \/ Len(s.tp) = 8 THEN Pton6Return(s) ELSE t
    BY DEF Pton6Colon, CurtokSet, TpSet, DigitsSet, ValSet
  <2> HIDE DEF t
  <2> QED BY <1>2, <2>1, Zenon
<1> QED BY <1>3, <1>4, <1>5 DEF s

\* A colon after no digit is the second one of "::".
LEMMA GapStep ==
    ASSUME NEW q, NEW cur, NEW v, NEW src, NEW i, src[i] = ":"
    PROVE  Pton6Step(Word6(q, -1, cur, 0, v), src, i) = Word6(q, Len(q), i + 1, 0, v)
<1> DEFINE s == Word6(q, -1, cur, 0, v)
<1>1. ~(hex_digit_value(src[i]) >= 0)
  BY ColonValue
<1>2. s.left = "no" /\ s.xdigits_seen = 0
  BY DEF Word6
<1>3. Pton6Step(s, src, i) = Pton6Gap(s, i)
  BY <1>1, <1>2, Zenon DEF Pton6Step, Pton6Colon
<1>4. Pton6Gap(s, i) = Word6(q, Len(q), i + 1, 0, v)
  BY DEF Pton6Gap, Word6
<1> QED BY <1>3, <1>4

\* The loop was left at a dot: the words are q and those of the IPv4 address.
Dotted(s, q, c, quad) ==
    s.tp = q \o Packed(quad) /\ s.colonp = c /\ s.xdigits_seen = 0 /\ s.left = "break"

\* A dot stands in an IPv4 address, which ends the text.
LEMMA DotStep ==
    ASSUME NEW s, NEW q, NEW c, NEW cur, NEW k, NEW v, At6(s, q, c, cur, k, v),
           Len(q) \in Nat, Len(q) <= 6, NEW src, NEW i, src[i] = ".",
           NEW quad, quad = inet_pton4(SubSeq(src, cur, Len(src))), quad # Invalid
    PROVE  Dotted(Pton6Step(s, src, i), q, c, quad)
<1> DEFINE t == Pton6Step(s, src, i)
           put == q \o Packed(quad)
<1>1. ~(hex_digit_value(src[i]) >= 0) /\ src[i] # ":" /\ ~(Len(q) > 6)
  BY ColonValue
<1>2. s = Word6(q, c, cur, k, v)
  BY DEF At6
<1>3. s.left = "no" /\ s.tp = q /\ s.curtok = cur
  BY <1>2 DEF Word6
<1>4. t = Pton6Dot(s, src)
  BY <1>1, <1>3, Zenon DEF Pton6Step
<1>5. Pton6Dot(s, src) = [s EXCEPT !.left = "break", !.tp = @ \o Packed(quad), !.xdigits_seen = 0]
  BY <1>1, <1>3, Zenon DEF Pton6Dot
<1>6. t = [s EXCEPT !.left = "break", !.tp = put, !.xdigits_seen = 0]
  BY <1>3, <1>4, <1>5, Zenon
<1> HIDE DEF t, put
<1>7. t.tp = put /\ t.colonp = c /\ t.xdigits_seen = 0 /\ t.left = "break"
  BY <1>2, <1>6 DEF Word6
<1> QED BY <1>7 DEF t, put, Dotted

LEMMA StepAt ==
    ASSUME NEW Char, NEW src \in Seq(Char), NEW p \in Nat, NEW j, j = p + 1, j <= Len(src),
           Pton6First(src) <= j
    PROVE  Pton6States(src)[j] = Pton6Step(Pton6States(src)[p], src, j)
<1>1. j \in 1 .. Len(src) /\ j - 1 = p
  OBVIOUS
<1>2. Pton6States(src)[j] = Pton6Turn(Pton6States(src)[p], src, j)
  BY <1>1, Pton6Turns
<1>3. ~(j < Pton6First(src))
  BY DEF Pton6First
<1> QED BY <1>2, <1>3 DEF Pton6Turn

LEMMA DigitAt ==
    ASSUME NEW k, NEW v, NEW d, NEW m, NEW x, OneDigit(k, v, d, m, x),
           NEW Char, NEW src \in Seq(Char), NEW p \in Nat, NEW j, j = p + 1, j <= Len(src),
           Pton6First(src) <= j, src[j] = Digit(d),
           NEW q, NEW c, NEW cur, At6(Pton6States(src)[p], q, c, cur, k, v)
    PROVE  At6(Pton6States(src)[j], q, c, cur, m, x)
<1> DEFINE s == Pton6States(src)[p]
           t == Pton6States(src)[j]
<1>1. t = Pton6Step(s, src, j)
  BY StepAt
<1> At6(s, q, c, cur, k, v)
  OBVIOUS
<1> HIDE DEF s, t
<1>2. At6(Pton6Step(s, src, j), q, c, cur, m, x)
  BY DigitStep
<1> QED BY <1>1, <1>2 DEF t

LEMMA DigitIsChar ==
    ASSUME NEW d \in 0 .. 15 PROVE Digit(d) \in Chars6 /\ Digit(d) # ":"
<1>1. hex_digit_value(Digit(d)) = d
  BY NumeralValue DEF Digit
<1>2. d # -1
  OBVIOUS
<1>3. Digit(d) # ":"
  BY <1>1, <1>2, ColonValue, Zenon
<1> QED BY <1>3, Zenon DEF Chars6

\* Before a word, with the words q so far.
Before6(src, p, q, c, cur) == At6(Pton6States(src)[p], q, c, cur, 0, 0)

\* From before these digits inet_pton6 gets behind them, with n read.
ReadsAs(w, n) ==
    \A src \in Seq(Chars6), p \in Nat : \A q, c, cur :
        Holds(src, p, w) /\ Pton6First(src) <= p + 1
          /\ Before6(src, p, q, c, cur)
        => At6(Pton6States(src)[p + Len(w)], q, c, cur, Len(w), n)

LEMMA FirstDigit ==
    ASSUME NEW n \in 0 .. 15, NEW w, w = <<Digit(n)>> PROVE ReadsAs(w, n)
<1>1. Len(w) = 1 /\ w[1] = Digit(n)
  OBVIOUS
<1> SUFFICES ASSUME NEW src \in Seq(Chars6), NEW p \in Nat, NEW q, NEW c, NEW cur,
                    Holds(src, p, w), Pton6First(src) <= p + 1,
                    Before6(src, p, q, c, cur)
             PROVE  At6(Pton6States(src)[p + Len(w)], q, c, cur, Len(w), n)
  BY DEF ReadsAs
<1> DEFINE k == Len(w)
           j == p + k
<1>2. p + 1 <= Len(src) /\ src[p + 1] = Digit(n)
  BY <1>1 DEF Holds
<1>3. j = p + 1 /\ j <= Len(src) /\ src[j] = Digit(n) /\ Pton6First(src) <= j
  BY <1>1, <1>2
<1>4. OneDigit(0, 0, n, k, n)
  BY <1>1 DEF MaxWord, OneDigit
<1> HIDE DEF j, k
<1>5. At6(Pton6States(src)[j], q, c, cur, k, n)
  BY <1>3, <1>4, DigitAt DEF Before6
<1> QED BY <1>5 DEF j, k

LEMMA MoreDigits ==
    ASSUME NEW head \in Seq(Chars6), Len(head) >= 1, NEW m, ReadsAs(head, m), NEW d, NEW n,
           OneDigit(Len(head), m, d, Len(head) + 1, n), NEW w, w = Append(head, Digit(d))
    PROVE  ReadsAs(w, n)
<1>1. /\ Len(head) \in Nat /\ Len(w) = Len(head) + 1 /\ w[Len(head) + 1] = Digit(d)
      /\ \A i \in 1 .. Len(head) : w[i] = head[i]
  <2>1. d \in 0 .. 15
    BY DEF OneDigit
  <2> QED BY <2>1, DigitIsChar, AppendProperties
<1> SUFFICES ASSUME NEW src \in Seq(Chars6), NEW p \in Nat, NEW q, NEW c, NEW cur,
                    Holds(src, p, w), Pton6First(src) <= p + 1,
                    Before6(src, p, q, c, cur)
             PROVE  At6(Pton6States(src)[p + Len(w)], q, c, cur, Len(w), n)
  BY DEF ReadsAs
<1>2. p + Len(w) <= Len(src) /\ \A i \in 1 .. Len(w) : src[p + i] = w[i]
  BY DEF Holds
<1> DEFINE h == Len(head)
           k == Len(w)
           e == p + h
           j == p + k
<1>3. Holds(src, p, head)
  <2>1. Len(src) \in Nat
    OBVIOUS
  <2>2. e <= Len(src)
    BY <1>1, <1>2, <2>1
  <2>3. \A i \in 1 .. Len(head) : i \in 1 .. Len(w)
    BY <1>1
  <2>4. \A i \in 1 .. Len(head) : src[p + i] = head[i]
    BY <1>1, <1>2, <2>3
  <2> QED BY <2>2, <2>4 DEF Holds
<1>4. At6(Pton6States(src)[e], q, c, cur, h, m)
  BY <1>3 DEF ReadsAs
<1>5. src[j] = Digit(d)
  <2>1. Len(w) \in 1 .. Len(w)
    BY <1>1
  <2>2. src[p + Len(w)] = w[Len(w)]
    BY <1>2, <2>1
  <2> QED BY <1>1, <2>2
<1>6. e \in Nat /\ j = e + 1 /\ j <= Len(src) /\ Pton6First(src) <= j
  BY <1>1, <1>2 DEF Pton6First
<1>7. OneDigit(h, m, d, k, n)
  BY <1>1
<1> HIDE DEF e, j, k, h
<1>8. At6(Pton6States(src)[j], q, c, cur, k, n)
  BY <1>4, <1>5, <1>6, <1>7, DigitAt
<1> QED BY <1>8 DEF j, k

\* inet_pton6 reads a number of at most 16 bits as "%x" writes it.
HexReads(n, len) ==
    LET w == Written(n, 16)
    IN  w \in Seq(Chars6) /\ Len(w) >= 1 /\ Len(w) <= len /\ w[1] # ":" /\ ReadsAs(w, n)

LEMMA HexFirst == ASSUME NEW n \in 0 .. 15 PROVE HexReads(n, 1)
<1> DEFINE w == Written(n, 16)
<1>1. w = <<Digit(n)>>
  <2>1. n \in Nat /\ n < 16 /\ 16 \in {10, 16}
    OBVIOUS
  <2> QED BY <2>1, WrittenDigits DEF Digit
<1>2. Digit(n) \in Chars6 /\ Digit(n) # ":"
  BY DigitIsChar
<1> HIDE DEF w
<1>3. w \in Seq(Chars6) /\ Len(w) = 1 /\ w[1] = Digit(n)
  <2> DEFINE ch == Digit(n)
  <2> HIDE DEF ch
  <2>1. ch \in Chars6 /\ w = <<ch>>
    BY <1>1, <1>2 DEF ch
  <2>2. w \in Seq(Chars6) /\ Len(w) = 1 /\ w[1] = ch
    BY <2>1
  <2> QED BY <2>2 DEF ch
<1>4. ReadsAs(w, n)
  BY <1>1, FirstDigit
<1>5. Len(w) >= 1 /\ Len(w) <= 1 /\ w[1] # ":"
  <2>1. 1 >= 1 /\ 1 <= 1
    OBVIOUS
  <2> QED BY <1>2, <1>3, <2>1, Zenon
<1> QED BY <1>3, <1>4, <1>5 DEF HexReads, w

LEMMA HexMore ==
    ASSUME NEW n \in Nat, n >= 16, n <= MaxWord, NEW len \in 1 .. 3, NEW m, m = n \div 16,
           HexReads(m, len), NEW next, next = len + 1
    PROVE  HexReads(n, next)
<1> DEFINE w == Written(n, 16)
           head == Written(m, 16)
           d == n % 16
<1>1. m \in Nat /\ d \in 0 .. 15 /\ n = m * 16 + d
  OBVIOUS
<1>2. w = Append(head, Digit(d))
  <2>1. 16 \in {10, 16} /\ ~(n < 16)
    OBVIOUS
  <2>2. w = Append(Written(n \div 16, 16), Numerals[(n % 16) + 1])
    BY <2>1, WrittenDigits
  <2> QED BY <2>2 DEF Digit
<1>3. Digit(d) \in Chars6 /\ Digit(d) # ":"
  BY <1>1, DigitIsChar
<1>4. /\ head \in Seq(Chars6) /\ Len(head) >= 1 /\ Len(head) <= len /\ head[1] # ":"
      /\ ReadsAs(head, m)
  BY DEF HexReads
<1> HIDE DEF w, head, d
<1>5. /\ w \in Seq(Chars6) /\ Len(w) = Len(head) + 1
      /\ \A i \in 1 .. Len(head) : w[i] = head[i]
  BY <1>2, <1>3, <1>4, AppendProperties
<1>6. Len(head) \in Nat /\ Len(head) < 4 /\ 1 \in 1 .. Len(head)
  BY <1>4
<1>7. ReadsAs(w, n)
  <2>1. OneDigit(Len(head), m, d, Len(head) + 1, n)
    BY <1>1, <1>6 DEF OneDigit
  <2> QED BY <1>2, <1>4, <2>1, MoreDigits
<1>8. Len(w) >= 1 /\ Len(w) <= next /\ w[1] # ":"
  BY <1>4, <1>5, <1>6
<1> QED BY <1>5, <1>7, <1>8 DEF HexReads, w

LEMMA WordReads == ASSUME NEW n \in Nat, n <= MaxWord PROVE HexReads(n, 4)
<1>1. ASSUME NEW m, NEW a \in Nat, NEW b \in Nat, a <= b, HexReads(m, a) PROVE HexReads(m, b)
  <2> DEFINE w == Written(m, 16)
  <2> HIDE DEF w
  <2>1. w \in Seq(Chars6) /\ Len(w) >= 1 /\ Len(w) <= a /\ w[1] # ":" /\ ReadsAs(w, m)
    BY <1>1 DEF HexReads, w
  <2>2. Len(w) <= b
    BY <1>1, <2>1
  <2> QED BY <2>1, <2>2 DEF HexReads, w
<1>2. \A m \in Nat : m < 16 => HexReads(m, 1)
  BY HexFirst
<1>3. ASSUME NEW len \in 1 .. 3, NEW bound \in Nat, NEW next, next = len + 1,
             NEW more, more = 16 * bound, bound <= MaxWord,
             \A m \in Nat : m < bound => HexReads(m, len)
      PROVE  \A m \in Nat : m < more /\ m <= MaxWord => HexReads(m, next)
  <2> SUFFICES ASSUME NEW m \in Nat, m < more, m <= MaxWord PROVE HexReads(m, next)
    OBVIOUS
  <2>1. CASE m < 16
    <3>1. HexReads(m, 1)
      BY <1>2, <2>1
    <3>2. 1 \in Nat /\ next \in Nat /\ 1 <= next
      BY <1>3
    <3> QED BY <1>1, <3>1, <3>2
  <2>2. CASE m >= 16
    <3> DEFINE h == m \div 16
    <3>1. h \in Nat /\ h < bound
      BY <1>3
    <3>2. HexReads(h, len)
      BY <1>3, <3>1
    <3>3. h = m \div 16
      OBVIOUS
    <3> HIDE DEF h
    <3> QED BY <1>3, <2>2, <3>2, <3>3, HexMore
  <2> QED BY <2>1, <2>2
<1> DEFINE Upto(bound, len) == \A m \in Nat : m < bound => HexReads(m, len)
           Most(bound, len) == \A m \in Nat : m < bound /\ m <= MaxWord => HexReads(m, len)
<1>4. \A len \in 1 .. 3, bound \in Nat :
        bound <= MaxWord /\ Upto(bound, len) => Most(16 * bound, len + 1)
  BY <1>3
<1>5. /\ 16 \in Nat /\ 256 \in Nat /\ 4096 \in Nat
      /\ 16 <= MaxWord /\ 256 <= MaxWord /\ 4096 <= MaxWord
      /\ 16 * 16 = 256 /\ 16 * 256 = 4096 /\ 16 * 4096 = 65536
      /\ 1 \in 1 .. 3 /\ 2 \in 1 .. 3 /\ 3 \in 1 .. 3
      /\ 1 + 1 = 2 /\ 2 + 1 = 3 /\ 3 + 1 = 4
  BY DEF MaxWord
<1>6. \A len, bound : bound \in Nat /\ bound <= MaxWord /\ Most(bound, len) => Upto(bound, len)
  <2>1. MaxWord \in Nat
    BY DEF MaxWord
  <2>2. \A m, bound \in Nat : m < bound /\ bound <= MaxWord => m <= MaxWord
    BY <2>1
  <2> QED BY <2>2
<1>7. Upto(16, 1)
  BY <1>2
<1> HIDE DEF Upto, Most
<1>8. Most(256, 2)
  BY <1>4, <1>5, <1>7
<1>9. Most(4096, 3)
  BY <1>4, <1>5, <1>6, <1>8
<1>10. Most(65536, 4)
  BY <1>4, <1>5, <1>6, <1>9
<1>11. n < 65536
  BY DEF MaxWord
<1> QED BY <1>10, <1>11 DEF Most

\* The digits of an octet are read as some hexadecimal number, until a dot tells
\* that they are decimal.
DecimalReads(n, len, most) ==
    LET w == Written(n, 10)
    IN  /\ w \in Seq(Chars6) /\ Len(w) >= 1 /\ Len(w) <= len
        /\ \E v \in Nat : v <= most /\ ReadsAs(w, v)

LEMMA DecimalFirst == ASSUME NEW n \in Nat, n < 10 PROVE DecimalReads(n, 1, 15)
<1> DEFINE w == Written(n, 10)
           ch == Digit(n)
<1>1. w = <<ch>>
  BY WrittenDecimal
<1>2. n \in 0 .. 15 /\ n <= 15
  OBVIOUS
<1>3. ch \in Chars6
  BY <1>2, DigitIsChar
<1>4. ReadsAs(w, n)
  BY <1>1, <1>2, FirstDigit
<1> HIDE DEF w, ch
<1>5. w \in Seq(Chars6) /\ Len(w) >= 1 /\ Len(w) <= 1
  BY <1>1, <1>3
<1>6. \E v \in Nat : v <= 15 /\ ReadsAs(w, v)
  BY <1>2, <1>4
<1> QED BY <1>5, <1>6 DEF DecimalReads, w

LEMMA DecimalMore ==
    ASSUME NEW n \in Nat, n >= 10, NEW m, m = n \div 10, NEW len \in 1 .. 3, NEW b \in Nat,
           16 * b + 15 <= MaxWord, DecimalReads(m, len, b)
    PROVE  DecimalReads(n, len + 1, 16 * b + 15)
<1> DEFINE w == Written(n, 10)
           head == Written(m, 10)
           d == n % 10
<1>1. w = Append(head, Digit(d))
  BY WrittenDecimal
<1>2. d \in 0 .. 15
  OBVIOUS
<1>3. Digit(d) \in Chars6
  BY <1>2, DigitIsChar
<1>4. /\ head \in Seq(Chars6) /\ Len(head) >= 1 /\ Len(head) <= len
      /\ \E v \in Nat : v <= b /\ ReadsAs(head, v)
  BY DEF DecimalReads
<1>5. PICK v \in Nat : v <= b /\ ReadsAs(head, v)
  BY <1>4
<1> DEFINE x == v * 16 + d
<1> HIDE DEF w, head, d
<1>6. Len(head) \in Nat /\ Len(head) < 4
  BY <1>4
<1>7. x \in Nat /\ x <= 16 * b + 15 /\ x <= MaxWord
  BY <1>2, <1>5 DEF MaxWord
<1>8. OneDigit(Len(head), v, d, Len(head) + 1, x)
  BY <1>2, <1>6, <1>7 DEF OneDigit
<1> HIDE DEF x
<1>9. ReadsAs(w, x)
  BY <1>1, <1>4, <1>5, <1>8, MoreDigits
<1>10. w \in Seq(Chars6) /\ Len(w) = Len(head) + 1
  BY <1>1, <1>3, <1>4, AppendProperties
<1>11. Len(w) >= 1 /\ Len(w) <= len + 1
  BY <1>4, <1>6, <1>10
<1>12. \E y \in Nat : y <= 16 * b + 15 /\ ReadsAs(w, y)
  BY <1>7, <1>9
<1> QED BY <1>10, <1>11, <1>12 DEF DecimalReads, w

LEMMA OctetAsHex ==
    ASSUME NEW n \in Nat, n <= 255 PROVE \E v \in Nat : ReadsAs(Written(n, 10), v)
<1>1. CASE n < 10
  <2>1. DecimalReads(n, 1, 15)
    BY <1>1, DecimalFirst
  <2> QED BY <2>1 DEF DecimalReads
<1> DEFINE h == n \div 10
           g == h \div 10
<1>2. CASE n >= 10 /\ n < 100
  <2>1. h \in Nat /\ h < 10 /\ h = n \div 10
    BY <1>2
  <2> HIDE DEF h
  <2>2. DecimalReads(h, 1, 15)
    BY <2>1, DecimalFirst
  <2>3. 1 \in 1 .. 3 /\ 15 \in Nat /\ 16 * 15 + 15 <= MaxWord
    BY DEF MaxWord
  <2>4. DecimalReads(n, 1 + 1, 16 * 15 + 15)
    BY <1>2, <2>1, <2>2, <2>3, DecimalMore
  <2> QED BY <2>4 DEF DecimalReads
<1>3. CASE n >= 100
  <2>1. /\ h \in Nat /\ h >= 10 /\ h <= 25 /\ h = n \div 10
        /\ g \in Nat /\ g < 10 /\ g = h \div 10
    BY <1>3
  <2> HIDE DEF h, g
  <2>2. DecimalReads(g, 1, 15)
    BY <2>1, DecimalFirst
  <2>3. /\ 1 \in 1 .. 3 /\ 15 \in Nat /\ 16 * 15 + 15 <= MaxWord
        /\ 2 \in 1 .. 3 /\ 255 \in Nat /\ 16 * 255 + 15 <= MaxWord
    BY DEF MaxWord
  <2>4. DecimalReads(h, 1 + 1, 16 * 15 + 15)
    BY <2>1, <2>2, <2>3, DecimalMore
  <2>5. DecimalReads(h, 2, 255)
    <3>1. 1 + 1 = 2 /\ 16 * 15 + 15 = 255
      OBVIOUS
    <3> QED BY <2>4, <3>1
  <2>6. DecimalReads(n, 2 + 1, 16 * 255 + 15)
    BY <1>3, <2>1, <2>3, <2>5, DecimalMore
  <2> QED BY <2>6 DEF DecimalReads
<1> QED BY <1>1, <1>2, <1>3

LEMMA ColonAt ==
    ASSUME NEW src \in Seq(Chars6), NEW p \in Nat, NEW j, j = p + 1, j < Len(src),
           Pton6First(src) <= j, src[j] = ":", NEW q \in Seq(Nat), Len(q) # 8, NEW c, NEW cur,
           NEW k \in Nat, k # 0, NEW v \in Nat, At6(Pton6States(src)[p], q, c, cur, k, v)
    PROVE  Before6(src, j, Append(q, v), c, j + 1)
<1> DEFINE s == Pton6States(src)[p]
           t == Pton6States(src)[j]
<1>1. j \in Nat /\ j # Len(src) /\ j <= Len(src)
  OBVIOUS
<1>2. t = Pton6Step(s, src, j)
  BY <1>1, StepAt
<1>3. s = Word6(q, c, cur, k, v)
  BY DEF At6
<1> HIDE DEF s, t
<1>4. Pton6Step(Word6(q, c, cur, k, v), src, j) = Word6(Append(q, v), c, j + 1, 0, 0)
  BY <1>1, ColonStep
<1>5. t = Word6(Append(q, v), c, j + 1, 0, 0)
  BY <1>2, <1>3, <1>4
<1> QED BY <1>5 DEF t, Before6, At6

LEMMA GapAt ==
    ASSUME NEW src \in Seq(Chars6), NEW p \in Nat, NEW j, j = p + 1, j <= Len(src),
           Pton6First(src) <= j, src[j] = ":", NEW q, NEW cur, Before6(src, p, q, -1, cur)
    PROVE  Before6(src, j, q, Len(q), j + 1)
<1> DEFINE s == Pton6States(src)[p]
           t == Pton6States(src)[j]
<1>1. t = Pton6Step(s, src, j)
  BY StepAt
<1>2. s = Word6(q, -1, cur, 0, 0)
  BY DEF At6, Before6
<1> HIDE DEF s, t
<1>3. Pton6Step(Word6(q, -1, cur, 0, 0), src, j) = Word6(q, Len(q), j + 1, 0, 0)
  BY GapStep
<1>4. t = Word6(q, Len(q), j + 1, 0, 0)
  BY <1>1, <1>2, <1>3
<1> QED BY <1>4 DEF t, Before6, At6

\* Between words, or right behind the word v.
Between6(src, p, q, c) == \E cur : Before6(src, p, q, c, cur)

Behind6(src, p, q, c, v) ==
    \E cur, k : k \in Nat /\ k # 0 /\ At6(Pton6States(src)[p], q, c, cur, k, v)

LEMMA Begin6 ==
    ASSUME NEW src \in Seq(Chars6), Len(src) > 0
    PROVE  /\ src[1] # ":" => Pton6First(src) = 1 /\ Between6(src, 0, <<>>, -1)
           /\ src[1] = ":" => Pton6First(src) = 2 /\ Between6(src, 1, <<>>, -1)
<1> DEFINE f == Pton6States(src)
<1>1. f[0] = Pton6Fresh(src) /\ f[1] = Pton6Turn(f[0], src, 1)
  <2>1. 1 \in 1 .. Len(src) /\ 1 - 1 = 0
    OBVIOUS
  <2> QED BY <2>1, Pton6Turns
<1>2. Pton6Fresh(src) = Word6(<<>>, -1, Pton6First(src), 0, 0)
  BY DEF Pton6Fresh, Word6
<1> HIDE DEF f
<1>3. CASE src[1] # ":"
  <2>1. Pton6First(src) = 1
    BY <1>3 DEF Pton6First
  <2>2. Before6(src, 0, <<>>, -1, 1)
    BY <1>1, <1>2, <2>1 DEF Before6, At6, f
  <2> QED BY <1>3, <2>1, <2>2 DEF Between6
<1>4. CASE src[1] = ":"
  <2>1. Pton6First(src) = 2
    BY <1>4 DEF Pton6First
  <2>2. f[1] = Pton6Fresh(src)
    BY <1>1, <2>1 DEF Pton6Turn
  <2>3. Before6(src, 1, <<>>, -1, 2)
    BY <1>2, <2>1, <2>2 DEF Before6, At6, f
  <2> QED BY <1>4, <2>1, <2>3 DEF Between6
<1> QED BY <1>3, <1>4

LEMMA WordAt ==
    ASSUME NEW src \in Seq(Chars6), NEW p \in Nat, Pton6First(src) <= p + 1,
           NEW n \in Nat, n <= MaxWord, NEW w, w = Written(n, 16), Holds(src, p, w),
           NEW q, NEW c, Between6(src, p, q, c)
    PROVE  Behind6(src, p + Len(w), q, c, n)
<1>1. w \in Seq(Chars6) /\ Len(w) >= 1 /\ ReadsAs(w, n)
  BY WordReads DEF HexReads
<1>2. PICK cur : Before6(src, p, q, c, cur)
  BY DEF Between6
<1>3. At6(Pton6States(src)[p + Len(w)], q, c, cur, Len(w), n)
  BY <1>1, <1>2 DEF ReadsAs
<1>4. Len(w) \in Nat /\ Len(w) # 0
  BY <1>1
<1> QED BY <1>3, <1>4, Zenon DEF Behind6

\* A piece of the text: a colon and what follows it.
LEMMA ColonFirst ==
    ASSUME NEW src \in Seq(Chars6), NEW p \in Nat, NEW w \in Seq(Chars6),
           NEW z, z = <<":">> \o w, Holds(src, p, z)
    PROVE  /\ Len(z) = Len(w) + 1 /\ p + 1 \in Nat /\ p + 1 <= Len(src) /\ src[p + 1] = ":"
           /\ Holds(src, p + 1, w) /\ (Len(w) >= 1 => p + 1 < Len(src))
<1>1. ":" \in Chars6
  BY DEF Chars6
<1> DEFINE colon == <<":">>
<1>2. colon \in Seq(Chars6) /\ Len(colon) = 1 /\ colon[1] = ":"
  BY <1>1
<1> HIDE DEF colon
<1>3. z = colon \o w
  BY DEF colon
<1>4. /\ Len(w) \in Nat /\ Len(z) = 1 + Len(w)
      /\ \A i \in 1 .. 1 + Len(w) : z[i] = IF i <= 1 THEN colon[i] ELSE w[i - 1]
  BY <1>2, <1>3, ConcatProperties
<1>5. p + Len(z) <= Len(src) /\ \A i \in 1 .. Len(z) : src[p + i] = z[i]
  BY DEF Holds
<1>6. Len(src) \in Nat
  OBVIOUS
<1>7. p + 1 + Len(w) <= Len(src)
  BY <1>4, <1>5, <1>6
<1>8. src[p + 1] = ":"
  BY <1>2, <1>4, <1>5
<1>9. ASSUME NEW i \in 1 .. Len(w) PROVE src[p + 1 + i] = w[i]
  <2>1. 1 + i \in 1 .. Len(z) /\ ~(1 + i <= 1) /\ (1 + i) - 1 = i /\ p + (1 + i) = p + 1 + i
    BY <1>4
  <2> QED BY <1>4, <1>5, <2>1
<1>10. Holds(src, p + 1, w)
  BY <1>7, <1>9 DEF Holds
<1> QED BY <1>4, <1>6, <1>7, <1>8, <1>10

\* A word after another one.
LEMMA NextWordAt ==
    ASSUME NEW src \in Seq(Chars6), NEW p \in Nat, Pton6First(src) <= p + 1,
           NEW n \in Nat, n <= MaxWord, NEW z, z = <<":">> \o Written(n, 16), Holds(src, p, z),
           NEW q \in Seq(Nat), Len(q) # 8, NEW c, NEW v \in Nat, Behind6(src, p, q, c, v)
    PROVE  Behind6(src, p + Len(z), Append(q, v), c, n)
<1> DEFINE w == Written(n, 16)
           j == p + 1
<1>1. w \in Seq(Chars6) /\ Len(w) >= 1 /\ z = <<":">> \o w /\ w = Written(n, 16)
  BY WordReads DEF HexReads
<1> HIDE DEF w
<1>2. /\ Len(z) = Len(w) + 1 /\ j \in Nat /\ j <= Len(src) /\ src[j] = ":"
      /\ Holds(src, j, w) /\ j < Len(src)
  <2>1. /\ Len(z) = Len(w) + 1 /\ p + 1 \in Nat /\ p + 1 <= Len(src) /\ src[p + 1] = ":"
        /\ Holds(src, p + 1, w) /\ (Len(w) >= 1 => p + 1 < Len(src))
    <3>1. w \in Seq(Chars6) /\ z = <<":">> \o w
      BY <1>1
    <3> QED BY <3>1, ColonFirst, Zenon
  <2> QED BY <1>1, <2>1
<1>3. PICK cur, k : k \in Nat /\ k # 0 /\ At6(Pton6States(src)[p], q, c, cur, k, v)
  BY DEF Behind6
<1>4. j = p + 1 /\ Pton6First(src) <= j + 1
  BY <1>2 DEF Pton6First
<1> HIDE DEF j
<1>5. Before6(src, j, Append(q, v), c, j + 1)
  BY <1>2, <1>3, <1>4, ColonAt
<1>6. Between6(src, j, Append(q, v), c)
  BY <1>5 DEF Between6
<1>7. Behind6(src, j + Len(w), Append(q, v), c, n)
  BY <1>1, <1>2, <1>4, <1>6, WordAt
<1>8. j + Len(w) = p + Len(z)
  BY <1>1, <1>2, <1>4
<1> QED BY <1>7, <1>8

\* A word after the zeros.
LEMMA GapWordAt ==
    ASSUME NEW src \in Seq(Chars6), NEW p \in Nat, Pton6First(src) <= p + 1,
           NEW n \in Nat, n <= MaxWord, NEW z, z = <<":">> \o Written(n, 16), Holds(src, p, z),
           NEW q, Between6(src, p, q, -1)
    PROVE  Behind6(src, p + Len(z), q, Len(q), n)
<1> DEFINE w == Written(n, 16)
           j == p + 1
<1>1. w \in Seq(Chars6) /\ Len(w) >= 1 /\ z = <<":">> \o w /\ w = Written(n, 16)
  BY WordReads DEF HexReads
<1> HIDE DEF w
<1>2. /\ Len(z) = Len(w) + 1 /\ j \in Nat /\ j <= Len(src) /\ src[j] = ":"
      /\ Holds(src, j, w) /\ j < Len(src)
  <2>1. /\ Len(z) = Len(w) + 1 /\ p + 1 \in Nat /\ p + 1 <= Len(src) /\ src[p + 1] = ":"
        /\ Holds(src, p + 1, w) /\ (Len(w) >= 1 => p + 1 < Len(src))
    <3>1. w \in Seq(Chars6) /\ z = <<":">> \o w
      BY <1>1
    <3> QED BY <3>1, ColonFirst, Zenon
  <2> QED BY <1>1, <2>1
<1>3. PICK cur : Before6(src, p, q, -1, cur)
  BY DEF Between6
<1>4. j = p + 1 /\ Pton6First(src) <= j + 1
  BY <1>2 DEF Pton6First
<1> HIDE DEF j
<1>5. Before6(src, j, q, Len(q), j + 1)
  BY <1>2, <1>3, <1>4, GapAt
<1>6. Between6(src, j, q, Len(q))
  BY <1>5 DEF Between6
<1>7. Behind6(src, j + Len(w), q, Len(q), n)
  BY <1>1, <1>2, <1>4, <1>6, WordAt
<1>8. j + Len(w) = p + Len(z)
  BY <1>1, <1>2, <1>4
<1> QED BY <1>7, <1>8

LEMMA ZerosBeginAt ==
    ASSUME NEW src \in Seq(Chars6), NEW p \in Nat, Pton6First(src) <= p + 1, p + 1 < Len(src),
           src[p + 1] = ":", NEW q \in Seq(Nat), Len(q) # 8, NEW c, NEW v \in Nat,
           Behind6(src, p, q, c, v)
    PROVE  Between6(src, p + 1, Append(q, v), c)
<1> DEFINE j == p + 1
<1>1. PICK cur, k : k \in Nat /\ k # 0 /\ At6(Pton6States(src)[p], q, c, cur, k, v)
  BY DEF Behind6
<1>2. j = p + 1 /\ j < Len(src) /\ Pton6First(src) <= j /\ src[j] = ":"
  OBVIOUS
<1> HIDE DEF j
<1>3. Before6(src, j, Append(q, v), c, j + 1)
  BY <1>1, <1>2, ColonAt
<1> QED BY <1>3 DEF Between6, j

LEMMA ZerosEndAt ==
    ASSUME NEW src \in Seq(Chars6), NEW p \in Nat, Pton6First(src) <= p + 1, p + 1 <= Len(src),
           src[p + 1] = ":", NEW q, Between6(src, p, q, -1)
    PROVE  Between6(src, p + 1, q, Len(q))
<1> DEFINE j == p + 1
<1>1. PICK cur : Before6(src, p, q, -1, cur)
  BY DEF Between6
<1>2. j = p + 1 /\ j <= Len(src) /\ Pton6First(src) <= j /\ src[j] = ":"
  OBVIOUS
<1> HIDE DEF j
<1>3. Before6(src, j, q, Len(q), j + 1)
  BY <1>1, <1>2, GapAt
<1> QED BY <1>3 DEF Between6, j

\* Once the loop was left nothing changes.
LEMMA LeftForGood ==
    ASSUME NEW src \in Seq(Chars6), NEW p \in Nat, Pton6First(src) <= p + 1, p <= Len(src),
           Pton6States(src)[p].left # "no"
    PROVE  Pton6States(src)[Len(src)] = Pton6States(src)[p]
<1> DEFINE f == Pton6States(src)
           n == Len(src)
           s == f[p]
           T == {j \in 0 .. n : j >= p => f[j] = s}
<1>1. n \in Nat /\ \A j \in 1 .. n : f[j] = Pton6Turn(f[j - 1], src, j)
  BY Pton6Turns
<1>2. s.left # "no"
  OBVIOUS
<1>3. 0 \in T
  <2>1. 0 >= p => p = 0
    OBVIOUS
  <2> QED BY <1>1, <2>1
<1> HIDE DEF f, n
<1>4. ASSUME NEW j \in 1 .. n, j - 1 \in T PROVE j \in T
  <2>1. j \in 0 .. n
    BY <1>1
  <2>2. CASE j <= p
    BY <2>1, <2>2
  <2>3. CASE j > p
    <3>1. f[j - 1] = s
      BY <1>4, <2>3
    <3>2. ~(j < Pton6First(src))
      BY <1>1, <2>3 DEF Pton6First
    <3>3. f[j] = Pton6Step(s, src, j)
      BY <1>1, <3>1, <3>2 DEF Pton6Turn
    <3> HIDE DEF s
    <3>4. Pton6Step(s, src, j) = s
      BY <1>2, Zenon DEF Pton6Step
    <3> QED BY <2>1, <3>3, <3>4 DEF s
  <2> QED BY <2>2, <2>3
<1> HIDE DEF T
<1>5. \A j \in 0 .. n : j \in T
  BY <1>1, <1>3, <1>4, Counting
<1>6. n \in T /\ n >= p
  BY <1>1, <1>5 DEF n
<1> QED BY <1>6 DEF T, f, n, s

LEMMA SuffixHeld ==
    ASSUME NEW src \in Seq(Chars6), NEW p \in Nat, NEW w \in Seq(Chars6), Holds(src, p, w),
           p + Len(w) = Len(src)
    PROVE  SubSeq(src, p + 1, Len(src)) = w
<1> DEFINE n == Len(src)
           k == Len(w)
           x == SubSeq(src, p + 1, n)
<1>1. n \in Nat /\ k \in Nat /\ p + 1 \in Int /\ n \in Int
  OBVIOUS
<1>2. \A i \in p + 1 .. n : src[i] \in Chars6
  BY <1>1
<1>3. /\ x \in Seq(Chars6) /\ Len(x) = (IF p + 1 <= n THEN n - (p + 1) + 1 ELSE 0)
      /\ \A i \in 1 .. n - (p + 1) + 1 : x[i] = src[p + 1 + i - 1]
  BY <1>1, <1>2, SubSeqProperties
<1>4. \A i \in 1 .. k : src[p + i] = w[i]
  BY DEF Holds
<1> HIDE DEF x
<1>5. Len(x) = k /\ n - (p + 1) + 1 = k
  BY <1>1, <1>3
<1>6. \A i \in 1 .. k : x[i] = w[i]
  <2> SUFFICES ASSUME NEW i \in 1 .. k PROVE x[i] = w[i]
    OBVIOUS
  <2>1. i \in 1 .. n - (p + 1) + 1 /\ p + 1 + i - 1 = p + i
    BY <1>1, <1>5
  <2>2. x[i] = src[p + i]
    BY <1>3, <2>1
  <2> QED BY <1>4, <2>2
<1>7. x = w
  BY <1>3, <1>5, <1>6, SeqEqual
<1> QED BY <1>7 DEF x

\* An IPv4 address that ends the text is read as its two words.
LEMMA QuadAt ==
    ASSUME NEW src \in Seq(Chars6), NEW p \in Nat, Pton6First(src) <= p + 1,
           NEW a \in [1 .. 4 -> 0 .. 255], NEW w, w = QuadText(a), Holds(src, p, w),
           p + Len(w) = Len(src), NEW q \in Seq(Nat), Len(q) <= 6, NEW c,
           Before6(src, p, q, c, p + 1)
    PROVE  Dotted(Pton6States(src)[Len(src)], q, c, a)
<1> DEFINE x == Written(a[1], 10)
           h == Len(x)
           e == p + h
           j == e + 1
           f == Pton6States(src)
<1>1. /\ w \in Seq(Chars6) /\ Len(w) >= 7 /\ Holds(w, 0, x) /\ Holds(w, h, <<".">>)
      /\ inet_pton4(w) = a
  <2>1. /\ w \in Seq(Chars) /\ Len(w) >= 7 /\ Holds(w, 0, x) /\ Holds(w, h, <<".">>)
        /\ inet_pton4(w) = a
    <3> HIDE DEF h
    <3>1. \A t : t = QuadText(a) =>
            /\ t \in Seq(Chars) /\ Len(t) >= 7
            /\ Holds(t, 0, Written(a[1], 10)) /\ Holds(t, Len(Written(a[1], 10)), <<".">>)
            /\ inet_pton4(t) = a
      BY QuadReadsBack
    <3> QED BY <3>1 DEF h
  <2>2. w \in Seq(Chars6)
    BY <2>1, MoreChars
  <2> QED BY <2>1, <2>2
<1>2. a[1] \in Nat /\ a[1] <= 255
  BY OctetsOf
<1>3. x \in Seq(Chars) /\ h \in Nat
  <2>1. WrittenAs(a[1], x)
    BY <1>2, WrittenOctet
  <2> HIDE DEF x
  <2> QED BY <2>1 DEF WrittenAs
<1>4. PICK v \in Nat : ReadsAs(x, v)
  BY <1>2, OctetAsHex
<1> HIDE DEF x, h
<1>5. Len(w) \in Nat /\ Len(src) \in Nat
  BY <1>1
<1>6. \A i \in 1 .. Len(w) : src[p + i] = w[i]
  BY DEF Holds
<1>7. h + 1 <= Len(w) /\ w[h + 1] = "." /\ \A i \in 1 .. h : w[i] = x[i]
  <2>1. \A i \in 1 .. h : w[0 + i] = x[i]
    BY <1>1 DEF Holds, h
  <2>2. \A i \in 1 .. h : 0 + i = i
    BY <1>3
  <2>3. h + 1 <= Len(w) /\ w[h + 1] = "."
    BY <1>1 DEF Holds
  <2> QED BY <2>1, <2>2, <2>3
<1>8. Holds(src, p, x)
  <2>1. p + h <= Len(src)
    BY <1>3, <1>5, <1>7
  <2>2. ASSUME NEW i \in 1 .. h PROVE src[p + i] = x[i]
    <3>1. i \in 1 .. Len(w)
      BY <1>3, <1>5, <1>7
    <3> QED BY <1>6, <1>7, <3>1
  <2> QED BY <2>1, <2>2 DEF Holds, h
<1>9. At6(f[e], q, c, p + 1, h, v)
  BY <1>4, <1>8 DEF ReadsAs, h
<1>10. /\ e \in Nat /\ j = e + 1 /\ j <= Len(src) /\ Pton6First(src) <= j /\ src[j] = "."
  <2>1. /\ e \in Nat /\ j = e + 1 /\ j <= Len(src) /\ Pton6First(src) <= j /\ j = p + (h + 1)
    BY <1>3, <1>5, <1>7 DEF Pton6First
  <2>2. h + 1 \in 1 .. Len(w)
    BY <1>3, <1>5, <1>7
  <2>3. src[p + (h + 1)] = "."
    BY <1>6, <1>7, <2>2
  <2> QED BY <2>1, <2>3
<1>11. SubSeq(src, p + 1, Len(src)) = w
  BY <1>1, SuffixHeld
<1>12. a # Invalid
  <2>1. 1 \in DOMAIN a /\ 1 \notin DOMAIN Invalid
    BY DEF Invalid
  <2> QED BY <2>1
<1> DEFINE s == f[e]
           t == f[j]
           cur == p + 1
<1> HIDE DEF e, j
<1>13. t = Pton6Step(s, src, j)
  BY <1>10, StepAt
<1>14. At6(s, q, c, cur, h, v)
  BY <1>9
<1>15. a = inet_pton4(SubSeq(src, cur, Len(src)))
  BY <1>1, <1>11
<1>16. Len(q) \in Nat
  OBVIOUS
<1> HIDE DEF s, cur, f
<1> DEFINE z == Pton6Step(s, src, j)
<1>17. Dotted(z, q, c, a)
  BY <1>10, <1>12, <1>14, <1>15, <1>16, DotStep
<1>18. t = z
  BY <1>13
<1> HIDE DEF z, t
<1>19. t.left # "no" /\ j \in Nat /\ Pton6First(src) <= j + 1
  BY <1>10, <1>17, <1>18 DEF Pton6First, Dotted
<1>20. f[Len(src)] = t
  BY <1>10, <1>19, LeftForGood DEF f, t
<1> QED BY <1>17, <1>18, <1>20 DEF f

-----------------------------------------------------------------------------
(* The pieces of the text of an IPv6 address *)

Words16 == [1 .. 8 -> 0 .. MaxWord]

LEMMA WordOf ==
    ASSUME NEW words \in Words16, NEW i \in 1 .. 8
    PROVE  words[i] \in 0 .. MaxWord /\ words[i] \in Nat /\ words[i] <= MaxWord
<1>1. MaxWord \in Nat
  BY DEF MaxWord
<1>2. words[i] \in 0 .. MaxWord
  BY DEF Words16
<1> QED BY <1>1, <1>2

Octets(words) == Unpacked(<<words[7], words[8]>>)

LEMMA OctetsFit4 ==
    ASSUME NEW words \in Words16
    PROVE  /\ Octets(words) \in [1 .. 4 -> 0 .. 255]
           /\ Packed(Octets(words)) = <<words[7], words[8]>>
<1> DEFINE x == words[7]
           y == words[8]
           a == Octets(words)
<1>1. x \in Nat /\ x <= MaxWord /\ y \in Nat /\ y <= MaxWord
  BY WordOf
<1>2. a = <<x \div 256, (x % 256), y \div 256, (y % 256)>>
  BY DEF Octets, Unpacked
<1> HIDE DEF x, y, a
<1>3. \A n \in Nat : n <= MaxWord =>
        n \div 256 \in 0 .. 255 /\ (n % 256) \in 0 .. 255 /\ (n \div 256) * 256 + (n % 256) = n
  BY DEF MaxWord
<1> DEFINE p == x \div 256
           q == x % 256
           r == y \div 256
           s == y % 256
<1>4. a = <<p, q, r, s>>
  BY <1>2
<1>5. /\ p \in 0 .. 255 /\ q \in 0 .. 255 /\ r \in 0 .. 255 /\ s \in 0 .. 255
      /\ p * 256 + q = x /\ r * 256 + s = y
  BY <1>1, <1>3
<1> HIDE DEF p, q, r, s
<1>6. a \in [1 .. 4 -> 0 .. 255]
  BY <1>4, <1>5
<1>7. Packed(a) = <<x, y>>
  <2>1. a[1] = p /\ a[2] = q /\ a[3] = r /\ a[4] = s
    BY <1>4
  <2> QED BY <1>5, <2>1 DEF Packed
<1> QED BY <1>6, <1>7 DEF a, x, y

\* "::" stands for l zeros after the first b words, or for none.
RunShape(words, b, l) ==
    /\ words \in Words16
    /\ \/ b = -1 /\ l = 0
       \/ b \in 0 .. 6 /\ l \in 2 .. 8 /\ b + l <= 8 /\ AllZero(words, b, l)

InRun(b, l, i) == b <= i - 1 /\ i - 1 < b + l

Encapsulated(words, b, l) ==
    /\ b = 0
    /\ l = 6 \/ (l = 5 /\ words[6] = MaxWord)

\* What inet_ntop6 writes for a word.
Colon(text) == <<":">> \o text

Piece(words, b, l, i) ==
    IF InRun(b, l, i) THEN IF i - 1 = b THEN <<":">> ELSE <<>>
    ELSE IF Encapsulated(words, b, l) /\ i = 7 THEN Colon(QuadText(Octets(words)))
    ELSE IF Encapsulated(words, b, l) /\ i = 8 THEN <<>>
    ELSE IF i = 1 THEN Written(words[i], 16)
    ELSE Colon(Written(words[i], 16))

EndColon(b, l) == IF b + l = 8 THEN <<":">> ELSE <<>>

\* The text before each word, and after the last one.
Pieced(words, b, l) ==
    {text \in [0 .. 8 -> Seq(Chars6)] :
       /\ text[0] = <<>>
       /\ \A i \in 1 .. 8 : text[i] = text[i - 1] \o Piece(words, b, l, i)}

\* How long a piece is at most, and the text up to it.
Most(words, b, l, i) ==
    IF ~Encapsulated(words, b, l) THEN 5
    ELSE IF i = 1 THEN 1
    ELSE IF i <= 5 THEN 0
    ELSE IF i = 6 THEN 5
    ELSE IF i = 7 THEN 16
    ELSE 0

MostUpto(words, b, l, i) ==
    IF ~Encapsulated(words, b, l) THEN 5 * i
    ELSE IF i = 0 THEN 0
    ELSE IF i <= 5 THEN 1
    ELSE IF i = 6 THEN 6
    ELSE 22

LEMMA ColonChar == ":" \in Chars6 /\ <<":">> \in Seq(Chars6) /\ Len(<<":">>) = 1 /\ <<":">>[1] = ":"
<1>1. ":" \in Chars6
  BY DEF Chars6
<1> QED BY <1>1

LEMMA ColonText ==
    ASSUME NEW w \in Seq(Chars6)
    PROVE  /\ Colon(w) \in Seq(Chars6) /\ Len(Colon(w)) = 1 + Len(w) /\ Colon(w)[1] = ":"
<1> DEFINE c == <<":">>
<1>1. c \in Seq(Chars6) /\ Len(c) = 1 /\ c[1] = ":"
  BY ColonChar
<1>2. Colon(w) = c \o w
  BY DEF Colon
<1> HIDE DEF c
<1>3. /\ c \o w \in Seq(Chars6) /\ Len(c \o w) = Len(c) + Len(w)
      /\ \A i \in 1 .. Len(c) + Len(w) : (c \o w)[i] = IF i <= Len(c) THEN c[i] ELSE w[i - Len(c)]
  BY <1>1, ConcatProperties
<1>4. 1 \in 1 .. Len(c) + Len(w) /\ 1 <= Len(c)
  BY <1>1
<1> QED BY <1>1, <1>2, <1>3, <1>4

LEMMA WordText ==
    ASSUME NEW n \in Nat, n <= MaxWord
    PROVE  LET w == Written(n, 16)
           IN  w \in Seq(Chars6) /\ Len(w) \in Nat /\ Len(w) >= 1 /\ Len(w) <= 4 /\ w[1] # ":"
<1> DEFINE w == Written(n, 16)
<1>1. w \in Seq(Chars6) /\ Len(w) >= 1 /\ Len(w) <= 4 /\ w[1] # ":"
  BY WordReads DEF HexReads
<1> HIDE DEF w
<1>2. Len(w) \in Nat
  BY <1>1
<1> QED BY <1>1, <1>2 DEF w

LEMMA QuadText6 ==
    ASSUME NEW words \in Words16
    PROVE  LET w == QuadText(Octets(words))
           IN  /\ w \in Seq(Chars6) /\ w \in Seq(Chars) /\ Len(w) \in Nat
               /\ Len(w) >= 7 /\ Len(w) <= 15
<1> DEFINE w == QuadText(Octets(words))
<1>1. w \in Seq(Chars) /\ Len(w) >= 7 /\ Len(w) <= 15
  BY OctetsFit4, QuadReadsBack
<1> HIDE DEF w
<1>2. w \in Seq(Chars6) /\ Len(w) \in Nat
  BY <1>1, MoreChars
<1> QED BY <1>1, <1>2 DEF w

LEMMA PieceShape ==
    ASSUME NEW words, NEW b, NEW l, RunShape(words, b, l), NEW i \in 1 .. 8
    PROVE  LET z == Piece(words, b, l, i)
           IN  z \in Seq(Chars6) /\ Len(z) \in Nat /\ Len(z) <= Most(words, b, l, i)
<1> DEFINE z == Piece(words, b, l, i)
           w == Written(words[i], 16)
           v == QuadText(Octets(words))
           enc == Encapsulated(words, b, l)
<1>1. words \in Words16
  BY DEF RunShape
<1>2. w \in Seq(Chars6) /\ Len(w) \in Nat /\ Len(w) >= 1 /\ Len(w) <= 4
  BY <1>1, WordOf, WordText
<1>3. v \in Seq(Chars6) /\ Len(v) \in Nat /\ Len(v) >= 7 /\ Len(v) <= 15
  BY <1>1, QuadText6
<1>4. z = IF InRun(b, l, i) THEN IF i - 1 = b THEN <<":">> ELSE <<>>
          ELSE IF enc /\ i = 7 THEN Colon(v)
          ELSE IF enc /\ i = 8 THEN <<>>
          ELSE IF i = 1 THEN w ELSE Colon(w)
  BY DEF Piece
<1>5. enc => b = 0 /\ l \in {5, 6} /\ (InRun(b, l, i) <=> i <= l)
  BY DEF Encapsulated, InRun
<1> HIDE DEF z, w, v, enc
<1>6. <<>> \in Seq(Chars6) /\ Len(<<>>) = 0
  OBVIOUS
<1>7. \/ z \in Seq(Chars6) /\ Len(z) = 0
      \/ z \in Seq(Chars6) /\ Len(z) = 1 /\ InRun(b, l, i) /\ i - 1 = b
      \/ z \in Seq(Chars6) /\ Len(z) \in Nat /\ Len(z) <= 5 /\ ~InRun(b, l, i)
         /\ ~(enc /\ i = 7) /\ ~(enc /\ i = 8)
      \/ z \in Seq(Chars6) /\ Len(z) \in Nat /\ Len(z) <= 16 /\ enc /\ i = 7
  <2>1. CASE InRun(b, l, i)
    BY <1>4, <1>6, <2>1, ColonChar
  <2>2. CASE ~InRun(b, l, i) /\ enc /\ i = 7
    <3>1. z = Colon(v)
      BY <1>4, <2>2
    <3> QED BY <1>3, <2>2, <3>1, ColonText
  <2>3. CASE ~InRun(b, l, i) /\ enc /\ i = 8
    BY <1>4, <1>6, <2>3
  <2>4. CASE ~InRun(b, l, i) /\ ~(enc /\ i = 7) /\ ~(enc /\ i = 8)
    <3>1. z = w \/ z = Colon(w)
      BY <1>4, <2>4
    <3> QED BY <1>2, <2>4, <3>1, ColonText
  <2> QED BY <2>1, <2>2, <2>3, <2>4
<1>8. Most(words, b, l, i) =
        IF ~enc THEN 5 ELSE IF i = 1 THEN 1 ELSE IF i <= 5 THEN 0
        ELSE IF i = 6 THEN 5 ELSE IF i = 7 THEN 16 ELSE 0
  BY DEF Most, enc
<1>9. z \in Seq(Chars6) /\ Len(z) \in Nat
  BY <1>7
<1> DEFINE k == Len(z)
           in == InRun(b, l, i)
<1>10. /\ k \in Nat
       /\ \/ k = 0
          \/ k = 1 /\ in /\ i - 1 = b
          \/ k <= 5 /\ ~in /\ ~(enc /\ i = 7) /\ ~(enc /\ i = 8)
          \/ k <= 16 /\ enc /\ i = 7
  BY <1>7, <1>9
<1> HIDE DEF k, in
<1>11. enc => b = 0 /\ l \in {5, 6} /\ (in <=> i <= l)
  BY <1>5 DEF in
<1>12. k <= Most(words, b, l, i)
  BY <1>8, <1>10, <1>11
<1> QED BY <1>9, <1>12 DEF k, z

LEMMA PieceAdds ==
    ASSUME NEW words, NEW b, NEW l, NEW i \in 1 .. 8, NEW m \in Nat, NEW k \in Nat,
           m <= MostUpto(words, b, l, i - 1), k <= Most(words, b, l, i)
    PROVE  m + k <= MostUpto(words, b, l, i)
<1> DEFINE enc == Encapsulated(words, b, l)
<1>1. CASE enc
  <2>1. MostUpto(words, b, l, i - 1) = IF i - 1 = 0 THEN 0 ELSE IF i - 1 <= 5 THEN 1
                                       ELSE IF i - 1 = 6 THEN 6 ELSE 22
    BY <1>1 DEF MostUpto
  <2>2. MostUpto(words, b, l, i) = IF i <= 5 THEN 1 ELSE IF i = 6 THEN 6 ELSE 22
    BY <1>1 DEF MostUpto
  <2>3. Most(words, b, l, i) = IF i = 1 THEN 1 ELSE IF i <= 5 THEN 0
        ELSE IF i = 6 THEN 5 ELSE IF i = 7 THEN 16 ELSE 0
    BY <1>1 DEF Most
  <2> QED BY <2>1, <2>2, <2>3
<1>2. CASE ~enc
  BY <1>2 DEF MostUpto, Most
<1> QED BY <1>1, <1>2

-----------------------------------------------------------------------------
(* The text is put together of the pieces *)

\* One turn of the loop of inet_ntop6.
Turn6(words, fill, tp, i) ==
    LET best == BestRun(words)
        encapsulated == /\ best.base = 0
                        /\ best.len = 6 \/ (best.len = 5 /\ words[6] = 65535)
        octets == Unpacked(<<words[7], words[8]>>)
        colon(k) == IF k = 0 THEN <<>> ELSE <<":">>
    IN  IF best.base <= i - 1 /\ i - 1 < best.base + best.len
          THEN IF i - 1 = best.base THEN Append(tp, ":") ELSE tp
        ELSE IF encapsulated /\ i = 7
          THEN LET room == 46 - Len(tp) - 1
               IN  tp \o <<":">> \o CString(inet_ntop4(octets, room, fill))
        ELSE IF encapsulated /\ i = 8 THEN tp
        ELSE tp \o colon(i - 1) \o Written(words[i], 16)

\* What inet_ntop6 makes of its text.
Stored6(text, size) == IF Len(text) + 1 > size THEN Invalid ELSE Cells(text, 46, NUL)

LEMMA Ntop6Turns ==
    ASSUME NEW words, NEW fill
    PROVE  \E f : /\ f = [i \in 0 .. 8 |-> f[i]] /\ f[0] = <<>>
                  /\ \A i \in 1 .. 8 : f[i] = Turn6(words, fill, f[i - 1], i)
                  /\ \A size : inet_ntop6(words, size, fill) =
                       Stored6(f[8] \o EndColon(BestRun(words).base, BestRun(words).len), size)
<1> DEFINE Turn(t, i) == Turn6(words, fill, t, i)
           F(f) == [i \in 0 .. 8 |-> IF i = 0 THEN <<>> ELSE Turn(f[i - 1], i)]
           s0 == <<>>
           s1 == Turn(s0, 1)
           s2 == Turn(s1, 2)
           s3 == Turn(s2, 3)
           s4 == Turn(s3, 4)
           s5 == Turn(s4, 5)
           s6 == Turn(s5, 6)
           s7 == Turn(s6, 7)
           s8 == Turn(s7, 8)
           values == <<s1, s2, s3, s4, s5, s6, s7, s8>>
           g == [i \in 0 .. 8 |-> IF i = 0 THEN s0 ELSE values[i]]
           tmp == CHOOSE f : f = F(f)
<1>1. ASSUME NEW size
      PROVE  inet_ntop6(words, size, fill) =
               Stored6(tmp[8] \o EndColon(BestRun(words).base, BestRun(words).len), size)
  BY DEF inet_ntop6, Turn6, Stored6, EndColon
<1> HIDE DEF Turn
<1>2. \A i \in 1 .. 8 : g[i] = Turn(g[i - 1], i)
  <2>1. /\ g[0] = s0 /\ g[1] = s1 /\ g[2] = s2 /\ g[3] = s3 /\ g[4] = s4
        /\ g[5] = s5 /\ g[6] = s6 /\ g[7] = s7 /\ g[8] = s8
    <3> HIDE DEF s0, s1, s2, s3, s4, s5, s6, s7, s8
    <3> QED OBVIOUS
  <2>2. \A i \in 1 .. 8 : i \in {1, 2, 3, 4, 5, 6, 7, 8}
    OBVIOUS
  <2> HIDE DEF g
  <2>3. /\ g[1] = Turn(g[1 - 1], 1)
        /\ g[2] = Turn(g[2 - 1], 2)
        /\ g[3] = Turn(g[3 - 1], 3)
        /\ g[4] = Turn(g[4 - 1], 4)
        /\ g[5] = Turn(g[5 - 1], 5)
        /\ g[6] = Turn(g[6 - 1], 6)
        /\ g[7] = Turn(g[7 - 1], 7)
        /\ g[8] = Turn(g[8 - 1], 8)
    BY <2>1
  <2> QED BY <2>2, <2>3
<1>3. g = F(g)
  <2> HIDE DEF s1, values
  <2>1. g[0] = <<>>
    OBVIOUS
  <2>2. g = [i \in 0 .. 8 |-> g[i]]
    OBVIOUS
  <2> HIDE DEF g
  <2>3. \A i \in 0 .. 8 : g[i] = IF i = 0 THEN <<>> ELSE Turn(g[i - 1], i)
    BY <1>2, <2>1
  <2> QED BY <2>2, <2>3
<1> HIDE DEF F, g
<1>4. tmp = F(tmp)
  BY <1>3
<1> HIDE DEF tmp
<1>5. tmp = [i \in 0 .. 8 |-> IF i = 0 THEN <<>> ELSE Turn(tmp[i - 1], i)]
  BY <1>4 DEF F
<1>6. /\ tmp = [i \in 0 .. 8 |-> tmp[i]] /\ tmp[0] = <<>>
      /\ \A i \in 1 .. 8 : tmp[i] = Turn(tmp[i - 1], i)
  BY <1>5
<1> QED BY <1>1, <1>6 DEF Turn

LEMMA RunOfWords ==
    ASSUME NEW words \in Words16
    PROVE  RunShape(words, BestRun(words).base, BestRun(words).len)
<1> DEFINE best == BestRun(words)
<1>1. best \in Run /\ (best = NoRun \/ (Zeroed(words, best, 8) /\ best.len >= 2))
  BY BestRunBeats
<1> HIDE DEF best
<1>2. CASE best = NoRun
  BY <1>2 DEF NoRun, RunShape, best
<1>3. CASE Zeroed(words, best, 8) /\ best.len >= 2
  <2>1. best.base \in -1 .. 7 /\ best.len \in 0 .. 8
    BY <1>1 DEF Run
  <2>2. best.base >= 0 /\ best.base + best.len <= 8 /\ AllZero(words, best.base, best.len)
    BY <1>3 DEF Zeroed
  <2>3. best.base \in 0 .. 6 /\ best.len \in 2 .. 8
    BY <1>3, <2>1, <2>2
  <2> QED BY <2>2, <2>3 DEF RunShape, best
<1> QED BY <1>1, <1>2, <1>3

LEMMA TurnIsPiece ==
    ASSUME NEW words \in Words16, NEW b, NEW l, b = BestRun(words).base, l = BestRun(words).len,
           NEW i \in 1 .. 8, NEW tp \in Seq(Chars6), NEW fill,
           fill = NUL \/ ~Encapsulated(words, b, l),
           Encapsulated(words, b, l) /\ i = 7 => Len(tp) <= 6
    PROVE  Turn6(words, fill, tp, i) = tp \o Piece(words, b, l, i)
<1> DEFINE w == Written(words[i], 16)
           v == QuadText(Octets(words))
           enc == Encapsulated(words, b, l)
           room == 46 - Len(tp) - 1
           quad == CString(inet_ntop4(Octets(words), room, fill))
           c == <<":">>
           in == InRun(b, l, i)
           z == Piece(words, b, l, i)
           t == Turn6(words, fill, tp, i)
<1>1. w \in Seq(Chars6)
  BY WordOf, WordText
<1>2. v \in Seq(Chars6) /\ v \in Seq(Chars) /\ Len(v) \in Nat /\ Len(v) <= 15
  BY QuadText6
<1>3. c \in Seq(Chars6)
  BY ColonChar
<1>4. t = IF in THEN IF i - 1 = b THEN Append(tp, ":") ELSE tp
          ELSE IF enc /\ i = 7 THEN (tp \o c) \o quad
          ELSE IF enc /\ i = 8 THEN tp
          ELSE (tp \o (IF i - 1 = 0 THEN <<>> ELSE c)) \o w
  <2> DEFINE B == BestRun(words).base
             K == BestRun(words).len
             enc0 == B = 0 /\ (K = 6 \/ (K = 5 /\ words[6] = 65535))
             in0 == B <= i - 1 /\ i - 1 < B + K
  <2>1. enc0 <=> enc
    BY DEF Encapsulated, MaxWord
  <2>2. in0 <=> in
    BY DEF InRun
  <2>3. t = IF in0 THEN IF i - 1 = B THEN Append(tp, ":") ELSE tp
            ELSE IF enc0 /\ i = 7 THEN (tp \o c) \o quad
            ELSE IF enc0 /\ i = 8 THEN tp
            ELSE (tp \o (IF i - 1 = 0 THEN <<>> ELSE c)) \o w
    BY SMT DEF Turn6, Octets
  <2> HIDE DEF enc0, in0, t, quad, w, in, enc, c
  <2>4. b = B
    OBVIOUS
  <2> HIDE DEF B
  <2> QED BY <2>1, <2>2, <2>3, <2>4
<1>5. z = IF in THEN IF i - 1 = b THEN c ELSE <<>>
          ELSE IF enc /\ i = 7 THEN c \o v
          ELSE IF enc /\ i = 8 THEN <<>>
          ELSE IF i = 1 THEN w ELSE c \o w
  BY DEF Piece, Colon
<1>6. tp \o <<>> = tp /\ Append(tp, ":") = tp \o c
  BY ConcatEmptySeq, AppendIsConcat, ColonChar
<1>7. (tp \o c) \o w = tp \o (c \o w) /\ (tp \o c) \o v = tp \o (c \o v)
  <2> HIDE DEF w, v, c
  <2>1. \A x, y, u \in Seq(Chars6) : (x \o y) \o u = x \o (y \o u)
    BY ConcatAssociative
  <2>2. tp \in Seq(Chars6) /\ v \in Seq(Chars6)
    BY <1>2
  <2> QED BY <1>1, <1>3, <2>1, <2>2, Zenon
<1>8. enc /\ i = 7 => quad = v
  <2> SUFFICES ASSUME enc, i = 7 PROVE quad = v
    OBVIOUS
  <2>1. fill = NUL
    OBVIOUS
  <2>2. room \in Nat /\ Len(v) < room
    BY <1>2
  <2>3. inet_ntop4(Octets(words), room, fill) = Cells(v, room, NUL)
    <3> HIDE DEF room
    <3> QED BY <1>2, <2>1, <2>2 DEF inet_ntop4
  <2> HIDE DEF room, v
  <2>4. CString(Cells(v, room, NUL)) = v
    BY <1>2, <2>2, NoNulInChars, CopiedText
  <2> QED BY <2>3, <2>4
<1> HIDE DEF w, v, enc, quad, c, in, z, t
<1>9. ASSUME in PROVE t = tp \o z
  BY <1>4, <1>5, <1>6, <1>9
<1>10. ASSUME ~in /\ enc /\ i = 7 PROVE t = tp \o z
  BY <1>4, <1>5, <1>7, <1>8, <1>10
<1>11. ASSUME ~in /\ enc /\ i = 8 PROVE t = tp \o z
  BY <1>4, <1>5, <1>6, <1>11
<1>12. ASSUME ~in /\ ~(enc /\ i = 7) /\ ~(enc /\ i = 8) PROVE t = tp \o z
  <2>1. i - 1 = 0 <=> i = 1
    OBVIOUS
  <2>2. t = (tp \o (IF i = 1 THEN <<>> ELSE c)) \o w
    BY <1>4, <1>12, <2>1
  <2>3. z = IF i = 1 THEN w ELSE c \o w
    BY <1>5, <1>12
  <2> QED BY <1>6, <1>7, <2>2, <2>3
<1>13. t = tp \o z
  BY <1>9, <1>10, <1>11, <1>12
<1> QED BY <1>13 DEF t, z

\* The text of an address, and how it is stored.
LEMMA TextOfWords ==
    ASSUME NEW words \in Words16, NEW b, NEW l, b = BestRun(words).base, l = BestRun(words).len,
           NEW fill, fill = NUL \/ ~Encapsulated(words, b, l)
    PROVE  \E text \in Pieced(words, b, l) :
             /\ Len(text[8]) <= 40
             /\ \A size : inet_ntop6(words, size, fill) = Stored6(text[8] \o EndColon(b, l), size)
<1>1. PICK f : /\ f = [i \in 0 .. 8 |-> f[i]] /\ f[0] = <<>>
               /\ \A i \in 1 .. 8 : f[i] = Turn6(words, fill, f[i - 1], i)
               /\ \A size : inet_ntop6(words, size, fill) =
                    Stored6(f[8] \o EndColon(BestRun(words).base, BestRun(words).len), size)
  BY Ntop6Turns
<1> DEFINE Added(i) == f[i] = f[i - 1] \o Piece(words, b, l, i)
           Short(i) == f[i] \in Seq(Chars6) /\ Len(f[i]) <= MostUpto(words, b, l, i)
           T == {i \in 0 .. 8 : Short(i) /\ (i >= 1 => Added(i))}
<1>2. RunShape(words, b, l)
  BY RunOfWords
<1>3. 0 \in T
  <2>1. f[0] \in Seq(Chars6) /\ Len(f[0]) = 0
    <3>1. <<>> \in Seq(Chars6) /\ Len(<<>>) = 0
      OBVIOUS
    <3> QED BY <1>1, <3>1, Zenon
  <2>2. MostUpto(words, b, l, 0) = 0
    BY DEF MostUpto
  <2>3. 0 \in 0 .. 8 /\ ~(0 >= 1)
    OBVIOUS
  <2> QED BY <2>1, <2>2, <2>3
<1>4. ASSUME NEW i \in 1 .. 8, i - 1 \in T PROVE i \in T
  <2> DEFINE tp == f[i - 1]
             z == Piece(words, b, l, i)
  <2>1. tp \in Seq(Chars6) /\ Len(tp) <= MostUpto(words, b, l, i - 1)
    BY <1>4
  <2>2. z \in Seq(Chars6) /\ Len(z) \in Nat /\ Len(z) <= Most(words, b, l, i)
    BY <1>2, PieceShape
  <2>3. Encapsulated(words, b, l) /\ i = 7 => Len(tp) <= 6
    BY <2>1 DEF MostUpto
  <2>4. f[i] = Turn6(words, fill, tp, i)
    BY <1>1
  <2> HIDE DEF tp
  <2>5. f[i] = tp \o z
    BY <2>1, <2>3, <2>4, TurnIsPiece
  <2> HIDE DEF z
  <2>6. f[i] \in Seq(Chars6) /\ Len(f[i]) = Len(tp) + Len(z)
    BY <2>1, <2>2, <2>5, ConcatProperties
  <2>7. Len(tp) \in Nat
    BY <2>1
  <2>8. Len(tp) + Len(z) <= MostUpto(words, b, l, i)
    BY <2>1, <2>2, <2>7, PieceAdds
  <2>9. Added(i)
    BY <2>5 DEF tp, z
  <2>10. Short(i)
    <3> DEFINE x == f[i]
    <3> HIDE DEF x
    <3> QED BY <2>6, <2>8 DEF x
  <2>11. i \in 0 .. 8
    OBVIOUS
  <2> QED BY <2>9, <2>10, <2>11
<1> HIDE DEF T
<1>5. \A i \in 0 .. 8 : i \in T
  BY <1>3, <1>4, Counting
<1>6. f \in Pieced(words, b, l)
  <2>1. \A i \in 0 .. 8 : f[i] \in Seq(Chars6)
    BY <1>5 DEF T
  <2>2. f \in [0 .. 8 -> Seq(Chars6)]
    <3>1. [i \in 0 .. 8 |-> f[i]] \in [0 .. 8 -> Seq(Chars6)]
      BY <2>1
    <3>2. f = [i \in 0 .. 8 |-> f[i]]
      BY <1>1
    <3> QED BY <3>1, <3>2, Zenon
  <2>3. \A i \in 1 .. 8 : f[i] = f[i - 1] \o Piece(words, b, l, i)
    <3> HIDE DEF Added, Short
    <3>1. \A i \in 1 .. 8 : Added(i)
      BY <1>5 DEF T
    <3> QED BY <3>1, Zenon DEF Added
  <2> QED BY <1>1, <2>2, <2>3 DEF Pieced
<1>7. Len(f[8]) <= 40
  <2>1. 8 \in T
    BY <1>5
  <2>2. f[8] \in Seq(Chars6) /\ Len(f[8]) <= MostUpto(words, b, l, 8)
    BY <2>1 DEF T
  <2>3. MostUpto(words, b, l, 8) = 40 \/ MostUpto(words, b, l, 8) = 22
    BY DEF MostUpto
  <2> QED BY <2>2, <2>3
<1> QED BY <1>1, <1>6, <1>7

\* Every way to put the pieces together gives the same text.
LEMMA SameText ==
    ASSUME NEW words, NEW b, NEW l, NEW f \in Pieced(words, b, l), NEW g \in Pieced(words, b, l)
    PROVE  f[8] = g[8]
<1> DEFINE T == {i \in 0 .. 8 : f[i] = g[i]}
<1>1. 0 \in T
  BY DEF Pieced
<1>2. ASSUME NEW i \in 1 .. 8, i - 1 \in T PROVE i \in T
  <2>1. /\ f[i] = f[i - 1] \o Piece(words, b, l, i)
        /\ g[i] = g[i - 1] \o Piece(words, b, l, i)
    BY DEF Pieced
  <2>2. f[i - 1] = g[i - 1]
    BY <1>2
  <2>3. f[i] = g[i]
    BY <2>1, <2>2, Zenon
  <2> QED BY <2>3
<1> HIDE DEF T
<1>3. \A i \in 0 .. 8 : i \in T
  BY <1>1, <1>2, Counting
<1> QED BY <1>3 DEF T

-----------------------------------------------------------------------------
(* The text is read piece by piece *)

\* Where the pieces lie in src.
Laid(src, words, b, l, p) ==
    /\ p[0] = 0
    /\ \A i \in 0 .. 8 : p[i] \in Nat
    /\ \A i \in 1 .. 8 : LET z == Piece(words, b, l, i)
                         IN  Holds(src, p[i - 1], z) /\ p[i] = p[i - 1] + Len(z)
    /\ Holds(src, p[8], EndColon(b, l))
    /\ Len(src) = p[8] + Len(EndColon(b, l))

LEMMA EndColonShape ==
    ASSUME NEW b, NEW l
    PROVE  EndColon(b, l) \in Seq(Chars6) /\ Len(EndColon(b, l)) = IF b + l = 8 THEN 1 ELSE 0
<1>1. <<>> \in Seq(Chars6) /\ Len(<<>>) = 0
  OBVIOUS
<1>2. CASE b + l = 8
  BY <1>2, ColonChar DEF EndColon
<1>3. CASE b + l # 8
  <2>1. EndColon(b, l) = <<>>
    BY <1>3 DEF EndColon
  <2> QED BY <1>1, <1>3, <2>1
<1> QED BY <1>2, <1>3

LEMMA HoldsParts6 ==
    \A src, x, y \in Seq(Chars6) : \A t :
      t = x \o y /\ Holds(src, 0, t)
      => Len(t) = Len(x) + Len(y) /\ Holds(src, 0, x) /\ Holds(src, Len(x), y)
BY HoldsParts

LEMMA PiecesHold ==
    ASSUME NEW words, NEW b, NEW l, RunShape(words, b, l), NEW text \in Pieced(words, b, l),
           NEW src, src = text[8] \o EndColon(b, l)
    PROVE  /\ src \in Seq(Chars6)
           /\ Laid(src, words, b, l, [i \in 0 .. 8 |-> Len(text[i])])
<1> DEFINE S == Seq(Chars6)
           e == EndColon(b, l)
           z(i) == Piece(words, b, l, i)
           p == [i \in 0 .. 8 |-> Len(text[i])]
<1>1. /\ \A i \in 0 .. 8 : text[i] \in S
      /\ text[0] = <<>>
      /\ \A i \in 1 .. 8 : text[i] = text[i - 1] \o z(i)
  BY DEF Pieced
<1>2. e \in S
  BY EndColonShape
<1>3. \A i \in 1 .. 8 : z(i) \in S
  BY PieceShape
<1> HIDE DEF e, z
<1>4. text[8] \in S
  BY <1>1
<1>5. src \in S /\ Len(src) = Len(text[8]) + Len(e) /\ Holds(src, 0, src)
  <2>1. src = text[8] \o e
    BY DEF e
  <2>2. src \in S
    BY <1>2, <1>4, <2>1, ConcatProperties
  <2>3. Holds(src, 0, src)
    BY <2>2 DEF Holds
  <2>4. Len(src) = Len(text[8]) + Len(e)
    BY <1>2, <1>4, <2>1, ConcatProperties
  <2> QED BY <2>2, <2>3, <2>4
<1>6. Holds(src, 0, text[8]) /\ Holds(src, Len(text[8]), e)
  <2>1. src = text[8] \o e
    BY DEF e
  <2> DEFINE x == text[8]
  <2>2. x \in S /\ src = x \o e
    BY <1>4, <2>1
  <2> HIDE DEF x
  <2>3. Holds(src, 0, x) /\ Holds(src, Len(x), e)
    BY <1>2, <1>5, <2>2, HoldsParts
  <2> QED BY <2>3 DEF x
<1>7. src \in S
  BY <1>5
<1>8. ASSUME NEW x \in S, NEW y \in S, NEW t, t = x \o y, Holds(src, 0, t)
       PROVE  Len(t) = Len(x) + Len(y) /\ Holds(src, 0, x) /\ Holds(src, Len(x), y)
  <2>1. \A u, v \in S : \A r :
          r = u \o v /\ Holds(src, 0, r)
          => Len(r) = Len(u) + Len(v) /\ Holds(src, 0, u) /\ Holds(src, Len(u), v)
    BY <1>7, HoldsParts6, Zenon
  <2> QED BY <1>8, <2>1, Zenon
<1>9. ASSUME NEW i \in 1 .. 8, Holds(src, 0, text[i])
      PROVE  /\ Holds(src, 0, text[i - 1]) /\ Holds(src, Len(text[i - 1]), z(i))
             /\ Len(text[i]) = Len(text[i - 1]) + Len(z(i))
  <2> DEFINE x == text[i - 1]
             y == z(i)
             t == text[i]
  <2>1. x \in S /\ y \in S /\ t = x \o y
    <3>1. i - 1 \in 0 .. 8
      OBVIOUS
    <3> QED BY <1>1, <1>3, <3>1
  <2> HIDE DEF x, y, t
  <2>2. Holds(src, 0, t)
    BY <1>9 DEF t
  <2>3. Len(t) = Len(x) + Len(y) /\ Holds(src, 0, x) /\ Holds(src, Len(x), y)
    BY <1>8, <2>1, <2>2, Zenon
  <2> QED BY <2>3, Zenon DEF x, y, t
<1> DEFINE T == {i \in 0 .. 8 : Holds(src, 0, text[8 - i])}
<1>10. 0 \in T
  <2>1. 8 - 0 = 8 /\ 0 \in 0 .. 8
    OBVIOUS
  <2> QED BY <1>6, <2>1
<1>11. ASSUME NEW i \in 1 .. 8, i - 1 \in T PROVE i \in T
  <2> DEFINE k == 8 - (i - 1)
  <2>1. k \in 1 .. 8 /\ k - 1 = 8 - i /\ i \in 0 .. 8
    OBVIOUS
  <2>2. Holds(src, 0, text[k])
    BY <1>11
  <2> HIDE DEF k
  <2>3. Holds(src, 0, text[k - 1])
    BY <1>9, <2>1, <2>2
  <2> QED BY <2>1, <2>3
<1> HIDE DEF T
<1>12. \A i \in 0 .. 8 : i \in T
  BY <1>10, <1>11, Counting
<1>13. ASSUME NEW i \in 1 .. 8 PROVE Holds(src, 0, text[i])
  <2>1. 8 - i \in 0 .. 8 /\ 8 - (8 - i) = i
    OBVIOUS
  <2> QED BY <1>12, <2>1 DEF T
<1>14. \A i \in 0 .. 8 : p[i] = Len(text[i]) /\ p[i] \in Nat
  BY <1>1
<1> HIDE DEF p
<1>15. p[0] = 0
  <2>1. Len(<<>>) = 0
    OBVIOUS
  <2>2. p[0] = Len(text[0])
    BY <1>14
  <2> QED BY <1>1, <2>1, <2>2, Zenon
<1>16. ASSUME NEW i \in 1 .. 8 PROVE Holds(src, p[i - 1], z(i)) /\ p[i] = p[i - 1] + Len(z(i))
  <2>1. p[i - 1] = Len(text[i - 1]) /\ p[i] = Len(text[i])
    <3>1. i \in 0 .. 8 /\ i - 1 \in 0 .. 8
      OBVIOUS
    <3> QED BY <1>14, <3>1, Zenon
  <2>2. Holds(src, Len(text[i - 1]), z(i)) /\ Len(text[i]) = Len(text[i - 1]) + Len(z(i))
    BY <1>9, <1>13
  <2> QED BY <2>1, <2>2, Zenon
<1>17. p[8] = Len(text[8])
  BY <1>14
<1>18. Holds(src, p[8], e) /\ Len(src) = p[8] + Len(e)
  BY <1>5, <1>6, <1>17, Zenon
<1>19. Laid(src, words, b, l, p)
  BY <1>14, <1>15, <1>16, <1>18, Zenon DEF Laid, e, z
<1> QED BY <1>5, <1>19 DEF p

LEMMA PieceKinds ==
    ASSUME NEW words, NEW b, NEW l, RunShape(words, b, l), NEW i \in 1 .. 8
    PROVE  LET z == Piece(words, b, l, i)
               enc == Encapsulated(words, b, l)
           IN  /\ InRun(b, l, i) /\ i - 1 = b => z = <<":">>
               /\ InRun(b, l, i) /\ i - 1 # b => z = <<>>
               /\ ~InRun(b, l, i) /\ i = 1 => z = Written(words[1], 16)
               /\ ~InRun(b, l, i) /\ i # 1 /\ ~(enc /\ i >= 7)
                  => z = <<":">> \o Written(words[i], 16)
               /\ enc /\ i = 7 => z = <<":">> \o QuadText(Octets(words))
               /\ enc /\ i = 8 => z = <<>>
<1> DEFINE z == Piece(words, b, l, i)
           w == Written(words[i], 16)
           v == QuadText(Octets(words))
           enc == Encapsulated(words, b, l)
           in == InRun(b, l, i)
<1>1. z = IF in THEN IF i - 1 = b THEN <<":">> ELSE <<>>
          ELSE IF enc /\ i = 7 THEN Colon(v)
          ELSE IF enc /\ i = 8 THEN <<>>
          ELSE IF i = 1 THEN w ELSE Colon(w)
  BY DEF Piece
<1>2. enc => (in <=> i <= l) /\ l <= 6
  BY DEF Encapsulated, InRun
<1> HIDE DEF z, enc, in, v
<1>3. i = 1 => w = Written(words[1], 16)
  OBVIOUS
<1> HIDE DEF w
<1>4. i \in 1 .. 8 /\ (enc => (in <=> i <= l) /\ l <= 6) /\ l \in Int
  BY <1>2 DEF RunShape
<1>5. /\ i = 7 => i # 8 /\ i # 1
      /\ i = 8 => i # 7 /\ i # 1
      /\ i = 1 => i # 7 /\ i # 8
      /\ ~(enc /\ i >= 7) => ~(enc /\ i = 7) /\ ~(enc /\ i = 8)
      /\ enc /\ i = 7 => ~in
      /\ enc /\ i = 8 => ~in
  BY <1>4
<1>6. (in /\ i - 1 = b => z = <<":">>) /\ (in /\ i - 1 # b => z = <<>>)
  BY <1>1, Zenon
<1>7. ~in /\ i = 1 => z = Written(words[1], 16)
  BY <1>1, <1>3, <1>5, Zenon
<1>8. ~in /\ i # 1 /\ ~(enc /\ i >= 7) => z = Colon(w)
  BY <1>1, <1>5, Zenon
<1>9. enc /\ i = 7 => z = Colon(v)
  BY <1>1, <1>5, Zenon
<1>10. enc /\ i = 8 => z = <<>>
  BY <1>1, <1>5, Zenon
<1> QED BY <1>6, <1>7, <1>8, <1>9, <1>10, Zenon DEF z, w, v, enc, in, Colon

LEMMA Rising ==
    ASSUME NEW p, \A i \in 0 .. 8 : p[i] \in Nat, \A i \in 1 .. 8 : p[i - 1] <= p[i]
    PROVE  \A i \in 0 .. 8 : p[i] <= p[8] /\ (i >= 1 => p[1] <= p[i])
<1> DEFINE T == {i \in 0 .. 8 : p[8 - i] <= p[8]}
           U == {i \in 0 .. 8 : i >= 1 => p[1] <= p[i]}
<1>1. 0 \in T /\ 0 \in U
  <2>1. 8 - 0 = 8 /\ 0 \in 0 .. 8 /\ 8 \in 0 .. 8
    OBVIOUS
  <2>2. p[8] <= p[8]
    BY <2>1
  <2> QED BY <2>1, <2>2
<1>2. ASSUME NEW i \in 1 .. 8, i - 1 \in T PROVE i \in T
  <2>1. 8 - (i - 1) \in 1 .. 8 /\ 8 - (i - 1) - 1 = 8 - i /\ i \in 0 .. 8
    OBVIOUS
  <2> DEFINE j == 8 - (i - 1)
             k == 8 - i
  <2>2. p[j] <= p[8] /\ j \in 1 .. 8 /\ j - 1 = k /\ j \in 0 .. 8 /\ k \in 0 .. 8 /\ 8 \in 0 .. 8
    BY <1>2, <2>1
  <2> HIDE DEF j, k
  <2>3. p[k] <= p[j] /\ p[k] \in Nat /\ p[j] \in Nat /\ p[8] \in Nat
    BY <2>2
  <2>4. p[k] <= p[8]
    BY <2>2, <2>3
  <2> QED BY <2>1, <2>4 DEF k
<1>3. ASSUME NEW i \in 1 .. 8, i - 1 \in U PROVE i \in U
  <2>1. i \in 0 .. 8 /\ i - 1 \in 0 .. 8 /\ 1 \in 0 .. 8
    OBVIOUS
  <2>2. p[i - 1] <= p[i] /\ p[i - 1] \in Nat /\ p[i] \in Nat /\ p[1] \in Nat
    BY <2>1
  <2>3. CASE i = 1
    BY <2>1, <2>2, <2>3
  <2>4. CASE i # 1
    <3>1. i - 1 >= 1
      BY <2>4
    <3>2. p[1] <= p[i - 1]
      BY <1>3, <3>1
    <3> QED BY <2>1, <2>2, <3>2
  <2> QED BY <2>3, <2>4
<1> HIDE DEF T, U
<1>4. \A i \in 0 .. 8 : i \in T
  BY <1>1, <1>2, Counting
<1>5. \A i \in 0 .. 8 : i \in U
  BY <1>1, <1>3, Counting
<1>6. ASSUME NEW i \in 0 .. 8 PROVE p[i] <= p[8]
  <2>1. 8 - i \in 0 .. 8 /\ 8 - (8 - i) = i
    OBVIOUS
  <2> QED BY <1>4, <2>1 DEF T
<1> QED BY <1>5, <1>6 DEF U

LEMMA LaidPlaces ==
    ASSUME NEW words, NEW b, NEW l, RunShape(words, b, l), NEW src \in Seq(Chars6),
           NEW p, Laid(src, words, b, l, p)
    PROVE  /\ Len(src) \in Nat
           /\ \A i \in 0 .. 8 : p[i] \in Nat /\ p[i] <= Len(src)
           /\ \A i \in 1 .. 8 : p[i - 1] <= p[i] /\ p[i] >= 1
<1>1. Len(src) \in Nat
  OBVIOUS
<1>2. \A i \in 0 .. 8 : p[i] \in Nat
  BY DEF Laid
<1>3. ASSUME NEW i \in 1 .. 8
      PROVE  p[i - 1] <= p[i]
  <2> DEFINE k == Len(Piece(words, b, l, i))
  <2>1. k \in Nat
    BY PieceShape
  <2>2. p[i] = p[i - 1] + k
    BY DEF Laid
  <2> HIDE DEF k
  <2>3. i - 1 \in 0 .. 8
    OBVIOUS
  <2>4. p[i - 1] \in Nat
    BY <1>2, <2>3
  <2> QED BY <2>1, <2>2, <2>4
<1>4. p[1] >= 1
  <2> DEFINE z == Piece(words, b, l, 1)
  <2>1. 1 \in 1 .. 8 /\ 1 - 1 = 0
    OBVIOUS
  <2>2. p[1] = 0 + Len(z)
    BY <2>1 DEF Laid
  <2>3. Len(z) >= 1
    <3>1. CASE InRun(b, l, 1)
      <4> DEFINE i == 1
      <4>1. i \in 1 .. 8 /\ i - 1 = b /\ InRun(b, l, i)
        BY <3>1 DEF InRun, RunShape
      <4> HIDE DEF i
      <4>2. Piece(words, b, l, i) = <<":">>
        BY <4>1, PieceKinds, Zenon
      <4>3. z = <<":">>
        BY <4>2 DEF i
      <4>4. Len(z) = 1
        BY <4>3, ColonChar, Zenon
      <4> QED BY <4>4
    <3>2. CASE ~InRun(b, l, 1)
      <4> DEFINE w == Written(words[1], 16)
      <4>1. z = w
        BY <2>1, <3>2, PieceKinds
      <4>2. words[1] \in Nat /\ words[1] <= MaxWord
        BY <2>1, WordOf DEF RunShape
      <4>3. Len(w) >= 1
        BY <4>2, WordText
      <4> QED BY <4>1, <4>3
    <3> QED BY <3>1, <3>2
  <2>4. Len(z) \in Nat
    BY <2>1, PieceShape
  <2> QED BY <2>2, <2>3, <2>4
<1>5. p[8] <= Len(src)
  <2>1. Len(EndColon(b, l)) \in Nat
    BY EndColonShape
  <2>2. Len(src) = p[8] + Len(EndColon(b, l)) /\ p[8] \in Nat
    BY DEF Laid
  <2> QED BY <2>1, <2>2
<1>6. \A i \in 0 .. 8 : p[i] <= p[8] /\ (i >= 1 => p[1] <= p[i])
  BY <1>2, <1>3, Rising
<1>7. \A i \in 0 .. 8 : p[i] <= Len(src)
  <2> SUFFICES ASSUME NEW i \in 0 .. 8 PROVE p[i] <= Len(src)
    OBVIOUS
  <2>1. p[i] <= p[8] /\ p[i] \in Nat
    BY <1>2, <1>6
  <2>2. p[8] \in Nat
    BY <1>2
  <2> QED BY <1>1, <1>5, <2>1, <2>2
<1>8. \A i \in 1 .. 8 : p[i] >= 1
  <2> SUFFICES ASSUME NEW i \in 1 .. 8 PROVE p[i] >= 1
    OBVIOUS
  <2>1. i \in 0 .. 8 /\ i >= 1 /\ 1 \in 0 .. 8
    OBVIOUS
  <2>2. p[1] <= p[i] /\ p[i] \in Nat
    BY <1>2, <1>6, <2>1
  <2>3. p[1] \in Nat
    BY <1>2, <2>1
  <2> QED BY <1>4, <2>2, <2>3
<1> QED BY <1>1, <1>2, <1>3, <1>7, <1>8

\* A run of zeros takes one colon, and another colon follows it.
LEMMA AfterRun ==
    ASSUME NEW words, NEW b, NEW l, RunShape(words, b, l), b # -1, NEW src \in Seq(Chars6),
           NEW p, Laid(src, words, b, l, p)
    PROVE  /\ p[b + l] = p[b + 1] /\ p[b + 1] = p[b] + 1
           /\ p[b + l] < Len(src) /\ src[p[b + l] + 1] = ":"
<1>1. b \in 0 .. 6 /\ l \in 2 .. 8 /\ b + l <= 8
  BY DEF RunShape
<1>2. \A i \in 1 .. 8 : LET z == Piece(words, b, l, i)
                        IN  Holds(src, p[i - 1], z) /\ p[i] = p[i - 1] + Len(z)
  BY DEF Laid
<1>3. /\ Len(src) \in Nat
      /\ \A i \in 0 .. 8 : p[i] \in Nat /\ p[i] <= Len(src)
      /\ \A i \in 1 .. 8 : p[i - 1] <= p[i] /\ p[i] >= 1
  BY LaidPlaces
<1>4. p[b + 1] = p[b] + 1
  <2> DEFINE i == b + 1
  <2>1. i \in 1 .. 8 /\ i - 1 = b /\ InRun(b, l, i)
    BY <1>1 DEF InRun
  <2> HIDE DEF i
  <2>2. Piece(words, b, l, i) = <<":">>
    BY <2>1, PieceKinds, Zenon
  <2>3. p[i] = p[i - 1] + Len(Piece(words, b, l, i))
    BY <1>2, <2>1
  <2>4. p[i] = p[i - 1] + 1
    BY <2>2, <2>3, ColonChar, Zenon
  <2>5. p[i] = p[b] + 1
    BY <2>1, <2>4, Zenon
  <2> QED BY <2>5 DEF i
<1> DEFINE T == {k \in 0 .. l - 1 : p[b + 1 + k] = p[b + 1]}
<1>5. 0 \in T
  <2>1. b + 1 + 0 = b + 1 /\ 0 \in 0 .. l - 1
    BY <1>1
  <2> QED BY <2>1
<1>6. ASSUME NEW k \in 1 .. l - 1, k - 1 \in T PROVE k \in T
  <2> DEFINE i == b + 1 + k
  <2>1. i \in 1 .. 8 /\ i - 1 = b + 1 + (k - 1) /\ InRun(b, l, i) /\ i - 1 # b /\ k \in 0 .. l - 1
    BY <1>1 DEF InRun
  <2>2. p[b + 1 + (k - 1)] = p[b + 1]
    BY <1>6
  <2> HIDE DEF i
  <2>3. Piece(words, b, l, i) = <<>>
    BY <2>1, PieceKinds, Zenon
  <2>4. p[i] = p[i - 1] + Len(Piece(words, b, l, i))
    BY <1>2, <2>1
  <2>5. i - 1 \in 0 .. 8
    BY <2>1
  <2>6. p[i - 1] \in Nat
    BY <1>3, <2>5
  <2>7. p[i] = p[i - 1]
    BY <2>3, <2>4, <2>6
  <2>8. p[i] = p[b + 1]
    BY <2>1, <2>2, <2>7, Zenon
  <2> QED BY <2>1, <2>8 DEF i
<1>7. p[b + l] = p[b + 1]
  <2>1. l - 1 \in Nat /\ l - 1 \in 0 .. l - 1 /\ b + 1 + (l - 1) = b + l
    BY <1>1
  <2> HIDE DEF T
  <2>2. \A k \in 0 .. l - 1 : k \in T
    BY <1>5, <1>6, <2>1, Counting
  <2>3. p[b + 1 + (l - 1)] = p[b + 1]
    BY <2>1, <2>2 DEF T
  <2> QED BY <2>1, <2>3
<1>8. p[b + l] < Len(src) /\ src[p[b + l] + 1] = ":"
  <2>1. CASE b + l = 8
    <3>1. EndColon(b, l) = <<":">>
      BY <2>1 DEF EndColon
    <3>2. Holds(src, p[8], <<":">>) /\ Len(src) = p[8] + Len(<<":">>)
      BY <3>1 DEF Laid
    <3> DEFINE n == p[8]
               c == <<":">>
    <3>3. Holds(src, n, c) /\ Len(src) = n + 1 /\ Len(c) = 1 /\ c[1] = ":"
      BY <3>2, ColonChar
    <3> HIDE DEF n, c
    <3>4. src[n + 1] = ":"
      BY <3>3 DEF Holds
    <3>5. n = p[b + l] /\ n \in Nat
      BY <1>3, <2>1 DEF n
    <3> QED BY <3>3, <3>4, <3>5
  <2>2. CASE b + l # 8
    <3> DEFINE i == b + l + 1
               z == Piece(words, b, l, i)
               n == p[i - 1]
    <3>1. i \in 1 .. 8 /\ i - 1 = b + l /\ ~InRun(b, l, i) /\ i # 1
      BY <1>1, <2>2 DEF InRun
    <3>2. Encapsulated(words, b, l) => i <= 7
      BY <1>1 DEF Encapsulated
    <3> HIDE DEF i
    <3>3. \E w \in Seq(Chars6) : z = <<":">> \o w
      <4>1. CASE Encapsulated(words, b, l) /\ i = 7
        <5>1. QuadText(Octets(words)) \in Seq(Chars6)
          BY QuadText6 DEF RunShape
        <5>2. z = <<":">> \o QuadText(Octets(words))
          BY <3>1, <4>1, PieceKinds, Zenon
        <5> QED BY <5>1, <5>2, Zenon
      <4>2. CASE ~(Encapsulated(words, b, l) /\ i = 7)
        <5>1. ~(Encapsulated(words, b, l) /\ i >= 7)
          BY <3>1, <3>2, <4>2
        <5>2. words[i] \in Nat /\ words[i] <= MaxWord
          BY <3>1, WordOf DEF RunShape
        <5>3. Written(words[i], 16) \in Seq(Chars6)
          BY <5>2, WordText
        <5>4. z = <<":">> \o Written(words[i], 16)
          BY <3>1, <5>1, PieceKinds, Zenon
        <5> QED BY <5>3, <5>4, Zenon
      <4> QED BY <4>1, <4>2
    <3>4. Holds(src, n, z) /\ n \in Nat
      <4>1. i - 1 \in 0 .. 8
        BY <3>1
      <4> QED BY <1>2, <1>3, <3>1, <4>1, Zenon
    <3> HIDE DEF z, n
    <3>5. n + 1 <= Len(src) /\ src[n + 1] = ":"
      BY <3>3, <3>4, ColonFirst
    <3>6. n = p[b + l]
      BY <3>1 DEF n
    <3> QED BY <1>3, <3>4, <3>5, <3>6
  <2> QED BY <2>1, <2>2
<1> QED BY <1>4, <1>7, <1>8

\* The words inet_pton6 has after the first k of the address, those the zeros
\* of the run stand for left out, and where "::" is by then.
KeptLen(b, l, k) == IF k <= b THEN k ELSE IF k <= b + l THEN b ELSE k - l

KeptWord(words, b, l, j) == IF j <= b THEN words[j] ELSE words[j + l]

Kept(words, b, l, k) == [j \in 1 .. KeptLen(b, l, k) |-> KeptWord(words, b, l, j)]

GapBy(b, l, k) == IF k <= b + l THEN -1 ELSE b

LEMMA KeptLens ==
    ASSUME NEW words, NEW b, NEW l, RunShape(words, b, l)
    PROVE  /\ \A k \in 0 .. 8 : KeptLen(b, l, k) \in Nat /\ KeptLen(b, l, k) <= k
           /\ \A k \in 1 .. 8 :
                KeptLen(b, l, k) = KeptLen(b, l, k - 1) + (IF InRun(b, l, k) THEN 0 ELSE 1)
           /\ KeptLen(b, l, 0) = 0
           /\ \A k \in 1 .. 8 : InRun(b, l, k) => KeptLen(b, l, k) = b
           /\ KeptLen(b, l, 8) = 8 - l
<1>1. \/ b = -1 /\ l = 0
      \/ b \in 0 .. 6 /\ l \in 2 .. 8 /\ b + l <= 8
  BY DEF RunShape
<1>2. CASE b = -1 /\ l = 0
  BY <1>2 DEF KeptLen, InRun
<1>3. CASE b \in 0 .. 6 /\ l \in 2 .. 8 /\ b + l <= 8
  BY <1>3 DEF KeptLen, InRun
<1> QED BY <1>1, <1>2, <1>3

LEMMA KeptShape ==
    ASSUME NEW words, NEW b, NEW l, RunShape(words, b, l), NEW k \in 0 .. 8
    PROVE  LET q == Kept(words, b, l, k)
           IN  /\ q \in Seq(Nat) /\ Len(q) = KeptLen(b, l, k) /\ DOMAIN q = 1 .. KeptLen(b, l, k)
               /\ \A j \in 1 .. KeptLen(b, l, k) : q[j] = KeptWord(words, b, l, j)
<1> DEFINE n == KeptLen(b, l, k)
           q == Kept(words, b, l, k)
<1>1. n \in Nat
  BY KeptLens
<1>2. ASSUME NEW j \in 1 .. n PROVE KeptWord(words, b, l, j) \in Nat
  <2>1. \/ b = -1 /\ l = 0
        \/ b \in 0 .. 6 /\ l \in 2 .. 8 /\ b + l <= 8
    BY DEF RunShape
  <2>2. (j <= b => j \in 1 .. 8) /\ (~(j <= b) => j + l \in 1 .. 8)
    <3>1. CASE b = -1 /\ l = 0
      BY <3>1 DEF KeptLen
    <3>2. CASE b \in 0 .. 6 /\ l \in 2 .. 8 /\ b + l <= 8
      BY <3>2 DEF KeptLen
    <3> QED BY <2>1, <3>1, <3>2
  <2>3. \A i \in 1 .. 8 : words[i] \in Nat
    BY WordOf DEF RunShape
  <2> QED BY <2>2, <2>3 DEF KeptWord
<1> HIDE DEF n
<1>3. q = [j \in 1 .. n |-> KeptWord(words, b, l, j)]
  BY DEF Kept, n
<1> HIDE DEF q
<1>4. q \in [1 .. n -> Nat]
  BY <1>2, <1>3
<1>5. q \in Seq(Nat) /\ Len(q) = n /\ DOMAIN q = 1 .. n
  BY <1>1, <1>4
<1>6. \A j \in 1 .. n : q[j] = KeptWord(words, b, l, j)
  BY <1>3
<1> QED BY <1>5, <1>6 DEF q, n

LEMMA KeptStays ==
    ASSUME NEW words, NEW b, NEW l, RunShape(words, b, l), NEW k \in 1 .. 8, InRun(b, l, k)
    PROVE  Kept(words, b, l, k) = Kept(words, b, l, k - 1)
<1>1. KeptLen(b, l, k) = KeptLen(b, l, k - 1)
  <2>1. KeptLen(b, l, k) = KeptLen(b, l, k - 1) + 0
    BY KeptLens
  <2>2. k - 1 \in 0 .. 8
    OBVIOUS
  <2>3. KeptLen(b, l, k - 1) \in Nat
    BY <2>2, KeptLens
  <2> QED BY <2>1, <2>3
<1> QED BY <1>1, Zenon DEF Kept

LEMMA KeptGrows ==
    ASSUME NEW words, NEW b, NEW l, RunShape(words, b, l), NEW k \in 1 .. 8, ~InRun(b, l, k)
    PROVE  Append(Kept(words, b, l, k - 1), words[k]) = Kept(words, b, l, k)
<1> DEFINE m == KeptLen(b, l, k - 1)
           n == KeptLen(b, l, k)
           q == Kept(words, b, l, k - 1)
           r == Kept(words, b, l, k)
           t == Append(q, words[k])
<1>1. k - 1 \in 0 .. 8 /\ k \in 0 .. 8
  OBVIOUS
<1>2. /\ q \in Seq(Nat) /\ Len(q) = m
      /\ \A j \in 1 .. m : q[j] = KeptWord(words, b, l, j)
  BY <1>1, KeptShape
<1>3. /\ r \in Seq(Nat) /\ Len(r) = n
      /\ \A j \in 1 .. n : r[j] = KeptWord(words, b, l, j)
  BY <1>1, KeptShape
<1>4. m \in Nat /\ n \in Nat
  BY <1>1, KeptLens
<1>5. n = m + 1
  BY KeptLens
<1>6. words[k] \in Nat
  BY WordOf DEF RunShape
<1>7. KeptWord(words, b, l, n) = words[k]
  <2>1. \/ b = -1 /\ l = 0
        \/ b \in 0 .. 6 /\ l \in 2 .. 8 /\ b + l <= 8
    BY DEF RunShape
  <2>2. (n <= b => n = k) /\ (~(n <= b) => n + l = k)
    <3>1. CASE b = -1 /\ l = 0
      BY <3>1 DEF KeptLen
    <3>2. CASE b \in 0 .. 6 /\ l \in 2 .. 8 /\ b + l <= 8
      BY <3>2 DEF KeptLen, InRun
    <3> QED BY <2>1, <3>1, <3>2
  <2> HIDE DEF n
  <2> QED BY <2>2 DEF KeptWord
<1> HIDE DEF m, n, q, r
<1> DEFINE v == words[k]
<1> HIDE DEF v
<1>8. v \in Nat
  BY <1>6 DEF v
<1> DEFINE u == Append(q, v)
<1>9. /\ u \in Seq(Nat) /\ Len(u) = m + 1 /\ u[m + 1] = v
      /\ \A j \in 1 .. m : u[j] = q[j]
  BY <1>2, <1>8, AppendProperties
<1> HIDE DEF u
<1>10. ASSUME NEW j \in 1 .. n PROVE u[j] = r[j]
  <2>1. r[j] = KeptWord(words, b, l, j)
    BY <1>3
  <2>2. CASE j = n
    <3>1. u[j] = v /\ r[j] = KeptWord(words, b, l, n)
      BY <1>5, <1>9, <2>1, <2>2
    <3> QED BY <1>7, <3>1, Zenon DEF v
  <2>3. CASE j # n
    <3>1. j \in 1 .. m
      BY <1>4, <1>5, <2>3
    <3>2. u[j] = q[j] /\ q[j] = KeptWord(words, b, l, j)
      BY <1>2, <1>9, <3>1, Zenon
    <3> QED BY <2>1, <3>2, Zenon
  <2> QED BY <2>2, <2>3
<1>11. Len(u) = n
  BY <1>5, <1>9
<1>12. u = r
  BY <1>3, <1>9, <1>10, <1>11, SeqEqual
<1> QED BY <1>12, Zenon DEF u, v, q, r

\* What inet_pton6 has read at the end of the k-th piece.
ReadUpto(src, words, b, l, p, k) ==
    IF InRun(b, l, k) THEN Between6(src, p[k], Kept(words, b, l, k), -1)
    ELSE Behind6(src, p[k], Kept(words, b, l, k - 1), GapBy(b, l, k), words[k])

LEMMA FirstChar ==
    ASSUME NEW src \in Seq(Chars6), NEW w \in Seq(Chars6), Len(w) >= 1, Holds(src, 0, w)
    PROVE  Len(src) > 0 /\ src[1] = w[1]
<1>1. Len(src) \in Nat /\ Len(w) \in Nat /\ 1 \in 1 .. Len(w)
  OBVIOUS
<1>2. src[0 + 1] = w[1] /\ 0 + Len(w) <= Len(src)
  BY <1>1 DEF Holds
<1> QED BY <1>1, <1>2

LEMMA ReadFirst ==
    ASSUME NEW words, NEW b, NEW l, RunShape(words, b, l), NEW src \in Seq(Chars6),
           NEW p, Laid(src, words, b, l, p)
    PROVE  /\ ReadUpto(src, words, b, l, p, 1)
           /\ Len(src) > 0 /\ (src[1] = ":" <=> b = 0)
<1> DEFINE i == 1
           o == i - 1
           z == Piece(words, b, l, i)
           q0 == Kept(words, b, l, o)
           q1 == Kept(words, b, l, i)
<1>1. i \in 1 .. 8 /\ o = 0 /\ o \in 0 .. 8 /\ i = 1 /\ i - 1 = o /\ i \in 0 .. 8
  OBVIOUS
<1>2. q0 = <<>>
  <2>1. KeptLen(b, l, o) = 0 /\ q0 \in Seq(Nat) /\ Len(q0) = KeptLen(b, l, o)
    BY <1>1, KeptLens, KeptShape
  <2> HIDE DEF q0
  <2> QED BY <2>1
<1> HIDE DEF i, o
<1>3. Holds(src, p[o], z) /\ p[i] = p[o] + Len(z) /\ p[0] = 0
  BY <1>1, Zenon DEF Laid
<1>4. p[i] = Len(z) /\ Holds(src, 0, z)
  <2>1. p[o] = 0
    BY <1>1, <1>3
  <2>2. Len(z) \in Nat
    BY <1>1, PieceShape
  <2>3. p[i] = 0 + Len(z) /\ Holds(src, 0, z)
    BY <1>3, <2>1, Zenon
  <2> QED BY <2>2, <2>3
<1>5. \/ b = -1 /\ l = 0
      \/ b \in 0 .. 6 /\ l \in 2 .. 8 /\ b + l <= 8
  BY DEF RunShape
<1>6. InRun(b, l, i) <=> b = 0
  BY <1>1, <1>5 DEF InRun
<1>7. CASE b = 0
  <2>1. z = <<":">>
    <3>1. i - 1 = b
      BY <1>1, <1>7
    <3> QED BY <1>1, <1>6, <1>7, <3>1, PieceKinds, Zenon
  <2>2. z \in Seq(Chars6) /\ Len(z) = 1 /\ z[1] = ":"
    BY <2>1, ColonChar
  <2> HIDE DEF z
  <2>3. Len(src) > 0 /\ src[1] = ":"
    <3>1. Len(src) > 0 /\ src[1] = z[1]
      BY <1>4, <2>2, FirstChar
    <3> QED BY <2>2, <3>1
  <2>4. Between6(src, 1, <<>>, -1)
    BY <2>3, Begin6
  <2>5. p[i] = 1
    BY <1>4, <2>2
  <2>6. q1 = <<>>
    <3>1. q1 = q0
      BY <1>1, <1>6, <1>7, KeptStays, Zenon
    <3> QED BY <1>2, <3>1
  <2>7. Between6(src, p[i], q1, -1)
    BY <2>4, <2>5, <2>6, Zenon
  <2>8. ReadUpto(src, words, b, l, p, i)
    BY <1>6, <1>7, <2>7, Zenon DEF ReadUpto
  <2> QED BY <1>7, <2>3, <2>8 DEF i
<1>8. CASE b # 0
  <2> DEFINE w == Written(words[1], 16)
             v == words[1]
  <2>1. z = w
    BY <1>1, <1>6, <1>8, PieceKinds, Zenon
  <2>2. v \in Nat /\ v <= MaxWord
    <3>1. 1 \in 1 .. 8
      OBVIOUS
    <3> QED BY <3>1, WordOf DEF RunShape
  <2> HIDE DEF v
  <2>3. w = Written(v, 16)
    BY DEF v
  <2> HIDE DEF w
  <2>4. w \in Seq(Chars6) /\ Len(w) \in Nat /\ Len(w) >= 1 /\ w[1] # ":"
    BY <2>2, <2>3, WordText
  <2>5. Holds(src, 0, w) /\ p[i] = Len(w)
    BY <1>4, <2>1, Zenon
  <2>6. Len(src) > 0 /\ src[1] # ":"
    <3>1. Len(src) > 0 /\ src[1] = w[1]
      BY <2>4, <2>5, FirstChar
    <3> QED BY <2>4, <3>1
  <2>7. Pton6First(src) = 1 /\ Between6(src, 0, <<>>, -1)
    BY <2>6, Begin6
  <2>8. Behind6(src, 0 + Len(w), <<>>, -1, v)
    <3>1. Pton6First(src) <= 0 + 1 /\ 0 \in Nat
      BY <2>7
    <3> QED BY <2>2, <2>3, <2>5, <2>7, <3>1, WordAt
  <2>9. 0 + Len(w) = p[i]
    BY <2>4, <2>5
  <2>10. GapBy(b, l, i) = -1
    <3>1. \/ b = -1 /\ l = 0
          \/ b \in 1 .. 6 /\ l \in 2 .. 8
      BY <1>5, <1>8
    <3>2. CASE b = -1 /\ l = 0
      BY <1>1, <3>2 DEF GapBy
    <3>3. CASE b \in 1 .. 6 /\ l \in 2 .. 8
      BY <1>1, <3>3 DEF GapBy
    <3> QED BY <3>1, <3>2, <3>3
  <2>11. words[i] = v
    BY <1>1 DEF v
  <2>12. Behind6(src, p[i], q0, GapBy(b, l, i), words[i])
    BY <1>2, <2>8, <2>9, <2>10, <2>11, Zenon
  <2>13. ReadUpto(src, words, b, l, p, i)
    <3>1. q0 = Kept(words, b, l, i - 1)
      BY <1>1
    <3> HIDE DEF q0
    <3> QED BY <1>6, <1>8, <2>12, <3>1, Zenon DEF ReadUpto
  <2> QED BY <1>8, <2>6, <2>13 DEF i
<1> QED BY <1>7, <1>8

RunTurn(b, l, i, o) ==
    /\ InRun(b, l, i) /\ ~InRun(b, l, o) => b = o /\ GapBy(b, l, o) = -1
    /\ InRun(b, l, i) /\ InRun(b, l, o) => i - 1 # b
    /\ ~InRun(b, l, i) /\ InRun(b, l, o) => GapBy(b, l, i) = b
    /\ ~InRun(b, l, i) /\ ~InRun(b, l, o) => GapBy(b, l, o) = GapBy(b, l, i)

LEMMA RunTurns ==
    ASSUME NEW words, NEW b, NEW l, RunShape(words, b, l), NEW i \in 2 .. 8, NEW o, o = i - 1
    PROVE  RunTurn(b, l, i, o)
<1>1. \/ b = -1 /\ l = 0
      \/ b \in 0 .. 6 /\ l \in 2 .. 8 /\ b + l <= 8
  BY DEF RunShape
<1>2. CASE b = -1 /\ l = 0
  BY <1>2 DEF RunTurn, InRun, GapBy
<1>3. CASE b \in 0 .. 6 /\ l \in 2 .. 8 /\ b + l <= 8
  BY <1>3 DEF RunTurn, InRun, GapBy
<1> QED BY <1>1, <1>2, <1>3

LEMMA ReadNext ==
    ASSUME NEW words, NEW b, NEW l, RunShape(words, b, l), NEW src \in Seq(Chars6),
           NEW p, Laid(src, words, b, l, p), NEW i \in 2 .. 8,
           ~(Encapsulated(words, b, l) /\ i >= 7), NEW o, o = i - 1,
           ReadUpto(src, words, b, l, p, o)
    PROVE  ReadUpto(src, words, b, l, p, i)
<1> DEFINE z == Piece(words, b, l, i)
           w == <<":">> \o Written(words[i], 16)
           v == words[i]
           u == words[o]
           q1 == Kept(words, b, l, o - 1)
           q2 == Kept(words, b, l, o)
           q3 == Kept(words, b, l, i)
           g1 == GapBy(b, l, o)
           g2 == GapBy(b, l, i)
           s == p[o]
           e == p[i]
           in1 == InRun(b, l, o)
           in2 == InRun(b, l, i)
<1>1. i \in 1 .. 8 /\ i \in 0 .. 8 /\ o \in 1 .. 8 /\ o \in 0 .. 8 /\ o - 1 \in 0 .. 8 /\ i # 1
  OBVIOUS
<1>2. \/ b = -1 /\ l = 0
      \/ b \in 0 .. 6 /\ l \in 2 .. 8 /\ b + l <= 8
  BY DEF RunShape
<1>3. RunTurn(b, l, i, o)
  BY RunTurns
<1>4. \A k \in 0 .. 8 :
         Kept(words, b, l, k) \in Seq(Nat) /\ Len(Kept(words, b, l, k)) = KeptLen(b, l, k)
  BY KeptShape
<1>5. v \in Nat /\ v <= MaxWord /\ u \in Nat
  BY <1>1, WordOf DEF RunShape
<1>6. q1 \in Seq(Nat) /\ Len(q1) # 8 /\ q2 \in Seq(Nat)
  <2>1. q1 \in Seq(Nat) /\ Len(q1) = KeptLen(b, l, o - 1) /\ q2 \in Seq(Nat)
    BY <1>1, <1>4, Zenon
  <2>2. KeptLen(b, l, o - 1) <= o - 1 /\ KeptLen(b, l, o - 1) \in Nat
    BY <1>1, KeptLens
  <2>3. KeptLen(b, l, o - 1) # 8
    BY <1>1, <2>2
  <2> QED BY <2>1, <2>3, Zenon
<1>7. Holds(src, s, z) /\ e = s + Len(z)
  <2>1. Holds(src, p[i - 1], z) /\ p[i] = p[i - 1] + Len(z)
    BY <1>1, Zenon DEF Laid
  <2> QED BY <2>1
<1>8. s \in Nat /\ s >= 1 /\ Len(src) \in Nat
  BY <1>1, LaidPlaces
<1>9. Pton6First(src) <= s + 1
  BY <1>8 DEF Pton6First
<1>10. ~in1 => Behind6(src, s, q1, g1, u)
  BY DEF ReadUpto
<1>11. in1 => Between6(src, s, q2, -1)
  BY DEF ReadUpto
<1>12. ~in1 => Append(q1, u) = q2
  BY <1>1, KeptGrows, Zenon
<1>13. in2 => q3 = q2
  <2>1. in2 => q3 = Kept(words, b, l, i - 1)
    BY <1>1, KeptStays, Zenon
  <2> QED BY <2>1
<1>14. ~in2 => z = w
  BY <1>1, PieceKinds, Zenon
<1>15. in2 /\ i - 1 # b => z = <<>>
  BY <1>1, PieceKinds, Zenon
<1>16. (in2 /\ ~in1 => b = o) /\ (in2 /\ in1 => i - 1 # b)
  BY <1>3, Zenon DEF RunTurn
<1>17. ~in2 /\ in1 => Len(q2) = g2
  <2> SUFFICES ASSUME ~in2, in1 PROVE Len(q2) = g2
    OBVIOUS
  <2>1. Len(q2) = KeptLen(b, l, o)
    BY <1>1, <1>4, Zenon
  <2>2. KeptLen(b, l, o) = b
    BY <1>1, KeptLens
  <2>3. g2 = b
    BY <1>3, Zenon DEF RunTurn
  <2> QED BY <2>1, <2>2, <2>3
<1>18. ~in2 /\ ~in1 => g1 = g2
  BY <1>3, Zenon DEF RunTurn
<1>19. in2 /\ ~in1 => g1 = -1
  BY <1>3, Zenon DEF RunTurn
<1>20. in2 /\ Between6(src, e, q3, -1) => ReadUpto(src, words, b, l, p, i)
  BY Zenon DEF ReadUpto
<1>21. ~in2 /\ Behind6(src, e, q2, g2, v) => ReadUpto(src, words, b, l, p, i)
  BY DEF ReadUpto
<1>22. in2 /\ ~in1 => e = s + 1 /\ s + 1 < Len(src) /\ src[s + 1] = ":"
  <2> SUFFICES ASSUME in2, ~in1 PROVE e = s + 1 /\ s + 1 < Len(src) /\ src[s + 1] = ":"
    OBVIOUS
  <2>1. b = o /\ b # -1
    BY <1>1, <1>16
  <2>2. p[b + l] = p[b + 1] /\ p[b + 1] = p[b] + 1 /\ p[b + l] < Len(src)
    BY <2>1, AfterRun
  <2>3. p[b] = s /\ p[b + 1] = e
    BY <2>1
  <2>4. e = s + 1 /\ e < Len(src)
    BY <2>2, <2>3, Zenon
  <2>5. z = <<":">>
    <3>1. i - 1 = b
      BY <2>1
    <3> QED BY <1>1, <3>1, PieceKinds, Zenon
  <2>6. Len(z) = 1 /\ z[1] = ":"
    BY <2>5, ColonChar, Zenon
  <2> HIDE DEF z, s, e
  <2>7. src[s + 1] = z[1]
    <3>1. 1 \in 1 .. Len(z)
      BY <2>6
    <3> QED BY <1>7, <3>1 DEF Holds
  <2>8. src[s + 1] = ":"
    BY <2>6, <2>7, Zenon
  <2>9. s + 1 < Len(src)
    BY <2>4, Zenon
  <2> QED BY <2>4, <2>8, <2>9, Zenon
<1> HIDE DEF z, v, u, q1, q2, q3, g1, g2, s, e, in1, in2
<1>23. w = <<":">> \o Written(v, 16)
  BY DEF v
<1> HIDE DEF w
<1>24. CASE in2 /\ ~in1
  <2>1. Behind6(src, s, q1, g1, u) /\ s + 1 < Len(src) /\ src[s + 1] = ":"
    BY <1>10, <1>22, <1>24
  <2>2. Between6(src, s + 1, Append(q1, u), g1)
    BY <1>5, <1>6, <1>8, <1>9, <2>1, ZerosBeginAt
  <2>3. s + 1 = e /\ Append(q1, u) = q3 /\ g1 = -1
    BY <1>12, <1>13, <1>19, <1>22, <1>24, Zenon
  <2>4. Between6(src, e, q3, -1)
    BY <2>2, <2>3, Zenon
  <2> QED BY <1>20, <1>24, <2>4
<1>25. CASE in2 /\ in1
  <2>1. Between6(src, s, q2, -1) /\ q3 = q2
    BY <1>11, <1>13, <1>25
  <2>2. e = s
    <3>1. z = <<>>
      BY <1>15, <1>16, <1>25, Zenon
    <3>2. Len(z) = 0
      BY <3>1
    <3> QED BY <1>7, <1>8, <3>2
  <2>3. Between6(src, e, q3, -1)
    BY <2>1, <2>2, Zenon
  <2> QED BY <1>20, <1>25, <2>3
<1>26. CASE ~in2 /\ in1
  <2>1. Between6(src, s, q2, -1) /\ z = w
    BY <1>11, <1>14, <1>26
  <2>2. z = <<":">> \o Written(v, 16)
    BY <1>23, <2>1
  <2>3. Behind6(src, s + Len(z), q2, Len(q2), v)
    BY <1>5, <1>7, <1>8, <1>9, <2>1, <2>2, GapWordAt
  <2>4. Behind6(src, e, q2, g2, v)
    BY <1>7, <1>17, <1>26, <2>3, Zenon
  <2> QED BY <1>21, <1>26, <2>4
<1>27. CASE ~in2 /\ ~in1
  <2>1. Behind6(src, s, q1, g1, u) /\ z = w
    BY <1>10, <1>14, <1>27
  <2>2. z = <<":">> \o Written(v, 16)
    BY <1>23, <2>1
  <2>3. Behind6(src, s + Len(z), Append(q1, u), g1, v)
    BY <1>5, <1>6, <1>7, <1>8, <1>9, <2>1, <2>2, NextWordAt
  <2>4. Behind6(src, e, q2, g2, v)
    BY <1>7, <1>12, <1>18, <1>27, <2>3, Zenon
  <2> QED BY <1>21, <1>27, <2>4
<1> QED BY <1>24, <1>25, <1>26, <1>27

LEMMA PiecesRead ==
    ASSUME NEW words, NEW b, NEW l, RunShape(words, b, l), NEW src \in Seq(Chars6),
           NEW p, Laid(src, words, b, l, p), NEW n \in 1 .. 8,
           Encapsulated(words, b, l) => n <= 6
    PROVE  ReadUpto(src, words, b, l, p, n)
<1> DEFINE T == {k \in 0 .. n - 1 : ReadUpto(src, words, b, l, p, k + 1)}
<1>1. 0 \in T
  <2>1. ReadUpto(src, words, b, l, p, 1)
    BY ReadFirst
  <2>2. 0 + 1 = 1 /\ 0 \in 0 .. n - 1
    OBVIOUS
  <2> QED BY <2>1, <2>2
<1>2. ASSUME NEW k \in 1 .. n - 1, k - 1 \in T PROVE k \in T
  <2> DEFINE i == k + 1
             o == k - 1 + 1
  <2>1. i \in 2 .. 8 /\ o = i - 1 /\ k \in 0 .. n - 1
    OBVIOUS
  <2>2. ReadUpto(src, words, b, l, p, o)
    BY <1>2
  <2>3. ~(Encapsulated(words, b, l) /\ i >= 7)
    OBVIOUS
  <2> HIDE DEF i, o
  <2>4. ReadUpto(src, words, b, l, p, i)
    BY <2>1, <2>2, <2>3, ReadNext
  <2> QED BY <2>1, <2>4 DEF i
<1> HIDE DEF T
<1>3. n - 1 \in Nat /\ n - 1 \in 0 .. n - 1 /\ (n - 1) + 1 = n
  OBVIOUS
<1>4. \A k \in 0 .. n - 1 : k \in T
  BY <1>1, <1>2, <1>3, Counting
<1>5. ReadUpto(src, words, b, l, p, (n - 1) + 1)
  BY <1>3, <1>4 DEF T
<1> QED BY <1>3, <1>5

\* What inet_pton6 makes of the end of the text.
Ended6(s, q, c) ==
    /\ s.left # "return" /\ s.colonp = c
    /\ (IF s.xdigits_seen > 0 THEN Append(s.tp, s.val) ELSE s.tp) = q
    /\ ~(s.xdigits_seen > 0 /\ Len(s.tp) = 8)

LEMMA EndedBetween ==
    ASSUME NEW src, NEW n, NEW q, NEW c, Between6(src, n, q, c)
    PROVE  Ended6(Pton6States(src)[n], q, c)
<1> DEFINE s == Pton6States(src)[n]
<1>1. PICK cur : At6(s, q, c, cur, 0, 0)
  BY DEF Between6, Before6
<1> HIDE DEF s
<1>2. s = Word6(q, c, cur, 0, 0)
  BY <1>1 DEF At6
<1>3. s.tp = q /\ s.colonp = c /\ s.xdigits_seen = 0 /\ s.left = "no"
  BY <1>2 DEF Word6
<1>4. ~(s.xdigits_seen > 0)
  BY <1>3
<1>5. "no" # "return"
  OBVIOUS
<1> QED BY <1>3, <1>4, <1>5, Zenon DEF Ended6, s

LEMMA EndedBehind ==
    ASSUME NEW src, NEW n, NEW q, NEW c, NEW v, Len(q) # 8, Behind6(src, n, q, c, v)
    PROVE  Ended6(Pton6States(src)[n], Append(q, v), c)
<1> DEFINE s == Pton6States(src)[n]
<1>1. PICK cur, k : k \in Nat /\ k # 0 /\ At6(s, q, c, cur, k, v)
  BY DEF Behind6
<1> HIDE DEF s
<1>2. s = Word6(q, c, cur, k, v)
  BY <1>1 DEF At6
<1>3. s.tp = q /\ s.colonp = c /\ s.xdigits_seen = k /\ s.val = v /\ s.left = "no"
  BY <1>2 DEF Word6
<1>4. s.xdigits_seen > 0
  BY <1>1, <1>3
<1>5. "no" # "return"
  OBVIOUS
<1> QED BY <1>3, <1>4, <1>5, Zenon DEF Ended6, s

LEMMA EndedDotted ==
    ASSUME NEW s, NEW q, NEW c, NEW a, Dotted(s, q, c, a)
    PROVE  Ended6(s, q \o Packed(a), c)
<1>1. s.tp = q \o Packed(a) /\ s.colonp = c /\ s.xdigits_seen = 0 /\ s.left = "break"
  BY DEF Dotted
<1>2. ~(s.xdigits_seen > 0)
  BY <1>1
<1>3. "break" # "return"
  OBVIOUS
<1> QED BY <1>1, <1>2, <1>3, Zenon DEF Ended6

LEMMA TwoMore ==
    ASSUME NEW q \in Seq(Nat), NEW x \in Nat, NEW y \in Nat
    PROVE  q \o <<x, y>> = Append(Append(q, x), y)
<1> DEFINE r == <<x, y>>
           s == Append(q, x)
           t == Append(s, y)
           u == q \o r
           n == Len(q)
<1>1. r \in Seq(Nat) /\ Len(r) = 2 /\ r[1] = x /\ r[2] = y
  OBVIOUS
<1> HIDE DEF r
<1>2. n \in Nat
  OBVIOUS
<1>3. s \in Seq(Nat) /\ Len(s) = n + 1 /\ s[n + 1] = x /\ \A i \in 1 .. n : s[i] = q[i]
  BY AppendProperties
<1> HIDE DEF s
<1>4. t \in Seq(Nat) /\ Len(t) = n + 2 /\ t[n + 2] = y /\ \A i \in 1 .. n + 1 : t[i] = s[i]
  <2>1. t \in Seq(Nat) /\ Len(t) = Len(s) + 1 /\ t[Len(s) + 1] = y /\ \A i \in 1 .. Len(s) : t[i] = s[i]
    BY <1>3, AppendProperties
  <2>2. Len(s) + 1 = n + 2
    BY <1>2, <1>3
  <2> QED BY <1>3, <2>1, <2>2, Zenon
<1> HIDE DEF t
<1>5. /\ u \in Seq(Nat) /\ Len(u) = n + 2
      /\ \A i \in 1 .. n + 2 : u[i] = IF i <= n THEN q[i] ELSE r[i - n]
  <2>1. /\ u \in Seq(Nat) /\ Len(u) = n + Len(r)
        /\ \A i \in 1 .. n + Len(r) : u[i] = IF i <= n THEN q[i] ELSE r[i - n]
    BY <1>1, ConcatProperties
  <2> QED BY <1>1, <2>1, Zenon
<1> HIDE DEF u
<1>6. ASSUME NEW i \in 1 .. n + 2 PROVE u[i] = t[i]
  <2>1. CASE i <= n
    <3>1. i \in 1 .. n /\ i \in 1 .. n + 1
      BY <1>2, <2>1
    <3>2. u[i] = q[i]
      BY <1>5, <2>1
    <3>3. t[i] = s[i] /\ s[i] = q[i]
      BY <1>3, <1>4, <3>1, Zenon
    <3> QED BY <3>2, <3>3, Zenon
  <2>2. CASE i = n + 1
    <3>1. i \in 1 .. n + 1 /\ ~(i <= n) /\ i - n = 1
      BY <1>2, <2>2
    <3>2. u[i] = r[i - n]
      BY <1>5, <3>1
    <3>3. t[i] = s[i]
      BY <1>4, <3>1, Zenon
    <3> QED BY <1>1, <1>3, <2>2, <3>1, <3>2, <3>3, Zenon
  <2>3. CASE i = n + 2
    <3>1. ~(i <= n) /\ i - n = 2
      BY <1>2, <2>3
    <3>2. u[i] = r[i - n]
      BY <1>5, <3>1
    <3> QED BY <1>1, <1>4, <2>3, <3>1, <3>2, Zenon
  <2> QED BY <1>2, <2>1, <2>2, <2>3
<1>7. u = t
  BY <1>4, <1>5, <1>6, SeqEqual
<1> QED BY <1>7 DEF u, t, s, r

LEMMA EndsWithQuad ==
    ASSUME NEW words, NEW b, NEW l, RunShape(words, b, l), Encapsulated(words, b, l),
           NEW src \in Seq(Chars6), NEW p, Laid(src, words, b, l, p)
    PROVE  Ended6(Pton6States(src)[Len(src)], Kept(words, b, l, 8), b)
<1> DEFINE e == p[6]
           j == e + 1
           a == Octets(words)
           v == QuadText(a)
           z == <<":">> \o v
           q5 == Kept(words, b, l, 5)
           q6 == Kept(words, b, l, 6)
           w6 == words[6]
           f == Pton6States(src)
           n == Len(src)
<1>1. b = 0 /\ (l = 6 \/ l = 5)
  BY DEF Encapsulated
<1>2. /\ 6 \in 1 .. 8 /\ 7 \in 1 .. 8 /\ 8 \in 1 .. 8 /\ 7 - 1 = 6 /\ 8 - 1 = 7 /\ 6 - 1 = 5
      /\ 6 \in 0 .. 8 /\ 5 \in 0 .. 8 /\ 7 \in 0 .. 8 /\ 8 \in 0 .. 8
  OBVIOUS
<1>3. v \in Seq(Chars6) /\ Len(v) \in Nat /\ Len(v) >= 7
  BY QuadText6 DEF RunShape
<1>4. a \in [1 .. 4 -> 0 .. 255] /\ Packed(a) = <<words[7], words[8]>>
  BY OctetsFit4 DEF RunShape
<1>5. \A i \in 1 .. 8 : words[i] \in Nat
  BY WordOf DEF RunShape
<1>6. /\ n \in Nat
      /\ \A i \in 0 .. 8 : p[i] \in Nat
      /\ \A i \in 1 .. 8 : p[i] >= 1
  BY LaidPlaces
<1>7. e \in Nat /\ e >= 1
  BY <1>2, <1>6
<1>8. Holds(src, e, z) /\ n = e + Len(z)
  <2>1. \A i \in 1 .. 8 : LET y == Piece(words, b, l, i)
                          IN  Holds(src, p[i - 1], y) /\ p[i] = p[i - 1] + Len(y)
    BY Zenon DEF Laid
  <2>2. \A i \in 1 .. 8 : i = 7 => Piece(words, b, l, i) = z
    BY PieceKinds, Zenon
  <2>3. \A i \in 1 .. 8 : i = 8 => Piece(words, b, l, i) = <<>>
    BY PieceKinds, Zenon
  <2>4. Piece(words, b, l, 7) = z /\ Piece(words, b, l, 8) = <<>>
    BY <1>2, <2>2, <2>3
  <2> HIDE DEF z
  <2>5. Holds(src, p[6], z) /\ p[7] = p[6] + Len(z)
    <3>1. Holds(src, p[7 - 1], Piece(words, b, l, 7)) /\ p[7] = p[7 - 1] + Len(Piece(words, b, l, 7))
      BY <1>2, <2>1, Zenon
    <3> QED BY <1>2, <2>4, <3>1
  <2>6. p[8] = p[7] + 0
    <3>1. p[8] = p[8 - 1] + Len(Piece(words, b, l, 8))
      BY <1>2, <2>1, Zenon
    <3>2. Len(<<>>) = 0
      OBVIOUS
    <3> QED BY <1>2, <2>4, <3>1, <3>2
  <2>7. n = p[8] + 0
    <3>1. n = p[8] + Len(EndColon(b, l))
      BY DEF Laid
    <3>2. Len(EndColon(b, l)) = 0
      <4>1. b + l # 8
        BY <1>1
      <4> QED BY <4>1, EndColonShape
    <3> QED BY <3>1, <3>2
  <2>8. p[7] \in Nat /\ p[8] \in Nat
    BY <1>2, <1>6
  <2>9. n = p[7]
    BY <2>6, <2>7, <2>8
  <2> QED BY <2>5, <2>9
<1>9. /\ Len(z) = Len(v) + 1 /\ j \in Nat /\ j <= n /\ src[j] = ":"
      /\ Holds(src, j, v) /\ j < n
  <2>1. z = <<":">> \o v
    OBVIOUS
  <2> HIDE DEF v, z, e
  <2>2. v \in Seq(Chars6) /\ Len(v) >= 1 /\ Holds(src, e, z) /\ e \in Nat
    BY <1>3, <1>7, <1>8
  <2>3. /\ Len(z) = Len(v) + 1 /\ e + 1 \in Nat /\ e + 1 <= Len(src) /\ src[e + 1] = ":"
        /\ Holds(src, e + 1, v) /\ (Len(v) >= 1 => e + 1 < Len(src))
    BY <2>1, <2>2, ColonFirst, Zenon
  <2> QED BY <2>2, <2>3, Zenon
<1>10. Pton6First(src) <= j
  BY <1>7 DEF Pton6First
<1>11. q5 \in Seq(Nat) /\ Len(q5) = 0 /\ q6 \in Seq(Nat) /\ Len(q6) <= 6
       /\ (l = 6 => Len(q6) = 0)
  <2>1. /\ q5 \in Seq(Nat) /\ Len(q5) = KeptLen(b, l, 5)
        /\ q6 \in Seq(Nat) /\ Len(q6) = KeptLen(b, l, 6)
    BY <1>2, KeptShape
  <2>2. KeptLen(b, l, 5) = 0 /\ KeptLen(b, l, 6) <= 6 /\ (l = 6 => KeptLen(b, l, 6) = 0)
    BY <1>1 DEF KeptLen
  <2> QED BY <2>1, <2>2
<1>12. ReadUpto(src, words, b, l, p, 6)
  BY <1>2, PiecesRead
<1>13. Before6(src, j, q6, 0, j + 1)
  <2>1. CASE l = 6
    <3>1. InRun(b, l, 6)
      BY <1>1, <2>1 DEF InRun
    <3>2. Between6(src, e, q6, -1)
      BY <1>12, <3>1 DEF ReadUpto
    <3> HIDE DEF q6, e
    <3>3. PICK cur : Before6(src, e, q6, -1, cur)
      BY <3>2 DEF Between6
    <3>4. j = e + 1
      OBVIOUS
    <3> HIDE DEF j, n
    <3>5. Before6(src, j, q6, Len(q6), j + 1)
      BY <1>7, <1>9, <1>10, <3>3, <3>4, GapAt DEF n
    <3>6. Len(q6) = 0
      BY <1>11, <2>1
    <3> QED BY <3>5, <3>6, Zenon
  <2>2. CASE l = 5
    <3>1. ~InRun(b, l, 6) /\ GapBy(b, l, 6) = 0
      BY <1>1, <2>2 DEF InRun, GapBy
    <3>2. Behind6(src, e, Kept(words, b, l, 6 - 1), GapBy(b, l, 6), w6)
      BY <1>12, <3>1 DEF ReadUpto
    <3>3. Behind6(src, e, q5, 0, w6)
      BY <3>1, <3>2
    <3>4. Append(q5, w6) = q6
      <4>1. \A i \in 1 .. 8 : ~InRun(b, l, i)
              => Append(Kept(words, b, l, i - 1), words[i]) = Kept(words, b, l, i)
        BY KeptGrows, Zenon
      <4>2. Append(Kept(words, b, l, 6 - 1), words[6]) = Kept(words, b, l, 6)
        BY <1>2, <3>1, <4>1, Zenon
      <4> QED BY <4>2
    <3>5. w6 \in Nat
      BY <1>2, <1>5
    <3> HIDE DEF q5, q6, w6, e
    <3>6. PICK cur, k : k \in Nat /\ k # 0 /\ At6(f[e], q5, 0, cur, k, w6)
      BY <3>3 DEF Behind6
    <3>7. j = e + 1
      OBVIOUS
    <3> HIDE DEF j, n
    <3>8. Len(q5) # 8
      BY <1>11
    <3>9. Before6(src, j, Append(q5, w6), 0, j + 1)
      BY <1>7, <1>9, <1>10, <1>11, <3>5, <3>6, <3>7, <3>8, ColonAt DEF n
    <3> QED BY <3>4, <3>9, Zenon
  <2> QED BY <1>1, <2>1, <2>2
<1>14. Pton6First(src) <= j + 1 /\ j + Len(v) = n
  <2>1. Pton6First(src) \in Nat
    BY DEF Pton6First
  <2>2. j = e + 1
    OBVIOUS
  <2> HIDE DEF v, z, e, n, j
  <2> QED BY <1>3, <1>7, <1>8, <1>9, <1>10, <2>1, <2>2
<1>15. Dotted(f[n], q6, 0, a)
  <2>1. v = QuadText(a)
    OBVIOUS
  <2> HIDE DEF v, a, q6, j
  <2> QED BY <1>4, <1>9, <1>11, <1>13, <1>14, <2>1, QuadAt
<1>16. Ended6(f[n], q6 \o Packed(a), 0)
  BY <1>15, EndedDotted
<1>17. q6 \o Packed(a) = Kept(words, b, l, 8)
  <2>1. \A i \in 1 .. 8 : ~InRun(b, l, i)
          => Append(Kept(words, b, l, i - 1), words[i]) = Kept(words, b, l, i)
    BY KeptGrows, Zenon
  <2>2. ~InRun(b, l, 7) /\ ~InRun(b, l, 8)
    BY <1>1 DEF InRun
  <2>3. Append(q6, words[7]) = Kept(words, b, l, 7)
    <3>1. Append(Kept(words, b, l, 7 - 1), words[7]) = Kept(words, b, l, 7)
      BY <1>2, <2>1, <2>2, Zenon
    <3> QED BY <3>1
  <2>4. Append(Kept(words, b, l, 7), words[8]) = Kept(words, b, l, 8)
    <3>1. Append(Kept(words, b, l, 8 - 1), words[8]) = Kept(words, b, l, 8)
      BY <1>2, <2>1, <2>2, Zenon
    <3> QED BY <3>1
  <2>5. words[7] \in Nat /\ words[8] \in Nat
    BY <1>2, <1>5
  <2>6. q6 \o <<words[7], words[8]>> = Append(Append(q6, words[7]), words[8])
    BY <1>11, <2>5, TwoMore
  <2> HIDE DEF q6
  <2> QED BY <1>4, <2>3, <2>4, <2>6, Zenon
<1> QED BY <1>1, <1>16, <1>17, Zenon

LEMMA EndsAt ==
    ASSUME NEW words, NEW b, NEW l, RunShape(words, b, l),
           NEW src \in Seq(Chars6), NEW p, Laid(src, words, b, l, p)
    PROVE  Ended6(Pton6States(src)[Len(src)], Kept(words, b, l, 8), b)
<1> DEFINE e == p[8]
           n == Len(src)
           q == Kept(words, b, l, 8)
           q7 == Kept(words, b, l, 7)
           f == Pton6States(src)
           w == words[8]
<1>1. /\ 8 \in 1 .. 8 /\ 8 - 1 = 7 /\ 7 \in 0 .. 8 /\ 8 \in 0 .. 8
  OBVIOUS
<1>2. \/ b = -1 /\ l = 0
      \/ b \in 0 .. 6 /\ l \in 2 .. 8 /\ b + l <= 8
  BY DEF RunShape
<1>3. e \in Nat /\ e >= 1 /\ n \in Nat
  BY <1>1, LaidPlaces
<1>4. Pton6First(src) <= e + 1
  BY <1>3 DEF Pton6First
<1>5. Holds(src, e, EndColon(b, l)) /\ n = e + Len(EndColon(b, l))
  BY Zenon DEF Laid
<1>6. CASE Encapsulated(words, b, l)
  BY <1>6, EndsWithQuad
<1>7. CASE ~Encapsulated(words, b, l) /\ b + l = 8
  <2>1. InRun(b, l, 8) /\ b # -1 /\ KeptLen(b, l, 8) = b
    BY <1>2, <1>7 DEF InRun, KeptLen
  <2>2. ReadUpto(src, words, b, l, p, 8)
    BY <1>1, <1>7, PiecesRead
  <2>3. Between6(src, e, q, -1)
    BY <2>1, <2>2 DEF ReadUpto
  <2>4. Len(q) = b
    BY <1>1, <2>1, KeptShape
  <2>5. n = e + 1 /\ src[e + 1] = ":"
    <3>1. EndColon(b, l) = <<":">>
      BY <1>7 DEF EndColon
    <3> DEFINE c == <<":">>
    <3>2. Len(c) = 1 /\ c[1] = ":" /\ 1 \in 1 .. Len(c)
      BY ColonChar
    <3>3. Holds(src, e, c) /\ n = e + Len(c)
      BY <1>5, <3>1, Zenon
    <3> HIDE DEF c, e
    <3>4. src[e + 1] = c[1]
      BY <3>2, <3>3 DEF Holds
    <3> QED BY <3>2, <3>3, <3>4, Zenon
  <2> HIDE DEF e, q, n
  <2>6. e + 1 <= Len(src)
    BY <1>3, <2>5 DEF n
  <2>7. Between6(src, e + 1, q, Len(q))
    BY <1>3, <1>4, <2>3, <2>5, <2>6, ZerosEndAt, Zenon
  <2>8. Between6(src, n, q, b)
    BY <2>4, <2>5, <2>7, Zenon
  <2>9. Ended6(f[n], q, b)
    BY <2>8, EndedBetween
  <2> QED BY <2>9 DEF n, q
<1>8. CASE ~Encapsulated(words, b, l) /\ b + l # 8
  <2>1. ~InRun(b, l, 8) /\ GapBy(b, l, 8) = b
    <3>1. CASE b = -1 /\ l = 0
      BY <3>1 DEF InRun, GapBy
    <3>2. CASE b \in 0 .. 6 /\ l \in 2 .. 8 /\ b + l <= 8
      BY <1>8, <3>2 DEF InRun, GapBy
    <3> QED BY <1>2, <3>1, <3>2
  <2>2. ReadUpto(src, words, b, l, p, 8)
    BY <1>1, <1>8, PiecesRead
  <2>3. Behind6(src, e, q7, b, w)
    <3>1. Behind6(src, e, Kept(words, b, l, 8 - 1), GapBy(b, l, 8), w)
      BY <2>1, <2>2 DEF ReadUpto
    <3> QED BY <2>1, <3>1
  <2>4. Len(q7) # 8
    <3>1. Len(q7) = KeptLen(b, l, 7)
      BY <1>1, KeptShape
    <3>2. KeptLen(b, l, 7) <= 7 /\ KeptLen(b, l, 7) \in Nat
      BY <1>1, KeptLens
    <3> HIDE DEF q7
    <3>3. KeptLen(b, l, 7) # 8
      BY <3>2
    <3> QED BY <3>1, <3>3, Zenon
  <2>5. Append(q7, w) = q
    <3>1. \A i \in 1 .. 8 : ~InRun(b, l, i)
            => Append(Kept(words, b, l, i - 1), words[i]) = Kept(words, b, l, i)
      BY KeptGrows, Zenon
    <3>2. Append(Kept(words, b, l, 8 - 1), words[8]) = Kept(words, b, l, 8)
      BY <1>1, <2>1, <3>1, Zenon
    <3> QED BY <3>2
  <2>6. n = e
    <3>1. Len(EndColon(b, l)) = 0
      BY <1>8, EndColonShape
    <3> QED BY <1>3, <1>5, <3>1
  <2> HIDE DEF e, q, q7, n, w
  <2>7. Ended6(f[e], Append(q7, w), b)
    BY <2>3, <2>4, EndedBehind
  <2>8. Ended6(f[n], q, b)
    BY <2>5, <2>6, <2>7, Zenon
  <2> QED BY <2>8 DEF n, q
<1> QED BY <1>6, <1>7, <1>8

LEMMA TupleLength ==
    ASSUME NEW n \in Nat, NEW s \in [1 .. n -> Nat]
    PROVE  s \in Seq(Nat) /\ Len(s) = n
OBVIOUS

LEMMA ExpandsBack ==
    ASSUME NEW words, NEW b, NEW l, RunShape(words, b, l), NEW q, q = Kept(words, b, l, 8)
    PROVE  /\ Len(q) = 8 - l
           /\ (IF b = -1 THEN q ELSE ExpandColons(q, b)) = words
<1> DEFINE m == 8 - l
<1>1. \/ b = -1 /\ l = 0
      \/ b \in 0 .. 6 /\ l \in 2 .. 8 /\ b + l <= 8
  BY DEF RunShape
<1>2. 8 \in 0 .. 8
  OBVIOUS
<1>3. /\ q \in Seq(Nat) /\ Len(q) = m
      /\ \A j \in 1 .. m : q[j] = KeptWord(words, b, l, j)
  <2>1. /\ q \in Seq(Nat) /\ Len(q) = KeptLen(b, l, 8)
        /\ \A j \in 1 .. KeptLen(b, l, 8) : q[j] = KeptWord(words, b, l, j)
    <3>1. \A k \in 0 .. 8 :
            /\ Kept(words, b, l, k) \in Seq(Nat) /\ Len(Kept(words, b, l, k)) = KeptLen(b, l, k)
            /\ \A j \in 1 .. KeptLen(b, l, k) : Kept(words, b, l, k)[j] = KeptWord(words, b, l, j)
      BY KeptShape
    <3> QED BY <1>2, <3>1, Zenon
  <2>2. KeptLen(b, l, 8) = m
    BY KeptLens
  <2> HIDE DEF m
  <2> QED BY <2>1, <2>2, Zenon
<1>4. words \in [1 .. 8 -> Nat] /\ words \in Seq(Nat) /\ Len(words) = 8
  <2>1. words \in [1 .. 8 -> 0 .. MaxWord]
    BY DEF RunShape, Words16
  <2>2. \A i \in 1 .. 8 : words[i] \in Nat
    BY WordOf DEF RunShape
  <2>3. words \in [1 .. 8 -> Nat]
    BY <2>1, <2>2
  <2>4. words \in Seq(Nat) /\ Len(words) = 8
    BY <2>3, TupleLength
  <2> QED BY <2>3, <2>4
<1>5. CASE b = -1
  <2>1. l = 0
    BY <1>1, <1>5
  <2>2. m = 8
    BY <2>1
  <2>3. ASSUME NEW j \in 1 .. 8 PROVE q[j] = words[j]
    <3>1. q[j] = KeptWord(words, b, l, j)
      BY <1>3, <2>2
    <3>2. ~(j <= b) /\ j + l = j
      BY <1>5, <2>1
    <3> QED BY <3>1, <3>2, Zenon DEF KeptWord
  <2>4. Len(q) = 8
    BY <1>3, <2>2
  <2>5. q = words
    BY <1>3, <1>4, <2>3, <2>4, SeqEqual
  <2> QED BY <1>3, <1>5, <2>5, Zenon
<1>6. CASE b # -1
  <2>1. b \in 0 .. 6 /\ l \in 2 .. 8 /\ b + l <= 8 /\ m \in 0 .. 6 /\ b <= m /\ m = 8 - l
    BY <1>1, <1>6
  <2>2. AllZero(words, b, l)
    BY <1>6 DEF RunShape
  <2> HIDE DEF m
  <2> DEFINE x == SubSeq(q, 1, b)
             z == Zeros(l)
             y == SubSeq(q, b + 1, m)
             t == x \o z
             u == t \o y
  <2>3. \A j \in 1 .. m : q[j] \in Nat
    BY <1>3
  <2>4. x \in Seq(Nat) /\ Len(x) = b /\ \A i \in 1 .. b : x[i] = q[i]
    <3>1. \A i \in 1 .. b : q[i] \in Nat
      BY <2>1, <2>3
    <3>2. /\ x \in Seq(Nat) /\ Len(x) = (IF 1 <= b THEN b - 1 + 1 ELSE 0)
          /\ \A i \in 1 .. b - 1 + 1 : x[i] = q[1 + i - 1]
      BY <2>1, <3>1, SubSeqProperties
    <3> HIDE DEF x
    <3>3. b - 1 + 1 = b /\ \A i \in 1 .. b : 1 + i - 1 = i
      BY <2>1
    <3> QED BY <2>1, <3>2, <3>3
  <2>5. z \in Seq(Nat) /\ Len(z) = l /\ \A i \in 1 .. l : z[i] = 0
    BY <2>1 DEF Zeros
  <2>6. y \in Seq(Nat) /\ Len(y) = m - b /\ \A i \in 1 .. m - b : y[i] = q[b + i]
    <3>1. \A i \in b + 1 .. m : q[i] \in Nat
      BY <2>1, <2>3
    <3>2. /\ y \in Seq(Nat) /\ Len(y) = (IF b + 1 <= m THEN m - (b + 1) + 1 ELSE 0)
          /\ \A i \in 1 .. m - (b + 1) + 1 : y[i] = q[b + 1 + i - 1]
      BY <2>1, <3>1, SubSeqProperties
    <3> HIDE DEF y
    <3>3. m - (b + 1) + 1 = m - b /\ \A i \in 1 .. m - b : b + 1 + i - 1 = b + i
      BY <2>1
    <3> QED BY <2>1, <3>2, <3>3
  <2> HIDE DEF x, y, z
  <2>7. /\ t \in Seq(Nat) /\ Len(t) = b + l
        /\ \A i \in 1 .. b + l : t[i] = IF i <= b THEN x[i] ELSE z[i - b]
    <3>1. /\ t \in Seq(Nat) /\ Len(t) = Len(x) + Len(z)
          /\ \A i \in 1 .. Len(x) + Len(z) : t[i] = IF i <= Len(x) THEN x[i] ELSE z[i - Len(x)]
      BY <2>4, <2>5, ConcatProperties
    <3> QED BY <2>4, <2>5, <3>1, Zenon
  <2> HIDE DEF t
  <2>8. /\ u \in Seq(Nat) /\ Len(u) = 8
        /\ \A i \in 1 .. 8 : u[i] = IF i <= b + l THEN t[i] ELSE y[i - (b + l)]
    <3>1. /\ u \in Seq(Nat) /\ Len(u) = Len(t) + Len(y)
          /\ \A i \in 1 .. Len(t) + Len(y) : u[i] = IF i <= Len(t) THEN t[i] ELSE y[i - Len(t)]
      BY <2>6, <2>7, ConcatProperties
    <3>2. Len(t) + Len(y) = 8
      BY <2>1, <2>6, <2>7
    <3> QED BY <2>7, <3>1, <3>2, Zenon
  <2> HIDE DEF u
  <2>9. ASSUME NEW i \in 1 .. 8 PROVE u[i] = words[i]
    <3>1. CASE i <= b
      <4>1. i \in 1 .. b /\ i \in 1 .. m /\ i <= b + l /\ i \in 1 .. b + l
        BY <2>1, <3>1
      <4>2. u[i] = t[i]
        BY <2>8, <4>1
      <4>3. t[i] = x[i]
        BY <2>7, <3>1, <4>1
      <4>4. x[i] = q[i] /\ q[i] = KeptWord(words, b, l, i)
        BY <1>3, <2>4, <4>1
      <4>5. KeptWord(words, b, l, i) = words[i]
        BY <3>1 DEF KeptWord
      <4> QED BY <4>2, <4>3, <4>4, <4>5, Zenon
    <3>2. CASE ~(i <= b) /\ i <= b + l
      <4>1. i \in 1 .. b + l /\ i - b \in 1 .. l
        BY <2>1, <3>2
      <4>2. u[i] = t[i]
        BY <2>8, <3>2
      <4>3. t[i] = z[i - b]
        BY <2>7, <3>2, <4>1
      <4>4. z[i - b] = 0
        BY <2>5, <4>1
      <4>5. words[i] = 0
        BY <2>1, <2>2, <3>2 DEF AllZero
      <4> QED BY <4>2, <4>3, <4>4, <4>5, Zenon
    <3>3. CASE ~(i <= b + l)
      <4> DEFINE k == i - (b + l)
                 j == b + k
      <4>1. k \in 1 .. m - b /\ j \in 1 .. m /\ ~(j <= b) /\ j + l = i
        BY <2>1, <3>3
      <4> HIDE DEF k
      <4>2. u[i] = y[k]
        BY <2>8, <3>3 DEF k
      <4>3. y[k] = q[j]
        BY <2>6, <4>1
      <4> HIDE DEF j
      <4>4. q[j] = KeptWord(words, b, l, j)
        BY <1>3, <4>1
      <4>5. KeptWord(words, b, l, j) = words[i]
        BY <4>1 DEF KeptWord
      <4> QED BY <4>2, <4>3, <4>4, <4>5, Zenon
    <3> QED BY <3>1, <3>2, <3>3
  <2>10. u = words
    BY <1>4, <2>8, <2>9, SeqEqual
  <2>11. ExpandColons(q, b) = u
    <3>1. 8 - Len(q) = l
      BY <1>3, <2>1
    <3> QED BY <1>3, <3>1, Zenon DEF ExpandColons, u, t, x, y, z
  <2> QED BY <1>3, <1>6, <2>10, <2>11, Zenon DEF m
<1> QED BY <1>5, <1>6

LEMMA WordsAreWords16 == Words \subseteq Words16
BY WordsAssumption DEF Words16

LEMMA ReadAddress ==
    ASSUME NEW words, NEW b, NEW l, RunShape(words, b, l),
           NEW src \in Seq(Chars6), NEW p, Laid(src, words, b, l, p)
    PROVE  inet_pton6(src) = words
<1> DEFINE end == Pton6States(src)[Len(src)]
           q == Kept(words, b, l, 8)
           got == IF end.xdigits_seen > 0 THEN Append(end.tp, end.val) ELSE end.tp
           fails == \/ src = <<>>
                    \/ src[1] = ":" /\ (Len(src) = 1 \/ src[2] # ":")
                    \/ end.left = "return"
                    \/ end.xdigits_seen > 0 /\ Len(end.tp) = 8
                    \/ end.colonp = -1 <=> Len(got) # 8
           r == inet_pton6(src)
<1>1. r = IF fails THEN Invalid ELSE IF end.colonp = -1 THEN got ELSE ExpandColons(got, end.colonp)
  BY DEF inet_pton6
<1> HIDE DEF r
<1>2. Ended6(end, q, b)
  BY EndsAt
<1>3. Len(q) = 8 - l /\ (IF b = -1 THEN q ELSE ExpandColons(q, b)) = words
  BY ExpandsBack
<1>4. Len(src) > 0 /\ (src[1] = ":" <=> b = 0)
  BY ReadFirst
<1>5. src[1] = ":" => Len(src) # 1 /\ src[2] = ":"
  <2> SUFFICES ASSUME src[1] = ":" PROVE Len(src) # 1 /\ src[2] = ":"
    OBVIOUS
  <2>1. b = 0 /\ b # -1
    BY <1>4
  <2>2. p[b + l] = p[b + 1] /\ p[b + 1] = p[b] + 1 /\ p[b + l] < Len(src) /\ src[p[b + l] + 1] = ":"
    BY <2>1, AfterRun
  <2>3. p[b] = 0
    BY <2>1 DEF Laid
  <2> DEFINE k == p[b + l]
  <2>4. k = p[b] + 1 /\ k < Len(src) /\ src[k + 1] = ":"
    BY <2>2
  <2> HIDE DEF k
  <2>5. k = 1
    BY <2>3, <2>4
  <2> QED BY <2>4, <2>5
<1>6. src # <<>>
  BY <1>4
<1> HIDE DEF end
<1>7. got = q /\ end.colonp = b /\ end.left # "return" /\ ~(end.xdigits_seen > 0 /\ Len(end.tp) = 8)
  BY <1>2 DEF Ended6
<1> HIDE DEF q, got
<1>8. ~(b = -1 <=> Len(q) # 8)
  <2>1. \/ b = -1 /\ l = 0
        \/ b \in 0 .. 6 /\ l \in 2 .. 8 /\ b + l <= 8
    BY DEF RunShape
  <2>2. Len(q) = 8 - l
    BY <1>3
  <2> DEFINE k == Len(q)
  <2>3. k = 8 - l
    BY <2>2
  <2> HIDE DEF k
  <2>4. b = -1 <=> k = 8
    BY <2>1, <2>3
  <2> QED BY <2>4 DEF k
<1>9. ~(end.colonp = -1 <=> Len(got) # 8)
  BY <1>7, <1>8, Zenon
<1>10. ~fails
  BY <1>5, <1>6, <1>7, <1>9, Zenon
<1> HIDE DEF fails
<1>11. r = IF end.colonp = -1 THEN got ELSE ExpandColons(got, end.colonp)
  BY <1>1, <1>10, Zenon
<1>12. r = IF b = -1 THEN q ELSE ExpandColons(q, b)
  BY <1>7, <1>11, Zenon
<1> QED BY <1>3, <1>12, Zenon DEF r

-----------------------------------------------------------------------------
(* The text of an IPv6 address is what its definition says *)

HasParts(text, fields, Char, separator, n) ==
    /\ text \in [0 .. n -> Seq(Char)]
    /\ text[0] = <<>>
    /\ 1 <= n => text[1] = fields[1]
    /\ \A k \in 2 .. n : text[k] = (text[k - 1] \o <<separator>>) \o fields[k]

LEMMA PartTurns ==
    ASSUME NEW fields, NEW Char, NEW separator, NEW text \in PartTexts(fields, Char, separator),
           NEW n, n = Len(fields)
    PROVE  HasParts(text, fields, Char, separator, n)
BY Zenon DEF PartTexts, HasParts

LEMMA HexFieldsAre ==
    ASSUME NEW words \in Words16, NEW i \in 1 .. 9, NEW j \in 0 .. 8, i <= j + 1
    PROVE  LET fields == HexFields(words, i, j)
           IN  /\ fields \in Seq(Seq(Chars6)) /\ Len(fields) = j - i + 1
               /\ \A k \in 1 .. j - i + 1 : fields[k] = Written(words[i + k - 1], 16)
<1> DEFINE n == j - i + 1
           field(k) == Written(words[i + k - 1], 16)
           fields == [k \in 1 .. n |-> field(k)]
<1>1. n \in Nat
  OBVIOUS
<1>2. ASSUME NEW k \in 1 .. n PROVE field(k) \in Seq(Chars6)
  <2>1. i + k - 1 \in 1 .. 8
    OBVIOUS
  <2> QED BY <2>1, WordOf, WordText
<1>3. HexFields(words, i, j) = fields
  BY DEF HexFields
<1> HIDE DEF n, field
<1>4. fields \in Seq(Seq(Chars6)) /\ Len(fields) = n
  BY <1>1, <1>2
<1>5. \A k \in 1 .. n : fields[k] = field(k)
  OBVIOUS
<1> QED BY <1>3, <1>4, <1>5 DEF n, field

LEMMA QuadFieldIs ==
    ASSUME NEW words \in Words16
    PROVE  QuadField(words) = QuadText(Octets(words))
<1> DEFINE octets == Octets(words)
           field(i) == Written(octets[i], 10)
           fields == [i \in 1 .. 4 |-> field(i)]
<1>1. ASSUME NEW i \in 1 .. 4 PROVE field(i) \in Seq(Chars6)
  <2>1. octets[i] \in 0 .. 255
    BY OctetsFit4
  <2> DEFINE o == octets[i]
  <2>2. o \in Nat /\ o <= 255
    BY <2>1
  <2> HIDE DEF o
  <2>3. WrittenAs(o, Written(o, 10))
    BY <2>2, WrittenOctet
  <2>4. Written(o, 10) \in Seq(Chars)
    BY <2>3, Zenon DEF WrittenAs
  <2>5. Seq(Chars) \subseteq Seq(Chars6)
    BY MoreChars, SeqMonotonic
  <2> QED BY <2>4, <2>5, Zenon DEF o
<1>2. QuadField(words) = Joined(fields, ".")
  BY DEF QuadField, Octets
<1>3. QuadText(octets) = (((((field(1) \o Dot) \o field(2)) \o Dot) \o field(3)) \o Dot) \o field(4)
  BY DEF QuadText, Dot
<1> HIDE DEF field
<1>4. fields \in Seq(Seq(Chars6)) /\ Len(fields) = 4
  BY <1>1
<1>5. fields[1] = field(1) /\ fields[2] = field(2) /\ fields[3] = field(3) /\ fields[4] = field(4)
  OBVIOUS
<1> HIDE DEF fields
<1>6. "." \in Chars6
  BY DEF Chars6
<1>7. PICK text \in PartTexts(fields, Chars6, ".") : Joined(fields, ".") = text[Len(fields)]
  BY <1>4, <1>6, PartsJoined
<1>8. /\ text[1] = fields[1]
      /\ text[2] = (text[1] \o Dot) \o fields[2]
      /\ text[3] = (text[2] \o Dot) \o fields[3]
      /\ text[4] = (text[3] \o Dot) \o fields[4]
  <2>1. /\ 1 <= 4 => text[1] = fields[1]
        /\ \A k \in 2 .. 4 : text[k] = (text[k - 1] \o <<".">>) \o fields[k]
    <3>1. HasParts(text, fields, Chars6, ".", 4)
      BY <1>4, <1>7, PartTurns
    <3> QED BY <3>1, Zenon DEF HasParts
  <2>2. 2 - 1 = 1 /\ 3 - 1 = 2 /\ 4 - 1 = 3 /\ 2 \in 2 .. 4 /\ 3 \in 2 .. 4 /\ 4 \in 2 .. 4
        /\ 1 <= 4
    OBVIOUS
  <2>3. \A k \in 2 .. 4 : text[k] = (text[k - 1] \o Dot) \o fields[k]
    BY <2>1, Zenon DEF Dot
  <2> QED BY <2>1, <2>2, <2>3
<1>9. Joined(fields, ".") = text[4]
  BY <1>4, <1>7
<1> QED BY <1>2, <1>3, <1>5, <1>8, <1>9, Zenon

\* Up to the run, or up to the end of an address without one, the text is that
\* of the fields.
LEMMA TextBeforeRun ==
    ASSUME NEW words, NEW b, NEW l, RunShape(words, b, l), NEW text \in Pieced(words, b, l),
           NEW n \in 0 .. 8, b = n \/ (b = -1 /\ n = 8),
           NEW part \in PartTexts(HexFields(words, 1, n), Chars6, ":")
    PROVE  \A i \in 0 .. n : text[i] = part[i]
<1> DEFINE fields == HexFields(words, 1, n)
           T == {i \in 0 .. n : text[i] = part[i]}
<1>1. words \in Words16
  BY DEF RunShape
<1>2. Len(fields) = n /\ \A k \in 1 .. n : fields[k] = Written(words[k], 16)
  <2>1. 1 \in 1 .. 9 /\ 1 <= n + 1 /\ n - 1 + 1 = n /\ \A k \in 1 .. n : 1 + k - 1 = k
    OBVIOUS
  <2>2. Len(fields) = n - 1 + 1
        /\ \A k \in 1 .. n - 1 + 1 : fields[k] = Written(words[1 + k - 1], 16)
    BY <1>1, <2>1, HexFieldsAre
  <2> QED BY <2>1, <2>2
<1> HIDE DEF fields
<1>3. /\ part[0] = <<>> /\ part \in [0 .. n -> Seq(Chars6)]
      /\ 1 <= n => part[1] = fields[1]
      /\ \A k \in 2 .. n : part[k] = (part[k - 1] \o <<":">>) \o fields[k]
  <2>1. part \in PartTexts(fields, Chars6, ":") /\ n = Len(fields)
    BY <1>2 DEF fields
  <2>2. HasParts(part, fields, Chars6, ":", n)
    BY <2>1, PartTurns
  <2> QED BY <2>2, Zenon DEF HasParts
<1>4. text[0] = <<>> /\ \A i \in 1 .. 8 : text[i] = text[i - 1] \o Piece(words, b, l, i)
  BY DEF Pieced
<1>5. 0 \in T
  <2>1. text[0] = part[0] /\ 0 \in 0 .. n
    BY <1>3, <1>4
  <2> QED BY <2>1, Zenon
<1>6. ASSUME NEW i \in 1 .. n, i - 1 \in T PROVE i \in T
  <2> DEFINE w == Written(words[i], 16)
             c == <<":">>
             p == part[i - 1]
  <2>1. w \in Seq(Chars6)
    <3>1. i \in 1 .. 8
      OBVIOUS
    <3> QED BY <1>1, <3>1, WordOf, WordText
  <2>2. text[i] = text[i - 1] \o Piece(words, b, l, i) /\ text[i - 1] = part[i - 1]
    <3>1. i \in 1 .. 8
      OBVIOUS
    <3>2. text[i - 1] = part[i - 1]
      BY <1>6, Zenon
    <3> QED BY <1>4, <3>1, <3>2, Zenon
  <2>3. Piece(words, b, l, i) = IF i = 1 THEN w ELSE Colon(w)
    <3>1. ~InRun(b, l, i) /\ ~Encapsulated(words, b, l)
      BY DEF InRun, Encapsulated, RunShape
    <3> QED BY <3>1 DEF Piece
  <2>4. fields[i] = w
    BY <1>2
  <2>5. CASE i = 1
    <3>1. part[0] = <<>> /\ part[1] = w /\ i - 1 = 0
      BY <1>3, <2>4, <2>5
    <3>2. <<>> \o w = w
      BY <2>1, ConcatEmptySeq
    <3>3. text[i] = part[i]
      BY <2>2, <2>3, <2>5, <3>1, <3>2
    <3> QED BY <3>3
  <2>6. CASE i # 1
    <3>1. part[i] = (p \o c) \o w
      <4>1. i \in 2 .. n
        BY <2>6
      <4>2. part[i] = (part[i - 1] \o <<":">>) \o fields[i]
        BY <1>3, <4>1, Zenon
      <4> QED BY <2>4, <4>2, Zenon
    <3>2. text[i] = p \o (c \o w)
      BY <2>2, <2>3, <2>6 DEF Colon
    <3>3. p \in Seq(Chars6) /\ c \in Seq(Chars6)
      BY <1>3, ColonChar
    <3> HIDE DEF p, c, w
    <3>4. (p \o c) \o w = p \o (c \o w)
      BY <2>1, <3>3, ConcatAssociative
    <3>5. text[i] = part[i]
      BY <3>1, <3>2, <3>4, Zenon
    <3> QED BY <3>5
  <2> QED BY <2>5, <2>6
<1> HIDE DEF T
<1>7. \A i \in 0 .. n : i \in T
  BY <1>5, <1>6, Counting
<1> QED BY <1>7 DEF T

\* In the run nothing is written but its first colon.
LEMMA TextInRun ==
    ASSUME NEW words, NEW b, NEW l, RunShape(words, b, l), b # -1, NEW text \in Pieced(words, b, l)
    PROVE  text[b + l] = text[b] \o <<":">>
<1> DEFINE c == <<":">>
           T == {i \in 0 .. l : i >= 1 => text[b + i] = text[b] \o c}
<1>1. b \in 0 .. 6 /\ l \in 2 .. 8 /\ b + l <= 8
  BY DEF RunShape
<1>2. text \in [0 .. 8 -> Seq(Chars6)]
      /\ \A i \in 1 .. 8 : text[i] = text[i - 1] \o Piece(words, b, l, i)
  BY DEF Pieced
<1>3. 0 \in T
  BY <1>1
<1>4. ASSUME NEW i \in 1 .. l, i - 1 \in T PROVE i \in T
  <2> DEFINE m == b + i
  <2>1. m \in 1 .. 8 /\ InRun(b, l, m) /\ m - 1 = b + (i - 1) /\ (m - 1 = b <=> i = 1)
    BY <1>1 DEF InRun
  <2>2. text[m] = text[m - 1] \o (IF m - 1 = b THEN c ELSE <<>>)
    <3>1. Piece(words, b, l, m) = IF m - 1 = b THEN c ELSE <<>>
      BY <2>1 DEF Piece
    <3>2. text[m] = text[m - 1] \o Piece(words, b, l, m)
      BY <1>2, <2>1, Zenon
    <3> QED BY <3>1, <3>2, Zenon
  <2>3. text[m - 1] \in Seq(Chars6)
    <3>1. m - 1 \in 0 .. 8
      BY <2>1
    <3> QED BY <1>2, <3>1, Zenon
  <2>4. text[m] = IF i = 1 THEN text[b] \o c ELSE text[b + (i - 1)]
    <3>1. text[m - 1] \o <<>> = text[m - 1]
      BY <2>3, ConcatEmptySeq
    <3>2. CASE i = 1
      BY <2>1, <2>2, <3>2
    <3>3. CASE i # 1
      BY <2>1, <2>2, <3>1, <3>3
    <3> QED BY <3>2, <3>3
  <2>5. i # 1 => text[b + (i - 1)] = text[b] \o c
    <3>1. i # 1 => i - 1 >= 1
      OBVIOUS
    <3>2. i - 1 >= 1 => text[b + (i - 1)] = text[b] \o c
      BY <1>4, Zenon
    <3> QED BY <3>1, <3>2, Zenon
  <2>6. text[m] = text[b] \o c
    BY <2>4, <2>5, Zenon
  <2>7. i \in 0 .. l
    OBVIOUS
  <2> QED BY <2>6, <2>7, Zenon
<1> HIDE DEF T
<1>5. l \in T
  <2>1. l \in Nat /\ l \in 0 .. l
    BY <1>1
  <2> QED BY <1>3, <1>4, <2>1, Counting
<1> QED BY <1>1, <1>5 DEF T

LEMMA Associative6 == \A x, y, u \in Seq(Chars6) : (x \o y) \o u = x \o (y \o u)
BY ConcatAssociative

LEMMA Twice == ASSUME NEW x PROVE <<x>> \o <<x>> = <<x, x>>
<1> DEFINE one == <<x>>
           two == <<x, x>>
           both == one \o one
           S == {x}
<1>1. one \in Seq(S) /\ Len(one) = 1 /\ one[1] = x
  OBVIOUS
<1>2. two \in Seq(S) /\ Len(two) = 2 /\ two[1] = x /\ two[2] = x
  OBVIOUS
<1> HIDE DEF one, two, S
<1>3. both \in Seq(S) /\ Len(both) = 2 /\ \A i \in 1 .. 2 : both[i] = x
  <2>1. /\ both \in Seq(S) /\ Len(both) = Len(one) + Len(one)
        /\ \A i \in 1 .. Len(one) + Len(one) :
             both[i] = IF i <= Len(one) THEN one[i] ELSE one[i - Len(one)]
    BY <1>1, ConcatProperties
  <2> QED BY <1>1, <2>1
<1> HIDE DEF both
<1>4. both = two
  BY <1>2, <1>3, SeqEqual
<1> QED BY <1>4 DEF both, one, two

\* The text is what it was after the k-th word, "::" and the n-th text of part.
GapThen(text, k, part, n) == text[8] = (text[k] \o <<":", ":">>) \o part[n]

\* A field more of the text after "::".
LEMMA OneFieldMore ==
    ASSUME NEW x \in Seq(Chars6), NEW y \in Seq(Chars6), NEW w \in Seq(Chars6)
    PROVE  /\ (x \o <<":">>) \o Colon(w) = (x \o <<":", ":">>) \o w
           /\ ((x \o <<":", ":">>) \o y) \o Colon(w) = (x \o <<":", ":">>) \o ((y \o <<":">>) \o w)
           /\ (x \o <<":">>) \o <<":">> = (x \o <<":", ":">>) \o <<>>
           /\ x \o <<":", ":">> \in Seq(Chars6)
<1> DEFINE c == <<":">>
           d == <<":", ":">>
           xd == x \o d
           yc == y \o c
<1>1. c \in Seq(Chars6) /\ d \in Seq(Chars6)
  <2>1. ":" \in Chars6
    BY ColonChar
  <2>2. <<":", ":">> \in Seq(Chars6)
    BY <2>1
  <2> QED BY <2>2, ColonChar
<1>2. c \o c = d
  BY Twice, Zenon
<1>3. Colon(w) = c \o w
  BY DEF Colon
<1> HIDE DEF c, d
<1>4. \A p, q, r \in Seq(Chars6) : (p \o q) \o r = p \o (q \o r)
  BY Associative6, Zenon
<1>5. xd \in Seq(Chars6) /\ yc \in Seq(Chars6) /\ c \o w \in Seq(Chars6)
  BY <1>1, ConcatProperties, Zenon
<1>6. (x \o c) \o (c \o w) = xd \o w
  <2>1. (x \o c) \o (c \o w) = x \o (c \o (c \o w))
    BY <1>1, <1>4, <1>5, Zenon
  <2>2. c \o (c \o w) = (c \o c) \o w
    BY <1>1, <1>4, Zenon
  <2>3. x \o (d \o w) = xd \o w
    BY <1>1, <1>4, Zenon
  <2> QED BY <1>2, <2>1, <2>2, <2>3, Zenon
<1>7. (xd \o y) \o (c \o w) = xd \o (yc \o w)
  <2>2. y \o (c \o w) = yc \o w
    BY <1>1, <1>4, Zenon
  <2> DEFINE cw == c \o w
  <2>3. cw \in Seq(Chars6)
    BY <1>5
  <2> HIDE DEF xd, cw
  <2>4. (xd \o y) \o cw = xd \o (y \o cw)
    <3>1. \A q, r \in Seq(Chars6) : (xd \o q) \o r = xd \o (q \o r)
      BY <1>4, <1>5, Zenon
    <3>2. \A r \in Seq(Chars6) : (xd \o y) \o r = xd \o (y \o r)
      BY <3>1, Zenon
    <3> QED BY <2>3, <3>2, Zenon
  <2>1. (xd \o y) \o (c \o w) = xd \o (y \o (c \o w))
    BY <2>4 DEF cw
  <2> QED BY <2>1, <2>2, Zenon
<1>8. (x \o c) \o c = xd \o <<>>
  <2>1. (x \o c) \o c = x \o (c \o c)
    BY <1>1, <1>4, Zenon
  <2>2. xd \o <<>> = xd
    BY <1>5, ConcatEmptySeq
  <2> QED BY <1>2, <2>1, <2>2, Zenon
<1> QED BY <1>3, <1>5, <1>6, <1>7, <1>8 DEF c, d

\* What is behind the run, if no IPv4 address ends the text.
LEMMA TextAfterRun ==
    ASSUME NEW words, NEW b, NEW l, RunShape(words, b, l), b # -1, ~Encapsulated(words, b, l),
           NEW text \in Pieced(words, b, l), b + l < 8,
           NEW part \in PartTexts(HexFields(words, b + l + 1, 8), Chars6, ":")
    PROVE  GapThen(text, b, part, 8 - (b + l))
<1> DEFINE e == b + l
           n == 8 - e
           fields == HexFields(words, e + 1, 8)
           x == text[b]
           xd == x \o <<":", ":">>
           T == {i \in 0 .. n : i >= 1 => text[e + i] = xd \o part[i]}
<1>1. words \in Words16 /\ b \in 0 .. 6 /\ l \in 2 .. 8
  BY DEF RunShape
<1>2. text \in [0 .. 8 -> Seq(Chars6)]
      /\ \A i \in 1 .. 8 : text[i] = text[i - 1] \o Piece(words, b, l, i)
  BY DEF Pieced
<1>3. text[e] = x \o <<":">>
  BY TextInRun
<1>4. e \in 2 .. 7 /\ n \in 1 .. 6 /\ x \in Seq(Chars6)
  <2>1. e \in 2 .. 7 /\ n \in 1 .. 6 /\ b \in 0 .. 8
    BY <1>1
  <2> QED BY <1>2, <2>1
<1> HIDE DEF e
<1>5. Len(fields) = n /\ \A k \in 1 .. n : fields[k] = Written(words[e + k], 16)
  <2>1. e + 1 \in 1 .. 9 /\ 8 \in 0 .. 8 /\ e + 1 <= 8 + 1 /\ 8 - (e + 1) + 1 = n
        /\ \A k \in 1 .. n : (e + 1) + k - 1 = e + k
    BY <1>4
  <2>2. Len(fields) = 8 - (e + 1) + 1
        /\ \A k \in 1 .. 8 - (e + 1) + 1 : fields[k] = Written(words[(e + 1) + k - 1], 16)
    BY <1>1, <2>1, HexFieldsAre
  <2> QED BY <2>1, <2>2
<1> HIDE DEF fields
<1>6. /\ part \in [0 .. n -> Seq(Chars6)]
      /\ part[1] = fields[1]
      /\ \A k \in 2 .. n : part[k] = (part[k - 1] \o <<":">>) \o fields[k]
  <2>1. part \in PartTexts(fields, Chars6, ":") /\ 1 <= n /\ n = Len(fields)
    BY <1>4, <1>5 DEF fields, e
  <2> HIDE DEF n
  <2>2. HasParts(part, fields, Chars6, ":", n)
    BY <2>1, PartTurns
  <2> QED BY <2>1, <2>2, Zenon DEF HasParts
<1>7. 0 \in T
  BY <1>4
<1>8. ASSUME NEW i \in 1 .. n, i - 1 \in T PROVE i \in T
  <2> DEFINE m == e + i
             w == Written(words[m], 16)
             y == part[i - 1]
  <2>1. m \in 1 .. 8 /\ m # 1 /\ m - 1 = e + (i - 1) /\ ~InRun(b, l, m)
    BY <1>1, <1>4 DEF InRun, e
  <2>2. w \in Seq(Chars6)
    BY <1>1, <2>1, WordOf, WordText
  <2>3. text[m] = text[e + (i - 1)] \o Colon(w)
    <3>1. Piece(words, b, l, m) = Colon(w)
      BY <2>1 DEF Piece
    <3>2. text[m] = text[m - 1] \o Piece(words, b, l, m)
      BY <1>2, <2>1
    <3> HIDE DEF m, w
    <3> QED BY <2>1, <3>1, <3>2
  <2>4. fields[i] = w
    BY <1>5
  <2> HIDE DEF w
  <2>5. ASSUME i = 1 PROVE text[m] = xd \o part[i]
    <3>1. text[m] = (x \o <<":">>) \o Colon(w)
      <4>1. e + (i - 1) = e
        BY <1>4, <2>5
      <4> QED BY <1>3, <2>3, <4>1, Zenon
    <3>2. text[m] = xd \o w
      <4> HIDE DEF x, m
      <4> QED BY <1>4, <2>2, <3>1, OneFieldMore
    <3>3. part[i] = w
      <4>1. part[1] = fields[1]
        BY <1>6, Zenon
      <4> QED BY <2>4, <2>5, <4>1
    <3> QED BY <3>2, <3>3, Zenon
  <2>6. ASSUME i # 1 PROVE text[m] = xd \o part[i]
    <3>1. text[m] = (xd \o y) \o Colon(w)
      <4>1. i - 1 >= 1
        BY <2>6
      <4>2. i - 1 >= 1 => text[e + (i - 1)] = xd \o y
        BY <1>8, Zenon
      <4>3. text[e + (i - 1)] = xd \o y
        BY <4>1, <4>2, Zenon
      <4> QED BY <2>3, <4>3, Zenon
    <3>2. part[i] = (y \o <<":">>) \o w
      <4>1. i \in 2 .. n
        BY <2>6
      <4> QED BY <1>6, <2>4, <4>1
    <3>3. y \in Seq(Chars6)
      <4>1. i - 1 \in 0 .. n
        BY <1>4
      <4> QED BY <1>6, <4>1, Zenon
    <3>4. text[m] = xd \o ((y \o <<":">>) \o w)
      <4> HIDE DEF x, y, m
      <4>1. (xd \o y) \o Colon(w) = xd \o ((y \o <<":">>) \o w)
        BY <1>4, <2>2, <3>3, OneFieldMore, Zenon
      <4> QED BY <3>1, <4>1, Zenon
    <3> HIDE DEF xd, y, m
    <3> QED BY <3>2, <3>4, Zenon
  <2>7. text[m] = xd \o part[i]
    BY <2>5, <2>6, Zenon
  <2>8. i \in 0 .. n
    OBVIOUS
  <2> QED BY <2>7, <2>8, Zenon
<1> HIDE DEF T
<1>9. n \in T
  <2>1. n \in Nat /\ n \in 0 .. n
    BY <1>4
  <2> HIDE DEF n
  <2> QED BY <1>7, <1>8, <2>1, Counting
<1>10. text[e + n] = xd \o part[n]
  <2>1. n >= 1
    BY <1>4
  <2> HIDE DEF n
  <2> QED BY <1>9, <2>1 DEF T
<1>11. e + n = 8
  BY <1>4
<1>12. text[8] = (text[b] \o <<":", ":">>) \o part[8 - (b + l)]
  BY <1>10, <1>11 DEF e
<1> QED BY <1>12, Zenon DEF GapThen

\* The fields that end an encapsulated IPv4 address.
LEMMA QuadFields ==
    ASSUME NEW words \in Words16, NEW l \in {5, 6}
    PROVE  LET fields == LastFields(words, l + 1, TRUE)
           IN  /\ fields \in Seq(Seq(Chars6)) /\ Len(fields) = 7 - l
               /\ fields[7 - l] = QuadText(Octets(words))
               /\ l = 5 => fields[1] = Written(words[6], 16)
<1> DEFINE hexes == HexFields(words, l + 1, 6)
           quad == QuadText(Octets(words))
<1>1. LastFields(words, l + 1, TRUE) = Append(hexes, quad)
  BY QuadFieldIs DEF LastFields
<1>2. hexes \in Seq(Seq(Chars6)) /\ Len(hexes) = 6 - l /\ (l = 5 => hexes[1] = Written(words[6], 16))
  <2>1. l + 1 \in 1 .. 9 /\ 6 \in 0 .. 8 /\ l + 1 <= 6 + 1 /\ 6 - (l + 1) + 1 = 6 - l
        /\ (l = 5 => 1 \in 1 .. 6 - (l + 1) + 1 /\ (l + 1) + 1 - 1 = 6)
    OBVIOUS
  <2>2. /\ hexes \in Seq(Seq(Chars6)) /\ Len(hexes) = 6 - (l + 1) + 1
        /\ \A k \in 1 .. 6 - (l + 1) + 1 : hexes[k] = Written(words[(l + 1) + k - 1], 16)
    BY <2>1, HexFieldsAre
  <2> HIDE DEF hexes
  <2> QED BY <2>1, <2>2
<1>3. quad \in Seq(Chars6)
  BY QuadText6
<1> HIDE DEF hexes, quad
<1> DEFINE fields == Append(hexes, quad)
<1>4. /\ fields \in Seq(Seq(Chars6)) /\ Len(fields) = Len(hexes) + 1
      /\ fields[Len(hexes) + 1] = quad
      /\ \A k \in 1 .. Len(hexes) : fields[k] = hexes[k]
  BY <1>2, <1>3, AppendProperties
<1>5. (6 - l) + 1 = 7 - l /\ (l = 5 => 1 \in 1 .. 6 - l)
  OBVIOUS
<1> HIDE DEF fields
<1> QED BY <1>1, <1>2, <1>4, <1>5 DEF fields, quad

\* What is behind the run, if an IPv4 address ends the text.
LEMMA TextBeforeQuad ==
    ASSUME NEW words, NEW b, NEW l, RunShape(words, b, l), Encapsulated(words, b, l),
           NEW text \in Pieced(words, b, l),
           NEW part \in PartTexts(LastFields(words, l + 1, TRUE), Chars6, ":")
    PROVE  GapThen(text, 0, part, 7 - l)
<1> DEFINE fields == LastFields(words, l + 1, TRUE)
           x == text[0]
           xd == x \o <<":", ":">>
           quad == QuadText(Octets(words))
           w == Written(words[6], 16)
<1> SUFFICES text[8] = (text[0] \o <<":", ":">>) \o part[7 - l]
  BY Zenon DEF GapThen
<1>1. words \in Words16 /\ b = 0 /\ l \in {5, 6} /\ b # -1
  BY DEF RunShape, Encapsulated
<1>2. text \in [0 .. 8 -> Seq(Chars6)]
      /\ \A i \in 1 .. 8 : text[i] = text[i - 1] \o Piece(words, b, l, i)
  BY DEF Pieced
<1>3. Len(fields) = 7 - l /\ fields[7 - l] = quad /\ (l = 5 => fields[1] = w)
  BY <1>1, QuadFields
<1> HIDE DEF fields
<1>4. quad \in Seq(Chars6) /\ w \in Seq(Chars6) /\ x \in Seq(Chars6)
  <2>1. quad \in Seq(Chars6)
    BY <1>1, QuadText6
  <2>2. w \in Seq(Chars6)
    BY <1>1, WordOf, WordText
  <2> QED BY <1>2, <2>1, <2>2
<1>5. text[l] = x \o <<":">>
  <2>1. text[b + l] = text[b] \o <<":">>
    BY <1>1, TextInRun
  <2>2. b + l = l
    BY <1>1
  <2> QED BY <1>1, <2>1, <2>2
<1>6. text[7] = text[6] \o Colon(quad)
  <2>1. ~InRun(b, l, 7)
    BY <1>1 DEF InRun
  <2>2. Piece(words, b, l, 7) = Colon(quad)
    BY <2>1 DEF Piece
  <2>3. 7 \in 1 .. 8 /\ 7 - 1 = 6
    OBVIOUS
  <2> HIDE DEF quad
  <2> QED BY <1>2, <2>2, <2>3
<1>7. text[8] = text[7]
  <2>1. ~InRun(b, l, 8)
    BY <1>1 DEF InRun
  <2>2. Piece(words, b, l, 8) = <<>>
    BY <2>1 DEF Piece
  <2>3. 8 \in 1 .. 8 /\ 8 - 1 = 7 /\ text[7] \in Seq(Chars6)
    BY <1>2
  <2>4. text[7] \o <<>> = text[7]
    BY <2>3, ConcatEmptySeq
  <2>5. text[8] = text[7] \o Piece(words, b, l, 8)
    BY <1>2, <2>3
  <2> QED BY <2>2, <2>4, <2>5
<1>8. part \in PartTexts(fields, Chars6, ":")
  BY DEF fields
<1>9. CASE l = 6
  <2>1. part[1] = quad
    <3>1. Len(fields) = 1 /\ fields[1] = quad
      BY <1>3, <1>9
    <3> HIDE DEF quad
    <3>2. 1 <= 1 => part[1] = fields[1]
      <4>1. HasParts(part, fields, Chars6, ":", 1)
        BY <1>8, <3>1, PartTurns
      <4> QED BY <4>1, Zenon DEF HasParts
    <3> QED BY <3>1, <3>2
  <2>2. text[8] = (x \o <<":">>) \o Colon(quad)
    BY <1>5, <1>6, <1>7, <1>9
  <2> HIDE DEF quad, x
  <2>3. text[8] = xd \o quad
    BY <1>4, <2>2, OneFieldMore
  <2>4. 7 - l = 1
    BY <1>9
  <2> HIDE DEF xd
  <2> QED BY <2>1, <2>3, <2>4 DEF xd, x
<1>10. CASE l = 5
  <2>1. part[1] = w /\ part[2] = (w \o <<":">>) \o quad
    <3>1. Len(fields) = 2 /\ fields[1] = w /\ fields[2] = quad
      BY <1>3, <1>10
    <3> HIDE DEF quad, w
    <3>2. /\ 1 <= 2 => part[1] = fields[1]
          /\ \A k \in 2 .. 2 : part[k] = (part[k - 1] \o <<":">>) \o fields[k]
      <4>1. HasParts(part, fields, Chars6, ":", 2)
        BY <1>8, <3>1, PartTurns
      <4> QED BY <4>1, Zenon DEF HasParts
    <3>3. 2 \in 2 .. 2 /\ 2 - 1 = 1 /\ 1 <= 2
      OBVIOUS
    <3>4. part[2] = (part[2 - 1] \o <<":">>) \o fields[2]
      BY <3>2, <3>3, Zenon
    <3> QED BY <3>1, <3>2, <3>3, <3>4
  <2>2. text[6] = text[5] \o Colon(w)
    <3>1. ~InRun(b, l, 6)
      BY <1>1, <1>10 DEF InRun
    <3>2. Piece(words, b, l, 6) = Colon(w)
      BY <3>1 DEF Piece
    <3>3. 6 \in 1 .. 8 /\ 6 - 1 = 5
      OBVIOUS
    <3> HIDE DEF w
    <3> QED BY <1>2, <3>2, <3>3
  <2> HIDE DEF quad, w, x
  <2>3. text[6] = xd \o w
    <3>1. text[6] = (x \o <<":">>) \o Colon(w)
      BY <1>5, <1>10, <2>2
    <3> QED BY <1>4, <3>1, OneFieldMore
  <2>4. text[8] = xd \o ((w \o <<":">>) \o quad)
    <3>1. text[8] = (xd \o w) \o Colon(quad)
      BY <1>6, <1>7, <2>3, Zenon
    <3> QED BY <1>4, <3>1, OneFieldMore
  <2>5. 7 - l = 2
    BY <1>10
  <2> HIDE DEF xd
  <2> QED BY <2>1, <2>4, <2>5 DEF xd, x
<1> QED BY <1>1, <1>9, <1>10

\* The run BestRun finds is the only first one of the longest.
LEMMA BestIsFirst ==
    ASSUME NEW words \in Words16, NEW b, NEW l, b = BestRun(words).base, l = BestRun(words).len
    PROVE  LET runs == RunsOfZeros(words)
           IN  /\ b = -1 => runs = {}
               /\ b # -1 => /\ runs # {}
                            /\ <<b, l>> = CHOOSE r \in runs : FirstLongest(r, runs)
<1> DEFINE best == BestRun(words)
           runs == RunsOfZeros(words)
           best2 == <<b, l>>
<1>1. /\ best \in Run
      /\ best = NoRun \/ (Zeroed(words, best, 8) /\ best.len >= 2)
      /\ \A x \in 0 .. 7, y \in 2 .. 8 :
           x + y <= 8 /\ AllZero(words, x, y) => Beats(best, x, y)
  BY BestRunBeats
<1> HIDE DEF best
<1>2. b = best.base /\ l = best.len
  BY DEF best
<1>3. \A q \in runs : /\ q = <<q[1], q[2]>> /\ q[1] \in 0 .. 7 /\ q[2] \in 2 .. 8
                      /\ l > q[2] \/ (l = q[2] /\ b <= q[1])
  <2> TAKE q \in runs
  <2>1. q = <<q[1], q[2]>> /\ q[1] \in 0 .. 7 /\ q[2] \in 2 .. 8 /\ q[1] + q[2] <= 8
        /\ AllZero(words, q[1], q[2])
    BY DEF RunsOfZeros, AllZero
  <2>2. Beats(best, q[1], q[2])
    BY <1>1, <2>1
  <2> QED BY <1>2, <2>1, <2>2 DEF Beats
<1>4. b = -1 => runs = {}
  <2> SUFFICES ASSUME b = -1, NEW q \in runs PROVE FALSE
    OBVIOUS
  <2>1. best = NoRun
    BY <1>1, <1>2 DEF Zeroed
  <2>2. l = 0
    BY <1>2, <2>1 DEF NoRun
  <2> QED BY <1>3, <2>2
<1>5. ASSUME b # -1
      PROVE  best2 \in runs /\ FirstLongest(best2, runs)
             /\ \A r \in runs : FirstLongest(r, runs) => r = best2
  <2>1. best # NoRun
    BY <1>2, <1>5 DEF NoRun
  <2>2. b \in 0 .. 7 /\ l \in 2 .. 8 /\ b + l <= 8 /\ AllZero(words, b, l)
    BY <1>1, <1>2, <2>1 DEF Run, Zeroed
  <2>3. best2 \in runs
    BY <2>2 DEF RunsOfZeros, AllZero
  <2>4. best2[1] = b /\ best2[2] = l
    OBVIOUS
  <2>5. FirstLongest(best2, runs)
    BY <1>3, <2>2, <2>4 DEF FirstLongest
  <2>6. ASSUME NEW r \in runs, FirstLongest(r, runs) PROVE r = best2
    <3>1. l < r[2] \/ (l = r[2] /\ r[1] <= b)
      BY <2>3, <2>4, <2>6 DEF FirstLongest
    <3>2. r = <<r[1], r[2]>> /\ r[1] \in 0 .. 7 /\ r[2] \in 2 .. 8
          /\ (l > r[2] \/ (l = r[2] /\ b <= r[1]))
      BY <1>3
    <3>3. r[1] = b /\ r[2] = l
      BY <2>2, <3>1, <3>2
    <3> QED BY <3>2, <3>3
  <2> QED BY <2>3, <2>5, <2>6
<1> HIDE DEF runs, best2
<1>6. b # -1 => runs # {} /\ best2 = CHOOSE r \in runs : FirstLongest(r, runs)
  <2> SUFFICES ASSUME b # -1 PROVE runs # {} /\ best2 = CHOOSE r \in runs : FirstLongest(r, runs)
    OBVIOUS
  <2> DEFINE P(r) == FirstLongest(r, runs)
             chosen == CHOOSE r \in runs : P(r)
  <2>1. best2 \in runs /\ P(best2) /\ \A r \in runs : P(r) => r = best2
    BY <1>5
  <2> HIDE DEF P
  <2>2. chosen \in runs /\ P(chosen)
    BY <2>1
  <2>3. chosen = best2
    BY <2>1, <2>2
  <2> QED BY <2>1, <2>3 DEF P
<1> QED BY <1>4, <1>6 DEF runs, best2

LEMMA TextIsTextOf6 ==
    ASSUME NEW words \in Words16, NEW b, NEW l, b = BestRun(words).base, l = BestRun(words).len,
           NEW text \in Pieced(words, b, l)
    PROVE  text[8] \o EndColon(b, l) = TextOf6(words)
<1>1. RunShape(words, b, l)
  BY RunOfWords
<1>2. \/ b = -1 /\ l = 0
      \/ b \in 0 .. 6 /\ l \in 2 .. 8 /\ b + l <= 8
  BY <1>1 DEF RunShape
<1>3. /\ b = -1 => RunsOfZeros(words) = {}
      /\ b # -1 => /\ RunsOfZeros(words) # {}
                   /\ <<b, l>> = CHOOSE r \in RunsOfZeros(words) :
                                   FirstLongest(r, RunsOfZeros(words))
  BY BestIsFirst
<1>4. text \in [0 .. 8 -> Seq(Chars6)] /\ text[0] = <<>>
  BY DEF Pieced
<1>5. ":" \in Chars6
  BY ColonChar
<1>6. CASE b = -1
  <2> DEFINE fields == HexFields(words, 1, 8)
  <2>1. fields \in Seq(Seq(Chars6)) /\ Len(fields) = 8
    <3>1. 1 \in 1 .. 9 /\ 8 \in 0 .. 8 /\ 1 <= 8 + 1 /\ 8 - 1 + 1 = 8
      OBVIOUS
    <3>2. fields \in Seq(Seq(Chars6)) /\ Len(fields) = 8 - 1 + 1
      BY <3>1, HexFieldsAre
    <3> QED BY <3>1, <3>2
  <2>2. PICK part \in PartTexts(fields, Chars6, ":") : Joined(fields, ":") = part[8]
    <3> HIDE DEF fields
    <3> QED BY <1>5, <2>1, PartsJoined
  <2>3. text[8] = part[8]
    <3>1. 8 \in 0 .. 8
      OBVIOUS
    <3> QED BY <1>1, <1>6, <3>1, TextBeforeRun
  <2>4. EndColon(b, l) = <<>> /\ text[8] \in Seq(Chars6)
    BY <1>2, <1>4, <1>6 DEF EndColon
  <2>5. text[8] \o <<>> = text[8]
    BY <2>4, ConcatEmptySeq
  <2>6. TextOf6(words) = Joined(fields, ":")
    BY <1>3, <1>6 DEF TextOf6
  <2> QED BY <2>2, <2>3, <2>4, <2>5, <2>6, Zenon
<1>7. CASE b # -1
  <2> DEFINE quad == Encapsulated(words, b, l)
             first == HexFields(words, 1, b)
             last == LastFields(words, b + l + 1, quad)
             dots == <<":", ":">>
  <2>1. b \in 0 .. 6 /\ l \in 2 .. 8 /\ b + l <= 8
    BY <1>2, <1>7
  <2>2. TextOf6(words) = (Joined(first, ":") \o dots) \o Joined(last, ":")
    <3> DEFINE r == <<b, l>>
               Q == r = <<0, 6>> \/ (r = <<0, 5>> /\ words[6] = MaxWord)
    <3>1. TextOf6(words) = WithoutRun(words, r)
      BY <1>3, <1>7 DEF TextOf6
    <3>2. r[1] = b /\ r[2] = l
      OBVIOUS
    <3>3. Q = quad
      BY <2>1 DEF Encapsulated
    <3>4. WithoutRun(words, r) =
            (Joined(HexFields(words, 1, r[1]), ":") \o dots)
              \o Joined(LastFields(words, r[1] + r[2] + 1, Q), ":")
      BY DEF WithoutRun
    <3> HIDE DEF r, Q, quad
    <3> QED BY <3>1, <3>2, <3>3, <3>4
  <2>3. first \in Seq(Seq(Chars6)) /\ Len(first) = b
    <3>1. 1 \in 1 .. 9 /\ b \in 0 .. 8 /\ 1 <= b + 1 /\ b - 1 + 1 = b
      BY <2>1
    <3>2. first \in Seq(Seq(Chars6)) /\ Len(first) = b - 1 + 1
      BY <3>1, HexFieldsAre
    <3> QED BY <3>1, <3>2
  <2>4. PICK left \in PartTexts(first, Chars6, ":") : Joined(first, ":") = left[b]
    <3> HIDE DEF first
    <3> QED BY <1>5, <2>3, PartsJoined
  <2>5. left[b] = text[b]
    <3>1. b \in 0 .. 8 /\ b \in 0 .. b
      BY <2>1
    <3> QED BY <1>1, <3>1, TextBeforeRun
  <2>6. text[8] \in Seq(Chars6) /\ text[b] \in Seq(Chars6)
    <3>1. 8 \in 0 .. 8 /\ b \in 0 .. 8
      BY <2>1
    <3> QED BY <1>4, <3>1, Zenon
  <2>7. text[8] \o <<>> = text[8]
    BY <2>6, ConcatEmptySeq
  <2>8. CASE quad
    <3>1. b = 0 /\ l \in {5, 6}
      BY <2>8 DEF Encapsulated
    <3>2. last = LastFields(words, l + 1, TRUE)
      <4>1. b + l + 1 = l + 1
        BY <3>1
      <4>2. quad = TRUE
        BY <2>8 DEF Encapsulated
      <4> HIDE DEF quad
      <4> QED BY <4>1, <4>2
    <3>3. last \in Seq(Seq(Chars6)) /\ Len(last) = 7 - l
      <4> HIDE DEF last
      <4> QED BY <3>1, <3>2, QuadFields
    <3>4. PICK right \in PartTexts(last, Chars6, ":") : Joined(last, ":") = right[7 - l]
      <4> HIDE DEF last
      <4> QED BY <1>5, <3>3, PartsJoined
    <3>5. text[8] = (text[0] \o dots) \o right[7 - l]
      <4>1. right \in PartTexts(LastFields(words, l + 1, TRUE), Chars6, ":")
        <5> HIDE DEF last
        <5> QED BY <3>2, <3>4, Zenon
      <4>2. Encapsulated(words, b, l)
        BY <2>8
      <4> HIDE DEF quad, last
      <4>3. GapThen(text, 0, right, 7 - l)
        BY <1>1, <4>1, <4>2, TextBeforeQuad
      <4> QED BY <4>3, Zenon DEF GapThen
    <3>6. EndColon(b, l) = <<>>
      BY <3>1 DEF EndColon
    <3> HIDE DEF first, last, dots, quad
    <3> QED BY <2>2, <2>4, <2>5, <2>7, <3>1, <3>4, <3>5, <3>6
  <2>9. CASE ~quad
    <3> DEFINE rest == HexFields(words, b + l + 1, 8)
    <3>1. last = rest
      BY <2>9 DEF LastFields
    <3>2. rest \in Seq(Seq(Chars6)) /\ Len(rest) = 8 - (b + l)
      <4> DEFINE e == b + l
      <4>1. e + 1 \in 1 .. 9 /\ 8 \in 0 .. 8 /\ e + 1 <= 8 + 1 /\ 8 - (e + 1) + 1 = 8 - e
        BY <2>1
      <4> HIDE DEF e
      <4>2. HexFields(words, e + 1, 8) \in Seq(Seq(Chars6))
            /\ Len(HexFields(words, e + 1, 8)) = 8 - (e + 1) + 1
        BY <4>1, HexFieldsAre
      <4> QED BY <4>1, <4>2 DEF e
    <3> HIDE DEF rest, last
    <3>3. PICK right \in PartTexts(rest, Chars6, ":") : Joined(rest, ":") = right[8 - (b + l)]
      BY <1>5, <3>2, PartsJoined
    <3>4. CASE b + l < 8
      <4>1. text[8] = (text[b] \o dots) \o right[8 - (b + l)]
        <5>1. right \in PartTexts(HexFields(words, b + l + 1, 8), Chars6, ":")
          BY <3>3 DEF rest
        <5>2. ~Encapsulated(words, b, l) /\ b # -1
          BY <1>7, <2>9
        <5> HIDE DEF quad
        <5>3. GapThen(text, b, right, 8 - (b + l))
          BY <1>1, <3>4, <5>1, <5>2, TextAfterRun
        <5> QED BY <5>3, Zenon DEF GapThen
      <4>2. EndColon(b, l) = <<>>
        BY <2>1, <3>4 DEF EndColon
      <4> HIDE DEF first, dots, quad
      <4> QED BY <2>2, <2>4, <2>5, <2>7, <3>1, <3>3, <4>1, <4>2
    <3>5. CASE b + l = 8
      <4>1. text[8] = text[b] \o <<":">>
        BY <1>1, <1>7, <3>5, TextInRun
      <4>2. EndColon(b, l) = <<":">>
        BY <3>5 DEF EndColon
      <4>3. right[8 - (b + l)] = <<>>
        <5>1. 8 - (b + l) = 0
          BY <3>5
        <5> QED BY <5>1 DEF PartTexts
      <4>4. text[8] \o <<":">> = (text[b] \o dots) \o <<>>
        <5> DEFINE x == text[b]
        <5>1. x \in Seq(Chars6)
          BY <2>6
        <5> HIDE DEF x
        <5>2. (x \o <<":">>) \o <<":">> = (x \o dots) \o <<>>
          BY <5>1, OneFieldMore
        <5> QED BY <4>1, <5>2 DEF x
      <4> HIDE DEF first, dots, quad
      <4> QED BY <2>2, <2>4, <2>5, <3>1, <3>3, <4>2, <4>3, <4>4, Zenon
    <3>6. b + l < 8 \/ b + l = 8
      BY <2>1
    <3> QED BY <3>4, <3>5, <3>6, Zenon
  <2> QED BY <2>8, <2>9
<1> QED BY <1>6, <1>7

-----------------------------------------------------------------------------
(* What is written, and that it reads back *)

\* The text of an address: what is written whatever the memory, and what it
\* reads back as.
LEMMA AddressText ==
    ASSUME NEW words \in Words16
    PROVE  \E src \in Seq(Chars6) :
             /\ Len(src) < 46
             /\ inet_pton6(src) = words
             /\ src = TextOf6(words)
             /\ \A fill, size :
                  fill = NUL \/ ~Encapsulated(words, BestRun(words).base, BestRun(words).len)
                  => inet_ntop6(words, size, fill) = Stored6(src, size)
<1> DEFINE b == BestRun(words).base
           l == BestRun(words).len
<1>1. RunShape(words, b, l)
  BY RunOfWords
<1>2. ASSUME NEW fill, fill = NUL \/ ~Encapsulated(words, b, l)
      PROVE  \E text \in Pieced(words, b, l) :
               /\ Len(text[8]) <= 40
               /\ \A size : inet_ntop6(words, size, fill) = Stored6(text[8] \o EndColon(b, l), size)
  BY <1>2, TextOfWords
<1>3. PICK text \in Pieced(words, b, l) :
        /\ Len(text[8]) <= 40
        /\ \A size : inet_ntop6(words, size, NUL) = Stored6(text[8] \o EndColon(b, l), size)
  BY <1>2
<1> HIDE DEF b, l
<1> DEFINE src == text[8] \o EndColon(b, l)
           p == [i \in 0 .. 8 |-> Len(text[i])]
<1>4. src \in Seq(Chars6) /\ Laid(src, words, b, l, p)
  BY <1>1, PiecesHold
<1>5. Len(src) < 46
  <2> DEFINE x == text[8]
             e == EndColon(b, l)
  <2>1. x \in Seq(Chars6)
    BY DEF Pieced
  <2>2. e \in Seq(Chars6) /\ (Len(e) = 1 \/ Len(e) = 0)
    BY EndColonShape
  <2>3. Len(x) <= 40
    BY <1>3
  <2> HIDE DEF x, e
  <2>4. Len(x \o e) = Len(x) + Len(e) /\ Len(x) \in Nat
    BY <2>1, <2>2, ConcatProperties
  <2> DEFINE n == Len(x \o e)
  <2> DEFINE k == Len(x)
             m == Len(e)
  <2>5. n = k + m /\ k \in Nat /\ k <= 40 /\ (m = 1 \/ m = 0)
    BY <2>2, <2>3, <2>4
  <2> HIDE DEF n, k, m
  <2>6. n < 46
    BY <2>5
  <2> QED BY <2>6 DEF n, x, e
<1> DEFINE written == src = TextOf6(words)
<1>8. written
  BY TextIsTextOf6 DEF b, l
<1> HIDE DEF src, p
<1>6. inet_pton6(src) = words
  BY <1>1, <1>4, ReadAddress
<1>7. ASSUME NEW fill, NEW size, fill = NUL \/ ~Encapsulated(words, b, l)
      PROVE  inet_ntop6(words, size, fill) = Stored6(src, size)
  <2>1. PICK other \in Pieced(words, b, l) :
          inet_ntop6(words, size, fill) = Stored6(other[8] \o EndColon(b, l), size)
    BY <1>2, <1>7
  <2>2. other[8] = text[8]
    BY SameText
  <2> QED BY <2>1, <2>2, Zenon DEF src
<1> QED BY <1>4, <1>5, <1>6, <1>7, <1>8 DEF b, l

LEMMA Ntop6Reads ==
    ASSUME NEW words \in Words16, NEW size \in Nat, NEW fill,
           fill = NUL \/ \E i \in 1 .. 5 : words[i] # 0
    PROVE  LET out == inet_ntop6(words, size, fill)
               whole == CString(inet_ntop6(words, 46, NUL))
           IN  /\ IF Len(whole) < size THEN out # Invalid /\ inet_pton6(CString(out)) = words
                                       ELSE out = Invalid
               /\ out # Invalid => CString(out) = TextOf6(words)
<1> DEFINE b == BestRun(words).base
           l == BestRun(words).len
<1>1. fill = NUL \/ ~Encapsulated(words, b, l)
  <2> SUFFICES ASSUME Encapsulated(words, b, l), \E i \in 1 .. 5 : words[i] # 0 PROVE FALSE
    OBVIOUS
  <2>1. RunShape(words, b, l)
    BY RunOfWords
  <2> HIDE DEF b, l
  <2>2. b = 0 /\ (l = 6 \/ l = 5)
    BY DEF Encapsulated
  <2>3. AllZero(words, b, l)
    BY <2>1, <2>2 DEF RunShape
  <2>4. \A i \in 1 .. 5 : i \in b + 1 .. b + l
    BY <2>2
  <2> QED BY <2>3, <2>4 DEF AllZero
<1>2. PICK src \in Seq(Chars6) :
        /\ Len(src) < 46
        /\ inet_pton6(src) = words /\ src = TextOf6(words)
        /\ \A f, n : f = NUL \/ ~Encapsulated(words, b, l) => inet_ntop6(words, n, f) = Stored6(src, n)
  BY AddressText
<1> HIDE DEF b, l
<1>3. Len(src) \in Nat
  OBVIOUS
<1> DEFINE cells == Cells(src, 46, NUL)
<1>4. CString(cells) = src
  BY <1>2, NoNulInChars6, CopiedText
<1>5. cells # Invalid
  <2>1. DOMAIN cells = 1 .. 46 /\ 1 \in 1 .. 46
    BY DEF Cells
  <2>2. DOMAIN Invalid = {}
    BY DEF Invalid
  <2> QED BY <2>1, <2>2
<1>6. \A n : Stored6(src, n) = IF Len(src) + 1 > n THEN Invalid ELSE cells
  BY DEF Stored6
<1> HIDE DEF cells
<1>7. inet_ntop6(words, 46, NUL) = cells
  <2>1. ~(Len(src) + 1 > 46)
    BY <1>2, <1>3
  <2>2. inet_ntop6(words, 46, NUL) = Stored6(src, 46)
    BY <1>2
  <2> QED BY <1>6, <2>1, <2>2
<1>8. inet_ntop6(words, size, fill) = IF Len(src) + 1 > size THEN Invalid ELSE cells
  <2>1. inet_ntop6(words, size, fill) = Stored6(src, size)
    BY <1>1, <1>2, Zenon
  <2> QED BY <1>6, <2>1, Zenon
<1>9. Len(src) + 1 > size <=> ~(Len(src) < size)
  BY <1>3
<1> QED BY <1>2, <1>4, <1>5, <1>7, <1>8, <1>9, Zenon

Asked6 == input.op = "inet_ntop6" => input.address \in Words /\ input.size \in Sizes

Answered6 ==
    Returned("inet_ntop6") =>
        output[1] = inet_ntop6(input.address, input.size, input.fill)

LEMMA Ntop6Answers == Spec => [](Asked6 /\ Answered6)
<1> DEFINE Inv == Asked6 /\ Answered6
<1>1. Init => Inv
  BY DEF Init, Between, Returned, Asked6, Answered6
<1>2. Inv /\ [Next]_vars => Inv'
  <2> SUFFICES ASSUME Inv, [Next]_vars PROVE Inv'
    OBVIOUS
  <2> USE DEF Asked6, Answered6
  <2>1. CASE Call
    BY <2>1 DEF Call, Inputs, Returned
  <2>2. CASE Return
    BY <2>2 DEF Return, Between, Returned
  <2>3. CASE Ntop6
    BY <2>3 DEF Ntop6, Convert, Returned
  <2>4. CASE Pton4 \/ Pton6 \/ Ntop4 \/ Others
    BY <2>4 DEF Pton4, Pton6, Ntop4, Others,
            Scan, ScanNoReturn, PtonOther, NtopOther, Convert, Returned
  <2>5. CASE UNCHANGED vars
    BY <2>5 DEF vars, Returned
  <2> QED BY <2>1, <2>2, <2>3, <2>4, <2>5 DEF Next, Others
<1> QED BY <1>1, <1>2, PTL DEF Spec

LEMMA AskedIsAddress ==
    ASSUME Asked6, Returned("inet_ntop6")
    PROVE  input.address \in Words16 /\ input.size \in Nat
<1>1. input.address \in Words /\ input.size \in Sizes
  BY DEF Asked6, Returned
<1> QED BY <1>1, WordsAreWords16, SizesAssumption

\* The same of inet_ntop6 and inet_pton6, for all 2^128 addresses, every size of
\* the buffer and every place of "::": the IPv4 part that ends the address of an
\* encapsulated one is copied without a NUL, so its memory has to be zeroed, and
\* that of any other address need not be.
THEOREM Addresses6ReadBack == Spec => []Ntop6ReadsBack
<1>1. Asked6 /\ Answered6 => Ntop6ReadsBack
  <2> DEFINE words == input.address
             size == input.size
             fill == input.fill
  <2> SUFFICES ASSUME Asked6, Answered6, Returned("inet_ntop6"),
                      fill = NUL \/ \E i \in 1 .. 5 : words[i] # 0
               PROVE  ReadsBack(inet_pton6(CString(output[1])),
                                CString(inet_ntop6(words, 46, NUL)))
    BY Zenon DEF Ntop6ReadsBack
  <2>1. words \in Words16 /\ size \in Nat
    BY AskedIsAddress
  <2>2. output[1] = inet_ntop6(words, size, fill)
    BY Zenon DEF Answered6
  <2>3. ASSUME NEW w, NEW n, NEW f, w \in Words16, n \in Nat, f = NUL \/ \E i \in 1 .. 5 : w[i] # 0
        PROVE  IF Len(CString(inet_ntop6(w, 46, NUL))) < n
                 THEN /\ inet_ntop6(w, n, f) # Invalid
                      /\ inet_pton6(CString(inet_ntop6(w, n, f))) = w
                 ELSE inet_ntop6(w, n, f) = Invalid
    BY <2>3, Ntop6Reads
  <2> QED BY <2>1, <2>2, <2>3, Zenon DEF ReadsBack
<1> QED BY <1>1, Ntop6Answers, PTL

\* The text inet_ntop6 writes, for all 2^128 addresses and every size of the
\* buffer it fits: "::" is where the first of the longest runs of zeros was and
\* the words around it are all there, in their order and without leading zeros.
THEOREM LongestRunWritten == Spec => []LongestRunLeftOut
<1>1. Asked6 /\ Answered6 => LongestRunLeftOut
  <2> DEFINE words == input.address
             size == input.size
             fill == input.fill
  <2> SUFFICES ASSUME Asked6, Answered6, Returned("inet_ntop6"), output[1] # Invalid,
                      fill = NUL \/ \E i \in 1 .. 5 : words[i] # 0
               PROVE  CString(output[1]) = TextOf6(words)
    BY Zenon DEF LongestRunLeftOut
  <2>1. words \in Words16 /\ size \in Nat
    BY AskedIsAddress
  <2>2. output[1] = inet_ntop6(words, size, fill)
    BY Zenon DEF Answered6
  <2>3. ASSUME NEW w, NEW n, NEW f, w \in Words16, n \in Nat, f = NUL \/ \E i \in 1 .. 5 : w[i] # 0,
               inet_ntop6(w, n, f) # Invalid
        PROVE  CString(inet_ntop6(w, n, f)) = TextOf6(w)
    BY <2>3, Ntop6Reads
  <2> QED BY <2>1, <2>2, <2>3, Zenon
<1> QED BY <1>1, Ntop6Answers, PTL

=============================================================================

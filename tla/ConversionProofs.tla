-------------------------- MODULE ConversionProofs ---------------------------
(***************************************************************************)
(* Theorems about the conversions: the zeros an IPv6 text leaves out, what *)
(* inet_pton stores, IPv4 addresses and their texts in both directions,    *)
(* and vsscanf, which reads back the numbers that were written.            *)
(***************************************************************************)
EXTENDS Conversions, FiniteSetTheorems, SequenceTheorems, WellFoundedInduction, TLAPS

\* The conversions that read or write no address.
Others == Scan \/ ScanNoReturn \/ PtonOther \/ NtopOther

-----------------------------------------------------------------------------
(* Loops: a recursive function over 0 .. n exists, and induction over it *)

LEMMA Counting ==
    ASSUME NEW n \in Nat, NEW T, 0 \in T, \A i \in 1 .. n : i - 1 \in T => i \in T
    PROVE  \A i \in 0 .. n : i \in T
<1> DEFINE R == OpToRel(<, Nat)
           U == {i \in 0 .. n : i \notin T}
<1>1. IsWellFoundedOn(R, Nat)
  BY Zenon, NatLessThanWellFounded
<1>2. \A x, y \in Nat : <<x, y>> \in R <=> x < y
  BY DEF OpToRel
<1> SUFFICES ASSUME U # {} PROVE FALSE
  OBVIOUS
<1> HIDE DEF R
<1>3. U \subseteq Nat
  OBVIOUS
<1> HIDE DEF U
<1>4. PICK x \in U : \A y \in U : ~(<<y, x>> \in R)
  BY <1>1, <1>3, WFMin
<1> USE DEF U
<1>5. x \in 1 .. n /\ x - 1 \in 0 .. n
  OBVIOUS
<1>6. x - 1 \in U
  BY <1>5
<1>7. <<x - 1, x>> \in R
  BY <1>2, <1>5
<1> QED BY <1>4, <1>6, <1>7

\* The same when a value rests on all the earlier ones.
LEMMA StrongCounting ==
    ASSUME NEW n \in Nat, NEW T, \A i \in 0 .. n : 0 .. i - 1 \subseteq T => i \in T
    PROVE  \A i \in 0 .. n : i \in T
<1> DEFINE S == {i \in 0 .. n : 0 .. i \subseteq T}
<1>1. 0 \in S
  <2>1. 0 .. 0 - 1 \subseteq T /\ 0 .. 0 = {0} /\ 0 \in 0 .. n
    OBVIOUS
  <2> QED BY <2>1
<1>2. ASSUME NEW i \in 1 .. n, i - 1 \in S PROVE i \in S
  <2>1. i \in 0 .. n /\ 0 .. i - 1 \subseteq T
    BY <1>2
  <2>2. i \in T
    BY <2>1
  <2>3. 0 .. i = (0 .. i - 1) \cup {i}
    OBVIOUS
  <2> QED BY <2>1, <2>2, <2>3
<1> HIDE DEF S
<1>3. \A i \in 0 .. n : i \in S
  BY <1>1, <1>2, Counting
<1> QED BY <1>3 DEF S

\* The values of a loop of n turns, turn[i] being what the i-th does to a value.
Turns(S, n) == [1 .. n -> [S -> S]]

Loop(S, first, n, turn) ==
    {f \in [0 .. n -> S] : f[0] = first /\ \A i \in 1 .. n : f[i] = turn[i][f[i - 1]]}

LEMMA LoopExists ==
    ASSUME NEW S, NEW first \in S, NEW n \in Nat, NEW turn \in Turns(S, n)
    PROVE  Loop(S, first, n, turn) # {}
<1> DEFINE Upto(m, f) == /\ f \in [0 .. m -> S] /\ f[0] = first
                         /\ \A i \in 1 .. m : f[i] = turn[i][f[i - 1]]
           T == {m \in 0 .. n : \E f : Upto(m, f)}
<1>1. 0 \in T
  <2>1. Upto(0, [i \in 0 .. 0 |-> first])
    OBVIOUS
  <2> HIDE DEF Upto
  <2> QED BY <2>1
<1>2. ASSUME NEW m \in 1 .. n, m - 1 \in T PROVE m \in T
  <2>1. PICK f : Upto(m - 1, f)
    BY <1>2
  <2> DEFINE g == [i \in 0 .. m |-> IF i < m THEN f[i] ELSE turn[m][f[m - 1]]]
  <2>2. f[m - 1] \in S
    BY <2>1
  <2>3. turn[m][f[m - 1]] \in S
    BY <2>2 DEF Turns
  <2>4. g \in [0 .. m -> S] /\ g[0] = first
    BY <2>1, <2>3
  <2>5. ASSUME NEW i \in 1 .. m PROVE g[i] = turn[i][g[i - 1]]
    <3>1. i - 1 \in 0 .. m /\ i - 1 < m /\ g[i - 1] = f[i - 1]
      OBVIOUS
    <3>2. CASE i < m
      BY <2>1, <3>1, <3>2
    <3>3. CASE i = m
      BY <3>1, <3>3
    <3> QED BY <3>2, <3>3
  <2>6. Upto(m, g)
    BY <2>4, <2>5
  <2> HIDE DEF Upto, g
  <2> QED BY <2>6
<1> HIDE DEF T
<1>3. n \in T
  BY <1>1, <1>2, Counting
<1>4. PICK f : Upto(n, f)
  BY <1>3 DEF T
<1> QED BY <1>4 DEF Loop

-----------------------------------------------------------------------------
(* The run of zeros that "::" replaces *)

FirstRuns == [best |-> NoRun, cur |-> NoRun]

\* The recursive function of the loop exists: its nine values can be given.
LEMMA ZeroRunsTurns ==
    ASSUME NEW words
    PROVE  LET state == ZeroRuns(words)
           IN  /\ state[0] = FirstRuns
               /\ \A i \in 1 .. 8 : state[i] = ZeroStep(state[i - 1], words[i], i)
<1> DEFINE F(f) == [i \in 0 .. 8 |->
                      IF i = 0 THEN FirstRuns ELSE ZeroStep(f[i - 1], words[i], i)]
           s0 == FirstRuns
           s1 == ZeroStep(s0, words[1], 1)
           s2 == ZeroStep(s1, words[2], 2)
           s3 == ZeroStep(s2, words[3], 3)
           s4 == ZeroStep(s3, words[4], 4)
           s5 == ZeroStep(s4, words[5], 5)
           s6 == ZeroStep(s5, words[6], 6)
           s7 == ZeroStep(s6, words[7], 7)
           s8 == ZeroStep(s7, words[8], 8)
           values == <<s1, s2, s3, s4, s5, s6, s7, s8>>
           g == [i \in 0 .. 8 |-> IF i = 0 THEN s0 ELSE values[i]]
<1>1. \A i \in 1 .. 8 : g[i] = ZeroStep(g[i - 1], words[i], i)
  <2>1. /\ g[0] = s0 /\ g[1] = s1 /\ g[2] = s2 /\ g[3] = s3 /\ g[4] = s4
        /\ g[5] = s5 /\ g[6] = s6 /\ g[7] = s7 /\ g[8] = s8
    <3> HIDE DEF s0, s1, s2, s3, s4, s5, s6, s7, s8
    <3> QED OBVIOUS
  <2>2. \A i \in 1 .. 8 : i \in {1, 2, 3, 4, 5, 6, 7, 8}
    OBVIOUS
  <2> HIDE DEF g
  <2>3. /\ g[1] = ZeroStep(g[1 - 1], words[1], 1)
        /\ g[2] = ZeroStep(g[2 - 1], words[2], 2)
        /\ g[3] = ZeroStep(g[3 - 1], words[3], 3)
        /\ g[4] = ZeroStep(g[4 - 1], words[4], 4)
        /\ g[5] = ZeroStep(g[5 - 1], words[5], 5)
        /\ g[6] = ZeroStep(g[6 - 1], words[6], 6)
        /\ g[7] = ZeroStep(g[7 - 1], words[7], 7)
        /\ g[8] = ZeroStep(g[8 - 1], words[8], 8)
    BY <2>1
  <2> QED BY <2>2, <2>3
<1>2. g = F(g)
  <2> HIDE DEF s1, values
  <2>1. g[0] = FirstRuns
    OBVIOUS
  <2>2. g = [i \in 0 .. 8 |-> g[i]]
    OBVIOUS
  <2> HIDE DEF g
  <2>3. \A i \in 0 .. 8 : g[i] = IF i = 0 THEN FirstRuns ELSE ZeroStep(g[i - 1], words[i], i)
    BY <1>1, <2>1
  <2> QED BY <2>2, <2>3
<1> HIDE DEF F, g
<1>3. ZeroRuns(words) = CHOOSE f : f = F(f)
  BY DEF ZeroRuns, F, FirstRuns
<1>4. ZeroRuns(words) = F(ZeroRuns(words))
  BY <1>2, <1>3
<1> QED BY <1>4 DEF F

Run == [base : -1 .. 7, len : 0 .. 8]

AllZero(words, b, l) == \A i \in b + 1 .. b + l : words[i] = 0

Zeroed(words, r, n) ==
    /\ r.base >= 0 /\ r.len > 0 /\ r.base + r.len <= n
    /\ AllZero(words, r.base, r.len)

\* The first of the longest runs: no run beats it.
Beats(best, b, l) == best.len > l \/ (best.len = l /\ best.base <= b)

\* After n words: the runs are what they say, the current one ends at the n-th
\* word and cannot begin earlier, and every other run is beaten.
RunsOK(s, words, n) ==
    /\ s \in [best : Run, cur : Run]
    /\ s.best = NoRun \/ Zeroed(words, s.best, n)
    /\ s.cur = NoRun \/ (Zeroed(words, s.cur, n) /\ s.cur.base + s.cur.len = n)
    /\ s.cur = NoRun /\ n > 0 => words[n] # 0
    /\ s.cur # NoRun /\ s.cur.base > 0 => words[s.cur.base] # 0
    /\ s.cur # NoRun /\ s.best # NoRun => s.best.base <= s.cur.base
    /\ \A b \in 0 .. 7, l \in 1 .. 8 :
         b + l <= n /\ AllZero(words, b, l) =>
           (s.cur # NoRun /\ s.cur.base <= b) \/ Beats(s.best, b, l)

\* The better of the best run and the current one beats every run.
LEMMA LongerBeats ==
    ASSUME NEW words, NEW n \in 0 .. 8, NEW s, RunsOK(s, words, n)
    PROVE  LET best == Longer(s.best, s.cur)
           IN  /\ best \in Run
               /\ best = NoRun \/ Zeroed(words, best, n)
               /\ \A b \in 0 .. 7, l \in 1 .. 8 :
                    b + l <= n /\ AllZero(words, b, l) => Beats(best, b, l)
<1> DEFINE best == Longer(s.best, s.cur)
<1>1. s.best \in Run /\ s.cur \in Run
  BY DEF RunsOK
<1>2. best \in Run /\ (best = NoRun \/ Zeroed(words, best, n))
  BY <1>1 DEF Longer, RunsOK
<1>3. ASSUME NEW b \in 0 .. 7, NEW l \in 1 .. 8, b + l <= n, AllZero(words, b, l)
      PROVE  Beats(best, b, l)
  BY <1>1, <1>3 DEF RunsOK, Longer, Beats, Zeroed, Run, NoRun
<1> QED BY <1>2, <1>3

LEMMA StepKeepsRuns ==
    ASSUME NEW words, NEW n \in 1 .. 8, NEW s, RunsOK(s, words, n - 1)
    PROVE  RunsOK(ZeroStep(s, words[n], n), words, n)
<1> DEFINE t == ZeroStep(s, words[n], n)
<1>1. s.best \in Run /\ s.cur \in Run /\ s = [best |-> s.best, cur |-> s.cur]
  BY DEF RunsOK
<1>2. CASE words[n] # 0
  <2>1. t = [best |-> Longer(s.best, s.cur), cur |-> NoRun]
    BY <1>2 DEF ZeroStep
  <2>2. /\ t.best \in Run
        /\ t.best = NoRun \/ Zeroed(words, t.best, n)
        /\ \A b \in 0 .. 7, l \in 1 .. 8 :
             b + l <= n - 1 /\ AllZero(words, b, l) => Beats(t.best, b, l)
    BY <2>1, LongerBeats DEF Zeroed, Run
  <2>3. ASSUME NEW b \in 0 .. 7, NEW l \in 1 .. 8, b + l <= n, AllZero(words, b, l)
        PROVE  b + l <= n - 1
    BY <1>2, <2>3 DEF AllZero
  <2>4. t \in [best : Run, cur : Run]
    BY <2>1, <2>2 DEF Run, NoRun
  <2> QED BY <1>2, <2>1, <2>2, <2>3, <2>4 DEF RunsOK
<1>3. CASE words[n] = 0 /\ s.cur.base = -1
  <2>1. s.cur = NoRun
    BY <1>1, <1>3 DEF RunsOK, Zeroed
  <2>2. t = [best |-> s.best, cur |-> [base |-> n - 1, len |-> 1]]
    BY <1>1, <1>3 DEF ZeroStep
  <2>3. t \in [best : Run, cur : Run] /\ t.cur # NoRun
    BY <1>1, <2>2 DEF Run, NoRun
  <2>4. Zeroed(words, t.cur, n) /\ t.cur.base + t.cur.len = n
    BY <1>3, <2>2 DEF Zeroed, AllZero
  <2>5. t.best = NoRun \/ (Zeroed(words, t.best, n) /\ t.best.base <= t.cur.base)
    BY <1>1, <2>2 DEF RunsOK, Zeroed, Run
  <2>6. t.cur.base > 0 => words[t.cur.base] # 0
    BY <2>1, <2>2 DEF RunsOK
  <2>7. ASSUME NEW b \in 0 .. 7, NEW l \in 1 .. 8, b + l <= n, AllZero(words, b, l)
        PROVE  t.cur.base <= b \/ Beats(t.best, b, l)
    <3>1. CASE b + l <= n - 1
      BY <2>1, <2>2, <2>7, <3>1 DEF RunsOK
    <3>2. CASE b + l = n /\ b < n - 1
      <4>1. words[n - 1] = 0
        BY <2>7, <3>2 DEF AllZero
      <4> QED BY <2>1, <3>2, <4>1 DEF RunsOK
    <3> QED BY <2>2, <2>7, <3>1, <3>2
  <2> QED BY <2>3, <2>4, <2>5, <2>6, <2>7 DEF RunsOK
<1>4. CASE words[n] = 0 /\ s.cur.base # -1
  <2>1. s.cur # NoRun /\ Zeroed(words, s.cur, n - 1) /\ s.cur.base + s.cur.len = n - 1
    BY <1>4 DEF RunsOK, NoRun
  <2>2. t = [best |-> s.best, cur |-> [base |-> s.cur.base, len |-> s.cur.len + 1]]
    BY <1>1, <1>4 DEF ZeroStep, Run
  <2>3. t \in [best : Run, cur : Run] /\ t.cur # NoRun
    BY <1>1, <2>1, <2>2 DEF Run, NoRun, Zeroed
  <2>4. Zeroed(words, t.cur, n) /\ t.cur.base + t.cur.len = n
    BY <1>1, <1>4, <2>1, <2>2 DEF Zeroed, AllZero, Run
  <2>5. t.best = NoRun \/ (Zeroed(words, t.best, n) /\ t.best.base <= t.cur.base)
    BY <1>1, <2>1, <2>2 DEF RunsOK, Zeroed, Run
  <2>6. t.cur.base > 0 => words[t.cur.base] # 0
    BY <2>1, <2>2 DEF RunsOK
  <2>7. ASSUME NEW b \in 0 .. 7, NEW l \in 1 .. 8, b + l <= n, AllZero(words, b, l)
        PROVE  t.cur.base <= b \/ Beats(t.best, b, l)
    <3>1. CASE b + l <= n - 1
      BY <2>2, <2>7, <3>1 DEF RunsOK
    <3>2. CASE b + l = n /\ b < s.cur.base
      <4>1. words[s.cur.base] = 0
        BY <1>1, <2>1, <2>7, <3>2 DEF AllZero, Zeroed, Run
      <4> QED BY <1>1, <2>1, <3>2, <4>1 DEF RunsOK, Run
    <3> QED BY <1>1, <2>2, <2>7, <3>1, <3>2 DEF Run
  <2> QED BY <2>3, <2>4, <2>5, <2>6, <2>7 DEF RunsOK
<1> QED BY <1>2, <1>3, <1>4

LEMMA RunsAfterAll == ASSUME NEW words PROVE RunsOK(ZeroRuns(words)[8], words, 8)
<1> DEFINE state == ZeroRuns(words)
           OK(n) == RunsOK(state[n], words, n)
<1>1. OK(0)
  <2>1. state[0] = FirstRuns
    BY ZeroRunsTurns
  <2> QED BY <2>1 DEF FirstRuns, RunsOK, Run, NoRun
<1>2. ASSUME NEW n \in 1 .. 8, OK(n - 1) PROVE OK(n)
  <2>1. state[n] = ZeroStep(state[n - 1], words[n], n)
    BY ZeroRunsTurns
  <2> QED BY <1>2, <2>1, StepKeepsRuns
<1> HIDE DEF OK
<1>3. OK(1) /\ OK(2)
  BY <1>1, <1>2
<1>4. OK(3) /\ OK(4)
  BY <1>2, <1>3
<1>5. OK(5) /\ OK(6)
  BY <1>2, <1>4
<1>6. OK(7) /\ OK(8)
  BY <1>2, <1>5
<1> QED BY <1>6 DEF OK

\* BestRun finds the first of the longest runs of at least two zeros.
LEMMA BestRunBeats ==
    ASSUME NEW words
    PROVE  LET best == BestRun(words)
           IN  /\ best \in Run
               /\ best = NoRun \/ (Zeroed(words, best, 8) /\ best.len >= 2)
               /\ \A b \in 0 .. 7, l \in 2 .. 8 :
                    b + l <= 8 /\ AllZero(words, b, l) => Beats(best, b, l)
<1> DEFINE end == ZeroRuns(words)[8]
           best == Longer(end.best, end.cur)
<1>1. /\ best \in Run
      /\ best = NoRun \/ Zeroed(words, best, 8)
      /\ \A b \in 0 .. 7, l \in 1 .. 8 :
           b + l <= 8 /\ AllZero(words, b, l) => Beats(best, b, l)
  BY RunsAfterAll, LongerBeats
<1>2. BestRun(words) = IF best.len < 2 THEN NoRun ELSE best
  BY DEF BestRun
<1>3. NoRun \in Run
  BY DEF NoRun, Run
<1> HIDE DEF best
<1> QED BY <1>1, <1>2, <1>3 DEF Beats, Run

-----------------------------------------------------------------------------
(* Reading an IPv4 address *)

LEMMA DigitIndex ==
    /\ \A ch : /\ ch \notin DOMAIN DigitValues => hex_digit_value(ch) = -1
               /\ ch \in DOMAIN DigitValues => DigitValues[ch] \in 0 .. 21
    /\ \A k \in 1 .. 16 : /\ Numerals[k] \in DOMAIN DigitValues
                          /\ DigitValues[Numerals[k]] = k - 1
<1> DEFINE all == Numerals \o UpperCase
           index(ch) == CHOOSE i \in 1 .. 22 : all[i] = ch
<1>1. /\ \A ch \in Range(all) : \E i \in 1 .. 22 : all[i] = ch
      /\ \A i, j \in 1 .. 22 : all[i] = all[j] => i = j
      /\ \A i \in 1 .. 16 : Numerals[i] = all[i] /\ all[i] \in Range(all)
  BY DEF Numerals, UpperCase, Range
<1>2. /\ DOMAIN DigitValues = Range(all)
      /\ \A ch \in Range(all) : DigitValues[ch] = index(ch) - 1
  BY DEF DigitValues
<1> HIDE DEF all
<1>3. ASSUME NEW ch \in Range(all) PROVE index(ch) \in 1 .. 22 /\ all[index(ch)] = ch
  BY <1>1
<1> HIDE DEF index
<1>4. \A k \in 1 .. 16 : index(Numerals[k]) = k
  <2> SUFFICES ASSUME NEW k \in 1 .. 16 PROVE index(all[k]) = k
    BY <1>1
  <2>1. index(all[k]) \in 1 .. 22 /\ all[index(all[k])] = all[k]
    BY <1>1, <1>3
  <2> QED BY <1>1, <2>1
<1>5. ASSUME NEW ch \in Range(all) PROVE DigitValues[ch] \in 0 .. 21
  BY <1>2, <1>3
<1>6. \A k \in 1 .. 16 : DigitValues[Numerals[k]] = k - 1
  BY <1>1, <1>2, <1>4
<1> QED BY <1>1, <1>2, <1>5, <1>6 DEF hex_digit_value

LEMMA DigitRange == \A ch : hex_digit_value(ch) \in -1 .. 15
BY DigitIndex DEF hex_digit_value

LEMMA NumeralValue == \A d \in 0 .. 15 : hex_digit_value(Numerals[d + 1]) = d
BY DigitIndex DEF hex_digit_value

Pton4State == [left : {"no", "return"}, octets : Seq(Nat) \ {<<>>}, saw_digit : {0, 1}]

LEMMA Pton4StepType ==
    ASSUME NEW s \in Pton4State, NEW ch PROVE Pton4Step(s, ch) \in Pton4State
<1> DEFINE digit == hex_digit_value(ch)
           value == Last(s.octets) * 10 + digit
<1>1. digit \in -1 .. 15
  BY DigitRange
<1>2. Len(s.octets) \in Nat \ {0} /\ Last(s.octets) \in Nat
  BY DEF Pton4State, Last
<1>3. Append(s.octets, 0) \in Seq(Nat) \ {<<>>}
  BY DEF Pton4State
<1>4. ASSUME digit \in 0 .. 9
      PROVE  [s.octets EXCEPT ![Len(s.octets)] = value] \in Seq(Nat) \ {<<>>}
  BY <1>2, <1>4 DEF Pton4State
<1> HIDE DEF value
<1> QED BY <1>3, <1>4 DEF Pton4Step, Pton4State, value

\* What a step leaves of a state.
LEMMA Pton4Parts ==
    ASSUME NEW s \in Pton4State, NEW v
    PROVE  /\ LET t == [s EXCEPT !.left = "return"]
              IN  t.left = "return" /\ t.octets = s.octets /\ t.saw_digit = s.saw_digit
           /\ LET t == [s EXCEPT !.octets[Len(s.octets)] = v, !.saw_digit = 1]
              IN  /\ t.left = s.left /\ t.saw_digit = 1
                  /\ t.octets = [s.octets EXCEPT ![Len(s.octets)] = v]
           /\ LET t == [s EXCEPT !.octets = Append(@, 0), !.saw_digit = 0]
              IN  /\ t.left = s.left /\ t.saw_digit = 0
                  /\ t.octets = Append(s.octets, 0)
<1>1. ASSUME NEW t, t = [s EXCEPT !.left = "return"]
      PROVE  t.left = "return" /\ t.octets = s.octets /\ t.saw_digit = s.saw_digit
  BY <1>1 DEF Pton4State
<1>2. ASSUME NEW t, t = [s EXCEPT !.octets[Len(s.octets)] = v, !.saw_digit = 1]
      PROVE  /\ t.left = s.left /\ t.saw_digit = 1
             /\ t.octets = [s.octets EXCEPT ![Len(s.octets)] = v]
  BY <1>2 DEF Pton4State
<1>3. ASSUME NEW t, t = [s EXCEPT !.octets = Append(@, 0), !.saw_digit = 0]
      PROVE  t.left = s.left /\ t.saw_digit = 0 /\ t.octets = Append(s.octets, 0)
  BY <1>3 DEF Pton4State
<1> QED BY <1>1, <1>2, <1>3, Zenon

FirstPton4 == [left |-> "no", octets |-> <<0>>, saw_digit |-> 0]

LEMMA Pton4Turns ==
    ASSUME NEW Char, NEW src \in Seq(Char)
    PROVE  LET state == Pton4States(src)
           IN  /\ state \in [0 .. Len(src) -> Pton4State]
               /\ state[0] = FirstPton4
               /\ \A i \in 1 .. Len(src) : state[i] = Pton4Step(state[i - 1], src[i])
<1> DEFINE n == Len(src)
           turn == [i \in 1 .. n |-> [s \in Pton4State |-> Pton4Step(s, src[i])]]
<1>1. n \in Nat
  OBVIOUS
<1>2. FirstPton4 \in Pton4State
  BY DEF FirstPton4, Pton4State
<1>3. turn \in Turns(Pton4State, n)
  BY Pton4StepType DEF Turns
<1>4. \A s \in Pton4State, i \in 1 .. n : turn[i][s] = Pton4Step(s, src[i])
  OBVIOUS
<1> HIDE DEF n, turn
<1>5. PICK g : g \in Loop(Pton4State, FirstPton4, n, turn)
  BY <1>1, <1>2, <1>3, LoopExists
<1>6. \A i \in 1 .. n : g[i] = Pton4Step(g[i - 1], src[i])
  BY <1>1, <1>4, <1>5 DEF Loop
<1> DEFINE F(f) == [i \in 0 .. n |->
                      IF i = 0 THEN FirstPton4 ELSE Pton4Step(f[i - 1], src[i])]
<1>7. g = F(g)
  BY <1>1, <1>5, <1>6 DEF Loop
<1> HIDE DEF F
<1>8. Pton4States(src) = CHOOSE f : f = F(f)
  BY DEF Pton4States, F, FirstPton4, n
<1> DEFINE f == Pton4States(src)
<1>9. f = F(f)
  BY <1>7, <1>8
<1> HIDE DEF f
<1>10. /\ f = [i \in 0 .. n |-> f[i]] /\ f[0] = FirstPton4
       /\ \A i \in 1 .. n : f[i] = Pton4Step(f[i - 1], src[i])
  <2>1. f = [i \in 0 .. n |->
               IF i = 0 THEN FirstPton4 ELSE Pton4Step(f[i - 1], src[i])]
    BY <1>9 DEF F
  <2> HIDE DEF F
  <2>2. \A i \in 0 .. n : f[i] = IF i = 0 THEN FirstPton4 ELSE Pton4Step(f[i - 1], src[i])
    BY <2>1
  <2>3. f = [i \in 0 .. n |-> f[i]]
    BY <2>1, Zenon
  <2>4. 0 \in 0 .. n /\ \A i \in 1 .. n : i \in 0 .. n /\ i # 0
    BY <1>1
  <2> QED BY <2>2, <2>3, <2>4
<1>11. \A i \in 0 .. n : i \in {j \in 0 .. n : f[j] \in Pton4State}
  <2> DEFINE T == {j \in 0 .. n : f[j] \in Pton4State}
  <2>1. 0 \in T
    BY <1>1, <1>2, <1>10
  <2>2. \A i \in 1 .. n : i - 1 \in T => i \in T
    <3> SUFFICES ASSUME NEW i \in 1 .. n, f[i - 1] \in Pton4State
                 PROVE  f[i] \in Pton4State
      BY <1>1
    <3>1. f[i] = Pton4Step(f[i - 1], src[i])
      BY <1>10
    <3> QED BY <3>1, Pton4StepType
  <2> HIDE DEF T
  <2>3. \A i \in 0 .. n : i \in T
    BY <1>1, <2>1, <2>2, Counting
  <2> QED BY <2>3 DEF T
<1> QED BY <1>10, <1>11 DEF f, n

\* The octets fit in tmp.
OctetsOK(s) == /\ Len(s.octets) <= 4
               /\ \A k \in 1 .. Len(s.octets) : s.octets[k] <= 255

\* inet_pton4 never stores a fifth octet, nor a number that an octet does not
\* hold, however long the text; what it returns are four octets.
THEOREM OctetsFit ==
    ASSUME NEW Char, NEW src \in Seq(Char)
    PROVE  /\ \A i \in 0 .. Len(src) : OctetsOK(Pton4States(src)[i])
           /\ inet_pton4(src) \in [1 .. 4 -> 0 .. 255] \cup {Invalid}
<1> DEFINE n == Len(src)
           f == Pton4States(src)
           T == {i \in 0 .. n : OctetsOK(f[i])}
<1>1. /\ f \in [0 .. n -> Pton4State] /\ f[0] = FirstPton4
      /\ \A i \in 1 .. n : f[i] = Pton4Step(f[i - 1], src[i])
  BY Pton4Turns
<1>2. n \in Nat
  OBVIOUS
<1> HIDE DEF n, f
<1>3. 0 \in T
  <2>1. OctetsOK(FirstPton4)
    BY DEF OctetsOK, FirstPton4
  <2> QED BY <1>1, <1>2, <2>1
<1>4. ASSUME NEW s \in Pton4State, NEW ch, OctetsOK(s) PROVE OctetsOK(Pton4Step(s, ch))
  <2> DEFINE last  == Len(s.octets)
             value == Last(s.octets) * 10 + hex_digit_value(ch)
             o     == Pton4Step(s, ch).octets
  <2>1. last \in Nat \ {0} /\ s.octets \in Seq(Nat)
    BY DEF Pton4State
  <2>2. \/ o = s.octets
        \/ o = [s.octets EXCEPT ![last] = value] /\ value <= 255
        \/ o = Append(s.octets, 0) /\ last < 4
    <3>1. \/ Pton4Step(s, ch) = s
          \/ Pton4Step(s, ch) = [s EXCEPT !.left = "return"]
          \/ /\ Pton4Step(s, ch) = [s EXCEPT !.octets[Len(s.octets)] = value, !.saw_digit = 1]
             /\ ~ (value > 255)
          \/ /\ Pton4Step(s, ch) = [s EXCEPT !.octets = Append(@, 0), !.saw_digit = 0]
             /\ last < 4
      BY Zenon DEF Pton4Step
    <3>2. value \in Int
      <4>1. s.octets[Len(s.octets)] \in Nat
        BY DEF Pton4State
      <4>2. Last(s.octets) \in Nat
        BY <4>1 DEF Last
      <4>3. hex_digit_value(ch) \in Int
        BY DigitRange
      <4> QED BY <4>2, <4>3
    <3> HIDE DEF value
    <3>3. ~ (value > 255) => value <= 255
      BY <3>2
    <3>4. CASE Pton4Step(s, ch) = s
      BY <3>4, Zenon
    <3>5. CASE Pton4Step(s, ch) = [s EXCEPT !.left = "return"]
      BY <3>5, Pton4Parts, Zenon
    <3>6. CASE /\ Pton4Step(s, ch) = [s EXCEPT !.octets[Len(s.octets)] = value, !.saw_digit = 1]
               /\ ~ (value > 255)
      <4>1. [s EXCEPT !.octets[Len(s.octets)] = value, !.saw_digit = 1].octets
              = [s.octets EXCEPT ![last] = value]
        BY Pton4Parts, Zenon
      <4>2. o = [s.octets EXCEPT ![last] = value]
        BY <3>6, <4>1, Zenon
      <4> QED BY <3>3, <3>6, <4>2, Zenon
    <3>7. CASE /\ Pton4Step(s, ch) = [s EXCEPT !.octets = Append(@, 0), !.saw_digit = 0]
               /\ last < 4
      <4>1. [s EXCEPT !.octets = Append(@, 0), !.saw_digit = 0].octets = Append(s.octets, 0)
        BY Pton4Parts, Zenon
      <4>2. o = Append(s.octets, 0)
        BY <3>7, <4>1, Zenon
      <4> QED BY <3>7, <4>2, Zenon
    <3> QED BY <3>1, <3>4, <3>5, <3>6, <3>7, Zenon
  <2>3. CASE o = s.octets
    BY <1>4, <2>3 DEF OctetsOK
  <2>4. CASE o = [s.octets EXCEPT ![last] = value] /\ value <= 255
    <3>1. Len(o) = last /\ \A k \in 1 .. last : o[k] = IF k = last THEN value ELSE s.octets[k]
      BY <2>1, <2>4
    <3> QED BY <1>4, <2>1, <2>4, <3>1 DEF OctetsOK
  <2>5. CASE o = Append(s.octets, 0) /\ last < 4
    <3>1. Len(o) = last + 1 /\ \A k \in 1 .. last + 1 : o[k] = IF k = last + 1 THEN 0 ELSE s.octets[k]
      BY <2>1, <2>5
    <3> QED BY <1>4, <2>1, <2>5, <3>1 DEF OctetsOK
  <2> QED BY <2>2, <2>3, <2>4, <2>5
<1>5. \A i \in 1 .. n : i - 1 \in T => i \in T
  BY <1>1, <1>2, <1>4
<1> HIDE DEF T
<1>6. \A i \in 0 .. n : i \in T
  BY <1>2, <1>3, <1>5, Counting
<1>7. \A i \in 0 .. n : OctetsOK(f[i])
  BY <1>6 DEF T
<1>8. inet_pton4(src) \in [1 .. 4 -> 0 .. 255] \cup {Invalid}
  <2> SUFFICES ASSUME f[n].left = "no", Len(f[n].octets) = 4
               PROVE  f[n].octets \in [1 .. 4 -> 0 .. 255]
    BY DEF inet_pton4, f, n
  <2>1. f[n] \in Pton4State /\ OctetsOK(f[n])
    BY <1>1, <1>2, <1>7
  <2>2. f[n].octets \in Seq(Nat)
    BY <2>1 DEF Pton4State
  <2> DEFINE o == f[n].octets
  <2>3. o \in Seq(Nat) /\ Len(o) = 4 /\ \A k \in 1 .. 4 : o[k] <= 255
    BY <2>1, <2>2 DEF OctetsOK
  <2> HIDE DEF o
  <2>4. o \in [1 .. 4 -> Nat]
    BY <2>3, LenProperties
  <2>5. \A k \in 1 .. 4 : o[k] \in 0 .. 255
    <3> TAKE k \in 1 .. 4
    <3>1. o[k] \in Nat
      BY <2>4
    <3>2. o[k] <= 255
      BY <2>3
    <3>3. \A x \in Nat : x <= 255 => x \in 0 .. 255
      OBVIOUS
    <3> QED BY <3>1, <3>2, <3>3, Zenon
  <2>6. o \in [1 .. 4 -> 0 .. 255]
    BY <2>4, <2>5
  <2> QED BY <2>6 DEF o
<1> QED BY <1>7, <1>8 DEF f, n

-----------------------------------------------------------------------------
(* The words that inet_pton6 stores *)

Pton6State == [tp : Seq(Nat), colonp : Int, curtok : Nat \ {0},
               xdigits_seen : Nat, val : Nat, left : {"no", "return", "break"}]

\* The words fit in tmp, "::" stands before, between or after them, and the
\* word being read is no larger than its digits allow.
WordsOK(s) ==
    /\ Len(s.tp) <= 8 /\ \A k \in 1 .. Len(s.tp) : s.tp[k] <= MaxWord
    /\ -1 <= s.colonp /\ s.colonp <= Len(s.tp)
    /\ \/ s.left # "no"
       \/ s.xdigits_seen = 0 /\ s.val = 0
       \/ s.xdigits_seen = 1 /\ s.val <= 15
       \/ s.xdigits_seen = 2 /\ s.val <= 255
       \/ s.xdigits_seen = 3 /\ s.val <= 4095
       \/ s.xdigits_seen = 4 /\ s.val <= MaxWord
    /\ s.xdigits_seen > 0 => s.val <= MaxWord

Pton6Good == {s \in Pton6State : WordsOK(s)}

LEMMA OctetsOf ==
    ASSUME NEW q \in [1 .. 4 -> 0 .. 255]
    PROVE  /\ q[1] \in Nat /\ q[1] <= 255 /\ q[2] \in Nat /\ q[2] <= 255
           /\ q[3] \in Nat /\ q[3] <= 255 /\ q[4] \in Nat /\ q[4] <= 255
<1>1. \A n \in 0 .. 255 : n \in Nat /\ n <= 255
  OBVIOUS
<1>2. \A k \in 1 .. 4 : q[k] \in 0 .. 255
  BY Zenon
<1>3. \A k \in 1 .. 4 : q[k] \in Nat /\ q[k] <= 255
  BY <1>1, <1>2, Zenon
<1>4. 1 \in 1 .. 4 /\ 2 \in 1 .. 4 /\ 3 \in 1 .. 4 /\ 4 \in 1 .. 4
  OBVIOUS
<1> QED BY <1>3, <1>4, Zenon

LEMMA PackedFits ==
    ASSUME NEW q,
           q[1] \in Nat, q[1] <= 255, q[2] \in Nat, q[2] <= 255,
           q[3] \in Nat, q[3] <= 255, q[4] \in Nat, q[4] <= 255
    PROVE  /\ Packed(q) \in Seq(Nat) /\ Len(Packed(q)) = 2
           /\ \A k \in 1 .. 2 : Packed(q)[k] <= MaxWord
<1> DEFINE x == q[1] * 256 + q[2]
           y == q[3] * 256 + q[4]
<1>1. x \in Nat /\ x <= MaxWord /\ y \in Nat /\ y <= MaxWord
  BY DEF MaxWord
<1>2. Packed(q) = <<x, y>>
  BY DEF Packed
<1> HIDE DEF x, y
<1> QED BY <1>1, <1>2

\* What follows a colon is a text as well.
LEMMA SuffixFits ==
    ASSUME NEW Char, NEW src \in Seq(Char), NEW m \in Nat \ {0}
    PROVE  inet_pton4(SubSeq(src, m, Len(src))) \in [1 .. 4 -> 0 .. 255] \cup {Invalid}
<1>1. SubSeq(src, m, Len(src)) \in Seq(Char)
  <2>1. m \in Int /\ Len(src) \in Int /\ \A i \in m .. Len(src) : src[i] \in Char
    OBVIOUS
  <2> QED BY <2>1, SubSeqProperties
<1> QED BY <1>1, OctetsFit, Zenon

LEMMA Pton6ReturnFits == ASSUME NEW s \in Pton6Good PROVE Pton6Return(s) \in Pton6Good
<1> DEFINE t == Pton6Return(s)
<1>1. s \in Pton6State /\ WordsOK(s)
  BY DEF Pton6Good
<1>2. /\ t \in Pton6State /\ t.tp = s.tp /\ t.colonp = s.colonp /\ t.val = s.val
      /\ t.xdigits_seen = s.xdigits_seen /\ t.left = "return"
  BY <1>1 DEF Pton6State, Pton6Return
<1> HIDE DEF t
<1>3. WordsOK(t)
  BY <1>1, <1>2 DEF WordsOK
<1> QED BY <1>2, <1>3 DEF Pton6Good, t

\* A state stays one when a field is given another value of its kind.
LEMMA Pton6Updates ==
    ASSUME NEW s \in Pton6State
    PROVE  /\ \A x \in Seq(Nat) : [s EXCEPT !.tp = x] \in Pton6State
           /\ \A x \in Int : [s EXCEPT !.colonp = x] \in Pton6State
           /\ \A x \in Nat \ {0} : [s EXCEPT !.curtok = x] \in Pton6State
           /\ \A x \in Nat : [s EXCEPT !.xdigits_seen = x] \in Pton6State
           /\ \A x \in Nat : [s EXCEPT !.val = x] \in Pton6State
           /\ [s EXCEPT !.left = "return"] \in Pton6State
           /\ [s EXCEPT !.left = "break"] \in Pton6State
<1>1. \A x \in Seq(Nat) : [s EXCEPT !.tp = x] \in Pton6State
  BY DEF Pton6State
<1>2. \A x \in Int : [s EXCEPT !.colonp = x] \in Pton6State
  BY DEF Pton6State
<1>3. \A x \in Nat \ {0} : [s EXCEPT !.curtok = x] \in Pton6State
  BY DEF Pton6State
<1>4. \A x \in Nat : [s EXCEPT !.xdigits_seen = x] \in Pton6State
  BY DEF Pton6State
<1>5. \A x \in Nat : [s EXCEPT !.val = x] \in Pton6State
  BY DEF Pton6State
<1>6. [s EXCEPT !.left = "return"] \in Pton6State
  BY DEF Pton6State
<1>7. [s EXCEPT !.left = "break"] \in Pton6State
  BY DEF Pton6State
<1> QED BY <1>1, <1>2, <1>3, <1>4, <1>5, <1>6, <1>7, Zenon

\* Words that fit, and the ones that are put after them.
SmallWords(w) == w \in Seq(Nat) /\ \A k \in 1 .. Len(w) : w[k] <= MaxWord

LEMMA OneWordMore ==
    ASSUME NEW w, SmallWords(w), NEW v \in Nat, v <= MaxWord
    PROVE  SmallWords(Append(w, v)) /\ Len(Append(w, v)) = Len(w) + 1 /\ Len(w) \in Nat
<1> DEFINE n == Len(w)
           x == Append(w, v)
<1>1. /\ w \in Seq(Nat) /\ n \in Nat /\ x \in Seq(Nat) /\ Len(x) = n + 1
      /\ \A k \in 1 .. n + 1 : x[k] = IF k = n + 1 THEN v ELSE w[k]
  BY DEF SmallWords
<1>2. \A k \in 1 .. n : w[k] <= MaxWord
  BY Zenon DEF SmallWords
<1> HIDE DEF n, x
<1>3. ASSUME NEW k \in 1 .. n + 1 PROVE x[k] <= MaxWord
  <2>1. CASE k = n + 1
    BY <1>1, <2>1
  <2>2. CASE k # n + 1
    <3>1. k \in 1 .. n
      BY <1>1, <2>2
    <3> QED BY <1>1, <1>2, <2>2, <3>1
  <2> QED BY <2>1, <2>2
<1> QED BY <1>1, <1>3 DEF SmallWords, n, x

LEMMA MoreWords ==
    ASSUME NEW w, SmallWords(w), NEW p, SmallWords(p)
    PROVE  SmallWords(w \o p) /\ Len(w \o p) = Len(w) + Len(p) /\ Len(w) \in Nat
<1> DEFINE n == Len(w)
           m == Len(p)
           x == w \o p
<1>1. w \in Seq(Nat) /\ p \in Seq(Nat) /\ n \in Nat /\ m \in Nat
  BY DEF SmallWords
<1>2. /\ x \in Seq(Nat) /\ Len(x) = n + m
      /\ \A k \in 1 .. n + m : x[k] = IF k <= n THEN w[k] ELSE p[k - n]
  BY <1>1, ConcatProperties
<1> HIDE DEF x, n, m
<1>3. ASSUME NEW k \in 1 .. n + m PROVE x[k] <= MaxWord
  <2>1. CASE k <= n
    <3>1. k \in 1 .. n
      BY <1>1, <2>1
    <3> QED BY <1>2, <2>1, <3>1 DEF SmallWords, n
  <2>2. CASE ~ (k <= n)
    <3>1. k - n \in 1 .. m
      BY <1>1, <2>2
    <3> QED BY <1>2, <2>2, <3>1 DEF SmallWords, m
  <2> QED BY <2>1, <2>2
<1> QED BY <1>1, <1>2, <1>3 DEF SmallWords, x, n, m

LEMMA Pton6DigitFits ==
    ASSUME NEW s \in Pton6Good, s.left = "no", NEW digit \in Nat, digit <= 15
    PROVE  Pton6Digit(s, digit) \in Pton6Good
<1> DEFINE val == s.val * 16 + digit
           m   == s.xdigits_seen + 1
           t1  == [s EXCEPT !.val = val]
           t   == [t1 EXCEPT !.xdigits_seen = m]
<1>1. s \in Pton6State /\ WordsOK(s)
  BY DEF Pton6Good
<1>2. s.tp \in Seq(Nat) /\ s.xdigits_seen \in Nat /\ s.val \in Nat /\ s.colonp \in Int
  BY <1>1 DEF Pton6State
<1>3. val \in Nat /\ m \in Nat
  BY <1>2
<1>4. CASE s.xdigits_seen = 4 \/ val > 65535
  BY <1>4, Pton6ReturnFits DEF Pton6Digit
<1>5. CASE ~ (s.xdigits_seen = 4 \/ val > 65535)
  <2>1. Pton6Digit(s, digit) = t
    BY <1>5 DEF Pton6Digit
  <2>2. \/ s.xdigits_seen = 0 /\ val <= 15
        \/ s.xdigits_seen = 1 /\ val <= 255
        \/ s.xdigits_seen = 2 /\ val <= 4095
        \/ s.xdigits_seen = 3 /\ val <= MaxWord
    BY <1>1, <1>2, <1>5 DEF WordsOK, MaxWord
  <2>3. m = s.xdigits_seen + 1
    OBVIOUS
  <2> HIDE DEF val, m
  <2>4. t1 \in Pton6State
    BY <1>1, <1>3, Pton6Updates, Zenon
  <2>5. /\ t.tp = s.tp /\ t.colonp = s.colonp /\ t.val = val
        /\ t.xdigits_seen = m /\ t.left = "no"
    BY <1>1, <1>2, <1>3 DEF Pton6State
  <2> HIDE DEF t1
  <2>6. t \in Pton6State
    BY <1>3, <2>4, Pton6Updates, Zenon
  <2> HIDE DEF t
  <2>7. WordsOK(t)
    BY <1>1, <1>2, <1>3, <2>2, <2>3, <2>5 DEF WordsOK, MaxWord
  <2> QED BY <2>1, <2>6, <2>7 DEF Pton6Good
<1> QED BY <1>4, <1>5

LEMMA Pton6GapFits ==
    ASSUME NEW s \in Pton6Good, NEW i \in Nat PROVE Pton6Gap(s, i) \in Pton6Good
<1> DEFINE n  == Len(s.tp)
           j  == i + 1
           t1 == [s EXCEPT !.curtok = j]
           t  == [t1 EXCEPT !.colonp = n]
<1>1. s \in Pton6State /\ WordsOK(s)
  BY DEF Pton6Good
<1>2. s.tp \in Seq(Nat) /\ n \in Nat /\ j \in Nat \ {0}
  BY <1>1 DEF Pton6State
<1>3. CASE s.colonp # -1
  BY <1>3, Pton6ReturnFits DEF Pton6Gap
<1>4. CASE s.colonp = -1
  <2>1. Pton6Gap(s, i) = t
    BY <1>4 DEF Pton6Gap
  <2> HIDE DEF j
  <2>2. t1 \in Pton6State
    BY <1>1, <1>2, Pton6Updates, Zenon
  <2>3. /\ t.tp = s.tp /\ t.colonp = n /\ t.val = s.val
        /\ t.xdigits_seen = s.xdigits_seen /\ t.left = s.left
    BY <1>1, <1>2 DEF Pton6State
  <2> HIDE DEF t1
  <2>4. t \in Pton6State
    <3>1. n \in Int
      BY <1>2
    <3> HIDE DEF n
    <3> QED BY <2>2, <3>1, Pton6Updates, Zenon
  <2> HIDE DEF t
  <2>5. WordsOK(t)
    BY <1>1, <1>2, <2>3 DEF WordsOK
  <2> QED BY <2>1, <2>4, <2>5 DEF Pton6Good
<1> QED BY <1>3, <1>4

LEMMA Pton6ColonFits ==
    ASSUME NEW s \in Pton6Good, s.left = "no", NEW src, NEW i \in Nat
    PROVE  Pton6Colon(s, src, i) \in Pton6Good
<1> DEFINE n  == Len(s.tp)
           w  == Append(s.tp, s.val)
           j  == i + 1
           t1 == [s EXCEPT !.curtok = j]
           t2 == [t1 EXCEPT !.tp = w]
           t3 == [t2 EXCEPT !.xdigits_seen = 0]
           t  == [t3 EXCEPT !.val = 0]
<1>1. s \in Pton6State /\ WordsOK(s)
  BY DEF Pton6Good
<1>2. /\ s.tp \in Seq(Nat) /\ n \in Nat /\ j \in Nat \ {0}
      /\ s.val \in Nat /\ s.xdigits_seen \in Nat /\ s.colonp \in Int
  BY <1>1 DEF Pton6State
<1>3. SmallWords(s.tp) /\ n <= 8 /\ -1 <= s.colonp /\ s.colonp <= n
  BY <1>1, <1>2 DEF WordsOK, SmallWords
<1>4. CASE s.xdigits_seen = 0
  BY <1>4, Pton6GapFits DEF Pton6Colon
<1>5. CASE s.xdigits_seen # 0 /\ (i = Len(src) \/ n = 8)
  BY <1>5, Pton6ReturnFits DEF Pton6Colon
<1>6. CASE s.xdigits_seen # 0 /\ ~ (i = Len(src) \/ n = 8)
  <2>1. Pton6Colon(s, src, i) = t
    BY <1>6 DEF Pton6Colon
  <2> s.val <= MaxWord
    BY <1>1, <1>2, <1>6 DEF WordsOK, MaxWord
  <2> DEFINE c == s.colonp
  <2> /\ SmallWords(w) /\ Len(w) = n + 1 /\ n <= 7 /\ n \in Nat
      /\ w \in Seq(Nat) /\ c \in Int /\ -1 <= c /\ c <= n
    <3>1. SmallWords(w) /\ Len(w) = n + 1
      BY <1>2, <1>3, OneWordMore, Zenon
    <3>2. w \in Seq(Nat)
      BY <3>1, Zenon DEF SmallWords
    <3>3. n \in Nat /\ n <= 8 /\ n # 8 /\ c \in Int /\ -1 <= c /\ c <= n
      BY <1>2, <1>3, <1>6, Zenon
    <3> HIDE DEF w, n, c
    <3>4. n <= 7
      BY <3>3
    <3> QED BY <3>1, <3>2, <3>3, <3>4, Zenon
  <2> HIDE DEF w, j, n
  <2>2. t1 \in Pton6State
    BY <1>1, <1>2, Pton6Updates, Zenon
  <2>3. /\ t1.colonp = s.colonp /\ t1.left = "no"
    BY <1>1 DEF Pton6State
  <2> HIDE DEF t1
  <2>4. t2 \in Pton6State
    BY <2>2, Pton6Updates, Zenon
  <2>5. /\ t2.tp = w /\ t2.colonp = s.colonp /\ t2.left = "no"
    BY <2>2, <2>3 DEF Pton6State
  <2> HIDE DEF t2
  <2>6. t3 \in Pton6State
    BY <2>4, Pton6Updates
  <2>7. /\ t.tp = w /\ t.colonp = s.colonp /\ t.left = "no"
        /\ t.xdigits_seen = 0 /\ t.val = 0
    BY <2>4, <2>5 DEF Pton6State
  <2> HIDE DEF t3
  <2>8. t \in Pton6State
    BY <2>6, Pton6Updates
  <2> HIDE DEF t
  <2>9. t.colonp = c
    BY <2>7
  <2> HIDE DEF c
  <2>10. WordsOK(t)
    BY <2>7, <2>9 DEF WordsOK, SmallWords
  <2> QED BY <2>1, <2>8, <2>10 DEF Pton6Good
<1> QED BY <1>4, <1>5, <1>6

LEMMA Pton6DotFits ==
    ASSUME NEW Char, NEW src \in Seq(Char), NEW s \in Pton6Good, s.left = "no"
    PROVE  Pton6Dot(s, src) \in Pton6Good
<1> DEFINE n == Len(s.tp)
           quad == inet_pton4(SubSeq(src, s.curtok, Len(src)))
           p == Packed(quad)
           w == s.tp \o p
           t1 == [s EXCEPT !.left = "break"]
           t2 == [t1 EXCEPT !.tp = w]
           t  == [t2 EXCEPT !.xdigits_seen = 0]
<1>1. s \in Pton6State /\ WordsOK(s)
  BY DEF Pton6Good
<1>2. s.tp \in Seq(Nat) /\ n \in Nat /\ s.curtok \in Nat \ {0} /\ s.colonp \in Int
  BY <1>1 DEF Pton6State
<1>3. CASE n > 6 \/ quad = Invalid
  BY <1>3, Pton6ReturnFits DEF Pton6Dot
<1>4. CASE ~ (n > 6 \/ quad = Invalid)
  <2>1. Pton6Dot(s, src) = t
    BY <1>4 DEF Pton6Dot
  <2>2. quad \in [1 .. 4 -> 0 .. 255]
    BY <1>2, <1>4, SuffixFits, Zenon
  <2> HIDE DEF quad
  <2>3. p \in Seq(Nat) /\ Len(p) = 2 /\ \A k \in 1 .. 2 : p[k] <= MaxWord
    <3>1. /\ quad[1] \in Nat /\ quad[1] <= 255 /\ quad[2] \in Nat /\ quad[2] <= 255
          /\ quad[3] \in Nat /\ quad[3] <= 255 /\ quad[4] \in Nat /\ quad[4] <= 255
      BY <2>2, OctetsOf, Zenon
    <3> QED BY <3>1, PackedFits
  <2> HIDE DEF p
  <2> DEFINE c == s.colonp
  <2>4. /\ SmallWords(w) /\ Len(w) = n + 2 /\ n <= 6 /\ n \in Nat
        /\ w \in Seq(Nat) /\ c \in Int /\ -1 <= c /\ c <= n
    <3>1. SmallWords(s.tp) /\ -1 <= c /\ c <= n
      BY <1>1, <1>2 DEF WordsOK, SmallWords
    <3>2. SmallWords(p)
      BY <2>3 DEF SmallWords
    <3>3. SmallWords(w) /\ Len(w) = n + Len(p)
      BY <3>1, <3>2, MoreWords, Zenon
    <3>4. w \in Seq(Nat)
      BY <3>3, Zenon DEF SmallWords
    <3> HIDE DEF w
    <3> QED BY <1>2, <1>4, <2>3, <3>1, <3>3, <3>4
  <2> HIDE DEF w, n
  <2>5. t1 \in Pton6State
    BY <1>1, Pton6Updates
  <2>6. t1.colonp = s.colonp /\ t1.left = "break"
    BY <1>1 DEF Pton6State
  <2> HIDE DEF t1
  <2>7. t2 \in Pton6State
    BY <2>4, <2>5, Pton6Updates, Zenon
  <2>8. /\ t.tp = w /\ t.colonp = s.colonp /\ t.left = "break" /\ t.xdigits_seen = 0
    BY <2>5, <2>6 DEF Pton6State
  <2> HIDE DEF t2
  <2>9. t \in Pton6State
    BY <2>7, Pton6Updates
  <2> HIDE DEF t
  <2>10. t.colonp = c
    BY <2>8
  <2> HIDE DEF c
  <2>11. WordsOK(t)
    BY <2>4, <2>8, <2>10 DEF WordsOK, SmallWords
  <2> QED BY <2>1, <2>9, <2>11 DEF Pton6Good
<1> QED BY <1>3, <1>4

LEMMA Pton6StepFits ==
    ASSUME NEW Char, NEW src \in Seq(Char), NEW s \in Pton6Good, NEW i \in Nat
    PROVE  Pton6Step(s, src, i) \in Pton6Good
<1> DEFINE digit == hex_digit_value(src[i])
<1>1. digit >= 0 => digit \in Nat /\ digit <= 15
  <2>1. digit \in -1 .. 15
    BY DigitRange, Zenon
  <2> HIDE DEF digit
  <2> QED BY <2>1
<1> HIDE DEF digit
<1>2. Pton6Step(s, src, i) =
        IF s.left # "no" THEN s
        ELSE IF digit >= 0 THEN Pton6Digit(s, digit)
        ELSE IF src[i] = ":" THEN Pton6Colon(s, src, i)
        ELSE IF src[i] = "." THEN Pton6Dot(s, src)
        ELSE Pton6Return(s)
  BY Zenon DEF Pton6Step, digit
<1> QED BY <1>1, <1>2, Pton6DigitFits, Pton6ColonFits, Pton6DotFits, Pton6ReturnFits

\* Where the loop begins, and with what.
Pton6First(src) == IF Len(src) > 0 /\ src[1] = ":" THEN 2 ELSE 1

Pton6Fresh(src) == [tp |-> <<>>, colonp |-> -1, curtok |-> Pton6First(src),
                    xdigits_seen |-> 0, val |-> 0, left |-> "no"]

Pton6Turn(s, src, i) == IF i < Pton6First(src) THEN Pton6Fresh(src) ELSE Pton6Step(s, src, i)

LEMMA FreshFits == ASSUME NEW src PROVE Pton6Fresh(src) \in Pton6Good
<1> DEFINE t == Pton6Fresh(src)
<1>1. Pton6First(src) \in Nat \ {0}
  BY DEF Pton6First
<1>2. <<>> \in Seq(Nat) /\ Len(<<>>) = 0 /\ -1 \in Int
  OBVIOUS
<1>3. t \in Pton6State
  BY <1>1, <1>2 DEF Pton6Fresh, Pton6State
<1>4. t.tp = <<>> /\ t.colonp = -1 /\ t.xdigits_seen = 0 /\ t.val = 0
  BY DEF Pton6Fresh
<1> HIDE DEF t
<1>5. WordsOK(t)
  BY <1>2, <1>4 DEF WordsOK
<1> QED BY <1>3, <1>5 DEF Pton6Good, t

LEMMA Pton6Turns ==
    ASSUME NEW Char, NEW src \in Seq(Char)
    PROVE  LET state == Pton6States(src)
           IN  /\ \A i \in 0 .. Len(src) : state[i] \in Pton6Good
               /\ state[0] = Pton6Fresh(src)
               /\ \A i \in 1 .. Len(src) : state[i] = Pton6Turn(state[i - 1], src, i)
<1> DEFINE n == Len(src)
           fresh == Pton6Fresh(src)
           turn == [i \in 1 .. n |-> [s \in Pton6Good |-> Pton6Turn(s, src, i)]]
<1>1. n \in Nat /\ fresh \in Pton6Good
  BY FreshFits
<1>2. ASSUME NEW s \in Pton6Good, NEW i \in 1 .. n PROVE Pton6Turn(s, src, i) \in Pton6Good
  <2>1. i \in Nat
    OBVIOUS
  <2> QED BY <2>1, FreshFits, Pton6StepFits, Zenon DEF Pton6Turn
<1>3. turn \in Turns(Pton6Good, n)
  BY <1>2 DEF Turns
<1>4. \A s \in Pton6Good, i \in 1 .. n : turn[i][s] = Pton6Turn(s, src, i)
  OBVIOUS
<1>5. \A i \in 1 .. n : i # 0 /\ i - 1 \in 0 .. n
  BY <1>1
<1> HIDE DEF n, turn
<1>6. PICK g : g \in Loop(Pton6Good, fresh, n, turn)
  BY <1>1, <1>3, LoopExists
<1>7. \A i \in 1 .. n : g[i] = Pton6Turn(g[i - 1], src, i)
  BY <1>1, <1>4, <1>6 DEF Loop
<1> HIDE DEF fresh
<1> DEFINE F(f) == [i \in 0 .. n |-> IF i = 0 THEN fresh ELSE Pton6Turn(f[i - 1], src, i)]
           G(f) == [i \in 0 .. n |-> IF i < Pton6First(src) THEN fresh
                                     ELSE Pton6Step(f[i - 1], src, i)]
<1>8. g = F(g)
  BY <1>1, <1>6, <1>7 DEF Loop
<1>9. \A f : F(f) = G(f)
  <2> TAKE f
  <2>1. ASSUME NEW i \in 0 .. n
        PROVE  (IF i = 0 THEN fresh ELSE Pton6Turn(f[i - 1], src, i))
                 = (IF i < Pton6First(src) THEN fresh ELSE Pton6Step(f[i - 1], src, i))
    <3>1. 0 < Pton6First(src)
      BY DEF Pton6First
    <3> QED BY <3>1 DEF Pton6Turn, fresh
  <2> QED BY <2>1
<1> HIDE DEF F
<1>10. g = G(g)
  BY <1>8, <1>9, Zenon
<1> HIDE DEF G
<1>11. Pton6States(src) = CHOOSE f : f = G(f)
  BY DEF Pton6States, G, Pton6First, Pton6Fresh, fresh, n
<1> DEFINE f == Pton6States(src)
<1>12. f = F(f)
  BY <1>9, <1>10, <1>11, Zenon
<1> HIDE DEF f
<1>13. f[0] = fresh /\ \A i \in 1 .. n : f[i] = Pton6Turn(f[i - 1], src, i)
  <2>1. f = [i \in 0 .. n |-> IF i = 0 THEN fresh ELSE Pton6Turn(f[i - 1], src, i)]
    BY <1>12 DEF F
  <2>2. \A i \in 0 .. n : f[i] = IF i = 0 THEN fresh ELSE Pton6Turn(f[i - 1], src, i)
    BY <2>1
  <2>3. 0 \in 0 .. n /\ \A i \in 1 .. n : i \in 0 .. n
    BY <1>1
  <2> QED BY <1>5, <2>2, <2>3, Zenon
<1> DEFINE T == {i \in 0 .. n : f[i] \in Pton6Good}
<1>14. 0 \in T
  BY <1>1, <1>13
<1>15. \A i \in 1 .. n : i - 1 \in T => i \in T
  <2> SUFFICES ASSUME NEW i \in 1 .. n, f[i - 1] \in Pton6Good PROVE f[i] \in Pton6Good
    BY <1>1
  <2> QED BY <1>2, <1>13, Zenon
<1> HIDE DEF T
<1>16. \A i \in 0 .. n : i \in T
  BY <1>1, <1>14, <1>15, Counting
<1> QED BY <1>13, <1>16 DEF T, f, n, fresh

LEMMA PartOfWords ==
    ASSUME NEW w, SmallWords(w), NEW a \in Nat \ {0}, NEW b \in Nat, b <= Len(w)
    PROVE  /\ SmallWords(SubSeq(w, a, b))
           /\ Len(SubSeq(w, a, b)) = IF a <= b THEN b - a + 1 ELSE 0
<1> DEFINE p == SubSeq(w, a, b)
           m == IF a <= b THEN b - a + 1 ELSE 0
<1>1. w \in Seq(Nat) /\ Len(w) \in Nat /\ \A k \in 1 .. Len(w) : w[k] <= MaxWord
  BY DEF SmallWords
<1>2. \A k \in a .. b : w[k] \in Nat
  BY <1>1
<1>3. p \in Seq(Nat) /\ Len(p) = m /\ \A k \in 1 .. b - a + 1 : p[k] = w[a + k - 1]
  BY <1>2, SubSeqProperties
<1> HIDE DEF p
<1>4. ASSUME NEW k \in 1 .. m PROVE p[k] <= MaxWord
  <2>1. k \in 1 .. b - a + 1 /\ a + k - 1 \in 1 .. Len(w)
    BY <1>1
  <2> QED BY <1>1, <1>3, <2>1, Zenon
<1> HIDE DEF m
<1> QED BY <1>3, <1>4 DEF SmallWords, p, m

LEMMA FunctionIsSeq ==
    ASSUME NEW S, NEW m \in Nat, NEW g \in [1 .. m -> S]
    PROVE  g \in Seq(S) /\ Len(g) = m
OBVIOUS

LEMMA ZerosAreWords ==
    ASSUME NEW m \in Nat PROVE SmallWords(Zeros(m)) /\ Len(Zeros(m)) = m
<1> DEFINE z == [i \in 1 .. m |-> 0]
<1>1. z \in [1 .. m -> Nat] /\ \A k \in 1 .. m : z[k] = 0
  OBVIOUS
<1>2. 0 <= MaxWord
  BY DEF MaxWord
<1>3. Zeros(m) = z
  BY DEF Zeros
<1> HIDE DEF z
<1>4. z \in Seq(Nat) /\ Len(z) = m
  BY <1>1, FunctionIsSeq
<1>5. SmallWords(z)
  BY <1>1, <1>2, <1>4 DEF SmallWords
<1> QED BY <1>3, <1>4, <1>5

\* The words before "::", the zeros and the words after it fill tmp.
LEMMA ExpandedFits ==
    ASSUME NEW w, SmallWords(w), Len(w) <= 8, NEW c \in Nat, c <= Len(w)
    PROVE  SmallWords(ExpandColons(w, c)) /\ Len(ExpandColons(w, c)) = 8
<1> DEFINE n == Len(w)
           x == SubSeq(w, 1, c)
           z == Zeros(8 - n)
           y == SubSeq(w, c + 1, n)
<1>1. n \in Nat /\ 8 - n \in Nat /\ c + 1 \in Nat \ {0}
  BY DEF SmallWords
<1>2. SmallWords(x) /\ Len(x) = c
  BY PartOfWords
<1>3. SmallWords(y) /\ Len(y) = n - c
  <2>1. SmallWords(y) /\ Len(y) = IF c + 1 <= n THEN n - (c + 1) + 1 ELSE 0
    BY <1>1, PartOfWords
  <2> HIDE DEF y
  <2> QED BY <1>1, <2>1
<1>4. SmallWords(z) /\ Len(z) = 8 - n
  BY <1>1, ZerosAreWords
<1>5. ExpandColons(w, c) = x \o z \o y
  BY Zenon DEF ExpandColons
<1> HIDE DEF x, y, z
<1>6. SmallWords(x \o z) /\ Len(x \o z) = Len(x) + Len(z)
  BY <1>2, <1>4, MoreWords
<1>7. SmallWords(x \o z \o y) /\ Len(x \o z \o y) = Len(x \o z) + Len(y)
  BY <1>3, <1>6, MoreWords
<1> HIDE DEF n
<1>8. Len(x \o z \o y) = 8
  BY <1>1, <1>2, <1>3, <1>4, <1>6, <1>7
<1> QED BY <1>5, <1>7, <1>8, Zenon

\* inet_pton6 stores no ninth word and none that two bytes do not hold, and "::"
\* is never put behind the words there are, however long the text: nothing is
\* written or moved outside tmp.  What it returns are eight words.
THEOREM WordsFit ==
    ASSUME NEW Char, NEW src \in Seq(Char)
    PROVE  /\ \A i \in 0 .. Len(src) : WordsOK(Pton6States(src)[i])
           /\ \/ inet_pton6(src) = Invalid
              \/ SmallWords(inet_pton6(src)) /\ Len(inet_pton6(src)) = 8
<1> DEFINE n     == Len(src)
           end   == Pton6States(src)[n]
           tp    == end.tp
           c     == end.colonp
           more  == end.xdigits_seen > 0
           words == IF more THEN Append(tp, end.val) ELSE tp
           fails == \/ src = <<>>
                    \/ src[1] = ":" /\ (Len(src) = 1 \/ src[2] # ":")
                    \/ end.left = "return"
                    \/ more /\ Len(tp) = 8
                    \/ c = -1 <=> Len(words) # 8
<1>1. \A i \in 0 .. n : WordsOK(Pton6States(src)[i])
  BY Pton6Turns DEF Pton6Good
<1>2. end \in Pton6State /\ WordsOK(end)
  <2>1. n \in 0 .. n
    OBVIOUS
  <2> QED BY <2>1, Pton6Turns, Zenon DEF Pton6Good
<1>3. inet_pton6(src) = IF fails THEN Invalid ELSE IF c = -1 THEN words
                                                  ELSE ExpandColons(words, c)
  BY DEF inet_pton6
<1> HIDE DEF end, n
<1>4. /\ SmallWords(tp) /\ Len(tp) \in Nat /\ Len(tp) <= 8
      /\ c \in Int /\ -1 <= c /\ c <= Len(tp) /\ end.val \in Nat
      /\ more => end.val <= MaxWord
  BY <1>2 DEF WordsOK, Pton6State, SmallWords
<1> DEFINE v == end.val
<1> HIDE DEF tp, c, more, v
<1>5. ASSUME ~ fails
      PROVE  SmallWords(words) /\ Len(words) \in Nat /\ Len(words) <= 8 /\ c <= Len(words)
  <2>1. CASE more
    <3>1. words = Append(tp, v)
      BY <2>1 DEF v
    <3>2. v \in Nat /\ v <= MaxWord
      BY <1>4, <2>1 DEF v
    <3>3. SmallWords(words) /\ Len(words) = Len(tp) + 1
      BY <1>4, <3>1, <3>2, OneWordMore, Zenon
    <3>4. Len(tp) # 8
      BY <1>5, <2>1, Zenon
    <3> HIDE DEF words
    <3> DEFINE l == Len(tp)
    <3>5. l \in Nat /\ l <= 8 /\ c \in Int /\ c <= l /\ l # 8
      BY <1>4, <3>4, Zenon
    <3> HIDE DEF l
    <3>6. l + 1 \in Nat /\ l + 1 <= 8 /\ c <= l + 1
      BY <3>5
    <3> QED BY <3>3, <3>6, Zenon DEF l
  <2>2. CASE ~ more
    <3>1. words = tp
      BY <2>2
    <3> QED BY <1>4, <3>1
  <2> QED BY <2>1, <2>2
<1>6. ASSUME ~ fails PROVE c = -1 <=> Len(words) = 8
  BY <1>6
<1> HIDE DEF fails, words
<1>7. CASE fails
  BY <1>1, <1>3, <1>7, Zenon DEF n
<1>8. CASE ~ fails
  <2>1. CASE c = -1
    BY <1>1, <1>3, <1>5, <1>6, <1>8, <2>1, Zenon DEF n
  <2>2. CASE c # -1
    <3>1. c \in Nat
      BY <1>4, <2>2
    <3>2. SmallWords(ExpandColons(words, c)) /\ Len(ExpandColons(words, c)) = 8
      BY <1>5, <1>8, <3>1, ExpandedFits, Zenon
    <3> QED BY <1>1, <1>3, <1>8, <2>2, <3>2, Zenon DEF n
  <2> QED BY <2>1, <2>2
<1> QED BY <1>7, <1>8

-----------------------------------------------------------------------------
(* An IPv4 address that was written reads back *)

Digit(d) == Numerals[d + 1]

\* The characters of an IPv4 address.
Chars == {Digit(d) : d \in {x \in Nat : x <= 9}} \cup {"."}

LEMMA NoNulInChars == NUL \notin Chars
<1>1. "0" # NUL /\ "1" # NUL /\ "2" # NUL /\ "3" # NUL /\ "4" # NUL
  BY DEF NUL
<1>2. "5" # NUL /\ "6" # NUL /\ "7" # NUL /\ "8" # NUL /\ "9" # NUL /\ "." # NUL
  BY DEF NUL
<1>3. \A k \in 1 .. 10 : Numerals[k] # NUL
  BY <1>1, <1>2 DEF Numerals
<1>4. \A d \in Nat : d <= 9 => Digit(d) # NUL
  <2> SUFFICES ASSUME NEW d \in Nat, d <= 9 PROVE Numerals[d + 1] # NUL
    BY DEF Digit
  <2>1. d + 1 \in 1 .. 10
    OBVIOUS
  <2> QED BY <1>3, <2>1
<1> QED BY <1>2, <1>4 DEF Chars

\* A number of an octet as "%u" writes it: up to three digits, no leading zero.
WrittenAs(n, w) ==
    /\ w \in Seq(Chars)
    /\ \/ n < 10 /\ Len(w) = 1 /\ w[1] = Digit(n)
       \/ n >= 10 /\ n < 100 /\ Len(w) = 2 /\ w[1] = Digit(n \div 10) /\ w[2] = Digit(n % 10)
       \/ /\ n >= 100 /\ Len(w) = 3
          /\ w[1] = Digit(n \div 100)
          /\ w[2] = Digit((n \div 10) % 10)
          /\ w[3] = Digit(n % 10)

LEMMA Shorter ==
    ASSUME NEW base \in {10, 16}, NEW n \in Nat, n >= base
    PROVE  n \div base \in 0 .. n - 1
<1>1. CASE base = 10
  <2>1. n \div 10 \in Nat /\ n \div 10 <= n - 1
    BY <1>1
  <2> QED BY <1>1, <2>1
<1>2. CASE base = 16
  <2>1. n \div 16 \in Nat /\ n \div 16 <= n - 1
    BY <1>2
  <2> QED BY <1>2, <2>1
<1> QED BY <1>1, <1>2

\* A number is written as the number without its last digit, and that digit.
LEMMA WrittenDigits ==
    ASSUME NEW base \in {10, 16}, NEW n \in Nat
    PROVE  Written(n, base) =
             IF n < base THEN <<Numerals[n + 1]>>
             ELSE Append(Written(n \div base, base), Numerals[(n % base) + 1])
<1> DEFINE One(m) == <<Numerals[m + 1]>>
           More(t, m) == Append(t, Numerals[(m % base) + 1])
           Upto(m, f) ==
             /\ f = [i \in 0 .. m |-> f[i]]
             /\ \A i \in 0 .. m : f[i] = IF i < base THEN One(i) ELSE More(f[i \div base], i)
           Some(m) == CHOOSE f : Upto(m, f)
           W(m) == Some(m)[m]
           F(t) == [m \in Nat |-> IF m < base THEN One(m) ELSE More(t[m \div base], m)]
           g == [m \in Nat |-> W(m)]
<1>1. Written(n, base) = (CHOOSE t : t = F(t))[n]
  BY DEF Written
<1>2. \A m \in Nat : m >= base => m \div base \in 0 .. m - 1
  BY Shorter
<1> HIDE DEF One, More
<1>3. ASSUME NEW m \in Nat PROVE \E f : Upto(m, f)
  <2> DEFINE T == {k \in 0 .. m : \E f : Upto(k, f)}
  <2>1. 0 \in T
    <3> DEFINE f == [i \in 0 .. 0 |-> One(i)]
    <3>1. 0 < base
      OBVIOUS
    <3>2. f[0] = One(0) /\ f = [i \in 0 .. 0 |-> f[i]] /\ 0 .. 0 = {0}
      OBVIOUS
    <3> HIDE DEF f
    <3>3. Upto(0, f)
      BY <3>1, <3>2
    <3> HIDE DEF Upto
    <3> QED BY <3>3
  <2>2. ASSUME NEW k \in 1 .. m, k - 1 \in T PROVE k \in T
    <3>1. PICK f : Upto(k - 1, f)
      BY <2>2
    <3> DEFINE last == IF k < base THEN One(k) ELSE More(f[k \div base], k)
               h == [i \in 0 .. k |-> IF i < k THEN f[i] ELSE last]
    <3>2. h = [i \in 0 .. k |-> h[i]]
      OBVIOUS
    <3>3. h[k] = last /\ \A i \in 0 .. k - 1 : h[i] = f[i]
      OBVIOUS
    <3> HIDE DEF h
    <3>4. ASSUME NEW i \in 0 .. k PROVE h[i] = IF i < base THEN One(i) ELSE More(h[i \div base], i)
      <4>1. i >= base => i \div base \in 0 .. i - 1
        BY <1>2
      <4>2. i >= base => h[i \div base] = f[i \div base]
        BY <3>3, <4>1
      <4>3. CASE i < k
        <5>1. i \in 0 .. k - 1
          BY <4>3
        <5>2. f[i] = IF i < base THEN One(i) ELSE More(f[i \div base], i)
          BY <3>1, <5>1
        <5> QED BY <3>3, <4>2, <5>1, <5>2
      <4>4. CASE i = k
        BY <3>3, <4>2, <4>4
      <4> QED BY <4>3, <4>4
    <3>5. Upto(k, h)
      BY <3>2, <3>4
    <3> HIDE DEF Upto
    <3> QED BY <3>5
  <2> HIDE DEF T
  <2>3. m \in T
    BY <2>1, <2>2, Counting
  <2> QED BY <2>3 DEF T
<1>4. ASSUME NEW m \in Nat, NEW k \in 0 .. m, NEW f, Upto(m, f), NEW h, Upto(k, h)
      PROVE  f[k] = h[k]
  <2> DEFINE T == {i \in 0 .. k : f[i] = h[i]}
  <2>1. ASSUME NEW i \in 0 .. k, 0 .. i - 1 \subseteq T PROVE i \in T
    <3>1. i >= base => i \div base \in T
      BY <1>2, <2>1
    <3> i \in 0 .. m
      OBVIOUS
    <3>2. f[i] = IF i < base THEN One(i) ELSE More(f[i \div base], i)
      BY <1>4
    <3>3. h[i] = IF i < base THEN One(i) ELSE More(h[i \div base], i)
      BY <1>4
    <3>4. CASE i < base
      BY <3>2, <3>3, <3>4
    <3>5. CASE ~(i < base)
      <4>1. f[i \div base] = h[i \div base]
        BY <3>1, <3>5
      <4> QED BY <3>2, <3>3, <3>5, <4>1
    <3> QED BY <3>4, <3>5
  <2> HIDE DEF T
  <2>2. k \in T
    BY <2>1, StrongCounting
  <2> QED BY <2>2 DEF T
<1>5. \A m \in Nat : Upto(m, Some(m))
  <2> HIDE DEF Upto
  <2> QED BY <1>3
<1> HIDE DEF Some
<1>6. ASSUME NEW m \in Nat
      PROVE  W(m) = IF m < base THEN One(m) ELSE More(W(m \div base), m)
  <2>1. Some(m)[m] = IF m < base THEN One(m) ELSE More(Some(m)[m \div base], m)
    BY <1>5
  <2>2. ASSUME m >= base PROVE Some(m)[m \div base] = W(m \div base)
    <3>1. m \div base \in 0 .. m /\ m \div base \in Nat
      BY <1>2, <2>2
    <3> HIDE DEF Upto
    <3> QED BY <1>4, <1>5, <3>1
  <2> QED BY <2>1, <2>2
<1> HIDE DEF W
<1>7. g = F(g)
  <2>1. ASSUME NEW m \in Nat PROVE g[m] = IF m < base THEN One(m) ELSE More(g[m \div base], m)
    <3>1. m >= base => g[m \div base] = W(m \div base)
      BY <1>2
    <3> QED BY <1>6, <3>1
  <2> QED BY <2>1
<1> DEFINE t == CHOOSE f : f = F(f)
<1> HIDE DEF g
<1>8. t = F(t)
  <2> HIDE DEF F
  <2> QED BY <1>7
<1> HIDE DEF t
<1>9. \A m \in Nat : t[m] = IF m < base THEN One(m) ELSE More(t[m \div base], m)
  BY <1>8
<1>10. \A m \in Nat : Written(m, base) = t[m]
  BY DEF Written, t, One, More
<1>11. n >= base => n \div base \in Nat
  BY <1>2
<1>12. CASE n < base
  BY <1>9, <1>10, <1>12 DEF One
<1>13. CASE ~(n < base)
  <2>1. n \div base \in Nat
    BY <1>11, <1>13
  <2>2. Written(n, base) = More(Written(n \div base, base), n)
    BY <1>9, <1>10, <1>13, <2>1
  <2> QED BY <1>13, <2>2 DEF More
<1> QED BY <1>12, <1>13

LEMMA WrittenDecimal ==
    ASSUME NEW n \in Nat
    PROVE  /\ n < 10 => Written(n, 10) = <<Digit(n)>> /\ Digit(n) \in Chars
           /\ n >= 10 =>
                /\ n \div 10 \in Nat /\ n % 10 \in Nat /\ n % 10 <= 9 /\ n \div 10 # 0
                /\ n \div 10 < n /\ n = (n \div 10) * 10 + (n % 10)
                /\ Written(n, 10) = Append(Written(n \div 10, 10), Digit(n % 10))
                /\ Digit(n % 10) \in Chars
<1>1. Written(n, 10) = IF n < 10 THEN <<Digit(n)>>
                       ELSE Append(Written(n \div 10, 10), Digit(n % 10))
  BY WrittenDigits DEF Digit
<1>2. \A d \in Nat : d <= 9 => Digit(d) \in Chars
  BY DEF Chars
<1>3. n % 10 \in Nat /\ n % 10 <= 9 /\ n \div 10 \in Nat
  OBVIOUS
<1>4. n >= 10 => n \div 10 # 0 /\ n \div 10 < n /\ n = (n \div 10) * 10 + (n % 10)
  <2>1. n >= 10 => n \div 10 # 0 /\ n \div 10 < n
    OBVIOUS
  <2>2. n = (n \div 10) * 10 + (n % 10)
    OBVIOUS
  <2> QED BY <2>1, <2>2
<1>5. CASE n < 10
  <2>1. n <= 9 /\ ~(n >= 10)
    BY <1>5
  <2> QED BY <1>1, <1>2, <1>5, <2>1, Zenon
<1>6. CASE ~(n < 10)
  BY <1>1, <1>2, <1>3, <1>4, <1>6, Zenon
<1> QED BY <1>5, <1>6

LEMMA WrittenOctet ==
    ASSUME NEW n \in Nat, n <= 255 PROVE WrittenAs(n, Written(n, 10))
<1> DEFINE W(m) == Written(m, 10)
<1>1. \A m \in Nat : m < 10 => W(m) = <<Digit(m)>> /\ Digit(m) \in Chars
  BY WrittenDecimal
<1>2. \A m \in Nat : m >= 10 => /\ W(m) = Append(W(m \div 10), Digit(m % 10))
                                /\ Digit(m % 10) \in Chars
  BY WrittenDecimal
<1> HIDE DEF W
<1>3. CASE n < 10
  <2>1. W(n) = <<Digit(n)>> /\ Digit(n) \in Chars
    BY <1>1, <1>3
  <2> QED BY <1>3, <2>1 DEF WrittenAs, W
<1>4. CASE n >= 10 /\ n < 100
  <2> DEFINE h == n \div 10
             u == n % 10
  <2>1. h \in Nat /\ h < 10
    BY <1>4
  <2>2. W(n) = Append(W(h), Digit(u)) /\ Digit(u) \in Chars
    BY <1>2, <1>4
  <2> HIDE DEF h, u
  <2>3. W(h) = <<Digit(h)>> /\ Digit(h) \in Chars
    BY <1>1, <2>1
  <2> DEFINE w == W(n)
  <2>4. w = Append(<<Digit(h)>>, Digit(u))
    BY <2>2, <2>3, Zenon
  <2> HIDE DEF w
  <2>5. w \in Seq(Chars) /\ Len(w) = 2 /\ w[1] = Digit(h) /\ w[2] = Digit(u)
    BY <2>2, <2>3, <2>4
  <2> QED BY <1>4, <2>5, Zenon DEF WrittenAs, W, h, u, w
<1>5. CASE n >= 100
  <2> DEFINE m == n \div 10
             h == m \div 10
             t == m % 10
             u == n % 10
  <2>1. m \in Nat /\ m >= 10 /\ h \in Nat /\ h < 10 /\ n \div 100 = h
    BY <1>5
  <2>2. W(n) = Append(W(m), Digit(u)) /\ Digit(u) \in Chars
    BY <1>2, <1>5
  <2> HIDE DEF u
  <2>3. W(m) = Append(W(h), Digit(t)) /\ Digit(t) \in Chars
    <3> HIDE DEF m
    <3> QED BY <1>2, <2>1
  <2> HIDE DEF h, t
  <2>4. W(h) = <<Digit(h)>> /\ Digit(h) \in Chars
    BY <1>1, <2>1
  <2> DEFINE w == W(n)
  <2> HIDE DEF m
  <2>5. w = Append(Append(<<Digit(h)>>, Digit(t)), Digit(u))
    BY <2>2, <2>3, <2>4, Zenon
  <2> HIDE DEF w
  <2>6. w \in Seq(Chars) /\ Len(w) = 3 /\ w[1] = Digit(h) /\ w[2] = Digit(t) /\ w[3] = Digit(u)
    BY <2>2, <2>3, <2>4, <2>5
  <2>7. h = n \div 100 /\ t = (n \div 10) % 10 /\ u = n % 10
    BY <2>1 DEF m, t, u
  <2> QED BY <1>5, <2>6, <2>7 DEF WrittenAs, W, w
<1> QED BY <1>3, <1>4, <1>5

\* Before the first digit of a number, and after it: q are the octets before.
Waiting(s, q) ==
    s \in Pton4State /\ s.left = "no" /\ s.octets = Append(q, 0) /\ s.saw_digit = 0

Reading(s, q, n) ==
    s \in Pton4State /\ s.left = "no" /\ s.octets = Append(q, n) /\ s.saw_digit = 1

LEMMA AppendExcept ==
    ASSUME NEW q \in Seq(Nat), NEW v \in Nat, NEW x \in Nat
    PROVE  [Append(q, v) EXCEPT ![Len(q) + 1] = x] = Append(q, x)
<1> DEFINE a == Append(q, v)
           b == Append(q, x)
           e == [a EXCEPT ![Len(q) + 1] = x]
<1>1. Len(q) \in Nat /\ Len(q) + 1 \in 1 .. Len(q) + 1
  OBVIOUS
<1>2. a \in Seq(Nat) /\ b \in Seq(Nat) /\ Len(a) = Len(q) + 1 /\ Len(b) = Len(q) + 1
  BY AppendProperties
<1>3. b[Len(q) + 1] = x /\ \A i \in 1 .. Len(q) : a[i] = b[i]
  BY AppendProperties
<1> HIDE DEF a, b
<1>4. /\ e \in Seq(Nat) /\ Len(e) = Len(a)
      /\ \A j \in 1 .. Len(a) : e[j] = IF j = Len(q) + 1 THEN x ELSE a[j]
  BY <1>1, <1>2, ExceptSeq
<1> HIDE DEF e
<1>5. \A j \in 1 .. Len(e) : e[j] = b[j]
  <2> TAKE j \in 1 .. Len(e)
  <2>1. e[j] = IF j = Len(q) + 1 THEN x ELSE a[j]
    BY <1>4
  <2>2. j = Len(q) + 1 \/ j \in 1 .. Len(q)
    BY <1>1, <1>2, <1>4
  <2> QED BY <1>1, <1>3, <2>1, <2>2
<1>6. e = b
  BY <1>2, <1>4, <1>5, SeqEqual
<1> QED BY <1>6 DEF a, b, e

\* One more digit of the number v.
LEMMA ReadDigit ==
    ASSUME NEW q \in Seq(Nat), NEW v \in Nat, NEW d \in Nat, d <= 9, v * 10 + d <= 255,
           NEW s, (Waiting(s, q) /\ v = 0) \/ (Reading(s, q, v) /\ v # 0)
    PROVE  Reading(Pton4Step(s, Digit(d)), q, v * 10 + d)
<1> DEFINE ch == Digit(d)
           x  == v * 10 + d
           t  == Pton4Step(s, ch)
<1>1. hex_digit_value(ch) = d /\ d \in 0 .. 9
  BY NumeralValue DEF Digit
<1>2. s \in Pton4State /\ s.left = "no" /\ s.octets = Append(q, v)
  BY DEF Waiting, Reading
<1>3. ~ (s.saw_digit = 1 /\ v = 0)
  BY DEF Waiting, Reading
<1>4. Len(Append(q, v)) = Len(q) + 1 /\ Append(q, v)[Len(q) + 1] = v
  BY AppendProperties
<1>5. Last(s.octets) = v /\ Len(s.octets) = Len(q) + 1
  BY <1>2, <1>4 DEF Last
<1>6. x \in Nat /\ ~ (x > 255)
  OBVIOUS
<1> HIDE DEF ch
<1>7. t = [s EXCEPT !.octets[Len(s.octets)] = x, !.saw_digit = 1]
  BY <1>1, <1>2, <1>3, <1>5, <1>6, Zenon DEF Pton4Step
<1>8. [s.octets EXCEPT ![Len(s.octets)] = x] = Append(q, x)
  <2>1. [Append(q, v) EXCEPT ![Len(q) + 1] = x] = Append(q, x)
    BY <1>6, AppendExcept
  <2> QED BY <1>2, <1>5, <2>1, Zenon
<1>9. t \in Pton4State
  BY <1>2, Pton4StepType
<1> HIDE DEF t, x
<1>10. t.left = s.left /\ t.saw_digit = 1 /\ t.octets = [s.octets EXCEPT ![Len(s.octets)] = x]
  BY <1>2, <1>7 DEF Pton4State
<1> QED BY <1>2, <1>8, <1>9, <1>10, Zenon DEF Reading, ch, t, x

LEMMA DotValue == hex_digit_value(".") = -1
<1>1. "." \notin Range(Numerals \o UpperCase)
  BY DEF Numerals, UpperCase, Range
<1> QED BY <1>1 DEF hex_digit_value, DigitValues

LEMMA ReadDot ==
    ASSUME NEW q \in Seq(Nat), NEW n \in Nat, Len(q) < 3, NEW s, Reading(s, q, n)
    PROVE  Waiting(Pton4Step(s, "."), Append(q, n))
<1> DEFINE t == Pton4Step(s, ".")
<1>1. s \in Pton4State /\ s.left = "no" /\ s.octets = Append(q, n) /\ s.saw_digit = 1
  BY DEF Reading
<1>2. Len(s.octets) < 4
  BY <1>1, AppendProperties
<1>3. hex_digit_value(".") = -1 /\ -1 \notin 0 .. 9
  BY DotValue
<1>4. t = [s EXCEPT !.octets = Append(@, 0), !.saw_digit = 0]
  BY <1>1, <1>2, <1>3, Zenon DEF Pton4Step
<1>5. t \in Pton4State
  BY <1>1, Pton4StepType
<1> HIDE DEF t
<1>6. t.left = s.left /\ t.saw_digit = 0 /\ t.octets = Append(s.octets, 0)
  BY <1>1, <1>4 DEF Pton4State
<1> QED BY <1>1, <1>5, <1>6, Zenon DEF Waiting, t

\* The text has w behind its place p.
Holds(src, p, w) ==
    p + Len(w) <= Len(src) /\ \A j \in 1 .. Len(w) : src[p + j] = w[j]

LEMMA ReadAt ==
    ASSUME NEW Char, NEW src \in Seq(Char), NEW i \in Nat, NEW j, j = i + 1, j <= Len(src),
           NEW q \in Seq(Nat), NEW v \in Nat, NEW d \in Nat, d <= 9, src[j] = Digit(d),
           NEW x, x = v * 10 + d, x <= 255,
           \/ Waiting(Pton4States(src)[i], q) /\ v = 0
           \/ Reading(Pton4States(src)[i], q, v) /\ v # 0
    PROVE  Reading(Pton4States(src)[j], q, x)
<1>1. j \in 1 .. Len(src) /\ j - 1 = i
  OBVIOUS
<1>2. Pton4States(src)[j] = Pton4Step(Pton4States(src)[i], Digit(d))
  BY <1>1, Pton4Turns
<1> QED BY <1>2, ReadDigit

\* From the place p of a text, a number is read.
LEMMA ReadOctet ==
    ASSUME NEW Char, NEW src \in Seq(Char), NEW p \in Nat, NEW n \in Nat, n <= 255, NEW q \in Seq(Nat),
           NEW w, w = Written(n, 10), Holds(src, p, w), Waiting(Pton4States(src)[p], q),
           NEW next, next = p + Len(w)
    PROVE  Reading(Pton4States(src)[next], q, n)
<1> DEFINE f == Pton4States(src)
<1>1. WrittenAs(n, w)
  BY WrittenOctet
<1>2. p + Len(w) <= Len(src) /\ \A j \in 1 .. Len(w) : src[p + j] = w[j]
  BY DEF Holds
<1> Len(src) \in Nat
  OBVIOUS
<1>3. CASE n < 10
  <2>1. Len(w) = 1 /\ w[1] = Digit(n)
    BY <1>1, <1>3 DEF WrittenAs
  <2>2. src[p + 1] = Digit(n)
    BY <1>2, <2>1
  <2>3. n = 0 * 10 + n /\ n <= 9 /\ p + 1 <= Len(src)
    BY <1>2, <1>3, <2>1
  <2>4. Reading(f[p + 1], q, n)
    BY <2>2, <2>3, ReadAt
  <2> QED BY <2>1, <2>4
<1>4. CASE n >= 10 /\ n < 100
  <2> DEFINE h == n \div 10
             u == n % 10
  <2>1. Len(w) = 2 /\ w[1] = Digit(h) /\ w[2] = Digit(u)
    BY <1>1, <1>4 DEF WrittenAs
  <2>2. h \in Nat /\ u \in Nat /\ h # 0 /\ h <= 9 /\ u <= 9 /\ n = h * 10 + u
    BY <1>4
  <2> HIDE DEF h, u
  <2>3. src[p + 1] = Digit(h) /\ src[p + 2] = Digit(u)
    <3>1. 1 \in 1 .. Len(w) /\ 2 \in 1 .. Len(w)
      BY <2>1
    <3> QED BY <1>2, <2>1, <3>1, Zenon
  <2>4. /\ p + 1 <= Len(src) /\ p + 2 <= Len(src) /\ p + 1 \in Nat
        /\ p + 2 = (p + 1) + 1
    BY <1>2, <2>1
  <2> h = 0 * 10 + h /\ h <= 255
    BY <2>2
  <2>5. Reading(f[p + 1], q, h)
    BY <2>2, <2>3, <2>4, ReadAt
  <2>6. Reading(f[p + 2], q, n)
    BY <2>2, <2>3, <2>4, <2>5, ReadAt
  <2> QED BY <2>1, <2>6
<1>5. CASE n >= 100
  <2> DEFINE h == n \div 100
             t == (n \div 10) % 10
             u == n % 10
             v == h * 10 + t
  <2>1. Len(w) = 3 /\ w[1] = Digit(h) /\ w[2] = Digit(t) /\ w[3] = Digit(u)
    BY <1>1, <1>5 DEF WrittenAs
  <2>2. /\ h \in Nat /\ t \in Nat /\ u \in Nat /\ h # 0
        /\ h <= 9 /\ t <= 9 /\ u <= 9 /\ v * 10 + u = n
    BY <1>5
  <2> HIDE DEF h, t, u
  <2>3. src[p + 1] = Digit(h) /\ src[p + 2] = Digit(t) /\ src[p + 3] = Digit(u)
    <3>1. 1 \in 1 .. Len(w) /\ 2 \in 1 .. Len(w) /\ 3 \in 1 .. Len(w)
      BY <2>1
    <3> QED BY <1>2, <2>1, <3>1, Zenon
  <2>4. /\ p + 1 <= Len(src) /\ p + 2 <= Len(src) /\ p + 3 <= Len(src)
        /\ p + 1 \in Nat /\ p + 2 \in Nat
        /\ p + 2 = (p + 1) + 1 /\ p + 3 = (p + 2) + 1
    <3>1. p + 3 <= Len(src)
      BY <1>2, <2>1
    <3> QED BY <3>1
  <2> h = 0 * 10 + h /\ h <= 255
    BY <2>2
  <2>5. Reading(f[p + 1], q, h)
    BY <2>2, <2>3, <2>4, ReadAt
  <2>6. v \in Nat /\ v # 0 /\ v <= 255 /\ n = v * 10 + u
    BY <2>2
  <2> DEFINE first == p + 1
             second == p + 2
  <2> /\ first \in Nat /\ second = first + 1 /\ second <= Len(src)
      /\ src[second] = Digit(t) /\ Reading(f[first], q, h) /\ v = h * 10 + t
    BY <2>3, <2>4, <2>5
  <2> HIDE DEF v, first, second
  <2>7. Reading(f[second], q, v)
    BY <2>2, <2>6, ReadAt
  <2> DEFINE i == p + 2
             j == p + 3
  <2>8. i \in Nat /\ j = i + 1 /\ j <= Len(src) /\ src[j] = Digit(u) /\ Reading(f[i], q, v)
    BY <2>3, <2>4, <2>7 DEF second
  <2> HIDE DEF i, j
  <2>9. Reading(f[j], q, n)
    BY <2>2, <2>6, <2>8, ReadAt
  <2> QED BY <2>1, <2>9 DEF j
<1> QED BY <1>3, <1>4, <1>5

LEMMA ReadDotAt ==
    ASSUME NEW Char, NEW src \in Seq(Char), NEW p \in Nat, NEW q \in Seq(Nat), NEW n \in Nat,
           NEW w, w = <<".">>, Holds(src, p, w), Reading(Pton4States(src)[p], q, n), Len(q) < 3,
           NEW next, next = p + 1, NEW r, r = Append(q, n)
    PROVE  Waiting(Pton4States(src)[next], r)
<1>1. p + 1 <= Len(src) /\ src[p + 1] = "."
  BY DEF Holds
<1>2. p + 1 \in 1 .. Len(src) /\ (p + 1) - 1 = p
  BY <1>1
<1>3. Pton4States(src)[p + 1] = Pton4Step(Pton4States(src)[p], ".")
  BY <1>1, <1>2, Pton4Turns
<1> QED BY <1>3, ReadDot

LEMMA HoldsParts ==
    ASSUME NEW Char, NEW src \in Seq(Char), NEW x \in Seq(Char), NEW y \in Seq(Char),
           NEW z, z = x \o y, Holds(src, 0, z)
    PROVE  Len(z) = Len(x) + Len(y) /\ Holds(src, 0, x) /\ Holds(src, Len(x), y)
<1>1. /\ Len(x) \in Nat /\ Len(y) \in Nat /\ Len(z) = Len(x) + Len(y)
      /\ \A i \in 1 .. Len(x) + Len(y) : z[i] = IF i <= Len(x) THEN x[i] ELSE y[i - Len(x)]
  BY ConcatProperties
<1>2. Len(z) <= Len(src) /\ \A j \in 1 .. Len(z) : src[j] = z[j]
  BY <1>1 DEF Holds
<1>3. Holds(src, 0, x)
  <2>1. ASSUME NEW j \in 1 .. Len(x) PROVE src[j] = x[j]
    <3>1. j \in 1 .. Len(z)
      BY <1>1
    <3> QED BY <1>1, <1>2, <3>1
  <2>2. ASSUME NEW j \in 1 .. Len(x) PROVE src[0 + j] = x[j]
    BY <2>1
  <2> QED BY <1>1, <1>2, <2>2 DEF Holds
<1>4. Holds(src, Len(x), y)
  <2>1. ASSUME NEW j \in 1 .. Len(y) PROVE src[Len(x) + j] = y[j]
    <3>1. /\ Len(x) + j \in 1 .. Len(z) /\ ~ (Len(x) + j <= Len(x))
          /\ (Len(x) + j) - Len(x) = j
      BY <1>1
    <3>2. z[Len(x) + j] = y[j]
      BY <1>1, <3>1
    <3> QED BY <1>2, <3>1, <3>2
  <2> QED BY <1>1, <1>2, <2>1 DEF Holds
<1> QED BY <1>1, <1>3, <1>4

LEMMA FourOctets ==
    ASSUME NEW a \in Nat, NEW b \in Nat, NEW c \in Nat, NEW d \in Nat,
           NEW e, e = <<>>, NEW q, q = Append(e, a), NEW r, r = Append(q, b), NEW s, s = Append(r, c),
           NEW t, t = Append(s, d)
    PROVE  /\ q \in Seq(Nat) /\ Len(q) = 1 /\ r \in Seq(Nat) /\ Len(r) = 2
           /\ s \in Seq(Nat) /\ Len(s) = 3 /\ t \in Seq(Nat) /\ Len(t) = 4
           /\ t[1] = a /\ t[2] = b /\ t[3] = c /\ t[4] = d
<1>1. q = <<a>>
  OBVIOUS
<1>2. q \in Seq(Nat) /\ Len(q) = 1 /\ q[1] = a
  BY <1>1
<1>3. r \in Seq(Nat) /\ Len(r) = 2 /\ r[1] = a /\ r[2] = b
  BY <1>2, AppendProperties
<1>4. s \in Seq(Nat) /\ Len(s) = 3 /\ s[1] = a /\ s[2] = b /\ s[3] = c
  BY <1>3, AppendProperties
<1>5. t \in Seq(Nat) /\ Len(t) = 4 /\ t[1] = a /\ t[2] = b /\ t[3] = c /\ t[4] = d
  BY <1>4, AppendProperties
<1> QED BY <1>2, <1>3, <1>4, <1>5

\* The text of every IPv4 address has 7 to 15 characters, none of them NUL, and
\* reads back as the address.
LEMMA QuadReadsBack ==
    ASSUME NEW a \in [1 .. 4 -> 0 .. 255]
    PROVE  LET t == QuadText(a)
           IN  /\ t \in Seq(Chars) /\ Len(t) >= 7 /\ Len(t) <= 15
               /\ Holds(t, 0, Written(a[1], 10)) /\ Holds(t, Len(Written(a[1], 10)), <<".">>)
               /\ inet_pton4(t) = a
<1> DEFINE n1 == a[1]
           n2 == a[2]
           n3 == a[3]
           n4 == a[4]
           w1 == Written(n1, 10)
           w2 == Written(n2, 10)
           w3 == Written(n3, 10)
           w4 == Written(n4, 10)
           dot == <<".">>
           t2 == w1 \o dot
           t3 == t2 \o w2
           t4 == t3 \o dot
           t5 == t4 \o w3
           t6 == t5 \o dot
           t == t6 \o w4
           q0 == <<>>
           q1 == Append(q0, n1)
           q2 == Append(q1, n2)
           q3 == Append(q2, n3)
           q4 == Append(q3, n4)
           f == Pton4States(t)
<1>1. /\ n1 \in Nat /\ n1 <= 255 /\ n2 \in Nat /\ n2 <= 255
      /\ n3 \in Nat /\ n3 <= 255 /\ n4 \in Nat /\ n4 <= 255
  <2>1. \A n \in 0 .. 255 : n \in Nat /\ n <= 255
    OBVIOUS
  <2>2. \A k \in 1 .. 4 : a[k] \in 0 .. 255
    BY Zenon
  <2>3. \A k \in 1 .. 4 : a[k] \in Nat /\ a[k] <= 255
    BY <2>1, <2>2, Zenon
  <2>4. 1 \in 1 .. 4 /\ 2 \in 1 .. 4 /\ 3 \in 1 .. 4 /\ 4 \in 1 .. 4
    OBVIOUS
  <2> QED BY <2>3, <2>4, Zenon
<1>2. QuadText(a) = t
  BY DEF QuadText
<1>3. /\ w1 = Written(n1, 10) /\ w2 = Written(n2, 10)
      /\ w3 = Written(n3, 10) /\ w4 = Written(n4, 10)
  OBVIOUS
<1>4. n1 = a[1] /\ n2 = a[2] /\ n3 = a[3] /\ n4 = a[4]
  OBVIOUS
<1> HIDE DEF n1, n2, n3, n4, w1, w2, w3, w4, dot, t2, t3, t4, t5, t6, t, q0, q1, q2, q3, q4, f
<1>5. ASSUME NEW n \in Nat, n <= 255, NEW w, w = Written(n, 10)
      PROVE  w \in Seq(Chars) /\ Len(w) \in Nat /\ Len(w) >= 1 /\ Len(w) <= 3
  <2>1. WrittenAs(n, w)
    BY <1>5, WrittenOctet
  <2> DEFINE len == Len(w)
  <2>2. w \in Seq(Chars) /\ (len = 1 \/ len = 2 \/ len = 3)
    BY <2>1, Zenon DEF WrittenAs
  <2> HIDE DEF len
  <2>3. len \in Nat /\ len >= 1 /\ len <= 3
    BY <2>2
  <2> QED BY <2>2, <2>3, Zenon DEF len
<1>6. /\ w1 \in Seq(Chars) /\ Len(w1) \in Nat /\ Len(w1) >= 1 /\ Len(w1) <= 3
      /\ w2 \in Seq(Chars) /\ Len(w2) \in Nat /\ Len(w2) >= 1 /\ Len(w2) <= 3
      /\ w3 \in Seq(Chars) /\ Len(w3) \in Nat /\ Len(w3) >= 1 /\ Len(w3) <= 3
      /\ w4 \in Seq(Chars) /\ Len(w4) \in Nat /\ Len(w4) >= 1 /\ Len(w4) <= 3
  BY <1>1, <1>3, <1>5, Zenon
<1>7. dot \in Seq(Chars) /\ Len(dot) = 1
  BY DEF Chars, dot
<1>8. \A x, y \in Seq(Chars) : x \o y \in Seq(Chars)
  BY ConcatProperties
<1>9. /\ t2 \in Seq(Chars) /\ t3 \in Seq(Chars) /\ t4 \in Seq(Chars)
      /\ t5 \in Seq(Chars) /\ t6 \in Seq(Chars) /\ t \in Seq(Chars)
  <2>1. t2 \in Seq(Chars)
    BY <1>6, <1>7, <1>8, Zenon DEF t2
  <2>2. t3 \in Seq(Chars)
    BY <1>6, <1>8, <2>1, Zenon DEF t3
  <2>3. t4 \in Seq(Chars)
    BY <1>7, <1>8, <2>2, Zenon DEF t4
  <2>4. t5 \in Seq(Chars)
    BY <1>6, <1>8, <2>3, Zenon DEF t5
  <2>5. t6 \in Seq(Chars)
    BY <1>7, <1>8, <2>4, Zenon DEF t6
  <2>6. t \in Seq(Chars)
    BY <1>6, <1>8, <2>5, Zenon DEF t
  <2> QED BY <2>1, <2>2, <2>3, <2>4, <2>5, <2>6
<1> DEFINE Split(x, y, z) ==
             Len(z) = Len(x) + Len(y) /\ Holds(t, 0, x) /\ Holds(t, Len(x), y)
<1>10. ASSUME NEW x \in Seq(Chars), NEW y \in Seq(Chars), Holds(t, 0, x \o y)
       PROVE  Split(x, y, x \o y)
  BY <1>9, <1>10, HoldsParts
<1> HIDE DEF Split
<1>11. Holds(t, 0, t)
  BY <1>9 DEF Holds
<1>12. Split(t6, w4, t6 \o w4) /\ t = t6 \o w4
  BY <1>6, <1>9, <1>10, <1>11, Zenon DEF t
<1>13. Split(t5, dot, t5 \o dot) /\ t6 = t5 \o dot
  BY <1>7, <1>9, <1>10, <1>12, Zenon DEF t6, Split
<1>14. Split(t4, w3, t4 \o w3) /\ t5 = t4 \o w3
  BY <1>6, <1>9, <1>10, <1>13, Zenon DEF t5, Split
<1>15. Split(t3, dot, t3 \o dot) /\ t4 = t3 \o dot
  BY <1>7, <1>9, <1>10, <1>14, Zenon DEF t4, Split
<1>16. Split(t2, w2, t2 \o w2) /\ t3 = t2 \o w2
  BY <1>6, <1>9, <1>10, <1>15, Zenon DEF t3, Split
<1>17. Split(w1, dot, w1 \o dot) /\ t2 = w1 \o dot
  BY <1>6, <1>7, <1>10, <1>16, Zenon DEF t2, Split
<1>18. /\ Len(t) = Len(t6) + Len(w4) /\ Len(t6) = Len(t5) + Len(dot)
       /\ Len(t5) = Len(t4) + Len(w3) /\ Len(t4) = Len(t3) + Len(dot)
       /\ Len(t3) = Len(t2) + Len(w2) /\ Len(t2) = Len(w1) + Len(dot)
  BY <1>12, <1>13, <1>14, <1>15, <1>16, <1>17, Zenon DEF Split
<1>19. /\ Holds(t, Len(t6), w4) /\ Holds(t, Len(t5), dot) /\ Holds(t, Len(t4), w3)
       /\ Holds(t, Len(t3), dot) /\ Holds(t, Len(t2), w2) /\ Holds(t, Len(w1), dot)
       /\ Holds(t, 0, w1)
  BY <1>12, <1>13, <1>14, <1>15, <1>16, <1>17, Zenon DEF Split
<1>20. Len(t) >= 7 /\ Len(t) <= 15
  BY <1>6, <1>7, <1>18
<1>21. /\ Len(t2) \in Nat /\ Len(t3) \in Nat /\ Len(t4) \in Nat
       /\ Len(t5) \in Nat /\ Len(t6) \in Nat /\ Len(t) \in Nat
       /\ Len(t2) = Len(w1) + 1 /\ Len(t4) = Len(t3) + 1 /\ Len(t6) = Len(t5) + 1
       /\ Len(w1) = 0 + Len(w1)
  BY <1>6, <1>7, <1>18
<1>22. /\ q1 \in Seq(Nat) /\ Len(q1) = 1 /\ q2 \in Seq(Nat) /\ Len(q2) = 2
       /\ q3 \in Seq(Nat) /\ Len(q3) = 3 /\ q4 \in Seq(Nat) /\ Len(q4) = 4
       /\ q4[1] = n1 /\ q4[2] = n2 /\ q4[3] = n3 /\ q4[4] = n4
  <2>1. /\ q0 = <<>> /\ q1 = Append(q0, n1) /\ q2 = Append(q1, n2)
        /\ q3 = Append(q2, n3) /\ q4 = Append(q3, n4)
    BY Zenon DEF q0, q1, q2, q3, q4
  <2> QED BY <1>1, <2>1, FourOctets
<1>23. a \in Seq(Nat) /\ Len(a) = 4
  <2>1. a \in [1 .. 4 -> Nat]
    OBVIOUS
  <2>2. \A m \in Nat : \A g \in [1 .. m -> Nat] : g \in Seq(Nat) /\ Len(g) = m
    BY FunctionIsSeq
  <2>3. \A m \in Nat : m = 4 /\ a \in [1 .. m -> Nat] => a \in Seq(Nat) /\ Len(a) = m
    BY <2>2, Zenon
  <2> QED BY <2>1, <2>3
<1>24. q4 = a
  <2>1. Len(q4) = Len(a) /\ \A k \in 1 .. Len(q4) : q4[k] = a[k]
    BY <1>4, <1>22, <1>23
  <2> QED BY <1>22, <1>23, <2>1, SeqEqual, Zenon
<1>25. Len(q0) < 3 /\ Len(q1) < 3 /\ Len(q2) < 3 /\ q0 \in Seq(Nat) /\ 0 \in Nat
  BY <1>22 DEF q0
<1>26. Waiting(f[0], q0)
  <2>1. f[0] = FirstPton4
    BY <1>9, Pton4Turns, Zenon DEF f
  <2>2. Append(<<>>, 0) = <<0>>
    OBVIOUS
  <2>3. f[0] \in Pton4State
    BY <2>1 DEF FirstPton4, Pton4State
  <2> QED BY <2>1, <2>2, <2>3 DEF Waiting, FirstPton4, q0
<1>27. ASSUME NEW p \in Nat, NEW n \in Nat, n <= 255, NEW q \in Seq(Nat),
              NEW w, w = Written(n, 10), Holds(t, p, w), Waiting(f[p], q),
              NEW next, next = p + Len(w)
       PROVE  Reading(f[next], q, n)
  BY <1>9, <1>27, ReadOctet, Zenon DEF f
<1>28. ASSUME NEW p \in Nat, NEW q \in Seq(Nat), NEW n \in Nat, Holds(t, p, dot),
              Reading(f[p], q, n), Len(q) < 3, NEW next, next = p + 1
       PROVE  Waiting(f[next], Append(q, n))
  BY <1>9, <1>28, ReadDotAt, Zenon DEF f, dot
<1>29. Reading(f[Len(w1)], q0, n1)
  BY <1>1, <1>3, <1>19, <1>21, <1>25, <1>26, <1>27, Zenon
<1>30. Waiting(f[Len(t2)], q1)
  BY <1>1, <1>6, <1>19, <1>21, <1>25, <1>28, <1>29, Zenon DEF q1
<1>31. Reading(f[Len(t3)], q1, n2)
  BY <1>1, <1>3, <1>18, <1>19, <1>21, <1>22, <1>27, <1>30, Zenon
<1>32. Waiting(f[Len(t4)], q2)
  BY <1>1, <1>19, <1>21, <1>22, <1>25, <1>28, <1>31, Zenon DEF q2
<1>33. Reading(f[Len(t5)], q2, n3)
  BY <1>1, <1>3, <1>18, <1>19, <1>21, <1>22, <1>27, <1>32, Zenon
<1>34. Waiting(f[Len(t6)], q3)
  BY <1>1, <1>19, <1>21, <1>22, <1>25, <1>28, <1>33, Zenon DEF q3
<1>35. Reading(f[Len(t)], q3, n4)
  BY <1>1, <1>3, <1>18, <1>19, <1>21, <1>22, <1>27, <1>34, Zenon
<1>36. f[Len(t)].left = "no" /\ f[Len(t)].octets = q4 /\ f[Len(t)].saw_digit = 1
  BY <1>35, Zenon DEF Reading, q4
<1>37. inet_pton4(t) = a
  BY <1>22, <1>24, <1>36, Zenon DEF inet_pton4, f
<1>38. /\ Holds(t, 0, Written(a[1], 10)) /\ Holds(t, Len(Written(a[1], 10)), <<".">>)
  BY <1>19, Zenon DEF w1, n1, dot
<1> QED BY <1>2, <1>9, <1>20, <1>37, <1>38, Zenon

\* What is copied into memory that was zeroed is the string that was copied.
LEMMA CopiedText ==
    ASSUME NEW C, NUL \notin C, NEW t \in Seq(C), NEW n \in Nat, Len(t) < n
    PROVE  CString(Cells(t, n, NUL)) = t
<1> DEFINE c == Cells(t, n, NUL)
           I == {i \in 1 .. Len(c) : c[i] = NUL}
           first == Len(t) + 1
<1>1. Len(t) \in Nat /\ \A i \in 1 .. Len(t) : t[i] \in C
  OBVIOUS
<1>2. c \in [1 .. n -> C \cup {NUL}]
  BY <1>1 DEF Cells
<1>3. \A i \in 1 .. n : c[i] = IF i <= Len(t) THEN t[i] ELSE NUL
  BY DEF Cells
<1> HIDE DEF c
<1>4. c \in Seq(C \cup {NUL}) /\ Len(c) = n
  BY <1>2, FunctionIsSeq
<1>5. I = first .. n
  <2>1. ASSUME NEW i \in 1 .. n PROVE c[i] = NUL <=> first <= i
    <3>1. CASE i <= Len(t)
      <4>1. c[i] \in C
        BY <1>1, <1>3, <3>1
      <4> QED BY <1>1, <3>1, <4>1
    <3>2. CASE ~ (i <= Len(t))
      BY <1>1, <1>3, <3>2
    <3> QED BY <3>1, <3>2
  <2> QED BY <1>1, <1>4, <2>1
<1>6. first \in I /\ \A i \in I : first <= i
  BY <1>1, <1>5
<1>7. \A x \in I : (\A y \in I : x <= y) => x = first
  BY <1>1, <1>5
<1> DEFINE least == CHOOSE x \in I : \A y \in I : x <= y
<1> HIDE DEF I
<1>8. least = first
  BY <1>6, <1>7
<1> HIDE DEF least
<1>9. SelectInSeq(c, LAMBDA ch : ch = NUL) = first
  BY <1>6, <1>8, Zenon DEF SelectInSeq, Min, I, least
<1>10. CString(c) = SubSeq(c, 1, first - 1)
  <2>1. first # 0
    BY <1>1
  <2> QED BY <1>9, <2>1, Zenon DEF CString
<1>11. first - 1 = Len(t)
  BY <1>1
<1>12. SubSeq(c, 1, Len(t)) = t
  <2>1. \A i \in 1 .. Len(t) : c[i] = t[i] /\ c[i] \in C
    BY <1>1, <1>3
  <2> DEFINE s == SubSeq(c, 1, Len(t))
  <2>2. /\ s \in Seq(C)
        /\ Len(s) = IF 1 <= Len(t) THEN Len(t) - 1 + 1 ELSE 0
        /\ \A i \in 1 .. Len(t) - 1 + 1 : s[i] = c[1 + i - 1]
    BY <1>1, <2>1, SubSeqProperties
  <2> HIDE DEF s
  <2>3. Len(s) = Len(t)
    BY <1>1, <2>2
  <2>4. \A i \in 1 .. Len(t) : s[i] = t[i]
    <3> TAKE i \in 1 .. Len(t)
    <3>1. i \in 1 .. Len(t) - 1 + 1 /\ 1 + i - 1 = i
      BY <1>1
    <3> QED BY <2>1, <2>2, <3>1
  <2> QED BY <2>2, <2>3, <2>4, SeqEqual DEF s
<1> QED BY <1>10, <1>11, <1>12 DEF c

\* Whatever the address and the size of the buffer.
LEMMA NtopReadsBack ==
    ASSUME NEW a \in [1 .. 4 -> 0 .. 255], NEW size \in Nat
    PROVE  LET out == inet_ntop4(a, size, NUL)
               whole == CString(inet_ntop4(a, 46, NUL))
           IN  IF Len(whole) < size THEN out # Invalid /\ inet_pton4(CString(out)) = a
                                    ELSE out = Invalid
<1> DEFINE t == QuadText(a)
<1>1. t \in Seq(Chars) /\ Len(t) >= 7 /\ Len(t) <= 15 /\ inet_pton4(t) = a
  BY QuadReadsBack
<1> HIDE DEF t
<1>2. Len(t) \in Nat
  BY <1>1
<1>3. \A n \in Nat : inet_ntop4(a, n, NUL) = IF Len(t) >= n THEN Invalid ELSE Cells(t, n, NUL)
  BY DEF inet_ntop4, t
<1>4. CString(inet_ntop4(a, 46, NUL)) = t
  BY <1>1, <1>2, <1>3, NoNulInChars, CopiedText
<1>5. CASE Len(t) < size
  <2>1. inet_ntop4(a, size, NUL) = Cells(t, size, NUL)
    BY <1>2, <1>3, <1>5
  <2>2. Cells(t, size, NUL) # Invalid
    <3>1. DOMAIN Cells(t, size, NUL) = 1 .. size /\ 1 \in 1 .. size
      BY <1>2, <1>5 DEF Cells
    <3>2. DOMAIN Invalid = {}
      BY DEF Invalid
    <3> QED BY <3>1, <3>2
  <2>3. CString(Cells(t, size, NUL)) = t
    BY <1>1, <1>5, NoNulInChars, CopiedText
  <2> QED BY <1>1, <1>4, <1>5, <2>1, <2>2, <2>3, Zenon
<1>6. CASE ~ (Len(t) < size)
  <2>1. inet_ntop4(a, size, NUL) = Invalid
    BY <1>2, <1>3, <1>6
  <2> QED BY <1>4, <1>6, <2>1, Zenon
<1> QED BY <1>5, <1>6

\* inet_ntop4 and inet_pton4, for all 2^32 addresses and every size of the
\* buffer: what is written into memory that was zeroed reads back as the address,
\* and nothing is written only if the text and its NUL do not fit.
THEOREM AddressesReadBack == Spec => []Ntop4ReadsBack
<1> DEFINE Asked == input.op = "inet_ntop4" =>
                      input.address \in Quads /\ input.size \in Sizes
           Answered == Returned("inet_ntop4") =>
                         output[1] = inet_ntop4(input.address, input.size, input.fill)
           Inv == Asked /\ Answered
<1>1. Init => Inv
  BY DEF Init, Between, Returned
<1>2. Inv /\ [Next]_vars => Inv'
  <2> SUFFICES ASSUME Inv, [Next]_vars PROVE Inv'
    OBVIOUS
  <2>1. CASE Call
    BY <2>1 DEF Call, Inputs, Returned
  <2>2. CASE Return
    BY <2>2 DEF Return, Between, Returned
  <2>3. CASE Ntop4
    BY <2>3 DEF Ntop4, Convert, Returned
  <2>4. CASE Pton4 \/ Pton6 \/ Ntop6 \/ Others
    BY <2>4 DEF Pton4, Pton6, Ntop6, Others,
            Scan, ScanNoReturn, PtonOther, NtopOther, Convert, Returned
  <2>5. CASE UNCHANGED vars
    BY <2>5 DEF vars, Returned
  <2> QED BY <2>1, <2>2, <2>3, <2>4, <2>5 DEF Next, Others
<1>3. Inv => Ntop4ReadsBack
  <2> SUFFICES ASSUME Inv, Returned("inet_ntop4"), input.fill = NUL
               PROVE  ReadsBack(inet_pton4(CString(output[1])),
                                CString(inet_ntop4(input.address, 46, NUL)))
    BY Zenon DEF Ntop4ReadsBack
  <2>1. input.address \in [1 .. 4 -> 0 .. 255] /\ input.size \in Nat
    <3>1. input.address \in Quads /\ input.size \in Sizes
      BY DEF Returned
    <3> QED BY <3>1, QuadsAssumption, SizesAssumption
  <2>2. output[1] = inet_ntop4(input.address, input.size, NUL)
    BY Zenon
  <2> QED BY <2>1, <2>2, NtopReadsBack, Zenon DEF ReadsBack
<1> QED BY <1>1, <1>2, <1>3, PTL DEF Spec

-----------------------------------------------------------------------------
(* What an IPv4 text means *)

LEMMA DigitChar ==
    \A ch : hex_digit_value(ch) \in 0 .. 9 =>
      ch = Digit(hex_digit_value(ch)) /\ (hex_digit_value(ch) = 0 => ch = "0")
<1> DEFINE all == Numerals \o UpperCase
           index(c) == CHOOSE i \in 1 .. 22 : all[i] = c
<1>1. /\ \A ch \in Range(all) : \E i \in 1 .. 22 : all[i] = ch
      /\ \A i \in 1 .. 16 : Numerals[i] = all[i] /\ all[i] \in Range(all)
      /\ Numerals[1] = "0"
  BY DEF Numerals, UpperCase, Range
<1>2. /\ DOMAIN DigitValues = Range(all)
      /\ \A ch \in Range(all) : DigitValues[ch] = index(ch) - 1
  BY DEF DigitValues
<1> HIDE DEF all
<1>3. ASSUME NEW ch \in Range(all) PROVE index(ch) \in 1 .. 22 /\ all[index(ch)] = ch
  BY <1>1
<1> HIDE DEF index
<1> TAKE ch
<1> HAVE hex_digit_value(ch) \in 0 .. 9
<1> DEFINE d == hex_digit_value(ch)
<1>4. ch \in Range(all) /\ index(ch) = d + 1
  BY <1>2, <1>3 DEF hex_digit_value
<1> HIDE DEF d
<1>5. d \in 0 .. 9
  BY DEF d
<1>6. ch = all[d + 1] /\ d + 1 \in 1 .. 16
  BY <1>3, <1>4, <1>5
<1>7. ch = Digit(d) /\ (d = 0 => ch = Numerals[1])
  BY <1>1, <1>5, <1>6 DEF Digit
<1> QED BY <1>1, <1>7 DEF d

LEMMA ZeroChar == hex_digit_value("0") = 0
<1>1. Numerals[0 + 1] = "0"
  BY DEF Numerals
<1>2. hex_digit_value(Numerals[0 + 1]) = 0
  BY NumeralValue
<1> QED BY <1>1, <1>2

\* The numbers that the beginnings of a row of digits stand for.
Sums(w) ==
    {v \in [0 .. Len(w) -> Int] :
       v[0] = 0 /\ \A k \in 1 .. Len(w) : v[k] = v[k - 1] * 10 + hex_digit_value(w[k])}

LEMMA OctetTurns ==
    ASSUME NEW Char, NEW w \in Seq(Char)
    PROVE  \E v \in Sums(w) : Octet(w) = v[Len(w)]
<1> DEFINE n == Len(w)
           dv(k) == hex_digit_value(w[k])
           turn == [k \in 1 .. n |-> [v \in Int |-> v * 10 + dv(k)]]
           F(f) == [k \in 0 .. n |-> IF k = 0 THEN 0 ELSE f[k - 1] * 10 + dv(k)]
<1>1. n \in Nat
  OBVIOUS
<1>2. \A k : dv(k) \in Int
  <2>1. \A x \in -1 .. 15 : x \in Int
    OBVIOUS
  <2> QED BY <2>1, DigitRange, Zenon
<1>3. Octet(w) = (CHOOSE f : f = F(f))[n]
  BY DEF Octet, NumberOf
<1> HIDE DEF dv
<1>4. turn \in Turns(Int, n)
  <2>1. \A k \in 1 .. n, v \in Int : v * 10 + dv(k) \in Int
    BY <1>2
  <2> QED BY <2>1, Zenon DEF Turns
<1>5. \A k \in 1 .. n, v \in Int : turn[k][v] = v * 10 + dv(k)
  OBVIOUS
<1> HIDE DEF n, turn
<1>6. PICK g \in Loop(Int, 0, n, turn) : TRUE
  <2>1. 0 \in Int
    OBVIOUS
  <2> QED BY <1>1, <1>4, <2>1, LoopExists
<1>7. /\ g \in [0 .. n -> Int] /\ g[0] = 0
      /\ \A k \in 1 .. n : g[k] = g[k - 1] * 10 + dv(k)
  <2>1. g \in [0 .. n -> Int] /\ g[0] = 0 /\ \A k \in 1 .. n : g[k] = turn[k][g[k - 1]]
    BY <1>6 DEF Loop
  <2>2. \A k \in 1 .. n : k - 1 \in 0 .. n
    BY <1>1
  <2> QED BY <1>5, <2>1, <2>2
<1>8. g = F(g)
  <2>1. g = [k \in 0 .. n |-> g[k]]
    BY <1>7
  <2>2. \A k \in 0 .. n : g[k] = IF k = 0 THEN 0 ELSE g[k - 1] * 10 + dv(k)
    BY <1>1, <1>7
  <2> QED BY <2>1, <2>2
<1> DEFINE h == CHOOSE f : f = F(f)
<1>9. h = F(h)
  <2> HIDE DEF F
  <2> QED BY <1>8
<1>10. Octet(w) = h[n]
  BY <1>3
<1> HIDE DEF h
<1>11. h[0] = 0 /\ \A k \in 1 .. n : h[k] = h[k - 1] * 10 + dv(k)
  BY <1>1, <1>9
<1>12. \A k \in 0 .. n : h[k] \in Int
  <2> DEFINE T == {k \in 0 .. n : h[k] \in Int}
  <2>1. 0 \in T
    BY <1>1, <1>11
  <2>2. \A k \in 1 .. n : k - 1 \in T => k \in T
    BY <1>2, <1>11
  <2> HIDE DEF T
  <2>3. \A k \in 0 .. n : k \in T
    BY <1>1, <2>1, <2>2, Counting
  <2> QED BY <2>3 DEF T
<1>13. h \in [0 .. n -> Int]
  BY <1>9, <1>12
<1>14. h \in Sums(w)
  BY <1>11, <1>13 DEF Sums, n, dv
<1> QED BY <1>10, <1>14 DEF n

\* The first j characters of a field are those of an octet.
Begun(w, v, j) ==
    /\ \A i \in 1 .. j : hex_digit_value(w[i]) \in 0 .. 9
    /\ v[j] <= 255
    /\ j > 1 => w[1] # "0"

LEMMA BegunTurns ==
    ASSUME NEW Char, NEW w \in Seq(Char), NEW v \in Sums(w), NEW j \in 0 .. Len(w)
    PROVE  /\ (\A i \in 1 .. j : hex_digit_value(w[i]) \in 0 .. 9) =>
                \A i \in 0 .. j : v[i] \in Nat /\ v[i] <= v[j]
           /\ Begun(w, v, j) /\ j >= 1 => (v[j] = 0 <=> w[1] = "0")
<1> DEFINE dv(k) == hex_digit_value(w[k])
           Digits(k) == \A i \in 1 .. k : dv(i) \in 0 .. 9
           Good(k) == Digits(k) => \A i \in 0 .. k : v[i] \in Nat /\ v[i] <= v[k]
           T == {k \in 0 .. Len(w) : Good(k)}
<1>1. /\ v \in [0 .. Len(w) -> Int] /\ v[0] = 0 /\ Len(w) \in Nat
      /\ \A k \in 1 .. Len(w) : v[k] = v[k - 1] * 10 + dv(k)
  BY DEF Sums
<1>2. 0 \in T
  BY <1>1
<1>3. ASSUME NEW k \in 1 .. Len(w), k - 1 \in T PROVE k \in T
  <2> SUFFICES ASSUME Digits(k), NEW i \in 0 .. k PROVE v[i] \in Nat /\ v[i] <= v[k]
    BY <1>1
  <2>1. \A m \in 0 .. k - 1 : v[m] \in Nat /\ v[m] <= v[k - 1]
    <3>1. Digits(k - 1)
      OBVIOUS
    <3>2. Good(k - 1)
      BY <1>3
    <3> HIDE DEF Digits
    <3> QED BY <3>1, <3>2
  <2>2. v[k] = v[k - 1] * 10 + dv(k) /\ dv(k) \in 0 .. 9
    BY <1>1
  <2>3. v[k - 1] \in Nat
    BY <2>1
  <2>4. v[k] \in Nat /\ v[k - 1] <= v[k]
    <3>1. \A x \in Nat, d \in 0 .. 9 : x * 10 + d \in Nat /\ x <= x * 10 + d
      OBVIOUS
    <3> HIDE DEF dv
    <3> QED BY <2>2, <2>3, <3>1
  <2>5. CASE i = k
    BY <2>4, <2>5
  <2>6. CASE i \in 0 .. k - 1
    <3>1. v[i] \in Nat /\ v[i] <= v[k - 1]
      BY <2>1, <2>6
    <3> QED BY <2>3, <2>4, <3>1
  <2> QED BY <2>5, <2>6
<1> HIDE DEF T
<1>4. \A k \in 0 .. Len(w) : k \in T
  BY <1>1, <1>2, <1>3, Counting
<1>5. \A k \in 0 .. Len(w) : Good(k)
  BY <1>4 DEF T
<1>6. ASSUME Begun(w, v, j), j >= 1 PROVE v[j] = 0 <=> w[1] = "0"
  <2>1. /\ 1 \in 1 .. j /\ dv(1) \in 0 .. 9 /\ 1 \in 0 .. j /\ 1 \in 1 .. Len(w)
        /\ Digits(j)
    BY <1>6 DEF Begun
  <2>2. v[1] = dv(1)
    <3> HIDE DEF dv
    <3>1. v[1] = v[1 - 1] * 10 + dv(1) /\ 1 - 1 = 0
      BY <1>1, <2>1
    <3> QED BY <1>1, <2>1, <3>1
  <2>3. v[1] \in Nat /\ v[j] \in Nat /\ v[1] <= v[j]
    <3>1. Good(j)
      BY <1>5
    <3>2. j \in 0 .. j
      OBVIOUS
    <3> HIDE DEF Digits
    <3> QED BY <2>1, <3>1, <3>2
  <2>4. dv(1) = 0 <=> w[1] = "0"
    BY <2>1, DigitChar, ZeroChar
  <2>5. CASE j = 1
    BY <2>2, <2>4, <2>5
  <2>6. CASE j > 1
    <3>1. w[1] # "0"
      BY <1>6, <2>6 DEF Begun
    <3> QED BY <2>2, <2>3, <2>4, <3>1
  <2> QED BY <1>6, <2>5, <2>6
<1> QED BY <1>5, <1>6

\* The loop was left.
Gone(s) == s \in Pton4State /\ s.left = "return"

LEMMA GoneStays ==
    ASSUME NEW s, Gone(s), NEW ch PROVE Gone(Pton4Step(s, ch))
<1>1. Pton4Step(s, ch) = s
  BY DEF Gone, Pton4Step
<1> QED BY <1>1

LEMMA StepFails ==
    ASSUME NEW s, NEW q \in Seq(Nat), NEW v \in Nat, NEW ch, ch # ".",
           (Waiting(s, q) /\ v = 0) \/ Reading(s, q, v),
           \/ hex_digit_value(ch) \notin 0 .. 9
           \/ v * 10 + hex_digit_value(ch) > 255
           \/ Reading(s, q, v) /\ v = 0
    PROVE  Gone(Pton4Step(s, ch))
<1> DEFINE d == hex_digit_value(ch)
           t == Pton4Step(s, ch)
           fail == [s EXCEPT !.left = "return"]
<1>1. /\ s \in Pton4State /\ s.left = "no" /\ s.octets = Append(q, v)
      /\ Reading(s, q, v) => s.saw_digit = 1
  BY DEF Waiting, Reading
<1>2. Last(s.octets) = v
  <2>1. Len(Append(q, v)) = Len(q) + 1 /\ Append(q, v)[Len(q) + 1] = v
    BY AppendProperties
  <2> QED BY <1>1, <2>1 DEF Last
<1> HIDE DEF d
<1>3. \/ d \notin 0 .. 9
      \/ (s.saw_digit = 1 /\ Last(s.octets) = 0) \/ Last(s.octets) * 10 + d > 255
  BY <1>1, <1>2 DEF d
<1>4. t = fail
  BY <1>1, <1>3, Zenon DEF Pton4Step, d
<1>5. t \in Pton4State
  BY <1>1, Pton4StepType
<1> HIDE DEF t
<1>6. t.left = "return"
  BY <1>1, <1>4 DEF Pton4State
<1> QED BY <1>5, <1>6 DEF Gone, t

IsOctet(w) ==
    w # <<>> /\ Decimal(w) /\ Octet(w) <= 255 /\ (Len(w) > 1 => w[1] # "0")

\* Reading a field: an octet is read as its number, and nothing else is read.
LEMMA FieldReads ==
    ASSUME NEW Char, NEW src \in Seq(Char), NEW p \in Nat,
           NEW w \in Seq(STRING \ {"."}), Holds(src, p, w),
           NEW q \in Seq(Nat), Waiting(Pton4States(src)[p], q),
           NEW next, next = p + Len(w)
    PROVE  LET s == Pton4States(src)[next]
           IN  /\ w = <<>> => Waiting(s, q)
               /\ IsOctet(w) => Octet(w) \in Nat /\ Reading(s, q, Octet(w))
               /\ w # <<>> /\ ~IsOctet(w) => Gone(s)
<1> DEFINE f == Pton4States(src)
           n == Len(w)
<1>1. PICK v \in Sums(w) : Octet(w) = v[n]
  BY OctetTurns
<1>2. /\ v \in [0 .. n -> Int] /\ v[0] = 0 /\ n \in Nat
      /\ \A k \in 1 .. n : v[k] = v[k - 1] * 10 + hex_digit_value(w[k])
  BY DEF Sums
<1>3. \A j \in 1 .. n : f[p + j] = Pton4Step(f[p + (j - 1)], w[j])
  <2> TAKE j \in 1 .. n
  <2>1. p + j \in 1 .. Len(src) /\ (p + j) - 1 = p + (j - 1) /\ src[p + j] = w[j]
    BY DEF Holds
  <2>2. f[p + j] = Pton4Step(f[(p + j) - 1], src[p + j])
    BY <2>1, Pton4Turns
  <2> QED BY <2>1, <2>2, Zenon
<1>4. \A j \in 1 .. n : w[j] # "."
  OBVIOUS
<1> HIDE DEF f
<1> DEFINE Digits(j) == \A i \in 1 .. j : hex_digit_value(w[i]) \in 0 .. 9
           C(j) == IF Begun(w, v, j)
                     THEN IF j = 0 THEN Waiting(f[p + j], q) ELSE Reading(f[p + j], q, v[j])
                     ELSE Gone(f[p + j])
           T == {j \in 0 .. n : C(j)}
<1>5. \A j : Begun(w, v, j) <=> Digits(j) /\ v[j] <= 255 /\ (j > 1 => w[1] # "0")
  BY DEF Begun
<1>6. ASSUME NEW j \in 0 .. n
       PROVE  /\ Digits(j) => v[j] \in Nat
              /\ Begun(w, v, j) /\ j >= 1 => (v[j] = 0 <=> w[1] = "0")
  <2>1. Digits(j) => \A i \in 0 .. j : v[i] \in Nat
    BY BegunTurns
  <2>2. j \in 0 .. j
    OBVIOUS
  <2> HIDE DEF Digits
  <2> QED BY <2>1, <2>2, BegunTurns
<1>7. ASSUME NEW j \in 1 .. n
       PROVE  Digits(j) <=> Digits(j - 1) /\ hex_digit_value(w[j]) \in 0 .. 9
  <2>1. \A i \in 1 .. j : i = j \/ i \in 1 .. j - 1
    OBVIOUS
  <2>2. j \in 1 .. j /\ \A i \in 1 .. j - 1 : i \in 1 .. j
    OBVIOUS
  <2> QED BY <2>1, <2>2, Zenon
<1>8. Digits(0)
  OBVIOUS
<1>9. \A d \in 0 .. 9 : d \in Nat /\ d <= 9
  OBVIOUS
<1>10. Decimal(w) <=> Digits(n)
  <2>1. DOMAIN w = 1 .. n
    OBVIOUS
  <2> QED BY <2>1, Zenon DEF Decimal
<1> HIDE DEF Digits
<1>11. 0 \in T
  <2>1. Begun(w, v, 0)
    <3>1. v[0] <= 255 /\ ~(0 > 1)
      BY <1>2
    <3> QED BY <1>5, <1>8, <3>1, Zenon
  <2>2. Waiting(f[p + 0], q)
    BY DEF f
  <2> QED BY <1>2, <2>1, <2>2
<1>12. ASSUME NEW j \in 1 .. n, j - 1 \in T PROVE j \in T
  <2> DEFINE i == j - 1
             s == f[p + i]
             ch == w[j]
             d == hex_digit_value(ch)
             x == v[i]
             zero == w[1] = "0"
  <2>1. /\ i \in 0 .. n /\ i \in Nat /\ (j > 1 <=> i >= 1) /\ (i = 0 <=> ~(i >= 1)) /\ C(i)
        /\ j \in 0 .. n /\ j # 0
    <3>1. /\ i \in 0 .. n /\ i \in Nat /\ (j > 1 <=> i >= 1) /\ (i = 0 <=> ~(i >= 1))
          /\ j \in 0 .. n /\ j # 0 /\ i \in T
      <4> HIDE DEF T, n
      <4>1. n \in Nat /\ j \in 1 .. n /\ j - 1 \in T
        BY <1>2, <1>12, Zenon
      <4>2. \A k \in 1 .. n : /\ k - 1 \in 0 .. n /\ k - 1 \in Nat /\ (k > 1 <=> k - 1 >= 1)
                              /\ (k - 1 = 0 <=> ~(k - 1 >= 1)) /\ k \in 0 .. n /\ k # 0
        BY <4>1
      <4> QED BY <4>1, <4>2, Zenon
    <3> HIDE DEF C, i
    <3>2. C(i)
      BY <3>1, Zenon
    <3> QED BY <3>1, <3>2
  <2>2. f[p + j] = Pton4Step(s, ch) /\ ch # "." /\ v[j] = x * 10 + d
    BY <1>2, <1>3, <1>4
  <2>3. Begun(w, v, j) <=> Digits(i) /\ d \in 0 .. 9 /\ x * 10 + d <= 255 /\ (i >= 1 => ~zero)
    BY <1>5, <1>7, <2>1, <2>2
  <2>4. Digits(i) => x \in Nat
    BY <1>6, <2>1
  <2>5. Begun(w, v, i) <=> Digits(i) /\ x <= 255 /\ (i > 1 => ~zero)
    BY <1>5
  <2>6. Begun(w, v, i) /\ i >= 1 => (x = 0 <=> zero)
    BY <1>6, <2>1
  <2>7. i = 0 => x = 0
    BY <1>2
  <2>8. /\ Begun(w, v, i) /\ i = 0 => Waiting(s, q)
        /\ Begun(w, v, i) /\ i # 0 => Reading(s, q, x)
        /\ ~Begun(w, v, i) => Gone(s)
    BY <2>1
  <2>9. d \in Int
    <3>1. \A y \in -1 .. 15 : y \in Int
      OBVIOUS
    <3> QED BY <3>1, DigitRange, Zenon
  <2>10. CASE ~Begun(w, v, i)
    <3>1. Gone(f[p + j])
      BY <2>2, <2>8, <2>10, GoneStays
    <3> HIDE DEF x, d, zero
    <3>2. ~Begun(w, v, j)
      <4>1. i > 1 => i >= 1
        BY <2>1
      <4>2. Begun(w, v, j) => x <= 255
        <5>1. \A y \in Nat, e \in 0 .. 9 : y * 10 + e <= 255 => y <= 255
          OBVIOUS
        <5> QED BY <2>3, <2>4, <5>1, Zenon
      <4> QED BY <2>3, <2>5, <2>10, <4>1, <4>2, Zenon
    <3> QED BY <2>1, <3>1, <3>2
  <2>11. CASE Begun(w, v, i)
    <3>1. x \in Nat
      BY <2>4, <2>5, <2>11, Zenon
    <3>2. CASE Begun(w, v, j)
      <4>1. d \in 0 .. 9 /\ x * 10 + d <= 255 /\ (i >= 1 => ~zero)
        BY <2>3, <3>2, Zenon
      <4>2. (Waiting(s, q) /\ x = 0) \/ (Reading(s, q, x) /\ x # 0)
        <5> HIDE DEF x, zero, s, i
        <5> QED BY <2>1, <2>6, <2>7, <2>8, <2>11, <4>1, Zenon
      <4>3. ch = Digit(d) /\ d \in Nat /\ d <= 9
        BY <1>9, <4>1, DigitChar, Zenon
      <4> HIDE DEF x, s, d, ch
      <4>4. Reading(Pton4Step(s, Digit(d)), q, x * 10 + d)
        BY <3>1, <4>1, <4>2, <4>3, ReadDigit
      <4>5. Reading(f[p + j], q, v[j])
        BY <2>2, <4>3, <4>4, Zenon
      <4> QED BY <2>1, <3>2, <4>5
    <3>3. CASE ~Begun(w, v, j)
      <4>1. d \notin 0 .. 9 \/ x * 10 + d > 255 \/ (i >= 1 /\ zero)
        <5> HIDE DEF x, d, zero, i
        <5>1. d \notin 0 .. 9 \/ ~(x * 10 + d <= 255) \/ (i >= 1 /\ zero)
          BY <2>3, <2>5, <2>11, <3>3, Zenon
        <5>2. ~(x * 10 + d <= 255) => x * 10 + d > 255
          BY <2>9, <3>1
        <5> QED BY <5>1, <5>2, Zenon
      <4>2. (Waiting(s, q) /\ x = 0) \/ Reading(s, q, x)
        <5> HIDE DEF x, s, i
        <5> QED BY <2>7, <2>8, <2>11, Zenon
      <4>3. i >= 1 /\ zero => Reading(s, q, x) /\ x = 0
        <5> HIDE DEF x, s, i, zero
        <5> QED BY <2>1, <2>6, <2>8, <2>11, Zenon
      <4> HIDE DEF x, s, zero, i
      <4>4. \/ d \notin 0 .. 9
            \/ x * 10 + d > 255
            \/ Reading(s, q, x) /\ x = 0
        BY <4>1, <4>3, Zenon
      <4> HIDE DEF ch
      <4>5. Gone(Pton4Step(s, ch))
        BY <2>2, <3>1, <4>2, <4>4, StepFails
      <4> QED BY <2>1, <2>2, <3>3, <4>5
    <3> QED BY <3>2, <3>3
  <2> QED BY <2>10, <2>11
<1> HIDE DEF T
<1>13. n \in T
  <2>1. \A j \in 0 .. n : j \in T
    BY <1>2, <1>11, <1>12, Counting
  <2> QED BY <1>2, <2>1
<1>14. C(n)
  BY <1>13 DEF T
<1>15. CASE w = <<>>
  <2>1. n = 0
    BY <1>15
  <2>2. Begun(w, v, 0) /\ ~IsOctet(w)
    BY <1>2, <1>15 DEF Begun, IsOctet
  <2>3. Waiting(f[p + n], q)
    BY <1>14, <2>1, <2>2
  <2> QED BY <1>15, <2>2, <2>3 DEF f
<1>16. CASE w # <<>>
  <2>1. n >= 1
    BY <1>16, EmptySeq
  <2>2. IsOctet(w) <=> Begun(w, v, n)
    BY <1>1, <1>5, <1>10, <1>16, Zenon DEF IsOctet
  <2>3. Begun(w, v, n) => v[n] \in Nat
    <3>1. n \in 0 .. n
      BY <1>2
    <3> QED BY <1>5, <1>6, <3>1
  <2>4. Begun(w, v, n) => Reading(f[p + n], q, Octet(w))
    BY <1>1, <1>14, <2>1
  <2>5. ~Begun(w, v, n) => Gone(f[p + n])
    BY <1>14
  <2> QED BY <1>1, <1>16, <2>2, <2>3, <2>4, <2>5 DEF f
<1> QED BY <1>15, <1>16

\* A dot ends an octet, and there are at most three of them.
LEMMA DotReads ==
    ASSUME NEW Char, NEW src \in Seq(Char), NEW p \in Nat, p + 1 <= Len(src), src[p + 1] = ".",
           NEW q \in Seq(Nat), NEW n \in Nat
    PROVE  LET s == Pton4States(src)[p]
               t == Pton4States(src)[p + 1]
           IN  /\ Reading(s, q, n) /\ Len(q) < 3 => Waiting(t, Append(q, n))
               /\ Reading(s, q, n) /\ Len(q) = 3 => Gone(t)
               /\ Waiting(s, q) => Gone(t)
               /\ Gone(s) => Gone(t)
<1> DEFINE s == Pton4States(src)[p]
           t == Pton4States(src)[p + 1]
           fail == [s EXCEPT !.left = "return"]
<1>1. t = Pton4Step(s, ".")
  <2>1. p + 1 \in 1 .. Len(src) /\ (p + 1) - 1 = p
    OBVIOUS
  <2> QED BY <2>1, Pton4Turns
<1> HIDE DEF s, t
<1>2. Reading(s, q, n) /\ Len(q) < 3 => Waiting(t, Append(q, n))
  BY <1>1, ReadDot
<1>3. Gone(s) => Gone(t)
  BY <1>1, GoneStays
<1>4. hex_digit_value(".") = -1 /\ -1 \notin 0 .. 9
  BY DotValue
<1>5. ASSUME s \in Pton4State, s.left = "no", ~(s.saw_digit = 1 /\ Len(s.octets) < 4)
      PROVE  Gone(t)
  <2>1. t = fail
    BY <1>1, <1>4, <1>5, Zenon DEF Pton4Step
  <2>2. t \in Pton4State
    BY <1>1, <1>5, Pton4StepType
  <2>3. t.left = "return"
    BY <1>5, <2>1 DEF Pton4State
  <2> QED BY <2>2, <2>3 DEF Gone
<1>6. Waiting(s, q) => Gone(t)
  BY <1>5 DEF Waiting
<1>7. Reading(s, q, n) /\ Len(q) = 3 => Gone(t)
  <2> SUFFICES ASSUME Reading(s, q, n), Len(q) = 3 PROVE Gone(t)
    OBVIOUS
  <2>1. s \in Pton4State /\ s.left = "no" /\ s.octets = Append(q, n)
    BY DEF Reading
  <2>2. Len(Append(q, n)) = Len(q) + 1
    BY AppendProperties
  <2> DEFINE len == Len(Append(q, n))
             m == Len(q)
  <2> HIDE DEF len, m
  <2>3. ~(len < 4)
    <3>1. len = m + 1 /\ m = 3
      BY <2>2, Zenon DEF len, m
    <3> QED BY <3>1
  <2>4. ~(Len(s.octets) < 4)
    BY <2>1, <2>3, Zenon DEF len
  <2> QED BY <1>5, <2>1, <2>4
<1> QED BY <1>2, <1>3, <1>6, <1>7 DEF s, t

LEMMA GoneForGood ==
    ASSUME NEW Char, NEW src \in Seq(Char), NEW p \in Nat, Gone(Pton4States(src)[p]),
           NEW next \in 0 .. Len(src), p <= next
    PROVE  Gone(Pton4States(src)[next])
<1> DEFINE f == Pton4States(src)
           n == Len(src)
           T == {j \in 0 .. n : j >= p => Gone(f[j])}
<1>1. n \in Nat /\ \A j \in 1 .. n : f[j] = Pton4Step(f[j - 1], src[j])
  BY Pton4Turns
<1> HIDE DEF f, n
<1>2. 0 \in T
  <2>1. 0 >= p => p = 0
    OBVIOUS
  <2>2. 0 \in 0 .. n
    BY <1>1
  <2> QED BY <2>1, <2>2 DEF f
<1>3. ASSUME NEW j \in 1 .. n, j - 1 \in T PROVE j \in T
  <2>1. j \in 0 .. n
    BY <1>1
  <2>2. CASE j < p
    BY <2>1, <2>2
  <2>3. CASE j = p
    BY <2>1, <2>3 DEF f
  <2>4. CASE j > p
    <3>1. Gone(f[j - 1])
      BY <1>3, <2>4
    <3>2. Gone(f[j])
      BY <1>1, <3>1, GoneStays
    <3> QED BY <2>1, <3>2
  <2> QED BY <2>2, <2>3, <2>4
<1> HIDE DEF T
<1>4. next \in T
  <2>1. \A j \in 0 .. n : j \in T
    BY <1>1, <1>2, <1>3, Counting
  <2> QED BY <2>1 DEF n
<1> QED BY <1>4 DEF T, f

AnyChar == STRING \cup {"."}

Dot == <<".">>

\* The texts of the first fields.
PartTexts(fields, Char, separator) ==
    {text \in [0 .. Len(fields) -> Seq(Char)] :
       /\ text[0] = <<>>
       /\ 1 <= Len(fields) => text[1] = fields[1]
       /\ \A k \in 2 .. Len(fields) : text[k] = (text[k - 1] \o <<separator>>) \o fields[k]}

LEMMA PartsJoined ==
    ASSUME NEW Char, NEW separator \in Char, NEW fields \in Seq(Seq(Char))
    PROVE  \E text \in PartTexts(fields, Char, separator) :
             Joined(fields, separator) = text[Len(fields)]
<1> DEFINE n == Len(fields)
           S == Seq(Char)
           Sep == <<separator>>
           empty == <<>>
           put(k, v) == (v \o Sep) \o fields[k]
           turn == [k \in 1 .. n |-> [v \in S |-> IF k = 1 THEN fields[1] ELSE put(k, v)]]
           F(g) == [k \in 0 .. n |-> IF k = 0 THEN empty
                                     ELSE IF k = 1 THEN fields[1] ELSE put(k, g[k - 1])]
<1>1. n \in Nat
  OBVIOUS
<1>2. Joined(fields, separator) = (CHOOSE g : g = F(g))[n]
  BY DEF Joined
<1>3. \A k \in 1 .. n : fields[k] \in S
  OBVIOUS
<1>4. Sep \in S /\ empty \in S
  OBVIOUS
<1>5. \A k \in 1 .. n, v \in S : put(k, v) \in S
  <2>1. \A x, y \in S : x \o y \in S
    BY ConcatProperties
  <2> HIDE DEF S, n
  <2> QED BY <1>3, <1>4, <2>1, Zenon
<1> HIDE DEF S, put, empty, Sep
<1>6. turn \in Turns(S, n)
  <2>1. \A k \in 1 .. n, v \in S : (IF k = 1 THEN fields[1] ELSE put(k, v)) \in S
    BY <1>3, <1>5
  <2> HIDE DEF n
  <2> QED BY <2>1, Zenon DEF Turns
<1>7. \A k \in 1 .. n, v \in S : turn[k][v] = IF k = 1 THEN fields[1] ELSE put(k, v)
  <2> HIDE DEF n
  <2> QED OBVIOUS
<1> HIDE DEF turn, n
<1>8. PICK g \in Loop(S, empty, n, turn) : TRUE
  BY <1>1, <1>4, <1>6, LoopExists
<1> DEFINE first == fields[1]
<1> HIDE DEF first
<1>9. /\ g \in [0 .. n -> S] /\ g[0] = empty
      /\ \A k \in 1 .. n : g[k] = IF k = 1 THEN first ELSE put(k, g[k - 1])
  <2>1. g \in [0 .. n -> S] /\ g[0] = empty /\ \A k \in 1 .. n : g[k] = turn[k][g[k - 1]]
    BY <1>8 DEF Loop
  <2>2. \A k \in 1 .. n : k - 1 \in 0 .. n
    BY <1>1
  <2> QED BY <1>7, <2>1, <2>2 DEF first
<1> DEFINE G(f) == [k \in 0 .. n |-> IF k = 0 THEN empty
                                     ELSE IF k = 1 THEN first ELSE put(k, f[k - 1])]
<1>10. g = G(g)
  <2>1. g = [k \in 0 .. n |-> g[k]]
    BY <1>9
  <2>2. \A k \in 0 .. n : g[k] = IF k = 0 THEN empty
                                 ELSE IF k = 1 THEN first ELSE put(k, g[k - 1])
    <3>1. \A k \in 0 .. n : k = 0 \/ (k # 0 /\ k \in 1 .. n)
      BY <1>1
    <3> QED BY <1>9, <3>1
  <2> QED BY <2>1, <2>2
<1> DEFINE h == CHOOSE f : f = G(f)
<1>11. h = G(h)
  <2> HIDE DEF G
  <2> QED BY <1>10
<1>12. Joined(fields, separator) = h[n]
  BY <1>2 DEF first
<1> HIDE DEF h
<1>13. /\ h[0] = empty
       /\ \A k \in 1 .. n : h[k] = IF k = 1 THEN first ELSE put(k, h[k - 1])
  BY <1>1, <1>11
<1>14. \A k \in 0 .. n : h[k] \in S
  <2> DEFINE T == {k \in 0 .. n : h[k] \in S}
  <2>1. 0 \in T
    BY <1>1, <1>4, <1>13
  <2>2. \A k \in 1 .. n : k - 1 \in T => k \in T
    BY <1>3, <1>5, <1>13 DEF first
  <2> HIDE DEF T
  <2>3. \A k \in 0 .. n : k \in T
    BY <1>1, <2>1, <2>2, Counting
  <2> QED BY <2>3 DEF T
<1>15. h \in [0 .. n -> S]
  <2>1. h = [k \in 0 .. n |-> h[k]]
    BY <1>11
  <2> QED BY <1>14, <2>1
<1>16. h[0] = empty /\ (1 <= n => h[1] = first) /\ \A k \in 2 .. n : h[k] = put(k, h[k - 1])
  <2>1. \A k \in 2 .. n : k \in 1 .. n /\ k # 1
    BY <1>1
  <2>2. 1 <= n => 1 \in 1 .. n
    BY <1>1
  <2> QED BY <1>13, <2>1, <2>2
<1>17. h \in PartTexts(fields, Char, separator)
  BY <1>15, <1>16, Zenon DEF PartTexts, S, n, put, empty, first, Sep
<1> QED BY <1>12, <1>17 DEF n

FirstTexts(fields) == PartTexts(fields, AnyChar, ".")

LEMMA JoinedTurns ==
    ASSUME NEW fields \in Seq(Seq(STRING \ {"."}))
    PROVE  \E text \in FirstTexts(fields) : Joined(fields, ".") = text[Len(fields)]
<1>1. "." \in AnyChar /\ (STRING \ {"."}) \subseteq AnyChar
  BY DEF AnyChar
<1>2. Seq(STRING \ {"."}) \subseteq Seq(AnyChar)
  BY <1>1, SeqMonotonic
<1>3. fields \in Seq(Seq(AnyChar))
  BY <1>2, SeqMonotonic
<1> QED BY <1>1, <1>3, PartsJoined DEF FirstTexts

\* Where the fields end in the text.
FieldEnds(fields) ==
    LET src == Joined(fields, ".")
        n == Len(fields)
    IN  {ends \in [0 .. n -> Nat] :
           /\ ends[n] = Len(src)
           /\ Holds(src, 0, fields[1]) /\ ends[1] = Len(fields[1])
           /\ \A k \in 1 .. n - 1 :
                /\ ends[k] + 1 <= Len(src) /\ src[ends[k] + 1] = "."
                /\ Holds(src, ends[k] + 1, fields[k + 1])
                /\ ends[k + 1] = ends[k] + 1 + Len(fields[k + 1])}

LEMMA JoinedFields ==
    ASSUME NEW fields \in Seq(Seq(STRING \ {"."})), Len(fields) >= 1
    PROVE  Joined(fields, ".") \in Seq(AnyChar) /\ FieldEnds(fields) # {}
<1> DEFINE n == Len(fields)
           src == Joined(fields, ".")
           S == Seq(AnyChar)
<1>1. PICK text \in FirstTexts(fields) : src = text[n]
  BY JoinedTurns
<1>2. n \in Nat \ {0}
  OBVIOUS
<1>3. /\ text \in [0 .. n -> S] /\ text[1] = fields[1]
      /\ \A k \in 2 .. n : text[k] = (text[k - 1] \o Dot) \o fields[k]
  BY DEF FirstTexts, PartTexts, Dot
<1>4. \A k \in 1 .. n : fields[k] \in S
  <2> TAKE k \in 1 .. n
  <2>1. fields[k] \in Seq(STRING \ {"."})
    OBVIOUS
  <2>2. (STRING \ {"."}) \subseteq AnyChar
    BY DEF AnyChar
  <2> QED BY <2>1, <2>2, SeqMonotonic
<1>5. Dot \in S /\ Len(Dot) = 1 /\ Dot[1] = "."
  <2>1. Dot \in S /\ Dot[1] = "."
    BY DEF Dot, AnyChar
  <2>2. Len(Dot) = 1
    BY DEF Dot
  <2> QED BY <2>1, <2>2, Zenon
<1> HIDE DEF n, src
<1>6. src \in S
  BY <1>1, <1>2, <1>3
<1>7. ASSUME NEW x \in S, NEW y \in S, Holds(src, 0, x \o y)
       PROVE  Len(x \o y) = Len(x) + Len(y) /\ Holds(src, 0, x) /\ Holds(src, Len(x), y)
  BY <1>6, <1>7, HoldsParts
<1>8. ASSUME NEW k \in 2 .. n, Holds(src, 0, text[k])
      PROVE  /\ Holds(src, 0, text[k - 1]) /\ Holds(src, Len(text[k - 1]), Dot)
             /\ Holds(src, Len(text[k - 1]) + 1, fields[k])
             /\ Len(text[k]) = Len(text[k - 1]) + 1 + Len(fields[k])
  <2> DEFINE a == text[k - 1]
             b == a \o Dot
             c == fields[k]
             d == text[k]
  <2>1. a \in S /\ c \in S /\ d = b \o c
    <3>1. k \in 1 .. n /\ k - 1 \in 0 .. n
      BY <1>2
    <3> QED BY <1>3, <1>4, <3>1
  <2> HIDE DEF a, c, d
  <2>2. b \in S /\ b = a \o Dot
    BY <1>5, <2>1, ConcatProperties
  <2> HIDE DEF b
  <2>3. Holds(src, 0, d)
    BY <1>8 DEF d
  <2>4. Len(d) = Len(b) + Len(c) /\ Holds(src, 0, b) /\ Holds(src, Len(b), c)
    BY <1>7, <2>1, <2>2, <2>3, Zenon
  <2>5. Len(b) = Len(a) + Len(Dot) /\ Holds(src, 0, a) /\ Holds(src, Len(a), Dot)
    BY <1>5, <1>7, <2>1, <2>2, <2>4, Zenon
  <2>6. Len(b) = Len(a) + 1
    BY <1>5, <2>5, Zenon
  <2> QED BY <2>4, <2>5, <2>6, Zenon DEF a, c, d
<1> DEFINE T == {i \in 0 .. n - 1 : Holds(src, 0, text[n - i])}
<1>9. 0 \in T
  <2>1. Holds(src, 0, src)
    BY <1>6 DEF Holds
  <2>2. n - 0 = n /\ 0 \in 0 .. n - 1
    BY <1>2
  <2> QED BY <1>1, <2>1, <2>2
<1>10. ASSUME NEW i \in 1 .. n - 1, i - 1 \in T PROVE i \in T
  <2> DEFINE k == n - (i - 1)
  <2>1. k \in 2 .. n /\ k - 1 = n - i /\ i \in 0 .. n - 1
    BY <1>2
  <2>2. Holds(src, 0, text[k])
    BY <1>10
  <2> HIDE DEF k
  <2>3. Holds(src, 0, text[k - 1])
    BY <1>8, <2>1, <2>2
  <2> QED BY <2>1, <2>3
<1>11. ASSUME NEW k \in 1 .. n PROVE Holds(src, 0, text[k])
  <2> HIDE DEF T
  <2>1. n - 1 \in Nat
    BY <1>2
  <2>2. \A i \in 0 .. n - 1 : i \in T
    BY <1>9, <1>10, <2>1, Counting
  <2>3. n - k \in 0 .. n - 1 /\ n - (n - k) = k
    BY <1>2
  <2> QED BY <2>2, <2>3 DEF T
<1> DEFINE ends == [k \in 0 .. n |-> Len(text[k])]
<1>12. ends \in [0 .. n -> Nat]
  <2>1. \A k \in 0 .. n : Len(text[k]) \in Nat
    BY <1>3
  <2> QED BY <2>1
<1>13. /\ ends[n] = Len(src)
       /\ Holds(src, 0, fields[1]) /\ ends[1] = Len(fields[1])
  <2>1. n \in 0 .. n /\ 1 \in 0 .. n /\ 1 \in 1 .. n
    BY <1>2
  <2> QED BY <1>1, <1>3, <1>11, <2>1
<1>14. ASSUME NEW k \in 1 .. n - 1
       PROVE  /\ ends[k] + 1 <= Len(src) /\ src[ends[k] + 1] = "."
              /\ Holds(src, ends[k] + 1, fields[k + 1])
              /\ ends[k + 1] = ends[k] + 1 + Len(fields[k + 1])
  <2> DEFINE j == k + 1
  <2>1. j \in 2 .. n /\ j - 1 = k /\ k \in 0 .. n /\ j \in 0 .. n /\ j \in 1 .. n
    BY <1>2
  <2> HIDE DEF j
  <2>2. ends[k] = Len(text[k]) /\ ends[j] = Len(text[j])
    BY <2>1
  <2> DEFINE e == Len(text[k])
  <2>3. /\ Holds(src, Len(text[k]), Dot)
        /\ Holds(src, Len(text[k]) + 1, fields[j])
        /\ Len(text[j]) = Len(text[k]) + 1 + Len(fields[j])
    BY <1>8, <1>11, <2>1
  <2> HIDE DEF ends
  <2>4. e + 1 <= Len(src) /\ src[e + 1] = "."
    <3>1. e + Len(Dot) <= Len(src) /\ \A i \in 1 .. Len(Dot) : src[e + i] = Dot[i]
      BY <2>3, Zenon DEF Holds
    <3>2. 1 \in 1 .. 1
      OBVIOUS
    <3> QED BY <1>5, <3>1, <3>2, Zenon
  <2> QED BY <2>2, <2>3, <2>4, Zenon DEF j
<1>15. ends \in FieldEnds(fields)
  BY <1>12, <1>13, <1>14, Zenon DEF FieldEnds, n, src
<1> QED BY <1>6, <1>15 DEF src

\* The octets of the first k fields.
AllOctets(fields, k) == \A i \in 1 .. k : IsOctet(fields[i])

FirstOctets(fields, k) == [i \in 1 .. k |-> Octet(fields[i])]

LEMMA OctetIsNat ==
    ASSUME NEW Char, NEW w \in Seq(Char), IsOctet(w) PROVE Octet(w) \in Nat
<1>1. PICK v \in Sums(w) : Octet(w) = v[Len(w)]
  BY OctetTurns
<1>2. Len(w) \in Nat /\ Len(w) \in 0 .. Len(w) /\ DOMAIN w = 1 .. Len(w)
  OBVIOUS
<1>3. \A i \in 1 .. Len(w) : hex_digit_value(w[i]) \in 0 .. 9
  BY <1>2, Zenon DEF IsOctet, Decimal
<1>4. \A i \in 0 .. Len(w) : v[i] \in Nat /\ v[i] <= v[Len(w)]
  BY <1>2, <1>3, BegunTurns
<1> QED BY <1>1, <1>2, <1>4, Zenon

LEMMA FirstOctetsType ==
    ASSUME NEW fields \in Seq(Seq(STRING \ {"."})), NEW k \in 0 .. Len(fields),
           AllOctets(fields, k)
    PROVE  FirstOctets(fields, k) \in Seq(Nat) /\ Len(FirstOctets(fields, k)) = k
<1>1. \A i \in 1 .. k : fields[i] \in Seq(STRING \ {"."}) /\ IsOctet(fields[i])
  BY DEF AllOctets
<1>2. \A i \in 1 .. k : Octet(fields[i]) \in Nat
  BY <1>1, OctetIsNat
<1>3. k \in Nat /\ FirstOctets(fields, k) \in [1 .. k -> Nat]
  BY <1>2 DEF FirstOctets
<1> HIDE DEF FirstOctets
<1> QED BY <1>3, FunctionIsSeq

LEMMA OneOctetMore ==
    ASSUME NEW fields \in Seq(Seq(STRING \ {"."})), NEW k \in 1 .. Len(fields),
           AllOctets(fields, k)
    PROVE  FirstOctets(fields, k) = Append(FirstOctets(fields, k - 1), Octet(fields[k]))
<1> DEFINE a == FirstOctets(fields, k)
           b == FirstOctets(fields, k - 1)
           n == Octet(fields[k])
<1>1. k - 1 \in 0 .. Len(fields) /\ k \in 0 .. Len(fields) /\ k \in Nat /\ (k - 1) + 1 = k
  OBVIOUS
<1>2. AllOctets(fields, k - 1)
  BY <1>1 DEF AllOctets
<1>3. a \in Seq(Nat) /\ Len(a) = k /\ b \in Seq(Nat) /\ Len(b) = k - 1
  BY <1>1, <1>2, FirstOctetsType, Zenon
<1>4. /\ \A i \in 1 .. k - 1 : a[i] = b[i]
      /\ a[k] = n
  BY DEF FirstOctets
<1> HIDE DEF a, b
<1>5. n \in Nat
  BY <1>3, <1>4
<1> HIDE DEF n
<1> DEFINE c == Append(b, n)
<1>6. /\ c \in Seq(Nat) /\ Len(c) = Len(b) + 1
      /\ \A i \in 1 .. Len(b) : c[i] = b[i]
      /\ c[Len(b) + 1] = n
  BY <1>3, <1>5, AppendProperties
<1> HIDE DEF c
<1>7. Len(c) = Len(a) /\ \A i \in 1 .. Len(a) : a[i] = c[i]
  BY <1>1, <1>3, <1>4, <1>6
<1>8. a = c
  BY <1>3, <1>6, <1>7, SeqEqual
<1> QED BY <1>8 DEF a, b, c, n

\* Where inet_pton4 is before the k-th field, and after it.
BeforeField(fields, s, k) ==
    /\ k <= 4 /\ AllOctets(fields, k - 1) => Waiting(s, FirstOctets(fields, k - 1))
    /\ ~(k <= 4 /\ AllOctets(fields, k - 1)) => Gone(s)

AfterField(fields, s, k) ==
    \/ k <= 4 /\ AllOctets(fields, k) /\ Reading(s, FirstOctets(fields, k - 1), Octet(fields[k]))
    \/ k <= 4 /\ ~AllOctets(fields, k) /\ \E q \in Seq(Nat) : Waiting(s, q)
    \/ ~(k <= 4 /\ AllOctets(fields, k)) /\ Gone(s)

LEMMA FieldTurn ==
    ASSUME NEW fields \in Seq(Seq(STRING \ {"."})), NEW src \in Seq(AnyChar),
           NEW k \in 1 .. Len(fields), NEW p \in Nat, Holds(src, p, fields[k]),
           BeforeField(fields, Pton4States(src)[p], k)
    PROVE  AfterField(fields, Pton4States(src)[p + Len(fields[k])], k)
<1> DEFINE w == fields[k]
           q == FirstOctets(fields, k - 1)
           e == p + Len(w)
           s == Pton4States(src)[p]
           t == Pton4States(src)[e]
<1>1. w \in Seq(STRING \ {"."}) /\ k - 1 \in 0 .. Len(fields) /\ k \in Nat
  OBVIOUS
<1>2. AllOctets(fields, k) <=> AllOctets(fields, k - 1) /\ IsOctet(w)
  <2>1. /\ \A i \in 1 .. k : i = k \/ i \in 1 .. k - 1
        /\ k \in 1 .. k /\ \A i \in 1 .. k - 1 : i \in 1 .. k
    BY <1>1
  <2> QED BY <2>1, Zenon DEF AllOctets
<1>3. CASE k <= 4 /\ AllOctets(fields, k - 1)
  <2>1. Waiting(s, q) /\ q \in Seq(Nat)
    BY <1>1, <1>3, FirstOctetsType, Zenon DEF BeforeField
  <2>2. /\ w = <<>> => Waiting(t, q)
        /\ IsOctet(w) => Reading(t, q, Octet(w))
        /\ w # <<>> /\ ~IsOctet(w) => Gone(t)
    <3> HIDE DEF q, w
    <3>1. Holds(src, p, w) /\ Waiting(Pton4States(src)[p], q)
      BY <2>1, Zenon DEF w
    <3> QED BY <1>1, <2>1, <3>1, FieldReads
  <2>3. w = <<>> => ~IsOctet(w)
    BY DEF IsOctet
  <2> HIDE DEF t, w, q
  <2>4. AfterField(fields, t, k)
    BY <1>2, <1>3, <2>1, <2>2, <2>3, Zenon DEF AfterField, q, w
  <2> QED BY <2>4, Zenon DEF t, e, w
<1>4. CASE ~(k <= 4 /\ AllOctets(fields, k - 1))
  <2>1. Gone(s)
    BY <1>4, Zenon DEF BeforeField
  <2>2. e \in 0 .. Len(src) /\ p <= e
    <3>1. e <= Len(src)
      BY DEF Holds
    <3>2. Len(w) \in Nat /\ Len(src) \in Nat
      BY <1>1
    <3>3. \A x, y, z \in Nat : x + y <= z => x + y \in 0 .. z /\ x <= x + y
      OBVIOUS
    <3> HIDE DEF w
    <3> QED BY <3>1, <3>2, <3>3, Zenon
  <2>3. Gone(t)
    <3> HIDE DEF e
    <3> QED BY <2>1, <2>2, GoneForGood
  <2>4. ~(k <= 4 /\ AllOctets(fields, k))
    BY <1>2, <1>4, Zenon
  <2> HIDE DEF t, w
  <2>5. AfterField(fields, t, k)
    BY <2>3, <2>4, Zenon DEF AfterField
  <2> QED BY <2>5, Zenon DEF t, e, w
<1> QED BY <1>3, <1>4

LEMMA DotTurn ==
    ASSUME NEW fields \in Seq(Seq(STRING \ {"."})), NEW src \in Seq(AnyChar),
           NEW k \in 1 .. Len(fields), NEW p \in Nat, p + 1 <= Len(src), src[p + 1] = ".",
           AfterField(fields, Pton4States(src)[p], k)
    PROVE  BeforeField(fields, Pton4States(src)[p + 1], k + 1)
<1> DEFINE s == Pton4States(src)[p]
           t == Pton4States(src)[p + 1]
           q == FirstOctets(fields, k - 1)
           n == Octet(fields[k])
<1>1. /\ k - 1 \in 0 .. Len(fields) /\ k \in Nat /\ (k + 1) - 1 = k
      /\ fields[k] \in Seq(STRING \ {"."})
  OBVIOUS
<1>2. ASSUME NEW x \in Seq(Nat), NEW m \in Nat
      PROVE  /\ Reading(s, x, m) /\ Len(x) < 3 => Waiting(t, Append(x, m))
             /\ Reading(s, x, m) /\ Len(x) = 3 => Gone(t)
             /\ Waiting(s, x) => Gone(t)
             /\ Gone(s) => Gone(t)
  BY DotReads
<1>3. AfterField(fields, s, k)
  OBVIOUS
<1> HIDE DEF s, t
<1>4. CASE k <= 4 /\ AllOctets(fields, k) /\ Reading(s, q, n)
  <2>1. /\ AllOctets(fields, k - 1) /\ IsOctet(fields[k])
    <3>1. k \in 1 .. k /\ \A i \in 1 .. k - 1 : i \in 1 .. k
      BY <1>1
    <3> QED BY <1>4, <3>1, Zenon DEF AllOctets
  <2>2. q \in Seq(Nat) /\ Len(q) = k - 1 /\ n \in Nat
    BY <1>1, <2>1, FirstOctetsType, OctetIsNat, Zenon
  <2>3. FirstOctets(fields, k) = Append(q, n)
    BY <1>4, OneOctetMore, Zenon
  <2> DEFINE len == Len(q)
  <2> HIDE DEF q, n
  <2>4. /\ len < 3 => Waiting(t, Append(q, n))
        /\ len = 3 => Gone(t)
    BY <1>2, <1>4, <2>2, Zenon
  <2> HIDE DEF len
  <2>5. len = k - 1
    BY <2>2, Zenon DEF len
  <2>6. (len < 3 <=> k + 1 <= 4) /\ (len = 3 <=> ~(k + 1 <= 4))
    BY <1>1, <1>4, <2>5
  <2> QED BY <1>1, <1>4, <2>3, <2>4, <2>6, Zenon DEF BeforeField, t
<1>5. CASE k <= 4 /\ ~AllOctets(fields, k) /\ \E x \in Seq(Nat) : Waiting(s, x)
  <2>1. Gone(t)
    <3>1. 0 \in Nat
      OBVIOUS
    <3> QED BY <1>2, <1>5, <3>1, Zenon
  <2> QED BY <1>1, <1>5, <2>1, Zenon DEF BeforeField, t
<1>6. CASE ~(k <= 4 /\ AllOctets(fields, k)) /\ Gone(s)
  <2>1. Gone(t)
    <3>1. 0 \in Nat /\ <<>> \in Seq(Nat)
      OBVIOUS
    <3> QED BY <1>2, <1>6, <3>1, Zenon
  <2>2. k + 1 <= 4 => k <= 4
    BY <1>1
  <2> QED BY <1>1, <1>6, <2>1, <2>2, Zenon DEF BeforeField, t
<1> QED BY <1>3, <1>4, <1>5, <1>6, Zenon DEF AfterField

\* inet_pton4 reads the fields of an IPv4 text and nothing else.
LEMMA Pton4Reads ==
    ASSUME NEW fields \in Seq(Seq(STRING \ {"."}))
    PROVE  inet_pton4(Joined(fields, ".")) = Meaning4(fields)
<1> DEFINE n == Len(fields)
           src == Joined(fields, ".")
           f == Pton4States(src)
           end == f[Len(src)]
           Read == end.left = "no" /\ Len(end.octets) = 4 /\ end.saw_digit = 1
<1>1. inet_pton4(src) = IF Read THEN end.octets ELSE Invalid
  BY DEF inet_pton4
<1>2. Meaning4(fields) = IF n = 4 /\ AllOctets(fields, 4) THEN FirstOctets(fields, 4) ELSE Invalid
  BY Zenon DEF Meaning4, AllOctets, FirstOctets, IsOctet
<1>3. n \in Nat
  OBVIOUS
<1>4. CASE n = 0
  <2>1. PICK text \in FirstTexts(fields) : src = text[n]
    BY JoinedTurns
  <2>2. src = <<>>
    BY <1>4, <2>1 DEF FirstTexts, PartTexts
  <2>3. end = FirstPton4
    <3>1. f[0] = FirstPton4
      <4>1. src \in Seq(AnyChar)
        <5>1. <<>> \in Seq(AnyChar)
          OBVIOUS
        <5> QED BY <2>2, <5>1, Zenon
      <4> HIDE DEF src
      <4> QED BY <4>1, Pton4Turns
    <3>2. Len(src) = 0
      BY <2>2
    <3> QED BY <3>1, <3>2
  <2> HIDE DEF end
  <2>4. end.saw_digit = 0
    BY <2>3 DEF FirstPton4
  <2>5. ~Read
    <3>1. 0 # 1
      OBVIOUS
    <3> QED BY <2>4, <3>1, Zenon
  <2>6. n # 4
    BY <1>4
  <2> HIDE DEF Read, n
  <2> QED BY <1>1, <1>2, <2>5, <2>6
<1>5. CASE n >= 1
  <2>1. src \in Seq(AnyChar) /\ FieldEnds(fields) # {}
    BY <1>5, JoinedFields
  <2>2. PICK ends \in FieldEnds(fields) : TRUE
    BY <2>1
  <2>3. /\ ends \in [0 .. n -> Nat]
        /\ ends[n] = Len(src)
        /\ Holds(src, 0, fields[1]) /\ ends[1] = Len(fields[1])
        /\ \A k \in 1 .. n - 1 :
             /\ ends[k] + 1 <= Len(src) /\ src[ends[k] + 1] = "."
             /\ Holds(src, ends[k] + 1, fields[k + 1])
             /\ ends[k + 1] = ends[k] + 1 + Len(fields[k + 1])
    BY <2>2, Zenon DEF FieldEnds
  <2> DEFINE After(k) == AfterField(fields, f[ends[k]], k)
             T == {k \in 0 .. n : k >= 1 => After(k)}
  <2> HIDE DEF n, src
  <2>4. After(1)
    <3>1. 1 \in 1 .. n /\ 1 - 1 = 0 /\ 0 \in Nat /\ 0 \in 0 .. n /\ 1 <= 4 /\ 0 + Len(fields[1]) = ends[1]
      BY <1>3, <1>5, <2>3
    <3>2. Waiting(f[0], <<>>)
      <4>1. f[0] = FirstPton4
        BY <2>1, Pton4Turns, Zenon
      <4>2. Append(<<>>, 0) = <<0>>
        OBVIOUS
      <4>3. f[0] \in Pton4State
        BY <4>1 DEF FirstPton4, Pton4State
      <4> QED BY <4>1, <4>2, <4>3 DEF Waiting, FirstPton4
    <3>3. FirstOctets(fields, 0) = <<>> /\ AllOctets(fields, 0)
      BY DEF FirstOctets, AllOctets
    <3>4. BeforeField(fields, f[0], 1)
      BY <3>1, <3>2, <3>3, Zenon DEF BeforeField
    <3>5. AfterField(fields, f[0 + Len(fields[1])], 1)
      BY <2>1, <2>3, <3>1, <3>4, FieldTurn, Zenon DEF n
    <3> QED BY <3>1, <3>5, Zenon
  <2>5. ASSUME NEW k \in 1 .. n - 1, After(k) PROVE After(k + 1)
    <3> DEFINE p == ends[k]
               j == k + 1
    <3>1. k \in 1 .. n /\ j \in 1 .. n /\ p \in Nat /\ p + 1 \in Nat
      <4>1. k \in 0 .. n /\ k \in 1 .. n /\ j \in 1 .. n
        BY <1>3
      <4>2. p \in Nat
        <5>1. ends \in [0 .. n -> Nat]
          BY <2>3
        <5> QED BY <4>1, <5>1
      <4> QED BY <4>1, <4>2
    <3>2. /\ p + 1 <= Len(src) /\ src[p + 1] = "."
          /\ Holds(src, p + 1, fields[j])
          /\ ends[j] = p + 1 + Len(fields[j])
      BY <2>3
    <3>3. AfterField(fields, f[p], k)
      BY <2>5
    <3> HIDE DEF p, j
    <3>4. BeforeField(fields, f[p + 1], k + 1)
      BY <2>1, <3>1, <3>2, <3>3, DotTurn, Zenon DEF n
    <3>5. AfterField(fields, f[p + 1 + Len(fields[j])], j)
      BY <2>1, <3>1, <3>2, <3>4, FieldTurn, Zenon DEF n, j
    <3> QED BY <3>2, <3>5, Zenon DEF j
  <2>6. After(n)
    <3>1. 0 \in T
      BY <1>3
    <3>2. ASSUME NEW k \in 1 .. n, k - 1 \in T PROVE k \in T
      <4>1. CASE k = 1
        BY <1>3, <2>4, <4>1
      <4>2. CASE k # 1
        <5> DEFINE i == k - 1
        <5>1. i \in 1 .. n - 1 /\ i + 1 = k /\ k \in 0 .. n /\ i >= 1
          BY <1>3, <4>2
        <5> HIDE DEF After
        <5>2. After(i)
          BY <3>2, <5>1
        <5> HIDE DEF i
        <5>3. After(i + 1)
          BY <2>5, <5>1, <5>2
        <5> QED BY <5>1, <5>3
      <4> QED BY <4>1, <4>2
    <3> HIDE DEF T
    <3>3. \A k \in 0 .. n : k \in T
      BY <1>3, <3>1, <3>2, Counting
    <3>4. n \in 0 .. n
      BY <1>3
    <3> QED BY <1>5, <3>3, <3>4 DEF T
  <2>7. AfterField(fields, end, n)
    BY <2>3, <2>6, Zenon
  <2> HIDE DEF end
  <2>8. CASE /\ n <= 4 /\ AllOctets(fields, n)
             /\ Reading(end, FirstOctets(fields, n - 1), Octet(fields[n]))
    <3>1. end.left = "no" /\ end.saw_digit = 1 /\ end.octets = FirstOctets(fields, n)
      <4>1. n \in 1 .. n
        BY <1>3, <1>5
      <4>2. FirstOctets(fields, n) = Append(FirstOctets(fields, n - 1), Octet(fields[n]))
        BY <2>8, <4>1, OneOctetMore, Zenon DEF n
      <4> QED BY <2>8, <4>2, Zenon DEF Reading
    <3>2. Len(FirstOctets(fields, n)) = n
      <4>1. n \in 0 .. n
        BY <1>3
      <4> QED BY <2>8, <4>1, FirstOctetsType, Zenon DEF n
    <3>3. Read <=> n = 4
      BY <3>1, <3>2, Zenon
    <3> HIDE DEF Read
    <3> DEFINE result == IF n = 4 THEN FirstOctets(fields, n) ELSE Invalid
    <3>4. inet_pton4(src) = result
      BY <1>1, <3>1, <3>3, Zenon DEF src
    <3>5. Meaning4(fields) = result
      <4>1. CASE n = 4
        BY <1>2, <2>8, <4>1
      <4>2. CASE n # 4
        BY <1>2, <4>2
      <4> QED BY <4>1, <4>2
    <3> HIDE DEF result
    <3> QED BY <3>4, <3>5, Zenon DEF src
  <2>9. ASSUME end.left = "return" \/ end.saw_digit = 0, ~(n <= 4 /\ AllOctets(fields, n))
        PROVE  inet_pton4(src) = Meaning4(fields)
    <3>1. ~Read
      <4>1. "return" # "no" /\ 0 # 1
        OBVIOUS
      <4> QED BY <2>9, <4>1, Zenon
    <3>2. n = 4 => n <= 4
      BY <1>3
    <3> HIDE DEF Read
    <3> QED BY <1>1, <1>2, <2>9, <3>1, <3>2, Zenon DEF src
  <2>10. CASE n <= 4 /\ ~AllOctets(fields, n) /\ \E q \in Seq(Nat) : Waiting(end, q)
    BY <2>9, <2>10 DEF Waiting, src
  <2>11. CASE ~(n <= 4 /\ AllOctets(fields, n)) /\ Gone(end)
    BY <2>9, <2>11 DEF Gone, src
  <2> QED BY <2>7, <2>8, <2>10, <2>11, Zenon DEF AfterField
<1> QED BY <1>3, <1>4, <1>5

\* inet_pton4 reads every text there is as what it means, of any number of
\* fields of any length.
THEOREM QuadTextsRead == Spec => []Pton4ReadsMeaning
<1> DEFINE Asked == input.op = "inet_pton4" => input.fields \in Texts4
           Answered == Returned("inet_pton4") =>
                         output[1] = inet_pton4(Joined(input.fields, "."))
           Inv == Asked /\ Answered
<1>1. Init => Inv
  BY DEF Init, Between, Returned
<1>2. Inv /\ [Next]_vars => Inv'
  <2> SUFFICES ASSUME Inv, [Next]_vars PROVE Inv'
    OBVIOUS
  <2>1. CASE Call
    BY <2>1 DEF Call, Inputs, Returned
  <2>2. CASE Return
    BY <2>2 DEF Return, Between, Returned
  <2>3. CASE Pton4
    BY <2>3 DEF Pton4, Convert, Returned
  <2>4. CASE Pton6 \/ Ntop4 \/ Ntop6 \/ Others
    BY <2>4 DEF Pton6, Ntop4, Ntop6, Others,
            Scan, ScanNoReturn, PtonOther, NtopOther, Convert, Returned
  <2>5. CASE UNCHANGED vars
    BY <2>5 DEF vars, Returned
  <2> QED BY <2>1, <2>2, <2>3, <2>4, <2>5 DEF Next, Others
<1>3. Inv => Pton4ReadsMeaning
  <2> SUFFICES ASSUME Inv, Returned("inet_pton4") PROVE Pton4ReadsMeaning
    BY DEF Pton4ReadsMeaning
  <2>1. input.fields \in Seq(Seq(STRING \ {"."}))
    BY Texts4Assumption DEF Returned
  <2>2. output[1] = inet_pton4(Joined(input.fields, "."))
    BY Zenon
  <2> QED BY <2>1, <2>2, Pton4Reads DEF Pton4ReadsMeaning
<1> QED BY <1>1, <1>2, <1>3, PTL DEF Spec

-----------------------------------------------------------------------------
(* Numbers in a text of vsscanf: their digits *)

DigitSet == {Digit(d) : d \in {x \in Nat : x <= 9}}

LEMMA DigitsKnown ==
    /\ \A d \in Nat : d <= 9 => /\ Scanner!isdigit(Digit(d))
                                /\ Scanner!digit_value(Digit(d)) = d
                                /\ Digit(d) # "-"
    /\ ~Scanner!isdigit("?") /\ ~Scanner!isdigit("-")
<1> DEFINE D == Scanner!Digits
           index(ch) == CHOOSE i \in 1 .. 10 : D[i] = ch
<1>1. /\ \A i, j \in 1 .. 10 : D[i] = D[j] => i = j
      /\ \A i \in 1 .. 10 : Numerals[i] = D[i] /\ D[i] # "-" /\ D[i] # "?"
  <2>1. \A i, j \in 1 .. 10 : D[i] = D[j] => i = j
    BY DEF Scanner!Digits
  <2>2. \A i \in 1 .. 10 : D[i] # "-" /\ D[i] # "?"
    BY DEF Scanner!Digits
  <2>3. \A i \in 1 .. 10 : Numerals[i] = D[i]
    BY DEF Scanner!Digits, Numerals
  <2> QED BY <2>1, <2>2, <2>3
<1> HIDE DEF D
<1>3. \A i \in 1 .. 10 : index(D[i]) = i
  <2> TAKE i \in 1 .. 10
  <2>1. index(D[i]) \in 1 .. 10 /\ D[index(D[i])] = D[i]
    OBVIOUS
  <2> QED BY <1>1, <2>1
<1>4. \A i \in 1 .. 10 : Scanner!digit_value(D[i]) = i - 1
  BY <1>3 DEF Scanner!digit_value, D
<1>5. \A ch : Scanner!isdigit(ch) <=> \E i \in 1 .. 10 : D[i] = ch
  BY DEF Scanner!isdigit, D
<1>6. ASSUME NEW d \in Nat, d <= 9
      PROVE  /\ Scanner!isdigit(Digit(d)) /\ Scanner!digit_value(Digit(d)) = d
             /\ Digit(d) # "-"
  <2>1. d + 1 \in 1 .. 10 /\ (d + 1) - 1 = d
    BY <1>6
  <2>2. Digit(d) = D[d + 1]
    BY <1>1, <2>1 DEF Digit
  <2> QED BY <1>1, <1>4, <1>5, <2>1, <2>2
<1> QED BY <1>1, <1>5, <1>6

\* A number is written in digits, at least one.
LEMMA WrittenInDigits ==
    ASSUME NEW n \in Nat
    PROVE  Written(n, 10) \in Seq(DigitSet) /\ Written(n, 10) # <<>>
<1> DEFINE W(m) == Written(m, 10)
           Good(m) == W(m) \in Seq(DigitSet) /\ W(m) # <<>>
           T == {m \in 0 .. n : Good(m)}
<1>1. ASSUME NEW m \in 0 .. n, \A k \in 0 .. m - 1 : Good(k) PROVE Good(m)
  <2>1. \A d \in Nat : d <= 9 => Digit(d) \in DigitSet
    BY DEF DigitSet
  <2> m \in Nat
    OBVIOUS
  <2> DEFINE w == W(m)
  <2>2. CASE m < 10
    <3>1. w = <<Digit(m)>>
      BY <2>2, WrittenDecimal
    <3>2. Digit(m) \in DigitSet
      BY <2>1, <2>2
    <3> HIDE DEF w
    <3>3. w \in Seq(DigitSet) /\ w # <<>>
      BY <3>1, <3>2
    <3> QED BY <3>3 DEF w
  <2>3. CASE m >= 10
    <3> DEFINE q == m \div 10
               r == m % 10
               v == W(q)
    <3>1. /\ q \in Nat /\ q < m /\ r \in Nat /\ r <= 9
          /\ w = Append(v, Digit(r))
      BY <2>3, WrittenDecimal
    <3> HIDE DEF q, r
    <3>2. Good(q) /\ Digit(r) \in DigitSet
      BY <1>1, <2>1, <3>1
    <3> HIDE DEF v, w
    <3>3. v \in Seq(DigitSet)
      BY <3>2 DEF v
    <3>4. w \in Seq(DigitSet) /\ w # <<>>
      BY <3>1, <3>2, <3>3, AppendProperties
    <3> QED BY <3>4 DEF w
  <2> QED BY <2>2, <2>3
<1> HIDE DEF Good
<1>2. \A m \in 0 .. n : 0 .. m - 1 \subseteq T => m \in T
  BY <1>1
<1> HIDE DEF T
<1>3. n \in T
  BY <1>2, StrongCounting
<1> QED BY <1>3 DEF T, Good

\* The values of the loop of ReadDigits.
Values(w) ==
    {f \in [0 .. Len(w) -> Int] :
       f[0] = 0 /\ \A k \in 1 .. Len(w) : f[k] = f[k - 1] * 10 - Scanner!digit_value(w[k])}

LEMMA ReadDigitsTurns ==
    ASSUME NEW w \in Seq(DigitSet)
    PROVE  \E f \in Values(w) : \A positive \in BOOLEAN :
             Scanner!ReadDigits(w, positive) =
               [value   |-> IF positive THEN -f[Len(w)] ELSE f[Len(w)],
                defined |-> /\ \A k \in 0 .. Len(w) : Scanner!IsInt(f[k])
                            /\ positive => Scanner!IsInt(-f[Len(w)])]
<1> DEFINE n == Len(w)
           dv(k) == Scanner!digit_value(w[k])
           turn == [k \in 1 .. n |-> [v \in Int |-> v * 10 - dv(k)]]
           F(f) == [k \in 0 .. n |-> IF k = 0 THEN 0 ELSE f[k - 1] * 10 - dv(k)]
<1>1. n \in Nat
  OBVIOUS
<1>2. ASSUME NEW k \in 1 .. n PROVE dv(k) \in Int
  <2>1. w[k] \in DigitSet
    OBVIOUS
  <2>2. PICK d \in Nat : d <= 9 /\ w[k] = Digit(d)
    BY <2>1 DEF DigitSet
  <2> QED BY <2>2, DigitsKnown
<1> HIDE DEF dv
<1>3. turn \in Turns(Int, n)
  <2>1. \A k \in 1 .. n, v \in Int : v * 10 - dv(k) \in Int
    BY <1>2
  <2> QED BY <2>1, Zenon DEF Turns
<1>4. \A k \in 1 .. n, v \in Int : turn[k][v] = v * 10 - dv(k)
  OBVIOUS
<1> HIDE DEF n, turn
<1>5. PICK g \in Loop(Int, 0, n, turn) : TRUE
  <2>1. 0 \in Int
    OBVIOUS
  <2> QED BY <1>1, <1>3, <2>1, LoopExists
<1>6. /\ g \in [0 .. n -> Int] /\ g[0] = 0
      /\ \A k \in 1 .. n : g[k] = g[k - 1] * 10 - dv(k)
  <2>1. g \in [0 .. n -> Int] /\ g[0] = 0 /\ \A k \in 1 .. n : g[k] = turn[k][g[k - 1]]
    BY <1>5 DEF Loop
  <2>2. \A k \in 1 .. n : k - 1 \in 0 .. n
    BY <1>1
  <2> QED BY <1>4, <2>1, <2>2
<1>7. g = F(g)
  <2>1. g = [k \in 0 .. n |-> g[k]]
    BY <1>6
  <2>2. \A k \in 0 .. n : g[k] = IF k = 0 THEN 0 ELSE g[k - 1] * 10 - dv(k)
    BY <1>1, <1>6
  <2> QED BY <2>1, <2>2
<1> DEFINE h == CHOOSE f : f = F(f)
<1>8. h = F(h)
  <2> HIDE DEF F
  <2> QED BY <1>7
<1>9. \A positive \in BOOLEAN :
        Scanner!ReadDigits(w, positive) =
          [value   |-> IF positive THEN -h[n] ELSE h[n],
           defined |-> /\ \A k \in 0 .. n : Scanner!IsInt(h[k])
                       /\ positive => Scanner!IsInt(-h[n])]
  BY DEF Scanner!ReadDigits, n, h, dv
<1> HIDE DEF h
<1>10. h[0] = 0 /\ \A k \in 1 .. n : h[k] = h[k - 1] * 10 - dv(k)
  BY <1>1, <1>8
<1>11. \A k \in 0 .. n : h[k] \in Int
  <2> DEFINE T == {k \in 0 .. n : h[k] \in Int}
  <2>1. 0 \in T
    BY <1>1, <1>10
  <2>2. \A k \in 1 .. n : k - 1 \in T => k \in T
    BY <1>2, <1>10
  <2> HIDE DEF T
  <2>3. \A k \in 0 .. n : k \in T
    BY <1>1, <2>1, <2>2, Counting
  <2> QED BY <2>3 DEF T
<1>12. h \in [0 .. n -> Int]
  BY <1>8, <1>11
<1>13. h \in Values(w)
  BY <1>10, <1>12 DEF Values, n, dv
<1> QED BY <1>9, <1>13 DEF n

\* From a number that was written the loop reads its negation, downwards.
LEMMA ReadWritten ==
    ASSUME NEW n \in Nat, NEW f \in Values(Written(n, 10))
    PROVE  LET len == Len(Written(n, 10))
           IN  f[len] = -n /\ \A k \in 0 .. len : -n <= f[k] /\ f[k] <= 0
<1> DEFINE W(m) == Written(m, 10)
           w == W(n)
           Begins(v) == Len(v) <= Len(w) /\ \A j \in 1 .. Len(v) : v[j] = w[j]
           Read(m, v) == f[Len(v)] = -m /\ \A k \in 0 .. Len(v) : -m <= f[k] /\ f[k] <= 0
           Good(m) == Begins(W(m)) => Read(m, W(m))
           T == {m \in 0 .. n : Good(m)}
<1>1. /\ f \in [0 .. Len(w) -> Int] /\ f[0] = 0
      /\ \A k \in 1 .. Len(w) : f[k] = f[k - 1] * 10 - Scanner!digit_value(w[k])
  BY DEF Values
<1>2. \A m \in Nat : W(m) \in Seq(DigitSet) /\ W(m) # <<>>
  BY WrittenInDigits
<1>3. \A d \in Nat : d <= 9 => Scanner!digit_value(Digit(d)) = d
  BY DigitsKnown
<1>4. ASSUME NEW m \in 0 .. n, \A k \in 0 .. m - 1 : Good(k), NEW v, v = W(m), Begins(v)
      PROVE  Read(m, v)
  <2> m \in Nat
    OBVIOUS
  <2>1. CASE m < 10
    <3>1. v = <<Digit(m)>>
      BY <1>4, <2>1, WrittenDecimal
    <3> HIDE DEF w, W
    <3>2. Len(v) = 1 /\ 1 \in 1 .. Len(w) /\ w[1] = Digit(m)
      BY <1>4, <3>1
    <3>3. f[1] = 0 - m
      BY <1>1, <1>3, <2>1, <3>2
    <3>4. \A k \in 0 .. Len(v) : k = 0 \/ k = 1
      BY <3>2
    <3> QED BY <1>1, <3>2, <3>3, <3>4
  <2>2. CASE m >= 10
    <3> DEFINE q == m \div 10
               r == m % 10
               u == W(q)
    <3>1. /\ q \in Nat /\ q < m /\ r \in Nat /\ r <= 9
          /\ v = Append(u, Digit(r)) /\ m = q * 10 + r
      <4> HIDE DEF W
      <4>1. /\ q \in Nat /\ q < m /\ r \in Nat /\ r <= 9 /\ m = q * 10 + r
        BY <2>2, WrittenDecimal
      <4>2. v = Append(u, Digit(r))
        BY <1>4, <2>2, WrittenDecimal DEF W
      <4> QED BY <4>1, <4>2
    <3> HIDE DEF q, r
    <3>2. Good(q) /\ u \in Seq(DigitSet)
      <4> HIDE DEF Good, W
      <4>1. q \in 0 .. m - 1
        BY <3>1
      <4> QED BY <1>2, <1>4, <3>1, <4>1
    <3> HIDE DEF u, w, W
    <3>3. /\ Len(u) \in Nat /\ Len(v) = Len(u) + 1
          /\ v[Len(v)] = Digit(r) /\ \A j \in 1 .. Len(u) : v[j] = u[j]
      BY <3>1, <3>2, AppendProperties
    <3>4. Begins(u)
      BY <1>4, <3>3
    <3>5. Read(q, u)
      BY <3>2, <3>4 DEF u
    <3> DEFINE last == Len(v)
    <3>6. last \in 1 .. Len(w) /\ w[last] = Digit(r) /\ last - 1 = Len(u)
      <4>1. last <= Len(w) /\ v[last] = w[last]
        BY <1>4, <3>3
      <4>2. Len(w) \in Nat
        BY <1>2 DEF w
      <4> QED BY <3>3, <4>1, <4>2
    <3>7. f[last] = (-q) * 10 - r
      BY <1>1, <1>3, <3>1, <3>5, <3>6
    <3>8. f[last] = -m
      BY <3>1, <3>7
    <3>9. ASSUME NEW k \in 0 .. last PROVE -m <= f[k] /\ f[k] <= 0
      <4>1. CASE k = last
        BY <3>8, <4>1
      <4>2. CASE k \in 0 .. Len(u)
        <5>1. k \in 0 .. Len(w)
          BY <3>3, <3>6, <4>2
        <5>2. f[k] \in Int /\ -q <= f[k] /\ f[k] <= 0
          BY <1>1, <3>5, <4>2, <5>1
        <5> QED BY <3>1, <5>2
      <4> QED BY <3>3, <4>1, <4>2
    <3> QED BY <3>8, <3>9
  <2> QED BY <2>1, <2>2
<1> HIDE DEF Read, Begins, W
<1>5. \A m \in 0 .. n : (\A k \in 0 .. m - 1 : Good(k)) => Good(m)
  BY <1>4
<1> HIDE DEF Good
<1>6. \A m \in 0 .. n : 0 .. m - 1 \subseteq T => m \in T
  BY <1>5
<1> HIDE DEF T
<1>7. n \in T
  BY <1>6, StrongCounting
<1>8. Begins(w)
  BY <1>2 DEF Begins, w
<1>9. Read(n, w)
  BY <1>7, <1>8 DEF T, Good, w
<1> QED BY <1>9 DEF Read, w, W

-----------------------------------------------------------------------------
(* The items of a text *)

LEMMA IntRange ==
    \E limit \in Int : \A n \in Int : Scanner!IsInt(n) <=> -limit <= n /\ n < limit
<1>1. 2 ^ (IntWidth - 1) \in Int
  <2>1. IntWidth - 1 \in Nat
    BY IntWidthAssumption
  <2>2. \A k \in Nat : 2 ^ k \in Int
    OBVIOUS
  <2> QED BY <2>1, <2>2
<1>2. PICK limit \in Int : limit = 2 ^ (IntWidth - 1)
  BY <1>1
<1>3. \A n \in Int : Scanner!IsInt(n) <=> -limit <= n /\ n < limit
  BY <1>2, Zenon DEF Scanner!IsInt
<1> QED BY <1>3

\* A text in two parts.
Split(z, x, y) ==
    /\ Len(z) = Len(x) + Len(y)
    /\ SubSeq(z, 1, Len(x)) = x /\ Scanner!After(z, Len(x)) = y

LEMMA AfterConcat ==
    ASSUME NEW Char, NEW x \in Seq(Char), NEW y \in Seq(Char)
    PROVE  x \o y \in Seq(Char) /\ Split(x \o y, x, y)
<1> DEFINE z == x \o y
<1>1. /\ z \in Seq(Char) /\ Len(z) = Len(x) + Len(y) /\ Len(x) \in Nat /\ Len(y) \in Nat
      /\ \A i \in 1 .. Len(z) : z[i] = IF i <= Len(x) THEN x[i] ELSE y[i - Len(x)]
  BY ConcatProperties
<1> HIDE DEF z
<1> DEFINE a == SubSeq(z, 1, Len(x))
           b == SubSeq(z, Len(x) + 1, Len(z))
<1>2. \A i \in 1 .. Len(z) : z[i] \in Char
  BY <1>1
<1>3. /\ a \in Seq(Char) /\ Len(a) = Len(x)
      /\ \A i \in 1 .. Len(x) : a[i] = z[i]
  <2>1. \A i \in 1 .. Len(x) : z[i] \in Char
    BY <1>1, <1>2
  <2>2. /\ a \in Seq(Char)
        /\ Len(a) = IF 1 <= Len(x) THEN Len(x) - 1 + 1 ELSE 0
        /\ \A i \in 1 .. Len(x) - 1 + 1 : a[i] = z[1 + i - 1]
    BY <1>1, <2>1, SubSeqProperties
  <2> HIDE DEF a
  <2> QED BY <1>1, <2>2
<1>4. /\ b \in Seq(Char) /\ Len(b) = Len(y)
      /\ \A i \in 1 .. Len(y) : b[i] = z[Len(x) + i]
  <2> DEFINE m == Len(x) + 1
             n == Len(z)
  <2>1. m \in Int /\ n \in Int /\ \A i \in m .. n : z[i] \in Char
    BY <1>1, <1>2
  <2>2. /\ b \in Seq(Char)
        /\ Len(b) = IF m <= n THEN n - m + 1 ELSE 0
        /\ \A i \in 1 .. n - m + 1 : b[i] = z[m + i - 1]
    BY <2>1, SubSeqProperties
  <2> HIDE DEF b
  <2>3. n - m + 1 = Len(y) /\ \A i \in 1 .. Len(y) : m + i - 1 = Len(x) + i
    BY <1>1
  <2>4. m <= n <=> Len(y) >= 1
    BY <1>1
  <2> HIDE DEF m, n
  <2>5. Len(b) = Len(y)
    BY <1>1, <2>2, <2>3, <2>4
  <2>6. \A i \in 1 .. Len(y) : b[i] = z[m + i - 1]
    BY <2>2, <2>3
  <2>7. \A i \in 1 .. Len(y) : b[i] = z[Len(x) + i]
    BY <2>3, <2>6, Zenon
  <2> QED BY <2>2, <2>5, <2>7
<1> HIDE DEF a, b
<1>5. a = x
  <2>1. \A i \in 1 .. Len(a) : a[i] = x[i]
    BY <1>1, <1>3
  <2> QED BY <1>3, <2>1, SeqEqual
<1>6. b = y
  <2>1. \A i \in 1 .. Len(b) : b[i] = y[i]
    <3> TAKE i \in 1 .. Len(b)
    <3>1. /\ Len(x) + i \in 1 .. Len(z) /\ ~(Len(x) + i <= Len(x))
          /\ (Len(x) + i) - Len(x) = i
      BY <1>1, <1>4
    <3> QED BY <1>1, <1>4, <3>1
  <2> QED BY <1>4, <2>1, SeqEqual
<1> QED BY <1>1, <1>5, <1>6, Zenon DEF z, a, b, Split, Scanner!After

\* The digits of a number end where no digit follows.
LEMMA DigitsFound ==
    ASSUME NEW Char, DigitSet \subseteq Char, NEW w \in Seq(DigitSet),
           NEW rest \in Seq(Char), rest # <<>>, ~Scanner!isdigit(rest[1]),
           NEW str, str = w \o rest
    PROVE  Scanner!DigitsOf(str) = w
<1> DEFINE Ends(k) == /\ \A i \in 1 .. k : Scanner!isdigit(str[i])
                      /\ k < Len(str) => ~Scanner!isdigit(str[k + 1])
           n == CHOOSE k \in 0 .. Len(str) : Ends(k)
<1>1. w \in Seq(Char)
  BY SeqMonotonic
<1>2. /\ Len(w) \in Nat /\ Len(rest) \in Nat \ {0} /\ Len(str) = Len(w) + Len(rest)
      /\ \A i \in 1 .. Len(str) : str[i] = IF i <= Len(w) THEN w[i] ELSE rest[i - Len(w)]
  BY <1>1, ConcatProperties, EmptySeq
<1>3. \A i \in 1 .. Len(w) : Scanner!isdigit(w[i])
  <2> TAKE i \in 1 .. Len(w)
  <2>1. PICK d \in Nat : d <= 9 /\ w[i] = Digit(d)
    BY DEF DigitSet
  <2> QED BY <2>1, DigitsKnown
<1>4. \A i \in 1 .. Len(w) : Scanner!isdigit(str[i])
  BY <1>2, <1>3
<1>5. ~Scanner!isdigit(str[Len(w) + 1])
  <2>1. /\ Len(w) + 1 \in 1 .. Len(str) /\ ~(Len(w) + 1 <= Len(w))
        /\ (Len(w) + 1) - Len(w) = 1
    BY <1>2
  <2> QED BY <1>2, <2>1
<1>6. Len(w) \in 0 .. Len(str) /\ Ends(Len(w))
  BY <1>2, <1>4, <1>5
<1>7. ASSUME NEW k \in 0 .. Len(str), Ends(k) PROVE k = Len(w)
  <2>1. CASE k < Len(w)
    <3>1. k < Len(str) /\ k + 1 \in 1 .. Len(w)
      BY <1>2, <2>1
    <3> QED BY <1>4, <1>7, <3>1
  <2>2. CASE k > Len(w)
    <3>1. Len(w) + 1 \in 1 .. k
      BY <1>2, <2>2
    <3> QED BY <1>5, <1>7, <3>1
  <2> QED BY <1>2, <2>1, <2>2
<1>8. n = Len(w)
  <2> HIDE DEF Ends
  <2> QED BY <1>6, <1>7
<1>9. Scanner!DigitsOf(str) = SubSeq(str, 1, n)
  BY DEF Scanner!DigitsOf
<1> HIDE DEF n
<1>10. SubSeq(str, 1, Len(w)) = w
  <2>1. Split(str, w, rest)
    BY <1>1, AfterConcat, Zenon
  <2> QED BY <2>1 DEF Split
<1> QED BY <1>8, <1>9, <1>10

\* What the loop holds: what is left of the text, and what was read of it.
Held(str, ints, chars, n, defined, stop) ==
    [str |-> str, ints |-> ints, chars |-> chars, val_cnt |-> n,
     defined |-> defined, stop |-> stop]

\* The same while nothing overflowed and every item matched, and after one did not.
Scanning(str, ints, chars, n) == Held(str, ints, chars, n, TRUE, FALSE)

Stopped(str, ints, chars, n) == Held(str, ints, chars, n, TRUE, TRUE)

IntHeld(s, str, ints, defined, n) ==
    [s EXCEPT !.str = str, !.ints = ints, !.defined = defined, !.val_cnt = n]

CharHeld(s, str, chars, n) == [s EXCEPT !.str = str, !.chars = chars, !.val_cnt = n]

LiteralHeld(s, str) == [s EXCEPT !.str = str]

LEMMA IntHeldEq ==
    \A str, ints, chars, n, d, stop, x, y, z, m :
        IntHeld(Held(str, ints, chars, n, d, stop), x, y, z, m) = Held(x, y, chars, m, z, stop)
<1> TAKE str, ints, chars, n, d, stop, x, y, z, m
<1> DEFINE s == Held(str, ints, chars, n, d, stop)
           t == [s EXCEPT !.str = x]
           u == [t EXCEPT !.ints = y]
           v == [u EXCEPT !.defined = z]
           w == [v EXCEPT !.val_cnt = m]
<1>1. t = Held(x, ints, chars, n, d, stop)
  BY DEF Held
<1> HIDE DEF t
<1>2. u = Held(x, y, chars, n, d, stop)
  BY <1>1 DEF Held
<1> HIDE DEF u
<1>3. v = Held(x, y, chars, n, z, stop)
  BY <1>2 DEF Held
<1> HIDE DEF v
<1>4. w = Held(x, y, chars, m, z, stop)
  BY <1>3 DEF Held
<1> HIDE DEF w
<1> QED BY <1>4, Zenon DEF t, u, v, w, IntHeld

LEMMA CharHeldEq ==
    \A str, ints, chars, n, d, stop, x, y, m :
        CharHeld(Held(str, ints, chars, n, d, stop), x, y, m) = Held(x, ints, y, m, d, stop)
<1> TAKE str, ints, chars, n, d, stop, x, y, m
<1> DEFINE s == Held(str, ints, chars, n, d, stop)
           t == [s EXCEPT !.str = x]
           u == [t EXCEPT !.chars = y]
           v == [u EXCEPT !.val_cnt = m]
<1>1. t = Held(x, ints, chars, n, d, stop)
  BY DEF Held
<1> HIDE DEF t
<1>2. u = Held(x, ints, y, n, d, stop)
  BY <1>1 DEF Held
<1> HIDE DEF u
<1>3. v = Held(x, ints, y, m, d, stop)
  BY <1>2 DEF Held
<1> HIDE DEF v
<1> QED BY <1>3, Zenon DEF t, u, v, CharHeld

LEMMA LiteralHeldEq ==
    \A str, ints, chars, n, d, stop, x :
        LiteralHeld(Held(str, ints, chars, n, d, stop), x) = Held(x, ints, chars, n, d, stop)
  BY DEF Held, LiteralHeld

Signed(n) == IF n < 0 THEN <<"-">> \o Written(-n, 10) ELSE Written(n, 10)

\* Reading the digits of an int that fits overflows nowhere, whatever its sign.
LEMMA ReadDigitsWritten ==
    ASSUME NEW n \in Int, Scanner!IsInt(n),
           NEW w, w = Written(IF n < 0 THEN -n ELSE n, 10),
           NEW positive \in BOOLEAN, positive <=> n >= 0
    PROVE  LET read == Scanner!ReadDigits(w, positive)
           IN  read.value = n /\ read.defined = TRUE
<1> DEFINE m == IF n < 0 THEN -n ELSE n
<1>1. m \in Nat /\ w = Written(m, 10)
  OBVIOUS
<1>2. w \in Seq(DigitSet)
  BY <1>1, WrittenInDigits
<1>3. PICK f \in Values(w) :
        Scanner!ReadDigits(w, positive) =
          [value   |-> IF positive THEN -f[Len(w)] ELSE f[Len(w)],
           defined |-> /\ \A k \in 0 .. Len(w) : Scanner!IsInt(f[k])
                       /\ positive => Scanner!IsInt(-f[Len(w)])]
  BY <1>2, ReadDigitsTurns
<1>4. f[Len(w)] = -m /\ \A k \in 0 .. Len(w) : -m <= f[k] /\ f[k] <= 0
  BY <1>1, ReadWritten
<1>5. PICK limit \in Int : \A i \in Int : Scanner!IsInt(i) <=> -limit <= i /\ i < limit
  BY IntRange
<1>6. ASSUME NEW k \in 0 .. Len(w) PROVE Scanner!IsInt(f[k])
  <2>1. f[k] \in Int
    BY DEF Values
  <2>2. -m <= f[k] /\ f[k] <= 0
    BY <1>4
  <2>3. -limit <= n /\ n < limit
    BY <1>5
  <2>4. -limit <= -m /\ 0 < limit
    BY <1>5, <2>3
  <2>5. -limit <= f[k] /\ f[k] < limit
    BY <1>1, <1>5, <2>1, <2>2, <2>4
  <2> QED BY <1>5, <2>1, <2>5
<1>7. (IF positive THEN -f[Len(w)] ELSE f[Len(w)]) = n
  BY <1>1, <1>4
<1>8. positive => Scanner!IsInt(-f[Len(w)])
  BY <1>7
<1> DEFINE value == IF positive THEN -f[Len(w)] ELSE f[Len(w)]
           defined == /\ \A k \in 0 .. Len(w) : Scanner!IsInt(f[k])
                      /\ positive => Scanner!IsInt(-f[Len(w)])
<1>9. value = n /\ defined = TRUE
  BY <1>6, <1>7, <1>8
<1>10. Scanner!ReadDigits(w, positive) = [value |-> value, defined |-> defined]
  BY <1>3
<1> HIDE DEF value, defined
<1> QED BY <1>9, <1>10

\* A text that an int begins.
IntThen(str, n, rest) == str = Signed(n) \o rest

LEMMA ScanIntReads ==
    ASSUME NEW Char, DigitSet \subseteq Char, "-" \in Char,
           NEW n \in Int, Scanner!IsInt(n), NEW ints, NEW chars, NEW k,
           NEW rest \in Seq(Char), rest # <<>>, ~Scanner!isdigit(rest[1]),
           NEW str, IntThen(str, n, rest)
    PROVE  Scanner!ScanInt(Scanning(str, ints, chars, k)) =
             Scanning(rest, Append(ints, n), chars, k + 1)
<1> DEFINE s == Held(str, ints, chars, k, TRUE, FALSE)
           m == IF n < 0 THEN -n ELSE n
           w == Written(m, 10)
           sign == IF s.str # <<>> /\ s.str[1] = "-" THEN 1 ELSE 0
           digits == Scanner!DigitsOf(Scanner!After(s.str, sign))
           read == Scanner!ReadDigits(digits, sign = 0)
<1>1. /\ s.str = str /\ s.ints = ints /\ s.chars = chars /\ s.val_cnt = k
      /\ s.defined = TRUE /\ s.stop = FALSE
  BY DEF Held
<1>2. m \in Nat
  OBVIOUS
<1> HIDE DEF m
<1>3. w \in Seq(DigitSet) /\ w # <<>> /\ w \in Seq(Char)
  BY <1>2, WrittenInDigits, SeqMonotonic
<1> DEFINE body == w \o rest
<1> HIDE DEF w, s
<1>4. Scanner!DigitsOf(body) = w
  BY <1>3, DigitsFound
<1>5. /\ sign = (IF n < 0 THEN 1 ELSE 0) /\ Scanner!After(str, sign) = body
      /\ Scanner!After(str, sign + Len(w)) = rest
  <2>1. CASE n < 0
    <3> DEFINE minus == <<"-">>
               x == minus \o w
    <3>1. minus \in Seq(Char) /\ 1 <= Len(minus) /\ minus[1] = "-"
      OBVIOUS
    <3>2. Len(minus) = 1
      OBVIOUS
    <3>3. str = x \o rest
      BY <2>1 DEF IntThen, Signed, w, m
    <3> HIDE DEF minus
    <3>4. x \in Seq(Char) /\ Len(x) = Len(minus) + Len(w)
      BY <1>3, <3>1, ConcatProperties
    <3>5. str = minus \o body
      <4>1. (minus \o w) \o rest = minus \o (w \o rest)
        <5>1. \A a, b, c \in Seq(Char) : (a \o b) \o c = a \o (b \o c)
          BY ConcatAssociative
        <5> HIDE DEF x, body
        <5>2. minus \in Seq(Char) /\ w \in Seq(Char) /\ rest \in Seq(Char)
          BY <1>3, <3>1, Zenon
        <5> QED BY <5>1, <5>2, Zenon
      <4> QED BY <3>3, <4>1, Zenon
    <3>6. body \in Seq(Char)
      BY <1>3, ConcatProperties
    <3> HIDE DEF x, body
    <3>7. str \in Seq(Char) /\ Scanner!After(str, Len(minus)) = body
      <4>1. str \in Seq(Char) /\ Split(str, minus, body)
        BY <3>1, <3>5, <3>6, AfterConcat, Zenon
      <4> QED BY <4>1, Zenon DEF Split
    <3>8. Scanner!After(str, Len(x)) = rest
      <4>1. Split(str, x, rest)
        BY <3>3, <3>4, AfterConcat, Zenon
      <4> QED BY <4>1, Zenon DEF Split
    <3>9. str # <<>> /\ str[1] = "-"
      <4>1. Len(str) = Len(minus) + Len(body) /\ str[1] = minus[1]
        BY <3>1, <3>5, <3>6, ConcatProperties
      <4>2. Len(str) # 0
        BY <3>1, <3>6, <4>1
      <4> QED BY <3>1, <4>1, <4>2
    <3>10. sign = 1
      BY <1>1, <3>9, Zenon
    <3> QED BY <2>1, <3>2, <3>4, <3>7, <3>8, <3>10, Zenon
  <2>2. CASE ~(n < 0)
    <3>1. str = body
      BY <2>2 DEF IntThen, Signed, w, m
    <3>2. str \in Seq(Char) /\ Scanner!After(str, Len(w)) = rest
      <4>1. str \in Seq(Char) /\ Split(str, w, rest)
        BY <1>3, <3>1, AfterConcat, Zenon
      <4> QED BY <4>1, Zenon DEF Split
    <3>3. str[1] = w[1] /\ w[1] \in DigitSet
      <4>1. 1 \in 1 .. Len(w)
        BY <1>3, EmptySeq
      <4> QED BY <1>3, <3>1, <4>1, ConcatProperties
    <3>4. str[1] # "-"
      <4>1. PICK d \in Nat : d <= 9 /\ str[1] = Digit(d)
        BY <3>3 DEF DigitSet
      <4> QED BY <4>1, DigitsKnown
    <3>5. sign = 0
      BY <1>1, <3>4
    <3>6. Scanner!After(str, 0) = str
      <4>1. SubSeq(str, 0 + 1, Len(str)) = str
        BY <3>2, SubSeqFull
      <4> QED BY <4>1 DEF Scanner!After
    <3>7. 0 + Len(w) = Len(w)
      BY <1>3
    <3> QED BY <2>2, <3>1, <3>2, <3>5, <3>6, <3>7
  <2> QED BY <2>1, <2>2
<1> HIDE DEF sign, body
<1>6. digits = w
  BY <1>1, <1>4, <1>5
<1>7. read.value = n /\ read.defined = TRUE
  <2>1. (sign = 0) \in BOOLEAN /\ ((sign = 0) <=> n >= 0)
    BY <1>5
  <2>2. w = Written(IF n < 0 THEN -n ELSE n, 10)
    BY DEF w, m
  <2> HIDE DEF digits
  <2> QED BY <1>6, <2>1, <2>2, ReadDigitsWritten
<1> HIDE DEF digits
<1>8. digits # <<>>
  BY <1>3, <1>6
<1> HIDE DEF read
<1>9. Scanner!ScanInt(s) = [s EXCEPT !.str = Scanner!After(@, sign + Len(digits)),
                                    !.ints = Append(@, read.value),
                                    !.defined = @ /\ read.defined,
                                    !.val_cnt = @ + 1]
  BY <1>8, Zenon DEF Scanner!ScanInt, sign, digits, read
<1> DEFINE a == Scanner!After(s.str, sign + Len(digits))
           b == Append(s.ints, read.value)
           c == s.defined /\ read.defined
           d == s.val_cnt + 1
           m1 == k + 1
<1>10. a = rest /\ b = Append(ints, n) /\ c = TRUE /\ d = m1
  BY <1>1, <1>5, <1>6, <1>7
<1>11. Scanner!ScanInt(s) = IntHeld(s, a, b, c, d)
  BY <1>9 DEF IntHeld
<1> HIDE DEF a, b, c, d, m1, s
<1>12. Scanner!ScanInt(s) = IntHeld(s, rest, Append(ints, n), TRUE, m1)
  BY <1>10, <1>11, Zenon
<1>13. \A yes, no : Held(rest, Append(ints, n), chars, m1, yes, no)
                      = IntHeld(Held(str, ints, chars, k, yes, no), rest, Append(ints, n), yes, m1)
  BY IntHeldEq
<1> QED BY <1>12, <1>13 DEF s, m1, Scanning

\* A text that one character begins.
OneThen(str, ch, rest) == str = <<ch>> \o rest

LEMMA OneThenProperties ==
    ASSUME NEW Char, NEW ch \in Char, NEW rest \in Seq(Char), NEW str, OneThen(str, ch, rest)
    PROVE  str # <<>> /\ str[1] = ch /\ Tail(str) = rest
<1> DEFINE one == <<ch>>
<1>1. one \in Seq(Char) /\ Len(one) = 1 /\ one[1] = ch
  <2>1. one \in Seq(Char) /\ one[1] = ch
    OBVIOUS
  <2>2. Len(one) = 1
    OBVIOUS
  <2> QED BY <2>1, <2>2, Zenon
<1>2. str = one \o rest
  BY DEF OneThen
<1> HIDE DEF one
<1> DEFINE k == Len(one)
<1>3. /\ str \in Seq(Char) /\ Len(str) = 1 + Len(rest) /\ Len(rest) \in Nat
      /\ \A i \in 1 .. Len(str) : str[i] = IF i <= 1 THEN one[i] ELSE rest[i - 1]
  <2>1. one \in Seq(Char) /\ k = 1
    BY <1>1, Zenon
  <2>2. /\ str \in Seq(Char) /\ Len(str) = k + Len(rest) /\ Len(rest) \in Nat
        /\ \A i \in 1 .. Len(str) : str[i] = IF i <= k THEN one[i] ELSE rest[i - k]
    <3>1. one \in Seq(Char)
      BY <2>1, Zenon
    <3> QED BY <1>2, <3>1, ConcatProperties
  <2> HIDE DEF k
  <2> QED BY <2>1, <2>2
<1>4. str # <<>> /\ str[1] = ch
  BY <1>1, <1>3
<1> DEFINE t == Tail(str)
<1>5. t \in Seq(Char) /\ Len(t) = Len(rest)
  BY <1>3, <1>4
<1>6. \A i \in 1 .. Len(t) : t[i] = rest[i]
  <2> TAKE i \in 1 .. Len(t)
  <2>1. i + 1 \in 1 .. Len(str) /\ ~(i + 1 <= 1) /\ (i + 1) - 1 = i
    BY <1>3, <1>5
  <2>2. t[i] = str[i + 1]
    BY <1>3, <1>4, <1>5
  <2> QED BY <1>3, <2>1, <2>2
<1> HIDE DEF t
<1>7. t = rest
  BY <1>5, <1>6, SeqEqual
<1> QED BY <1>4, <1>7 DEF t

LEMMA ScanOneReads ==
    ASSUME NEW Char, NEW ch \in Char, NEW rest \in Seq(Char), NEW str, OneThen(str, ch, rest),
           NEW ints, NEW chars, NEW k
    PROVE  LET s == Scanning(str, ints, chars, k)
           IN  /\ ch \in Letters =>
                    Scanner!ScanChar(s) = Scanning(rest, ints, Append(chars, ch), k + 1)
               /\ Scanner!ScanLiteral(s, ch) = Scanning(rest, ints, chars, k)
<1> DEFINE s == Scanning(str, ints, chars, k)
           more == Append(chars, ch)
           next == k + 1
<1>1. s.str = str /\ s.chars = chars /\ s.val_cnt = k
  BY DEF Scanning, Held
<1>2. str # <<>> /\ str[1] = ch /\ Tail(str) = rest
  BY OneThenProperties
<1> HIDE DEF s
<1>3. ch \in Letters => Scanner!ScanChar(s) = CharHeld(s, rest, more, next)
  BY <1>1, <1>2 DEF Scanner!ScanChar, CharHeld
<1>4. Scanner!ScanLiteral(s, ch) = LiteralHeld(s, rest)
  BY <1>1, <1>2 DEF Scanner!ScanLiteral, LiteralHeld
<1> HIDE DEF more, next
<1>5. CharHeld(s, rest, more, next) = Scanning(rest, ints, more, next)
  <2>1. \A d, stop : CharHeld(Held(str, ints, chars, k, d, stop), rest, more, next)
                       = Held(rest, ints, more, next, d, stop)
    BY CharHeldEq
  <2> QED BY <2>1 DEF s, Scanning
<1>6. LiteralHeld(s, rest) = Scanning(rest, ints, chars, k)
  <2>1. \A d, stop : LiteralHeld(Held(str, ints, chars, k, d, stop), rest)
                       = Held(rest, ints, chars, k, d, stop)
    BY LiteralHeldEq
  <2> QED BY <2>1 DEF s, Scanning
<1> QED BY <1>3, <1>4, <1>5, <1>6, Zenon DEF s, more, next

\* At the end of the text no item matches.
LEMMA ScanStops ==
    ASSUME NEW ints, NEW chars, NEW cnt, NEW item, item # "?"
    PROVE  Scanner!ScanItem(Scanning(<<"?">>, ints, chars, cnt), item) = Stopped(<<"?">>, ints, chars, cnt)
<1> DEFINE str == <<"?">>
           s == Held(str, ints, chars, cnt, TRUE, FALSE)
           stopped == [s EXCEPT !.stop = TRUE]
<1>1. s.str = str /\ s.stop = FALSE
  BY DEF Held
<1>2. str \in Seq({"?"}) /\ str # <<>> /\ str[1] = "?" /\ Len(str) = 1
  OBVIOUS
<1>3. stopped = Held(str, ints, chars, cnt, TRUE, TRUE)
  <2>1. \A yes, no : [Held(str, ints, chars, cnt, yes, no) EXCEPT !.stop = yes]
                       = Held(str, ints, chars, cnt, yes, yes)
    BY DEF Held
  <2> QED BY <2>1
<1>4. Scanner!After(str, 0) = str
  <2>1. SubSeq(str, 1, Len(str)) = str
    BY <1>2, SubSeqFull
  <2> QED BY <2>1 DEF Scanner!After
<1> HIDE DEF s, str
<1>5. Scanner!DigitsOf(str) = <<>>
  <2> DEFINE Ends(k) == /\ \A i \in 1 .. k : Scanner!isdigit(str[i])
                        /\ k < Len(str) => ~Scanner!isdigit(str[k + 1])
             n == CHOOSE k \in 0 .. Len(str) : Ends(k)
  <2>1. Ends(0) /\ ~Ends(1)
    BY <1>2, DigitsKnown
  <2>2. 0 .. Len(str) = {0, 1}
    BY <1>2
  <2>3. n = 0
    <3> HIDE DEF Ends
    <3> QED BY <2>1, <2>2
  <2>4. Scanner!DigitsOf(str) = SubSeq(str, 1, n)
    BY DEF Scanner!DigitsOf
  <2> HIDE DEF n
  <2>5. SubSeq(str, 1, 0) = <<>>
    BY <1>2, SubSeqEmpty
  <2> QED BY <2>3, <2>4, <2>5
<1>6. Scanner!ScanInt(s) = stopped
  BY <1>1, <1>2, <1>4, <1>5 DEF Scanner!ScanInt
<1>7. Scanner!ScanChar(s) = stopped
  BY <1>1, <1>2, ScansAssumption DEF Scanner!ScanChar
<1>8. Scanner!ScanLiteral(s, item) = stopped
  BY <1>1, <1>2 DEF Scanner!ScanLiteral
<1> HIDE DEF stopped
<1>9. Scanner!ScanItem(s, item) = stopped
  BY <1>1, <1>6, <1>7, <1>8 DEF Scanner!ScanItem
<1> QED BY <1>3, <1>9, Zenon DEF s, str, Scanning, Stopped

-----------------------------------------------------------------------------
(* How many items were read *)

LEMMA CountTurns ==
    ASSUME NEW scan, NEW d
    PROVE  /\ Count(scan, 0, d) = 0
           /\ \A i \in Nat :
                /\ Count(scan, i, d) \in Nat
                /\ scan.format[i + 1] = d => Count(scan, i + 1, d) = Count(scan, i, d) + 1
                /\ scan.format[i + 1] # d => Count(scan, i + 1, d) = Count(scan, i, d)
           /\ \A i, j \in Nat : i <= j => Count(scan, i, d) <= Count(scan, j, d)
<1> DEFINE C(i) == {j \in 1 .. i : scan.format[j] = d}
<1>1. ASSUME NEW i \in Nat PROVE IsFiniteSet(C(i))
  <2>1. C(i) \subseteq 1 .. i
    OBVIOUS
  <2> HIDE DEF C
  <2> QED BY <2>1, FS_Interval, FS_Subset
<1>2. \A i, j \in Nat : i <= j => C(i) \subseteq C(j)
  OBVIOUS
<1>3. ASSUME NEW i \in Nat
      PROVE  /\ scan.format[i + 1] = d => C(i + 1) = C(i) \cup {i + 1}
             /\ scan.format[i + 1] # d => C(i + 1) = C(i)
             /\ i + 1 \notin C(i)
  OBVIOUS
<1>4. C(0) = {}
  OBVIOUS
<1> HIDE DEF C
<1>5. Cardinality(C(0)) = 0
  BY <1>4, FS_EmptySet
<1>6. ASSUME NEW i \in Nat
      PROVE  /\ Cardinality(C(i)) \in Nat
             /\ scan.format[i + 1] = d => Cardinality(C(i + 1)) = Cardinality(C(i)) + 1
             /\ scan.format[i + 1] # d => Cardinality(C(i + 1)) = Cardinality(C(i))
  <2>1. Cardinality(C(i)) \in Nat
    BY <1>1, FS_CardinalityType
  <2>2. Cardinality(C(i) \cup {i + 1}) = Cardinality(C(i)) + 1
    BY <1>1, <1>3, FS_AddElement
  <2> QED BY <1>3, <2>1, <2>2, Zenon
<1>7. ASSUME NEW i \in Nat, NEW j \in Nat, i <= j
      PROVE  Cardinality(C(i)) <= Cardinality(C(j))
  <2>1. C(i) \in SUBSET C(j) /\ IsFiniteSet(C(j))
    BY <1>1, <1>2, <1>7
  <2> QED BY <2>1, FS_Subset
<1>8. \A i : Count(scan, i, d) = Cardinality(C(i))
  BY DEF Count, C
<1> QED BY <1>5, <1>6, <1>7, <1>8

LEMMA PrefixExtends ==
    ASSUME NEW S, NEW s \in Seq(S), NEW k \in Nat, k < Len(s)
    PROVE  SubSeq(s, 1, k + 1) = Append(SubSeq(s, 1, k), s[k + 1])
<1> DEFINE a == SubSeq(s, 1, k)
           b == SubSeq(s, 1, k + 1)
           c == Append(a, s[k + 1])
<1>1. \A i \in 1 .. k + 1 : s[i] \in S
  OBVIOUS
<1>2. a \in Seq(S) /\ Len(a) = k /\ \A i \in 1 .. k : a[i] = s[i]
  <2>1. /\ a \in Seq(S) /\ Len(a) = IF 1 <= k THEN k - 1 + 1 ELSE 0
        /\ \A i \in 1 .. k - 1 + 1 : a[i] = s[1 + i - 1]
    BY <1>1, SubSeqProperties
  <2> HIDE DEF a
  <2> QED BY <2>1
<1>3. b \in Seq(S) /\ Len(b) = k + 1 /\ \A i \in 1 .. k + 1 : b[i] = s[i]
  <2>1. /\ b \in Seq(S) /\ Len(b) = IF 1 <= k + 1 THEN (k + 1) - 1 + 1 ELSE 0
        /\ \A i \in 1 .. (k + 1) - 1 + 1 : b[i] = s[1 + i - 1]
    <3>1. k + 1 \in Int
      OBVIOUS
    <3> QED BY <1>1, <3>1, SubSeqProperties
  <2> HIDE DEF b
  <2> QED BY <2>1
<1> HIDE DEF a, b
<1>4. /\ c \in Seq(S) /\ Len(c) = k + 1 /\ c[k + 1] = s[k + 1]
      /\ \A i \in 1 .. k : c[i] = a[i]
  BY <1>1, <1>2, AppendProperties
<1> HIDE DEF c
<1>5. \A i \in 1 .. Len(b) : b[i] = c[i]
  BY <1>2, <1>3, <1>4
<1>6. b = c
  BY <1>3, <1>4, <1>5, SeqEqual
<1> QED BY <1>6 DEF a, b, c

-----------------------------------------------------------------------------
(* One item *)

TextChars == STRING \cup DigitSet \cup {"-", "?"} \cup Letters

\* The values an item that is read has are among those of the scan.
LEMMA CountedItems ==
    ASSUME NEW scan, Readable(scan), NEW i \in 1 .. scan.items
    PROVE  /\ i \in Nat /\ i <= Len(scan.format) /\ scan.format[i] \in STRING
           /\ scan.format[i] = "%d" => /\ Count(scan, i, "%d") \in 1 .. Len(scan.ints)
                                       /\ scan.ints[Count(scan, i, "%d")] \in Int
                                       /\ Scanner!IsInt(scan.ints[Count(scan, i, "%d")])
           /\ scan.format[i] = "%c" => /\ Count(scan, i, "%c") \in 1 .. Len(scan.chars)
                                       /\ scan.chars[Count(scan, i, "%c")] \in Letters
<1>1. /\ scan.format \in Seq(STRING) /\ scan.items \in Nat /\ scan.items <= Len(scan.format)
      /\ i \in Nat /\ i - 1 \in Nat /\ i = (i - 1) + 1 /\ i <= scan.items
  BY DEF Readable
<1>2. scan.ints \in Seq(Int) /\ scan.chars \in Seq(Letters)
  BY DEF Readable
<1>3. \A k \in DOMAIN scan.ints : Scanner!IsInt(scan.ints[k])
  BY DEF Readable
<1>4. /\ Count(scan, scan.items, "%d") <= Len(scan.ints)
      /\ Count(scan, scan.items, "%c") <= Len(scan.chars)
  BY DEF Readable
<1>5. \A d : /\ Count(scan, i, d) \in Nat
             /\ Count(scan, i, d) <= Count(scan, scan.items, d)
             /\ Count(scan, scan.items, d) \in Nat
             /\ scan.format[i] = d => 1 <= Count(scan, i, d)
  <2> TAKE d
  <2> DEFINE before == Count(scan, i - 1, d)
             now == Count(scan, i, d)
  <2>1. /\ now \in Nat /\ before \in Nat
        /\ now <= Count(scan, scan.items, d)
        /\ Count(scan, scan.items, d) \in Nat
    BY <1>1, CountTurns
  <2>2. scan.format[i] = d => now = before + 1
    <3> DEFINE j == i - 1
    <3>1. j \in Nat /\ i = j + 1
      BY <1>1
    <3> HIDE DEF j
    <3>2. scan.format[j + 1] = d => Count(scan, j + 1, d) = Count(scan, j, d) + 1
      BY <3>1, CountTurns
    <3> QED BY <3>1, <3>2 DEF j
  <2> HIDE DEF before
  <2>3. scan.format[i] = d => 1 <= now
    BY <2>1, <2>2
  <2> QED BY <2>1, <2>3
<1>6. i <= Len(scan.format) /\ scan.format[i] \in STRING
  BY <1>1
<1> DEFINE p == Count(scan, i, "%d")
           q == Count(scan, i, "%c")
<1>7. scan.format[i] = "%d" => p \in 1 .. Len(scan.ints)
  BY <1>2, <1>4, <1>5
<1>8. scan.format[i] = "%c" => q \in 1 .. Len(scan.chars)
  BY <1>2, <1>4, <1>5
<1> HIDE DEF p, q
<1>9. scan.format[i] = "%d" => scan.ints[p] \in Int /\ Scanner!IsInt(scan.ints[p])
  BY <1>2, <1>3, <1>7
<1>10. scan.format[i] = "%c" => scan.chars[q] \in Letters
  BY <1>2, <1>8
<1> QED BY <1>1, <1>6, <1>7, <1>8, <1>9, <1>10 DEF p, q

LEMMA ItemIs ==
    ASSUME NEW scan, NEW i
    PROVE  /\ scan.format[i] = "%d" => Item(scan, i) = Signed(scan.ints[Count(scan, i, "%d")])
           /\ scan.format[i] = "%c" => Item(scan, i) = <<scan.chars[Count(scan, i, "%c")]>>
           /\ scan.format[i] \notin {"%d", "%c"} => Item(scan, i) = <<scan.format[i]>>
  BY DEF Item, Signed

LEMMA SignedText ==
    ASSUME NEW n \in Int
    PROVE  Signed(n) \in Seq(TextChars) /\ Signed(n) # <<>>
<1> DEFINE w == Written(IF n < 0 THEN -n ELSE n, 10)
           minus == <<"-">>
<1>1. w \in Seq(DigitSet) /\ w # <<>>
  <2>1. (IF n < 0 THEN -n ELSE n) \in Nat
    OBVIOUS
  <2> QED BY <2>1, WrittenInDigits
<1>2. w \in Seq(TextChars)
  <2> HIDE DEF w
  <2> QED BY <1>1, SeqMonotonic DEF TextChars
<1>3. Signed(n) = IF n < 0 THEN minus \o w ELSE w
  BY DEF Signed
<1>4. minus \in Seq(TextChars)
  BY DEF TextChars
<1> HIDE DEF w, minus
<1>5. minus \o w \in Seq(TextChars) /\ minus \o w # <<>>
  <2>1. minus \o w \in Seq(TextChars) /\ Len(minus \o w) = Len(minus) + Len(w)
    BY <1>2, <1>4, ConcatProperties
  <2>2. Len(minus) \in Nat /\ Len(w) \in Nat \ {0}
    BY <1>1, <1>2, <1>4, EmptySeq
  <2> QED BY <2>1, <2>2
<1> QED BY <1>1, <1>2, <1>3, <1>5

LEMMA ItemText ==
    ASSUME NEW scan, Readable(scan), NEW i \in 1 .. scan.items
    PROVE  Item(scan, i) \in Seq(TextChars) /\ Item(scan, i) # <<>>
<1>1. CASE scan.format[i] = "%d"
  BY <1>1, CountedItems, ItemIs, SignedText
<1>2. CASE scan.format[i] = "%c"
  <2> DEFINE ch == scan.chars[Count(scan, i, "%c")]
  <2>1. ch \in TextChars /\ Item(scan, i) = <<ch>>
    BY <1>2, CountedItems, ItemIs DEF TextChars
  <2> HIDE DEF ch
  <2> QED BY <2>1
<1>3. CASE scan.format[i] \notin {"%d", "%c"}
  <2> DEFINE ch == scan.format[i]
  <2>1. ch \in TextChars /\ Item(scan, i) = <<ch>>
    BY <1>3, CountedItems, ItemIs DEF TextChars
  <2> HIDE DEF ch
  <2> QED BY <2>1
<1> QED BY <1>1, <1>2, <1>3

\* The text from an item on.
ItemThen(str, scan, i, rest) == str = Item(scan, i) \o rest

LEMMA ItemReads ==
    ASSUME NEW scan, Readable(scan), NEW i \in 1 .. scan.items,
           NEW rest \in Seq(TextChars), rest # <<>>,
           scan.format[i] = "%d" => ~Scanner!isdigit(rest[1]),
           NEW ints, NEW chars, NEW k, NEW str, ItemThen(str, scan, i, rest)
    PROVE  Scanner!ScanItem(Scanning(str, ints, chars, k), scan.format[i]) =
             Scanning(rest,
                     IF scan.format[i] = "%d" THEN Append(ints, scan.ints[Count(scan, i, "%d")])
                                              ELSE ints,
                     IF scan.format[i] = "%c" THEN Append(chars, scan.chars[Count(scan, i, "%c")])
                                              ELSE chars,
                     IF scan.format[i] \in {"%d", "%c"} THEN k + 1 ELSE k)
<1> DEFINE s == Scanning(str, ints, chars, k)
           item == scan.format[i]
           n == scan.ints[Count(scan, i, "%d")]
           ch == scan.chars[Count(scan, i, "%c")]
<1>1. s.stop = FALSE
  BY DEF Scanning, Held
<1>2. /\ DigitSet \subseteq TextChars /\ "-" \in TextChars /\ Letters \subseteq TextChars
      /\ STRING \subseteq TextChars
  BY DEF TextChars
<1>3. /\ item \in STRING
      /\ item = "%d" => n \in Int /\ Scanner!IsInt(n)
      /\ item = "%c" => ch \in Letters
  BY CountedItems
<1>4. CASE item = "%d"
  <2>1. IntThen(str, n, rest)
    BY <1>4, ItemIs, Zenon DEF ItemThen, IntThen
  <2>2. Scanner!ScanItem(s, item) = Scanner!ScanInt(s)
    BY <1>1, <1>4 DEF Scanner!ScanItem
  <2> HIDE DEF n
  <2>3. Scanner!ScanInt(s) = Scanning(rest, Append(ints, n), chars, k + 1)
    <3>1. n \in Int /\ Scanner!IsInt(n) /\ ~Scanner!isdigit(rest[1])
      BY <1>3, <1>4 DEF n
    <3>2. DigitSet \subseteq TextChars /\ "-" \in TextChars
      BY <1>2
    <3> QED BY <2>1, <3>1, <3>2, ScanIntReads
  <2> QED BY <1>4, <2>2, <2>3 DEF n
<1>5. CASE item = "%c"
  <2>1. OneThen(str, ch, rest)
    BY <1>5, ItemIs, Zenon DEF ItemThen, OneThen
  <2>2. Scanner!ScanItem(s, item) = Scanner!ScanChar(s)
    BY <1>1, <1>5 DEF Scanner!ScanItem
  <2> HIDE DEF ch
  <2>3. Scanner!ScanChar(s) = Scanning(rest, ints, Append(chars, ch), k + 1)
    <3>1. ch \in TextChars /\ ch \in Letters
      BY <1>2, <1>3, <1>5
    <3> QED BY <2>1, <3>1, ScanOneReads
  <2> QED BY <1>5, <2>2, <2>3 DEF ch
<1>6. CASE item \notin {"%d", "%c"}
  <2>1. OneThen(str, item, rest)
    BY <1>6, ItemIs, Zenon DEF ItemThen, OneThen
  <2>2. Scanner!ScanItem(s, item) = Scanner!ScanLiteral(s, item)
    BY <1>1, <1>6 DEF Scanner!ScanItem
  <2>3. Scanner!ScanLiteral(s, item) = Scanning(rest, ints, chars, k)
    <3>1. item \in TextChars
      BY <1>2, <1>3
    <3> HIDE DEF item
    <3> QED BY <2>1, <3>1, ScanOneReads
  <2> QED BY <1>6, <2>2, <2>3
<1> QED BY <1>4, <1>5, <1>6

-----------------------------------------------------------------------------
(* The whole text *)

\* What was read grows by the value of an item that is read.
LEMMA CountedPrefix ==
    ASSUME NEW scan, NEW i \in Nat \ {0}, NEW d, NEW S, NEW s \in Seq(S),
           Count(scan, i, d) <= Len(s)
    PROVE  SubSeq(s, 1, Count(scan, i, d)) =
             IF scan.format[i] = d
               THEN Append(SubSeq(s, 1, Count(scan, i - 1, d)), s[Count(scan, i, d)])
               ELSE SubSeq(s, 1, Count(scan, i - 1, d))
<1> DEFINE j == i - 1
           before == Count(scan, j, d)
           now == Count(scan, i, d)
<1>1. j \in Nat /\ i = j + 1
  OBVIOUS
<1> HIDE DEF j
<1>2. /\ before \in Nat /\ now \in Nat
      /\ scan.format[i] = d => now = before + 1
      /\ scan.format[i] # d => now = before
  <2>1. /\ Count(scan, j, d) \in Nat
        /\ scan.format[j + 1] = d => Count(scan, j + 1, d) = Count(scan, j, d) + 1
        /\ scan.format[j + 1] # d => Count(scan, j + 1, d) = Count(scan, j, d)
    BY <1>1, CountTurns
  <2>2. Count(scan, i, d) \in Nat
    BY CountTurns
  <2> QED BY <1>1, <2>1, <2>2
<1> HIDE DEF before, now
<1>3. CASE scan.format[i] = d
  <2>1. now = before + 1 /\ before < Len(s)
    <3>1. now <= Len(s) /\ Len(s) \in Nat
      BY DEF now
    <3> QED BY <1>2, <1>3, <3>1
  <2>2. SubSeq(s, 1, before + 1) = Append(SubSeq(s, 1, before), s[before + 1])
    BY <1>2, <2>1, PrefixExtends
  <2> QED BY <1>3, <2>1, <2>2, Zenon DEF before, now, j
<1>4. CASE scan.format[i] # d
  BY <1>2, <1>4, Zenon DEF before, now, j
<1> QED BY <1>3, <1>4

\* The texts of the last items, and that no digit follows an int in them.
LastTexts(scan) ==
    {text \in [0 .. scan.items -> Seq(TextChars)] :
       /\ text[0] = <<"?">>
       /\ \A k \in 1 .. scan.items : ItemThen(text[k], scan, scan.items + 1 - k, text[k - 1])
       /\ \A k \in 0 .. scan.items : text[k] # <<>>
       /\ \A i \in 1 .. scan.items :
            scan.format[i] = "%d" => ~Scanner!isdigit(text[scan.items - i][1])}

LEMMA PrintedTurns ==
    ASSUME NEW scan, Readable(scan)
    PROVE  \E text \in LastTexts(scan) : Printed(scan) = text[scan.items]
<1> DEFINE m == scan.items
           last == <<"?">>
           S == Seq(TextChars)
           item(k) == Item(scan, m + 1 - k)
           put(k, v) == item(k) \o v
           turn == [k \in 1 .. m |-> [v \in S |-> put(k, v)]]
           F(g) == [k \in 0 .. m |-> IF k = 0 THEN last ELSE put(k, g[k - 1])]
<1>1. m \in Nat
  BY DEF Readable
<1>2. ASSUME NEW k \in 1 .. m PROVE item(k) \in S /\ item(k) # <<>>
  <2>1. m + 1 - k \in 1 .. m
    BY <1>1
  <2> QED BY <2>1, ItemText
<1>3. last \in S /\ last # <<>> /\ last[1] = "?"
  BY DEF TextChars
<1>4. Printed(scan) = (CHOOSE g : g = F(g))[m]
  BY DEF Printed
<1> HIDE DEF item
<1>5. turn \in Turns(S, m)
  <2>1. \A k \in 1 .. m, v \in S : put(k, v) \in S
    <3> TAKE k \in 1 .. m, v \in S
    <3> QED BY <1>2, ConcatProperties
  <2> HIDE DEF S, put
  <2> QED BY <2>1, Zenon DEF Turns
<1> HIDE DEF S, last, put
<1>6. \A k \in 1 .. m, v \in S : turn[k][v] = put(k, v)
  OBVIOUS
<1> HIDE DEF turn
<1>7. PICK g \in Loop(S, last, m, turn) : TRUE
  BY <1>1, <1>3, <1>5, LoopExists
<1>8. g \in [0 .. m -> S] /\ g[0] = last /\ \A k \in 1 .. m : g[k] = put(k, g[k - 1])
  <2>1. g \in [0 .. m -> S] /\ g[0] = last /\ \A k \in 1 .. m : g[k] = turn[k][g[k - 1]]
    BY <1>7 DEF Loop
  <2>2. \A k \in 1 .. m : k - 1 \in 0 .. m
    BY <1>1
  <2> QED BY <1>6, <2>1, <2>2
<1>9. g = F(g)
  <2>1. g = [k \in 0 .. m |-> g[k]]
    BY <1>8
  <2>2. \A k \in 0 .. m : g[k] = IF k = 0 THEN last ELSE put(k, g[k - 1])
    BY <1>1, <1>8
  <2> QED BY <2>1, <2>2
<1> DEFINE h == CHOOSE f : f = F(f)
<1>10. h = F(h)
  <2> HIDE DEF F
  <2> QED BY <1>9
<1> HIDE DEF h
<1>11. h[0] = last /\ \A k \in 1 .. m : h[k] = item(k) \o h[k - 1]
  <2>1. h[0] = last /\ \A k \in 1 .. m : h[k] = put(k, h[k - 1])
    BY <1>1, <1>10
  <2> QED BY <2>1, Zenon DEF put
<1>12. \A k \in 0 .. m : h[k] \in S /\ h[k] # <<>>
  <2> DEFINE T == {k \in 0 .. m : h[k] \in S /\ h[k] # <<>>}
  <2>1. 0 \in T
    BY <1>1, <1>3, <1>11
  <2>2. ASSUME NEW k \in 1 .. m, k - 1 \in T PROVE k \in T
    <3> DEFINE x == item(k)
               y == h[k - 1]
    <3>1. x \in S /\ x # <<>> /\ y \in S /\ h[k] = x \o y /\ k \in 0 .. m
      BY <1>2, <1>11, <2>2
    <3> HIDE DEF x, y
    <3>2. x \o y \in S /\ Len(x \o y) = Len(x) + Len(y)
      BY <3>1, ConcatProperties DEF S
    <3>3. Len(x) \in Nat \ {0} /\ Len(y) \in Nat
      BY <3>1, EmptySeq DEF S
    <3>4. x \o y # <<>>
      BY <3>2, <3>3
    <3> QED BY <3>1, <3>2, <3>4
  <2> HIDE DEF T
  <2>3. \A k \in 0 .. m : k \in T
    BY <1>1, <2>1, <2>2, Counting
  <2> QED BY <2>3 DEF T
<1>13. ASSUME NEW i \in 1 .. m, scan.format[i] = "%d"
       PROVE  ~Scanner!isdigit(h[m - i][1])
  <2>1. CASE i = m
    <3>1. m - i = 0
      BY <1>1, <2>1
    <3> QED BY <1>3, <1>11, <3>1, DigitsKnown
  <2>2. CASE i # m
    <3> DEFINE k == m - i
               x == Item(scan, i + 1)
    <3>1. k \in 1 .. m /\ k - 1 \in 0 .. m /\ m + 1 - k = i + 1 /\ i \in 1 .. m - 1
      BY <1>1, <2>2
    <3>2. ~Scanner!isdigit(x[1])
      BY <1>13, <3>1 DEF Readable
    <3> HIDE DEF k
    <3>3. h[k] = x \o h[k - 1]
      BY <1>11, <3>1 DEF item
    <3>4. x \in S /\ x # <<>> /\ h[k - 1] \in S
      BY <1>2, <1>12, <3>1 DEF item
    <3> DEFINE y == h[k - 1]
    <3> HIDE DEF x, y
    <3>5. (x \o y)[1] = x[1]
      <4>1. 1 \in 1 .. Len(x) + Len(y) /\ 1 <= Len(x)
        BY <3>4, EmptySeq DEF S, y
      <4>2. x \in Seq(TextChars) /\ y \in Seq(TextChars)
        BY <3>4 DEF S, y
      <4> QED BY <4>1, <4>2, ConcatProperties
    <3> QED BY <3>2, <3>3, <3>5 DEF k, y
  <2> QED BY <2>1, <2>2
<1>14. h \in [0 .. m -> S]
  <2>1. h = [k \in 0 .. m |-> h[k]]
    BY <1>10
  <2> QED BY <1>12, <2>1
<1>15. h \in LastTexts(scan)
  <2>1. \A k \in 1 .. m : ItemThen(h[k], scan, m + 1 - k, h[k - 1])
    BY <1>11 DEF ItemThen, item
  <2> QED BY <1>11, <1>12, <1>13, <1>14, <2>1 DEF LastTexts, S, last
<1> QED BY <1>4, <1>15 DEF h

\* The turns of the loop over the format.
LEMMA ScanTurns ==
    ASSUME NEW str, NEW format, Len(format) \in Nat
    PROVE  \E f : /\ f[0] = Scanning(str, <<>>, <<>>, 0)
                  /\ \A i \in 1 .. Len(format) : f[i] = Scanner!ScanItem(f[i - 1], format[i])
                  /\ Scanner!vsscanf(str, format) = f[Len(format)]
<1> DEFINE n == Len(format)
           first == Scanning(str, <<>>, <<>>, 0)
           turn(i, s) == Scanner!ScanItem(s, format[i])
           F(g) == [i \in 0 .. n |-> IF i = 0 THEN first ELSE turn(i, g[i - 1])]
           Upto(m, f) == /\ f = [i \in 0 .. m |-> f[i]] /\ f[0] = first
                         /\ \A i \in 1 .. m : f[i] = turn(i, f[i - 1])
           T == {m \in 0 .. n : \E f : Upto(m, f)}
<1>1. Scanner!vsscanf(str, format) = (CHOOSE g : g = F(g))[n]
  BY DEF Scanner!vsscanf, Scanning, Held
<1> HIDE DEF n, first, turn
<1>2. 0 \in T
  <2>1. 0 \in 0 .. n
    BY DEF n
  <2>2. Upto(0, [i \in 0 .. 0 |-> first])
    OBVIOUS
  <2> HIDE DEF Upto
  <2> QED BY <2>1, <2>2
<1>3. ASSUME NEW m \in 1 .. n, m - 1 \in T PROVE m \in T
  <2>1. PICK f : Upto(m - 1, f)
    BY <1>3
  <2> DEFINE g == [i \in 0 .. m |-> IF i < m THEN f[i] ELSE turn(m, f[m - 1])]
  <2>2. g[0] = first /\ g = [i \in 0 .. m |-> g[i]]
    BY <2>1
  <2>3. \A i \in 1 .. m - 1 : f[i] = turn(i, f[i - 1])
    BY <2>1
  <2>4. ASSUME NEW i \in 1 .. m PROVE g[i] = turn(i, g[i - 1])
    <3>1. /\ g[i - 1] = f[i - 1]
          /\ i < m => i \in 1 .. m - 1 /\ g[i] = f[i]
          /\ ~(i < m) => i = m /\ g[i] = turn(m, f[m - 1])
      OBVIOUS
    <3> HIDE DEF g
    <3>2. CASE i < m
      BY <2>3, <3>1, <3>2
    <3>3. CASE ~(i < m)
      BY <3>1, <3>3
    <3> QED BY <3>2, <3>3
  <2>5. Upto(m, g)
    BY <2>2, <2>4
  <2> HIDE DEF Upto, g
  <2> QED BY <2>5
<1> HIDE DEF T
<1>4. n \in T
  <2>1. n \in Nat
    BY DEF n
  <2> QED BY <1>2, <1>3, <2>1, Counting
<1>5. PICK g : Upto(n, g)
  BY <1>4 DEF T
<1>6. g = F(g)
  <2>1. \A i \in 0 .. n : g[i] = IF i = 0 THEN first ELSE turn(i, g[i - 1])
    <3>1. n \in Nat
      BY DEF n
    <3>2. g[0] = first /\ \A i \in 1 .. n : g[i] = turn(i, g[i - 1])
      BY <1>5
    <3>3. \A i \in 0 .. n : i = 0 \/ (i # 0 /\ i \in 1 .. n)
      BY <3>1
    <3> QED BY <3>2, <3>3, Zenon
  <2>2. g = [i \in 0 .. n |-> g[i]]
    BY <1>5
  <2> QED BY <2>1, <2>2
<1> DEFINE h == CHOOSE f : f = F(f)
<1>7. h = F(h)
  <2> HIDE DEF F
  <2> QED BY <1>6
<1> HIDE DEF h
<1>8. h[0] = first /\ \A i \in 1 .. n : h[i] = turn(i, h[i - 1])
  <2>1. n \in Nat
    BY DEF n
  <2> QED BY <1>7, <2>1
<1>9. Scanner!vsscanf(str, format) = h[n]
  BY <1>1 DEF h
<1> QED BY <1>8, <1>9 DEF n, first, turn

LEMMA ScanReads ==
    ASSUME NEW scan, Readable(scan)
    PROVE  LET out == Scanner!vsscanf(Printed(scan), scan.format)
               read(d) == Count(scan, scan.items, d)
           IN  /\ out.defined = TRUE
               /\ out.ints = SubSeq(scan.ints, 1, read("%d"))
               /\ out.chars = SubSeq(scan.chars, 1, read("%c"))
               /\ out.val_cnt = read("%d") + read("%c")
<1> DEFINE n == Len(scan.format)
           m == scan.items
           item(i) == scan.format[i]
           ints(i) == SubSeq(scan.ints, 1, Count(scan, i, "%d"))
           chars(i) == SubSeq(scan.chars, 1, Count(scan, i, "%c"))
           counted(i) == Count(scan, i, "%d") + Count(scan, i, "%c")
<1>1. /\ scan.format \in Seq(STRING) /\ n \in Nat /\ m \in 0 .. n /\ m \in Nat
      /\ m < n => item(m + 1) # "?"
  BY DEF Readable
<1>2. PICK text \in LastTexts(scan) : Printed(scan) = text[m]
  BY PrintedTurns
<1>3. PICK f : /\ f[0] = Scanning(Printed(scan), <<>>, <<>>, 0)
               /\ \A i \in 1 .. n : f[i] = Scanner!ScanItem(f[i - 1], item(i))
               /\ Scanner!vsscanf(Printed(scan), scan.format) = f[n]
  BY <1>1, ScanTurns
<1>4. /\ text \in [0 .. m -> Seq(TextChars)] /\ text[0] = <<"?">>
      /\ \A k \in 1 .. m : ItemThen(text[k], scan, m + 1 - k, text[k - 1])
      /\ \A k \in 0 .. m : text[k] # <<>>
      /\ \A i \in 1 .. m : item(i) = "%d" => ~Scanner!isdigit(text[m - i][1])
  BY DEF LastTexts
<1> DEFINE Good(i) == f[i] = IF i <= m THEN Scanning(text[m - i], ints(i), chars(i), counted(i))
                                       ELSE Stopped(<<"?">>, ints(m), chars(m), counted(m))
           T == {i \in 0 .. n : Good(i)}
<1>5. 0 \in T
  <2>1. Count(scan, 0, "%d") = 0 /\ Count(scan, 0, "%c") = 0
    BY CountTurns
  <2>2. ints(0) = <<>> /\ chars(0) = <<>> /\ counted(0) = 0
    BY <2>1, SubSeqEmpty
  <2>3. m - 0 = m /\ 0 <= m /\ 0 \in 0 .. n
    BY <1>1
  <2> HIDE DEF ints, chars, counted
  <2> QED BY <1>2, <1>3, <2>2, <2>3
<1>6. ASSUME NEW i \in 1 .. n, i - 1 \in T PROVE i \in T
  <2> DEFINE j == i - 1
  <2>1. /\ i \in Nat \ {0} /\ j \in Nat /\ i \in 0 .. n
        /\ f[i] = Scanner!ScanItem(f[j], item(i)) /\ Good(j)
    BY <1>1, <1>3, <1>6
  <2>2. CASE i <= m
    <3> DEFINE k == m - j
               str == text[k]
               rest == text[m - i]
    <3>1. /\ i \in 1 .. m /\ k \in 1 .. m /\ m + 1 - k = i /\ k - 1 = m - i
          /\ m - i \in 0 .. m /\ j <= m
      <4>1. m \in Nat /\ i \in Nat \ {0} /\ i <= m
        BY <1>1, <2>1, <2>2, Zenon
      <4> HIDE DEF m
      <4> QED BY <4>1
    <3>2. ItemThen(str, scan, i, rest)
      <4> HIDE DEF k
      <4> QED BY <1>4, <3>1
    <3>3. rest \in Seq(TextChars) /\ rest # <<>>
      BY <1>4, <3>1
    <3>4. item(i) = "%d" => ~Scanner!isdigit(rest[1])
      BY <1>4, <3>1
    <3>5. f[j] = Scanning(str, ints(j), chars(j), counted(j))
      BY <2>1, <3>1
    <3> DEFINE p == Count(scan, i, "%d")
               q == Count(scan, i, "%c")
               a == ints(j)
               b == chars(j)
               c == counted(j)
    <3>6. Scanner!ScanItem(f[j], item(i)) =
            Scanning(rest, IF item(i) = "%d" THEN Append(a, scan.ints[p]) ELSE a,
                          IF item(i) = "%c" THEN Append(b, scan.chars[q]) ELSE b,
                          IF item(i) \in {"%d", "%c"} THEN c + 1 ELSE c)
      <4> HIDE DEF str, rest, a, b, c, j
      <4> QED BY <3>1, <3>2, <3>3, <3>4, <3>5, ItemReads DEF a, b, c
    <3>7. /\ scan.ints \in Seq(Int) /\ p <= Len(scan.ints)
          /\ scan.chars \in Seq(Letters) /\ q <= Len(scan.chars)
      <4>1. /\ scan.ints \in Seq(Int) /\ Count(scan, m, "%d") <= Len(scan.ints)
            /\ scan.chars \in Seq(Letters) /\ Count(scan, m, "%c") <= Len(scan.chars)
        BY DEF Readable
      <4>2. \A d : /\ Count(scan, i, d) \in Nat /\ Count(scan, m, d) \in Nat
                   /\ Count(scan, i, d) <= Count(scan, m, d)
        BY <1>1, <2>1, <2>2, CountTurns
      <4> QED BY <4>1, <4>2
    <3>8. /\ ints(i) = IF item(i) = "%d" THEN Append(a, scan.ints[p]) ELSE a
          /\ chars(i) = IF item(i) = "%c" THEN Append(b, scan.chars[q]) ELSE b
          /\ counted(i) = IF item(i) \in {"%d", "%c"} THEN c + 1 ELSE c
      <4>1. i \in Nat \ {0} /\ scan.ints \in Seq(Int) /\ scan.chars \in Seq(Letters)
        BY <2>1, <3>7, Zenon
      <4>2. ints(i) = IF item(i) = "%d" THEN Append(a, scan.ints[p]) ELSE a
        BY <3>7, <4>1, CountedPrefix
      <4>3. chars(i) = IF item(i) = "%c" THEN Append(b, scan.chars[q]) ELSE b
        BY <3>7, <4>1, CountedPrefix
      <4>4. counted(i) = IF item(i) \in {"%d", "%c"} THEN c + 1 ELSE c
        <5>1. j + 1 = i
          BY <2>1
        <5>2. \A d : /\ Count(scan, j, d) \in Nat
                     /\ item(i) = d => Count(scan, i, d) = Count(scan, j, d) + 1
                     /\ item(i) # d => Count(scan, i, d) = Count(scan, j, d)
          <6> HIDE DEF j
          <6> QED BY <2>1, <5>1, CountTurns
        <5> HIDE DEF j
        <5> QED BY <5>2
      <4> QED BY <4>2, <4>3, <4>4, Zenon
    <3>9. f[i] = Scanning(rest, ints(i), chars(i), counted(i))
      BY <2>1, <3>6, <3>8, Zenon
    <3> QED BY <2>1, <2>2, <3>9
  <2>3. CASE i = m + 1
    <3> DEFINE last == <<"?">>
               a == ints(m)
               b == chars(m)
               c == counted(m)
    <3>1. j = m /\ m - j = 0 /\ m < n /\ ~(i <= m) /\ j <= m
      <4>1. m \in Nat /\ n \in Nat /\ i = m + 1 /\ i \in 0 .. n
        BY <1>1, <2>1, <2>3, Zenon
      <4> HIDE DEF m, n
      <4> QED BY <4>1
    <3>2. f[j] = Scanning(last, a, b, c)
      BY <1>4, <2>1, <3>1
    <3>3. item(i) # "?"
      BY <1>1, <2>3, <3>1
    <3> HIDE DEF a, b, c
    <3>4. f[i] = Stopped(last, a, b, c)
      BY <2>1, <3>2, <3>3, ScanStops
    <3> QED BY <2>1, <3>1, <3>4 DEF a, b, c
  <2>4. CASE i > m + 1
    <3> DEFINE s == Stopped(<<"?">>, ints(m), chars(m), counted(m))
    <3>1. ~(j <= m) /\ ~(i <= m)
      BY <1>1, <2>1, <2>4
    <3>2. f[j] = s
      BY <2>1, <3>1
    <3>3. s.stop = TRUE
      BY DEF Stopped, Held
    <3> HIDE DEF s
    <3>4. f[i] = s
      BY <2>1, <3>2, <3>3 DEF Scanner!ScanItem
    <3> QED BY <2>1, <3>1, <3>4 DEF s
  <2> QED BY <1>1, <2>1, <2>2, <2>3, <2>4
<1> HIDE DEF T
<1>7. n \in T
  <2>1. n \in Nat /\ n \in 0 .. n
    BY <1>1
  <2>2. \A i \in 1 .. n : i - 1 \in T => i \in T
    BY <1>6
  <2> HIDE DEF n
  <2>3. \A i \in 0 .. n : i \in T
    BY <1>5, <2>1, <2>2, Counting
  <2> QED BY <2>1, <2>3, Zenon
<1>8. /\ f[n].defined = TRUE /\ f[n].ints = ints(m) /\ f[n].chars = chars(m)
      /\ f[n].val_cnt = counted(m)
  <2>1. Good(n)
    BY <1>7 DEF T
  <2>2. CASE n = m
    <3>1. f[n] = Scanning(text[m - n], ints(m), chars(m), counted(m))
      BY <1>1, <2>1, <2>2
    <3> HIDE DEF ints, chars, counted
    <3> QED BY <3>1 DEF Scanning, Held
  <2>3. CASE n # m
    <3>1. f[n] = Stopped(<<"?">>, ints(m), chars(m), counted(m))
      BY <1>1, <2>1, <2>3
    <3> HIDE DEF ints, chars, counted
    <3> QED BY <3>1 DEF Stopped, Held
  <2> QED BY <2>2, <2>3
<1> QED BY <1>3, <1>8

\* sscanf sets what vsscanf sets.
LEMMA SscanfSets ==
    ASSUME NEW str, NEW format, NEW n
    PROVE  LET out == Scanner!sscanf(str, format, n)
               same == Scanner!vsscanf(str, format)
           IN  out.defined = same.defined /\ out.ints = same.ints /\ out.chars = same.chars
BY DEF Scanner!sscanf

\* vsscanf and sscanf read back what was printed, for every text: of any length,
\* with any ints of any width, stopping at any item; the value vsscanf returns
\* counts what was read.
THEOREM ScansReadBack == Spec => []ScanReadsBack
<1> DEFINE scanned == Scanner!vsscanf(Printed(input.scan), input.scan.format)
           Asked == input.op \in {"vsscanf", "sscanf"} => input.scan \in Scans
           Answered == /\ Returned("vsscanf") => output[1] = scanned
                       /\ Returned("sscanf") =>
                            \E n : output[1] =
                              Scanner!sscanf(Printed(input.scan), input.scan.format, n)
           Inv == Asked /\ Answered
<1>1. Init => Inv
  BY DEF Init, Between, Returned
<1>2. Inv /\ [Next]_vars => Inv'
  <2> SUFFICES ASSUME Inv, [Next]_vars PROVE Inv'
    OBVIOUS
  <2>1. CASE Call
    BY <2>1 DEF Call, Inputs, Returned
  <2>2. CASE Return
    BY <2>2 DEF Return, Between, Returned
  <2>3. CASE Scan
    BY <2>3 DEF Scan, Convert, Returned
  <2>4. CASE ScanNoReturn
    BY <2>4 DEF ScanNoReturn, Convert, Returned
  <2>5. CASE Pton4 \/ Pton6 \/ PtonOther \/ Ntop4 \/ Ntop6 \/ NtopOther
    BY <2>5 DEF Pton4, Pton6, PtonOther, Ntop4, Ntop6, NtopOther, Convert, Returned
  <2>6. CASE UNCHANGED vars
    BY <2>6 DEF vars, Returned
  <2> QED BY <2>1, <2>2, <2>3, <2>4, <2>5, <2>6 DEF Next
<1>3. Inv => ScanReadsBack
  <2> SUFFICES ASSUME Inv, Returned("vsscanf") \/ Returned("sscanf") PROVE ScanReadsBack
    BY DEF ScanReadsBack
  <2>1. Readable(input.scan)
    BY ScansAssumption DEF Returned
  <2>2. CASE Returned("vsscanf")
    <3>1. output[1] = scanned
      BY <2>2, Zenon
    <3> QED BY <2>1, <3>1, ScanReads DEF ScanReadsBack
  <2>3. CASE Returned("sscanf")
    <3>1. PICK n : output[1] = Scanner!sscanf(Printed(input.scan), input.scan.format, n)
      BY <2>3, Zenon
    <3>2. /\ output[1].defined = scanned.defined /\ output[1].ints = scanned.ints
          /\ output[1].chars = scanned.chars
      BY <3>1, SscanfSets
    <3>3. ~Returned("vsscanf")
      BY <2>3 DEF Returned
    <3> QED BY <2>1, <3>2, <3>3, ScanReads DEF ScanReadsBack
  <2> QED BY <2>2, <2>3
<1> QED BY <1>1, <1>2, <1>3, PTL DEF Spec

=============================================================================

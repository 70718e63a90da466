---------------------------- MODULE Conversions -----------------------------
(***************************************************************************)
(* The conversions of the trusted code between text and values, called one *)
(* after the other: inet_pton and inet_ntop of inet_pton_ntop.c, vsscanf   *)
(* and sscanf of my_wrappers.c, each against what its text means.          *)
(***************************************************************************)
EXTENDS InetAddr, FiniteSets

CONSTANTS
    Texts4, Texts6,   \* texts, as the fields "." or ":" separate
    Quads, Words,     \* addresses
    Sizes,            \* sizes of the caller's buffer
    Fills,            \* what memory holds before it is written
    Scans,            \* a format, the ints and letters of its directives, and
                      \* how many items of it the text has
    Leftovers,        \* what a caller of sscanf may take for its value
    Letters, IntWidth

MaxWord == 65535

\* An address is four octets or eight words of 16 bits.
ASSUME QuadsAssumption == Quads \subseteq [1 .. 4 -> 0 .. 255]
ASSUME WordsAssumption == Words \subseteq [1 .. 8 -> 0 .. MaxWord]
ASSUME SizesAssumption == Sizes \subseteq Nat

\* A field of an IPv4 text has no dot, which would end it.
ASSUME Texts4Assumption == Texts4 \subseteq Seq(Seq(STRING \ {"."}))
ASSUME IntWidthAssumption == IntWidth \in Nat \ {0}

Scanner == INSTANCE Vsscanf

VARIABLES input, output

vars == <<input, output>>

Between == [op |-> "none"]

Inputs ==
    [op : {"inet_pton4"}, fields : Texts4]
      \cup [op : {"inet_pton6"}, fields : Texts6]
      \cup [op : {"inet_ntop4"}, address : Quads, size : Sizes, fill : Fills]
      \cup [op : {"inet_ntop6"}, address : Words, size : Sizes, fill : Fills]
      \cup [op : {"vsscanf", "sscanf"}, scan : Scans]
      \cup [op : {"inet_pton", "inet_ntop"}, family : {"other"}]

\* The text that has these fields.
Joined(fields, separator) ==
    LET text[k \in 0 .. Len(fields)] ==
          IF k = 0 THEN <<>>
          ELSE IF k = 1 THEN fields[1]
          ELSE text[k - 1] \o <<separator>> \o fields[k]
    IN  text[Len(fields)]

\* How many of the first i items of a scan are this directive.
Count(scan, i, directive) == Cardinality({j \in 1 .. i : scan.format[j] = directive})

\* What prints the i-th item of a scan.
Item(scan, i) ==
    LET int(n) == IF n < 0 THEN <<"-">> \o Written(-n, 10) ELSE Written(n, 10)
    IN  CASE scan.format[i] = "%d" -> int(scan.ints[Count(scan, i, "%d")])
          [] scan.format[i] = "%c" -> <<scan.chars[Count(scan, i, "%c")]>>
          [] scan.format[i] \notin {"%d", "%c"} -> <<scan.format[i]>>

\* The text that prints the first items of a scan; what follows matches no item.
Printed(scan) ==
    LET text[k \in 0 .. scan.items] ==  \* the last k items of it
          IF k = 0 THEN <<"?">> ELSE Item(scan, scan.items + 1 - k) \o text[k - 1]
    IN  text[scan.items]

\* The items can be told apart in the text: they are ints and letters, no digit
\* follows an int, and the item after them does not match the
\* character that ends the text.
Readable(scan) ==
    /\ scan.format \in Seq(STRING) /\ scan.items \in 0 .. Len(scan.format)
    /\ scan.ints \in Seq(Int) /\ \A k \in DOMAIN scan.ints : Scanner!IsInt(scan.ints[k])
    /\ scan.chars \in Seq(Letters)
    /\ Count(scan, scan.items, "%d") <= Len(scan.ints)
    /\ Count(scan, scan.items, "%c") <= Len(scan.chars)
    /\ \A i \in 1 .. scan.items - 1 :
         scan.format[i] = "%d" => ~Scanner!isdigit(Item(scan, i + 1)[1])
    /\ scan.items < Len(scan.format) => scan.format[scan.items + 1] # "?"

ASSUME ScansAssumption == "?" \notin Letters /\ \A scan \in Scans : Readable(scan)

-----------------------------------------------------------------------------
Init == input = Between /\ output = <<>>

Call   == input = Between /\ input' \in Inputs /\ output' = <<>>
Return == input # Between /\ output # <<>> /\ input' = Between /\ output' = <<>>

\* The output is a sequence of one result, so that an empty one is none yet.
Convert(op, result) ==
    /\ input.op = op /\ output = <<>>
    /\ output' = <<result>>
    /\ UNCHANGED input

Pton4 == Convert("inet_pton4", inet_pton4(Joined(input.fields, ".")))
Pton6 == Convert("inet_pton6", inet_pton6(Joined(input.fields, ":")))
Ntop4 == Convert("inet_ntop4", inet_ntop4(input.address, input.size, input.fill))
Ntop6 == Convert("inet_ntop6", inet_ntop6(input.address, input.size, input.fill))
Scan  == Convert("vsscanf", Scanner!vsscanf(Printed(input.scan), input.scan.format))

ScanNoReturn ==
    \E n \in Leftovers :
        Convert("sscanf", Scanner!sscanf(Printed(input.scan), input.scan.format, n))

\* Neither AF_INET nor AF_INET6: -1 and NULL.
PtonOther == Convert("inet_pton", -1)
NtopOther == Convert("inet_ntop", Invalid)

Next == \/ Call \/ Return
        \/ Pton4 \/ Pton6 \/ PtonOther
        \/ Ntop4 \/ Ntop6 \/ NtopOther
        \/ Scan \/ ScanNoReturn

Spec == Init /\ [][Next]_vars

-----------------------------------------------------------------------------
(* What texts mean *)

Returned(op) == input.op = op /\ output # <<>>

Decimal(field) == \A i \in DOMAIN field : hex_digit_value(field[i]) \in 0 .. 9

\* The number a row of digits stands for.
NumberOf(digits, base) ==
    LET value[k \in 0 .. Len(digits)] ==
          IF k = 0 THEN 0 ELSE value[k - 1] * base + hex_digit_value(digits[k])
    IN  value[Len(digits)]

Octet(field) == NumberOf(field, 10)

\* Four decimal numbers up to 255 without leading zeros.
Meaning4(fields) ==
    IF /\ Len(fields) = 4
       /\ \A i \in 1 .. 4 : /\ fields[i] # <<>> /\ Decimal(fields[i])
                            /\ Octet(fields[i]) <= 255
                            /\ Len(fields[i]) > 1 => fields[i][1] # "0"
      THEN [i \in 1 .. 4 |-> Octet(fields[i])] ELSE Invalid

\* A group is one to four hexadecimal digits.
IsGroup(field) ==
    Len(field) \in 1 .. 4 /\ \A i \in DOMAIN field : hex_digit_value(field[i]) >= 0

Word(field) == NumberOf(field, 16)

SplitDots(field) ==
    LET dots == {i \in DOMAIN field : field[i] = "."}
        ends == SetToSortSeq(dots \cup {Len(field) + 1}, <)
    IN  [k \in DOMAIN ends |->
          SubSeq(field, IF k = 1 THEN 1 ELSE ends[k - 1] + 1, ends[k] - 1)]

\* The words of a field: one for a group, two for an IPv4 address.
WordsOf(field) ==
    LET pair(quad) == IF quad = Invalid THEN <<>> ELSE Packed(quad)
    IN  IF IsGroup(field) THEN <<Word(field)>>
        ELSE pair(Meaning4(SplitDots(field)))

\* The words of fields in a row, of which only the last may be an IPv4 address.
WordsOfAll(fields) == FlattenSeq([i \in DOMAIN fields |-> WordsOf(fields[i])])

InARow(fields, last) ==
    \A i \in DOMAIN fields :
        IsGroup(fields[i]) \/ (i = Len(fields) /\ last /\ WordsOf(fields[i]) # <<>>)

\* Eight words, or fewer with one "::" for the missing zeros.  The colons of
\* "::" are an empty field, and at either end of the text two.
Meaning6(fields) ==
    LET n == Len(fields)
        side(part) == IF part = <<<<>>>> THEN <<>> ELSE part
        left(i)  == side(SubSeq(fields, 1, i - 1))
        right(i) == side(SubSeq(fields, i + 1, n))
        splits   == {i \in 2 .. n - 1 :
                       /\ fields[i] = <<>>
                       /\ InARow(left(i), FALSE) /\ InARow(right(i), TRUE)
                       /\ Len(WordsOfAll(left(i) \o right(i))) < 8}
    IN  IF InARow(fields, TRUE) /\ Len(WordsOfAll(fields)) = 8
          THEN WordsOfAll(fields)
        ELSE IF splits # {}
          THEN LET i == CHOOSE k \in splits : TRUE
                   filled(l, r) == l \o Zeros(8 - Len(l) - Len(r)) \o r
               IN  filled(WordsOfAll(left(i)), WordsOfAll(right(i)))
        ELSE Invalid

\* The runs of at least two zero words: the words before one, and its own.
RunsOfZeros(address) ==
    {r \in (0 .. 7) \X (2 .. 8) :
       r[1] + r[2] <= 8 /\ \A i \in r[1] + 1 .. r[1] + r[2] : address[i] = 0}

\* No run is longer, none of its length begins earlier.
FirstLongest(r, runs) == \A q \in runs : q[2] < r[2] \/ (q[2] = r[2] /\ r[1] <= q[1])

HexFields(address, first, last) ==
    [k \in 1 .. last - first + 1 |-> Written(address[first + k - 1], 16)]

\* The last two words as the four octets of an IPv4 address.
QuadField(address) ==
    LET octets == Unpacked(<<address[7], address[8]>>)
    IN  Joined([i \in 1 .. 4 |-> Written(octets[i], 10)], ".")

\* The fields from a word to the end of the address.
LastFields(address, first, quad) ==
    IF quad THEN Append(HexFields(address, first, 6), QuadField(address))
            ELSE HexFields(address, first, 8)

\* The text of an IPv6 address without the run r, which "::" stands for.
WithoutRun(address, r) ==
    LET quad == r = <<0, 6>> \/ (r = <<0, 5>> /\ address[6] = MaxWord)
    IN  Joined(HexFields(address, 1, r[1]), ":") \o <<":", ":">>
          \o Joined(LastFields(address, r[1] + r[2] + 1, quad), ":")

TextOf6(address) ==
    LET runs == RunsOfZeros(address)
    IN  IF runs = {} THEN Joined(HexFields(address, 1, 8), ":")
        ELSE WithoutRun(address, CHOOSE r \in runs : FirstLongest(r, runs))

-----------------------------------------------------------------------------
(* Properties *)

\* inet_pton reads exactly the texts of an IPv4 address and reads them right: no
\* number above 255, no leading zeros, no empty field, no fifth number.
Pton4ReadsMeaning == Returned("inet_pton4") => output[1] = Meaning4(input.fields)

\* The same of IPv6: "::" anywhere, an IPv4 address in the last four octets, no
\* ninth word, no fifth digit, no second "::" and no "::" for nothing.
Pton6ReadsMeaning == Returned("inet_pton6") => output[1] = Meaning6(input.fields)

\* A buffer is taken exactly when it has room for the text and its NUL, and
\* then the text in it reads back as the address.
ReadsBack(read, whole) ==
    IF Len(whole) < input.size THEN output[1] # Invalid /\ read = input.address
                               ELSE output[1] = Invalid

\* What inet_ntop writes into memory that was zeroed reads back as the address,
\* and it fails only for a buffer that has no room for the text and its NUL.
Ntop4ReadsBack ==
    Returned("inet_ntop4") /\ input.fill = NUL =>
        ReadsBack(inet_pton4(CString(output[1])),
                  CString(inet_ntop4(input.address, 46, NUL)))

\* The same of IPv6 addresses; a text without an IPv4 part is whole in any memory.
Ntop6ReadsBack ==
    /\ Returned("inet_ntop6")
    /\ input.fill = NUL \/ \E i \in 1 .. 5 : input.address[i] # 0
    => ReadsBack(inet_pton6(CString(output[1])),
                 CString(inet_ntop6(input.address, 46, NUL)))

\* What inet_ntop6 writes has "::" where the first of the longest runs of at
\* least two zero words was, and nowhere else, each other word without leading
\* zeros, and the last two as an IPv4 address exactly after zeros alone or
\* after five zeros and ffff.
LongestRunLeftOut ==
    /\ Returned("inet_ntop6") /\ output[1] # Invalid
    /\ input.fill = NUL \/ \E i \in 1 .. 5 : input.address[i] # 0
    => CString(output[1]) = TextOf6(input.address)

\* vsscanf reads the numbers a text has as they were written, the smallest and
\* the largest int included, stops at the first item that does not match with
\* everything before it read, and returns how many arguments it set; sscanf
\* sets the same ones, whatever it returns.
ScanReadsBack ==
    Returned("vsscanf") \/ Returned("sscanf") =>
        LET scan == input.scan
            read(d) == Count(scan, scan.items, d)
        IN  /\ output[1].defined
            /\ output[1].ints = SubSeq(scan.ints, 1, read("%d"))
            /\ output[1].chars = SubSeq(scan.chars, 1, read("%c"))
            /\ Returned("vsscanf") => output[1].val_cnt = read("%d") + read("%c")

\* "convert a network format address to presentation format"
\* (inet_pton_ntop.c:173): whatever the buffer held before, it then holds the
\* address as a string.
NtopWritesString ==
    Returned("inet_ntop4") /\ output[1] # Invalid =>
        inet_pton4(CString(output[1])) = input.address
=============================================================================

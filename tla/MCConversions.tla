--------------------------- MODULE MCConversions ----------------------------
(***************************************************************************)
(* Bounded inputs for Conversions.                                         *)
(***************************************************************************)
EXTENDS Conversions

Num(n)     == Written(n, 10)
Dotted(s)  == Joined(s, ".")
LocalQuad  == <<<<"1">>, <<"0">>, <<"0">>, <<"9">>>>

\* Up to five fields: none, zero, a leading zero, both sides of 255, a letter.
AllTexts4 ==
    BoundedSeq({<<>>, <<"0">>, <<"0", "1">>, Num(9), Num(255), Num(256), <<"a">>}, 5)

\* Up to nine fields that are empty, a group or an IPv4 address, and shorter
\* texts that end in a group of four or five digits or a malformed address.
AllTexts6 ==
    BoundedSeq({<<>>, <<"F", "0">>, Dotted(LocalQuad)}, 9)
      \cup {Append(t, end) : t \in BoundedSeq({<<>>, <<"1">>}, 7),
                             end \in {<<"1", "2", "a", "f">>, <<"1", "2", "a", "f", "0">>,
                                      <<"x">>, Dotted(Tail(LocalQuad)),
                                      Dotted(LocalQuad \o <<<<"1">>>>)}}

AllQuads == BoundedSeq({0, 1, 99, 255}, 4) \ BoundedSeq({0, 1, 99, 255}, 3)
AllWords == [1 .. 8 -> {0, 1, 65535}]

Formats == {<<"%d">>, <<"%d", ".", "%d">>, <<"%c", "%d", ":", "%c">>}

\* The ints at both ends of the width 8, and numbers around zero.
AllScans ==
    UNION {{[format |-> f, ints |-> i, chars |-> <<"a", "z">>, items |-> n] :
              n \in 0 .. Len(f), i \in [1 .. 2 -> {-128, -10, -1, 0, 7, 127}]} :
           f \in Formats}

LettersRead == {"a", "z"}
=============================================================================

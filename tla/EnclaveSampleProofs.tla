------------------------ MODULE EnclaveSampleProofs -------------------------
(***************************************************************************)
(* Theorems about EnclaveSample for any number of runs, one after the      *)
(* other, whatever the database held before the first and whatever the     *)
(* earlier ones left in it.                                                *)
(*                                                                         *)
(* A run that began without commands of others on their way and whose      *)
(* round trips succeed is followed through its script: which users and     *)
(* groups are stored after which statement, and how far the statement it   *)
(* is at has come.  From that, no call throws where nobody catches it.     *)
(***************************************************************************)
EXTENDS EnclaveSample, MongoLifecycleProofs, SequenceTheorems

-----------------------------------------------------------------------------
(* The statements of the script *)

Asking ==
    {[call |-> OnGroup("is_user_part_of_group", g, u), skip |-> 0] :
        g \in {"group1", "group2"}, u \in {"user1", "user2"}}

Joining ==
    {[call |-> OnGroup(op, g, "user1"), skip |-> s] :
        op \in {"create_group", "add_user_to_group"},
        g \in {"group1", "group2"}, s \in {0, 1}}

Emptying    == [call |-> [op |-> "delete_all_data"], skip |-> 0]
Indexing    == [call |-> [op |-> "init_indexes"], skip |-> 0]
FirstUser   == [call |-> CreateUser("user1"), skip |-> 2]
SecondUser  == [call |-> CreateUser("user2"), skip |-> 1]
FirstGroup  == [call |-> OnGroup("create_group", "group1", "user1"), skip |-> 0]
SecondGroup == [call |-> OnGroup("create_group", "group2", "user2"), skip |-> 0]
UserAgain   == [call |-> CreateUser("user1"), skip |-> 1]
Reading     == [call |-> [op |-> "get_keys_of_group", group |-> "group1"], skip |-> 0]
Leaving     == [call |-> OnGroup("remove_user_from_group", "group2", "user1"), skip |-> 0]
Deletion    == [call |-> [op |-> "delete_user", user |-> "user1"], skip |-> 0]

\* What comes between the setup and the deletion of user1, and all before it.
Early  == Asking \cup Joining \cup {SecondGroup, UserAgain, Reading, Leaving}
Before == Early \cup {Emptying, Indexing, FirstUser, SecondUser}

Statement == Before \cup {Deletion}

\* The script is built of these; the provers are to see no more of them.
One(s)       == <<s>>
Joined(a, b) == a \o b
SeqOf(S)     == Seq(S)
Size(s)      == Len(s)

LEMMA OneStatement ==
    ASSUME NEW S, NEW s \in S
    PROVE  One(s) \in SeqOf(S) /\ Size(One(s)) = 1 /\ One(s)[1] = s
BY DEF One, SeqOf, Size

LEMMA Concatenated ==
    ASSUME NEW S, NEW a \in SeqOf(S), NEW b \in SeqOf(S)
    PROVE  /\ Joined(a, b) \in SeqOf(S)
           /\ Size(a) \in Nat /\ Size(b) \in Nat
           /\ Size(Joined(a, b)) = Size(a) + Size(b)
BY ConcatProperties, LenProperties DEF Joined, SeqOf, Size

LEMMA FirstPart ==
    ASSUME NEW S, NEW a \in SeqOf(S), NEW b \in SeqOf(S), NEW i \in 1 .. Size(a)
    PROVE  Joined(a, b)[i] = a[i]
BY ConcatProperties, LenProperties DEF Joined, SeqOf, Size

LEMMA SecondPart ==
    ASSUME NEW S, NEW a \in SeqOf(S), NEW b \in SeqOf(S), NEW i \in 1 .. Size(b)
    PROVE  Joined(a, b)[Size(a) + i] = b[i]
BY ConcatProperties, LenProperties DEF Joined, SeqOf, Size

LEMMA Followed ==
    ASSUME NEW S, NEW a \in SeqOf(S), NEW s \in S
    PROVE  /\ Joined(a, One(s)) \in SeqOf(S)
           /\ Size(a) \in Nat
           /\ Size(Joined(a, One(s))) = Size(a) + 1
           /\ Joined(a, One(s))[Size(a) + 1] = s
<1>1. One(s) \in SeqOf(S) /\ Size(One(s)) = 1 /\ One(s)[1] = s
  BY OneStatement
<1>2. /\ Joined(a, One(s)) \in SeqOf(S) /\ Size(a) \in Nat
      /\ Size(Joined(a, One(s))) = Size(a) + Size(One(s))
  BY <1>1, Concatenated
<1>3. 1 \in 1 .. Size(One(s))
  BY <1>1
<1>4. Joined(a, One(s))[Size(a) + 1] = s
  BY <1>1, <1>3, SecondPart
<1> QED BY <1>1, <1>2, <1>4

LEMMA LongerSeq ==
    ASSUME NEW S, NEW T, S \subseteq T, NEW s \in SeqOf(S) PROVE s \in SeqOf(T)
BY SeqMonotonic DEF SeqOf

LEMMA Statements ==
    ASSUME NEW S, NEW s \in SeqOf(S)
    PROVE  \A i \in 1 .. Size(s) : s[i] \in S
BY ElementOfSeq DEF SeqOf, Size

LEMMA EarlyStatements ==
    /\ \A g \in {"group1", "group2"}, u \in {"user1", "user2"} :
         [call |-> OnGroup("is_user_part_of_group", g, u), skip |-> 0] \in Asking
    /\ \A op \in {"create_group", "add_user_to_group"}, g \in {"group1", "group2"},
          s \in {0, 1} : [call |-> OnGroup(op, g, "user1"), skip |-> s] \in Early
    /\ SecondGroup \in Early /\ UserAgain \in Early
    /\ Reading \in Early /\ Leaving \in Early /\ FirstGroup \in Early
    /\ Asking \subseteq Early /\ Early \subseteq Before /\ Before \subseteq Statement
<1>1. FirstGroup \in Joining
  BY DEF Joining, FirstGroup
<1> QED BY <1>1 DEF Asking, Joining, Early, Before, Statement

LEMMA PrintStatements ==
    /\ printMemberships \in SeqOf(Asking) /\ Size(printMemberships) = 4
    /\ printMemberships \in SeqOf(Early) /\ printMemberships \in SeqOf(Before)
<1> DEFINE ask(g, u) == [call |-> OnGroup("is_user_part_of_group", g, u), skip |-> 0]
           a == One(ask("group1", "user1"))
           b == Joined(a, One(ask("group1", "user2")))
           d == Joined(b, One(ask("group2", "user1")))
           e == Joined(d, One(ask("group2", "user2")))
<1>1. /\ ask("group1", "user1") \in Asking /\ ask("group1", "user2") \in Asking
      /\ ask("group2", "user1") \in Asking /\ ask("group2", "user2") \in Asking
  BY EarlyStatements
<1>2. printMemberships = e
  BY Zenon DEF printMemberships, Do, One, Joined
<1> HIDE DEF ask
<1>3. a \in SeqOf(Asking) /\ Size(a) = 1
  BY <1>1, OneStatement
<1> HIDE DEF a
<1>4. b \in SeqOf(Asking) /\ Size(b) = 2
  BY <1>1, <1>3, Followed
<1> HIDE DEF b
<1>5. d \in SeqOf(Asking) /\ Size(d) = 3
  BY <1>1, <1>4, Followed
<1> HIDE DEF d
<1>6. e \in SeqOf(Asking) /\ Size(e) = 4
  BY <1>1, <1>5, Followed
<1> HIDE DEF e
<1>7. Asking \subseteq Early /\ Asking \subseteq Before
  BY EarlyStatements
<1> QED BY <1>2, <1>6, <1>7, LongerSeq

\* The setup: four statements, then questions.
LEMMA SetupStatements ==
    /\ Setup \in SeqOf(Before) /\ Size(Setup) = 8
    /\ Setup[1] = Emptying /\ Setup[2] = Indexing
    /\ Setup[3] = FirstUser /\ Setup[4] = SecondUser
    /\ \A i \in 5 .. 8 : Setup[i] \in Asking
<1> DEFINE z == One(Emptying)
           a == Joined(z, One(Indexing))
           b == Joined(a, One(FirstUser))
           d == Joined(b, One(SecondUser))
<1>1. /\ Emptying \in Before /\ Indexing \in Before
      /\ FirstUser \in Before /\ SecondUser \in Before
  BY DEF Before
<1>2. Setup = Joined(d, printMemberships)
  BY Zenon DEF Setup, Do, Try, Emptying, Indexing, FirstUser, SecondUser, One, Joined
<1>3. z \in SeqOf(Before) /\ Size(z) = 1 /\ z[1] = Emptying
  BY <1>1, OneStatement
<1> HIDE DEF z
<1>4. /\ a \in SeqOf(Before) /\ Size(a) = 2 /\ a[2] = Indexing
      /\ a[1] = z[1]
  <2>1. /\ One(Indexing) \in SeqOf(Before) /\ Size(z) + 1 = 2
        /\ 1 \in 1 .. Size(z)
    BY <1>1, <1>3, OneStatement
  <2>2. /\ a \in SeqOf(Before) /\ Size(a) = Size(z) + 1
        /\ a[Size(z) + 1] = Indexing
    <3>1. z \in SeqOf(Before) /\ Indexing \in Before
      BY <1>1, <1>3, Zenon
    <3> QED BY <3>1, Followed
  <2>3. /\ a[1] = z[1]
    BY <1>3, <2>1, FirstPart
  <2> QED BY <2>1, <2>2, <2>3
<1> HIDE DEF a
<1>5. /\ b \in SeqOf(Before) /\ Size(b) = 3 /\ b[3] = FirstUser
      /\ b[1] = a[1] /\ b[2] = a[2]
  <2>1. /\ One(FirstUser) \in SeqOf(Before) /\ Size(a) + 1 = 3
        /\ 1 \in 1 .. Size(a) /\ 2 \in 1 .. Size(a)
    BY <1>1, <1>4, OneStatement
  <2>2. /\ b \in SeqOf(Before) /\ Size(b) = Size(a) + 1
        /\ b[Size(a) + 1] = FirstUser
    <3>1. a \in SeqOf(Before) /\ FirstUser \in Before
      BY <1>1, <1>4, Zenon
    <3> QED BY <3>1, Followed
  <2>3. /\ b[1] = a[1] /\ b[2] = a[2]
    BY <1>4, <2>1, FirstPart
  <2> QED BY <2>1, <2>2, <2>3
<1> HIDE DEF b
<1>6. /\ d \in SeqOf(Before) /\ Size(d) = 4 /\ d[4] = SecondUser
      /\ d[1] = b[1] /\ d[2] = b[2] /\ d[3] = b[3]
  <2>1. /\ One(SecondUser) \in SeqOf(Before) /\ Size(b) + 1 = 4
        /\ 1 \in 1 .. Size(b) /\ 2 \in 1 .. Size(b) /\ 3 \in 1 .. Size(b)
    BY <1>1, <1>5, OneStatement
  <2>2. /\ d \in SeqOf(Before) /\ Size(d) = Size(b) + 1
        /\ d[Size(b) + 1] = SecondUser
    <3>1. b \in SeqOf(Before) /\ SecondUser \in Before
      BY <1>1, <1>5, Zenon
    <3> QED BY <3>1, Followed
  <2>3. /\ d[1] = b[1] /\ d[2] = b[2] /\ d[3] = b[3]
    BY <1>5, <2>1, FirstPart
  <2> QED BY <2>1, <2>2, <2>3
<1> HIDE DEF d
<1>7. Setup \in SeqOf(Before) /\ Size(Setup) = 8
  <2>1. Setup \in SeqOf(Before) /\ Size(Setup) = Size(d) + Size(printMemberships)
    BY <1>2, <1>6, PrintStatements, Concatenated
  <2> QED BY <1>6, <2>1, PrintStatements
<1>8. ASSUME NEW i \in 1 .. 4 PROVE Setup[i] = d[i]
  <2>1. i \in 1 .. Size(d)
    BY <1>6
  <2> QED BY <1>2, <1>6, <2>1, PrintStatements, FirstPart
<1>9. ASSUME NEW i \in 5 .. 8 PROVE Setup[i] \in Asking
  <2>1. i - 4 \in 1 .. Size(printMemberships) /\ Size(d) + (i - 4) = i
    BY <1>6, PrintStatements
  <2>2. Setup[Size(d) + (i - 4)] = printMemberships[i - 4]
    BY <1>2, <1>6, <2>1, PrintStatements, SecondPart
  <2>3. printMemberships[i - 4] \in Asking
    BY <2>1, PrintStatements, Statements
  <2> QED BY <2>1, <2>2, <2>3
<1>10. 1 \in 1 .. 4 /\ 2 \in 1 .. 4 /\ 3 \in 1 .. 4 /\ 4 \in 1 .. 4
  OBVIOUS
<1>11. /\ Setup[1] = d[1] /\ Setup[2] = d[2]
       /\ Setup[3] = d[3] /\ Setup[4] = d[4]
  BY <1>8, <1>10
<1> QED BY <1>3, <1>4, <1>5, <1>6, <1>7, <1>9, <1>11

-----------------------------------------------------------------------------
(* The script as a whole *)

LEMMA Located ==
    ASSUME NEW S, NEW a \in SeqOf(S), NEW b \in SeqOf(S),
           NEW i \in 1 .. Size(Joined(a, b))
    PROVE  \/ i \in 1 .. Size(a) /\ Joined(a, b)[i] = a[i]
           \/ /\ i \in Size(a) + 1 .. Size(a) + Size(b)
              /\ i - Size(a) \in 1 .. Size(b) /\ Joined(a, b)[i] = b[i - Size(a)]
<1>1. /\ Size(a) \in Nat /\ Size(b) \in Nat
      /\ Size(Joined(a, b)) = Size(a) + Size(b)
  BY Concatenated
<1>2. CASE i \in 1 .. Size(a)
  BY <1>2, FirstPart
<1>3. CASE i \notin 1 .. Size(a)
  <2>1. /\ i \in Size(a) + 1 .. Size(a) + Size(b)
        /\ i - Size(a) \in 1 .. Size(b) /\ Size(a) + (i - Size(a)) = i
    BY <1>1, <1>3
  <2>2. Joined(a, b)[Size(a) + (i - Size(a))] = b[i - Size(a)]
    BY <2>1, SecondPart
  <2> QED BY <2>1, <2>2
<1> QED BY <1>2, <1>3

Occurs(x, s) == \E i \in 1 .. Size(s) : s[i] = x

LEMMA OccursBefore ==
    ASSUME NEW S, NEW a \in SeqOf(S), NEW b \in SeqOf(S), NEW x, Occurs(x, a)
    PROVE  Occurs(x, Joined(a, b))
<1>1. PICK i \in 1 .. Size(a) : a[i] = x
  BY DEF Occurs
<1>2. Joined(a, b)[i] = x
  BY <1>1, FirstPart
<1>3. /\ Size(Joined(a, b)) = Size(a) + Size(b)
      /\ Size(a) \in Nat /\ Size(b) \in Nat
  BY Concatenated
<1>4. i \in 1 .. Size(Joined(a, b))
  BY <1>3
<1> QED BY <1>2, <1>4 DEF Occurs

LEMMA OccursAfter ==
    ASSUME NEW S, NEW a \in SeqOf(S), NEW b \in SeqOf(S), NEW x, Occurs(x, b)
    PROVE  Occurs(x, Joined(a, b))
<1>1. PICK i \in 1 .. Size(b) : b[i] = x
  BY DEF Occurs
<1>2. Joined(a, b)[Size(a) + i] = x
  BY <1>1, SecondPart
<1>3. /\ Size(Joined(a, b)) = Size(a) + Size(b)
      /\ Size(a) \in Nat /\ Size(b) \in Nat
  BY Concatenated
<1>4. Size(a) + i \in 1 .. Size(Joined(a, b))
  BY <1>3
<1> QED BY <1>2, <1>4 DEF Occurs

LEMMA OccursLast ==
    ASSUME NEW S, NEW a \in SeqOf(S), NEW x \in S
    PROVE  Occurs(x, Joined(a, One(x)))
<1>1. One(x) \in SeqOf(S) /\ Size(One(x)) = 1 /\ One(x)[1] = x
  BY OneStatement
<1>2. 1 \in 1 .. Size(One(x))
  BY <1>1
<1>3. Occurs(x, One(x))
  BY <1>1, <1>2 DEF Occurs
<1> QED BY <1>1, <1>3, OccursAfter

\* What a sequence begins with, what is appended to it does not change.
Begins(x, s) == Size(s) \in Nat /\ Size(s) >= 1 /\ s[1] = x

LEMMA BeginsBefore ==
    ASSUME NEW S, NEW a \in SeqOf(S), NEW b \in SeqOf(S), NEW x, Begins(x, a)
    PROVE  Begins(x, Joined(a, b))
<1>1. 1 \in 1 .. Size(a)
  BY DEF Begins
<1>2. Joined(a, b)[1] = a[1]
  BY <1>1, FirstPart
<1>3. /\ Size(Joined(a, b)) = Size(a) + Size(b)
      /\ Size(a) \in Nat /\ Size(b) \in Nat
  BY Concatenated
<1> QED BY <1>2, <1>3 DEF Begins

LEMMA BeginsOne ==
    ASSUME NEW x PROVE Begins(x, One(x))
<1>1. Size(One(x)) = 1 /\ One(x)[1] = x
  BY OneStatement
<1> QED BY <1>1 DEF Begins

LEMMA MembershipStatements ==
    /\ Memberships \in SeqOf(Early)
    /\ Begins(FirstGroup, Memberships) /\ Occurs(SecondGroup, Memberships)
<1> DEFINE join(op, g, s) == [call |-> OnGroup(op, g, "user1"), skip |-> s]
           p == printMemberships
           a == One(FirstGroup)
           b == Joined(Joined(a, p), One(join("create_group", "group1", 1)))
           d == Joined(Joined(b, p), One(SecondGroup))
           e == Joined(Joined(d, p), One(join("add_user_to_group", "group2", 0)))
           f == Joined(Joined(e, p), One(join("add_user_to_group", "group1", 0)))
<1>1. /\ p \in SeqOf(Early)
      /\ FirstGroup \in Early /\ SecondGroup \in Early
      /\ join("create_group", "group1", 1) \in Early
      /\ join("add_user_to_group", "group2", 0) \in Early
      /\ join("add_user_to_group", "group1", 0) \in Early
  BY PrintStatements, EarlyStatements
<1>2. Memberships = Joined(f, p)
  BY Zenon DEF Memberships, Do, Try, FirstGroup, SecondGroup, One, Joined
<1> HIDE DEF join, p
<1>3. a \in SeqOf(Early) /\ Begins(FirstGroup, a)
  BY <1>1, OneStatement, BeginsOne
<1> HIDE DEF a
<1>4. ASSUME NEW s \in SeqOf(Early), Begins(FirstGroup, s), NEW x \in Early
      PROVE  /\ Joined(s, p) \in SeqOf(Early)
             /\ Joined(Joined(s, p), One(x)) \in SeqOf(Early)
             /\ Begins(FirstGroup, Joined(Joined(s, p), One(x)))
             /\ Occurs(x, Joined(Joined(s, p), One(x)))
             /\ Occurs(SecondGroup, s) =>
                  Occurs(SecondGroup, Joined(Joined(s, p), One(x)))
  <2>1. Joined(s, p) \in SeqOf(Early) /\ Begins(FirstGroup, Joined(s, p))
    BY <1>1, <1>4, Concatenated, BeginsBefore
  <2>2. One(x) \in SeqOf(Early)
    BY OneStatement
  <2>3. Occurs(SecondGroup, s) => Occurs(SecondGroup, Joined(s, p))
    BY <1>1, OccursBefore
  <2> QED BY <2>1, <2>2, <2>3, Concatenated, BeginsBefore, OccursBefore, OccursLast
<1>5. b \in SeqOf(Early) /\ Begins(FirstGroup, b)
  BY <1>1, <1>3, <1>4
<1> HIDE DEF b
<1>6. d \in SeqOf(Early) /\ Begins(FirstGroup, d) /\ Occurs(SecondGroup, d)
  BY <1>1, <1>4, <1>5
<1> HIDE DEF d
<1>7. e \in SeqOf(Early) /\ Begins(FirstGroup, e) /\ Occurs(SecondGroup, e)
  BY <1>1, <1>4, <1>6
<1> HIDE DEF e
<1>8. f \in SeqOf(Early) /\ Begins(FirstGroup, f) /\ Occurs(SecondGroup, f)
  BY <1>1, <1>4, <1>7
<1> HIDE DEF f
<1> QED BY <1>1, <1>2, <1>8, Concatenated, BeginsBefore, OccursBefore

LEMMA AgainStatements ==
    Again \in SeqOf(Early) /\ Begins(UserAgain, Again)
<1>1. Again = Joined(One(UserAgain), printMemberships)
  BY Zenon DEF Again, Try, UserAgain, One, Joined
<1>2. One(UserAgain) \in SeqOf(Early) /\ Begins(UserAgain, One(UserAgain))
  BY EarlyStatements, OneStatement, BeginsOne
<1> QED BY <1>1, <1>2, PrintStatements, Concatenated, BeginsBefore

\* After user1 is deleted, only questions are asked.
Ending(s) ==
    \A i, j \in 1 .. Size(s) : s[i] = Deletion /\ i < j => s[j] \in Asking

LEMMA DeletionOnlyOnce == Deletion \notin Before
BY DEF Before, Early, Asking, Joining, Emptying, Indexing, FirstUser, SecondUser,
       SecondGroup, UserAgain, Reading, Leaving, Deletion, OnGroup, CreateUser

LEMMA EndingStarts ==
    ASSUME NEW a \in SeqOf(Before) PROVE Ending(Joined(a, One(Deletion)))
<1> DEFINE s == Joined(a, One(Deletion))
<1>1. a \in SeqOf(Statement) /\ One(Deletion) \in SeqOf(Statement)
  BY EarlyStatements, LongerSeq, OneStatement DEF Statement
<1>2. Size(One(Deletion)) = 1
  BY OneStatement
<1>3. \A i \in 1 .. Size(a) : a[i] # Deletion
  BY Statements, DeletionOnlyOnce
<1>4. Size(s) = Size(a) + 1 /\ Size(a) \in Nat
  BY <1>1, <1>2, Concatenated
<1>5. ASSUME NEW i \in 1 .. Size(s), s[i] = Deletion PROVE i = Size(s)
  <2>1. i \notin 1 .. Size(a)
    BY <1>1, <1>3, <1>5, FirstPart
  <2> QED BY <1>4, <2>1
<1> HIDE DEF s
<1> QED BY <1>4, <1>5 DEF Ending, s

LEMMA EndingGoesOn ==
    ASSUME NEW a \in SeqOf(Statement), Ending(a), NEW b \in SeqOf(Asking)
    PROVE  Ending(Joined(a, b))
<1> DEFINE s == Joined(a, b)
<1>1. b \in SeqOf(Statement)
  BY EarlyStatements, LongerSeq
<1>2. \A i \in 1 .. Size(b) : b[i] \in Asking
  BY Statements
<1>3. ASSUME NEW i \in 1 .. Size(s), NEW j \in 1 .. Size(s), s[i] = Deletion, i < j
      PROVE  s[j] \in Asking
  <2>1. \/ j \in 1 .. Size(a) /\ s[j] = a[j]
        \/ j - Size(a) \in 1 .. Size(b) /\ s[j] = b[j - Size(a)]
    BY <1>1, Located
  <2>2. CASE j \in 1 .. Size(a) /\ s[j] = a[j]
    <3>1. i \in 1 .. Size(a) /\ Size(a) \in Nat
      BY <1>1, <1>3, <2>2, Concatenated
    <3>2. a[i] = Deletion
      BY <1>1, <1>3, <3>1, FirstPart
    <3> QED BY <1>3, <2>2, <3>1, <3>2 DEF Ending
  <2>3. CASE j - Size(a) \in 1 .. Size(b) /\ s[j] = b[j - Size(a)]
    BY <1>2, <2>3
  <2> QED BY <2>1, <2>2, <2>3
<1> HIDE DEF s
<1> QED BY <1>3 DEF Ending, s

LEMMA EndingLater ==
    ASSUME NEW a \in SeqOf(Before), NEW b \in SeqOf(Statement), Ending(b)
    PROVE  Ending(Joined(a, b))
<1> DEFINE s == Joined(a, b)
<1>1. a \in SeqOf(Statement)
  BY EarlyStatements, LongerSeq
<1>2. \A i \in 1 .. Size(a) : a[i] # Deletion
  BY Statements, DeletionOnlyOnce
<1>3. Size(a) \in Nat /\ Size(b) \in Nat /\ Size(s) = Size(a) + Size(b)
  BY <1>1, Concatenated
<1>4. ASSUME NEW i \in 1 .. Size(s), NEW j \in 1 .. Size(s), s[i] = Deletion, i < j
      PROVE  s[j] \in Asking
  <2>1. /\ i - Size(a) \in 1 .. Size(b) /\ s[i] = b[i - Size(a)]
        /\ i \in Size(a) + 1 .. Size(a) + Size(b)
    BY <1>1, <1>2, <1>4, Located
  <2>2. j \notin 1 .. Size(a)
    BY <1>3, <1>4, <2>1
  <2>3. j - Size(a) \in 1 .. Size(b) /\ s[j] = b[j - Size(a)]
    BY <1>1, <2>2, Located
  <2>4. i - Size(a) < j - Size(a)
    BY <1>3, <1>4
  <2> QED BY <1>4, <2>1, <2>3, <2>4 DEF Ending
<1> HIDE DEF s
<1> QED BY <1>4 DEF Ending, s

LEMMA RemovalStatements ==
    /\ Removals \in SeqOf(Early \cup {Deletion})
    /\ Ending(Removals) /\ Occurs(Deletion, Removals)
<1> DEFINE p == printMemberships
           again == [call |-> OnGroup("add_user_to_group", "group2", "user1"), skip |-> 0]
           a == Joined(Joined(One(Reading), One(Leaving)), p)
           b == Joined(Joined(a, One(again)), p)
           d == Joined(b, One(Deletion))
<1>1. /\ p \in SeqOf(Early) /\ p \in SeqOf(Asking)
      /\ Reading \in Early /\ Leaving \in Early /\ again \in Early
  BY PrintStatements, EarlyStatements
<1>2. Removals = Joined(d, p)
  BY Zenon DEF Removals, Do, Reading, Leaving, Deletion, One, Joined
<1> HIDE DEF again, p
<1>3. /\ One(Reading) \in SeqOf(Early) /\ One(Leaving) \in SeqOf(Early)
      /\ One(again) \in SeqOf(Early)
  BY <1>1, OneStatement
<1>4. Joined(One(Reading), One(Leaving)) \in SeqOf(Early)
  BY <1>3, Concatenated
<1>5. a \in SeqOf(Early)
  BY <1>1, <1>4, Concatenated
<1> HIDE DEF a
<1>6. b \in SeqOf(Early)
  <2>1. Joined(a, One(again)) \in SeqOf(Early)
    BY <1>3, <1>5, Concatenated
  <2> QED BY <1>1, <2>1, Concatenated
<1> HIDE DEF b
<1> DEFINE S == Early \cup {Deletion}
<1>7. /\ b \in SeqOf(S) /\ b \in SeqOf(Before) /\ p \in SeqOf(S)
      /\ Deletion \in S /\ S \subseteq Statement
  BY <1>1, <1>6, EarlyStatements, LongerSeq DEF Statement
<1> HIDE DEF S
<1>8. d \in SeqOf(S) /\ Occurs(Deletion, d)
  BY <1>7, OneStatement, Concatenated, OccursLast
<1>9. Ending(d)
  BY <1>7, EndingStarts
<1> HIDE DEF d
<1>10. Ending(Joined(d, p))
  BY <1>1, <1>7, <1>8, <1>9, LongerSeq, EndingGoesOn
<1> QED BY <1>2, <1>7, <1>8, <1>10, Concatenated, OccursBefore DEF S

\* Where user1 is created again.
AgainLine == Len(Setup \o Memberships) + 1

\* All that the proofs below need of the script.
LEMMA ScriptFacts ==
    /\ Last \in Nat /\ Last > 9 /\ AgainLine \in 10 .. Last
    /\ Script[1] = Emptying /\ Script[2] = Indexing
    /\ Script[3] = FirstUser /\ Script[4] = SecondUser
    /\ \A i \in 5 .. 8 : Script[i] \in Asking
    /\ Script[9] = FirstGroup
    /\ Script[AgainLine] = UserAgain
    /\ \A i \in 5 .. Last : Script[i] \in Early \cup {Deletion}
    /\ \E i \in 1 .. Last : Script[i] = SecondGroup
    /\ \E i \in 1 .. Last : Script[i] = Deletion
    /\ \A i, j \in 1 .. Last : Script[i] = Deletion /\ i < j => Script[j] \in Asking
<1> DEFINE S == Early \cup {Deletion}
           a == Joined(Setup, Memberships)
           b == Joined(a, Again)
<1>1. Script = Joined(b, Removals) /\ Last = Size(Script) /\ AgainLine = Size(a) + 1
  BY Zenon DEF Script, Last, AgainLine, Joined, Size
<1>2. /\ Setup \in SeqOf(Before) /\ Memberships \in SeqOf(Before)
      /\ Again \in SeqOf(Before)
  BY SetupStatements, MembershipStatements, AgainStatements, EarlyStatements, LongerSeq
<1>3. Before \subseteq Statement /\ S \subseteq Statement /\ Early \subseteq S
  BY EarlyStatements DEF Statement
<1>4. /\ Setup \in SeqOf(Statement) /\ Memberships \in SeqOf(Statement)
      /\ Again \in SeqOf(Statement) /\ Removals \in SeqOf(Statement)
  BY <1>2, <1>3, RemovalStatements, LongerSeq
<1>5. a \in SeqOf(Before) /\ a \in SeqOf(Statement)
  BY <1>2, <1>4, Concatenated
<1>6. b \in SeqOf(Before) /\ b \in SeqOf(Statement)
  BY <1>2, <1>4, <1>5, Concatenated
<1>7. Size(a) = Size(Setup) + Size(Memberships)
  BY <1>2, Concatenated
<1>8. Size(b) = Size(a) + Size(Again)
  BY <1>2, <1>5, Concatenated
<1>9. Size(Script) = Size(b) + Size(Removals) /\ Size(Removals) \in Nat
  BY <1>1, <1>4, <1>6, Concatenated
<1>10. /\ Size(Setup) = 8
       /\ Size(Memberships) \in Nat /\ Size(Memberships) >= 1
       /\ Size(Again) \in Nat /\ Size(Again) >= 1
  BY SetupStatements, MembershipStatements, AgainStatements DEF Begins
<1>11. /\ Size(a) \in Nat /\ Size(a) >= 9 /\ Size(b) \in Nat /\ Size(b) > Size(a)
       /\ Last \in Nat /\ Last > 9 /\ Size(b) <= Last
  BY <1>1, <1>7, <1>8, <1>9, <1>10
<1>12. ASSUME NEW i \in 1 .. Size(a) PROVE Script[i] = a[i]
  <2>1. i \in 1 .. Size(b)
    BY <1>11
  <2>2. Script[i] = b[i]
    BY <1>1, <1>4, <1>6, <2>1, FirstPart
  <2> QED BY <1>4, <1>5, <2>2, FirstPart
<1>13. ASSUME NEW i \in 1 .. 8 PROVE Script[i] = Setup[i]
  <2>1. i \in 1 .. Size(Setup) /\ i \in 1 .. Size(a)
    BY <1>10, <1>11
  <2> QED BY <1>4, <1>12, <2>1, FirstPart
<1>14. Script[9] = FirstGroup
  <2>1. 1 \in 1 .. Size(Memberships) /\ Size(Setup) + 1 = 9 /\ 9 \in 1 .. Size(a)
    BY <1>10, <1>11
  <2>2. a[Size(Setup) + 1] = Memberships[1]
    BY <1>4, <2>1, SecondPart
  <2> QED BY <1>12, <2>1, <2>2, MembershipStatements DEF Begins
<1>15. Script[AgainLine] = UserAgain
  <2>1. 1 \in 1 .. Size(Again) /\ Size(a) + 1 \in 1 .. Size(b)
    BY <1>8, <1>10, <1>11
  <2>2. b[Size(a) + 1] = Again[1]
    BY <1>4, <1>5, <2>1, SecondPart
  <2>3. Script[Size(a) + 1] = b[Size(a) + 1]
    BY <1>1, <1>4, <1>6, <2>1, FirstPart
  <2> QED BY <1>1, <2>2, <2>3, AgainStatements DEF Begins
<1>16. AgainLine \in 10 .. Last
  BY <1>1, <1>11
<1>17. Occurs(SecondGroup, Script) /\ Occurs(Deletion, Script)
  <2>1. Occurs(SecondGroup, a)
    BY <1>4, MembershipStatements, OccursAfter
  <2>2. Occurs(SecondGroup, b)
    BY <1>4, <1>5, <2>1, OccursBefore
  <2> QED BY <1>1, <1>4, <1>6, <2>2, RemovalStatements, OccursBefore, OccursAfter
<1>18. Ending(Script)
  BY <1>1, <1>4, <1>6, RemovalStatements, EndingLater
<1>19. /\ \A i \in 1 .. Size(Memberships) : Memberships[i] \in S
       /\ \A i \in 1 .. Size(Again) : Again[i] \in S
       /\ \A i \in 1 .. Size(Removals) : Removals[i] \in S
  BY MembershipStatements, AgainStatements, RemovalStatements, Statements
<1>20. ASSUME NEW i \in 5 .. Last PROVE Script[i] \in S
  <2>1. CASE i \in 5 .. 8
    BY <1>13, <2>1, SetupStatements, EarlyStatements
  <2>2. CASE i \notin 5 .. 8
    <3>1. i \in 1 .. Size(Script) /\ i > Size(Setup)
      BY <1>1, <1>10, <1>11, <2>2
    <3>2. CASE i \in 1 .. Size(b) /\ Script[i] = b[i]
      <4>1. CASE i \in 1 .. Size(a) /\ b[i] = a[i]
        <5>1. \/ i \in 1 .. Size(Setup)
              \/ /\ i - Size(Setup) \in 1 .. Size(Memberships)
                 /\ a[i] = Memberships[i - Size(Setup)]
          BY <1>4, <4>1, Located
        <5> QED BY <1>10, <1>19, <3>1, <3>2, <4>1, <5>1
      <4>2. CASE i - Size(a) \in 1 .. Size(Again) /\ b[i] = Again[i - Size(a)]
        BY <1>19, <3>2, <4>2
      <4> QED BY <1>4, <1>5, <3>2, <4>1, <4>2, Located
    <3>3. CASE /\ i - Size(b) \in 1 .. Size(Removals)
               /\ Script[i] = Removals[i - Size(b)]
      BY <1>19, <3>3
    <3> QED BY <1>1, <1>4, <1>6, <3>1, <3>2, <3>3, Located
  <2> QED BY <2>1, <2>2
<1>21. /\ Script[1] = Emptying /\ Script[2] = Indexing
       /\ Script[3] = FirstUser /\ Script[4] = SecondUser
  <2>1. 1 \in 1 .. 8 /\ 2 \in 1 .. 8 /\ 3 \in 1 .. 8 /\ 4 \in 1 .. 8
    OBVIOUS
  <2> QED BY <1>13, <2>1, SetupStatements
<1>22. \A i \in 5 .. 8 : Script[i] \in Asking
  BY <1>13, SetupStatements
<1> HIDE DEF a, b
<1> QED BY <1>1, <1>11, <1>14, <1>15, <1>16, <1>17, <1>18, <1>20, <1>21, <1>22
        DEF Occurs, Ending

-----------------------------------------------------------------------------
(* One run at a time *)

\* What a run does to the database and to itself is a step of MongoDatabase.
LEMMA SampleStep == ASSUME [SampleNext]_sampleVars PROVE [Next]_vars
<1>1. ASSUME NEW c \in Client,
             Begin(c) \/ Proceed(c) \/ Terminate(c) \/ RoundTrip(c) \/ CrashRun(c)
      PROVE  [Next]_vars
  BY <1>1 DEF Begin, Proceed, Terminate, RoundTrip, CrashRun, CallOf, Next
<1>2. ASSUME NEW cmd \in inflight, LateCommand(cmd) PROVE [Next]_vars
  BY <1>2 DEF LateCommand, Next
<1>3. UNCHANGED sampleVars => UNCHANGED vars
  BY DEF sampleVars
<1> QED BY <1>1, <1>2, <1>3 DEF SampleNext, AllOver

\* Every behaviour of the runs is one of MongoDatabase, for which what is proved
\* of its clients holds.
LEMMA SampleIsMongo == SampleSpec => Spec
<1>1. SampleInit => Init
  BY DEF SampleInit
<1> QED BY <1>1, SampleStep, PTL DEF SampleSpec, Spec

LEMMA StepBusy == ASSUME NEW c, Step(c) PROVE pc[c] \notin Idle
BY DEF Step, create_user, reencrypt_user_key, create_group, add_find,
       add_update, remove_find, remove_update, scan_open, scan_next, scan_end,
       bulk_update, delete_user, delete_all_users, delete_all_groups,
       init_users_index, init_groups_index, is_user_part_of_group,
       get_keys_of_group, ping, Idle

\* The place of a run in the script, and what its call is.
PlaceOK(c) ==
    /\ ~Going(c) => pc[c] \in Idle
    /\ line[c] = 0 => seq[c] = 0 /\ c \notin aborted
    /\ Going(c) => call[c] = Script[line[c]].call
    /\ c \in clean => line[c] > 0 /\ pc[c] # "crashed"

Places ==
    /\ line \in [Client -> 0 .. Last + 1]
    /\ \A c, d \in Client : Going(c) /\ Going(d) => c = d
    /\ \A c \in Client : PlaceOK(c)

\* The step of one run leaves the others where they are.
Apart(c) ==
    \A o \in Client \ {c} :
        /\ pc'[o] = pc[o] /\ call'[o] = call[o] /\ seq'[o] = seq[o]
        /\ line'[o] = line[o] /\ (o \in aborted' <=> o \in aborted)
        /\ o \in clean' <=> o \in clean

LEMMA ApartPlaces ==
    ASSUME Places, NEW c \in Client, Apart(c), line' \in [Client -> 0 .. Last + 1],
           Going(c)' => \A o \in Client \ {c} : ~Going(o), PlaceOK(c)'
    PROVE  Places'
<1>1. ASSUME NEW o \in Client \ {c}
      PROVE  (Going(o)' <=> Going(o)) /\ (PlaceOK(o) => PlaceOK(o)')
  BY DEF Apart, PlaceOK, Going, Over, Returned
<1> QED BY <1>1 DEF Places

LEMMA InvokeEffect ==
    ASSUME IInv, NEW c \in Client, Invoke(c)
    PROVE  /\ pc[c] = "idle" /\ pc'[c] \notin Idle
           /\ seq'[c] = seq[c] + 1 /\ seq[c] \in Nat
           /\ result'[c].status = "none"
           /\ \A o \in Client \ {c} : /\ pc'[o] = pc[o] /\ call'[o] = call[o]
                                      /\ seq'[o] = seq[o]
           /\ UNCHANGED <<users, groups, indexed, inflight, loc, faults>>
<1>1. PICK new \in Calls : /\ call' = [call EXCEPT ![c] = new]
                           /\ pc' = [pc EXCEPT ![c] = First[new.op]]
  BY DEF Invoke
<1>2. new.op \in AllOps
  BY DEF Calls, AllOps, GroupUserOps
<1>3. First[new.op] \notin Idle
  BY <1>2 DEF First, AllOps, GroupUserOps, Idle
<1> QED BY <1>1, <1>3, MongoConstants DEF Invoke, IInv, ClientsOK, CountersOK

LEMMA BeginKeepsPlaces ==
    ASSUME IInv, Places, NEW c \in Client, Begin(c) PROVE Places'
<1>1. Invoke(c) /\ call'[c] = Script[1].call /\ line[c] = 0
  BY DEF Begin, CallOf
<1>2. line'[c] = 1 /\ c \notin aborted /\ line' \in [Client -> 0 .. Last + 1]
  BY <1>1, ScriptFacts DEF Begin, Places, PlaceOK
<1>3. Apart(c)
  BY <1>1, InvokeEffect DEF Begin, Apart, Places
<1>4. PlaceOK(c)'
  BY <1>1, <1>2, InvokeEffect, ScriptFacts
     DEF Begin, PlaceOK, Going, Over, Returned, Idle
<1> QED BY <1>2, <1>3, <1>4, ApartPlaces DEF Begin

\* A jump does not leave the script.
LEMMA JumpInside ==
    ASSUME Places, NEW c \in Client, Going(c), Jump(c) # 0
    PROVE  Jump(c) \in {1, 2} /\ line[c] + Jump(c) \in 1 .. Last + 1
<1>1. line[c] \in 1 .. Last
  BY ScriptFacts DEF Places, Going, Over, Returned
<1>2. Script[line[c]].skip \in {0, 1} \/ (line[c] = 3 /\ Script[line[c]].skip = 2)
  <2>1. CASE line[c] \in 1 .. 4
    BY <2>1, ScriptFacts DEF Emptying, Indexing, FirstUser, SecondUser
  <2>2. CASE line[c] \in 5 .. Last
    <3>1. Script[line[c]] \in Early \cup {Deletion}
      BY <2>2, ScriptFacts
    <3> QED BY <3>1 DEF Early, Asking, Joining, SecondGroup, UserAgain,
                        Reading, Leaving, Deletion
  <2> QED BY <1>1, <2>1, <2>2, ScriptFacts
<1> QED BY <1>1, <1>2, ScriptFacts DEF Jump

LEMMA ProceedKeepsPlaces ==
    ASSUME IInv, Places, NEW c \in Client, Proceed(c) PROVE Places'
<1>1. Going(c) /\ pc[c] = "idle" /\ line[c] + Jump(c) \in 1 .. Last + 1
  BY JumpInside DEF Proceed
<1>2. /\ line'[c] = line[c] + Jump(c) /\ line' \in [Client -> 0 .. Last + 1]
      /\ \A o \in Client \ {c} : line'[o] = line[o]
  BY <1>1 DEF Proceed, Places
<1>3. \A o \in Client \ {c} : ~Going(o)
  BY <1>1 DEF Places
<1>4. CASE line'[c] <= Last /\ CallOf(c, line'[c])
  <2>1. Invoke(c) /\ call'[c] = Script[line'[c]].call
    BY <1>4 DEF CallOf
  <2>2. Apart(c)
    BY <1>2, <2>1, InvokeEffect DEF Proceed, Apart
  <2>3. PlaceOK(c)'
    BY <1>1, <1>2, <1>4, <2>1, InvokeEffect, ScriptFacts
       DEF Proceed, PlaceOK, Going, Over, Returned, Idle
  <2> QED BY <1>2, <1>3, <2>2, <2>3, ApartPlaces
<1>5. CASE line'[c] > Last /\ UNCHANGED vars
  <2>1. Apart(c)
    BY <1>2, <1>5 DEF Proceed, Apart, vars
  <2>2. line'[c] = Last + 1
    BY <1>1, <1>2, <1>5, ScriptFacts
  <2>3. PlaceOK(c)'
    BY <1>1, <1>5, <2>2, ScriptFacts
       DEF Proceed, PlaceOK, Going, Over, Returned, Idle, vars
  <2> QED BY <1>2, <1>3, <2>1, <2>3, ApartPlaces
<1> QED BY <1>4, <1>5 DEF Proceed

LEMMA RoundTripKeepsPlaces ==
    ASSUME IInv, Places, NEW c \in Client, RoundTrip(c) PROVE Places'
<1>1. Step(c) /\ UNCHANGED <<line, aborted, call, seq>> /\ Clean(c)
  BY DEF RoundTrip, Step
<1>2. Going(c)
  BY <1>1, StepBusy DEF Places, PlaceOK
<1>3. pc'[c] # "crashed"
  BY <1>1, StepShape, GotoEffect DEF ReturnKeys, IInv, ClientsOK, Idle
<1>4. Apart(c)
  BY <1>1, OthersUntouched DEF Apart, Clean
<1>5. PlaceOK(c)'
  BY <1>1, <1>2, <1>3 DEF Places, PlaceOK, Going, Over, Returned, Clean
<1> QED BY <1>1, <1>2, <1>4, <1>5, ApartPlaces DEF Places

LEMMA CrashKeepsPlaces ==
    ASSUME IInv, Places, NEW c \in Client, CrashRun(c) PROVE Places'
<1>1. /\ Going(c) /\ Crash(c) /\ UNCHANGED <<line, aborted, call, seq>>
      /\ pc'[c] = "crashed" /\ faults' # faults /\ Clean(c)
      /\ \A o \in Client \ {c} : pc'[o] = pc[o]
  BY DEF CrashRun, Crash, Fault, IInv, ClientsOK, CountersOK
<1>2. Apart(c)
  BY <1>1 DEF Apart, Clean
<1>3. PlaceOK(c)'
  BY <1>1 DEF Places, PlaceOK, Going, Over, Returned, Clean, Idle
<1> QED BY <1>1, <1>2, <1>3, ApartPlaces DEF Places

LEMMA NextKeepsPlaces ==
    ASSUME IInv, Places, [SampleNext]_sampleVars PROVE Places'
<1>1. ASSUME NEW c \in Client, Terminate(c) PROVE Places'
  <2>1. UNCHANGED vars /\ UNCHANGED <<line, clean>> /\ c \in aborted' /\ Apart(c)
    BY <1>1 DEF Terminate, Apart, vars
  <2>2. PlaceOK(c)'
    BY <1>1, <2>1 DEF Terminate, Places, PlaceOK, Going, Over, Returned, vars, Idle
  <2> QED BY <1>1, <2>1, <2>2, ApartPlaces DEF Terminate, Places
<1>2. ASSUME UNCHANGED <<pc, call, seq, line, aborted, clean>> PROVE Places'
  BY <1>2 DEF Places, PlaceOK, Going, Over, Returned
<1>3. UNCHANGED sampleVars => Places'
  BY <1>2 DEF sampleVars, vars
<1>4. ASSUME NEW cmd \in inflight, LateCommand(cmd) PROVE Places'
  BY <1>2, <1>4 DEF LateCommand, Deliver
<1> QED BY <1>1, <1>3, <1>4, BeginKeepsPlaces, ProceedKeepsPlaces,
           RoundTripKeepsPlaces, CrashKeepsPlaces DEF SampleNext, AllOver

\* One run at a time, from the first statement of the script on.
LEMMA RunsTakeTurns == SampleSpec => []Places
<1>1. SampleInit => Places
  BY ScriptFacts
     DEF SampleInit, Init, Places, PlaceOK, Going, Over, Returned, Idle
<1>2. IInv /\ Places /\ [SampleNext]_sampleVars => Places'
  BY NextKeepsPlaces
<1> QED BY <1>1, <1>2, SampleIsMongo, InductiveInvariant, PTL DEF SampleSpec

-----------------------------------------------------------------------------
(* What a run leaves that ends in the middle *)

\* Only the first statement of the script empties the database.
LEMMA EmptiesFirst ==
    ASSUME NEW i \in 2 .. Last PROVE Script[i].call.op # "delete_all_data"
<1>1. CASE i \in 2 .. 4
  BY <1>1, ScriptFacts DEF Indexing, FirstUser, SecondUser, CreateUser
<1>2. CASE i \in 5 .. Last
  <2>1. Script[i] \in Early \cup {Deletion}
    BY <1>2, ScriptFacts
  <2> QED BY <2>1 DEF Early, Asking, Joining, SecondGroup, UserAgain, Reading,
                      Leaving, Deletion, OnGroup, CreateUser
<1> QED BY <1>1, <1>2, ScriptFacts

\* A run ended in the middle of its script, before any other began.
Cut(c) == /\ pc[c] = "crashed" /\ line[c] > 1 /\ faults = 1
          /\ \A o \in Client \ {c} : line[o] = 0

\* A user who is in no group.
Out(u) == \A d \in groups : ~HasUser(d, salted_hash_name(u, decrypt_data(d.encname)))

\* The commands a call may leave on their way: those that put nobody but a
\* registered user into a group, and the deletion of a user who is in no group.
Harmless(cmd) ==
    /\ cmd.kind \in {"insert_user", "insert_group", "push", "pull", "pull_exact",
                     "create_index"}
    /\ cmd.kind = "insert_group" =>
         /\ cmd.doc.name = hash_name(decrypt_data(cmd.doc.encname))
         /\ \A e \in Range(cmd.doc.users) : Known(e, cmd.doc)
    /\ cmd.kind = "push" =>
         /\ cmd.entry \in Entry
         /\ \A d : cmd.name = hash_name(decrypt_data(d.encname)) =>
                     Known(cmd.entry, d)

Departure(cmd) ==
    /\ cmd.kind = "delete_user"
    /\ \E u \in User : cmd.name = hash_name(u) /\ Out(u)

LateOK(cmds) == \/ \A cmd \in cmds : Harmless(cmd)
                \/ \A cmd \in cmds : Departure(cmd)

CutInv == \A c \in Client : Cut(c) => Members /\ LateOK(inflight)

LEMMA HarmlessStays ==
    ASSUME NEW cmd, Harmless(cmd), users \subseteq users' PROVE Harmless(cmd)'
<1>1. \A e, d : Known(e, d) => Known(e, d)'
  BY KnownGrows
<1> QED BY <1>1 DEF Harmless

LEMMA HarmlessExecuted ==
    ASSUME IInv, Members, NEW cmd, Harmless(cmd), NEW n, Execute(cmd, n)
    PROVE  Members' /\ users \subseteq users'
<1>1. CASE cmd.kind = "insert_user"
  <2>1. ExecuteInsert(cmd, n)
    BY <1>1 DEF Execute, ExecutePush, ExecutePull, ExecutePullExact,
                ExecuteDelete, ExecuteIndex
  <2>2. UNCHANGED groups /\ users \subseteq users'
    BY <1>1, <2>1 DEF ExecuteInsert
  <2> QED BY <2>2, MoreUsers
<1>2. CASE cmd.kind = "insert_group"
  <2>1. ExecuteInsert(cmd, n)
    BY <1>2 DEF Execute, ExecutePush, ExecutePull, ExecutePullExact,
                ExecuteDelete, ExecuteIndex
  <2>2. UNCHANGED users /\ groups' \subseteq groups \cup {cmd.doc}
    BY <1>2, <2>1 DEF ExecuteInsert
  <2>3. ASSUME NEW d \in groups'
        PROVE  /\ d.name = hash_name(decrypt_data(d.encname))
               /\ \A e \in Range(d.users) : Known(e, d)
    <3>1. d \in groups \/ d = cmd.doc
      BY <2>2
    <3> QED BY <1>2, <3>1 DEF Members, Harmless
  <2>4. \A d \in groups' : \A e \in Range(d.users) : Known(e, d)'
    BY <2>2, <2>3, KnownGrows
  <2> QED BY <2>2, <2>3, <2>4 DEF Members
<1>3. CASE cmd.kind = "push"
  <2>1. ExecutePush(cmd, n)
    BY <1>3 DEF Execute, ExecuteInsert, ExecutePull, ExecutePullExact,
                ExecuteDelete, ExecuteIndex
  <2>2. UNCHANGED users
    BY <2>1 DEF ExecutePush
  <2>3. UNCHANGED groups => Members'
    BY <2>2, SameMembers
  <2>4. ASSUME NEW d \in groups, PushMatches(d, cmd),
               Replace(d, Pushed(d, cmd.entry, cmd.new))
        PROVE  Members'
    <3> DEFINE p == Pushed(d, cmd.entry, cmd.new)
    <3>1. /\ p.name = d.name /\ p.encname = d.encname
          /\ Range(p.users) = Range(d.users) \cup {cmd.entry}
      <4>1. d \in GroupDoc /\ cmd.entry \in Entry
        BY <1>3 DEF IInv, DataOK, Harmless
      <4>2. PICK entry, sig : entry \in Entry /\ entry = cmd.entry /\ sig = cmd.new
        BY <4>1
      <4>3. p = Pushed(d, entry, sig) /\ entry \in Entry
        BY <4>2
      <4> HIDE DEF p
      <4>4. /\ p.name = d.name /\ p.encname = d.encname
            /\ Range(p.users) = Range(d.users) \cup {entry}
        BY <4>1, <4>3, PushedMembers
      <4> QED BY <4>2, <4>4
    <3>2. Known(cmd.entry, d)
      BY <1>3, <2>4 DEF PushMatches, AddMatches, Members, Harmless
    <3> HIDE DEF p
    <3>3. Replace(d, p)
      BY <2>4 DEF p
    <3>4. \A e \in Range(p.users) : e \in Range(d.users) \/ Known(e, d)
      BY <3>1, <3>2
    <3> QED BY <2>2, <3>1, <3>3, <3>4, ReplacedMembers
  <2> QED BY <2>1, <2>2, <2>3, <2>4 DEF ExecutePush
<1>4. CASE cmd.kind \in {"pull", "pull_exact"}
  <2>1. ExecutePull(cmd, n) \/ ExecutePullExact(cmd, n)
    BY <1>4 DEF Execute, ExecuteInsert, ExecutePush, ExecuteDelete, ExecuteIndex
  <2>2. UNCHANGED users
    BY <2>1 DEF ExecutePull, ExecutePullExact
  <2> QED BY <2>1, <2>2, PullKeepsMembers
<1>5. CASE cmd.kind = "create_index"
  <2>1. ExecuteIndex(cmd, n)
    BY <1>5 DEF Execute, ExecuteInsert, ExecutePush, ExecutePull,
                ExecutePullExact, ExecuteDelete
  <2>2. UNCHANGED <<users, groups>>
    BY <2>1 DEF ExecuteIndex
  <2> QED BY <2>2, SameMembers
<1> QED BY <1>1, <1>2, <1>3, <1>4, <1>5 DEF Harmless

LEMMA DepartureExecuted ==
    ASSUME Members, NEW cmd, Departure(cmd), NEW n, Execute(cmd, n)
    PROVE  Members' /\ UNCHANGED groups
<1>1. PICK u \in User : cmd.name = hash_name(u) /\ Out(u)
  BY DEF Departure
<1>2. ExecuteDelete(cmd, n) /\ cmd.kind = "delete_user"
  BY DEF Departure, Execute, ExecuteInsert, ExecutePush, ExecutePull,
         ExecutePullExact, ExecuteIndex
<1>3. /\ UNCHANGED groups
      /\ \A x \in users : x.name = hash_name(u) \/ x \in users'
  BY <1>1, <1>2 DEF ExecuteDelete
<1>4. ASSUME NEW d \in groups, NEW e \in Range(d.users) PROVE Known(e, d)'
  <2>1. PICK v \in User : /\ e.name = salted_hash_name(v, decrypt_data(d.encname))
                          /\ Registered(v, e.key)
    BY DEF Members, Known
  <2>2. v # u
    BY <1>1, <2>1 DEF Out, HasUser
  <2>3. Registered(v, e.key)'
    BY <1>3, <2>1, <2>2 DEF Registered, hash_name
  <2> QED BY <2>1, <2>3 DEF Known
<1> QED BY <1>3, <1>4 DEF Members

LEMMA LateKeepsMembers ==
    ASSUME IInv, Members, LateOK(inflight), NEW cmd \in inflight, Deliver(cmd)
    PROVE  Members' /\ LateOK(inflight)'
<1>1. PICK n \in {0, 1} : Execute(cmd, n)
  BY DEF Deliver
<1>2. inflight' \subseteq inflight
  BY DEF Deliver
<1>3. CASE \A x \in inflight : Harmless(x)
  <2>1. Members' /\ users \subseteq users'
    BY <1>1, <1>3, HarmlessExecuted
  <2>2. \A x \in inflight : Harmless(x)'
    BY <1>3, <2>1, HarmlessStays
  <2> QED BY <1>2, <2>1, <2>2 DEF LateOK
<1>4. CASE \A x \in inflight : Departure(x)
  <2>1. Members' /\ UNCHANGED groups
    BY <1>1, <1>4, DepartureExecuted
  <2>2. \A x \in inflight : Departure(x)'
    BY <1>4, <2>1 DEF Departure, Out
  <2> QED BY <1>2, <2>1, <2>2 DEF LateOK
<1> QED BY <1>3, <1>4 DEF LateOK

\* What a run that is alone was about to send, or had just sent.
LEMMA PendingLate ==
    ASSUME IInv, NEW c \in Client, pc[c] \notin Idle, Members, SoloOK(c),
           DeletionOK(c), pc[c] \notin {"delete_users", "delete_groups"}
    PROVE  LateOK(Pending(c))
<1>1. CASE pc[c] = "insert_group"
  <2> DEFINE cmd == insert_group_command(c)
             doc == NewGroupDoc(call[c].group,
                                encrypt_data(call[c].group, nonce(c)), new_entry(c))
  <2>1. Pending(c) = {cmd}
    BY <1>1 DEF Pending
  <2>2. cmd.kind = "insert_group" /\ cmd.doc = doc
    BY DEF insert_group_command
  <2>3. /\ doc.name = hash_name(call[c].group) /\ Range(doc.users) = {new_entry(c)}
        /\ decrypt_data(doc.encname) = call[c].group
    BY OneEntry DEF NewGroupDoc, decrypt_data, encrypt_data
  <2> HIDE DEF cmd, doc
  <2>4. call[c].user \in User
    BY <1>1, CallOfStage
  <2>5. Known(new_entry(c), doc)
    BY <1>1, <2>3, <2>4 DEF SoloOK, Known, new_entry, user_name
  <2>6. Harmless(cmd)
    BY <2>2, <2>3, <2>5 DEF Harmless
  <2> QED BY <2>1, <2>6 DEF LateOK
<1>2. CASE pc[c] = "add_update"
  <2>1. Pending(c) = {push_command(c, d) : d \in loc[c].held}
    BY <1>2 DEF Pending
  <2>2. call[c].user \in User /\ new_entry(c) \in Entry
    BY <1>2, CallOfStage, EntryOK
  <2>3. ASSUME NEW d, group_name(c) = hash_name(decrypt_data(d.encname))
        PROVE  Known(new_entry(c), d)
    BY <1>2, <2>2, <2>3
       DEF SoloOK, Known, new_entry, user_name, group_name, hash_name
  <2>4. ASSUME NEW h PROVE Harmless(push_command(c, h))
    <3> DEFINE cmd == push_command(c, h)
    <3>1. /\ cmd.kind = "push" /\ cmd.name = group_name(c)
          /\ cmd.entry = new_entry(c)
      BY DEF push_command
    <3> HIDE DEF cmd
    <3>2. Harmless(cmd)
      BY <2>2, <2>3, <3>1 DEF Harmless
    <3> QED BY <3>2 DEF cmd
  <2> QED BY <2>1, <2>4 DEF LateOK
<1>3. CASE pc[c] = "delete_user"
  <2>1. Pending(c) = {delete_user_command(c)} /\ call[c].user \in User
    BY <1>3, CallOfStage DEF Pending
  <2>2. Departure(delete_user_command(c))
    BY <1>3, <2>1 DEF delete_user_command, Departure, DeletionOK, Lacks, Out
  <2> QED BY <2>1, <2>2 DEF LateOK
<1>4. CASE pc[c] \notin {"insert_group", "add_update", "delete_user"}
  <2>1. \A cmd \in Pending(c) :
          cmd.kind \in {"insert_user", "pull", "pull_exact", "create_index"}
    BY <1>4 DEF Pending, insert_user_command, pull_command, bulk_command
  <2> QED BY <2>1 DEF LateOK, Harmless
<1> QED BY <1>1, <1>2, <1>3, <1>4

LEMMA CrashKeepsMembers ==
    ASSUME IInv, DInv, LInv, Places, NEW c \in Client, CrashRun(c), Cut(c)'
    PROVE  Members' /\ LateOK(inflight)'
<1>1. /\ faults' = faults + 1 /\ faults \in Nat /\ Going(c)
      /\ UNCHANGED <<users, groups, line>> /\ pc[c] \notin Idle
      /\ \E sent \in {{}, Pending(c)} : inflight' = inflight \cup sent
  BY MongoConstants DEF CrashRun, Crash, Fault, IInv, CountersOK
<1>2. faults = 0 /\ line[c] > 1 /\ \A o \in Client \ {c} : line[o] = 0
  BY <1>1 DEF Cut
<1>3. Solo(c)
  BY <1>2 DEF Solo, Places, PlaceOK
<1>4. pc[c] \notin {"delete_users", "delete_groups"}
  <2>1. line[c] \in 2 .. Last /\ call[c] = Script[line[c]].call
    BY <1>1, <1>2, ScriptFacts DEF Places, PlaceOK, Going, Over, Returned
  <2>2. call[c].op # "delete_all_data"
    BY <2>1, EmptiesFirst
  <2>3. pc[c] \in Stages(call[c].op) /\ call[c].op \in AllOps
    BY <1>1, CallOfStage DEF IInv, CountersOK, Calls, AllOps, GroupUserOps
  <2> QED BY <2>2, <2>3 DEF Stages, AllOps, GroupUserOps
<1>5. SoloOK(c) /\ DeletionOK(c) /\ inflight = {}
  BY <1>2, <1>3 DEF LInv, DInv, SoloOK
<1>6. Members
  BY <1>4, <1>5 DEF SoloOK
<1>7. LateOK(Pending(c))
  BY <1>1, <1>4, <1>5, <1>6, PendingLate
<1>8. LateOK(inflight')
  <2>1. inflight' \in {{}, Pending(c)}
    BY <1>1, <1>5
  <2>2. LateOK({})
    BY DEF LateOK
  <2> QED BY <1>7, <2>1, <2>2
<1>9. LateOK(inflight)'
  <2>1. CASE \A cmd \in inflight' : Harmless(cmd)
    <3>1. \A cmd \in inflight' : Harmless(cmd)'
      BY <1>1, <2>1, HarmlessStays
    <3> QED BY <3>1 DEF LateOK
  <2>2. CASE \A cmd \in inflight' : Departure(cmd)
    <3>1. \A cmd \in inflight' : Departure(cmd)'
      BY <1>1, <2>2 DEF Departure, Out
    <3> QED BY <3>1 DEF LateOK
  <2> QED BY <1>8, <2>1, <2>2 DEF LateOK
<1> QED BY <1>1, <1>6, <1>9, SameMembers

LEMMA NextKeepsCut ==
    ASSUME IInv, DInv, LInv, Places, CutInv, [SampleNext]_sampleVars
    PROVE  CutInv'
<1> SUFFICES ASSUME NEW c \in Client, Cut(c)' PROVE Members' /\ LateOK(inflight)'
  BY DEF CutInv
<1>1. ASSUME UNCHANGED <<users, groups, inflight, pc, line, faults>>
      PROVE  Members' /\ LateOK(inflight)'
  <2>1. Members /\ LateOK(inflight)
    BY <1>1 DEF CutInv, Cut
  <2>2. \A cmd : (Harmless(cmd) => Harmless(cmd)') /\ (Departure(cmd) => Departure(cmd)')
    BY <1>1, HarmlessStays DEF Departure, Out
  <2> QED BY <1>1, <2>1, <2>2, SameMembers DEF LateOK
<1>2. ASSUME NEW x \in Client, Begin(x) PROVE FALSE
  <2>1. pc'[x] \notin Idle /\ line'[x] = 1
    BY <1>2, InvokeEffect DEF Begin, CallOf, Places
  <2> QED BY <2>1 DEF Cut, Idle
<1>3. ASSUME NEW x \in Client, Going(x), UNCHANGED line \/ Proceed(x)
      PROVE  x = c
  <2>1. line'[x] # 0
    BY <1>3, JumpInside DEF Proceed, Going, Places
  <2> QED BY <2>1 DEF Cut
<1>4. ASSUME NEW x \in Client, Proceed(x) PROVE FALSE
  <2>1. x = c /\ pc[x] = "idle"
    BY <1>3, <1>4 DEF Proceed
  <2>2. pc'[x] # "crashed"
    BY <1>4, <2>1, InvokeEffect DEF Proceed, CallOf, Idle, vars
  <2> QED BY <2>1, <2>2 DEF Cut
<1>5. ASSUME NEW x \in Client, Terminate(x) PROVE Members' /\ LateOK(inflight)'
  BY <1>1, <1>5 DEF Terminate, vars
<1>6. ASSUME NEW x \in Client, RoundTrip(x) PROVE FALSE
  <2>1. Going(x) /\ UNCHANGED line /\ Step(x)
    BY <1>6, StepBusy DEF RoundTrip, Places, PlaceOK
  <2>2. pc'[x] # "crashed"
    BY <2>1, StepShape, GotoEffect DEF ReturnKeys, IInv, ClientsOK, Idle
  <2> QED BY <1>3, <2>1, <2>2 DEF Cut
<1>7. ASSUME NEW x \in Client, CrashRun(x) PROVE Members' /\ LateOK(inflight)'
  <2>1. x = c
    BY <1>3, <1>7 DEF CrashRun
  <2> QED BY <1>7, <2>1, CrashKeepsMembers
<1>8. ASSUME NEW cmd \in inflight, LateCommand(cmd)
      PROVE  Members' /\ LateOK(inflight)'
  <2>1. Deliver(cmd) /\ UNCHANGED <<pc, line, faults>>
    BY <1>8 DEF LateCommand, Deliver
  <2>2. Members /\ LateOK(inflight)
    BY <2>1 DEF CutInv, Cut
  <2> QED BY <1>8, <2>1, <2>2, LateKeepsMembers
<1>9. UNCHANGED sampleVars => Members' /\ LateOK(inflight)'
  BY <1>1 DEF sampleVars, vars
<1> QED BY <1>2, <1>4, <1>5, <1>6, <1>7, <1>8, <1>9 DEF SampleNext, AllOver

\* A run that ends in the middle of its script, before anything else failed,
\* leaves no member of a group who is not a registered user, whatever the
\* database held before, however many faults come after, and whether the commands
\* it had sent are executed or not.
THEOREM CutRunLeavesNoOrphan == SampleSpec => []CrashLeavesNoOrphan
<1>1. SampleInit => CutInv
  BY DEF SampleInit, Init, CutInv, Cut
<1>2. IInv /\ DInv /\ LInv /\ Places /\ CutInv /\ [SampleNext]_sampleVars => CutInv'
  BY NextKeepsCut
<1>3. CutInv => CrashLeavesNoOrphan
  <2> SUFFICES ASSUME NEW c \in Client, CutInv, Cut(c)
               PROVE  \A d \in groups : \A e \in Range(d.users) : Known(e, d)
    BY DEF CrashLeavesNoOrphan, Cut, Known, Registered
  <2> QED BY DEF CutInv, Members
<1> QED BY <1>1, <1>2, <1>3, SampleIsMongo, RunsTakeTurns, InductiveInvariant,
           DeletionFollowed, OneCaller, PTL DEF SampleSpec

-----------------------------------------------------------------------------
(* A run without failures *)

\* It began without commands of earlier runs on their way, and none of its round
\* trips fails: then it does what its script says, from whatever the database
\* holds, and returns with the outcomes the program prints as "OK".  The run is
\* alone while it goes on, so the invariant says what is stored after each
\* statement, and how far the call it is in has come.

Stored(u)     == \E x \in users : x.name = hash_name(u)
Exists(g)     == \E d \in groups : d.name = hash_name(g)
InGroup(u, g) == \E d \in groups : /\ d.name = hash_name(g)
                                   /\ HasUser(d, salted_hash_name(u, g))

\* The statements done, and whether one is among the first n.
done(c)     == IF pc[c] = "idle" THEN line[c] ELSE line[c] - 1
Among(s, n) == \E i \in 1 .. n : Script[i] = s

\* The users that are stored after n statements.
UsersAfter(n) ==
    /\ n \in {1, 2} => users = {}
    /\ n = 3 => \A x \in users : x.name = hash_name("user1")
    /\ n >= 1 => \A x \in users : decrypt_data(x.key) = SampleKey
    /\ n >= 3 /\ ~Among(Deletion, n) => Stored("user1")
    /\ n >= 4 /\ ~Among(Deletion, n) => Stored("user2")

\* user1 is in group1 or group2, user2 only in group2, with the key they have.
MemberOK(e, g) ==
    /\ \/ e.name = salted_hash_name("user1", g)
       \/ g = "group2" /\ e.name = salted_hash_name("user2", g)
    /\ decrypt_data(e.key) = SampleKey

GroupOK(d) ==
    /\ d.name = hash_name(decrypt_data(d.encname))
    /\ decrypt_data(d.encname) \in {"group1", "group2"}
    /\ \A e \in Range(d.users) : MemberOK(e, decrypt_data(d.encname))

GroupsAfter(n) ==
    /\ n \in 1 .. 8 => groups = {}
    /\ n >= 1 => \A d \in groups : GroupOK(d)
    /\ n >= 9 => Exists("group1")
    /\ Among(SecondGroup, n) => InGroup("user2", "group2")
    /\ Among(Deletion, n) => Out("user1")

IndexesAfter(n) == n >= 2 => indexed = Collection

\* A turn of a retry loop is the first, or the document is as it should be.
Turn(c, Matches(_, _, _), find, update) ==
    /\ pc[c] = find => \/ loc[c].attempts = MaxAttempts
                       \/ \A d \in groups : ~Matches(d, group_name(c), user_name(c))
    /\ pc[c] = update =>
         /\ loc[c].attempts = MaxAttempts
         /\ \E d \in groups : loc[c].held = {d} /\ Matches(d, group_name(c), user_name(c))

\* How far the call of the statement has come.
CallOK(c) ==
    /\ pc[c] = "delete_groups" => users = {}
    /\ pc[c] = "index_groups" => "users" \in indexed
    /\ pc[c] \in {"reencrypt", "insert_group"} => loc[c].attempts = MaxAttempts
    /\ pc[c] \in {"insert_group", "add_find", "add_update"} =>
         decrypt_data(loc[c].key) = SampleKey
    /\ pc[c] \in {"add_find", "add_update"} /\ call[c].op = "create_group" =>
         Exists(call[c].group)
    /\ Turn(c, AddMatches, "add_find", "add_update")
    /\ Turn(c, RemoveMatches, "remove_find", "remove_update")
    /\ DeletionOK(c)

\* What the call of the statement returned or threw.
ResultOK(c) ==
    pc[c] = "idle" =>
      /\ line[c] \in {3, 4} => result[c].status = "ok"
      /\ Script[line[c]] = UserAgain => result[c].status = "duplicate"
      /\ Script[line[c]].skip = 0 => ~Threw(c)

RunOK(c) ==
    /\ inflight = {}
    /\ UsersAfter(done(c)) /\ GroupsAfter(done(c)) /\ IndexesAfter(done(c))
    /\ CallOK(c) /\ ResultOK(c)

\* The inductive invariant, on top of IInv, DInv and Places.
RunsInv ==
    /\ IndexesOK
    /\ \A c \in Client : pc[c] = "idle" => loc[c] = Fresh
    /\ clean \subseteq Client
    /\ \A c \in clean : c \notin aborted /\ (Going(c) => RunOK(c))

-----------------------------------------------------------------------------
(* Which statement a call is, and what came before it *)

LEMMA StatementOf ==
    ASSUME NEW n \in 1 .. Last
    PROVE  LET op == Script[n].call.op
           IN  /\ op = "delete_all_data" => n = 1
               /\ op = "init_indexes" => n = 2
               /\ op = "create_user" =>
                    \/ n = 3 /\ Script[n] = FirstUser
                    \/ n = 4 /\ Script[n] = SecondUser
                    \/ n \in 10 .. Last /\ Script[n] = UserAgain
               /\ op = "create_group" =>
                    /\ n \in 9 .. Last
                    /\ Script[n] \in Joining \cup {SecondGroup}
               /\ op = "add_user_to_group" => n \in 10 .. Last /\ Script[n] \in Joining
               /\ op = "remove_user_from_group" => n \in 10 .. Last /\ Script[n] = Leaving
               /\ op = "get_keys_of_group" => n \in 10 .. Last /\ Script[n] = Reading
               /\ op = "delete_user" => n \in 10 .. Last /\ Script[n] = Deletion
               /\ op = "is_user_part_of_group" =>
                    n \in (5 .. 8) \cup (10 .. Last) /\ Script[n] \in Asking
               /\ op # "ping"
<1>1. CASE n \in 1 .. 4
  BY <1>1, ScriptFacts DEF Emptying, Indexing, FirstUser, SecondUser, CreateUser
<1>2. CASE n \in 5 .. 8
  BY <1>2, ScriptFacts DEF Asking, OnGroup
<1>3. CASE n = 9
  <2>1. FirstGroup \in Joining
    BY DEF FirstGroup, Joining
  <2> QED BY <1>3, <2>1, ScriptFacts DEF FirstGroup, OnGroup
<1>4. CASE n \in 10 .. Last
  <2>1. Script[n] \in Early \cup {Deletion}
    BY <1>4, ScriptFacts
  <2> QED BY <1>4, <2>1 DEF Early, Asking, Joining, SecondGroup, UserAgain,
                            Reading, Leaving, Deletion, OnGroup, CreateUser
<1> QED BY <1>1, <1>2, <1>3, <1>4, ScriptFacts

LEMMA AmongNext ==
    ASSUME NEW n \in 1 .. Last, NEW s
    PROVE  Among(s, n) <=> Among(s, n - 1) \/ Script[n] = s
<1>1. \A i : i \in 1 .. n <=> i \in 1 .. n - 1 \/ i = n
  BY ScriptFacts
<1> QED BY <1>1 DEF Among

\* Until user1 is deleted, it is not.
LEMMA NotDeleted ==
    ASSUME NEW n \in 1 .. Last, Script[n] \notin Asking
    PROVE  ~Among(Deletion, n - 1)
<1> SUFFICES ASSUME NEW i \in 1 .. n - 1, Script[i] = Deletion PROVE FALSE
  BY DEF Among
<1>1. i \in 1 .. Last /\ i < n
  BY ScriptFacts
<1> QED BY <1>1, ScriptFacts

-----------------------------------------------------------------------------
(* From one statement to the next *)

After(n) == UsersAfter(n) /\ GroupsAfter(n) /\ IndexesAfter(n)

\* Run c, whose round trips succeed, does one of the call of statement n.
Running(c, n) ==
    /\ IInv /\ IndexesOK
    /\ n \in 1 .. Last /\ line[c] = n /\ call[c] = Script[n].call
    /\ inflight = {} /\ After(n - 1) /\ CallOK(c)
    /\ pc[c] = "scan_open" => loc[c].held = {}
    /\ Step(c) /\ ~Fault /\ UNCHANGED line

LEMMA SameAfter == ASSUME NEW n, After(n), UNCHANGED data PROVE After(n)'
BY DEF After, UsersAfter, GroupsAfter, IndexesAfter, data, Stored, Exists,
       InGroup, Out, Among, GroupOK, MemberOK

LEMMA RunGoesOn ==
    ASSUME NEW c \in Client, NEW n, Running(c, n), pc'[c] \notin Idle,
           After(n - 1)', CallOK(c)'
    PROVE  RunOK(c)'
<1>1. inflight' = {}
  BY NothingInflight DEF Running
<1>2. done(c)' = n - 1
  BY DEF done, Running, Idle
<1>3. /\ UsersAfter(done(c))' /\ GroupsAfter(done(c))' /\ IndexesAfter(done(c))'
  BY <1>2 DEF After, UsersAfter, GroupsAfter, IndexesAfter, Among
<1> QED BY <1>1, <1>3 DEF RunOK, ResultOK, Idle

LEMMA RunStops ==
    ASSUME NEW c \in Client, NEW n, Running(c, n), pc'[c] = "idle", After(n)',
           ResultOK(c)'
    PROVE  RunOK(c)'
<1>1. inflight' = {}
  BY NothingInflight DEF Running
<1>2. done(c)' = n
  BY DEF done, Running, Idle
<1>3. /\ UsersAfter(done(c))' /\ GroupsAfter(done(c))' /\ IndexesAfter(done(c))'
  BY <1>2 DEF After, UsersAfter, GroupsAfter, IndexesAfter, Among
<1>4. CallOK(c)'
  BY DEF CallOK, Turn, DeletionOK
<1> QED BY <1>1, <1>3, <1>4 DEF RunOK

\* What a statement after the setup must have done, the others still hold.
LEMMA AfterNext ==
    ASSUME NEW n \in (5 .. 8) \cup (10 .. Last), After(n - 1)',
           Script[n] = SecondGroup => InGroup("user2", "group2")',
           Script[n] = Deletion => Out("user1")'
    PROVE  After(n)'
<1>1. n \in 1 .. Last /\ n - 1 >= 4
  BY ScriptFacts
<1>2. \A s : Among(s, n) <=> Among(s, n - 1) \/ Script[n] = s
  BY <1>1, AmongNext
<1>3. UsersAfter(n)'
  BY <1>1, <1>2 DEF After, UsersAfter
<1>4. GroupsAfter(n)'
  BY <1>1, <1>2 DEF After, GroupsAfter
<1>5. IndexesAfter(n)'
  BY <1>1 DEF After, IndexesAfter
<1> QED BY <1>3, <1>4, <1>5 DEF After

\* A statement after the setup that did not throw.
LEMMA RunEnds ==
    ASSUME NEW c \in Client, NEW n \in (5 .. 8) \cup (10 .. Last), Running(c, n),
           pc'[c] = "idle", After(n - 1)',
           Script[n] = SecondGroup => InGroup("user2", "group2")',
           Script[n] = Deletion => Out("user1")',
           Script[n] # UserAgain,
           result'[c].status \in {"ok", "member", "not_member"}
    PROVE  RunOK(c)'
<1>1. ResultOK(c)'
  BY DEF ResultOK, Running, Threw
<1> QED BY <1>1, AfterNext, RunStops

\* The statement a round trip belongs to.
LEMMA RunStage ==
    ASSUME NEW c \in Client, NEW n, Running(c, n)
    PROVE  /\ pc[c] \in {"delete_users", "delete_groups"} => n = 1
           /\ pc[c] \in {"index_users", "index_groups"} => n = 2
           /\ pc[c] = "create_user" =>
                Script[n].call.op = "create_user"
           /\ pc[c] \in {"reencrypt", "add_find", "add_update"} =>
                Script[n].call.op \in {"create_group", "add_user_to_group"}
           /\ pc[c] = "insert_group" => Script[n].call.op = "create_group"
           /\ pc[c] \in {"remove_find", "remove_update"} =>
                n \in 10 .. Last /\ Script[n] = Leaving
           /\ pc[c] \in {"scan_open", "scan", "bulk", "delete_user"} =>
                n \in 10 .. Last /\ Script[n] = Deletion
           /\ pc[c] = "is_member" =>
                n \in (5 .. 8) \cup (10 .. Last) /\ Script[n] \in Asking
           /\ pc[c] = "get_keys" => n \in 10 .. Last /\ Script[n] = Reading
           /\ pc[c] # "ping"
<1>1. pc[c] \notin Idle /\ IInv /\ n \in 1 .. Last /\ call[c] = Script[n].call
  BY StepBusy DEF Running
<1>2. pc[c] \in Stages(call[c].op) /\ call[c].op \in AllOps
  BY <1>1, CallOfStage DEF IInv, CountersOK, Calls, AllOps, GroupUserOps
<1> QED BY <1>1, <1>2, StatementOf DEF Stages, AllOps, GroupUserOps

\* A run whose round trips succeed is answered.
LEMMA RunAnswered ==
    ASSUME NEW c, NEW n, Running(c, n)
    PROVE  ~Unread /\ \A cmds : ~Unanswered(c, cmds)
BY DEF Running, Unread, Unanswered

LEMMA ExecuteKind ==
    ASSUME NEW cmd, NEW n, Answered(cmd, n)
    PROVE  /\ cmd.kind \in {"insert_user", "insert_group"} => ExecuteInsert(cmd, n)
           /\ cmd.kind = "push" => ExecutePush(cmd, n)
           /\ cmd.kind = "pull" => ExecutePull(cmd, n)
           /\ cmd.kind = "pull_exact" => ExecutePullExact(cmd, n)
           /\ cmd.kind \in {"delete_user", "delete_users", "delete_groups"} =>
                ExecuteDelete(cmd, n)
           /\ cmd.kind = "create_index" => ExecuteIndex(cmd, n)
BY DEF Answered, Execute, ExecuteInsert, ExecutePush, ExecutePull,
       ExecutePullExact, ExecuteDelete, ExecuteIndex

-----------------------------------------------------------------------------
(* The setup: what there was is deleted, and two users are created         *)

LEMMA DeleteUsersRun ==
    ASSUME NEW c \in Client, NEW n, Running(c, n), delete_all_users(c)
    PROVE  RunOK(c)'
<1> DEFINE cmd == [kind |-> "delete_users"]
<1>1. n = 1
  BY RunStage DEF delete_all_users
<1>2. Answered(cmd, 1) /\ Goto(c, "delete_groups", loc[c])
  BY RunAnswered DEF delete_all_users
<1>3. cmd.kind = "delete_users"
  OBVIOUS
<1> HIDE DEF cmd
<1>4. users' = {}
  BY <1>2, <1>3, ExecuteKind DEF ExecuteDelete
<1>5. pc'[c] = "delete_groups"
  BY <1>2, GotoEffect DEF Running
<1>6. After(n - 1)'
  BY <1>1 DEF After, UsersAfter, GroupsAfter, IndexesAfter, Among
<1>7. CallOK(c)'
  BY <1>4, <1>5 DEF CallOK, Turn, DeletionOK
<1> QED BY <1>5, <1>6, <1>7, RunGoesOn DEF Idle

LEMMA DeleteGroupsRun ==
    ASSUME NEW c \in Client, NEW n, Running(c, n), delete_all_groups(c)
    PROVE  RunOK(c)'
<1> DEFINE cmd == [kind |-> "delete_groups"]
<1>1. n = 1 /\ users = {}
  BY RunStage DEF delete_all_groups, Running, CallOK
<1>2. Answered(cmd, 1) /\ Return(c, "ok")
  BY RunAnswered DEF delete_all_groups
<1>3. cmd.kind = "delete_groups"
  OBVIOUS
<1> HIDE DEF cmd
<1>4. users' = {} /\ groups' = {}
  BY <1>1, <1>2, <1>3, ExecuteKind DEF ExecuteDelete
<1>5. pc'[c] = "idle" /\ result'[c].status = "ok"
  BY <1>2, ReturnEffect DEF Running
<1>6. After(1)'
  <2>1. ~Among(SecondGroup, 1) /\ ~Among(Deletion, 1)
    BY ScriptFacts DEF Among, Emptying, SecondGroup, Deletion, OnGroup
  <2> QED BY <1>4, <2>1 DEF After, UsersAfter, GroupsAfter, IndexesAfter
<1>7. ResultOK(c)'
  BY <1>1, <1>5, ScriptFacts
     DEF ResultOK, Running, Threw, Emptying, UserAgain, CreateUser
<1> QED BY <1>1, <1>5, <1>6, <1>7, RunStops

LEMMA IndexUsersRun ==
    ASSUME NEW c \in Client, NEW n, Running(c, n), init_users_index(c)
    PROVE  RunOK(c)'
<1> DEFINE cmd == [kind |-> "create_index", on |-> "users"]
<1>1. n = 2 /\ users = {}
  BY RunStage DEF init_users_index, Running, After, UsersAfter
<1>2. cmd.kind = "create_index" /\ cmd.on = "users"
  OBVIOUS
<1>3. /\ \/ Answered(cmd, 1) /\ Goto(c, "index_groups", loc[c])
         \/ Answered(cmd, 0)
  BY RunAnswered DEF init_users_index
<1> HIDE DEF cmd
<1>4. /\ Answered(cmd, 1) /\ Goto(c, "index_groups", loc[c])
      /\ UNCHANGED <<users, groups>> /\ indexed' = indexed \cup {"users"}
  BY <1>1, <1>2, <1>3, ExecuteKind DEF ExecuteIndex, Unique
<1>5. pc'[c] = "index_groups"
  BY <1>4, GotoEffect DEF Running
<1>6. After(n - 1)'
  BY <1>1, <1>4 DEF Running, After, UsersAfter, GroupsAfter, IndexesAfter, Stored,
     Exists, InGroup, Out, Among, GroupOK, MemberOK
<1>7. CallOK(c)'
  BY <1>4, <1>5 DEF CallOK, Turn, DeletionOK
<1> QED BY <1>5, <1>6, <1>7, RunGoesOn DEF Idle

LEMMA IndexGroupsRun ==
    ASSUME NEW c \in Client, NEW n, Running(c, n), init_groups_index(c)
    PROVE  RunOK(c)'
<1> DEFINE cmd == [kind |-> "create_index", on |-> "groups"]
<1>1. n = 2 /\ users = {} /\ groups = {} /\ "users" \in indexed
  BY RunStage
     DEF init_groups_index, Running, After, UsersAfter, GroupsAfter, CallOK
<1>2. cmd.kind = "create_index" /\ cmd.on = "groups"
  OBVIOUS
<1>3. /\ \/ Answered(cmd, 1) /\ Return(c, "ok")
         \/ Answered(cmd, 0)
  BY RunAnswered DEF init_groups_index
<1> HIDE DEF cmd
<1>4. /\ Answered(cmd, 1) /\ Return(c, "ok")
      /\ UNCHANGED <<users, groups>> /\ indexed' = indexed \cup {"groups"}
  BY <1>1, <1>2, <1>3, ExecuteKind DEF ExecuteIndex, Unique
<1>5. pc'[c] = "idle" /\ result'[c].status = "ok"
  BY <1>4, ReturnEffect DEF Running
<1>6. After(2)'
  <2>1. ~Among(SecondGroup, 2) /\ ~Among(Deletion, 2)
    BY ScriptFacts DEF Among, Emptying, Indexing, SecondGroup, Deletion, OnGroup
  <2>2. indexed' = Collection
    BY <1>1, <1>4 DEF Running, IInv, DataOK, Collection
  <2> QED BY <1>1, <1>4, <2>1, <2>2 DEF After, UsersAfter, GroupsAfter, IndexesAfter
<1>7. ResultOK(c)'
  BY <1>1, <1>5, ScriptFacts
     DEF ResultOK, Running, Threw, Indexing, UserAgain, CreateUser
<1> QED BY <1>1, <1>5, <1>6, <1>7, RunStops

\* What create_user does depends on whether the index admits the user.
LEMMA CreateUserEffect ==
    ASSUME NEW c \in Client, NEW n, Running(c, n), create_user(c), NEW u,
           Script[n].call = CreateUser(u)
    PROVE  /\ UNCHANGED <<groups, indexed>> /\ pc'[c] = "idle"
           /\ \/ /\ "users" \in indexed => ~Stored(u)
                 /\ result'[c].status = "ok"
                 /\ \E d : /\ users' = users \cup {d} /\ d.name = hash_name(u)
                           /\ decrypt_data(d.key) = SampleKey
              \/ /\ Stored(u)
                 /\ result'[c].status = "duplicate" /\ UNCHANGED users
<1> DEFINE doc == NewUserDoc(call[c].user, encrypt_data(call[c].key, nonce(c)))
           cmd == insert_user_command(c)
<1>1. cmd.kind = "insert_user" /\ cmd.doc = doc
  BY DEF insert_user_command
<1>2. doc.name = hash_name(u) /\ decrypt_data(doc.key) = SampleKey
  BY DEF Running, CreateUser, NewUserDoc, encrypt_data, decrypt_data
<1>3. \/ Answered(cmd, 1) /\ Return(c, "ok")
      \/ Answered(cmd, 0) /\ Return(c, "duplicate")
  BY RunAnswered DEF create_user
<1> HIDE DEF cmd, doc
<1>4. Admits("users", users, doc) <=> ("users" \in indexed => ~Stored(u))
  BY <1>2 DEF Admits, Stored
<1>5. CASE Answered(cmd, 1) /\ Return(c, "ok")
  <2>1. /\ UNCHANGED <<groups, indexed>> /\ users' = users \cup {doc}
        /\ Admits("users", users, doc)
    BY <1>1, <1>5, ExecuteKind DEF ExecuteInsert
  <2> QED BY <1>2, <1>4, <1>5, <2>1, ReturnEffect DEF Running
<1>6. CASE Answered(cmd, 0) /\ Return(c, "duplicate")
  <2>1. /\ UNCHANGED <<groups, indexed, users>> /\ ~Admits("users", users, doc)
    BY <1>1, <1>6, ExecuteKind DEF ExecuteInsert
  <2> QED BY <1>4, <1>6, <2>1, ReturnEffect DEF Running
<1> QED BY <1>3, <1>5, <1>6

LEMMA SetupScript ==
    ASSUME NEW n \in 1 .. 4
    PROVE  ~Among(SecondGroup, n) /\ ~Among(Deletion, n)
BY ScriptFacts DEF Among, Emptying, Indexing, FirstUser, SecondUser, CreateUser,
                   SecondGroup, Deletion, OnGroup

LEMMA CreateUserRun ==
    ASSUME NEW c \in Client, NEW n, Running(c, n), create_user(c)
    PROVE  RunOK(c)'
<1>1. \/ n = 3 /\ Script[n] = FirstUser
      \/ n = 4 /\ Script[n] = SecondUser
      \/ n \in 10 .. Last /\ Script[n] = UserAgain
  BY RunStage, StatementOf DEF Running, create_user
<1>2. CASE n = 3 /\ Script[n] = FirstUser
  <2>1. Script[n].call = CreateUser("user1") /\ users = {} /\ groups = {}
    BY <1>2 DEF FirstUser, Running, After, UsersAfter, GroupsAfter
  <2>2. /\ UNCHANGED <<groups, indexed>> /\ pc'[c] = "idle"
        /\ result'[c].status = "ok"
        /\ \E d : /\ users' = {d} /\ d.name = hash_name("user1")
                  /\ decrypt_data(d.key) = SampleKey
    BY <2>1, CreateUserEffect DEF Stored
  <2>3. After(3)'
    BY <1>2, <2>1, <2>2, SetupScript DEF Running, After, UsersAfter, GroupsAfter,
       IndexesAfter, Stored
  <2>4. ResultOK(c)'
    BY <1>2, <2>2 DEF ResultOK, Running, Threw, FirstUser, UserAgain
  <2> QED BY <1>2, <2>2, <2>3, <2>4, RunStops
<1>3. CASE n = 4 /\ Script[n] = SecondUser
  <2>1. /\ Script[n].call = CreateUser("user2") /\ groups = {}
        /\ \A x \in users : x.name = hash_name("user1")
        /\ Stored("user1") /\ indexed = Collection
        /\ \A x \in users : decrypt_data(x.key) = SampleKey
    BY <1>3, SetupScript
       DEF SecondUser, Running, After, UsersAfter, GroupsAfter, IndexesAfter
  <2>2. ~Stored("user2")
    BY <2>1 DEF Stored, hash_name
  <2>3. /\ UNCHANGED <<groups, indexed>> /\ pc'[c] = "idle"
        /\ result'[c].status = "ok"
        /\ \E d : /\ users' = users \cup {d} /\ d.name = hash_name("user2")
                  /\ decrypt_data(d.key) = SampleKey
    BY <2>1, <2>2, CreateUserEffect
  <2>4. After(4)'
    BY <2>1, <2>3, SetupScript DEF After, UsersAfter, GroupsAfter, IndexesAfter, Stored
  <2>5. ResultOK(c)'
    BY <1>3, <2>3 DEF ResultOK, Running, Threw, SecondUser, UserAgain, CreateUser
  <2> QED BY <1>3, <2>3, <2>4, <2>5, RunStops
<1>4. CASE n \in 10 .. Last /\ Script[n] = UserAgain
  <2>1. Script[n] \notin Asking /\ Script[n] # SecondGroup /\ Script[n] # Deletion
    BY <1>4 DEF UserAgain, Asking, SecondGroup, Deletion, OnGroup, CreateUser
  <2>2. Stored("user1") /\ indexed = Collection
    BY <1>4, <2>1, NotDeleted DEF Running, After, UsersAfter, IndexesAfter
  <2>3. UNCHANGED data /\ pc'[c] = "idle" /\ result'[c].status = "duplicate"
    BY <1>4, <2>2, CreateUserEffect DEF UserAgain, data, Collection
  <2>4. After(n - 1)'
    BY <2>3, SameAfter DEF Running
  <2>5. After(n)'
    BY <1>4, <2>1, <2>4, AfterNext
  <2>6. ResultOK(c)'
    BY <1>4, <2>3 DEF ResultOK, Running, UserAgain
  <2> QED BY <2>3, <2>5, <2>6, RunStops
<1> QED BY <1>1, <1>2, <1>3, <1>4

-----------------------------------------------------------------------------
(* The round trips that read *)

\* Who is added or put into a new group is a user who is stored.
LEMMA JoinStatement ==
    ASSUME NEW c \in Client, NEW n, Running(c, n),
           Script[n].call.op \in {"create_group", "add_user_to_group"}
    PROVE  /\ n \in 9 .. Last /\ ~Among(Deletion, n - 1) /\ Script[n] # Deletion
           /\ Script[n] # UserAgain
           /\ call[c].group \in {"group1", "group2"}
           /\ \/ call[c].user = "user1"
              \/ call[c].user = "user2" /\ call[c].group = "group2"
           /\ Script[n] = SecondGroup => call[c].user = "user2" /\ call[c].group = "group2"
           /\ n = 9 => call[c].op = "create_group" /\ call[c].group = "group1"
           /\ indexed = Collection
<1>1. /\ n \in 9 .. Last /\ n \in 1 .. Last
      /\ Script[n] \in Joining \cup {SecondGroup} /\ call[c] = Script[n].call
  BY ScriptFacts, StatementOf DEF Running
<1>2. Script[n] \notin Asking /\ Script[n] # Deletion /\ Script[n] # UserAgain
  BY <1>1 DEF Asking, Deletion, OnGroup, UserAgain, CreateUser
<1>3. indexed = Collection
  BY <1>1 DEF Running, After, IndexesAfter
<1>4. n = 9 => Script[n] = FirstGroup
  BY ScriptFacts
<1> QED BY <1>1, <1>2, <1>3, <1>4, NotDeleted
        DEF Joining, SecondGroup, OnGroup, FirstGroup

LEMMA ReencryptRun ==
    ASSUME NEW c \in Client, NEW n, Running(c, n), reencrypt_user_key(c)
    PROVE  RunOK(c)'
<1>1. /\ pc[c] = "reencrypt" /\ n \in 9 .. Last /\ ~Among(Deletion, n - 1)
      /\ call[c].user \in {"user1", "user2"} /\ UNCHANGED call
  BY RunStage, JoinStatement DEF reencrypt_user_key, Running, Step
<1>2. /\ Stored("user1") /\ Stored("user2")
      /\ \A x \in users : decrypt_data(x.key) = SampleKey
  BY <1>1 DEF Running, After, UsersAfter
<1> DEFINE next == IF call[c].op = "create_group" THEN "insert_group" ELSE "add_find"
           local(d) == [loc[c] EXCEPT !.key = encrypt_data(decrypt_data(d.key), nonce(c))]
<1>3. \E d \in users : Read /\ Goto(c, next, local(d))
  BY <1>1, <1>2, RunAnswered
     DEF reencrypt_user_key, Stored, Running, IInv, DataOK, SignaturesValid
<1>4. PICK d \in users : Read /\ Goto(c, next, local(d))
  BY <1>3
<1>5. /\ decrypt_data(local(d).key) = SampleKey
      /\ local(d).attempts = loc[c].attempts
  BY <1>2, LocalType DEF Running, LocalState, decrypt_data, encrypt_data
<1>6. pc'[c] = next /\ loc'[c] = local(d)
  BY <1>4, GotoEffect DEF Running
<1>7. loc[c].attempts = MaxAttempts
  BY <1>1 DEF Running, CallOK
<1> HIDE DEF local
<1>8. CallOK(c)'
  BY <1>1, <1>5, <1>6, <1>7 DEF CallOK, Turn, DeletionOK
<1>9. After(n - 1)'
  BY <1>4, SameAfter DEF Running, Read, server, data
<1> QED BY <1>6, <1>8, <1>9, RunGoesOn DEF Idle

LEMMA MembershipRun ==
    ASSUME NEW c \in Client, NEW n, Running(c, n), is_user_part_of_group(c)
    PROVE  RunOK(c)'
<1>1. n \in (5 .. 8) \cup (10 .. Last) /\ Script[n] \in Asking
  BY RunStage DEF is_user_part_of_group
<1>2. Script[n] # SecondGroup /\ Script[n] # Deletion /\ Script[n] # UserAgain
  BY <1>1 DEF Asking, OnGroup, SecondGroup, Deletion, UserAgain, CreateUser
<1>3. \E s \in {"member", "not_member"} : Read /\ Return(c, s)
  BY RunAnswered DEF is_user_part_of_group
<1>4. pc'[c] = "idle" /\ result'[c].status \in {"member", "not_member"}
  BY <1>3, ReturnEffect DEF Running
<1>5. After(n - 1)'
  BY <1>3, SameAfter DEF Running, Read, server, data
<1> QED BY <1>1, <1>2, <1>4, <1>5, RunEnds

\* group1 is there, and the keys of its members are those of the users.
LEMMA GetKeysRun ==
    ASSUME NEW c \in Client, NEW n, Running(c, n), get_keys_of_group(c)
    PROVE  RunOK(c)'
<1>1. n \in 10 .. Last /\ Script[n] = Reading /\ call[c] = Script[n].call
  BY RunStage DEF get_keys_of_group, Running
<1>2. Script[n] # SecondGroup /\ Script[n] # Deletion /\ Script[n] # UserAgain
  BY <1>1 DEF Reading, SecondGroup, Deletion, UserAgain, CreateUser, OnGroup
<1>3. group_name(c) = hash_name("group1")
  BY <1>1 DEF group_name, Reading
<1>4. Exists("group1") /\ \A d \in groups : GroupOK(d)
  BY <1>1 DEF Running, After, GroupsAfter
<1>5. ASSUME NEW d \in groups
      PROVE  /\ validate_group_signature(d)
             /\ {decrypt_data(e.key) : e \in Range(d.users)} \subseteq SizedKey
  BY <1>4, SampleConstants
     DEF GroupOK, MemberOK, Running, IInv, DataOK, SignaturesValid
<1>6. \E d \in groups : Read /\ ReturnKeys(c, "ok", {decrypt_data(e.key) : e \in Range(d.users)})
  BY <1>3, <1>4, <1>5, RunAnswered DEF get_keys_of_group, Exists
<1>7. pc'[c] = "idle" /\ result'[c].status = "ok"
  BY <1>6 DEF ReturnKeys, Running, IInv, ClientsOK
<1>8. After(n - 1)'
  BY <1>6, SameAfter DEF Running, Read, server, data
<1> QED BY <1>1, <1>2, <1>7, <1>8, RunEnds

\* An add has found a group, so it is not the first statement about groups.
LEMMA AddLater ==
    ASSUME NEW c \in Client, NEW n, Running(c, n), pc[c] \in {"add_find", "add_update"}
    PROVE  n \in 10 .. Last
<1>1. /\ n \in 9 .. Last
      /\ n = 9 => call[c].op = "create_group"
  BY RunStage, JoinStatement
<1>2. n = 9 => groups = {}
  BY DEF Running, After, GroupsAfter
<1>3. call[c].op = "create_group" => Exists(call[c].group)
  BY DEF Running, CallOK
<1> QED BY <1>1, <1>2, <1>3, ScriptFacts DEF Exists

LEMMA AddFindRun ==
    ASSUME NEW c \in Client, NEW n, Running(c, n), add_find(c)
    PROVE  RunOK(c)'
<1>1. /\ pc[c] = "add_find" /\ n \in 10 .. Last /\ Script[n] # Deletion
      /\ Script[n] # UserAgain /\ UNCHANGED call /\ call[c] = Script[n].call
      /\ Script[n] = SecondGroup => call[c].user = "user2" /\ call[c].group = "group2"
  BY RunStage, JoinStatement, AddLater DEF add_find, Running, Step
<1>2. /\ group_name(c)' = group_name(c) /\ user_name(c)' = user_name(c)
  BY <1>1 DEF group_name, user_name
<1> DEFINE local(d) == [loc[c] EXCEPT !.held = {d}]
<1>3. \/ \E d \in groups : /\ AddMatches(d, group_name(c), user_name(c))
                           /\ Read /\ Goto(c, "add_update", local(d))
      \/ /\ \A d \in groups : ~AddMatches(d, group_name(c), user_name(c))
         /\ Read /\ Return(c, "ok")
  BY RunAnswered DEF add_find, Find, Running, IInv, DataOK, SignaturesValid
<1>4. UNCHANGED groups /\ After(n - 1)'
  BY <1>3, SameAfter DEF Running, Read, server, data
<1>5. CASE \E d \in groups : /\ AddMatches(d, group_name(c), user_name(c))
                             /\ Read /\ Goto(c, "add_update", local(d))
  <2>1. PICK d \in groups : /\ AddMatches(d, group_name(c), user_name(c))
                            /\ Read /\ Goto(c, "add_update", local(d))
    BY <1>5
  <2>2. /\ loc[c].attempts = MaxAttempts /\ decrypt_data(loc[c].key) = SampleKey
        /\ call[c].op = "create_group" => Exists(call[c].group)
    BY <1>1, <2>1 DEF Running, CallOK, Turn
  <2>3. /\ local(d).held = {d} /\ local(d).attempts = loc[c].attempts
        /\ local(d).key = loc[c].key
    BY LocalType DEF Running, LocalState
  <2>4. pc'[c] = "add_update" /\ loc'[c] = local(d)
    BY <2>1, GotoEffect DEF Running
  <2>5. AddMatches(d, group_name(c), user_name(c))'
    BY <1>2, <2>1 DEF AddMatches, HasUser
  <2> HIDE DEF local
  <2>6. CallOK(c)'
    BY <1>1, <1>4, <2>1, <2>2, <2>3, <2>4, <2>5 DEF CallOK, Turn, DeletionOK, Exists
  <2> QED BY <1>4, <2>4, <2>6, RunGoesOn DEF Idle
<1>6. CASE /\ \A d \in groups : ~AddMatches(d, group_name(c), user_name(c))
           /\ Read /\ Return(c, "ok")
  <2>1. pc'[c] = "idle" /\ result'[c].status = "ok"
    BY <1>6, ReturnEffect DEF Running
  <2>2. ASSUME Script[n] = SecondGroup PROVE InGroup("user2", "group2")'
    <3>1. call[c].op = "create_group"
      BY <1>1, <2>2 DEF SecondGroup, OnGroup
    <3>2. Exists("group2")
      BY <1>1, <2>2, <3>1 DEF Running, CallOK
    <3>3. InGroup("user2", "group2")
      BY <1>1, <1>6, <2>2, <3>2 DEF Exists, InGroup, AddMatches, group_name, user_name
    <3> QED BY <1>4, <3>3 DEF InGroup
  <2> QED BY <1>1, <1>4, <2>1, <2>2, RunEnds
<1> QED BY <1>3, <1>5, <1>6

LEMMA RemoveFindRun ==
    ASSUME NEW c \in Client, NEW n, Running(c, n), remove_find(c)
    PROVE  RunOK(c)'
<1>1. /\ pc[c] = "remove_find" /\ n \in 10 .. Last /\ Script[n] = Leaving
      /\ UNCHANGED call /\ call[c] = Script[n].call
  BY RunStage DEF remove_find, Running, Step
<1>2. Script[n] # SecondGroup /\ Script[n] # Deletion /\ Script[n] # UserAgain
  BY <1>1 DEF Leaving, SecondGroup, Deletion, UserAgain, CreateUser, OnGroup
<1>3. /\ group_name(c)' = group_name(c) /\ user_name(c)' = user_name(c)
  BY <1>1 DEF group_name, user_name
<1> DEFINE local(d) == [loc[c] EXCEPT !.held = {d}]
<1>4. \/ \E d \in groups : /\ RemoveMatches(d, group_name(c), user_name(c))
                           /\ Read /\ Goto(c, "remove_update", local(d))
      \/ Read /\ Return(c, "ok")
  BY RunAnswered DEF remove_find, Find, Running, IInv, DataOK, SignaturesValid
<1>5. UNCHANGED groups /\ After(n - 1)'
  BY <1>4, SameAfter DEF Running, Read, server, data
<1>6. CASE \E d \in groups : /\ RemoveMatches(d, group_name(c), user_name(c))
                             /\ Read /\ Goto(c, "remove_update", local(d))
  <2>1. PICK d \in groups : /\ RemoveMatches(d, group_name(c), user_name(c))
                            /\ Read /\ Goto(c, "remove_update", local(d))
    BY <1>6
  <2>2. loc[c].attempts = MaxAttempts
    BY <1>1, <2>1 DEF Running, CallOK, Turn
  <2>3. /\ local(d).held = {d} /\ local(d).attempts = loc[c].attempts
    BY LocalType DEF Running, LocalState
  <2>4. pc'[c] = "remove_update" /\ loc'[c] = local(d)
    BY <2>1, GotoEffect DEF Running
  <2>5. RemoveMatches(d, group_name(c), user_name(c))'
    BY <1>3, <2>1 DEF RemoveMatches, HasUser
  <2> HIDE DEF local
  <2>6. CallOK(c)'
    BY <1>5, <2>1, <2>2, <2>3, <2>4, <2>5 DEF CallOK, Turn, DeletionOK
  <2> QED BY <1>5, <2>4, <2>6, RunGoesOn DEF Idle
<1>7. CASE Read /\ Return(c, "ok")
  <2>1. pc'[c] = "idle" /\ result'[c].status = "ok"
    BY <1>7, ReturnEffect DEF Running
  <2> QED BY <1>1, <1>2, <1>5, <2>1, RunEnds
<1> QED BY <1>4, <1>6, <1>7

\* What the deletion of user1 knows of the groups.
LEMMA DeletionRun ==
    ASSUME NEW c \in Client, NEW n, Running(c, n),
           pc[c] \in {"scan_open", "scan", "bulk", "delete_user"}
    PROVE  /\ n \in 10 .. Last /\ Script[n] = Deletion /\ call[c] = Deletion.call
           /\ ~Among(Deletion, n - 1)
           /\ DeletionOK(c) /\ DeletionOK(c)' /\ groups # {}
<1>1. /\ n \in 10 .. Last /\ n \in 1 .. Last /\ Script[n] = Deletion
      /\ call[c] = Deletion.call
  BY RunStage, ScriptFacts DEF Running
<1>2. Exists("group1") /\ (\A d \in groups : GroupOK(d)) /\ indexed = Collection
  BY <1>1 DEF Running, After, GroupsAfter, IndexesAfter
<1>3. ASSUME NEW d \in groups, NEW e \in groups, d.encname = e.encname
      PROVE  d = e
  <2>1. d.name = e.name
    BY <1>2, <1>3 DEF GroupOK
  <2> QED BY <1>2, <2>1 DEF Running, IndexesOK, Unique, Collection
<1>4. Deletion \notin Asking
  BY DeletionOnlyOnce, EarlyStatements
<1>5. DeletionOK(c)'
  BY <1>3, OwnStepKeepsDeletion DEF Running, CallOK
<1> QED BY <1>1, <1>2, <1>4, <1>5, NotDeleted DEF Running, CallOK, Exists

LEMMA ScanRun ==
    ASSUME NEW c \in Client, NEW n, Running(c, n),
           scan_open(c) \/ scan_next(c) \/ scan_end(c)
    PROVE  RunOK(c)'
<1>1. pc[c] \in {"scan_open", "scan"}
  BY DEF scan_open, scan_next, scan_end
<1>2. DeletionOK(c) /\ DeletionOK(c)' /\ groups # {}
  BY <1>1, DeletionRun
<1>3. Read /\ \E l \in {"scan", "bulk"} : \E v : Goto(c, l, v)
  <2>1. scan_open(c) => Read /\ \E v : Goto(c, "scan", v)
    BY RunAnswered DEF scan_open
  <2>2. scan_next(c) => Read /\ \E v : Goto(c, "scan", v)
    BY DEF scan_next, Running, IInv, DataOK, SignaturesValid
  <2>3. scan_end(c) => Read /\ \E v : Goto(c, "bulk", v)
    <3> SUFFICES ASSUME scan_end(c) PROVE Read /\ \E v : Goto(c, "bulk", v)
      OBVIOUS
    <3>1. Read /\ \A d \in groups : d.encname \notin loc[c].unread
      BY RunAnswered DEF scan_end
    <3>2. loc[c].held # {}
      BY <1>2, <3>1 DEF scan_end, DeletionOK
    <3> QED BY <3>1, <3>2 DEF scan_end
  <2> QED BY <2>1, <2>2, <2>3
<1>4. pc'[c] \in {"scan", "bulk"}
  BY <1>3, GotoEffect DEF Running
<1>5. After(n - 1)'
  BY <1>3, SameAfter DEF Running, Read, server, data
<1>6. CallOK(c)'
  BY <1>2, <1>4 DEF CallOK, Turn
<1> QED BY <1>4, <1>5, <1>6, RunGoesOn DEF Idle

-----------------------------------------------------------------------------
(* The round trips that write to the groups *)

\* A document gains members who may be there, or loses others than user2.
LEMMA RunReplace ==
    ASSUME NEW n \in 10 .. Last, IInv, After(n - 1), ~Among(Deletion, n - 1),
           UNCHANGED <<users, indexed>>,
           NEW old \in groups, NEW new, Replace(old, new),
           new.name = old.name, new.encname = old.encname,
           \A e \in Range(new.users) :
             e \in Range(old.users) \/ MemberOK(e, decrypt_data(old.encname)),
           HasUser(old, salted_hash_name("user2", "group2")) =>
             HasUser(new, salted_hash_name("user2", "group2"))
    PROVE  After(n - 1)' /\ \A g : Exists(g) => Exists(g)'
<1>1. n - 1 >= 9 /\ n - 1 \in Int
  BY ScriptFacts
<1>2. GroupOK(old) /\ \A d \in groups : GroupOK(d)
  BY <1>1 DEF After, GroupsAfter
<1>3. GroupOK(new)
  BY <1>2 DEF GroupOK
<1>4. \A d \in groups' : d \in groups \/ d = new
  BY DEF Replace
<1>5. \A d \in groups' : GroupOK(d)
  BY <1>2, <1>3, <1>4
<1>6. \A d \in groups : d # old => d \in groups'
  BY DEF Replace
<1>7. new \in groups'
  BY DEF Replace
<1>8. ASSUME NEW g, Exists(g) PROVE Exists(g)'
  BY <1>6, <1>7, <1>8 DEF Exists
<1>9. InGroup("user2", "group2") => InGroup("user2", "group2")'
  BY <1>6, <1>7 DEF InGroup
<1>10. GroupsAfter(n - 1)'
  BY <1>1, <1>5, <1>8, <1>9 DEF After, GroupsAfter, GroupOK, MemberOK
<1>11. UsersAfter(n - 1)' /\ IndexesAfter(n - 1)'
  BY DEF After, UsersAfter, IndexesAfter, Stored
<1> QED BY <1>8, <1>10, <1>11 DEF After

\* The entry an add or a new group carries.
LEMMA JoinEntry ==
    ASSUME NEW c \in Client, NEW n, Running(c, n),
           pc[c] \in {"insert_group", "add_find", "add_update"}
    PROVE  /\ MemberOK(new_entry(c), call[c].group)
           /\ new_entry(c).name = user_name(c)
<1>1. /\ call[c].group \in {"group1", "group2"}
      /\ \/ call[c].user = "user1"
         \/ call[c].user = "user2" /\ call[c].group = "group2"
  BY RunStage, JoinStatement
<1>2. decrypt_data(loc[c].key) = SampleKey
  BY DEF Running, CallOK
<1> QED BY <1>1, <1>2 DEF MemberOK, new_entry, user_name

LEMMA CreateGroupRun ==
    ASSUME NEW c \in Client, NEW n, Running(c, n), create_group(c)
    PROVE  RunOK(c)'
<1> DEFINE g == call[c].group
           doc == NewGroupDoc(g, encrypt_data(g, nonce(c)), new_entry(c))
           cmd == insert_group_command(c)
<1>1. /\ pc[c] = "insert_group" /\ n \in 9 .. Last /\ n \in 1 .. Last
      /\ Script[n] # Deletion /\ Script[n] # UserAgain /\ ~Among(Deletion, n - 1)
      /\ call[c].group \in {"group1", "group2"}
      /\ Script[n] = SecondGroup => call[c].user = "user2" /\ g = "group2"
      /\ n = 9 => g = "group1"
      /\ UNCHANGED call /\ call[c] = Script[n].call
  BY RunStage, JoinStatement, ScriptFacts DEF create_group, Running, Step
<1>2. /\ loc[c].attempts = MaxAttempts /\ decrypt_data(loc[c].key) = SampleKey
      /\ \A d \in groups : GroupOK(d)
  BY <1>1 DEF Running, CallOK, After, GroupsAfter
<1>3. cmd.kind = "insert_group" /\ cmd.doc = doc
  BY DEF insert_group_command
<1>4. /\ doc.name = hash_name(g) /\ decrypt_data(doc.encname) = g
      /\ Range(doc.users) = {new_entry(c)}
  BY OneEntry DEF NewGroupDoc, encrypt_data, decrypt_data
<1>5. GroupOK(doc) /\ HasUser(doc, user_name(c))
  BY <1>1, <1>4, JoinEntry DEF GroupOK, HasUser
<1>6. \/ Answered(cmd, 1) /\ Return(c, "ok")
      \/ Answered(cmd, 0) /\ Goto(c, "add_find", loc[c])
  BY RunAnswered DEF create_group
<1> HIDE DEF cmd, doc
<1>7. CASE Answered(cmd, 1) /\ Return(c, "ok")
  <2>1. UNCHANGED <<users, indexed>> /\ groups' = groups \cup {doc}
    BY <1>3, <1>7, ExecuteKind DEF ExecuteInsert
  <2>2. pc'[c] = "idle" /\ result'[c].status = "ok"
    BY <1>7, ReturnEffect DEF Running
  <2>3. \A d \in groups' : GroupOK(d)
    BY <1>2, <1>5, <2>1
  <2>4. Among(SecondGroup, n) => InGroup("user2", "group2")'
    <3>1. Among(SecondGroup, n) <=> Among(SecondGroup, n - 1) \/ Script[n] = SecondGroup
      BY <1>1, AmongNext
    <3>2. Among(SecondGroup, n - 1) => InGroup("user2", "group2")
      BY DEF Running, After, GroupsAfter
    <3>3. Script[n] = SecondGroup => InGroup("user2", "group2")'
      BY <1>1, <1>4, <1>5, <2>1 DEF InGroup, user_name
    <3> QED BY <2>1, <3>1, <3>2, <3>3 DEF InGroup
  <2>5. Exists("group1")'
    <3>1. n # 9 => Exists("group1")
      BY <1>1 DEF Running, After, GroupsAfter
    <3> QED BY <1>1, <1>4, <2>1, <3>1 DEF Exists
  <2>6. ~Among(Deletion, n)
    BY <1>1, AmongNext
  <2>7. GroupsAfter(n)'
    BY <1>1, <2>3, <2>4, <2>5, <2>6 DEF GroupsAfter, GroupOK, MemberOK
  <2>8. UsersAfter(n)' /\ IndexesAfter(n)'
    BY <1>1, <2>1, <2>6 DEF Running, After, UsersAfter, IndexesAfter, Stored
  <2>9. ResultOK(c)'
    BY <1>1, <2>2 DEF ResultOK, Running, Threw
  <2> QED BY <2>2, <2>7, <2>8, <2>9, RunStops DEF After
<1>8. CASE Answered(cmd, 0) /\ Goto(c, "add_find", loc[c])
  <2>1. UNCHANGED data /\ Exists(g)
    BY <1>3, <1>4, <1>8, ExecuteKind DEF ExecuteInsert, data, Admits, Exists
  <2>2. pc'[c] = "add_find" /\ loc'[c] = loc[c]
    BY <1>8, GotoEffect DEF Running
  <2>3. Exists(call[c].group)'
    BY <1>1, <2>1 DEF Exists, data
  <2>4. CallOK(c)'
    BY <1>2, <2>2, <2>3 DEF CallOK, Turn, DeletionOK
  <2>5. After(n - 1)'
    BY <2>1, SameAfter DEF Running
  <2> QED BY <2>2, <2>4, <2>5, RunGoesOn DEF Idle
<1> QED BY <1>6, <1>7, <1>8

\* An update that matched: the call returns, or where it cannot read the count,
\* makes another turn, which will find nothing to do.
LEMMA UpdateCounted ==
    ASSUME NEW c \in Client, NEW n, Running(c, n), MaxAttempts > 1,
           loc[c].attempts = MaxAttempts, NEW label,
           IF BsonIterInt64(1) >= 1 THEN Return(c, "ok") ELSE Retry(c, label)
    PROVE  \/ pc'[c] = "idle" /\ result'[c].status = "ok"
           \/ pc'[c] = label /\ loc'[c].key = loc[c].key
<1>1. CASE Return(c, "ok")
  BY <1>1, ReturnEffect DEF Running
<1>2. CASE Retry(c, label)
  <2> DEFINE local == [loc[c] EXCEPT !.held = {}, !.attempts = @ - 1]
  <2>1. Goto(c, label, local)
    BY <1>2, MongoConstants DEF Retry
  <2>2. local.key = loc[c].key
    BY LocalType DEF Running, LocalState
  <2> HIDE DEF local
  <2> QED BY <2>1, <2>2, GotoEffect DEF Running
<1> QED BY <1>1, <1>2

LEMMA AddUpdateRun ==
    ASSUME NEW c \in Client, NEW n, Running(c, n), add_update(c), MaxAttempts > 1
    PROVE  RunOK(c)'
<1> DEFINE cmd(d) == push_command(c, d)
<1>1. /\ pc[c] = "add_update" /\ n \in 10 .. Last
      /\ Script[n] # Deletion /\ Script[n] # UserAgain /\ ~Among(Deletion, n - 1)
      /\ Script[n] = SecondGroup => call[c].user = "user2" /\ call[c].group = "group2"
      /\ UNCHANGED call /\ call[c] = Script[n].call /\ indexed = Collection
  BY RunStage, JoinStatement, AddLater DEF add_update, Running, Step
<1>2. /\ loc[c].attempts = MaxAttempts /\ decrypt_data(loc[c].key) = SampleKey
      /\ call[c].op = "create_group" => Exists(call[c].group)
      /\ \A d \in groups : GroupOK(d)
  BY <1>1 DEF Running, CallOK, Turn, After, GroupsAfter
<1>3. PICK h \in groups : /\ loc[c].held = {h}
                          /\ AddMatches(h, group_name(c), user_name(c))
  BY <1>1 DEF Running, CallOK, Turn
<1>4. PICK m \in {0, 1} :
        /\ Answered(cmd(h), m)
        /\ IF BsonIterInt64(m) >= 1 THEN Return(c, "ok") ELSE Retry(c, "add_find")
  <2>1. \E d \in loc[c].held, m \in {0, 1} :
          /\ Answered(cmd(d), m)
          /\ IF BsonIterInt64(m) >= 1 THEN Return(c, "ok") ELSE Retry(c, "add_find")
    BY RunAnswered DEF add_update
  <2> QED BY <1>3, <2>1
<1>5. /\ cmd(h).kind = "push" /\ cmd(h).name = group_name(c)
      /\ cmd(h).entry = new_entry(c) /\ cmd(h).old = h.signature
  BY DEF push_command
<1> HIDE DEF cmd
<1>6. new_entry(c).name = user_name(c) /\ MemberOK(new_entry(c), call[c].group)
  BY <1>1, JoinEntry
<1>7. PushMatches(h, cmd(h))
  BY <1>3, <1>5, <1>6 DEF PushMatches
<1>8. /\ m = 1 /\ UNCHANGED <<users, indexed>>
      /\ \E d \in groups : /\ PushMatches(d, cmd(h))
                           /\ Replace(d, Pushed(d, cmd(h).entry, cmd(h).new))
  BY <1>4, <1>5, <1>7, ExecuteKind DEF ExecutePush
<1>9. PICK d \in groups : /\ PushMatches(d, cmd(h))
                          /\ Replace(d, Pushed(d, cmd(h).entry, cmd(h).new))
  BY <1>8
<1> DEFINE p == Pushed(d, cmd(h).entry, cmd(h).new)
<1>10. /\ p.name = d.name /\ p.encname = d.encname
       /\ Range(p.users) = Range(d.users) \cup {new_entry(c)}
  <2>1. d \in GroupDoc /\ cmd(h).entry \in Entry
    BY <1>1, <1>5, EntryOK DEF Running, IInv, DataOK
  <2> QED BY <1>5, <2>1, PushedMembers
<1>11. d.name = group_name(c) /\ decrypt_data(d.encname) = call[c].group
  BY <1>2, <1>5, <1>9 DEF PushMatches, AddMatches, GroupOK, group_name, hash_name
<1> HIDE DEF p
<1>12. HasUser(p, user_name(c))
  BY <1>6, <1>10 DEF HasUser
<1>13. After(n - 1)' /\ \A g : Exists(g) => Exists(g)'
  <2>1. Replace(d, p)
    BY <1>9 DEF p
  <2>2. \A e \in Range(p.users) :
          e \in Range(d.users) \/ MemberOK(e, decrypt_data(d.encname))
    BY <1>6, <1>10, <1>11
  <2>3. HasUser(d, salted_hash_name("user2", "group2")) =>
          HasUser(p, salted_hash_name("user2", "group2"))
    BY <1>10 DEF HasUser
  <2> QED BY <1>1, <1>8, <1>10, <2>1, <2>2, <2>3, RunReplace DEF Running
<1>14. \A x \in groups' : ~AddMatches(x, group_name(c), user_name(c))
  <2>1. \A x \in groups : x.name = d.name => x = d
    BY <1>1 DEF Running, IndexesOK, Unique, Collection
  <2>2. \A x \in groups' : x = p \/ (x \in groups /\ x # d)
    BY <1>9 DEF p, Replace
  <2> QED BY <1>11, <1>12, <2>1, <2>2 DEF AddMatches
<1>15. CASE pc'[c] = "idle" /\ result'[c].status = "ok"
  <2>1. Script[n] = SecondGroup => InGroup("user2", "group2")'
    <3>1. p \in groups'
      BY <1>9 DEF p, Replace
    <3> QED BY <1>1, <1>10, <1>11, <1>12, <3>1 DEF InGroup, group_name, user_name
  <2> QED BY <1>1, <1>13, <1>15, <2>1, RunEnds
<1>16. CASE pc'[c] = "add_find" /\ loc'[c].key = loc[c].key
  <2>1. /\ group_name(c)' = group_name(c) /\ user_name(c)' = user_name(c)
    BY <1>1 DEF group_name, user_name
  <2>2. \A x \in groups' : ~AddMatches(x, group_name(c)', user_name(c)')
    BY <1>14, <2>1
  <2>3. call[c].op = "create_group" => Exists(call[c].group)'
    <3>1. PICK g : g = call[c].group
      OBVIOUS
    <3>2. call[c].op = "create_group" => Exists(g)'
      BY <1>2, <1>13, <3>1
    <3> QED BY <1>1, <3>1, <3>2 DEF Exists
  <2>4. CallOK(c)'
    BY <1>1, <1>2, <1>16, <2>2, <2>3 DEF CallOK, Turn, DeletionOK, AddMatches, HasUser
  <2> QED BY <1>13, <1>16, <2>4, RunGoesOn DEF Idle
<1> QED BY <1>2, <1>4, <1>8, <1>15, <1>16, UpdateCounted

\* A pull of user1 leaves user2 where user2 is.
LEMMA PulledRun ==
    ASSUME NEW n \in 10 .. Last, IInv, After(n - 1), ~Among(Deletion, n - 1),
           UNCHANGED <<users, indexed>>, NEW g, NEW d \in groups, NEW sig,
           Replace(d, Pulled(d, salted_hash_name("user1", g), sig))
    PROVE  After(n - 1)'
<1> DEFINE user == salted_hash_name("user1", g)
           p == Pulled(d, user, sig)
<1>1. /\ p.name = d.name /\ p.encname = d.encname
      /\ Range(p.users) = {e \in Range(d.users) : e.name # user}
  <2>1. d \in GroupDoc
    BY DEF IInv, DataOK
  <2> QED BY <2>1, PulledMembers
<1>2. user # salted_hash_name("user2", "group2")
  BY DEF salted_hash_name
<1>3. HasUser(d, salted_hash_name("user2", "group2")) =>
        HasUser(p, salted_hash_name("user2", "group2"))
  BY <1>1, <1>2 DEF HasUser
<1>4. \A e \in Range(p.users) : e \in Range(d.users)
  BY <1>1
<1>5. Replace(d, p)
  OBVIOUS
<1> HIDE DEF p
<1> QED BY <1>1, <1>3, <1>4, <1>5, RunReplace

LEMMA RemoveUpdateRun ==
    ASSUME NEW c \in Client, NEW n, Running(c, n), remove_update(c), MaxAttempts > 1
    PROVE  RunOK(c)'
<1> DEFINE cmd(d) == pull_command(c, d)
<1>1. /\ pc[c] = "remove_update" /\ n \in 10 .. Last /\ n \in 1 .. Last
      /\ Script[n] = Leaving /\ UNCHANGED call /\ call[c] = Script[n].call
      /\ indexed = Collection
  <2>1. pc[c] = "remove_update" /\ UNCHANGED call /\ call[c] = Script[n].call
    BY DEF remove_update, Running, Step
  <2>2. n \in 10 .. Last /\ n \in 1 .. Last /\ Script[n] = Leaving
    BY <2>1, RunStage, ScriptFacts
  <2>3. indexed = Collection
    BY <2>2 DEF Running, After, IndexesAfter
  <2> QED BY <2>1, <2>2, <2>3
<1>2. /\ Script[n] # SecondGroup /\ Script[n] # Deletion /\ Script[n] # UserAgain
      /\ Script[n] \notin Asking
  BY <1>1 DEF Leaving, SecondGroup, Deletion, UserAgain, CreateUser, OnGroup, Asking
<1>3. loc[c].attempts = MaxAttempts /\ ~Among(Deletion, n - 1)
  BY <1>1, <1>2, NotDeleted DEF Running, CallOK, Turn
<1>4. PICK h \in groups : /\ loc[c].held = {h}
                          /\ RemoveMatches(h, group_name(c), user_name(c))
  BY <1>1 DEF Running, CallOK, Turn
<1>5. PICK m \in {0, 1} :
        /\ Answered(cmd(h), m)
        /\ IF BsonIterInt64(m) >= 1 THEN Return(c, "ok") ELSE Retry(c, "remove_find")
  <2>1. \E d \in loc[c].held, m \in {0, 1} :
          /\ Answered(cmd(d), m)
          /\ IF BsonIterInt64(m) >= 1 THEN Return(c, "ok") ELSE Retry(c, "remove_find")
    BY RunAnswered DEF remove_update
  <2> QED BY <1>4, <2>1
<1>6. /\ cmd(h).kind = "pull" /\ cmd(h).name = group_name(c)
      /\ cmd(h).user = user_name(c) /\ cmd(h).old = h.signature
  BY DEF pull_command
<1> HIDE DEF cmd
<1>7. PullMatches(h, cmd(h))
  BY <1>4, <1>6 DEF PullMatches
<1>8. /\ m = 1 /\ UNCHANGED <<users, indexed>>
      /\ \E d \in groups : /\ PullMatches(d, cmd(h))
                           /\ Replace(d, Pulled(d, cmd(h).user, cmd(h).new))
  BY <1>5, <1>6, <1>7, ExecuteKind DEF ExecutePull
<1>9. PICK d \in groups : /\ PullMatches(d, cmd(h))
                          /\ Replace(d, Pulled(d, cmd(h).user, cmd(h).new))
  BY <1>8
<1> DEFINE p == Pulled(d, cmd(h).user, cmd(h).new)
<1>10. d.name = group_name(c) /\ ~HasUser(p, user_name(c))
  BY <1>6, <1>9, PulledName DEF PullMatches, RemoveMatches, Running
<1>11. After(n - 1)'
  <2>1. cmd(h).user = salted_hash_name("user1", "group2")
    BY <1>1, <1>6 DEF user_name, Leaving, OnGroup
  <2> QED BY <1>1, <1>3, <1>8, <1>9, <2>1, PulledRun DEF Running
<1> HIDE DEF p
<1>12. \A x \in groups' : ~RemoveMatches(x, group_name(c), user_name(c))
  <2>1. \A x \in groups : x.name = d.name => x = d
    BY <1>1 DEF Running, IndexesOK, Unique, Collection
  <2>2. \A x \in groups' : x = p \/ (x \in groups /\ x # d)
    BY <1>9 DEF p, Replace
  <2> QED BY <1>10, <2>1, <2>2 DEF RemoveMatches
<1>13. CASE pc'[c] = "idle" /\ result'[c].status = "ok"
  BY <1>1, <1>2, <1>11, <1>13, RunEnds
<1>14. CASE pc'[c] = "remove_find"
  <2>1. /\ group_name(c)' = group_name(c) /\ user_name(c)' = user_name(c)
    BY <1>1 DEF group_name, user_name
  <2>2. \A x \in groups' : ~RemoveMatches(x, group_name(c)', user_name(c)')
    BY <1>12, <2>1
  <2>3. CallOK(c)'
    BY <1>14, <2>2 DEF CallOK, Turn, DeletionOK, RemoveMatches, HasUser
  <2> QED BY <1>11, <1>14, <2>3, RunGoesOn DEF Idle
<1> QED BY <1>3, <1>5, <1>8, <1>13, <1>14, UpdateCounted

LEMMA BulkRun ==
    ASSUME NEW c \in Client, NEW n, Running(c, n), bulk_update(c)
    PROVE  RunOK(c)'
<1>1. pc[c] = "bulk"
  BY DEF bulk_update
<1>2. /\ n \in 10 .. Last /\ call[c] = Deletion.call /\ ~Among(Deletion, n - 1)
      /\ DeletionOK(c) /\ DeletionOK(c)'
  BY <1>1, DeletionRun
<1> DEFINE label(d) == IF loc[c].held = {d} THEN "delete_user" ELSE "bulk"
<1>3. PICK d \in loc[c].held, m \in {0, 1} :
        Answered(bulk_command(c, d), m) /\ \E v : Goto(c, label(d), v)
  <2>1. \E d \in loc[c].held, m \in {0, 1} :
          Answered(bulk_command(c, d), m) /\ \E v : Goto(c, label(d), v)
    BY RunAnswered DEF bulk_update
  <2> QED BY <2>1
<1>4. d \in groups
  BY <1>1, <1>2 DEF DeletionOK
<1> DEFINE user == salted_hash_name("user1", decrypt_data(d.encname))
<1>5. /\ bulk_command(c, d).kind = "pull_exact" /\ bulk_command(c, d).doc = d
      /\ bulk_command(c, d).user = user
  BY <1>2 DEF bulk_command, Deletion
<1>6. /\ UNCHANGED <<users, indexed>>
      /\ Replace(d, Pulled(d, user, bulk_command(c, d).new))
  BY <1>3, <1>4, <1>5, ExecuteKind DEF ExecutePullExact
<1>7. After(n - 1)'
  BY <1>2, <1>4, <1>6, PulledRun DEF Running
<1>8. pc'[c] \in {"delete_user", "bulk"}
  BY <1>3, GotoEffect DEF Running
<1>9. CallOK(c)'
  BY <1>2, <1>8 DEF CallOK, Turn
<1> QED BY <1>7, <1>8, <1>9, RunGoesOn DEF Idle

LEMMA DeleteUserRun ==
    ASSUME NEW c \in Client, NEW n, Running(c, n), delete_user(c)
    PROVE  RunOK(c)'
<1>1. pc[c] = "delete_user"
  BY DEF delete_user
<1>2. /\ n \in 10 .. Last /\ n \in 1 .. Last /\ Script[n] = Deletion
      /\ call[c] = Deletion.call /\ DeletionOK(c)
  BY <1>1, DeletionRun, ScriptFacts
<1> DEFINE cmd == delete_user_command(c)
<1>3. Answered(cmd, 1) /\ Return(c, "ok")
  BY RunAnswered DEF delete_user
<1>4. cmd.kind = "delete_user"
  BY DEF delete_user_command
<1> HIDE DEF cmd
<1>5. UNCHANGED <<groups, indexed>> /\ users' \subseteq users
  BY <1>3, <1>4, ExecuteKind DEF ExecuteDelete
<1>6. pc'[c] = "idle" /\ result'[c].status = "ok"
  BY <1>3, ReturnEffect DEF Running
<1>7. /\ Among(Deletion, n)
      /\ Among(SecondGroup, n) <=> Among(SecondGroup, n - 1)
  BY <1>2, AmongNext DEF Deletion, SecondGroup, OnGroup
<1>8. Out("user1")
  BY <1>1, <1>2 DEF DeletionOK, Lacks, Out, Deletion
<1>9. GroupsAfter(n)'
  BY <1>2, <1>5, <1>7, <1>8 DEF Running, After, GroupsAfter, Exists, InGroup, Out,
     GroupOK, MemberOK
<1>10. UsersAfter(n)' /\ IndexesAfter(n)'
  BY <1>2, <1>5, <1>7 DEF Running, After, UsersAfter, IndexesAfter
<1>11. ResultOK(c)'
  BY <1>2, <1>6 DEF ResultOK, Running, Threw, Deletion, UserAgain, CreateUser
<1> QED BY <1>6, <1>9, <1>10, <1>11, RunStops DEF After

LEMMA StepRun ==
    ASSUME NEW c \in Client, NEW n, Running(c, n), MaxAttempts > 1
    PROVE  RunOK(c)'
<1>1. ~ping(c)
  BY RunStage DEF ping
<1> QED
  BY <1>1, DeleteUsersRun, DeleteGroupsRun, IndexUsersRun, IndexGroupsRun,
     CreateUserRun, ReencryptRun, MembershipRun, GetKeysRun, AddFindRun,
     RemoveFindRun, ScanRun, CreateGroupRun, AddUpdateRun, RemoveUpdateRun,
     BulkRun, DeleteUserRun
     DEF Running, Step

-----------------------------------------------------------------------------
(* The invariant *)

LEMMA RoundTripKeepsRun ==
    ASSUME IInv, DInv, Places, RunsInv, MaxAttempts > 1,
           NEW c \in Client, RoundTrip(c), c \in clean'
    PROVE  c \notin aborted' /\ RunOK(c)'
<1>1. Step(c) /\ UNCHANGED <<line, aborted>> /\ c \in clean /\ ~Fault
  <2>1. faults' = faults
    BY DEF RoundTrip, Clean
  <2>2. ~Fault
    BY <2>1 DEF Fault, IInv, CountersOK
  <2> QED BY <2>1, <2>2 DEF RoundTrip, Clean
<1>2. Going(c) /\ pc[c] # "idle"
  BY <1>1, StepBusy DEF Places, PlaceOK, Idle
<1>3. PICK n : n = line[c]
  OBVIOUS
<1>4. n \in 1 .. Last /\ call[c] = Script[n].call
  BY <1>2, <1>3, ScriptFacts DEF Places, PlaceOK, Going, Over, Returned
<1>5. RunOK(c) /\ c \notin aborted
  BY <1>1, <1>2 DEF RunsInv
<1>6. After(n - 1)
  <2>1. done(c) = n - 1
    BY <1>2, <1>3 DEF done
  <2> QED BY <1>5, <2>1 DEF RunOK, After
<1>7. pc[c] = "scan_open" => loc[c].held = {}
  BY DEF DInv
<1>8. Running(c, n)
  BY <1>1, <1>3, <1>4, <1>5, <1>6, <1>7 DEF Running, RunOK, RunsInv
<1> QED BY <1>1, <1>5, <1>8, StepRun

\* A run begins with nothing stored that it counts on.
LEMMA BeginStartsRun ==
    ASSUME IInv, Places, NEW c \in Client, Begin(c), c \in clean'
    PROVE  c \notin aborted' /\ RunOK(c)'
<1>1. Invoke(c) /\ call'[c] = Script[1].call /\ line[c] = 0
  BY DEF Begin, CallOf
<1>2. c \notin aborted /\ c \notin clean
  BY <1>1 DEF Places, PlaceOK
<1>3. inflight' = {} /\ UNCHANGED aborted
  BY <1>1, <1>2, InvokeEffect DEF Begin
<1>4. pc'[c] = "delete_users" /\ line'[c] = 1
  <2>1. PICK new \in Calls : call'[c] = new /\ pc'[c] = First[new.op]
    BY <1>1 DEF Invoke, IInv, ClientsOK, CountersOK
  <2>2. Script[1].call.op = "delete_all_data"
    BY ScriptFacts DEF Emptying
  <2>3. new.op = "delete_all_data"
    BY Zenon, <1>1, <2>1, <2>2
  <2>4. line'[c] = 1
    BY DEF Begin, Places
  <2> QED BY <2>1, <2>3, <2>4 DEF First
<1>5. done(c)' = 0
  BY <1>4 DEF done
<1>6. UsersAfter(done(c))' /\ GroupsAfter(done(c))' /\ IndexesAfter(done(c))'
  BY <1>5 DEF UsersAfter, GroupsAfter, IndexesAfter, Among
<1>7. CallOK(c)' /\ ResultOK(c)'
  BY <1>4 DEF CallOK, ResultOK, Turn, DeletionOK
<1> QED BY <1>2, <1>3, <1>6, <1>7 DEF RunOK

\* In a run without failures no exception goes further than to the next
\* statement.
LEMMA JumpsToNext ==
    ASSUME Places, NEW c \in Client, Going(c), RunOK(c), pc[c] = "idle"
    PROVE  Jump(c) = 1
<1>1. line[c] \in 1 .. Last
  BY ScriptFacts DEF Places, Going, Over, Returned
<1>2. Script[line[c]].skip \in {0, 1} \/ (line[c] = 3 /\ Script[line[c]].skip = 2)
  <2>1. CASE line[c] \in 1 .. 4
    BY <2>1, ScriptFacts DEF Emptying, Indexing, FirstUser, SecondUser
  <2>2. CASE line[c] \in 5 .. Last
    <3>1. Script[line[c]] \in Early \cup {Deletion}
      BY <2>2, ScriptFacts
    <3> QED BY <3>1 DEF Early, Asking, Joining, SecondGroup, UserAgain,
                        Reading, Leaving, Deletion
  <2> QED BY <1>1, <2>1, <2>2, ScriptFacts
<1>3. /\ line[c] = 3 => ~Threw(c)
      /\ Script[line[c]].skip = 0 => ~Threw(c)
  BY DEF RunOK, ResultOK, Threw
<1> QED BY <1>2, <1>3 DEF Jump

LEMMA ProceedKeepsRun ==
    ASSUME IInv, Places, RunsInv, NEW c \in Client, Proceed(c), c \in clean', Going(c)'
    PROVE  c \notin aborted' /\ RunOK(c)'
<1>1. /\ Going(c) /\ pc[c] = "idle" /\ c \in clean /\ c \notin aborted /\ RunOK(c)
      /\ loc[c] = Fresh /\ UNCHANGED aborted
  BY DEF Proceed, RunsInv
<1>2. Jump(c) = 1 /\ line'[c] = line[c] + 1 /\ line[c] \in 1 .. Last
  BY <1>1, JumpsToNext, ScriptFacts
     DEF Proceed, Places, Going, Over, Returned
<1>3. line'[c] <= Last /\ Invoke(c)
  BY <1>2, ScriptFacts DEF Proceed, CallOf, Going, Over, Returned
<1>4. /\ UNCHANGED <<users, groups, indexed, inflight>> /\ loc'[c] = Fresh
      /\ pc'[c] \notin Idle
  BY <1>1, <1>3, InvokeEffect
<1>5. PICK n : n = line[c]
  OBVIOUS
<1>6. done(c) = n /\ done(c)' = n
  BY <1>1, <1>2, <1>4, <1>5 DEF done, Idle
<1>7. After(n)'
  <2>1. After(n)
    BY <1>1, <1>6 DEF RunOK, After
  <2> QED BY <1>4, <2>1, SameAfter DEF data
<1>8. UsersAfter(done(c))' /\ GroupsAfter(done(c))' /\ IndexesAfter(done(c))'
  BY <1>6, <1>7 DEF After, UsersAfter, GroupsAfter, IndexesAfter, Among
<1>9. CallOK(c)'
  <2>1. PICK op \in AllOps : pc'[c] = First[op]
    BY <1>3 DEF Invoke, Calls, AllOps, GroupUserOps, IInv, ClientsOK
  <2>2. pc'[c] \in {"reencrypt", "remove_find", "is_member", "scan_open",
                    "create_user", "get_keys", "delete_users", "index_users", "ping"}
    BY <2>1 DEF First, AllOps, GroupUserOps
  <2>3. Fresh.attempts = MaxAttempts
    BY DEF Fresh
  <2> QED BY <1>4, <2>2, <2>3 DEF CallOK, Turn, DeletionOK
<1> QED BY <1>1, <1>4, <1>8, <1>9 DEF RunOK, ResultOK, Idle

\* A run is alone while it goes on: whatever it does not do itself changes
\* nothing of it.
LEMMA SameRun ==
    ASSUME NEW c, RunOK(c), UNCHANGED <<users, groups, indexed, inflight>>,
           pc'[c] = pc[c], call'[c] = call[c], loc'[c] = loc[c],
           result'[c] = result[c], line'[c] = line[c]
    PROVE  RunOK(c)'
<1>1. PICK n : n = done(c) /\ n = done(c)'
  BY DEF done
<1>2. After(n)'
  BY <1>1, SameAfter DEF RunOK, After, data
<1>3. UsersAfter(done(c))' /\ GroupsAfter(done(c))' /\ IndexesAfter(done(c))'
  BY <1>1, <1>2 DEF After, UsersAfter, GroupsAfter, IndexesAfter, Among
<1>4. group_name(c)' = group_name(c) /\ user_name(c)' = user_name(c)
  BY DEF group_name, user_name
<1>5. CallOK(c)'
  BY <1>4, SameKeepsDeletion
     DEF RunOK, CallOK, Turn, Exists, AddMatches, RemoveMatches, HasUser
<1>6. ResultOK(c)'
  BY DEF RunOK, ResultOK, Threw
<1> QED BY <1>3, <1>5, <1>6 DEF RunOK

LEMMA StepsApart ==
    ASSUME IInv, Places, NEW c \in Client,
           \/ Begin(c) \/ Proceed(c) \/ Terminate(c) \/ RoundTrip(c) \/ CrashRun(c)
    PROVE  Apart(c)
<1>1. CASE Begin(c)
  BY <1>1, InvokeEffect DEF Begin, CallOf, Apart, Places
<1>2. CASE Proceed(c)
  <2>1. \A o \in Client \ {c} : line'[o] = line[o]
    BY <1>2 DEF Proceed, Places
  <2> QED BY <1>2, <2>1, InvokeEffect DEF Proceed, CallOf, Apart, vars
<1>3. CASE Terminate(c)
  BY <1>3 DEF Terminate, Apart, vars
<1>4. CASE RoundTrip(c)
  BY <1>4, OthersUntouched DEF RoundTrip, Clean, Apart
<1>5. CASE CrashRun(c)
  BY <1>5 DEF CrashRun, Crash, Clean, Apart, IInv, ClientsOK
<1> QED BY <1>1, <1>2, <1>3, <1>4, <1>5

\* A run that is not going on does not begin to because another does something.
LEMMA OtherRun ==
    ASSUME RunsInv, NEW x \in Client, Apart(x), NEW c \in Client \ {x},
           ~Going(c), c \in clean'
    PROVE  c \notin aborted' /\ ~Going(c)'
BY DEF RunsInv, Apart, Going, Over, Returned

LEMMA NextKeepsRuns ==
    ASSUME IInv, DInv, Places, RunsInv, MaxAttempts > 1, [SampleNext]_sampleVars,
           NEW c \in clean'
    PROVE  c \notin aborted' /\ (Going(c)' => RunOK(c)')
<1>1. ASSUME NEW x \in Client, Begin(x)
      PROVE  c \notin aborted' /\ (Going(c)' => RunOK(c)')
  <2>1. c \in Client
    BY <1>1 DEF Begin, RunsInv
  <2>2. Apart(x) /\ ~Going(c)
    BY <1>1, <2>1, StepsApart DEF Begin
  <2> QED BY <1>1, <2>1, <2>2, BeginStartsRun, OtherRun
<1>2. ASSUME NEW x \in Client, Going(x),
             Proceed(x) \/ Terminate(x) \/ RoundTrip(x) \/ CrashRun(x)
      PROVE  c \notin aborted' /\ (Going(c)' => RunOK(c)')
  <2>1. c \in Client /\ c \in clean
    BY <1>2 DEF RunsInv, Proceed, Terminate, RoundTrip, CrashRun, Clean
  <2>2. CASE c # x
    <3>1. Apart(x) /\ ~Going(c)
      BY <1>2, <2>1, <2>2, StepsApart DEF Places
    <3> QED BY <2>1, <2>2, <3>1, OtherRun
  <2>3. CASE c = x
    <3>1. c \notin aborted /\ RunOK(c)
      BY <1>2, <2>1, <2>3 DEF RunsInv
    <3>2. CASE Proceed(c)
      BY <2>1, <3>1, <3>2, ProceedKeepsRun DEF Proceed
    <3>3. ~Terminate(c)
      BY <1>2, <2>1, <2>3, <3>1, JumpsToNext DEF Terminate
    <3>4. CASE RoundTrip(c)
      BY <2>1, <3>4, RoundTripKeepsRun
    <3>5. ~CrashRun(c)
      <4> SUFFICES ASSUME CrashRun(c) PROVE c \notin clean'
        OBVIOUS
      <4>1. faults' # faults
        BY DEF CrashRun, Crash, Fault, IInv, CountersOK
      <4> QED BY <4>1 DEF CrashRun, Clean
    <3> QED BY <1>2, <2>3, <3>2, <3>3, <3>4, <3>5
  <2> QED BY <2>2, <2>3
<1>3. ASSUME NEW x \in Client, RoundTrip(x) PROVE Going(x)
  BY <1>3, StepBusy DEF RoundTrip, Places, PlaceOK
<1>4. ASSUME NEW cmd \in inflight, LateCommand(cmd)
      PROVE  c \notin aborted' /\ (Going(c)' => RunOK(c)')
  <2>1. c \in clean /\ UNCHANGED <<pc, line, aborted>>
    BY <1>4 DEF LateCommand, Deliver
  <2>2. c \notin aborted /\ ~Going(c)
    BY <1>4, <2>1 DEF RunsInv, RunOK
  <2> QED BY <2>1, <2>2 DEF Going, Over, Returned
<1>5. ASSUME UNCHANGED sampleVars
      PROVE  c \notin aborted' /\ (Going(c)' => RunOK(c)')
  <2>1. c \in clean /\ UNCHANGED <<vars, line, aborted>>
    BY <1>5 DEF sampleVars
  <2>2. Going(c)' => Going(c)
    BY <2>1 DEF Going, Over, Returned, vars
  <2>3. RunOK(c) => RunOK(c)'
    BY <2>1, SameRun DEF vars
  <2> QED BY <2>1, <2>2, <2>3 DEF RunsInv
<1> QED BY <1>1, <1>2, <1>3, <1>4, <1>5
        DEF SampleNext, AllOver, Proceed, Terminate, CrashRun

\* A call that ended left nothing behind in the locals of the next.
LEMMA FreshWhenIdle ==
    ASSUME IInv, NEW c \in Client, Step(c), pc'[c] = "idle" PROVE loc'[c] = Fresh
<1>1. \A l, v : Goto(c, l, v) => pc'[c] = l
  BY GotoEffect
<1>2. \E s, k : ReturnKeys(c, s, k)
  BY <1>1, StepShape DEF Idle
<1> QED BY <1>2 DEF ReturnKeys, IInv, ClientsOK

LEMMA NextKeepsRest ==
    ASSUME IInv, IndexesOK, \A c \in Client : pc[c] = "idle" => loc[c] = Fresh,
           [Next]_vars
    PROVE  IndexesOK' /\ \A c \in Client : pc'[c] = "idle" => loc'[c] = Fresh
<1>1. ASSUME UNCHANGED <<users, groups, indexed>> PROVE IndexesOK'
  BY <1>1 DEF IndexesOK, Unique
<1>2. ASSUME NEW c \in Client, Step(c)
      PROVE  IndexesOK' /\ \A o \in Client : pc'[o] = "idle" => loc'[o] = Fresh
  BY <1>2, StepIndexes, OthersUntouched, FreshWhenIdle
<1>3. ASSUME NEW c \in Client, Invoke(c)
      PROVE  IndexesOK' /\ \A o \in Client : pc'[o] = "idle" => loc'[o] = Fresh
  BY <1>1, <1>3, InvokeEffect DEF Idle
<1>4. ASSUME NEW c \in Client, Crash(c)
      PROVE  IndexesOK' /\ \A o \in Client : pc'[o] = "idle" => loc'[o] = Fresh
  BY <1>1, <1>4 DEF Crash, IInv, ClientsOK
<1>5. ASSUME NEW cmd \in inflight, Deliver(cmd)
      PROVE  IndexesOK' /\ \A o \in Client : pc'[o] = "idle" => loc'[o] = Fresh
  BY <1>5, ExecuteIndexes DEF Deliver, IInv
<1>6. UNCHANGED vars =>
        IndexesOK' /\ \A o \in Client : pc'[o] = "idle" => loc'[o] = Fresh
  BY <1>1 DEF vars
<1> QED BY <1>2, <1>3, <1>4, <1>5, <1>6 DEF Next, Done

LEMMA NextKeepsRunsInv ==
    ASSUME IInv, DInv, Places, RunsInv, MaxAttempts > 1, [SampleNext]_sampleVars
    PROVE  RunsInv'
<1>1. IndexesOK' /\ \A c \in Client : pc'[c] = "idle" => loc'[c] = Fresh
  BY SampleStep, NextKeepsRest DEF RunsInv
<1>2. clean' \subseteq Client
  BY DEF RunsInv, SampleNext, Begin, Proceed, Terminate, RoundTrip, CrashRun,
         Clean, LateCommand, AllOver, sampleVars
<1> QED BY <1>1, <1>2, NextKeepsRuns DEF RunsInv

\* A run without failures has, after each of its statements, stored what the
\* script says, whatever was there before and whatever the width of the count;
\* with the count misread, each retry loop needs a second turn.
THEOREM RunsFollowed == ASSUME MaxAttempts > 1 PROVE SampleSpec => []RunsInv
<1>1. SampleInit => RunsInv
  <2> SUFFICES ASSUME SampleInit PROVE RunsInv
    OBVIOUS
  <2>1. IndexesOK
    BY InitKeys DEF SampleInit, KeysInv
  <2> QED BY <2>1 DEF SampleInit, Init, RunsInv
<1>2. IInv /\ DInv /\ Places /\ RunsInv /\ [SampleNext]_sampleVars => RunsInv'
  BY NextKeepsRunsInv
<1> QED BY <1>1, <1>2, SampleIsMongo, RunsTakeTurns, InductiveInvariant,
           DeletionFollowed, PTL DEF SampleSpec

-----------------------------------------------------------------------------
(* What the sample program prints *)

\* No exception of a run without failures is uncaught, whatever crashed or
\* terminated before it.
THEOREM CleanRunsReturn ==
    ASSUME MaxAttempts > 1 PROVE SampleSpec => []CleanRunReturns
<1>1. RunsInv => CleanRunReturns
  BY DEF RunsInv, CleanRunReturns
<1> QED BY <1>1, RunsFollowed, PTL

LEMMA CleanGoing ==
    ASSUME Places, RunsInv, NEW c \in clean, line[c] \in 1 .. Last
    PROVE  Going(c) /\ RunOK(c)
BY ScriptFacts DEF Places, PlaceOK, RunsInv, Going, Over, Returned

\* "Did a previous run fail?" (mongoclient.cpp:46) is printed only to a run that
\* met a command of an earlier one, or a failure of its own.
THEOREM UsersAreNew ==
    ASSUME MaxAttempts > 1 PROVE SampleSpec => []UserErrorMeansEarlierFailure
<1>1. Places /\ RunsInv => UserErrorMeansEarlierFailure
  <2> SUFFICES ASSUME Places, RunsInv, NEW c \in clean, line[c] \in {3, 4},
                      pc[c] = "idle"
               PROVE  result[c].status = "ok"
    BY DEF UserErrorMeansEarlierFailure
  <2>1. line[c] \in 1 .. Last
    BY ScriptFacts
  <2> QED BY <2>1, CleanGoing DEF RunOK, ResultOK
<1> QED BY <1>1, RunsFollowed, RunsTakeTurns, PTL

\* The index that init_indexes made refuses the second user1 of a run without
\* failures (mongoclient.cpp:83).
THEOREM UserAgainIsRefused ==
    ASSUME MaxAttempts > 1 PROVE SampleSpec => []SecondUserRefused
<1>1. Places /\ RunsInv => SecondUserRefused
  <2> SUFFICES ASSUME Places, RunsInv, NEW c \in clean, line[c] = AgainLine,
                      pc[c] = "idle"
               PROVE  result[c].status = "duplicate"
    BY DEF SecondUserRefused, AgainLine
  <2>1. line[c] \in 1 .. Last /\ Script[line[c]] = UserAgain
    BY ScriptFacts
  <2> QED BY <2>1, CleanGoing DEF RunOK, ResultOK
<1> QED BY <1>1, RunsFollowed, RunsTakeTurns, PTL

\* What is stored when the last statement is done.
LEMMA LastResult ==
    ASSUME After(Last)
    PROVE  /\ {decrypt_data(d.encname) : d \in groups} = {"group1", "group2"}
           /\ UNION {{e.name : e \in Range(d.users)} : d \in groups}
                = {salted_hash_name("user2", "group2")}
<1>1. Last > 9 /\ Among(SecondGroup, Last) /\ Among(Deletion, Last)
  BY ScriptFacts DEF Among
<1>2. /\ \A d \in groups : GroupOK(d)
      /\ Exists("group1") /\ InGroup("user2", "group2") /\ Out("user1")
  BY <1>1, ScriptFacts DEF After, GroupsAfter
<1>3. PICK d1 \in groups : decrypt_data(d1.encname) = "group1"
  BY <1>2 DEF Exists, GroupOK, hash_name
<1>4. PICK d2 \in groups : /\ decrypt_data(d2.encname) = "group2"
                           /\ HasUser(d2, salted_hash_name("user2", "group2"))
  BY <1>2 DEF InGroup, GroupOK, hash_name
<1>5. ASSUME NEW d \in groups, NEW e \in Range(d.users)
      PROVE  e.name = salted_hash_name("user2", "group2")
  BY <1>2 DEF GroupOK, MemberOK, Out, HasUser
<1>6. {decrypt_data(d.encname) : d \in groups} = {"group1", "group2"}
  BY <1>2, <1>3, <1>4 DEF GroupOK
<1>7. UNION {{e.name : e \in Range(d.users)} : d \in groups}
        = {salted_hash_name("user2", "group2")}
  BY <1>4, <1>5 DEF HasUser
<1> QED BY <1>6, <1>7

\* A run without failures ends with user2 in group2, and nobody else anywhere.
THEOREM CleanRunsLeaveUser2 ==
    ASSUME MaxAttempts > 1 PROVE SampleSpec => CleanRunResult
<1>1. IInv /\ Places /\ RunsInv /\ [SampleNext]_sampleVars =>
        [\A c \in clean : line[c] <= Last /\ line'[c] > Last =>
           /\ {decrypt_data(d.encname) : d \in groups} = {"group1", "group2"}
           /\ UNION {{e.name : e \in Range(d.users)} : d \in groups}
                = {salted_hash_name("user2", "group2")}]_sampleVars
  <2> SUFFICES ASSUME IInv, Places, RunsInv, SampleNext,
                      NEW c \in clean, line[c] <= Last, line'[c] > Last
               PROVE  After(Last)
    BY LastResult
  <2>1. c \in Client /\ line[c] \in 0 .. Last + 1 /\ line[c] > 0
    BY DEF RunsInv, Places, PlaceOK
  <2>2. Going(c) /\ RunOK(c)
    BY <2>1, CleanGoing, ScriptFacts
  <2>3. \A x \in Client : ~Begin(x)
    BY <2>1, <2>2 DEF Begin
  <2>4. line' # line
    BY <2>1, ScriptFacts
  <2>5. PICK x \in Client : Proceed(x)
    BY <2>3, <2>4 DEF SampleNext, Terminate, RoundTrip, CrashRun, LateCommand,
                      AllOver, sampleVars
  <2>6. x = c
    BY <2>1, <2>2, <2>5 DEF Proceed, Places
  <2>7. pc[c] = "idle" /\ line'[c] = line[c] + 1
    BY <2>1, <2>2, <2>5, <2>6, JumpsToNext DEF Proceed, Places
  <2>8. done(c) = Last
    BY <2>1, <2>7, ScriptFacts DEF done
  <2> QED BY <2>2, <2>8 DEF RunOK, After
<1> QED BY <1>1, RunsFollowed, RunsTakeTurns, SampleIsMongo, InductiveInvariant, PTL
        DEF SampleSpec, CleanRunResult

=============================================================================

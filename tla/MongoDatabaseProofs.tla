------------------------ MODULE MongoDatabaseProofs -------------------------
(***************************************************************************)
(* Theorems about MongoDatabase that hold for every number of clients,     *)
(* users, groups, attempts, calls and faults: type correctness, validity   *)
(* of every stored signature, and uniqueness of members.                   *)
(*                                                                         *)
(* Then the retry loops of add_user_to_group and remove_user_from_group,   *)
(* which give up only when others keep changing the group.  The argument   *)
(* counts the turns a call has used against the changes others made under  *)
(* it (rivals).  A turn whose update matched nothing had its document      *)
(* changed by somebody else.  Where the count is misread (CountWidth = 32) *)
(* a turn whose update did match is used up too, but then no document of   *)
(* the group matches the selector of the next read until somebody else     *)
(* changes the group.                                                      *)
(***************************************************************************)
EXTENDS MongoDatabase, WellFoundedInduction, TLAPS

LocalState == [key : KeyCipher \cup {None}, held : SUBSET GroupDoc,
               unread : SUBSET NameCipher, attempts : 1 .. MaxAttempts]

\* A write command, wherever it was computed: an insert carries a signed
\* document, an update the signature of what it turns the signed content into.
CommandOK(cmd) ==
    /\ cmd \in WriteCommand
    /\ cmd.kind = "insert_user" => ValidUserDoc(cmd.doc)
    /\ cmd.kind = "insert_group" =>
         /\ validate_group_signature(cmd.doc)
         /\ DistinctMembers(cmd.doc)
    /\ cmd.kind = "push" =>
         cmd.new = group_hmac(cmd.old[1], cmd.old[2], Append(cmd.old[3], cmd.entry))
    /\ cmd.kind = "pull" =>
         cmd.new = group_hmac(cmd.old[1], cmd.old[2], Without(cmd.old[3], cmd.user))
    /\ cmd.kind = "pull_exact" => cmd.new = signature_without(cmd.doc, cmd.user)

DataOK ==
    /\ users \subseteq UserDoc
    /\ groups \subseteq GroupDoc
    /\ indexed \subseteq Collection
    /\ SignaturesValid
    /\ UniqueMembers

InflightOK == \A cmd \in inflight : CommandOK(cmd)

\* The state of one client between two of its round trips.
LocalOK(c) ==
    /\ \/ pc[c] \in Idle
       \/ call[c] # None /\ pc[c] \in Stages(call[c].op)
    /\ \A d \in loc[c].held : validate_group_signature(d)
    /\ pc[c] \in {"insert_group", "add_find", "add_update"}
         => loc[c].key \in KeyCipher

ClientsOK ==
    /\ pc \in [Client -> Labels]
    /\ loc \in [Client -> LocalState]
    /\ result \in [Client -> [status : Statuses, keys : SUBSET SizedKey]]
    /\ \A c \in Client : LocalOK(c)

CountersOK ==
    /\ call \in [Client -> Calls \cup {None}]
    /\ seq \in [Client -> 0 .. MaxCalls]
    /\ faults \in 0 .. MaxFaults
    /\ rivals \in [Client -> 0 .. MaxAttempts]

\* The inductive invariant.
IInv == DataOK /\ InflightOK /\ ClientsOK /\ CountersOK

-----------------------------------------------------------------------------
(* The array of entries of a group document *)

\* Induction over 0 .. n.
LEMMA Counting ==
    ASSUME NEW n \in Nat, NEW T, 0 \in T, \A i \in 1 .. n : i - 1 \in T => i \in T
    PROVE  \A i \in 0 .. n : i \in T
<1> DEFINE R == OpToRel(<, Nat)
           U == {i \in 0 .. n : i \notin T}
<1>1. IsWellFoundedOn(R, Nat)
  BY Zenon, NatLessThanWellFounded
<1>2. \A x, y \in Nat : <<x, y>> \in R <=> x < y
  BY DEF OpToRel
<1> SUFFICES ASSUME U # {} PROVE FALSE
  OBVIOUS
<1> HIDE DEF R
<1>3. U \subseteq Nat
  OBVIOUS
<1> HIDE DEF U
<1>4. PICK x \in U : \A y \in U : ~(<<y, x>> \in R)
  BY <1>1, <1>3, WFMin
<1> USE DEF U
<1>5. x \in 1 .. n /\ x - 1 \in 0 .. n
  OBVIOUS
<1>6. x - 1 \in U
  BY <1>5
<1>7. <<x - 1, x>> \in R
  BY <1>2, <1>5
<1> QED BY <1>4, <1>6, <1>7

\* An entry at the end is one entry more.
LEMMA AppendRange ==
    ASSUME NEW S, NEW s \in Seq(S), NEW x \in S
    PROVE  /\ Append(s, x) \in Seq(S)
           /\ Range(Append(s, x)) = Range(s) \cup {x}
<1> DEFINE t == Append(s, x)
<1>1. /\ t \in Seq(S) /\ DOMAIN t = 1 .. Len(s) + 1 /\ DOMAIN s = 1 .. Len(s)
      /\ \A i \in 1 .. Len(s) : t[i] = s[i]
      /\ t[Len(s) + 1] = x /\ Len(s) \in Nat
  OBVIOUS
<1> HIDE DEF t
<1>2. 1 .. Len(s) + 1 = (1 .. Len(s)) \cup {Len(s) + 1}
  BY <1>1
<1> QED BY <1>1, <1>2 DEF Range, t

\* The loop of Without: what is kept of the first i entries.
Keeping(entries, name, kept, n) ==
    /\ kept \in [0 .. n -> Seq(Range(entries))]
    /\ kept[0] = <<>>
    /\ \A i \in 1 .. n :
         kept[i] = IF entries[i].name = name THEN kept[i - 1]
                                             ELSE Append(kept[i - 1], entries[i])

\* The recursive function of Without exists.
LEMMA KeptExists ==
    ASSUME NEW S, NEW entries \in Seq(S), NEW name
    PROVE  \E kept : Keeping(entries, name, kept, Len(entries))
<1> DEFINE T == {m \in 0 .. Len(entries) : \E f : Keeping(entries, name, f, m)}
<1>1. 0 \in T
  <2>1. Keeping(entries, name, [i \in 0 .. 0 |-> <<>>], 0)
    BY DEF Keeping
  <2> QED BY <2>1
<1>2. ASSUME NEW m \in 1 .. Len(entries), m - 1 \in T PROVE m \in T
  <2>1. PICK f : Keeping(entries, name, f, m - 1)
    BY <1>2
  <2> DEFINE new == IF entries[m].name = name THEN f[m - 1]
                                              ELSE Append(f[m - 1], entries[m])
             g == [i \in 0 .. m |-> IF i < m THEN f[i] ELSE new]
  <2>2. f[m - 1] \in Seq(Range(entries)) /\ entries[m] \in Range(entries)
    BY <2>1 DEF Keeping, Range
  <2>3. new \in Seq(Range(entries))
    BY <2>2
  <2> HIDE DEF new
  <2>4. g \in [0 .. m -> Seq(Range(entries))] /\ g[0] = <<>>
    BY <2>1, <2>3 DEF Keeping
  <2>5. ASSUME NEW i \in 1 .. m
        PROVE  g[i] = IF entries[i].name = name THEN g[i - 1]
                                                ELSE Append(g[i - 1], entries[i])
    <3>1. i - 1 \in 0 .. m /\ i - 1 < m /\ g[i - 1] = f[i - 1]
      OBVIOUS
    <3>2. CASE i < m
      BY <2>1, <3>1, <3>2 DEF Keeping
    <3>3. CASE i = m
      BY <3>1, <3>3 DEF new
    <3> QED BY <3>2, <3>3
  <2> HIDE DEF g
  <2>6. Keeping(entries, name, g, m)
    BY <2>4, <2>5 DEF Keeping
  <2> QED BY <2>6
<1> HIDE DEF T
<1>3. Len(entries) \in T
  <2> DEFINE n == Len(entries)
  <2>1. n \in Nat /\ n \in 0 .. n
    OBVIOUS
  <2>2. \A m \in 1 .. n : m - 1 \in T => m \in T
    BY <1>2
  <2> HIDE DEF n
  <2>3. \A m \in 0 .. n : m \in T
    BY <1>1, <2>1, <2>2, Counting
  <2> QED BY <2>1, <2>3 DEF n
<1> QED BY <1>3 DEF T

\* What Without returns is the last value of that function.
LEMMA WithoutKeeps ==
    ASSUME NEW S, NEW entries \in Seq(S), NEW name
    PROVE  \E kept : /\ Keeping(entries, name, kept, Len(entries))
                     /\ Without(entries, name) = kept[Len(entries)]
<1> DEFINE F(f) == [i \in 0 .. Len(entries) |->
                      IF i = 0 THEN <<>>
                      ELSE IF entries[i].name = name THEN f[i - 1]
                      ELSE Append(f[i - 1], entries[i])]
           kept == CHOOSE f : f = F(f)
<1>1. Without(entries, name) = kept[Len(entries)]
  BY DEF Without
<1>2. PICK g : Keeping(entries, name, g, Len(entries))
  BY KeptExists
<1>3. g = F(g)
  <2>1. /\ DOMAIN g = 0 .. Len(entries)
        /\ g = [i \in 0 .. Len(entries) |-> g[i]]
    BY <1>2 DEF Keeping
  <2>2. g[0] = F(g)[0]
    BY <1>2 DEF Keeping
  <2>3. ASSUME NEW i \in 1 .. Len(entries) PROVE g[i] = F(g)[i]
    <3>1. i \in 0 .. Len(entries) /\ i # 0
      OBVIOUS
    <3> QED BY <1>2, <3>1 DEF Keeping
  <2>4. \A i \in 0 .. Len(entries) : i = 0 \/ i \in 1 .. Len(entries)
    OBVIOUS
  <2> HIDE DEF F
  <2>5. \A i \in 0 .. Len(entries) : g[i] = F(g)[i]
    BY <2>2, <2>3, <2>4
  <2>6. F(g) = [i \in 0 .. Len(entries) |-> F(g)[i]]
    BY DEF F
  <2> QED BY <2>1, <2>5, <2>6
<1> HIDE DEF F
<1>4. kept = F(kept)
  BY <1>3
<1> HIDE DEF kept
<1> DEFINE T == {i \in 0 .. Len(entries) : kept[i] \in Seq(Range(entries))}
<1>5. \A i \in 0 .. Len(entries) : kept[i] = F(kept)[i]
  BY <1>4
<1>6. kept[0] = <<>> /\ 0 \in T
  <2>1. 0 \in 0 .. Len(entries)
    OBVIOUS
  <2>2. kept[0] = <<>>
    BY <1>5, <2>1 DEF F
  <2>3. <<>> \in Seq(Range(entries))
    OBVIOUS
  <2> QED BY <2>1, <2>2, <2>3
<1>7. ASSUME NEW i \in 1 .. Len(entries)
      PROVE  kept[i] = IF entries[i].name = name THEN kept[i - 1]
                                                 ELSE Append(kept[i - 1], entries[i])
  <2>1. i \in 0 .. Len(entries) /\ i # 0 /\ kept[i] = F(kept)[i]
    BY <1>5
  <2> QED BY <2>1 DEF F
<1>8. ASSUME NEW i \in 1 .. Len(entries), i - 1 \in T PROVE i \in T
  <2>1. kept[i - 1] \in Seq(Range(entries)) /\ entries[i] \in Range(entries)
    BY <1>8 DEF Range
  <2>2. Append(kept[i - 1], entries[i]) \in Seq(Range(entries))
    BY <2>1
  <2>3. kept[i] \in Seq(Range(entries))
    BY <1>7, <2>1, <2>2
  <2> QED BY <2>3
<1> HIDE DEF T
<1>9. \A i \in 0 .. Len(entries) : i \in T
  <2> DEFINE n == Len(entries)
  <2>1. n \in Nat
    OBVIOUS
  <2>2. \A i \in 1 .. n : i - 1 \in T => i \in T
    BY <1>8
  <2> HIDE DEF n
  <2>3. \A i \in 0 .. n : i \in T
    BY <1>6, <2>1, <2>2, Counting
  <2> QED BY <2>3 DEF n
<1>10. kept \in [0 .. Len(entries) -> Seq(Range(entries))]
  <2>1. kept = [i \in 0 .. Len(entries) |-> kept[i]]
    BY <1>4 DEF F
  <2> QED BY <1>9, <2>1 DEF T
<1>11. Keeping(entries, name, kept, Len(entries))
  BY <1>6, <1>7, <1>10 DEF Keeping
<1> QED BY <1>1, <1>11

Distinct(entries) ==
    \A i, j \in DOMAIN entries : entries[i].name = entries[j].name => i = j

\* Without leaves out the entries of one user and keeps the others; what was
\* distinct stays so.
LEMMA WithoutEntries ==
    ASSUME NEW S, NEW entries \in Seq(S), NEW name
    PROVE  /\ Without(entries, name) \in Seq(S)
           /\ Range(Without(entries, name)) = {e \in Range(entries) : e.name # name}
           /\ Distinct(entries) => Distinct(Without(entries, name))
<1>1. PICK kept : /\ Keeping(entries, name, kept, Len(entries))
                  /\ Without(entries, name) = kept[Len(entries)]
  BY WithoutKeeps
<1> DEFINE n == Len(entries)
           Left(i) == {entries[j] : j \in {k \in 1 .. i : entries[k].name # name}}
           T == {i \in 0 .. n : /\ kept[i] \in Seq(S)
                                /\ Range(kept[i]) = Left(i)
                                /\ Distinct(entries) => Distinct(kept[i])}
<1>2. 0 \in T
  <2>1. kept[0] = <<>>
    BY <1>1 DEF Keeping
  <2>2. Left(0) = {} /\ Range(<<>>) = {} /\ Distinct(<<>>) /\ <<>> \in Seq(S)
    BY DEF Range, Distinct
  <2>3. 0 \in 0 .. n
    OBVIOUS
  <2> HIDE DEF Left
  <2> QED BY <2>1, <2>2, <2>3
<1>3. ASSUME NEW i \in 1 .. n, i - 1 \in T PROVE i \in T
  <2> DEFINE s == kept[i - 1]
             x == entries[i]
  <2>1. s \in Seq(S) /\ Range(s) = Left(i - 1) /\ (Distinct(entries) => Distinct(s))
    BY <1>3
  <2>2. x \in S
    OBVIOUS
  <2>3. 1 .. i = (1 .. i - 1) \cup {i}
    OBVIOUS
  <2>4. kept[i] = IF x.name = name THEN s ELSE Append(s, x)
    BY <1>1 DEF Keeping
  <2>5. CASE x.name = name
    BY <2>1, <2>3, <2>4, <2>5
  <2>6. CASE x.name # name
    <3>1. /\ kept[i] = Append(s, x) /\ kept[i] \in Seq(S)
          /\ Range(kept[i]) = Range(s) \cup {x}
      BY <2>1, <2>2, <2>4, <2>6, AppendRange
    <3>2. Left(i) = Left(i - 1) \cup {x}
      BY <2>3, <2>6
    <3>3. ASSUME Distinct(entries) PROVE Distinct(kept[i])
      <4>1. \A e \in Range(s) : e.name # x.name
        BY <2>1, <3>3 DEF Distinct
      <4>2. \A j \in 1 .. Len(s) : s[j].name # x.name
        BY <2>1, <4>1 DEF Range
      <4>3. Distinct(s)
        BY <2>1, <3>3
      <4> HIDE DEF s, x
      <4> QED BY <2>1, <2>2, <3>1, <4>2, <4>3 DEF Distinct
    <3>4. i \in 0 .. n
      OBVIOUS
    <3> HIDE DEF Left, s, x, n
    <3> QED BY <2>1, <3>1, <3>2, <3>3, <3>4
  <2> QED BY <2>5, <2>6
<1> HIDE DEF T
<1>4. n \in T
  <2>1. n \in Nat /\ n \in 0 .. n
    OBVIOUS
  <2>2. \A i \in 1 .. n : i - 1 \in T => i \in T
    BY <1>3
  <2> HIDE DEF n
  <2>3. \A i \in 0 .. n : i \in T
    BY <1>2, <2>1, <2>2, Counting
  <2> QED BY <2>1, <2>3
<1>5. Left(n) = {e \in Range(entries) : e.name # name}
  BY DEF Range
<1> QED BY <1>1, <1>4, <1>5 DEF T

\* Of two entries of one user both are the same entry.
LEMMA DistinctEntries ==
    ASSUME NEW entries, Distinct(entries)
    PROVE  \A e, f \in Range(entries) : e.name = f.name => e = f
BY DEF Distinct, Range

-----------------------------------------------------------------------------
(* The documents *)

LEMMA PushedValid ==
    ASSUME NEW d \in GroupDoc, NEW entry \in Entry, NEW new,
           new = signature_with(d, entry), ~HasUser(d, entry.name),
           DistinctMembers(d)
    PROVE  LET p == Pushed(d, entry, new)
           IN  /\ p \in GroupDoc
               /\ validate_group_signature(p)
               /\ DistinctMembers(p)
<1> DEFINE p == Pushed(d, entry, new)
<1>1. new = <<d.name, d.encname, Append(d.users, entry)>>
  BY DEF signature_with, group_hmac
<1>2. /\ p.name = d.name /\ p.encname = d.encname
      /\ p.users = Append(d.users, entry) /\ p.signature = new
  BY DEF Pushed, GroupDoc
<1>3. p \in GroupDoc
  <2> DEFINE more == Append(d.users, entry)
  <2>1. more \in Seq(Entry)
    BY DEF GroupDoc
  <2>2. new = <<d.name, d.encname, more>>
    BY <1>1
  <2>3. p = [d EXCEPT !.users = more, !.signature = new]
    BY DEF Pushed
  <2> HIDE DEF p, more
  <2>4. new \in GroupSignature
    BY <2>1, <2>2 DEF GroupDoc, GroupSignature
  <2> QED BY <2>1, <2>3, <2>4 DEF GroupDoc
<1>4. validate_group_signature(p)
  BY <1>1, <1>2 DEF validate_group_signature, compute_group_signature, group_hmac
<1>5. DistinctMembers(p)
  <2>1. d.users \in Seq(Entry)
    BY DEF GroupDoc
  <2>2. \A i \in DOMAIN d.users : d.users[i].name # entry.name
    BY DEF HasUser, Range
  <2> QED BY <1>2, <2>1, <2>2 DEF DistinctMembers
<1> QED BY <1>3, <1>4, <1>5

LEMMA PulledValid ==
    ASSUME NEW d \in GroupDoc, NEW user \in HashedUser, NEW new,
           new = signature_without(d, user),
           DistinctMembers(d)
    PROVE  LET p == Pulled(d, user, new)
           IN  /\ p \in GroupDoc
               /\ validate_group_signature(p)
               /\ DistinctMembers(p)
<1> DEFINE p == Pulled(d, user, new)
<1>1. new = <<d.name, d.encname, Without(d.users, user)>>
  BY DEF signature_without, group_hmac
<1>2. /\ p.name = d.name /\ p.encname = d.encname
      /\ p.users = Without(d.users, user) /\ p.signature = new
  BY DEF Pulled, GroupDoc
<1>3. /\ Without(d.users, user) \in Seq(Entry)
      /\ Distinct(d.users) => Distinct(Without(d.users, user))
  BY WithoutEntries DEF GroupDoc
<1>4. p \in GroupDoc
  <2>1. new \in GroupSignature
    BY <1>1, <1>3 DEF GroupDoc, GroupSignature
  <2> QED BY <1>3, <2>1 DEF Pulled, GroupDoc
<1>5. validate_group_signature(p)
  BY <1>1, <1>2 DEF validate_group_signature, compute_group_signature, group_hmac
<1>6. DistinctMembers(p)
  BY <1>2, <1>3 DEF DistinctMembers, Distinct
<1> QED BY <1>4, <1>5, <1>6

\* What an update does to the names and the entries of a document.
LEMMA PushedMembers ==
    ASSUME NEW d \in GroupDoc, NEW entry \in Entry, NEW sig, NEW p,
           p = Pushed(d, entry, sig)
    PROVE  /\ p.name = d.name /\ p.encname = d.encname
           /\ Range(p.users) = Range(d.users) \cup {entry}
<1>1. d.users \in Seq(Entry)
  BY DEF GroupDoc
<1>2. /\ p.name = d.name /\ p.encname = d.encname
      /\ p.users = Append(d.users, entry)
  BY DEF Pushed, GroupDoc
<1>3. Range(Append(d.users, entry)) = Range(d.users) \cup {entry}
  BY <1>1, AppendRange
<1> QED BY <1>2, <1>3

LEMMA PulledMembers ==
    ASSUME NEW d \in GroupDoc, NEW name, NEW sig, NEW p, p = Pulled(d, name, sig)
    PROVE  /\ p.name = d.name /\ p.encname = d.encname
           /\ Range(p.users) = {e \in Range(d.users) : e.name # name}
<1>1. d.users \in Seq(Entry)
  BY DEF GroupDoc
<1>2. /\ p.name = d.name /\ p.encname = d.encname
      /\ p.users = Without(d.users, name)
  BY DEF Pulled, GroupDoc
<1>3. Range(Without(d.users, name)) = {e \in Range(d.users) : e.name # name}
  BY <1>1, WithoutEntries
<1> QED BY <1>2, <1>3

\* The one entry of a new group.
LEMMA OneEntry == \A e : Range(<<e>>) = {e}
BY DEF Range

LEMMA ReplaceOK ==
    ASSUME DataOK, NEW old, NEW new \in GroupDoc, Replace(old, new),
           validate_group_signature(new),
           DistinctMembers(new),
           UNCHANGED <<users, indexed>>
    PROVE  DataOK'
<1>1. groups' \subseteq groups \cup {new}
  BY DEF Replace
<1>2. \A d \in groups' : validate_group_signature(d)
  BY <1>1 DEF DataOK, SignaturesValid
<1>3. \A d \in groups' : DistinctMembers(d)
  BY <1>1 DEF DataOK, UniqueMembers
<1>4. groups' \subseteq GroupDoc
  BY <1>1 DEF DataOK
<1> QED BY <1>2, <1>3, <1>4 DEF DataOK, SignaturesValid, UniqueMembers

-----------------------------------------------------------------------------
(* The server *)

LEMMA InsertOK ==
    ASSUME DataOK, NEW cmd, CommandOK(cmd), NEW n, ExecuteInsert(cmd, n)
    PROVE  DataOK'
<1>1. CASE cmd.kind = "insert_user"
  <2>1. cmd.doc \in UserDoc /\ ValidUserDoc(cmd.doc)
    BY <1>1 DEF CommandOK, WriteCommand
  <2>2. users' \subseteq users \cup {cmd.doc} /\ UNCHANGED <<groups, indexed>>
    BY <1>1 DEF ExecuteInsert
  <2> QED BY <2>1, <2>2 DEF DataOK, SignaturesValid, UniqueMembers
<1>2. CASE cmd.kind = "insert_group"
  <2>1. /\ cmd.doc \in GroupDoc /\ validate_group_signature(cmd.doc)
        /\ DistinctMembers(cmd.doc)
    BY <1>2 DEF CommandOK, WriteCommand
  <2>2. groups' \subseteq groups \cup {cmd.doc} /\ UNCHANGED <<users, indexed>>
    BY <1>2 DEF ExecuteInsert
  <2> QED BY <2>1, <2>2 DEF DataOK, SignaturesValid, UniqueMembers
<1> QED BY <1>1, <1>2 DEF ExecuteInsert

LEMMA PushOK ==
    ASSUME DataOK, NEW cmd, CommandOK(cmd), NEW n, ExecutePush(cmd, n)
    PROVE  DataOK'
<1>1. CASE UNCHANGED groups
  BY <1>1 DEF ExecutePush, DataOK, SignaturesValid, UniqueMembers
<1>2. CASE \E d \in groups : /\ PushMatches(d, cmd)
                             /\ Replace(d, Pushed(d, cmd.entry, cmd.new))
  <2>1. PICK d \in groups : /\ PushMatches(d, cmd)
                            /\ Replace(d, Pushed(d, cmd.entry, cmd.new))
    BY <1>2
  <2>2. cmd.kind = "push"
    BY DEF ExecutePush
  <2>3. cmd.entry \in Entry
    BY <2>2 DEF CommandOK, WriteCommand
  <2>4. cmd.new = group_hmac(cmd.old[1], cmd.old[2], Append(cmd.old[3], cmd.entry))
    BY <2>2 DEF CommandOK
  <2>5. /\ d \in GroupDoc /\ validate_group_signature(d) /\ d.signature = cmd.old
        /\ ~HasUser(d, cmd.entry.name)
        /\ DistinctMembers(d)
    BY <2>1 DEF DataOK, SignaturesValid, UniqueMembers, PushMatches, AddMatches
  <2>6. cmd.new = signature_with(d, cmd.entry)
    BY <2>4, <2>5 DEF validate_group_signature, compute_group_signature,
                      signature_with, group_hmac
  <2> DEFINE p == Pushed(d, cmd.entry, cmd.new)
  <2>7. /\ p \in GroupDoc /\ validate_group_signature(p)
        /\ DistinctMembers(p)
    BY <2>3, <2>5, <2>6, PushedValid
  <2>8. UNCHANGED <<users, indexed>>
    BY DEF ExecutePush
  <2> QED BY <2>1, <2>7, <2>8, ReplaceOK
<1> QED BY <1>1, <1>2 DEF ExecutePush

LEMMA PullOK ==
    ASSUME DataOK, NEW cmd, CommandOK(cmd), NEW n, ExecutePull(cmd, n)
    PROVE  DataOK'
<1>1. CASE UNCHANGED groups
  BY <1>1 DEF ExecutePull, DataOK, SignaturesValid, UniqueMembers
<1>2. CASE \E d \in groups : /\ PullMatches(d, cmd)
                             /\ Replace(d, Pulled(d, cmd.user, cmd.new))
  <2>1. PICK d \in groups : /\ PullMatches(d, cmd)
                            /\ Replace(d, Pulled(d, cmd.user, cmd.new))
    BY <1>2
  <2>2. cmd.kind = "pull"
    BY DEF ExecutePull
  <2>3. cmd.user \in HashedUser
    BY <2>2 DEF CommandOK, WriteCommand
  <2>4. cmd.new = group_hmac(cmd.old[1], cmd.old[2], Without(cmd.old[3], cmd.user))
    BY <2>2 DEF CommandOK
  <2>5. /\ d \in GroupDoc /\ validate_group_signature(d) /\ d.signature = cmd.old
        /\ DistinctMembers(d)
    BY <2>1 DEF DataOK, SignaturesValid, UniqueMembers, PullMatches
  <2>6. cmd.new = signature_without(d, cmd.user)
    BY <2>4, <2>5 DEF validate_group_signature, compute_group_signature,
                      signature_without, group_hmac
  <2> DEFINE p == Pulled(d, cmd.user, cmd.new)
  <2>7. /\ p \in GroupDoc /\ validate_group_signature(p)
        /\ DistinctMembers(p)
    BY <2>3, <2>5, <2>6, PulledValid
  <2>8. UNCHANGED <<users, indexed>>
    BY DEF ExecutePull
  <2> QED BY <2>1, <2>7, <2>8, ReplaceOK
<1> QED BY <1>1, <1>2 DEF ExecutePull

LEMMA PullExactOK ==
    ASSUME DataOK, NEW cmd, CommandOK(cmd), NEW n, ExecutePullExact(cmd, n)
    PROVE  DataOK'
<1>1. CASE UNCHANGED groups
  BY <1>1 DEF ExecutePullExact, DataOK, SignaturesValid, UniqueMembers
<1>2. CASE /\ cmd.doc \in groups
           /\ Replace(cmd.doc, Pulled(cmd.doc, cmd.user, cmd.new))
  <2>1. cmd.kind = "pull_exact"
    BY DEF ExecutePullExact
  <2>2. cmd.user \in HashedUser /\ cmd.doc \in GroupDoc
    BY <2>1 DEF CommandOK, WriteCommand
  <2>3. cmd.new = signature_without(cmd.doc, cmd.user)
    BY <2>1 DEF CommandOK
  <2>4. DistinctMembers(cmd.doc)
    BY <1>2 DEF DataOK, UniqueMembers
  <2> DEFINE p == Pulled(cmd.doc, cmd.user, cmd.new)
  <2>5. /\ p \in GroupDoc /\ validate_group_signature(p)
        /\ DistinctMembers(p)
    BY <2>2, <2>3, <2>4, PulledValid
  <2>6. UNCHANGED <<users, indexed>>
    BY DEF ExecutePullExact
  <2> QED BY <1>2, <2>5, <2>6, ReplaceOK
<1> QED BY <1>1, <1>2 DEF ExecutePullExact

\* A command that is well formed keeps the stored data valid, whenever the
\* server executes it.
LEMMA ExecuteOK ==
    ASSUME DataOK, NEW cmd, CommandOK(cmd), NEW n, Execute(cmd, n)
    PROVE  DataOK'
<1>1. CASE ExecuteDelete(cmd, n)
  <2>1. users' \subseteq users /\ groups' \subseteq groups /\ UNCHANGED indexed
    BY <1>1 DEF ExecuteDelete
  <2> QED BY <2>1 DEF DataOK, SignaturesValid, UniqueMembers
<1>2. CASE ExecuteIndex(cmd, n)
  <2>1. cmd.on \in Collection
    BY <1>2 DEF ExecuteIndex, CommandOK, WriteCommand
  <2>2. indexed' \subseteq indexed \cup {cmd.on} /\ UNCHANGED <<users, groups>>
    BY <1>2 DEF ExecuteIndex
  <2> QED BY <2>1, <2>2 DEF DataOK, SignaturesValid, UniqueMembers
<1> QED BY <1>1, <1>2, InsertOK, PushOK, PullOK, PullExactOK DEF Execute

-----------------------------------------------------------------------------
(* The clients *)

\* What one action of a client, or of the server, must preserve.
StepOK == DataOK' /\ InflightOK' /\ ClientsOK' /\ faults' \in 0 .. MaxFaults

\* Which call a client is in, told by its next round trip.
LEMMA CallOfStage ==
    ASSUME IInv, NEW c \in Client, pc[c] \notin Idle
    PROVE  /\ call[c] # None
           /\ pc[c] \in Stages(call[c].op)
           /\ pc[c] = "create_user" =>
                /\ call[c].op = "create_user"
                /\ call[c].user \in User /\ call[c].key \in Key
           /\ pc[c] = "reencrypt" =>
                /\ call[c].op \in {"add_user_to_group", "create_group"}
                /\ call[c].group \in Group /\ call[c].user \in User
           /\ pc[c] = "insert_group" =>
                /\ call[c].op = "create_group"
                /\ call[c].group \in Group /\ call[c].user \in User
           /\ pc[c] \in {"add_find", "add_update"} =>
                /\ call[c].op \in {"add_user_to_group", "create_group"}
                /\ call[c].group \in Group /\ call[c].user \in User
           /\ pc[c] \in {"remove_find", "remove_update"} =>
                /\ call[c].op = "remove_user_from_group"
                /\ call[c].group \in Group /\ call[c].user \in User
           /\ pc[c] \in {"scan_open", "scan", "bulk", "delete_user"} =>
                call[c].op = "delete_user" /\ call[c].user \in User
           /\ pc[c] \in {"delete_users", "delete_groups"} =>
                call[c].op = "delete_all_data"
           /\ pc[c] \in {"index_users", "index_groups"} =>
                call[c].op = "init_indexes"
<1>1. call[c] # None /\ pc[c] \in Stages(call[c].op)
  BY DEF IInv, ClientsOK, LocalOK
<1>2. call[c] \in Calls
  BY <1>1 DEF IInv, CountersOK
<1>3. CASE call[c] \in [op : GroupUserOps, group : Group, user : User]
  BY <1>1, <1>3 DEF Stages, GroupUserOps
<1>4. CASE call[c] \in [op : {"delete_user"}, user : User]
  BY <1>1, <1>4 DEF Stages
<1>5. CASE call[c] \in [op : {"create_user"}, user : User, key : Key]
  BY <1>1, <1>5 DEF Stages
<1>6. CASE call[c] \in [op : {"get_keys_of_group"}, group : Group]
  BY <1>1, <1>6 DEF Stages
<1>7. CASE call[c] \in [op : {"delete_all_data", "init_indexes", "ping"}]
  BY <1>1, <1>7 DEF Stages
<1> QED BY <1>2, <1>3, <1>4, <1>5, <1>6, <1>7 DEF Calls

LEMMA GotoOK ==
    ASSUME ClientsOK, UNCHANGED call, NEW c \in Client, call[c] # None,
           NEW label \in Stages(call[c].op), label \in Labels,
           NEW local \in LocalState, Goto(c, label, local),
           \A d \in local.held : validate_group_signature(d),
           label \in {"insert_group", "add_find", "add_update"}
             => local.key \in KeyCipher
    PROVE  ClientsOK'
<1>1. /\ pc' \in [Client -> Labels] /\ loc' \in [Client -> LocalState]
      /\ UNCHANGED result
  BY DEF ClientsOK, Goto
<1>2. /\ pc'[c] = label /\ loc'[c] = local
      /\ \A o \in Client \ {c} : pc'[o] = pc[o] /\ loc'[o] = loc[o]
  BY DEF ClientsOK, Goto
<1>3. LocalOK(c)'
  BY <1>2 DEF LocalOK
<1>4. \A o \in Client \ {c} : LocalOK(o)'
  BY <1>2 DEF ClientsOK, LocalOK
<1> QED BY <1>1, <1>3, <1>4 DEF ClientsOK

LEMMA FreshOK == Fresh \in LocalState /\ Fresh.held = {}
BY MongoConstants DEF Fresh, LocalState

LEMMA ReturnKeysOK ==
    ASSUME ClientsOK, UNCHANGED call, NEW c \in Client, NEW status \in Statuses,
           NEW keys \in SUBSET SizedKey, ReturnKeys(c, status, keys)
    PROVE  ClientsOK'
<1>1. /\ pc' \in [Client -> Labels] /\ loc' \in [Client -> LocalState]
  <2>1. pc' = [pc EXCEPT ![c] = "idle"] /\ pc \in [Client -> Labels]
    BY DEF ClientsOK, ReturnKeys
  <2>2. loc' = [loc EXCEPT ![c] = Fresh] /\ loc \in [Client -> LocalState]
    BY DEF ClientsOK, ReturnKeys
  <2>3. pc' \in [Client -> Labels]
    BY <2>1 DEF Labels, Idle
  <2>4. loc' \in [Client -> LocalState]
    BY <2>2, FreshOK
  <2> QED BY <2>3, <2>4
<1>2. result' \in [Client -> [status : Statuses, keys : SUBSET SizedKey]]
  <2> DEFINE r == [status |-> status, keys |-> keys]
             R == [status : Statuses, keys : SUBSET SizedKey]
  <2>1. r \in R
    OBVIOUS
  <2>2. result' = [result EXCEPT ![c] = r] /\ result \in [Client -> R]
    BY DEF ClientsOK, ReturnKeys
  <2> HIDE DEF r, R
  <2>3. result' \in [Client -> R]
    BY <2>1, <2>2
  <2> QED BY <2>3 DEF R
<1>3. /\ pc'[c] = "idle" /\ loc'[c] = Fresh
      /\ \A o \in Client \ {c} : pc'[o] = pc[o] /\ loc'[o] = loc[o]
  BY DEF ClientsOK, ReturnKeys
<1>4. LocalOK(c)'
  BY <1>3, FreshOK DEF LocalOK, Idle
<1>5. \A o \in Client \ {c} : LocalOK(o)'
  BY <1>3 DEF ClientsOK, LocalOK
<1> QED BY <1>1, <1>2, <1>4, <1>5 DEF ClientsOK

LEMMA ReturnOK ==
    ASSUME ClientsOK, UNCHANGED call, NEW c \in Client, NEW status \in Statuses,
           Return(c, status)
    PROVE  ClientsOK'
BY ReturnKeysOK DEF Return

LEMMA FaultOK == ASSUME IInv, Fault PROVE faults' \in 0 .. MaxFaults
BY MongoConstants DEF IInv, CountersOK, Fault

LEMMA ReadOK ==
    ASSUME IInv, Read \/ Unread
    PROVE  DataOK' /\ InflightOK' /\ faults' \in 0 .. MaxFaults
<1>1. UNCHANGED server /\ (UNCHANGED faults \/ Fault)
  BY DEF Read, Unread
<1>2. DataOK' /\ InflightOK'
  BY <1>1 DEF IInv, server, DataOK, InflightOK, SignaturesValid, UniqueMembers
<1> QED BY <1>1, <1>2, FaultOK DEF IInv, CountersOK

LEMMA AnsweredOK ==
    ASSUME IInv, NEW cmd, CommandOK(cmd), NEW n, Answered(cmd, n)
    PROVE  DataOK' /\ InflightOK' /\ faults' \in 0 .. MaxFaults
<1>1. DataOK'
  BY ExecuteOK DEF IInv, Answered
<1>2. UNCHANGED <<inflight, faults>>
  BY DEF Answered
<1> QED BY <1>1, <1>2 DEF IInv, InflightOK, CountersOK

LEMMA UnansweredOK ==
    ASSUME IInv, UNCHANGED call, NEW c \in Client, NEW cmds,
           \A cmd \in cmds : CommandOK(cmd), Unanswered(c, cmds)
    PROVE  StepOK
<1>1. UNCHANGED <<users, groups, indexed>> /\ inflight' = inflight \cup cmds
  BY DEF Unanswered, data
<1>2. DataOK' /\ InflightOK'
  BY <1>1 DEF IInv, DataOK, InflightOK, SignaturesValid, UniqueMembers
<1>3. ClientsOK'
  BY ReturnOK DEF IInv, Unanswered, Statuses
<1> QED BY <1>2, <1>3, FaultOK DEF StepOK, Unanswered

-----------------------------------------------------------------------------
(* The commands of the clients *)

LEMMA NonceOK == ASSUME IInv, NEW c \in Client PROVE nonce(c) \in Nonce
BY MongoConstants DEF IInv, CountersOK, nonce, Nonce

LEMMA InsertUserCommand ==
    ASSUME NEW u \in User, NEW key \in KeyCipher
    PROVE  CommandOK([kind |-> "insert_user", doc |-> NewUserDoc(u, key)])
<1> DEFINE d == NewUserDoc(u, key)
           cmd == [kind |-> "insert_user", doc |-> d]
<1>1. d \in UserDoc /\ ValidUserDoc(d)
  BY DEF NewUserDoc, UserDoc, ValidUserDoc, compute_user_signature
<1> HIDE DEF d
<1>2. cmd \in WriteCommand
  BY <1>1 DEF WriteCommand
<1>3. CommandOK(cmd)
  BY <1>1, <1>2 DEF CommandOK
<1> QED BY <1>3 DEF d

LEMMA InsertGroupCommand ==
    ASSUME NEW g \in Group, NEW encname \in NameCipher, NEW entry \in Entry
    PROVE  CommandOK([kind |-> "insert_group",
                      doc |-> NewGroupDoc(g, encname, entry)])
<1> DEFINE d == NewGroupDoc(g, encname, entry)
           cmd == [kind |-> "insert_group", doc |-> d]
<1>1. d \in GroupDoc
  <2>1. <<entry>> \in Seq(Entry)
    OBVIOUS
  <2> QED BY <2>1 DEF NewGroupDoc, GroupDoc, GroupSignature, HashedGroup, group_hmac
<1>2. validate_group_signature(d)
  BY DEF NewGroupDoc, validate_group_signature, compute_group_signature,
         group_hmac
<1>3. DistinctMembers(d)
  BY DEF NewGroupDoc, DistinctMembers
<1> HIDE DEF d
<1>4. cmd \in WriteCommand
  BY <1>1 DEF WriteCommand
<1>5. CommandOK(cmd)
  BY <1>2, <1>3, <1>4 DEF CommandOK
<1> QED BY <1>5 DEF d

LEMMA PushCommand ==
    ASSUME NEW name \in HashedGroup, NEW d \in GroupDoc, NEW entry \in Entry,
           validate_group_signature(d)
    PROVE  CommandOK([kind |-> "push", name |-> name, entry |-> entry,
                      old |-> d.signature, new |-> signature_with(d, entry)])
<1> DEFINE cmd == [kind |-> "push", name |-> name, entry |-> entry,
                   old |-> d.signature, new |-> signature_with(d, entry)]
<1>1. d.signature \in GroupSignature
  BY DEF GroupDoc
<1>2. signature_with(d, entry) \in GroupSignature
  <2>1. Append(d.users, entry) \in Seq(Entry)
    BY DEF GroupDoc
  <2> QED BY <2>1 DEF signature_with, group_hmac, GroupDoc, GroupSignature
<1>3. cmd \in WriteCommand
  BY <1>1, <1>2 DEF WriteCommand
<1>4. signature_with(d, entry) = group_hmac(d.signature[1], d.signature[2],
                                            Append(d.signature[3], entry))
  BY DEF validate_group_signature, compute_group_signature, signature_with,
         group_hmac
<1> QED BY <1>3, <1>4 DEF CommandOK

LEMMA SignatureWithoutType ==
    ASSUME NEW d \in GroupDoc, NEW user
    PROVE  signature_without(d, user) \in GroupSignature
<1>1. Without(d.users, user) \in Seq(Entry)
  BY WithoutEntries DEF GroupDoc
<1> QED BY <1>1 DEF signature_without, group_hmac, GroupDoc, GroupSignature

LEMMA PullCommand ==
    ASSUME NEW name \in HashedGroup, NEW d \in GroupDoc, NEW user \in HashedUser,
           validate_group_signature(d)
    PROVE  CommandOK([kind |-> "pull", name |-> name, user |-> user,
                      old |-> d.signature, new |-> signature_without(d, user)])
<1> DEFINE cmd == [kind |-> "pull", name |-> name, user |-> user,
                   old |-> d.signature, new |-> signature_without(d, user)]
<1>1. d.signature \in GroupSignature
  BY DEF GroupDoc
<1>2. cmd \in WriteCommand
  BY <1>1, SignatureWithoutType DEF WriteCommand
<1>3. signature_without(d, user) = group_hmac(d.signature[1], d.signature[2],
                                              Without(d.signature[3], user))
  BY DEF validate_group_signature, compute_group_signature, signature_without,
         group_hmac
<1> QED BY <1>2, <1>3 DEF CommandOK

LEMMA BulkCommand ==
    ASSUME NEW c, call[c].user \in User, NEW d \in GroupDoc
    PROVE  CommandOK(bulk_command(c, d))
<1> DEFINE user == salted_hash_name(call[c].user, decrypt_data(d.encname))
           new == signature_without(d, user)
           cmd == [kind |-> "pull_exact", doc |-> d, user |-> user, new |-> new]
<1>1. user \in HashedUser
  BY DEF salted_hash_name, decrypt_data, GroupDoc, NameCipher, HashedUser
<1>2. new \in GroupSignature
  BY SignatureWithoutType
<1>3. bulk_command(c, d) = cmd
  BY DEF bulk_command
<1> HIDE DEF user
<1>4. cmd \in WriteCommand
  <2> HIDE DEF new
  <2> QED BY <1>1, <1>2 DEF WriteCommand
<1> QED BY <1>3, <1>4 DEF CommandOK

\* The commands with no signature in them.
LEMMA PlainCommand ==
    /\ \A u \in User : CommandOK([kind |-> "delete_user", name |-> hash_name(u)])
    /\ CommandOK([kind |-> "delete_users"])
    /\ CommandOK([kind |-> "delete_groups"])
    /\ \A on \in Collection : CommandOK([kind |-> "create_index", on |-> on])
<1>1. \A u \in User : CommandOK([kind |-> "delete_user", name |-> hash_name(u)])
  BY DEF CommandOK, WriteCommand
<1>2. CommandOK([kind |-> "delete_users"]) /\ CommandOK([kind |-> "delete_groups"])
  BY DEF CommandOK, WriteCommand
<1>3. \A on \in Collection : CommandOK([kind |-> "create_index", on |-> on])
  BY DEF CommandOK, WriteCommand
<1> QED BY <1>1, <1>2, <1>3

-----------------------------------------------------------------------------
(* Each round trip preserves the invariant *)

LEMMA LocalType == ASSUME IInv, NEW c \in Client PROVE loc[c] \in LocalState
BY DEF IInv, ClientsOK

LEMMA EntryOK ==
    ASSUME IInv, NEW c \in Client,
           pc[c] \in {"insert_group", "add_find", "add_update"}
    PROVE  new_entry(c) \in Entry
<1>1. call[c].group \in Group /\ call[c].user \in User
  BY CallOfStage DEF Idle
<1>2. loc[c].key \in KeyCipher
  BY DEF IInv, ClientsOK, LocalOK
<1> QED
  BY <1>1, <1>2 DEF new_entry, user_name, salted_hash_name, Entry, HashedUser

LEMMA CreateUserOK ==
    ASSUME IInv, UNCHANGED call, NEW c \in Client, create_user(c) PROVE StepOK
<1>1. pc[c] = "create_user" /\ pc[c] \notin Idle
  BY DEF create_user, Idle
<1>2. call[c].user \in User /\ call[c].key \in Key
  BY <1>1, CallOfStage
<1> DEFINE key == encrypt_data(call[c].key, nonce(c))
           cmd == [kind |-> "insert_user", doc |-> NewUserDoc(call[c].user, key)]
<1>3. key \in KeyCipher
  BY <1>2, NonceOK DEF encrypt_data, KeyCipher
<1>4. CommandOK(cmd)
  BY <1>2, <1>3, InsertUserCommand
<1>5. \/ Answered(cmd, 1) /\ Return(c, "ok")
      \/ Answered(cmd, 0) /\ Return(c, "duplicate")
      \/ Unanswered(c, {cmd})
  BY DEF create_user, insert_user_command
<1> HIDE DEF cmd
<1>6. CASE Unanswered(c, {cmd})
  BY <1>4, <1>6, UnansweredOK
<1>7. CASE Answered(cmd, 1) /\ Return(c, "ok")
  BY <1>4, <1>7, AnsweredOK, ReturnOK DEF StepOK, Statuses, IInv
<1>8. CASE Answered(cmd, 0) /\ Return(c, "duplicate")
  BY <1>4, <1>8, AnsweredOK, ReturnOK DEF StepOK, Statuses, IInv
<1> QED BY <1>5, <1>6, <1>7, <1>8

LEMMA ReencryptOK ==
    ASSUME IInv, UNCHANGED call, NEW c \in Client, reencrypt_user_key(c)
    PROVE  StepOK
<1>1. pc[c] = "reencrypt" /\ pc[c] \notin Idle
  BY DEF reencrypt_user_key, Idle
<1>2. /\ call[c] # None
      /\ call[c].op \in {"add_user_to_group", "create_group"}
  BY <1>1, CallOfStage
<1>3. DataOK' /\ InflightOK' /\ faults' \in 0 .. MaxFaults
  BY ReadOK DEF reencrypt_user_key
<1>4. CASE Return(c, "bad_signature") \/ Return(c, "no_user")
  BY <1>3, <1>4, ReturnOK DEF StepOK, Statuses, IInv
<1> DEFINE key(d) == encrypt_data(decrypt_data(d.key), nonce(c))
           label == IF call[c].op = "create_group" THEN "insert_group" ELSE "add_find"
           local(d) == [loc[c] EXCEPT !.key = key(d)]
<1>5. CASE \E d \in users : Goto(c, label, local(d))
  <2>1. PICK d \in users : Goto(c, label, local(d))
    BY <1>5
  <2>2. key(d) \in KeyCipher
    BY NonceOK DEF IInv, DataOK, UserDoc, KeyCipher, encrypt_data, decrypt_data
  <2>3. local(d) \in LocalState /\ local(d).key = key(d) /\ local(d).held = loc[c].held
    BY <2>2, LocalType DEF LocalState
  <2>4. label \in Stages(call[c].op) /\ label \in Labels
    BY <1>2 DEF Stages, Labels
  <2>5. \A h \in loc[c].held : validate_group_signature(h)
    BY DEF IInv, ClientsOK, LocalOK
  <2> HIDE DEF key, label, local
  <2>6. ClientsOK'
    BY <1>2, <2>1, <2>2, <2>3, <2>4, <2>5, GotoOK DEF IInv
  <2> QED BY <1>3, <2>6 DEF StepOK
<1> QED BY <1>4, <1>5 DEF reencrypt_user_key

LEMMA CreateGroupOK ==
    ASSUME IInv, UNCHANGED call, NEW c \in Client, create_group(c) PROVE StepOK
<1>1. pc[c] = "insert_group" /\ pc[c] \notin Idle
  BY DEF create_group, Idle
<1>2. /\ call[c] # None /\ call[c].op = "create_group"
      /\ call[c].group \in Group /\ call[c].user \in User
  BY <1>1, CallOfStage
<1> DEFINE encname == encrypt_data(call[c].group, nonce(c))
           cmd == [kind |-> "insert_group",
                   doc |-> NewGroupDoc(call[c].group, encname, new_entry(c))]
<1>3. encname \in NameCipher
  BY <1>2, NonceOK DEF encrypt_data, NameCipher
<1>4. CommandOK(cmd)
  BY <1>1, <1>2, <1>3, EntryOK, InsertGroupCommand
<1>5. \/ Answered(cmd, 1) /\ Return(c, "ok")
      \/ Answered(cmd, 0) /\ Goto(c, "add_find", loc[c])
      \/ Unanswered(c, {cmd})
  BY DEF create_group, insert_group_command
<1> HIDE DEF cmd
<1>6. CASE Unanswered(c, {cmd})
  BY <1>4, <1>6, UnansweredOK
<1>7. CASE Answered(cmd, 1) /\ Return(c, "ok")
  BY <1>4, <1>7, AnsweredOK, ReturnOK DEF StepOK, Statuses, IInv
<1>8. CASE Answered(cmd, 0) /\ Goto(c, "add_find", loc[c])
  <2>1. DataOK' /\ InflightOK' /\ faults' \in 0 .. MaxFaults
    BY <1>4, <1>8, AnsweredOK
  <2>2. "add_find" \in Stages(call[c].op) /\ "add_find" \in Labels
    BY <1>2 DEF Stages, Labels
  <2>3. /\ loc[c].key \in KeyCipher
        /\ \A h \in loc[c].held : validate_group_signature(h)
    BY <1>1 DEF IInv, ClientsOK, LocalOK
  <2>4. ClientsOK'
    BY <1>2, <1>8, <2>2, <2>3, LocalType, GotoOK DEF IInv
  <2> QED BY <2>1, <2>4 DEF StepOK
<1> QED BY <1>5, <1>6, <1>7, <1>8

\* A document read and kept for the update of the same turn.
LEMMA KeepOK ==
    ASSUME IInv, UNCHANGED call, NEW c \in Client, call[c] # None,
           Read, NEW d \in groups, validate_group_signature(d),
           NEW label \in Stages(call[c].op), label \in Labels,
           label = "add_update" => loc[c].key \in KeyCipher,
           label \notin {"insert_group", "add_find"},
           Goto(c, label, [loc[c] EXCEPT !.held = {d}])
    PROVE  StepOK
<1> DEFINE local == [loc[c] EXCEPT !.held = {d}]
<1>1. DataOK' /\ InflightOK' /\ faults' \in 0 .. MaxFaults
  BY ReadOK
<1>2. d \in GroupDoc
  BY DEF IInv, DataOK
<1>3. local \in LocalState /\ local.held = {d} /\ local.key = loc[c].key
  BY <1>2, LocalType DEF LocalState
<1>4. Goto(c, label, local)
  OBVIOUS
<1> HIDE DEF local
<1>5. \A h \in local.held : validate_group_signature(h)
  BY <1>3
<1>6. label \in {"insert_group", "add_find", "add_update"}
        => local.key \in KeyCipher
  BY <1>3
<1>7. ClientsOK'
  BY <1>3, <1>4, <1>5, <1>6, GotoOK DEF IInv
<1> QED BY <1>1, <1>7 DEF StepOK

LEMMA AddFindOK ==
    ASSUME IInv, UNCHANGED call, NEW c \in Client, add_find(c) PROVE StepOK
<1>1. pc[c] = "add_find" /\ pc[c] \notin Idle
  BY DEF add_find, Idle
<1>2. /\ call[c] # None
      /\ call[c].op \in {"add_user_to_group", "create_group"}
  BY <1>1, CallOfStage
<1>3. Read \/ Unread
  BY DEF add_find, Find
<1>4. CASE Return(c, "ok") \/ Return(c, "bad_signature")
  BY <1>3, <1>4, ReadOK, ReturnOK DEF StepOK, Statuses, IInv
<1>5. CASE \E d \in groups : /\ Read /\ validate_group_signature(d)
                             /\ Goto(c, "add_update", [loc[c] EXCEPT !.held = {d}])
  <2>1. "add_update" \in Stages(call[c].op) /\ "add_update" \in Labels
    BY <1>2 DEF Stages, Labels
  <2>2. loc[c].key \in KeyCipher
    BY <1>1 DEF IInv, ClientsOK, LocalOK
  <2> QED BY <1>2, <1>5, <2>1, <2>2, KeepOK
<1> QED BY <1>4, <1>5 DEF add_find, Find

LEMMA RemoveFindOK ==
    ASSUME IInv, UNCHANGED call, NEW c \in Client, remove_find(c) PROVE StepOK
<1>1. pc[c] = "remove_find" /\ pc[c] \notin Idle
  BY DEF remove_find, Idle
<1>2. call[c] # None /\ call[c].op = "remove_user_from_group"
  BY <1>1, CallOfStage
<1>3. Read \/ Unread
  BY DEF remove_find, Find
<1>4. CASE Return(c, "ok") \/ Return(c, "bad_signature")
  BY <1>3, <1>4, ReadOK, ReturnOK DEF StepOK, Statuses, IInv
<1>5. CASE \E d \in groups :
             /\ Read /\ validate_group_signature(d)
             /\ Goto(c, "remove_update", [loc[c] EXCEPT !.held = {d}])
  <2>1. "remove_update" \in Stages(call[c].op) /\ "remove_update" \in Labels
    BY <1>2 DEF Stages, Labels
  <2> QED BY <1>2, <1>5, <2>1, KeepOK
<1> QED BY <1>4, <1>5 DEF remove_find, Find

LEMMA RetryOK ==
    ASSUME IInv, UNCHANGED call, NEW c \in Client, call[c] # None,
           NEW label \in Stages(call[c].op), label \in Labels,
           label \in {"add_find", "remove_find"},
           label = "add_find" => loc[c].key \in KeyCipher,
           Retry(c, label)
    PROVE  ClientsOK'
<1>1. CASE Return(c, "gave_up")
  BY <1>1, ReturnOK DEF Statuses, IInv
<1> DEFINE local == [loc[c] EXCEPT !.held = {}, !.attempts = @ - 1]
<1>2. CASE loc[c].attempts > 1 /\ Goto(c, label, local)
  <2>1. loc[c].attempts - 1 \in 1 .. MaxAttempts
    BY <1>2, LocalType, MongoConstants DEF LocalState
  <2>2. local \in LocalState /\ local.held = {} /\ local.key = loc[c].key
    BY <2>1, LocalType DEF LocalState
  <2> HIDE DEF local
  <2> QED BY <1>2, <2>2, GotoOK DEF IInv
<1> QED BY <1>1, <1>2 DEF Retry

LEMMA AddUpdateOK ==
    ASSUME IInv, UNCHANGED call, NEW c \in Client, add_update(c) PROVE StepOK
<1>1. pc[c] = "add_update" /\ pc[c] \notin Idle
  BY DEF add_update, Idle
<1>2. /\ call[c] # None /\ call[c].group \in Group
      /\ call[c].op \in {"add_user_to_group", "create_group"}
  BY <1>1, CallOfStage
<1> DEFINE cmd(d) == [kind |-> "push", name |-> group_name(c),
                      entry |-> new_entry(c), old |-> d.signature,
                      new |-> signature_with(d, new_entry(c))]
<1>3. PICK d \in loc[c].held :
        \/ \E n \in {0, 1} :
             /\ Answered(cmd(d), n)
             /\ IF BsonIterInt64(n) >= 1 THEN Return(c, "ok")
                                         ELSE Retry(c, "add_find")
        \/ Unanswered(c, {cmd(d)})
  BY DEF add_update, push_command
<1>4. /\ d \in GroupDoc /\ validate_group_signature(d)
      /\ loc[c].key \in KeyCipher
  <2>1. LocalOK(c)
    BY DEF IInv, ClientsOK
  <2> QED BY <1>1, <2>1, LocalType DEF LocalState, LocalOK
<1>5. CommandOK(cmd(d))
  BY <1>1, <1>2, <1>4, EntryOK, PushCommand DEF group_name, HashedGroup
<1> HIDE DEF cmd
<1>6. CASE Unanswered(c, {cmd(d)})
  BY <1>5, <1>6, UnansweredOK
<1>7. CASE \E n \in {0, 1} : /\ Answered(cmd(d), n)
                             /\ Return(c, "ok") \/ Retry(c, "add_find")
  <2>1. DataOK' /\ InflightOK' /\ faults' \in 0 .. MaxFaults
    BY <1>5, <1>7, AnsweredOK
  <2>2. "add_find" \in Stages(call[c].op) /\ "add_find" \in Labels
    BY <1>2 DEF Stages, Labels
  <2>3. ClientsOK'
    BY <1>2, <1>4, <1>7, <2>2, ReturnOK, RetryOK DEF Statuses, IInv
  <2> QED BY <2>1, <2>3 DEF StepOK
<1> QED BY <1>3, <1>6, <1>7

LEMMA RemoveUpdateOK ==
    ASSUME IInv, UNCHANGED call, NEW c \in Client, remove_update(c) PROVE StepOK
<1>1. pc[c] = "remove_update" /\ pc[c] \notin Idle
  BY DEF remove_update, Idle
<1>2. /\ call[c] # None /\ call[c].op = "remove_user_from_group"
      /\ call[c].group \in Group /\ call[c].user \in User
  BY <1>1, CallOfStage
<1> DEFINE cmd(d) == [kind |-> "pull", name |-> group_name(c),
                      user |-> user_name(c), old |-> d.signature,
                      new |-> signature_without(d, user_name(c))]
<1>3. PICK d \in loc[c].held :
        \/ \E n \in {0, 1} :
             /\ Answered(cmd(d), n)
             /\ IF BsonIterInt64(n) >= 1 THEN Return(c, "ok")
                                         ELSE Retry(c, "remove_find")
        \/ Unanswered(c, {cmd(d)})
  BY DEF remove_update, pull_command
<1>4. d \in GroupDoc /\ validate_group_signature(d)
  BY LocalType DEF LocalState, IInv, ClientsOK, LocalOK
<1>5. CommandOK(cmd(d))
  BY <1>2, <1>4, PullCommand
     DEF group_name, HashedGroup, user_name, salted_hash_name, HashedUser
<1> HIDE DEF cmd
<1>6. CASE Unanswered(c, {cmd(d)})
  BY <1>5, <1>6, UnansweredOK
<1>7. CASE \E n \in {0, 1} : /\ Answered(cmd(d), n)
                             /\ Return(c, "ok") \/ Retry(c, "remove_find")
  <2>1. DataOK' /\ InflightOK' /\ faults' \in 0 .. MaxFaults
    BY <1>5, <1>7, AnsweredOK
  <2>2. "remove_find" \in Stages(call[c].op) /\ "remove_find" \in Labels
    BY <1>2 DEF Stages, Labels
  <2>3. ClientsOK'
    BY <1>2, <1>7, <2>2, ReturnOK, RetryOK DEF Statuses, IInv
  <2> QED BY <2>1, <2>3 DEF StepOK
<1> QED BY <1>3, <1>6, <1>7

LEMMA ScanOpenOK ==
    ASSUME IInv, UNCHANGED call, NEW c \in Client, scan_open(c) PROVE StepOK
<1>1. pc[c] = "scan_open" /\ pc[c] \notin Idle
  BY DEF scan_open, Idle
<1>2. call[c] # None /\ call[c].op = "delete_user"
  BY <1>1, CallOfStage
<1>3. DataOK' /\ InflightOK' /\ faults' \in 0 .. MaxFaults
  BY ReadOK DEF scan_open
<1>4. CASE Return(c, "empty_bulk")
  BY <1>3, <1>4, ReturnOK DEF StepOK, Statuses, IInv
<1> DEFINE names == {d.encname : d \in groups}
           local == [loc[c] EXCEPT !.unread = names]
<1>5. CASE Goto(c, "scan", local)
  <2>1. names \in SUBSET NameCipher
    BY DEF IInv, DataOK, GroupDoc
  <2> HIDE DEF names
  <2>2. local \in LocalState /\ local.held = loc[c].held
    BY <2>1, LocalType DEF LocalState
  <2>3. "scan" \in Stages(call[c].op) /\ "scan" \in Labels
    BY <1>2 DEF Stages, Labels
  <2>4. \A h \in loc[c].held : validate_group_signature(h)
    BY DEF IInv, ClientsOK, LocalOK
  <2> HIDE DEF local
  <2>5. ClientsOK'
    BY <1>2, <1>5, <2>2, <2>3, <2>4, GotoOK DEF IInv
  <2> QED BY <1>3, <2>5 DEF StepOK
<1> QED BY <1>4, <1>5 DEF scan_open

LEMMA ScanNextOK ==
    ASSUME IInv, UNCHANGED call, NEW c \in Client, scan_next(c) PROVE StepOK
<1>1. pc[c] = "scan" /\ pc[c] \notin Idle
  BY DEF scan_next, Idle
<1>2. call[c] # None /\ call[c].op = "delete_user"
  BY <1>1, CallOfStage
<1>3. DataOK' /\ InflightOK' /\ faults' \in 0 .. MaxFaults
  BY ReadOK DEF scan_next
<1>4. CASE Return(c, "bad_signature")
  BY <1>3, <1>4, ReturnOK DEF StepOK, Statuses, IInv
<1> DEFINE local(d) == [loc[c] EXCEPT !.held = @ \cup {d},
                                      !.unread = @ \ {d.encname}]
<1>5. CASE \E d \in groups : validate_group_signature(d) /\ Goto(c, "scan", local(d))
  <2>1. PICK d \in groups : validate_group_signature(d) /\ Goto(c, "scan", local(d))
    BY <1>5
  <2>2. d \in GroupDoc
    BY DEF IInv, DataOK
  <2>3. local(d) \in LocalState /\ local(d).held = loc[c].held \cup {d}
    BY <2>2, LocalType DEF LocalState
  <2>4. "scan" \in Stages(call[c].op) /\ "scan" \in Labels
    BY <1>2 DEF Stages, Labels
  <2>5. \A h \in loc[c].held \cup {d} : validate_group_signature(h)
    BY <2>1 DEF IInv, ClientsOK, LocalOK
  <2> HIDE DEF local
  <2>6. ClientsOK'
    BY <1>2, <2>1, <2>3, <2>4, <2>5, GotoOK DEF IInv
  <2> QED BY <1>3, <2>6 DEF StepOK
<1> QED BY <1>4, <1>5 DEF scan_next

LEMMA ScanEndOK ==
    ASSUME IInv, UNCHANGED call, NEW c \in Client, scan_end(c) PROVE StepOK
<1>1. pc[c] = "scan" /\ pc[c] \notin Idle
  BY DEF scan_end, Idle
<1>2. call[c] # None /\ call[c].op = "delete_user"
  BY <1>1, CallOfStage
<1>3. DataOK' /\ InflightOK' /\ faults' \in 0 .. MaxFaults
  BY ReadOK DEF scan_end
<1>4. CASE Return(c, "empty_bulk")
  BY <1>3, <1>4, ReturnOK DEF StepOK, Statuses, IInv
<1> DEFINE local == [loc[c] EXCEPT !.unread = {}]
<1>5. CASE Goto(c, "bulk", local)
  <2>1. local \in LocalState /\ local.held = loc[c].held
    BY LocalType DEF LocalState
  <2>2. "bulk" \in Stages(call[c].op) /\ "bulk" \in Labels
    BY <1>2 DEF Stages, Labels
  <2>3. \A h \in loc[c].held : validate_group_signature(h)
    BY DEF IInv, ClientsOK, LocalOK
  <2> HIDE DEF local
  <2>4. ClientsOK'
    BY <1>2, <1>5, <2>1, <2>2, <2>3, GotoOK DEF IInv
  <2> QED BY <1>3, <2>4 DEF StepOK
<1> QED BY <1>4, <1>5 DEF scan_end

LEMMA BulkUpdateOK ==
    ASSUME IInv, UNCHANGED call, NEW c \in Client, bulk_update(c) PROVE StepOK
<1>1. pc[c] = "bulk" /\ pc[c] \notin Idle
  BY DEF bulk_update, Idle
<1>2. call[c] # None /\ call[c].op = "delete_user" /\ call[c].user \in User
  BY <1>1, CallOfStage
<1>3. \A d \in loc[c].held : CommandOK(bulk_command(c, d))
  BY <1>2, BulkCommand, LocalType DEF LocalState
<1>4. CASE Unanswered(c, {bulk_command(c, d) : d \in loc[c].held})
  <2> DEFINE cmds == {bulk_command(c, d) : d \in loc[c].held}
  <2>1. \A cmd \in cmds : CommandOK(cmd)
    BY <1>3
  <2>2. Unanswered(c, cmds)
    BY <1>4
  <2> HIDE DEF cmds
  <2> QED BY <2>1, <2>2, UnansweredOK
<1> DEFINE label(d) == IF loc[c].held = {d} THEN "delete_user" ELSE "bulk"
           local(d) == [loc[c] EXCEPT !.held = @ \ {d}]
<1>5. CASE \E d \in loc[c].held, n \in {0, 1} :
             Answered(bulk_command(c, d), n) /\ Goto(c, label(d), local(d))
  <2>1. PICK d \in loc[c].held, n \in {0, 1} :
             Answered(bulk_command(c, d), n) /\ Goto(c, label(d), local(d))
    BY <1>5
  <2>2. DataOK' /\ InflightOK' /\ faults' \in 0 .. MaxFaults
    BY <1>3, <2>1, AnsweredOK
  <2>3. local(d) \in LocalState /\ local(d).held \subseteq loc[c].held
    BY LocalType DEF LocalState
  <2>4. /\ label(d) \in Stages(call[c].op) /\ label(d) \in Labels
        /\ label(d) \notin {"insert_group", "add_find", "add_update"}
    BY <1>2 DEF Stages, Labels
  <2>5. \A h \in loc[c].held : validate_group_signature(h)
    BY DEF IInv, ClientsOK, LocalOK
  <2> HIDE DEF label, local
  <2>6. ClientsOK'
    BY <1>2, <2>1, <2>3, <2>4, <2>5, GotoOK DEF IInv
  <2> QED BY <2>2, <2>6 DEF StepOK
<1> QED BY <1>4, <1>5 DEF bulk_update

\* A round trip whose command is answered by going on with no local change, or
\* by returning, or is not answered.
LEMMA PlainStepOK ==
    ASSUME IInv, UNCHANGED call, NEW c \in Client, call[c] # None,
           NEW cmd, CommandOK(cmd), NEW label \in Stages(call[c].op),
           label \in Labels \ {"insert_group", "add_find", "add_update"},
           \/ \E n : Answered(cmd, n) /\ \/ \E s \in Statuses : Return(c, s)
                                         \/ Goto(c, label, loc[c])
           \/ Unanswered(c, {cmd})
    PROVE  StepOK
<1>1. CASE Unanswered(c, {cmd})
  BY <1>1, UnansweredOK
<1>2. CASE \E n : Answered(cmd, n) /\ \E s \in Statuses : Return(c, s)
  BY <1>2, AnsweredOK, ReturnOK DEF StepOK, IInv
<1>3. CASE \E n : Answered(cmd, n) /\ Goto(c, label, loc[c])
  <2>1. DataOK' /\ InflightOK' /\ faults' \in 0 .. MaxFaults
    BY <1>3, AnsweredOK
  <2>2. \A h \in loc[c].held : validate_group_signature(h)
    BY DEF IInv, ClientsOK, LocalOK
  <2>3. ClientsOK'
    BY <1>3, <2>2, LocalType, GotoOK DEF IInv
  <2> QED BY <2>1, <2>3 DEF StepOK
<1> QED BY <1>1, <1>2, <1>3

LEMMA DeleteUserOK ==
    ASSUME IInv, UNCHANGED call, NEW c \in Client, delete_user(c) PROVE StepOK
<1>1. pc[c] = "delete_user" /\ pc[c] \notin Idle
  BY DEF delete_user, Idle
<1>2. call[c] # None /\ call[c].op = "delete_user" /\ call[c].user \in User
  BY <1>1, CallOfStage
<1> DEFINE cmd == [kind |-> "delete_user", name |-> hash_name(call[c].user)]
<1>3. CommandOK(cmd)
  BY <1>2, PlainCommand
<1>4. \/ Answered(cmd, 1) /\ Return(c, "ok")
      \/ Unanswered(c, {cmd})
  BY DEF delete_user, delete_user_command
<1>5. "bulk" \in Stages(call[c].op) /\ "bulk" \in Labels /\ "ok" \in Statuses
  BY <1>2 DEF Stages, Labels, Statuses
<1> HIDE DEF cmd
<1> QED BY <1>2, <1>3, <1>4, <1>5, PlainStepOK

LEMMA DeleteAllOK ==
    ASSUME IInv, UNCHANGED call, NEW c \in Client,
           delete_all_users(c) \/ delete_all_groups(c)
    PROVE  StepOK
<1>1. pc[c] \in {"delete_users", "delete_groups"} /\ pc[c] \notin Idle
  BY DEF delete_all_users, delete_all_groups, Idle
<1>2. call[c] # None /\ call[c].op = "delete_all_data"
  BY <1>1, CallOfStage
<1>3. /\ "delete_groups" \in Stages(call[c].op) /\ "delete_groups" \in Labels
      /\ "ok" \in Statuses
  BY <1>2 DEF Stages, Labels, Statuses
<1>4. CASE delete_all_users(c)
  <2> DEFINE cmd == [kind |-> "delete_users"]
  <2>1. \/ Answered(cmd, 1) /\ Goto(c, "delete_groups", loc[c])
        \/ Unanswered(c, {cmd})
    BY <1>4 DEF delete_all_users
  <2>2. CommandOK(cmd)
    BY PlainCommand
  <2> HIDE DEF cmd
  <2> QED BY <1>2, <1>3, <2>1, <2>2, PlainStepOK
<1>5. CASE delete_all_groups(c)
  <2> DEFINE cmd == [kind |-> "delete_groups"]
  <2>1. \/ Answered(cmd, 1) /\ Return(c, "ok")
        \/ Unanswered(c, {cmd})
    BY <1>5 DEF delete_all_groups
  <2>2. CommandOK(cmd)
    BY PlainCommand
  <2> HIDE DEF cmd
  <2> QED BY <1>2, <1>3, <2>1, <2>2, PlainStepOK
<1> QED BY <1>4, <1>5

LEMMA InitIndexOK ==
    ASSUME IInv, UNCHANGED call, NEW c \in Client,
           init_users_index(c) \/ init_groups_index(c)
    PROVE  StepOK
<1>1. pc[c] \in {"index_users", "index_groups"} /\ pc[c] \notin Idle
  BY DEF init_users_index, init_groups_index, Idle
<1>2. call[c] # None /\ call[c].op = "init_indexes"
  BY <1>1, CallOfStage
<1>3. /\ "index_groups" \in Stages(call[c].op) /\ "index_groups" \in Labels
      /\ {"ok", "index_error"} \subseteq Statuses
  BY <1>2 DEF Stages, Labels, Statuses
<1> DEFINE cmd(on) == [kind |-> "create_index", on |-> on]
<1>4. \A on \in Collection : CommandOK(cmd(on))
  BY PlainCommand
<1>5. CASE init_users_index(c)
  <2>1. \/ Answered(cmd("users"), 1) /\ Goto(c, "index_groups", loc[c])
        \/ Answered(cmd("users"), 0) /\ Return(c, "index_error")
        \/ Unanswered(c, {cmd("users")})
    BY <1>5 DEF init_users_index
  <2>2. CommandOK(cmd("users"))
    BY <1>4 DEF Collection
  <2> HIDE DEF cmd
  <2> QED BY <1>2, <1>3, <2>1, <2>2, PlainStepOK
<1>6. CASE init_groups_index(c)
  <2>1. \/ Answered(cmd("groups"), 1) /\ Return(c, "ok")
        \/ Answered(cmd("groups"), 0) /\ Return(c, "index_error")
        \/ Unanswered(c, {cmd("groups")})
    BY <1>6 DEF init_groups_index
  <2>2. CommandOK(cmd("groups"))
    BY <1>4 DEF Collection
  <2> HIDE DEF cmd
  <2> QED BY <1>2, <1>3, <2>1, <2>2, PlainStepOK
<1> QED BY <1>5, <1>6

LEMMA ReadersOK ==
    ASSUME IInv, UNCHANGED call, NEW c \in Client,
           is_user_part_of_group(c) \/ get_keys_of_group(c) \/ ping(c)
    PROVE  StepOK
<1>1. DataOK' /\ InflightOK' /\ faults' \in 0 .. MaxFaults
  BY ReadOK DEF is_user_part_of_group, get_keys_of_group, ping
<1>2. \/ \E s \in Statuses : Return(c, s)
      \/ \E keys \in SUBSET SizedKey : ReturnKeys(c, "ok", keys)
  <2>1. CASE is_user_part_of_group(c)
    BY <2>1 DEF is_user_part_of_group, Statuses
  <2>2. CASE get_keys_of_group(c)
    BY <2>2 DEF get_keys_of_group, Statuses
  <2>3. CASE ping(c)
    BY <2>3 DEF ping, Statuses
  <2> QED BY <2>1, <2>2, <2>3
<1>3. "ok" \in Statuses
  BY DEF Statuses
<1>4. ClientsOK'
  BY <1>2, <1>3, ReturnOK, ReturnKeysOK DEF IInv
<1> QED BY <1>1, <1>4 DEF StepOK

LEMMA WatchOK ==
    ASSUME IInv, NEW actors, Watch(actors)
    PROVE  rivals' \in [Client -> 0 .. MaxAttempts]
BY MongoConstants DEF IInv, CountersOK, Watch

LEMMA StepKeepsIInv == ASSUME IInv, NEW c \in Client, Step(c) PROVE IInv'
<1>1. UNCHANGED call /\ UNCHANGED seq /\ Watch({c})
  BY DEF Step
<1>2. StepOK
  BY <1>1, CreateUserOK, ReencryptOK, CreateGroupOK, AddFindOK, AddUpdateOK,
     RemoveFindOK, RemoveUpdateOK, ScanOpenOK, ScanNextOK, ScanEndOK,
     BulkUpdateOK, DeleteUserOK, DeleteAllOK, InitIndexOK, ReadersOK DEF Step
<1>3. rivals' \in [Client -> 0 .. MaxAttempts]
  BY <1>1, WatchOK
<1> QED BY <1>1, <1>2, <1>3 DEF StepOK, IInv, CountersOK

\* The operation a client calls determines its first round trip.
LEMMA FirstOK ==
    ASSUME NEW new \in Calls
    PROVE  /\ First[new.op] \in Stages(new.op) /\ First[new.op] \in Labels
           /\ First[new.op] \notin {"insert_group", "add_find", "add_update"}
<1>1. new.op \in AllOps
  BY DEF Calls, AllOps, GroupUserOps
<1> QED BY <1>1 DEF AllOps, GroupUserOps, First, Stages, Labels

LEMMA InvokeKeepsIInv == ASSUME IInv, NEW c \in Client, Invoke(c) PROVE IInv'
<1>1. PICK new \in Calls : /\ call' = [call EXCEPT ![c] = new]
                           /\ pc' = [pc EXCEPT ![c] = First[new.op]]
  BY DEF Invoke
<1>2. UNCHANGED <<users, groups, indexed, inflight, loc, faults>>
  BY DEF Invoke
<1>3. DataOK' /\ InflightOK'
  BY <1>2 DEF IInv, DataOK, InflightOK, SignaturesValid, UniqueMembers
<1>4. CountersOK'
  <2>1. seq' \in [Client -> 0 .. MaxCalls]
    BY MongoConstants DEF Invoke, IInv, CountersOK
  <2>2. rivals' \in [Client -> 0 .. MaxAttempts]
    BY MongoConstants DEF Invoke, IInv, CountersOK
  <2>3. call' \in [Client -> Calls \cup {None}]
    BY <1>1 DEF IInv, CountersOK
  <2> QED BY <1>2, <2>1, <2>2, <2>3 DEF IInv, CountersOK
<1>5. ClientsOK'
  <2>1. pc' \in [Client -> Labels]
    BY <1>1, FirstOK DEF IInv, ClientsOK
  <2>2. result' \in [Client -> [status : Statuses, keys : SUBSET SizedKey]]
    <3> DEFINE R == [status : Statuses, keys : SUBSET SizedKey]
               r == [status |-> "none", keys |-> {}]
    <3>1. r \in R
      BY DEF Statuses
    <3>2. result \in [Client -> R] /\ result' = [result EXCEPT ![c] = r]
      BY DEF Invoke, IInv, ClientsOK
    <3> HIDE DEF R, r
    <3>3. result' \in [Client -> R]
      BY <3>1, <3>2
    <3> QED BY <3>3 DEF R
  <2>3. LocalOK(c)'
    <3>1. call'[c] = new /\ pc'[c] = First[new.op] /\ loc'[c] = loc[c]
      BY <1>1, <1>2 DEF IInv, ClientsOK, CountersOK
    <3>2. new # None
      BY MongoConstants
    <3>3. \A h \in loc[c].held : validate_group_signature(h)
      BY DEF IInv, ClientsOK, LocalOK
    <3> QED BY <3>1, <3>2, <3>3, FirstOK DEF LocalOK
  <2>4. \A o \in Client \ {c} : LocalOK(o)'
    <3>1. \A o \in Client \ {c} : /\ call'[o] = call[o] /\ pc'[o] = pc[o]
                                  /\ loc'[o] = loc[o]
      BY <1>1, <1>2 DEF IInv, ClientsOK, CountersOK
    <3> QED BY <3>1 DEF IInv, ClientsOK, LocalOK
  <2>5. loc' \in [Client -> LocalState]
    BY <1>2 DEF IInv, ClientsOK
  <2> QED BY <2>1, <2>2, <2>3, <2>4, <2>5 DEF ClientsOK
<1> QED BY <1>3, <1>4, <1>5 DEF IInv

\* What a process that ends may have sent.
LEMMA PendingOK ==
    ASSUME IInv, NEW c \in Client, pc[c] \notin Idle, NEW cmd \in Pending(c)
    PROVE  CommandOK(cmd)
<1>1. /\ pc[c] \in {"add_update", "insert_group"} => new_entry(c) \in Entry
      /\ nonce(c) \in Nonce /\ loc[c] \in LocalState
      /\ \A d \in loc[c].held : validate_group_signature(d)
  BY EntryOK, NonceOK, LocalType DEF IInv, ClientsOK, LocalOK
<1>2. CASE pc[c] = "create_user"
  <2>1. cmd = insert_user_command(c)
    BY <1>2 DEF Pending
  <2>2. encrypt_data(call[c].key, nonce(c)) \in KeyCipher
    BY <1>1, <1>2, CallOfStage DEF encrypt_data, KeyCipher
  <2> QED BY <1>2, <2>1, <2>2, CallOfStage, InsertUserCommand DEF insert_user_command
<1>3. CASE pc[c] = "insert_group"
  <2>1. cmd = insert_group_command(c)
    BY <1>3 DEF Pending
  <2>2. encrypt_data(call[c].group, nonce(c)) \in NameCipher
    BY <1>1, <1>3, CallOfStage DEF encrypt_data, NameCipher
  <2> QED BY <1>1, <1>3, <2>1, <2>2, CallOfStage, InsertGroupCommand
          DEF insert_group_command
<1>4. CASE pc[c] = "add_update"
  <2>1. PICK d \in loc[c].held : cmd = push_command(c, d)
    BY <1>4 DEF Pending
  <2>2. d \in GroupDoc /\ validate_group_signature(d) /\ group_name(c) \in HashedGroup
    BY <1>1, <1>4, CallOfStage DEF LocalState, group_name, HashedGroup
  <2> QED BY <1>1, <1>4, <2>1, <2>2, PushCommand DEF push_command
<1>5. CASE pc[c] = "remove_update"
  <2>1. PICK d \in loc[c].held : cmd = pull_command(c, d)
    BY <1>5 DEF Pending
  <2>2. /\ d \in GroupDoc /\ validate_group_signature(d)
        /\ group_name(c) \in HashedGroup /\ user_name(c) \in HashedUser
    BY <1>1, <1>5, CallOfStage DEF LocalState, group_name, HashedGroup, user_name,
                                   salted_hash_name, HashedUser
  <2> QED BY <2>1, <2>2, PullCommand DEF pull_command
<1>6. CASE pc[c] = "bulk"
  <2>1. PICK d \in loc[c].held : cmd = bulk_command(c, d)
    BY <1>6 DEF Pending
  <2>2. d \in GroupDoc /\ call[c].user \in User
    BY <1>1, <1>6, CallOfStage DEF LocalState
  <2> QED BY <2>1, <2>2, BulkCommand
<1>7. CASE pc[c] = "delete_user"
  <2>1. cmd = delete_user_command(c) /\ call[c].user \in User
    BY <1>7, CallOfStage DEF Pending
  <2> QED BY <2>1, PlainCommand DEF delete_user_command
<1>8. CASE pc[c] \in {"delete_users", "delete_groups"}
  BY <1>8, PlainCommand DEF Pending
<1>9. CASE pc[c] \in {"index_users", "index_groups"}
  BY <1>9, PlainCommand DEF Pending, Collection
<1>10. pc[c] \in {"create_user", "insert_group", "add_update", "remove_update",
                  "bulk", "delete_user", "delete_users", "delete_groups",
                  "index_users", "index_groups"}
  BY DEF Pending
<1> QED BY <1>2, <1>3, <1>4, <1>5, <1>6, <1>7, <1>8, <1>9, <1>10

LEMMA CrashKeepsIInv == ASSUME IInv, NEW c \in Client, Crash(c) PROVE IInv'
<1>1. /\ UNCHANGED <<users, groups, indexed, call, seq, rivals>> /\ Fault
      /\ pc' = [pc EXCEPT ![c] = "crashed"] /\ loc' = [loc EXCEPT ![c] = Fresh]
      /\ result' = [result EXCEPT ![c].status = "crashed"]
  BY DEF Crash
<1>2. DataOK' /\ InflightOK'
  <2>1. inflight' \subseteq inflight \cup Pending(c) /\ pc[c] \notin Idle
    BY DEF Crash
  <2>2. \A cmd \in Pending(c) : CommandOK(cmd)
    BY <2>1, PendingOK
  <2>3. InflightOK'
    BY <2>1, <2>2 DEF IInv, InflightOK
  <2> QED BY <1>1, <2>3 DEF IInv, DataOK, SignaturesValid, UniqueMembers
<1>3. CountersOK'
  BY <1>1, FaultOK DEF IInv, CountersOK
<1>4. ClientsOK'
  <2>1. pc' \in [Client -> Labels]
    BY <1>1 DEF IInv, ClientsOK, Labels, Idle
  <2>2. loc' \in [Client -> LocalState]
    BY <1>1, FreshOK DEF IInv, ClientsOK
  <2>3. result' \in [Client -> [status : Statuses, keys : SUBSET SizedKey]]
    <3> DEFINE R == [status : Statuses, keys : SUBSET SizedKey]
               r == [result[c] EXCEPT !.status = "crashed"]
    <3>1. result[c] \in R
      BY DEF IInv, ClientsOK
    <3>2. r \in R
      BY <3>1 DEF Statuses
    <3>3. result \in [Client -> R] /\ result' = [result EXCEPT ![c] = r]
      BY <1>1 DEF IInv, ClientsOK
    <3> HIDE DEF R, r
    <3>4. result' \in [Client -> R]
      BY <3>2, <3>3
    <3> QED BY <3>4 DEF R
  <2>4. LocalOK(c)'
    <3>1. pc'[c] = "crashed" /\ loc'[c] = Fresh
      BY <1>1 DEF IInv, ClientsOK
    <3> QED BY <3>1, FreshOK DEF LocalOK, Idle
  <2>5. \A o \in Client \ {c} : LocalOK(o)'
    <3>1. \A o \in Client \ {c} : /\ call'[o] = call[o] /\ pc'[o] = pc[o]
                                  /\ loc'[o] = loc[o]
      BY <1>1 DEF IInv, ClientsOK
    <3> QED BY <3>1 DEF IInv, ClientsOK, LocalOK
  <2> QED BY <2>1, <2>2, <2>3, <2>4, <2>5 DEF ClientsOK
<1> QED BY <1>2, <1>3, <1>4 DEF IInv

LEMMA DeliverKeepsIInv ==
    ASSUME IInv, NEW cmd \in inflight, Deliver(cmd) PROVE IInv'
<1>1. CommandOK(cmd)
  BY DEF IInv, InflightOK
<1>2. DataOK'
  BY <1>1, ExecuteOK DEF Deliver, IInv
<1>3. inflight' \subseteq inflight
  BY DEF Deliver
<1>4. InflightOK'
  BY <1>3 DEF IInv, InflightOK
<1>5. UNCHANGED <<pc, call, loc, seq, result, faults>>
  BY DEF Deliver
<1>6. ClientsOK'
  BY <1>5 DEF IInv, ClientsOK, LocalOK
<1>7. rivals' \in [Client -> 0 .. MaxAttempts]
  BY WatchOK DEF Deliver
<1> QED BY <1>2, <1>4, <1>5, <1>6, <1>7 DEF IInv, CountersOK

LEMMA StutterKeepsIInv == ASSUME IInv, UNCHANGED vars PROVE IInv'
BY DEF IInv, vars, DataOK, InflightOK, ClientsOK, LocalOK, CountersOK,
       SignaturesValid, UniqueMembers

LEMMA InitIInv == ASSUME Init PROVE IInv
<1>1. \A u \in DOMAIN RegisteredKey : /\ StoredUser(u) \in UserDoc
                                      /\ ValidUserDoc(StoredUser(u))
  BY MongoConstants DEF StoredUser, NewUserDoc, UserDoc, ValidUserDoc,
     compute_user_signature, encrypt_data, KeyCipher, Nonce
<1>2. \A g \in DOMAIN InitialMembers : \A u \in DOMAIN RegisteredKey :
        StoredEntry(u, g) \in Entry
  BY MongoConstants DEF StoredEntry, Entry, salted_hash_name, HashedUser,
     encrypt_data, KeyCipher, Nonce
<1>3. ASSUME NEW g \in DOMAIN InitialMembers
      PROVE  /\ StoredGroup(g) \in GroupDoc
             /\ validate_group_signature(StoredGroup(g))
             /\ DistinctMembers(StoredGroup(g))
  <2> DEFINE name    == hash_name(g)
             encname == encrypt_data(g, <<Past, 0>>)
             listed  == InitialMembers[g]
             entries == [i \in DOMAIN listed |-> StoredEntry(listed[i], g)]
  <2>1. StoredGroup(g) = [name |-> name, encname |-> encname, users |-> entries,
                          signature |-> group_hmac(name, encname, entries)]
    BY DEF StoredGroup
  <2>2. name \in HashedGroup /\ encname \in NameCipher
    BY MongoConstants DEF HashedGroup, encrypt_data, NameCipher, Nonce
  <2>3. listed \in Seq(DOMAIN RegisteredKey) /\ IsInjective(listed)
    BY MongoConstants
  <2>4. entries \in Seq(Entry)
    <3>1. \A i \in 1 .. Len(listed) : StoredEntry(listed[i], g) \in Entry
      BY <1>2, <2>3
    <3> HIDE DEF listed
    <3> QED BY <2>3, <3>1
  <2>5. Distinct(entries)
    <3>1. \A i, j \in DOMAIN listed : listed[i] = listed[j] => i = j
      BY <2>3 DEF IsInjective
    <3>2. \A i \in DOMAIN listed : entries[i].name = <<listed[i], g>>
      BY DEF StoredEntry, salted_hash_name
    <3> HIDE DEF listed
    <3> QED BY <3>1, <3>2 DEF Distinct
  <2> HIDE DEF name, encname, entries
  <2>6. StoredGroup(g) \in GroupDoc
    BY <2>1, <2>2, <2>4 DEF GroupDoc, GroupSignature, group_hmac
  <2>7. validate_group_signature(StoredGroup(g))
    BY <2>1 DEF validate_group_signature, compute_group_signature
  <2> QED BY <2>1, <2>5, <2>6, <2>7 DEF DistinctMembers, Distinct
<1>4. DataOK
  BY <1>1, <1>3, MongoConstants
     DEF Init, DataOK, SignaturesValid, UniqueMembers
<1>5. InflightOK
  BY DEF Init, InflightOK
<1>6. ClientsOK
  BY FreshOK DEF Init, ClientsOK, LocalOK, Labels, Idle, Statuses
<1>7. CountersOK
  BY MongoConstants DEF Init, CountersOK
<1> QED BY <1>4, <1>5, <1>6, <1>7 DEF IInv

-----------------------------------------------------------------------------
(* Theorems *)

\* The inductive invariant: the documents are valid; every command sent, also
\* one nobody waits for, turns valid content into valid content; every document
\* a client holds was validated; a client's variables fit its round trip.
THEOREM InductiveInvariant == Spec => []IInv
<1>1. Init => IInv
  BY InitIInv
<1>2. IInv /\ [Next]_vars => IInv'
  BY StepKeepsIInv, InvokeKeepsIInv, CrashKeepsIInv, DeliverKeepsIInv,
     StutterKeepsIInv DEF Next, Done
<1> QED BY <1>1, <1>2, PTL DEF Spec

\* Type correctness, for every number of clients, calls, attempts and faults.
THEOREM TypeCorrect == Spec => []TypeOK
<1>1. IInv => TypeOK
  BY DEF IInv, DataOK, InflightOK, CommandOK, ClientsOK, LocalOK, CountersOK,
         TypeOK, LocalState
<1> QED BY <1>1, InductiveInvariant, PTL

\* No interleaving, lost answer or late command leaves a stored document whose
\* signature does not cover its content: validation never fails.
THEOREM SignaturesAlwaysValid == Spec => []SignaturesValid
<1>1. IInv => SignaturesValid
  BY DEF IInv, DataOK
<1> QED BY <1>1, InductiveInvariant, PTL

\* No user is ever twice in one group document, however often a $push is sent.
THEOREM MembersAlwaysUnique == Spec => []UniqueMembers
<1>1. IInv => UniqueMembers
  BY DEF IInv, DataOK
<1> QED BY <1>1, InductiveInvariant, PTL

-----------------------------------------------------------------------------
(* Turns and rivals of the retry loops *)

Used(c) == MaxAttempts - loc[c].attempts

\* Before a read: every turn used had a rival, or all but the last had one and
\* the next read finds nothing.
FindOK(c, Matches(_, _, _)) ==
    \/ rivals[c] >= Used(c)
    \/ /\ CountWidth = 32 /\ rivals[c] >= Used(c) - 1
       /\ \A d \in groups : ~Matches(d, group_name(c), user_name(c))

\* Before an update: the document read matched, and is there still or had a
\* rival of its own.
UpdateOK(c, Matches(_, _, _)) ==
    /\ rivals[c] >= Used(c)
    /\ \A d \in loc[c].held :
         /\ Matches(d, group_name(c), user_name(c))
         /\ d \in groups \/ rivals[c] >= Used(c) + 1

TurnOK(c) ==
    /\ pc[c] = "idle" => loc[c] = Fresh
    /\ pc[c] \in {"reencrypt", "insert_group"} => loc[c].attempts = MaxAttempts
    /\ pc[c] = "add_find" => FindOK(c, AddMatches)
    /\ pc[c] = "remove_find" => FindOK(c, RemoveMatches)
    /\ pc[c] = "add_update" => UpdateOK(c, AddMatches)
    /\ pc[c] = "remove_update" => UpdateOK(c, RemoveMatches)
    /\ result[c].status = "gave_up" =>
         rivals[c] >= IF CountWidth = 64 THEN MaxAttempts ELSE MaxAttempts - 1

GroupsUnique == "groups" \in indexed /\ Unique(groups)

\* The inductive invariant, on top of IInv.
RInv == "groups" \in InitialIndexes =>
          GroupsUnique /\ \A c \in Client : TurnOK(c)

-----------------------------------------------------------------------------
(* The unique index *)

LEMMA ReplaceUnique ==
    ASSUME Unique(groups), NEW old \in groups, NEW new, new.name = old.name,
           Replace(old, new)
    PROVE  Unique(groups)'
BY DEF Unique, Replace

LEMMA ExecuteUnique ==
    ASSUME DataOK, GroupsUnique, NEW cmd, NEW n, Execute(cmd, n)
    PROVE  GroupsUnique'
<1>1. CASE ExecuteInsert(cmd, n)
  BY <1>1 DEF ExecuteInsert, Admits, GroupsUnique, Unique
<1>2. CASE ExecutePush(cmd, n)
  <2>1. \A d \in groups : Pushed(d, cmd.entry, cmd.new).name = d.name
    BY DEF DataOK, GroupDoc, Pushed
  <2> QED BY <1>2, <2>1, ReplaceUnique DEF ExecutePush, GroupsUnique
<1>3. CASE ExecutePull(cmd, n)
  <2>1. \A d \in groups : Pulled(d, cmd.user, cmd.new).name = d.name
    BY DEF DataOK, GroupDoc, Pulled
  <2> QED BY <1>3, <2>1, ReplaceUnique DEF ExecutePull, GroupsUnique
<1>4. CASE ExecutePullExact(cmd, n)
  <2>1. \A d \in groups : Pulled(d, cmd.user, cmd.new).name = d.name
    BY DEF DataOK, GroupDoc, Pulled
  <2> QED BY <1>4, <2>1, ReplaceUnique DEF ExecutePullExact, GroupsUnique
<1>5. CASE ExecuteDelete(cmd, n)
  BY <1>5 DEF ExecuteDelete, GroupsUnique, Unique
<1>6. CASE ExecuteIndex(cmd, n)
  BY <1>6 DEF ExecuteIndex, GroupsUnique
<1> QED BY <1>1, <1>2, <1>3, <1>4, <1>5, <1>6 DEF Execute

\* No step drops the index or makes a second document of one name.
LEMMA StepUnique ==
    ASSUME IInv, GroupsUnique, NEW c \in Client, Step(c)
    PROVE  GroupsUnique'
<1>1. \/ UNCHANGED <<groups, indexed>>
      \/ \E cmd, n : Execute(cmd, n)
  BY DEF Step, create_user, reencrypt_user_key, create_group, add_find,
         add_update, remove_find, remove_update, Find, scan_open, scan_next,
         scan_end, bulk_update, delete_user, delete_all_users,
         delete_all_groups, init_users_index, init_groups_index,
         is_user_part_of_group, get_keys_of_group, ping, Read, Unread, server,
         Answered, Unanswered, data
<1>2. CASE UNCHANGED <<groups, indexed>>
  BY <1>2 DEF GroupsUnique
<1> QED BY <1>1, <1>2, ExecuteUnique DEF IInv

-----------------------------------------------------------------------------
(* A step of somebody else *)

LEMMA RivalsGrow ==
    ASSUME IInv, NEW c \in Client, NEW actors, Watch(actors)
    PROVE  /\ rivals[c] \in 0 .. MaxAttempts
           /\ rivals'[c] \in Int /\ rivals'[c] >= rivals[c]
           /\ c \in actors => rivals'[c] = rivals[c]
BY MongoConstants DEF IInv, CountersOK, Watch

LEMMA UsedRange ==
    ASSUME IInv, NEW c \in Client
    PROVE  Used(c) \in 0 .. MaxAttempts - 1
BY MongoConstants, LocalType DEF LocalState, Used

LEMMA OtherStepKeepsTurn ==
    ASSUME IInv, NEW c \in Client, TurnOK(c), NEW actors, c \notin actors,
           Watch(actors), pc'[c] = pc[c], call'[c] = call[c],
           loc'[c] = loc[c], result'[c] = result[c]
    PROVE  TurnOK(c)'
<1>1. /\ rivals[c] \in 0 .. MaxAttempts /\ rivals'[c] \in Int
      /\ rivals'[c] >= rivals[c]
  BY RivalsGrow
<1>2. Used(c)' = Used(c) /\ Used(c) \in 0 .. MaxAttempts - 1
  BY UsedRange DEF Used
<1>3. group_name(c)' = group_name(c) /\ user_name(c)' = user_name(c)
  BY DEF group_name, user_name
<1> DEFINE turn == {"add_find", "add_update", "remove_find", "remove_update"}
           mine(docs) == {d \in docs : d.name = group_name(c)}
<1>4. CASE pc[c] \notin turn
  BY <1>1, <1>4, MongoConstants DEF TurnOK
<1>5. CASE pc[c] \in turn /\ mine(groups') = mine(groups)
  <2>1. \A d : d.name = group_name(c) => (d \in groups' <=> d \in groups)
    BY <1>5
  <2>2. FindOK(c, AddMatches) => FindOK(c, AddMatches)'
    BY <1>1, <1>2, <1>3, <2>1 DEF FindOK, AddMatches
  <2>3. FindOK(c, RemoveMatches) => FindOK(c, RemoveMatches)'
    BY <1>1, <1>2, <1>3, <2>1 DEF FindOK, RemoveMatches
  <2>4. UpdateOK(c, AddMatches) => UpdateOK(c, AddMatches)'
    BY <1>1, <1>2, <1>3, <2>1 DEF UpdateOK, AddMatches
  <2>5. UpdateOK(c, RemoveMatches) => UpdateOK(c, RemoveMatches)'
    BY <1>1, <1>2, <1>3, <2>1 DEF UpdateOK, RemoveMatches
  <2> QED BY <1>1, <1>5, <2>2, <2>3, <2>4, <2>5, MongoConstants DEF TurnOK
<1>6. CASE pc[c] \in turn /\ mine(groups') # mine(groups)
  <2>1. rivals'[c] >= rivals[c] + 1 \/ rivals'[c] >= MaxAttempts
    <3>1. /\ pc[c] \notin Idle
          /\ call[c].op \in {"add_user_to_group", "create_group",
                             "remove_user_from_group"}
      BY <1>6, CallOfStage DEF Idle
    <3>2. Watching(c) /\ Watched(c, groups') # Watched(c, groups)
      BY <1>6, <3>1 DEF Watching, Watched
    <3> QED BY <1>1, <3>2, MongoConstants DEF Watch
  <2>2. FindOK(c, AddMatches) => FindOK(c, AddMatches)'
    BY <1>1, <1>2, <2>1, MongoConstants DEF FindOK
  <2>3. FindOK(c, RemoveMatches) => FindOK(c, RemoveMatches)'
    BY <1>1, <1>2, <2>1, MongoConstants DEF FindOK
  <2>4. UpdateOK(c, AddMatches) => UpdateOK(c, AddMatches)'
    BY <1>1, <1>2, <1>3, <2>1, MongoConstants DEF UpdateOK
  <2>5. UpdateOK(c, RemoveMatches) => UpdateOK(c, RemoveMatches)'
    BY <1>1, <1>2, <1>3, <2>1, MongoConstants DEF UpdateOK
  <2> QED BY <1>1, <1>6, <2>2, <2>3, <2>4, <2>5, MongoConstants DEF TurnOK
<1> QED BY <1>4, <1>5, <1>6

-----------------------------------------------------------------------------
(* A step of the call itself *)

\* What a return or a move leaves in the variables of the client.
LEMMA ReturnEffect ==
    ASSUME IInv, NEW c \in Client, NEW status, Return(c, status)
    PROVE  pc'[c] = "idle" /\ loc'[c] = Fresh /\ result'[c].status = status
BY DEF IInv, ClientsOK, Return, ReturnKeys

LEMMA GotoEffect ==
    ASSUME IInv, NEW c \in Client, NEW label, NEW local, Goto(c, label, local)
    PROVE  pc'[c] = label /\ loc'[c] = local /\ result'[c] = result[c]
BY DEF IInv, ClientsOK, Goto

\* A call that ends with another outcome than "gave_up".
LEMMA ReturnKeepsTurn ==
    ASSUME IInv, NEW c \in Client, NEW status, status # "gave_up",
           Return(c, status)
    PROVE  TurnOK(c)'
BY ReturnEffect DEF TurnOK

LEMMA UnansweredKeepsTurn ==
    ASSUME IInv, NEW c \in Client, NEW cmds, Unanswered(c, cmds)
    PROVE  TurnOK(c)'
BY ReturnKeepsTurn DEF Unanswered

\* The next turn of a loop, or the throw: what is known after the update is
\* what FindOK asks for, one attempt later.
LEMMA RetryKeepsTurn ==
    ASSUME IInv, NEW c \in Client, TurnOK(c), rivals'[c] = rivals[c],
           UNCHANGED call, NEW label \in {"add_find", "remove_find"},
           Retry(c, label),
           \/ rivals[c] >= Used(c) + 1
           \/ /\ CountWidth = 32 /\ rivals[c] >= Used(c)
              /\ label = "add_find" => \A d \in groups' :
                   ~AddMatches(d, group_name(c), user_name(c))
              /\ label = "remove_find" => \A d \in groups' :
                   ~RemoveMatches(d, group_name(c), user_name(c))
    PROVE  TurnOK(c)'
<1>1. Used(c) \in 0 .. MaxAttempts - 1 /\ loc[c].attempts \in 1 .. MaxAttempts
      /\ rivals[c] \in 0 .. MaxAttempts
  BY UsedRange, LocalType DEF LocalState, IInv, CountersOK
<1>2. group_name(c)' = group_name(c) /\ user_name(c)' = user_name(c)
  BY DEF group_name, user_name
<1> DEFINE local == [loc[c] EXCEPT !.held = {}, !.attempts = @ - 1]
<1>3. CASE loc[c].attempts > 1 /\ Goto(c, label, local)
  <2>1. pc'[c] = label /\ loc'[c] = local /\ result'[c] = result[c]
    BY <1>3, GotoEffect
  <2>2. local.attempts = loc[c].attempts - 1
    BY LocalType DEF LocalState
  <2>3. Used(c)' = Used(c) + 1
    BY <1>1, <2>1, <2>2, MongoConstants DEF Used
  <2>4. label = "add_find" => FindOK(c, AddMatches)'
    BY <1>1, <1>2, <2>3 DEF FindOK
  <2>5. label = "remove_find" => FindOK(c, RemoveMatches)'
    BY <1>1, <1>2, <2>3 DEF FindOK
  <2> QED BY <2>1, <2>4, <2>5 DEF TurnOK
<1>4. CASE ~(loc[c].attempts > 1) /\ Return(c, "gave_up")
  <2>1. Used(c) = MaxAttempts - 1
    BY <1>1, <1>4, MongoConstants DEF Used
  <2>2. rivals'[c] >= IF CountWidth = 64 THEN MaxAttempts ELSE MaxAttempts - 1
    BY <1>1, <2>1, MongoConstants
  <2> QED BY <1>4, <2>2, ReturnEffect DEF TurnOK
<1> QED BY <1>3, <1>4 DEF Retry

LEMMA KeepKeepsTurn ==
    ASSUME IInv, NEW c \in Client, TurnOK(c), rivals'[c] = rivals[c],
           UNCHANGED <<call, groups>>, rivals[c] >= Used(c), NEW d \in groups,
           NEW label \in {"add_update", "remove_update"},
           label = "add_update" => AddMatches(d, group_name(c), user_name(c)),
           label = "remove_update" => RemoveMatches(d, group_name(c), user_name(c)),
           Goto(c, label, [loc[c] EXCEPT !.held = {d}])
    PROVE  TurnOK(c)'
<1> DEFINE local == [loc[c] EXCEPT !.held = {d}]
<1>1. pc'[c] = label /\ loc'[c] = local /\ result'[c] = result[c]
  BY GotoEffect
<1>2. local.held = {d} /\ local.attempts = loc[c].attempts
  BY LocalType DEF LocalState
<1>3. Used(c)' = Used(c)
  BY <1>1, <1>2 DEF Used
<1>4. group_name(c)' = group_name(c) /\ user_name(c)' = user_name(c)
  BY DEF group_name, user_name
<1>5. label = "add_update" => UpdateOK(c, AddMatches)'
  BY <1>1, <1>2, <1>3, <1>4 DEF UpdateOK
<1>6. label = "remove_update" => UpdateOK(c, RemoveMatches)'
  BY <1>1, <1>2, <1>3, <1>4 DEF UpdateOK
<1> QED BY <1>1, <1>5, <1>6 DEF TurnOK

LEMMA AddFindKeepsTurn ==
    ASSUME IInv, NEW c \in Client, TurnOK(c), rivals'[c] = rivals[c],
           UNCHANGED call, add_find(c)
    PROVE  TurnOK(c)'
<1>1. pc[c] = "add_find" /\ UNCHANGED groups
  BY DEF add_find, Find, Read, Unread, server
<1>2. CASE Return(c, "ok") \/ Return(c, "bad_signature")
  BY <1>2, ReturnKeepsTurn
<1>3. CASE \E d \in groups : /\ AddMatches(d, group_name(c), user_name(c))
                             /\ Goto(c, "add_update", [loc[c] EXCEPT !.held = {d}])
  <2>1. rivals[c] >= Used(c)
    BY <1>1, <1>3 DEF TurnOK, FindOK
  <2> QED BY <1>1, <1>3, <2>1, KeepKeepsTurn
<1> QED BY <1>2, <1>3 DEF add_find, Find

LEMMA RemoveFindKeepsTurn ==
    ASSUME IInv, NEW c \in Client, TurnOK(c), rivals'[c] = rivals[c],
           UNCHANGED call, remove_find(c)
    PROVE  TurnOK(c)'
<1>1. pc[c] = "remove_find" /\ UNCHANGED groups
  BY DEF remove_find, Find, Read, Unread, server
<1>2. CASE Return(c, "ok") \/ Return(c, "bad_signature")
  BY <1>2, ReturnKeepsTurn
<1>3. CASE \E d \in groups :
             /\ RemoveMatches(d, group_name(c), user_name(c))
             /\ Goto(c, "remove_update", [loc[c] EXCEPT !.held = {d}])
  <2>1. rivals[c] >= Used(c)
    BY <1>1, <1>3 DEF TurnOK, FindOK
  <2> QED BY <1>1, <1>3, <2>1, KeepKeepsTurn
<1> QED BY <1>2, <1>3 DEF remove_find, Find

LEMMA AddUpdateKeepsTurn ==
    ASSUME IInv, GroupsUnique, NEW c \in Client, TurnOK(c),
           rivals'[c] = rivals[c], UNCHANGED call, add_update(c)
    PROVE  TurnOK(c)'
<1> DEFINE cmd(d) == [kind |-> "push", name |-> group_name(c),
                      entry |-> new_entry(c), old |-> d.signature,
                      new |-> signature_with(d, new_entry(c))]
<1>1. PICK d \in loc[c].held :
        \/ \E n \in {0, 1} :
             /\ Answered(cmd(d), n)
             /\ IF BsonIterInt64(n) >= 1 THEN Return(c, "ok")
                                         ELSE Retry(c, "add_find")
        \/ Unanswered(c, {cmd(d)})
  BY DEF add_update, push_command
<1>2. /\ rivals[c] >= Used(c)
      /\ AddMatches(d, group_name(c), user_name(c))
      /\ d \in groups \/ rivals[c] >= Used(c) + 1
  BY DEF add_update, TurnOK, UpdateOK
<1>3. /\ cmd(d).kind = "push" /\ cmd(d).name = group_name(c)
      /\ cmd(d).entry = new_entry(c) /\ cmd(d).entry.name = user_name(c)
      /\ cmd(d).old = d.signature
  BY DEF new_entry
<1> HIDE DEF cmd
<1>4. CASE Unanswered(c, {cmd(d)})
  BY <1>4, UnansweredKeepsTurn
<1>5. CASE \E n \in {0, 1} : Answered(cmd(d), n) /\ Return(c, "ok")
  BY <1>5, ReturnKeepsTurn
<1>6. CASE \E n \in {0, 1} : /\ Answered(cmd(d), n) /\ ~(BsonIterInt64(n) >= 1)
                             /\ Retry(c, "add_find")
  <2>1. PICK n \in {0, 1} : /\ Answered(cmd(d), n) /\ ~(BsonIterInt64(n) >= 1)
                            /\ Retry(c, "add_find")
    BY <1>6
  <2>2. ExecutePush(cmd(d), n)
    BY <1>3, <2>1 DEF Answered, Execute, ExecuteInsert, ExecutePull,
                      ExecutePullExact, ExecuteDelete, ExecuteIndex
  <2>3. CASE n = 0
    <3>1. \A x \in groups : ~PushMatches(x, cmd(d))
      BY <2>2, <2>3 DEF ExecutePush
    <3>2. d \notin groups
      BY <1>2, <1>3, <3>1 DEF PushMatches
    <3> QED BY <1>2, <2>1, <3>2, RetryKeepsTurn
  <2>4. CASE n = 1
    <3>1. CountWidth = 32
      BY <2>1, <2>4, MongoConstants DEF BsonIterInt64
    <3>2. PICK x \in groups : /\ PushMatches(x, cmd(d))
                              /\ Replace(x, Pushed(x, cmd(d).entry, cmd(d).new))
      BY <2>2, <2>4 DEF ExecutePush
    <3> DEFINE p == Pushed(x, cmd(d).entry, cmd(d).new)
    <3>3. /\ x.name = group_name(c) /\ p.name = x.name
          /\ p.users = Append(x.users, new_entry(c)) /\ x.users \in Seq(Entry)
      BY <1>3, <3>2 DEF PushMatches, AddMatches, Pushed, IInv, DataOK, GroupDoc
    <3>4. \A y \in groups' : y = p \/ y.name # group_name(c)
      BY <3>2, <3>3 DEF Replace, GroupsUnique, Unique
    <3>5. HasUser(p, user_name(c))
      <4>1. new_entry(c) \in Entry
        BY <1>6, EntryOK DEF add_update
      <4> QED BY <1>3, <3>3, <4>1, AppendRange DEF HasUser
    <3> HIDE DEF p
    <3>6. \A y \in groups' : ~AddMatches(y, group_name(c), user_name(c))
      BY <3>4, <3>5 DEF AddMatches
    <3> QED BY <1>2, <2>1, <3>1, <3>6, RetryKeepsTurn
  <2> QED BY <2>3, <2>4
<1> QED BY <1>1, <1>4, <1>5, <1>6

LEMMA RemoveUpdateKeepsTurn ==
    ASSUME IInv, GroupsUnique, NEW c \in Client, TurnOK(c),
           rivals'[c] = rivals[c], UNCHANGED call, remove_update(c)
    PROVE  TurnOK(c)'
<1> DEFINE cmd(d) == [kind |-> "pull", name |-> group_name(c),
                      user |-> user_name(c), old |-> d.signature,
                      new |-> signature_without(d, user_name(c))]
<1>1. PICK d \in loc[c].held :
        \/ \E n \in {0, 1} :
             /\ Answered(cmd(d), n)
             /\ IF BsonIterInt64(n) >= 1 THEN Return(c, "ok")
                                         ELSE Retry(c, "remove_find")
        \/ Unanswered(c, {cmd(d)})
  BY DEF remove_update, pull_command
<1>2. /\ rivals[c] >= Used(c)
      /\ RemoveMatches(d, group_name(c), user_name(c))
      /\ d \in groups \/ rivals[c] >= Used(c) + 1
  BY DEF remove_update, TurnOK, UpdateOK
<1>3. /\ cmd(d).kind = "pull" /\ cmd(d).name = group_name(c)
      /\ cmd(d).user = user_name(c) /\ cmd(d).old = d.signature
  OBVIOUS
<1> HIDE DEF cmd
<1>4. CASE Unanswered(c, {cmd(d)})
  BY <1>4, UnansweredKeepsTurn
<1>5. CASE \E n \in {0, 1} : Answered(cmd(d), n) /\ Return(c, "ok")
  BY <1>5, ReturnKeepsTurn
<1>6. CASE \E n \in {0, 1} : /\ Answered(cmd(d), n) /\ ~(BsonIterInt64(n) >= 1)
                             /\ Retry(c, "remove_find")
  <2>1. PICK n \in {0, 1} : /\ Answered(cmd(d), n) /\ ~(BsonIterInt64(n) >= 1)
                            /\ Retry(c, "remove_find")
    BY <1>6
  <2>2. ExecutePull(cmd(d), n)
    BY <1>3, <2>1 DEF Answered, Execute, ExecuteInsert, ExecutePush,
                      ExecutePullExact, ExecuteDelete, ExecuteIndex
  <2>3. CASE n = 0
    <3>1. \A x \in groups : ~PullMatches(x, cmd(d))
      BY <2>2, <2>3 DEF ExecutePull
    <3>2. d \notin groups
      BY <1>2, <1>3, <3>1 DEF PullMatches
    <3> QED BY <1>2, <2>1, <3>2, RetryKeepsTurn
  <2>4. CASE n = 1
    <3>1. CountWidth = 32
      BY <2>1, <2>4, MongoConstants DEF BsonIterInt64
    <3>2. PICK x \in groups : /\ PullMatches(x, cmd(d))
                              /\ Replace(x, Pulled(x, cmd(d).user, cmd(d).new))
      BY <2>2, <2>4 DEF ExecutePull
    <3> DEFINE p == Pulled(x, cmd(d).user, cmd(d).new)
    <3>3. /\ x.name = group_name(c) /\ x.users \in Seq(Entry)
          /\ p.users = Without(x.users, cmd(d).user)
      BY <1>3, <3>2 DEF PullMatches, RemoveMatches, Pulled, IInv, DataOK, GroupDoc
    <3>4. \A y \in groups' : y = p \/ y.name # group_name(c)
      BY <3>2, <3>3 DEF Replace, GroupsUnique, Unique
    <3>5. ~HasUser(p, user_name(c))
      BY <1>3, <3>3, WithoutEntries DEF HasUser
    <3> HIDE DEF p
    <3>6. \A y \in groups' : ~RemoveMatches(y, group_name(c), user_name(c))
      BY <3>4, <3>5 DEF RemoveMatches
    <3> QED BY <1>2, <2>1, <3>1, <3>6, RetryKeepsTurn
  <2> QED BY <2>3, <2>4
<1> QED BY <1>1, <1>4, <1>5, <1>6

\* A move to a round trip that belongs to no retry loop.
LEMMA GotoKeepsTurn ==
    ASSUME IInv, NEW c \in Client, TurnOK(c), rivals'[c] = rivals[c],
           NEW label, label \notin {"idle", "reencrypt", "insert_group", "add_find",
                                    "add_update", "remove_find", "remove_update"},
           NEW local, Goto(c, label, local)
    PROVE  TurnOK(c)'
BY GotoEffect DEF TurnOK

\* A move to the first turn: no attempt is used.
LEMMA FirstTurn ==
    ASSUME IInv, NEW c \in Client, TurnOK(c), rivals'[c] = rivals[c],
           NEW label \in {"insert_group", "add_find"}, NEW local,
           local.attempts = MaxAttempts, Goto(c, label, local)
    PROVE  TurnOK(c)'
<1>1. pc'[c] = label /\ loc'[c] = local /\ result'[c] = result[c]
  BY GotoEffect
<1>2. Used(c)' = 0
  BY <1>1, MongoConstants DEF Used
<1>3. rivals'[c] >= 0
  BY DEF IInv, CountersOK
<1> QED BY <1>1, <1>2, <1>3 DEF TurnOK, FindOK

LEMMA ReencryptKeepsTurn ==
    ASSUME IInv, NEW c \in Client, TurnOK(c), rivals'[c] = rivals[c],
           reencrypt_user_key(c)
    PROVE  TurnOK(c)'
<1>1. CASE Return(c, "bad_signature") \/ Return(c, "no_user")
  BY <1>1, ReturnKeepsTurn
<1> DEFINE local(d) ==
             [loc[c] EXCEPT !.key = encrypt_data(decrypt_data(d.key), nonce(c))]
           label == IF call[c].op = "create_group" THEN "insert_group" ELSE "add_find"
<1>2. CASE \E d \in users : Goto(c, label, local(d))
  <2>1. PICK d \in users : Goto(c, label, local(d))
    BY <1>2
  <2>2. local(d).attempts = MaxAttempts
    BY LocalType DEF LocalState, TurnOK, reencrypt_user_key
  <2> HIDE DEF local
  <2> QED BY <2>1, <2>2, FirstTurn
<1> QED BY <1>1, <1>2 DEF reencrypt_user_key

LEMMA CreateGroupKeepsTurn ==
    ASSUME IInv, NEW c \in Client, TurnOK(c), rivals'[c] = rivals[c],
           create_group(c)
    PROVE  TurnOK(c)'
<1>1. loc[c].attempts = MaxAttempts
  BY DEF create_group, TurnOK
<1>2. \/ Return(c, "ok") \/ Goto(c, "add_find", loc[c])
      \/ \E cmds : Unanswered(c, cmds)
  BY DEF create_group, insert_group_command
<1> QED BY <1>1, <1>2, ReturnKeepsTurn, FirstTurn, UnansweredKeepsTurn

\* The operations with no retry loop.
LEMMA PlainKeepsTurn ==
    ASSUME IInv, NEW c \in Client, TurnOK(c), rivals'[c] = rivals[c],
           \/ create_user(c) \/ scan_open(c) \/ scan_next(c) \/ scan_end(c)
           \/ bulk_update(c) \/ delete_user(c) \/ delete_all_users(c)
           \/ delete_all_groups(c) \/ init_users_index(c)
           \/ init_groups_index(c) \/ is_user_part_of_group(c)
           \/ get_keys_of_group(c) \/ ping(c)
    PROVE  TurnOK(c)'
<1> DEFINE plain == {"scan", "bulk", "delete_user", "delete_groups", "index_groups"}
<1>1. \/ \E s \in Statuses \ {"gave_up"} : Return(c, s)
      \/ \E keys : ReturnKeys(c, "ok", keys)
      \/ \E cmds : Unanswered(c, cmds)
      \/ \E label \in plain : \E local : Goto(c, label, local)
  <2>1. CASE create_user(c)
    BY <2>1 DEF create_user, Statuses
  <2>2. CASE scan_open(c) \/ scan_next(c) \/ scan_end(c)
    BY <2>2 DEF scan_open, scan_next, scan_end, Statuses
  <2>3. CASE bulk_update(c)
    BY <2>3 DEF bulk_update
  <2>4. CASE delete_user(c) \/ delete_all_users(c) \/ delete_all_groups(c)
    BY <2>4 DEF delete_user, delete_all_users, delete_all_groups, Statuses
  <2>5. CASE init_users_index(c) \/ init_groups_index(c)
    BY <2>5 DEF init_users_index, init_groups_index, Statuses
  <2>6. CASE is_user_part_of_group(c) \/ get_keys_of_group(c) \/ ping(c)
    BY <2>6 DEF is_user_part_of_group, get_keys_of_group, ping, Statuses
  <2> QED BY <2>1, <2>2, <2>3, <2>4, <2>5, <2>6
<1>2. CASE \E keys : ReturnKeys(c, "ok", keys)
  BY <1>2 DEF TurnOK, ReturnKeys, IInv, ClientsOK
<1>3. CASE \E label \in plain : \E local : Goto(c, label, local)
  BY <1>3, GotoKeepsTurn
<1> QED BY <1>1, <1>2, <1>3, ReturnKeepsTurn, UnansweredKeepsTurn

LEMMA OwnStepKeepsTurn ==
    ASSUME IInv, GroupsUnique, NEW c \in Client, TurnOK(c), Step(c)
    PROVE  TurnOK(c)'
<1>1. UNCHANGED call /\ rivals'[c] = rivals[c]
  BY RivalsGrow DEF Step
<1> QED BY <1>1, AddFindKeepsTurn, AddUpdateKeepsTurn, RemoveFindKeepsTurn,
           RemoveUpdateKeepsTurn, ReencryptKeepsTurn, CreateGroupKeepsTurn,
           PlainKeepsTurn DEF Step

LEMMA SameKeepsTurn ==
    ASSUME NEW c, TurnOK(c), groups' = groups, pc'[c] = pc[c],
           call'[c] = call[c], loc'[c] = loc[c], result'[c] = result[c],
           rivals'[c] = rivals[c]
    PROVE  TurnOK(c)'
BY DEF TurnOK, FindOK, UpdateOK, Used, group_name, user_name

\* A round trip ends the call or leads to another round trip.
LEMMA StepShape ==
    ASSUME NEW c, Step(c)
    PROVE  \/ \E s, k : ReturnKeys(c, s, k)
           \/ \E l, v : l \notin Idle /\ Goto(c, l, v)
BY DEF Step, create_user, reencrypt_user_key, create_group, add_find,
       add_update, remove_find, remove_update, Find, scan_open, scan_next,
       scan_end, bulk_update, delete_user, delete_all_users,
       delete_all_groups, init_users_index, init_groups_index,
       is_user_part_of_group, get_keys_of_group, ping, Unanswered, Retry,
       Return, Idle

LEMMA OthersUntouched ==
    ASSUME IInv, NEW c \in Client, Step(c), NEW o \in Client \ {c}
    PROVE  /\ pc'[o] = pc[o] /\ loc'[o] = loc[o] /\ result'[o] = result[o]
           /\ call'[o] = call[o] /\ seq'[o] = seq[o]
<1>1. UNCHANGED <<call, seq>>
  BY DEF Step
<1>2. \/ \E s, k : ReturnKeys(c, s, k)
      \/ \E l, v : Goto(c, l, v)
  BY StepShape
<1> QED BY <1>1, <1>2 DEF ReturnKeys, Goto, IInv, ClientsOK

LEMMA StepKeepsRInv ==
    ASSUME IInv, RInv, NEW c \in Client, Step(c) PROVE RInv'
<1> SUFFICES ASSUME "groups" \in InitialIndexes
             PROVE  GroupsUnique' /\ \A o \in Client : TurnOK(o)'
  BY DEF RInv
<1>1. GroupsUnique /\ \A o \in Client : TurnOK(o)
  BY DEF RInv
<1>2. GroupsUnique'
  BY <1>1, StepUnique
<1>3. TurnOK(c)'
  BY <1>1, OwnStepKeepsTurn
<1>4. ASSUME NEW o \in Client \ {c} PROVE TurnOK(o)'
  <2>1. Watch({c}) /\ UNCHANGED call
    BY DEF Step
  <2>2. pc'[o] = pc[o] /\ loc'[o] = loc[o] /\ result'[o] = result[o]
    BY OthersUntouched
  <2> QED BY <1>1, <2>1, <2>2, OtherStepKeepsTurn
<1> QED BY <1>2, <1>3, <1>4

LEMMA InvokeKeepsRInv ==
    ASSUME IInv, RInv, NEW c \in Client, Invoke(c) PROVE RInv'
<1> SUFFICES ASSUME "groups" \in InitialIndexes
             PROVE  GroupsUnique' /\ \A o \in Client : TurnOK(o)'
  BY DEF RInv
<1>1. GroupsUnique /\ \A o \in Client : TurnOK(o)
  BY DEF RInv
<1>2. UNCHANGED <<groups, indexed, loc>>
  BY DEF Invoke
<1>3. PICK new \in Calls : /\ call' = [call EXCEPT ![c] = new]
                           /\ pc' = [pc EXCEPT ![c] = First[new.op]]
  BY DEF Invoke
<1>4. /\ pc'[c] = First[new.op] /\ loc'[c] = Fresh
      /\ rivals'[c] = 0 /\ result'[c].status = "none"
  <2>1. pc[c] = "idle" /\ loc[c] = Fresh
    BY <1>1 DEF Invoke, TurnOK
  <2> QED BY <1>2, <1>3, <2>1 DEF Invoke, IInv, ClientsOK, CountersOK
<1>5. TurnOK(c)'
  <2>1. First[new.op] \notin {"idle", "insert_group", "add_find", "add_update",
                              "remove_update"}
    <3>1. new.op \in AllOps
      BY DEF Calls, AllOps, GroupUserOps
    <3> QED BY <3>1 DEF AllOps, GroupUserOps, First
  <2>2. loc'[c].attempts = MaxAttempts /\ Used(c)' = 0
    BY <1>4, MongoConstants DEF Fresh, Used
  <2> QED BY <1>4, <2>1, <2>2 DEF TurnOK, FindOK
<1>6. ASSUME NEW o \in Client \ {c} PROVE TurnOK(o)'
  <2>1. /\ pc'[o] = pc[o] /\ call'[o] = call[o] /\ result'[o] = result[o]
        /\ rivals'[o] = rivals[o] /\ loc'[o] = loc[o] /\ groups' = groups
    BY <1>2, <1>3 DEF Invoke, IInv, ClientsOK, CountersOK
  <2> QED BY <1>1, <2>1, SameKeepsTurn
<1> QED BY <1>1, <1>2, <1>5, <1>6 DEF GroupsUnique

LEMMA CrashKeepsRInv ==
    ASSUME IInv, RInv, NEW c \in Client, Crash(c) PROVE RInv'
<1> SUFFICES ASSUME "groups" \in InitialIndexes
             PROVE  GroupsUnique' /\ \A o \in Client : TurnOK(o)'
  BY DEF RInv
<1>1. GroupsUnique /\ \A o \in Client : TurnOK(o)
  BY DEF RInv
<1>2. UNCHANGED <<groups, indexed, call, rivals>>
  BY DEF Crash
<1>3. TurnOK(c)'
  <2>1. pc'[c] = "crashed" /\ result'[c].status = "crashed"
    BY DEF Crash, IInv, ClientsOK
  <2> QED BY <2>1 DEF TurnOK
<1>4. ASSUME NEW o \in Client \ {c} PROVE TurnOK(o)'
  <2>1. pc'[o] = pc[o] /\ loc'[o] = loc[o] /\ result'[o] = result[o]
    BY DEF Crash, IInv, ClientsOK
  <2> QED BY <1>1, <1>2, <2>1, SameKeepsTurn
<1> QED BY <1>1, <1>2, <1>3, <1>4 DEF GroupsUnique

LEMMA DeliverKeepsRInv ==
    ASSUME IInv, RInv, NEW cmd \in inflight, Deliver(cmd) PROVE RInv'
<1> SUFFICES ASSUME "groups" \in InitialIndexes
             PROVE  GroupsUnique' /\ \A o \in Client : TurnOK(o)'
  BY DEF RInv
<1>1. GroupsUnique /\ \A o \in Client : TurnOK(o)
  BY DEF RInv
<1>2. GroupsUnique'
  BY <1>1, ExecuteUnique DEF Deliver, IInv
<1>3. Watch({}) /\ UNCHANGED <<pc, call, loc, result>>
  BY DEF Deliver
<1> QED BY <1>1, <1>2, <1>3, OtherStepKeepsTurn

LEMMA InitRInv == ASSUME Init PROVE RInv
<1> SUFFICES ASSUME "groups" \in InitialIndexes
             PROVE  GroupsUnique /\ \A c \in Client : TurnOK(c)
  BY DEF RInv
<1>1. \A g \in DOMAIN InitialMembers : StoredGroup(g).name = <<g>>
  BY DEF StoredGroup, hash_name
<1>2. Unique(groups)
  BY <1>1 DEF Init, Unique
<1>3. ASSUME NEW c \in Client PROVE TurnOK(c)
  BY DEF Init, TurnOK
<1> QED BY <1>2, <1>3 DEF Init, GroupsUnique

-----------------------------------------------------------------------------
(* The retry loops *)

\* The turns a call has used never outnumber the changes others made under it,
\* but for the one misread, and the unique index stays.
THEOREM TurnsCounted == Spec => []RInv
<1>1. Init => RInv
  BY InitRInv
<1>2. IInv /\ RInv /\ [Next]_vars => RInv'
  <2>1. IInv /\ RInv /\ UNCHANGED vars => RInv'
    BY SameKeepsTurn DEF RInv, vars, GroupsUnique
  <2> QED
    BY <2>1, StepKeepsRInv, InvokeKeepsRInv, CrashKeepsRInv, DeliverKeepsRInv
       DEF Next, Done
<1> QED BY <1>1, <1>2, InductiveInvariant, PTL DEF Spec

\* For every MaxAttempts, number of clients and of faults: given the unique
\* index, a call gives up only if others changed its group in every attempt;
\* where counts are misread, in every attempt but one.
THEOREM GiveUpNeedsRivals == Spec => []GiveUpOnlyUnderContention
<1>1. RInv => GiveUpOnlyUnderContention
  BY DEF RInv, TurnOK, GiveUpOnlyUnderContention
<1> QED BY <1>1, TurnsCounted, PTL
=============================================================================

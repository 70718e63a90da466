------------------------ MODULE MongoDirectoryProofs ------------------------
(***************************************************************************)
(* MongoDatabase implements GroupDirectory, for all constants: initial     *)
(* states map to initial states, and every step of a client or of the      *)
(* server maps to a step of the directory or to none.                      *)
(*                                                                         *)
(* The argument needs the unique index on the groups: with two documents   *)
(* of one name, a remove would return while the other still lists the      *)
(* user.  From there it goes through the write commands: each makes the    *)
(* change ChangeOf names, or none; a call sends only commands whose        *)
(* changes its operation asks for; and what a call returns is read off the *)
(* documents its last round trip matched.                                  *)
(***************************************************************************)
EXTENDS MongoDirectory, MongoDatabaseProofs

\* A command names a user by the salt of the group it is addressed to.
Addressed(cmd) ==
    /\ cmd.kind = "push" => \E g \in Group, u \in User :
         cmd.name = hash_name(g) /\ cmd.entry.name = salted_hash_name(u, g)
    /\ cmd.kind = "pull" => \E g \in Group, u \in User :
         cmd.name = hash_name(g) /\ cmd.user = salted_hash_name(u, g)
    /\ cmd.kind = "insert_group" => \E g \in Group, u \in User, e \in Entry :
         /\ cmd.doc.name = hash_name(g) /\ cmd.doc.users = <<e>>
         /\ e.name = salted_hash_name(u, g)

\* The inductive invariant, on top of IInv and RInv.
LateOK == \A cmd \in inflight : Addressed(cmd)

Same == ListedGroups' = ListedGroups /\ Listed' = Listed

-----------------------------------------------------------------------------
(* What the commands do to the directory *)

LEMMA NamesDiffer ==
    /\ \A g, h : hash_name(g) = hash_name(h) => g = h
    /\ \A u, v, g, h : salted_hash_name(u, g) = salted_hash_name(v, h)
                         => u = v /\ g = h
BY DEF hash_name, salted_hash_name

LEMMA NothingChanges == ASSUME UNCHANGED groups PROVE Same
BY DEF Same, ListedGroups, Listed

\* A document replaced by one of the same name and with other users.
LEMMA ReplacedDocument ==
    ASSUME Unique(groups), NEW old \in groups, NEW new, new.name = old.name,
           Replace(old, new)
    PROVE  /\ ListedGroups' = ListedGroups
           /\ \A g \in Group, u \in User :
                <<g, u>> \in Listed' <=>
                  IF old.name = hash_name(g) THEN HasUser(new, salted_hash_name(u, g))
                                             ELSE <<g, u>> \in Listed
           /\ \A g \in Group, u \in User : old.name = hash_name(g) =>
                (<<g, u>> \in Listed <=> HasUser(old, salted_hash_name(u, g)))
<1>1. \A d : d \in groups' <=> d = new \/ (d \in groups /\ d # old)
  BY DEF Replace
<1>2. \A d \in groups : d.name = old.name => d = old
  BY DEF Unique
<1>3. ListedGroups' = ListedGroups
  BY <1>1 DEF ListedGroups
<1>4. \A g \in Group, u \in User :
        /\ <<g, u>> \in Listed <=> \E d \in groups :
             d.name = hash_name(g) /\ HasUser(d, salted_hash_name(u, g))
        /\ <<g, u>> \in Listed' <=> \E d \in groups' :
             d.name = hash_name(g) /\ HasUser(d, salted_hash_name(u, g))
  BY DEF Listed, RemoveMatches
<1>5. ASSUME NEW g \in Group, NEW u \in User, old.name = hash_name(g)
      PROVE  /\ <<g, u>> \in Listed <=> HasUser(old, salted_hash_name(u, g))
             /\ <<g, u>> \in Listed' <=> HasUser(new, salted_hash_name(u, g))
  BY <1>1, <1>2, <1>4, <1>5
<1>6. ASSUME NEW g \in Group, NEW u \in User, old.name # hash_name(g)
      PROVE  <<g, u>> \in Listed' <=> <<g, u>> \in Listed
  BY <1>1, <1>4, <1>6
<1> QED BY <1>3, <1>5, <1>6

LEMMA PairsEqual ==
    ASSUME NEW A, NEW B, A \subseteq Group \X User, B \subseteq Group \X User,
           \A g \in Group, u \in User : <<g, u>> \in A <=> <<g, u>> \in B
    PROVE  A = B
OBVIOUS

LEMMA ListedType == Listed \subseteq Group \X User /\ Listed' \subseteq Group \X User
BY DEF Listed

LEMMA PushDirectory ==
    ASSUME IInv, GroupsUnique, NEW cmd, NEW n, ExecutePush(cmd, n),
           NEW g \in Group, NEW u \in User, cmd.name = hash_name(g),
           cmd.entry \in Entry, cmd.entry.name = salted_hash_name(u, g)
    PROVE  \/ UNCHANGED groups /\ n = 0
           \/ /\ g \in ListedGroups /\ UNCHANGED ListedGroups
              /\ Listed' = Listed \cup {<<g, u>>} /\ n = 1
<1>1. CASE \E d \in groups : /\ PushMatches(d, cmd) /\ n = 1
                             /\ Replace(d, Pushed(d, cmd.entry, cmd.new))
  <2>1. PICK d \in groups : /\ PushMatches(d, cmd) /\ n = 1
                            /\ Replace(d, Pushed(d, cmd.entry, cmd.new))
    BY <1>1
  <2> DEFINE p == Pushed(d, cmd.entry, cmd.new)
  <2>2. d.name = hash_name(g)
    BY <2>1 DEF PushMatches, AddMatches
  <2>3. p.name = d.name /\ Range(p.users) = Range(d.users) \cup {cmd.entry}
    <3>1. d \in GroupDoc
      BY DEF IInv, DataOK
    <3> QED BY <3>1, PushedMembers
  <2> HIDE DEF p
  <2>4. /\ ListedGroups' = ListedGroups
        /\ \A h \in Group, v \in User :
             <<h, v>> \in Listed' <=>
               IF d.name = hash_name(h) THEN HasUser(p, salted_hash_name(v, h))
                                        ELSE <<h, v>> \in Listed
        /\ \A h \in Group, v \in User : d.name = hash_name(h) =>
             (<<h, v>> \in Listed <=> HasUser(d, salted_hash_name(v, h)))
    BY <2>1, <2>3, ReplacedDocument DEF p, GroupsUnique
  <2>5. \A h \in Group, v \in User : d.name = hash_name(h) =>
          (HasUser(p, salted_hash_name(v, h)) <=>
             HasUser(d, salted_hash_name(v, h)) \/ <<h, v>> = <<g, u>>)
    BY <2>2, <2>3, NamesDiffer DEF HasUser
  <2>6. \A h \in Group, v \in User :
          <<h, v>> \in Listed' <=> <<h, v>> \in Listed \cup {<<g, u>>}
    BY <2>2, <2>4, <2>5
  <2>7. Listed' = Listed \cup {<<g, u>>}
    <3> DEFINE A == Listed'
               B == Listed \cup {<<g, u>>}
    <3>1. A \subseteq Group \X User /\ B \subseteq Group \X User
      BY ListedType
    <3> HIDE DEF A, B
    <3>2. A = B
      BY <2>6, <3>1, PairsEqual DEF A, B
    <3> QED BY <3>2 DEF A, B
  <2>8. g \in ListedGroups
    BY <2>2 DEF ListedGroups
  <2> QED BY <2>1, <2>4, <2>7, <2>8
<1> QED BY <1>1 DEF ExecutePush

LEMMA PulledDirectory ==
    ASSUME IInv, GroupsUnique, NEW d \in groups, NEW sig,
           NEW g \in Group, NEW u \in User,
           Replace(d, Pulled(d, salted_hash_name(u, g), sig))
    PROVE  /\ UNCHANGED ListedGroups
           /\ d.name = hash_name(g) => Listed' = Listed \ {<<g, u>>}
           /\ d.name # hash_name(g) => UNCHANGED Listed
<1> DEFINE p == Pulled(d, salted_hash_name(u, g), sig)
<1>1. /\ p.name = d.name
      /\ Range(p.users) = {e \in Range(d.users) : e.name # salted_hash_name(u, g)}
  <2>1. d \in GroupDoc
    BY DEF IInv, DataOK
  <2> QED BY <2>1, PulledMembers
<1> HIDE DEF p
<1>2. /\ ListedGroups' = ListedGroups
      /\ \A h \in Group, v \in User :
           <<h, v>> \in Listed' <=>
             IF d.name = hash_name(h) THEN HasUser(p, salted_hash_name(v, h))
                                      ELSE <<h, v>> \in Listed
      /\ \A h \in Group, v \in User : d.name = hash_name(h) =>
           (<<h, v>> \in Listed <=> HasUser(d, salted_hash_name(v, h)))
  BY <1>1, ReplacedDocument DEF p, GroupsUnique
<1>3. \A h \in Group, v \in User :
        HasUser(p, salted_hash_name(v, h)) <=>
          HasUser(d, salted_hash_name(v, h)) /\ <<h, v>> # <<g, u>>
  BY <1>1, NamesDiffer DEF HasUser
<1>4. CASE d.name = hash_name(g)
  <2>1. \A h \in Group, v \in User :
          <<h, v>> \in Listed' <=> <<h, v>> \in Listed \ {<<g, u>>}
    BY <1>2, <1>3, <1>4, NamesDiffer
  <2> DEFINE A == Listed'
             B == Listed \ {<<g, u>>}
  <2>2. A \subseteq Group \X User /\ B \subseteq Group \X User
    BY ListedType
  <2> HIDE DEF A, B
  <2>3. A = B
    BY <2>1, <2>2, PairsEqual DEF A, B
  <2> QED BY <1>2, <1>4, <2>3 DEF A, B
<1>5. CASE d.name # hash_name(g)
  <2>1. \A h \in Group, v \in User : <<h, v>> \in Listed' <=> <<h, v>> \in Listed
    BY <1>2, <1>3, <1>5
  <2>2. Listed' = Listed
    BY <2>1, ListedType, PairsEqual
  <2> QED BY <1>2, <1>5, <2>2
<1> QED BY <1>4, <1>5

LEMMA PullDirectory ==
    ASSUME IInv, GroupsUnique, NEW cmd, NEW n, ExecutePull(cmd, n),
           NEW g \in Group, NEW u \in User, cmd.name = hash_name(g),
           cmd.user = salted_hash_name(u, g)
    PROVE  \/ UNCHANGED groups /\ n = 0
           \/ UNCHANGED ListedGroups /\ Listed' = Listed \ {<<g, u>>} /\ n = 1
<1>1. CASE \E d \in groups : /\ PullMatches(d, cmd) /\ n = 1
                             /\ Replace(d, Pulled(d, cmd.user, cmd.new))
  BY <1>1, PulledDirectory DEF PullMatches, RemoveMatches
<1> QED BY <1>1 DEF ExecutePull

LEMMA PullExactDirectory ==
    ASSUME IInv, GroupsUnique, NEW cmd, NEW n, ExecutePullExact(cmd, n),
           NEW g \in Group, NEW u \in User, cmd.user = salted_hash_name(u, g)
    PROVE  /\ UNCHANGED ListedGroups
           /\ UNCHANGED Listed \/ Listed' = Listed \ {<<g, u>>}
<1>1. CASE /\ cmd.doc \in groups
           /\ Replace(cmd.doc, Pulled(cmd.doc, cmd.user, cmd.new))
  BY <1>1, PulledDirectory
<1>2. CASE UNCHANGED groups
  BY <1>2, NothingChanges DEF Same
<1> QED BY <1>1, <1>2 DEF ExecutePullExact

LEMMA InsertDirectory ==
    ASSUME GroupsUnique, NEW cmd, NEW n, ExecuteInsert(cmd, n),
           cmd.kind = "insert_group", NEW g \in Group, NEW u \in User, NEW e,
           cmd.doc.name = hash_name(g), cmd.doc.users = <<e>>,
           e.name = salted_hash_name(u, g)
    PROVE  \/ UNCHANGED groups /\ n = 0
           \/ /\ g \notin ListedGroups /\ n = 1
              /\ ListedGroups' = ListedGroups \cup {g}
              /\ Listed' = Listed \cup {<<g, u>>}
<1>1. CASE /\ Admits("groups", groups, cmd.doc) /\ n = 1
           /\ groups' = groups \cup {cmd.doc}
  <2>1. \A d \in groups : d.name # hash_name(g)
    BY <1>1 DEF Admits, GroupsUnique
  <2>2. g \notin ListedGroups /\ ListedGroups' = ListedGroups \cup {g}
    BY <1>1, <2>1, NamesDiffer DEF ListedGroups
  <2>3. \A h \in Group, v \in User :
          cmd.doc.name = hash_name(h) /\ HasUser(cmd.doc, salted_hash_name(v, h))
            <=> <<h, v>> = <<g, u>>
    BY NamesDiffer, OneEntry DEF HasUser
  <2>4. \A h \in Group, v \in User :
          /\ <<h, v>> \in Listed <=> \E d \in groups :
               d.name = hash_name(h) /\ HasUser(d, salted_hash_name(v, h))
          /\ <<h, v>> \in Listed' <=> \E d \in groups' :
               d.name = hash_name(h) /\ HasUser(d, salted_hash_name(v, h))
    BY DEF Listed, RemoveMatches
  <2>5. \A h \in Group, v \in User :
          <<h, v>> \in Listed' <=> <<h, v>> \in Listed \cup {<<g, u>>}
    <3> SUFFICES ASSUME NEW h \in Group, NEW v \in User
                 PROVE  <<h, v>> \in Listed' <=> <<h, v>> \in Listed \/ <<h, v>> = <<g, u>>
      OBVIOUS
    <3> DEFINE Lists(d) == d.name = hash_name(h) /\ HasUser(d, salted_hash_name(v, h))
    <3>1. Lists(cmd.doc) <=> <<h, v>> = <<g, u>>
      BY <2>3, Zenon
    <3>2. /\ <<h, v>> \in Listed <=> \E d \in groups : Lists(d)
          /\ <<h, v>> \in Listed' <=> \E d \in groups' : Lists(d)
      BY <2>4, Zenon
    <3> HIDE DEF Lists
    <3>3. (\E d \in groups' : Lists(d)) <=> (\E d \in groups : Lists(d)) \/ Lists(cmd.doc)
      BY <1>1
    <3> QED BY <3>1, <3>2, <3>3, Zenon
  <2> DEFINE A == Listed'
             B == Listed \cup {<<g, u>>}
  <2>6. A \subseteq Group \X User /\ B \subseteq Group \X User
    BY ListedType
  <2> HIDE DEF A, B
  <2>7. A = B
    BY <2>5, <2>6, PairsEqual DEF A, B
  <2> QED BY <1>1, <2>2, <2>7 DEF A, B
<1> QED BY <1>1 DEF ExecuteInsert

LEMMA ClearDirectory ==
    ASSUME groups' = {} PROVE ListedGroups' = {} /\ Listed' = {}
BY DEF ListedGroups, Listed

Joining(g, u)  == [kind |-> "join", group |-> g, user |-> u]
Leaving(g, u)  == [kind |-> "leave", group |-> g, user |-> u]
Founding(g, u) == [kind |-> "found", group |-> g, user |-> u]

LEMMA ChangeOfKinds ==
    ASSUME NEW cmd, NEW g, NEW u
    PROVE  /\ cmd.kind = "push" /\ cmd.entry.name = salted_hash_name(u, g)
                => ChangeOf(cmd) = {Joining(g, u)}
           /\ cmd.kind \in {"pull", "pull_exact"} /\ cmd.user = salted_hash_name(u, g)
                => ChangeOf(cmd) = {Leaving(g, u)}
           /\ cmd.kind = "delete_groups" => ChangeOf(cmd) = {[kind |-> "clear"]}
           /\ cmd.kind \in {"insert_user", "delete_user", "delete_users", "create_index"}
                => ChangeOf(cmd) = {}
BY DEF ChangeOf, OfEntry, salted_hash_name, Joining, Leaving, Founding

LEMMA ChangeOfInsert ==
    ASSUME NEW cmd, NEW g, NEW u, NEW e, cmd.kind = "insert_group",
           cmd.doc.users = <<e>>, e.name = salted_hash_name(u, g)
    PROVE  ChangeOf(cmd) = {Founding(g, u)}
<1>1. ChangeOf(cmd) = {OfEntry("found", x.name) : x \in Range(cmd.doc.users)}
  BY DEF ChangeOf
<1>2. OfEntry("found", e.name) = Founding(g, u)
  BY DEF OfEntry, salted_hash_name, Founding
<1> QED BY <1>1, <1>2, OneEntry

LEMMA MakeKinds ==
    ASSUME NEW g, NEW u
    PROVE  /\ (/\ g \in ListedGroups /\ UNCHANGED ListedGroups
               /\ Listed' = Listed \cup {<<g, u>>}) => Directory!Make(Joining(g, u))
           /\ (UNCHANGED ListedGroups /\ Listed' = Listed \ {<<g, u>>})
                => Directory!Make(Leaving(g, u))
           /\ (/\ g \notin ListedGroups /\ ListedGroups' = ListedGroups \cup {g}
               /\ Listed' = Listed \cup {<<g, u>>}) => Directory!Make(Founding(g, u))
           /\ (ListedGroups' = {} /\ Listed' = {}) => Directory!Make([kind |-> "clear"])
BY DEF Directory!Make, Joining, Leaving, Founding

LEMMA ExactUser ==
    ASSUME NEW cmd, CommandOK(cmd), cmd.kind = "pull_exact"
    PROVE  \E g \in Group, u \in User : cmd.user = salted_hash_name(u, g)
<1>1. cmd.user \in User \X Group
  BY DEF CommandOK, WriteCommand, HashedUser
<1> QED BY <1>1 DEF salted_hash_name

LEMMA CommandKinds ==
    ASSUME NEW cmd, CommandOK(cmd)
    PROVE  cmd.kind \in {"insert_user", "insert_group", "push", "pull", "pull_exact",
                        "delete_user", "delete_users", "delete_groups", "create_index"}
BY DEF CommandOK, WriteCommand

\* A command asks for one change at most.
LEMMA ChangeSingle ==
    ASSUME NEW cmd, CommandOK(cmd), Addressed(cmd)
    PROVE  ChangeOf(cmd) = {} \/ \E ch : ChangeOf(cmd) = {ch}
<1>1. CASE cmd.kind = "push"
  <2>1. PICK g \in Group, u \in User : cmd.entry.name = salted_hash_name(u, g)
    BY <1>1 DEF Addressed
  <2> QED BY <1>1, <2>1, ChangeOfKinds
<1>2. CASE cmd.kind = "pull"
  <2>1. PICK g \in Group, u \in User : cmd.user = salted_hash_name(u, g)
    BY <1>2 DEF Addressed
  <2> QED BY <1>2, <2>1, ChangeOfKinds
<1>3. CASE cmd.kind = "pull_exact"
  BY <1>3, ExactUser, ChangeOfKinds
<1>4. CASE cmd.kind = "insert_group"
  <2>1. PICK g \in Group, u \in User, e \in Entry :
          cmd.doc.users = <<e>> /\ e.name = salted_hash_name(u, g)
    BY <1>4 DEF Addressed
  <2> QED BY <1>4, <2>1, ChangeOfInsert
<1>5. CASE cmd.kind \in {"insert_user", "delete_user", "delete_users",
                        "delete_groups", "create_index"}
  BY <1>5, ChangeOfKinds
<1> QED BY <1>1, <1>2, <1>3, <1>4, <1>5, CommandKinds

\* What the server does with a command is the change the command asks for, or
\* nothing, whenever it executes it.
LEMMA ExecuteDirectory ==
    ASSUME IInv, GroupsUnique, NEW cmd, CommandOK(cmd), Addressed(cmd), NEW n,
           Execute(cmd, n)
    PROVE  Same \/ \E ch \in ChangeOf(cmd) : Directory!Make(ch)
<1>1. CASE ExecutePush(cmd, n)
  <2>1. cmd.kind = "push"
    BY <1>1 DEF ExecutePush
  <2>2. PICK g \in Group, u \in User :
          cmd.name = hash_name(g) /\ cmd.entry.name = salted_hash_name(u, g)
    BY <2>1 DEF Addressed
  <2>3. ChangeOf(cmd) = {Joining(g, u)}
    BY <2>1, <2>2, ChangeOfKinds
  <2>4. cmd.entry \in Entry
    BY <2>1 DEF CommandOK, WriteCommand
  <2> QED BY <1>1, <2>2, <2>3, <2>4, PushDirectory, MakeKinds, NothingChanges
<1>2. CASE ExecutePull(cmd, n)
  <2>1. cmd.kind = "pull"
    BY <1>2 DEF ExecutePull
  <2>2. PICK g \in Group, u \in User :
          cmd.name = hash_name(g) /\ cmd.user = salted_hash_name(u, g)
    BY <2>1 DEF Addressed
  <2>3. ChangeOf(cmd) = {Leaving(g, u)}
    BY <2>1, <2>2, ChangeOfKinds
  <2> QED BY <1>2, <2>2, <2>3, PullDirectory, MakeKinds, NothingChanges
<1>3. CASE ExecutePullExact(cmd, n)
  <2>1. cmd.kind = "pull_exact"
    BY <1>3 DEF ExecutePullExact
  <2>2. PICK g \in Group, u \in User : cmd.user = salted_hash_name(u, g)
    BY <2>1, ExactUser
  <2>3. ChangeOf(cmd) = {Leaving(g, u)}
    BY <2>1, <2>2, ChangeOfKinds
  <2> QED BY <1>3, <2>2, <2>3, PullExactDirectory, MakeKinds DEF Same
<1>4. CASE ExecuteInsert(cmd, n)
  <2>1. CASE cmd.kind = "insert_user"
    BY <1>4, <2>1, NothingChanges DEF ExecuteInsert
  <2>2. CASE cmd.kind = "insert_group"
    <3>1. PICK g \in Group, u \in User, e \in Entry :
            /\ cmd.doc.name = hash_name(g) /\ cmd.doc.users = <<e>>
            /\ e.name = salted_hash_name(u, g)
      BY <2>2 DEF Addressed
    <3>2. ChangeOf(cmd) = {Founding(g, u)}
      BY <2>2, <3>1, ChangeOfInsert
    <3> QED BY <1>4, <2>2, <3>1, <3>2, InsertDirectory, MakeKinds, NothingChanges
  <2> QED BY <1>4, <2>1, <2>2 DEF ExecuteInsert
<1>5. CASE ExecuteDelete(cmd, n)
  <2>1. CASE cmd.kind = "delete_groups" /\ groups' = {}
    BY <2>1, ClearDirectory, ChangeOfKinds, MakeKinds
  <2>2. CASE UNCHANGED groups
    BY <2>2, NothingChanges
  <2> QED BY <1>5, <2>1, <2>2 DEF ExecuteDelete
<1>6. CASE ExecuteIndex(cmd, n)
  BY <1>6, NothingChanges DEF ExecuteIndex
<1> QED BY <1>1, <1>2, <1>3, <1>4, <1>5, <1>6 DEF Execute

-----------------------------------------------------------------------------
(* The steps of the directory *)

Running == [c \in Client |-> IF pc[c] \in Idle THEN None ELSE call[c]]
Status  == [c \in Client |-> result[c].status]
Late    == UNION {ChangeOf(cmd) : cmd \in inflight}

LEMMA ReturnMapped ==
    ASSUME IInv, NEW c \in Client, pc[c] \notin Idle, UNCHANGED call,
           NEW s, NEW k, ReturnKeys(c, s, k)
    PROVE  /\ Running[c] = call[c] /\ Running[c] # None
           /\ Running' = [Running EXCEPT ![c] = None]
           /\ Status' = [Status EXCEPT ![c] = s]
<1>1. Running[c] = call[c] /\ Running[c] # None
  BY CallOfStage DEF Running
<1>2. /\ pc'[c] = "idle" /\ result'[c].status = s
      /\ \A o \in Client \ {c} : pc'[o] = pc[o] /\ result'[o] = result[o]
  BY DEF ReturnKeys, IInv, ClientsOK
<1>3. Running' = [o \in Client |-> IF pc'[o] \in Idle THEN None ELSE call[o]]
  BY DEF Running, Idle
<1>4. Status' = [o \in Client |-> result'[o].status]
  BY DEF Status
<1>5. Running' = [Running EXCEPT ![c] = None]
  BY <1>2, <1>3 DEF Running, Idle
<1>6. Status' = [Status EXCEPT ![c] = s]
  BY <1>2, <1>4 DEF Status
<1> QED BY <1>1, <1>5, <1>6

LEMMA GotoMapped ==
    ASSUME IInv, NEW c \in Client, pc[c] \notin Idle, UNCHANGED call,
           NEW l, l \notin Idle, NEW v, Goto(c, l, v)
    PROVE  /\ Running[c] = call[c] /\ Running[c] # None
           /\ Running' = Running /\ Status' = Status
<1>1. Running[c] = call[c] /\ Running[c] # None
  BY CallOfStage DEF Running
<1>2. /\ pc'[c] = l /\ UNCHANGED result
      /\ \A o \in Client \ {c} : pc'[o] = pc[o]
  BY DEF Goto, IInv, ClientsOK
<1>3. Running' = [o \in Client |-> IF pc'[o] \in Idle THEN None ELSE call[o]]
  BY DEF Running, Idle
<1>4. Running' = Running
  BY <1>2, <1>3 DEF Running
<1> QED BY <1>1, <1>2, <1>4 DEF Status

\* The call returns or throws.
LEMMA FinishMapped ==
    ASSUME IInv, NEW c \in Client, pc[c] \notin Idle, UNCHANGED call,
           NEW s \in Directory!Outcome, NEW k, ReturnKeys(c, s, k),
           UNCHANGED inflight, faults' = faults \/ faults' = faults + 1,
           Directory!Holds(call[c], s),
           \/ Same
           \/ /\ CountWidth = 64 => s = "ok"
              /\ \E ch \in Directory!Asked(call[c]) : Directory!Make(ch)
    PROVE  Directory!Finish(c)
<1>1. /\ Running[c] = call[c] /\ Running[c] # None
      /\ Running' = [Running EXCEPT ![c] = None]
      /\ Status' = [Status EXCEPT ![c] = s]
  BY ReturnMapped
<1>2. Late' = Late
  BY DEF Late
<1>3. Directory!End(c, s)
  BY <1>1 DEF Directory!End, Running, Status
<1>4. Directory!Holds(Running[c], s)
  BY <1>1
<1>5. \/ Directory!Keep
      \/ /\ CountWidth = 64 => s = "ok"
         /\ \E ch \in Directory!Asked(Running[c]) : Directory!Make(ch)
  BY <1>1 DEF Directory!Keep, Same
<1> QED BY <1>2, <1>3, <1>4, <1>5 DEF Directory!Finish, Running, Late

\* The call goes on.
LEMMA ActMapped ==
    ASSUME IInv, NEW c \in Client, pc[c] \notin Idle, UNCHANGED call,
           NEW l, l \notin Idle, NEW v, Goto(c, l, v), UNCHANGED <<inflight, faults>>,
           \/ Same
           \/ /\ CountWidth = 64 =>
                   call[c].op \notin {"add_user_to_group", "remove_user_from_group"}
              /\ \E ch \in Directory!Asked(call[c]) : Directory!Make(ch)
    PROVE  Directory!Act(c) \/ UNCHANGED Directory!dirVars
<1>1. /\ Running[c] = call[c] /\ Running[c] # None
      /\ Running' = Running /\ Status' = Status
  BY GotoMapped
<1>2. Late' = Late
  BY DEF Late
<1>3. CASE Same
  BY <1>1, <1>2, <1>3 DEF Same, Directory!dirVars, Running, Status, Late
<1>4. CASE /\ CountWidth = 64 =>
                 call[c].op \notin {"add_user_to_group", "remove_user_from_group"}
           /\ \E ch \in Directory!Asked(call[c]) : Directory!Make(ch)
  <2>1. /\ CountWidth = 64 => Running[c].op \notin Directory!OneUserOps
        /\ \E ch \in Directory!Asked(Running[c]) : Directory!Make(ch)
    BY <1>1, <1>4 DEF Directory!OneUserOps
  <2> QED BY <1>1, <1>2, <2>1 DEF Directory!Act, Running, Status, Late
<1> QED BY <1>3, <1>4

\* The call goes on after a read that failed.
LEMMA OverlookMapped ==
    ASSUME IInv, NEW c \in Client, pc[c] \notin Idle, UNCHANGED call,
           NEW l, l \notin Idle, NEW v, Goto(c, l, v), UNCHANGED inflight, Same,
           faults' = faults + 1
    PROVE  Directory!Overlook(c)
<1>1. /\ Running[c] # None /\ Running' = Running /\ Status' = Status
  BY GotoMapped
<1>2. Late' = Late
  BY DEF Late
<1> QED BY <1>1, <1>2 DEF Same, Directory!Overlook, Directory!Keep, Running,
           Status, Late

\* The call throws because no answer came.
LEMMA LoseMapped ==
    ASSUME IInv, NEW c \in Client, pc[c] \notin Idle, UNCHANGED call,
           NEW k, ReturnKeys(c, "db_error", k), Same, faults' = faults + 1,
           NEW cmds, inflight' = inflight \cup cmds,
           \A cmd \in cmds : ChangeOf(cmd) \subseteq Directory!Asked(call[c])
    PROVE  Directory!Lose(c)
<1>1. /\ Running[c] = call[c] /\ Running[c] # None
      /\ Running' = [Running EXCEPT ![c] = None]
      /\ Status' = [Status EXCEPT ![c] = "db_error"]
  BY ReturnMapped
<1>2. Directory!End(c, "db_error")
  BY <1>1 DEF Directory!End, Running, Status
<1> DEFINE lost == UNION {ChangeOf(cmd) : cmd \in cmds}
<1>3. Late' = UNION {ChangeOf(cmd) : cmd \in inflight'}
  BY DEF Late, ChangeOf, OfEntry
<1>4. Late' = Late \cup lost
  BY <1>3 DEF Late
<1>5. lost \in SUBSET Directory!Asked(Running[c])
  BY <1>1
<1>6. Directory!Keep
  BY DEF Directory!Keep, Same
<1> QED BY <1>2, <1>4, <1>5, <1>6 DEF Directory!Lose, Running, Late

-----------------------------------------------------------------------------
(* Each round trip is a step of the directory, or none *)

Mapped(c) ==
    /\ \/ Directory!Begin(c) \/ Directory!Act(c) \/ Directory!Finish(c)
       \/ Directory!Overlook(c) \/ Directory!Lose(c) \/ Directory!Abort(c)
       \/ UNCHANGED Directory!dirVars
    /\ LateOK'

\* Outcomes that tell nothing about the directory.
LEMMA HoldsSilent ==
    ASSUME NEW x, NEW s, s \notin {"member", "not_member"},
           s # "ok" \/ x.op \notin {"add_user_to_group", "create_group",
                                    "remove_user_from_group", "delete_all_data"}
    PROVE  Directory!Holds(x, s)
BY DEF Directory!Holds

LEMMA AskedKinds ==
    ASSUME NEW x, NEW g \in Group, NEW u \in User
    PROVE  /\ x.op \in {"add_user_to_group", "create_group"}
                /\ x.group = g /\ x.user = u => Joining(g, u) \in Directory!Asked(x)
           /\ x.op = "create_group" /\ x.group = g /\ x.user = u
                => Founding(g, u) \in Directory!Asked(x)
           /\ x.op = "remove_user_from_group" /\ x.group = g /\ x.user = u
                => Leaving(g, u) \in Directory!Asked(x)
           /\ x.op = "delete_user" /\ x.user = u
                => Leaving(g, u) \in Directory!Asked(x)
BY DEF Directory!Asked, Directory!Change, Joining, Founding, Leaving

LEMMA AskedClear ==
    ASSUME NEW x, x.op = "delete_all_data"
    PROVE  [kind |-> "clear"] \in Directory!Asked(x)
BY DEF Directory!Asked, Directory!Change

\* A round trip that leaves the lost commands as they are.
LEMMA LateKept == ASSUME LateOK, UNCHANGED inflight PROVE LateOK'
BY DEF LateOK, Addressed

LEMMA LateShrinks == ASSUME LateOK, inflight' \subseteq inflight PROVE LateOK'
BY DEF LateOK, Addressed

LEMMA LateGrows ==
    ASSUME LateOK, NEW cmds, inflight' = inflight \cup cmds,
           \A cmd \in cmds : Addressed(cmd)
    PROVE  LateOK'
<1>1. \A cmd : Addressed(cmd)' = Addressed(cmd)
  BY DEF Addressed
<1> QED BY <1>1 DEF LateOK

LEMMA UnansweredMapped ==
    ASSUME IInv, LateOK, NEW c \in Client, pc[c] \notin Idle, UNCHANGED call,
           NEW cmds, Unanswered(c, cmds),
           \A cmd \in cmds : /\ Addressed(cmd)
                             /\ ChangeOf(cmd) \subseteq Directory!Asked(call[c])
    PROVE  Mapped(c)
<1>1. /\ ReturnKeys(c, "db_error", {}) /\ faults' = faults + 1
      /\ inflight' = inflight \cup cmds /\ UNCHANGED groups
  BY DEF Unanswered, Return, Fault, data
<1>2. LateOK'
  BY <1>1, LateGrows
<1>3. Directory!Lose(c)
  BY <1>1, NothingChanges, LoseMapped
<1> QED BY <1>2, <1>3 DEF Mapped

\* A round trip that changes no group and ends the call.
LEMMA ReadEndMapped ==
    ASSUME IInv, LateOK, NEW c \in Client, pc[c] \notin Idle, UNCHANGED call,
           Read \/ Unread, NEW s \in Directory!Outcome, NEW k,
           ReturnKeys(c, s, k), Directory!Holds(call[c], s)
    PROVE  Mapped(c)
<1>1. /\ UNCHANGED <<groups, inflight>>
      /\ faults' = faults \/ faults' = faults + 1
  BY DEF Read, Unread, server, Fault
<1>2. LateOK' /\ Same
  BY <1>1, LateKept, NothingChanges
<1>3. Directory!Finish(c)
  BY <1>1, <1>2, FinishMapped
<1> QED BY <1>2, <1>3 DEF Mapped

\* A read that fails so that the caller is told.
LEMMA ReadErrorMapped ==
    ASSUME IInv, LateOK, NEW c \in Client, pc[c] \notin Idle, UNCHANGED call,
           Unread, Return(c, "db_error")
    PROVE  Mapped(c)
<1>1. /\ UNCHANGED groups /\ inflight' = inflight \cup {} /\ UNCHANGED inflight
      /\ faults' = faults + 1 /\ ReturnKeys(c, "db_error", {})
  BY DEF Unread, server, Fault, Return
<1>2. LateOK' /\ Same
  BY <1>1, LateKept, NothingChanges
<1>3. Directory!Lose(c)
  BY <1>1, <1>2, LoseMapped
<1> QED BY <1>2, <1>3 DEF Mapped

\* A read after which the call goes on.
LEMMA ReadGoesOnMapped ==
    ASSUME IInv, LateOK, NEW c \in Client, pc[c] \notin Idle, UNCHANGED call,
           Read \/ Unread, NEW l, l \notin Idle, NEW v, Goto(c, l, v)
    PROVE  Mapped(c)
<1>1. UNCHANGED <<groups, inflight>>
  BY DEF Read, Unread, server
<1>2. LateOK' /\ Same
  BY <1>1, LateKept, NothingChanges
<1>3. CASE Read
  BY <1>1, <1>2, <1>3, ActMapped DEF Read, Mapped
<1>4. CASE Unread
  BY <1>1, <1>2, <1>4, OverlookMapped DEF Unread, Fault, Mapped
<1> QED BY <1>3, <1>4

\* A command that is none of the directory's business.
LEMMA SilentCommand ==
    ASSUME NEW cmd, NEW n, Answered(cmd, n),
           cmd.kind \in {"insert_user", "delete_user", "delete_users", "create_index"}
    PROVE  Same /\ UNCHANGED <<inflight, faults>>
<1>1. UNCHANGED groups /\ UNCHANGED <<inflight, faults>>
  BY DEF Answered, Execute, ExecuteInsert, ExecutePush, ExecutePull,
         ExecutePullExact, ExecuteDelete, ExecuteIndex
<1> QED BY <1>1, NothingChanges

LEMMA SilentGoesOn ==
    ASSUME IInv, LateOK, NEW c \in Client, pc[c] \notin Idle, UNCHANGED call,
           NEW cmd, NEW n, Answered(cmd, n),
           cmd.kind \in {"insert_user", "delete_user", "delete_users", "create_index"},
           NEW l, NEW v, l \notin Idle, Goto(c, l, v)
    PROVE  Mapped(c)
BY SilentCommand, LateKept, ActMapped DEF Mapped

LEMMA SilentEnds ==
    ASSUME IInv, LateOK, NEW c \in Client, pc[c] \notin Idle, UNCHANGED call,
           NEW cmd, NEW n, Answered(cmd, n),
           cmd.kind \in {"insert_user", "delete_user", "delete_users", "create_index"},
           NEW s \in Directory!Outcome, Return(c, s), Directory!Holds(call[c], s)
    PROVE  Mapped(c)
BY SilentCommand, LateKept, FinishMapped DEF Mapped, Return

LEMMA SilentLost ==
    ASSUME IInv, LateOK, NEW c \in Client, pc[c] \notin Idle, UNCHANGED call,
           NEW cmd, Unanswered(c, {cmd}),
           cmd.kind \in {"insert_user", "delete_user", "delete_users", "create_index"}
    PROVE  Mapped(c)
<1>1. Addressed(cmd) /\ ChangeOf(cmd) = {}
  BY ChangeOfKinds DEF Addressed
<1> QED BY <1>1, UnansweredMapped

LEMMA SilentStepsMapped ==
    ASSUME IInv, LateOK, NEW c \in Client, UNCHANGED call,
           \/ create_user(c) \/ delete_user(c) \/ delete_all_users(c)
           \/ init_users_index(c) \/ init_groups_index(c)
    PROVE  Mapped(c)
<1>1. /\ {"ok", "duplicate", "index_error"} \subseteq Directory!Outcome
      /\ "delete_groups" \notin Idle /\ "index_groups" \notin Idle
  BY DEF Directory!Outcome, Idle
<1>2. CASE create_user(c)
  <2> DEFINE cmd == insert_user_command(c)
  <2>1. pc[c] = "create_user" /\ pc[c] \notin Idle
    BY <1>2 DEF create_user, Idle
  <2>2. \/ Answered(cmd, 1) /\ Return(c, "ok")
        \/ Answered(cmd, 0) /\ Return(c, "duplicate")
        \/ Unanswered(c, {cmd})
    BY <1>2 DEF create_user
  <2>3. cmd.kind = "insert_user"
    BY DEF insert_user_command
  <2> HIDE DEF cmd
  <2>4. \A s \in {"ok", "duplicate"} : Directory!Holds(call[c], s)
    BY <2>1, CallOfStage, HoldsSilent
  <2> QED BY <1>1, <2>1, <2>2, <2>3, <2>4, SilentGoesOn, SilentEnds, SilentLost
<1>3. CASE delete_user(c)
  <2> DEFINE cmd == delete_user_command(c)
  <2>1. pc[c] = "delete_user" /\ pc[c] \notin Idle
    BY <1>3 DEF delete_user, Idle
  <2>2. \/ Answered(cmd, 1) /\ Return(c, "ok")
        \/ Unanswered(c, {cmd})
    BY <1>3 DEF delete_user
  <2>3. cmd.kind = "delete_user"
    BY DEF delete_user_command
  <2> HIDE DEF cmd
  <2>4. Directory!Holds(call[c], "ok")
    BY <2>1, CallOfStage, HoldsSilent
  <2> QED BY <1>1, <2>1, <2>2, <2>3, <2>4, SilentGoesOn, SilentEnds, SilentLost
<1>4. CASE delete_all_users(c)
  <2> DEFINE cmd == [kind |-> "delete_users"]
  <2>1. pc[c] \notin Idle
    BY <1>4 DEF delete_all_users, Idle
  <2>2. \/ Answered(cmd, 1) /\ Goto(c, "delete_groups", loc[c])
        \/ Unanswered(c, {cmd})
    BY <1>4 DEF delete_all_users
  <2>3. cmd.kind = "delete_users"
    OBVIOUS
  <2> HIDE DEF cmd
  <2> QED BY <1>1, <2>1, <2>2, <2>3, SilentGoesOn, SilentEnds, SilentLost
<1>5. CASE init_users_index(c) \/ init_groups_index(c)
  <2> DEFINE cmd(on) == [kind |-> "create_index", on |-> on]
  <2>1. pc[c] \in {"index_users", "index_groups"} /\ pc[c] \notin Idle
    BY <1>5 DEF init_users_index, init_groups_index, Idle
  <2>2. \E on \in {"users", "groups"} :
          \/ \E n \in {0, 1} : /\ Answered(cmd(on), n)
                               /\ \/ Goto(c, "index_groups", loc[c])
                                  \/ Return(c, "ok") \/ Return(c, "index_error")
          \/ Unanswered(c, {cmd(on)})
    BY <1>5 DEF init_users_index, init_groups_index
  <2>3. \A on : cmd(on).kind = "create_index"
    OBVIOUS
  <2> HIDE DEF cmd
  <2>4. \A s \in {"ok", "index_error"} : Directory!Holds(call[c], s)
    BY <2>1, CallOfStage, HoldsSilent
  <2> QED BY <1>1, <2>1, <2>2, <2>3, <2>4, SilentGoesOn, SilentEnds, SilentLost
<1> QED BY <1>2, <1>3, <1>4, <1>5

LEMMA ReencryptMapped ==
    ASSUME IInv, LateOK, NEW c \in Client, UNCHANGED call, reencrypt_user_key(c)
    PROVE  Mapped(c)
<1>1. pc[c] \notin Idle
  BY DEF reencrypt_user_key, Idle
<1>2. \/ /\ Read \/ Unread
         /\ Return(c, "no_user") \/ Return(c, "bad_signature")
      \/ Read /\ \E l, v : l \notin Idle /\ Goto(c, l, v)
  BY DEF reencrypt_user_key, Idle
<1>3. \A s \in {"no_user", "bad_signature"} :
        s \in Directory!Outcome /\ Directory!Holds(call[c], s)
  BY HoldsSilent DEF Directory!Outcome
<1> QED BY <1>1, <1>2, <1>3, ReadEndMapped, ReadGoesOnMapped DEF Return

\* What the selectors of the two reads tell of the directory.
LEMMA NoAddMatch ==
    ASSUME NEW g \in Group, NEW u \in User,
           \A d \in groups : ~AddMatches(d, hash_name(g), salted_hash_name(u, g))
    PROVE  <<g, u>> \in Listed \/ g \notin ListedGroups
BY DEF AddMatches, RemoveMatches, Listed, ListedGroups

LEMMA MemberListed ==
    ASSUME NEW g \in Group, NEW u \in User
    PROVE  (\E d \in groups : RemoveMatches(d, hash_name(g), salted_hash_name(u, g)))
             <=> <<g, u>> \in Listed
BY DEF Listed

LEMMA ReadListed ==
    ASSUME Read \/ Unread
    PROVE  ListedGroups' = ListedGroups /\ Listed' = Listed
BY NothingChanges DEF Read, Unread, server, Same

LEMMA AddFindMapped ==
    ASSUME IInv, LateOK, NEW c \in Client, UNCHANGED call, add_find(c)
    PROVE  Mapped(c)
<1>1. pc[c] = "add_find" /\ pc[c] \notin Idle
  BY DEF add_find, Idle
<1>2. /\ call[c].op \in {"add_user_to_group", "create_group"}
      /\ call[c].group \in Group /\ call[c].user \in User
  BY <1>1, CallOfStage
<1>3. {"ok", "bad_signature"} \subseteq Directory!Outcome
  BY DEF Directory!Outcome
<1>4. CASE Read /\ Return(c, "bad_signature")
  BY <1>1, <1>3, <1>4, HoldsSilent, ReadEndMapped DEF Return
<1>5. CASE \E v : Read /\ Goto(c, "add_update", v)
  BY <1>1, <1>5, ReadGoesOnMapped DEF Idle
<1>6. CASE /\ \A d \in groups : ~AddMatches(d, group_name(c), user_name(c))
           /\ Read /\ Return(c, "ok")
  <2>1. \/ <<call[c].group, call[c].user>> \in Listed
        \/ call[c].group \notin ListedGroups
    BY <1>2, <1>6, NoAddMatch DEF group_name, user_name
  <2>2. Directory!Holds(call[c], "ok")
    BY <1>2, <1>6, <2>1, ReadListed DEF Directory!Holds
  <2> QED BY <1>1, <1>3, <1>6, <2>2, ReadEndMapped DEF Return
<1>7. CASE Unread /\ Return(c, "ok")
  <2>1. faults' # faults
    BY <1>7 DEF Unread, Fault, IInv, CountersOK
  <2>2. Directory!Holds(call[c], "ok")
    BY <1>2, <2>1 DEF Directory!Holds
  <2> QED BY <1>1, <1>3, <1>7, <2>2, ReadEndMapped DEF Return
<1> QED BY <1>4, <1>5, <1>6, <1>7 DEF add_find, Find

LEMMA RemoveFindMapped ==
    ASSUME IInv, LateOK, NEW c \in Client, UNCHANGED call, remove_find(c)
    PROVE  Mapped(c)
<1>1. pc[c] = "remove_find" /\ pc[c] \notin Idle
  BY DEF remove_find, Idle
<1>2. /\ call[c].op = "remove_user_from_group"
      /\ call[c].group \in Group /\ call[c].user \in User
  BY <1>1, CallOfStage
<1>3. {"ok", "bad_signature"} \subseteq Directory!Outcome
  BY DEF Directory!Outcome
<1>4. CASE Read /\ Return(c, "bad_signature")
  BY <1>1, <1>3, <1>4, HoldsSilent, ReadEndMapped DEF Return
<1>5. CASE \E v : Read /\ Goto(c, "remove_update", v)
  BY <1>1, <1>5, ReadGoesOnMapped DEF Idle
<1>6. CASE /\ \A d \in groups : ~RemoveMatches(d, group_name(c), user_name(c))
           /\ Read /\ Return(c, "ok")
  <2>1. <<call[c].group, call[c].user>> \notin Listed
    BY <1>2, <1>6, MemberListed DEF group_name, user_name
  <2>2. Directory!Holds(call[c], "ok")
    BY <1>2, <1>6, <2>1, ReadListed DEF Directory!Holds
  <2> QED BY <1>1, <1>3, <1>6, <2>2, ReadEndMapped DEF Return
<1>7. CASE Unread /\ Return(c, "ok")
  <2>1. faults' # faults
    BY <1>7 DEF Unread, Fault, IInv, CountersOK
  <2>2. Directory!Holds(call[c], "ok")
    BY <1>2, <2>1 DEF Directory!Holds
  <2> QED BY <1>1, <1>3, <1>7, <2>2, ReadEndMapped DEF Return
<1> QED BY <1>4, <1>5, <1>6, <1>7 DEF remove_find, Find

\* An answered command changes the directory as its kind says.
LEMMA AnsweredKinds ==
    ASSUME NEW cmd, NEW n, Answered(cmd, n)
    PROVE  /\ UNCHANGED <<inflight, faults>>
           /\ cmd.kind = "push" => ExecutePush(cmd, n)
           /\ cmd.kind = "pull" => ExecutePull(cmd, n)
           /\ cmd.kind = "pull_exact" => ExecutePullExact(cmd, n)
           /\ cmd.kind = "insert_group" => ExecuteInsert(cmd, n)
           /\ cmd.kind = "delete_groups" => groups' = {}
BY DEF Answered, Execute, ExecuteInsert, ExecutePush, ExecutePull,
       ExecutePullExact, ExecuteDelete, ExecuteIndex

LEMMA CreateGroupMapped ==
    ASSUME IInv, LateOK, GroupsUnique, NEW c \in Client, UNCHANGED call,
           create_group(c)
    PROVE  Mapped(c)
<1>1. pc[c] = "insert_group" /\ pc[c] \notin Idle
  BY DEF create_group, Idle
<1>2. /\ call[c].op = "create_group"
      /\ call[c].group \in Group /\ call[c].user \in User
  BY <1>1, CallOfStage
<1> DEFINE g == call[c].group
           u == call[c].user
           cmd == insert_group_command(c)
<1>3. /\ cmd.kind = "insert_group" /\ cmd.doc.name = hash_name(g)
      /\ cmd.doc.users = <<new_entry(c)>>
  BY DEF insert_group_command, NewGroupDoc
<1>4. new_entry(c) \in Entry /\ new_entry(c).name = salted_hash_name(u, g)
  BY <1>1, EntryOK DEF new_entry, user_name
<1>5. \/ Answered(cmd, 1) /\ Return(c, "ok")
      \/ Answered(cmd, 0) /\ Goto(c, "add_find", loc[c])
      \/ Unanswered(c, {cmd})
  BY DEF create_group
<1> HIDE DEF cmd
<1>6. ChangeOf(cmd) = {Founding(g, u)} /\ Founding(g, u) \in Directory!Asked(call[c])
  BY <1>2, <1>3, <1>4, ChangeOfInsert, AskedKinds
<1>7. ASSUME NEW n, Answered(cmd, n)
      PROVE  /\ UNCHANGED <<inflight, faults>>
             /\ \/ UNCHANGED groups /\ n = 0
                \/ /\ g \notin ListedGroups /\ n = 1
                   /\ ListedGroups' = ListedGroups \cup {g}
                   /\ Listed' = Listed \cup {<<g, u>>}
  BY <1>2, <1>3, <1>4, <1>7, AnsweredKinds, InsertDirectory
<1>8. CASE Unanswered(c, {cmd})
  <2>1. Addressed(cmd)
    BY <1>2, <1>3, <1>4 DEF Addressed
  <2> QED BY <1>1, <1>6, <1>8, <2>1, UnansweredMapped
<1>9. CASE Answered(cmd, 1) /\ Return(c, "ok")
  <2>1. /\ g \notin ListedGroups
        /\ ListedGroups' = ListedGroups \cup {g}
        /\ Listed' = Listed \cup {<<g, u>>}
    BY <1>7, <1>9
  <2>2. Directory!Make(Founding(g, u))
    BY <2>1, MakeKinds
  <2>3. Directory!Holds(call[c], "ok")
    BY <1>2, <2>1 DEF Directory!Holds
  <2>4. "ok" \in Directory!Outcome
    BY DEF Directory!Outcome
  <2>5. Directory!Finish(c)
    BY <1>1, <1>6, <1>7, <1>9, <2>2, <2>3, <2>4, FinishMapped DEF Return
  <2> QED BY <1>7, <1>9, <2>5, LateKept DEF Mapped
<1>10. CASE Answered(cmd, 0) /\ Goto(c, "add_find", loc[c])
  <2>1. UNCHANGED groups
    BY <1>7, <1>10
  <2> QED BY <1>1, <1>7, <1>10, <2>1, NothingChanges, LateKept, ActMapped
             DEF Mapped, Idle
<1> QED BY <1>5, <1>8, <1>9, <1>10

\* A turn of a retry loop whose update did or did not match.
LEMMA RetryMapped ==
    ASSUME IInv, LateOK, NEW c \in Client, pc[c] \notin Idle, UNCHANGED call,
           UNCHANGED <<inflight, faults>>,
           NEW label \in {"add_find", "remove_find"}, Retry(c, label),
           \/ Same
           \/ /\ CountWidth # 64
              /\ \E ch \in Directory!Asked(call[c]) : Directory!Make(ch)
    PROVE  Mapped(c)
<1>1. LateOK'
  BY LateKept
<1>2. CASE \E v : Goto(c, label, v)
  BY <1>1, <1>2, ActMapped DEF Mapped, Idle
<1>3. CASE Return(c, "gave_up")
  <2>1. "gave_up" \in Directory!Outcome /\ Directory!Holds(call[c], "gave_up")
    BY HoldsSilent DEF Directory!Outcome
  <2>2. Directory!Finish(c)
    BY <1>3, <2>1, FinishMapped DEF Return
  <2> QED BY <1>1, <2>2 DEF Mapped
<1> QED BY <1>2, <1>3 DEF Retry

LEMMA AddUpdateMapped ==
    ASSUME IInv, LateOK, GroupsUnique, NEW c \in Client, UNCHANGED call,
           add_update(c)
    PROVE  Mapped(c)
<1>1. pc[c] = "add_update" /\ pc[c] \notin Idle
  BY DEF add_update, Idle
<1>2. /\ call[c].op \in {"add_user_to_group", "create_group"}
      /\ call[c].group \in Group /\ call[c].user \in User
  BY <1>1, CallOfStage
<1> DEFINE g == call[c].group
           u == call[c].user
           cmd(d) == push_command(c, d)
<1>3. PICK d \in loc[c].held :
        \/ \E n \in {0, 1} :
             /\ Answered(cmd(d), n)
             /\ IF BsonIterInt64(n) >= 1 THEN Return(c, "ok")
                                         ELSE Retry(c, "add_find")
        \/ Unanswered(c, {cmd(d)})
  BY DEF add_update
<1>4. /\ cmd(d).kind = "push" /\ cmd(d).name = hash_name(g)
      /\ cmd(d).entry \in Entry /\ cmd(d).entry.name = salted_hash_name(u, g)
  BY <1>1, EntryOK DEF push_command, new_entry, group_name, user_name
<1> HIDE DEF cmd
<1>5. ChangeOf(cmd(d)) = {Joining(g, u)} /\ Joining(g, u) \in Directory!Asked(call[c])
  BY <1>2, <1>4, ChangeOfKinds, AskedKinds
<1>6. CASE Unanswered(c, {cmd(d)})
  <2>1. Addressed(cmd(d))
    BY <1>2, <1>4 DEF Addressed
  <2> QED BY <1>1, <1>5, <1>6, <2>1, UnansweredMapped
<1>7. ASSUME NEW n \in {0, 1}, Answered(cmd(d), n),
             IF BsonIterInt64(n) >= 1 THEN Return(c, "ok") ELSE Retry(c, "add_find")
      PROVE  Mapped(c)
  <2>1. /\ UNCHANGED <<inflight, faults>>
        /\ \/ UNCHANGED groups /\ n = 0
           \/ /\ g \in ListedGroups /\ UNCHANGED ListedGroups
              /\ Listed' = Listed \cup {<<g, u>>} /\ n = 1
    BY <1>2, <1>4, <1>7, AnsweredKinds, PushDirectory
  <2>2. CASE UNCHANGED groups /\ n = 0
    <3>1. ~(BsonIterInt64(n) >= 1)
      BY <2>2 DEF BsonIterInt64
    <3> QED BY <1>1, <1>7, <2>1, <2>2, <3>1, NothingChanges, RetryMapped
  <2>3. CASE /\ g \in ListedGroups /\ UNCHANGED ListedGroups
             /\ Listed' = Listed \cup {<<g, u>>} /\ n = 1
    <3>1. Directory!Make(Joining(g, u))
      BY <2>3, MakeKinds
    <3>2. CASE CountWidth = 64
      <4>1. Return(c, "ok")
        BY <1>7, <2>3, <3>2 DEF BsonIterInt64
      <4>2. Directory!Holds(call[c], "ok") /\ "ok" \in Directory!Outcome
        BY <1>2, <2>3 DEF Directory!Holds, Directory!Outcome
      <4>3. Directory!Finish(c)
        BY <1>1, <1>5, <2>1, <3>1, <4>1, <4>2, FinishMapped DEF Return
      <4> QED BY <2>1, <4>3, LateKept DEF Mapped
    <3>3. CASE CountWidth # 64
      <4>1. Retry(c, "add_find")
        BY <1>7, <3>3 DEF BsonIterInt64
      <4> QED BY <1>1, <1>5, <2>1, <3>1, <3>3, <4>1, RetryMapped
    <3> QED BY <3>2, <3>3
  <2> QED BY <2>1, <2>2, <2>3
<1> QED BY <1>3, <1>6, <1>7

LEMMA RemoveUpdateMapped ==
    ASSUME IInv, LateOK, GroupsUnique, NEW c \in Client, UNCHANGED call,
           remove_update(c)
    PROVE  Mapped(c)
<1>1. pc[c] = "remove_update" /\ pc[c] \notin Idle
  BY DEF remove_update, Idle
<1>2. /\ call[c].op = "remove_user_from_group"
      /\ call[c].group \in Group /\ call[c].user \in User
  BY <1>1, CallOfStage
<1> DEFINE g == call[c].group
           u == call[c].user
           cmd(d) == pull_command(c, d)
<1>3. PICK d \in loc[c].held :
        \/ \E n \in {0, 1} :
             /\ Answered(cmd(d), n)
             /\ IF BsonIterInt64(n) >= 1 THEN Return(c, "ok")
                                         ELSE Retry(c, "remove_find")
        \/ Unanswered(c, {cmd(d)})
  BY DEF remove_update
<1>4. /\ cmd(d).kind = "pull" /\ cmd(d).name = hash_name(g)
      /\ cmd(d).user = salted_hash_name(u, g)
  BY DEF pull_command, group_name, user_name
<1> HIDE DEF cmd
<1>5. ChangeOf(cmd(d)) = {Leaving(g, u)} /\ Leaving(g, u) \in Directory!Asked(call[c])
  BY <1>2, <1>4, ChangeOfKinds, AskedKinds
<1>6. CASE Unanswered(c, {cmd(d)})
  <2>1. Addressed(cmd(d))
    BY <1>2, <1>4 DEF Addressed
  <2> QED BY <1>1, <1>5, <1>6, <2>1, UnansweredMapped
<1>7. ASSUME NEW n \in {0, 1}, Answered(cmd(d), n),
             IF BsonIterInt64(n) >= 1 THEN Return(c, "ok") ELSE Retry(c, "remove_find")
      PROVE  Mapped(c)
  <2>1. /\ UNCHANGED <<inflight, faults>>
        /\ \/ UNCHANGED groups /\ n = 0
           \/ /\ UNCHANGED ListedGroups
              /\ Listed' = Listed \ {<<g, u>>} /\ n = 1
    BY <1>2, <1>4, <1>7, AnsweredKinds, PullDirectory
  <2>2. CASE UNCHANGED groups /\ n = 0
    <3>1. ~(BsonIterInt64(n) >= 1)
      BY <2>2 DEF BsonIterInt64
    <3> QED BY <1>1, <1>7, <2>1, <2>2, <3>1, NothingChanges, RetryMapped
  <2>3. CASE /\ UNCHANGED ListedGroups
             /\ Listed' = Listed \ {<<g, u>>} /\ n = 1
    <3>1. Directory!Make(Leaving(g, u))
      BY <2>3, MakeKinds
    <3>2. CASE CountWidth = 64
      <4>1. Return(c, "ok")
        BY <1>7, <2>3, <3>2 DEF BsonIterInt64
      <4>2. Directory!Holds(call[c], "ok") /\ "ok" \in Directory!Outcome
        BY <1>2, <2>3 DEF Directory!Holds, Directory!Outcome
      <4>3. Directory!Finish(c)
        BY <1>1, <1>5, <2>1, <3>1, <4>1, <4>2, FinishMapped DEF Return
      <4> QED BY <2>1, <4>3, LateKept DEF Mapped
    <3>3. CASE CountWidth # 64
      <4>1. Retry(c, "remove_find")
        BY <1>7, <3>3 DEF BsonIterInt64
      <4> QED BY <1>1, <1>5, <2>1, <3>1, <3>3, <4>1, RetryMapped
    <3> QED BY <3>2, <3>3
  <2> QED BY <2>1, <2>2, <2>3
<1> QED BY <1>3, <1>6, <1>7

LEMMA ScanMapped ==
    ASSUME IInv, LateOK, NEW c \in Client, UNCHANGED call,
           scan_open(c) \/ scan_next(c) \/ scan_end(c)
    PROVE  Mapped(c)
<1>1. pc[c] \notin Idle
  BY DEF scan_open, scan_next, scan_end, Idle
<1>2. /\ Read \/ Unread
      /\ \/ Return(c, "empty_bulk") \/ Return(c, "bad_signature")
         \/ \E l, v : l \notin Idle /\ Goto(c, l, v)
  BY DEF scan_open, scan_next, scan_end, Idle
<1>3. \A s \in {"empty_bulk", "bad_signature"} :
        s \in Directory!Outcome /\ Directory!Holds(call[c], s)
  BY HoldsSilent DEF Directory!Outcome
<1> QED BY <1>1, <1>2, <1>3, ReadEndMapped, ReadGoesOnMapped DEF Return

LEMMA BulkMapped ==
    ASSUME IInv, LateOK, GroupsUnique, NEW c \in Client, UNCHANGED call,
           bulk_update(c)
    PROVE  Mapped(c)
<1>1. pc[c] = "bulk" /\ pc[c] \notin Idle
  BY DEF bulk_update, Idle
<1>2. call[c].op = "delete_user" /\ call[c].user \in User
  BY <1>1, CallOfStage
<1>3. ASSUME NEW d \in loc[c].held
      PROVE  LET cmd == bulk_command(c, d)
             IN  /\ cmd.kind = "pull_exact"
                 /\ \E g \in Group : /\ cmd.user = salted_hash_name(call[c].user, g)
                                     /\ ChangeOf(cmd) = {Leaving(g, call[c].user)}
                                     /\ Leaving(g, call[c].user)
                                          \in Directory!Asked(call[c])
  <2> DEFINE cmd == bulk_command(c, d)
             g == decrypt_data(d.encname)
  <2>1. g \in Group
    BY LocalType DEF LocalState, GroupDoc, NameCipher, decrypt_data
  <2>2. cmd.kind = "pull_exact" /\ cmd.user = salted_hash_name(call[c].user, g)
    BY DEF bulk_command
  <2> HIDE DEF cmd, g
  <2>3. ChangeOf(cmd) = {Leaving(g, call[c].user)}
    BY <2>2 DEF ChangeOf, OfEntry, salted_hash_name, Leaving
  <2>4. Leaving(g, call[c].user) \in Directory!Asked(call[c])
    BY <1>2, <2>1, AskedKinds
  <2>5. /\ cmd.kind = "pull_exact"
        /\ \E h \in Group : /\ cmd.user = salted_hash_name(call[c].user, h)
                            /\ ChangeOf(cmd) = {Leaving(h, call[c].user)}
                            /\ Leaving(h, call[c].user) \in Directory!Asked(call[c])
    BY <2>1, <2>2, <2>3, <2>4
  <2> QED BY <2>5 DEF cmd
<1>4. CASE Unanswered(c, {bulk_command(c, d) : d \in loc[c].held})
  <2> DEFINE cmds == {bulk_command(c, d) : d \in loc[c].held}
  <2>1. \A cmd \in cmds : /\ Addressed(cmd)
                          /\ ChangeOf(cmd) \subseteq Directory!Asked(call[c])
    BY <1>3 DEF Addressed
  <2>2. Unanswered(c, cmds)
    BY <1>4
  <2> HIDE DEF cmds
  <2> QED BY <1>1, <2>1, <2>2, UnansweredMapped
<1>5. ASSUME NEW d \in loc[c].held, NEW n, Answered(bulk_command(c, d), n),
             NEW l, l \notin Idle, NEW v, Goto(c, l, v)
      PROVE  Mapped(c)
  <2> DEFINE cmd == bulk_command(c, d)
  <2>1. PICK g \in Group : /\ cmd.kind = "pull_exact"
                           /\ cmd.user = salted_hash_name(call[c].user, g)
                           /\ Leaving(g, call[c].user) \in Directory!Asked(call[c])
    BY <1>3
  <2>2. Answered(cmd, n)
    BY <1>5
  <2> HIDE DEF cmd
  <2>3. UNCHANGED <<inflight, faults>> /\ ExecutePullExact(cmd, n)
    BY <2>1, <2>2, AnsweredKinds
  <2>4. Same \/ Directory!Make(Leaving(g, call[c].user))
    BY <1>2, <2>1, <2>3, PullExactDirectory, MakeKinds DEF Same
  <2>5. Directory!Act(c) \/ UNCHANGED Directory!dirVars
    BY <1>1, <1>2, <1>5, <2>1, <2>3, <2>4, ActMapped
  <2> QED BY <2>3, <2>5, LateKept DEF Mapped
<1>6. CASE \E d \in loc[c].held, n \in {0, 1} :
             /\ Answered(bulk_command(c, d), n)
             /\ \E l, v : l \notin Idle /\ Goto(c, l, v)
  BY <1>5, <1>6
<1> QED BY <1>4, <1>6 DEF bulk_update, Idle

LEMMA DeleteGroupsMapped ==
    ASSUME IInv, LateOK, NEW c \in Client, UNCHANGED call, delete_all_groups(c)
    PROVE  Mapped(c)
<1>1. pc[c] = "delete_groups" /\ pc[c] \notin Idle
  BY DEF delete_all_groups, Idle
<1>2. call[c].op = "delete_all_data"
  BY <1>1, CallOfStage
<1> DEFINE cmd == [kind |-> "delete_groups"]
<1>3. \/ Answered(cmd, 1) /\ Return(c, "ok")
      \/ Unanswered(c, {cmd})
  BY DEF delete_all_groups
<1>4. cmd.kind = "delete_groups" /\ Addressed(cmd)
  BY DEF Addressed
<1> HIDE DEF cmd
<1>5. ChangeOf(cmd) = {[kind |-> "clear"]} /\ [kind |-> "clear"] \in Directory!Asked(call[c])
  BY <1>2, <1>4, ChangeOfKinds, AskedClear
<1>6. CASE Unanswered(c, {cmd})
  BY <1>1, <1>4, <1>5, <1>6, UnansweredMapped
<1>7. CASE Answered(cmd, 1) /\ Return(c, "ok")
  <2>1. UNCHANGED <<inflight, faults>> /\ groups' = {}
    BY <1>4, <1>7, AnsweredKinds
  <2>2. ListedGroups' = {} /\ Listed' = {}
    BY <2>1, ClearDirectory
  <2>3. Directory!Make([kind |-> "clear"])
    BY <2>2, MakeKinds
  <2>4. Directory!Holds(call[c], "ok") /\ "ok" \in Directory!Outcome
    BY <1>2, <2>2 DEF Directory!Holds, Directory!Outcome
  <2>5. Directory!Finish(c)
    BY <1>1, <1>5, <1>7, <2>1, <2>3, <2>4, FinishMapped DEF Return
  <2> QED BY <2>1, <2>5, LateKept DEF Mapped
<1> QED BY <1>3, <1>6, <1>7

LEMMA ReadersMapped ==
    ASSUME IInv, LateOK, NEW c \in Client, UNCHANGED call,
           get_keys_of_group(c) \/ ping(c)
    PROVE  Mapped(c)
<1>1. pc[c] \in {"get_keys", "ping"} /\ pc[c] \notin Idle
  BY DEF get_keys_of_group, ping, Idle
<1>2. call[c].op \in {"get_keys_of_group", "ping"}
  BY <1>1 DEF IInv, ClientsOK, LocalOK, CountersOK, Calls, Stages, GroupUserOps, Idle
<1>3. \/ Unread /\ Return(c, "db_error")
      \/ /\ Read \/ Unread
         /\ \/ \E s \in {"ok", "bad_signature", "key_size", "no_group"} : Return(c, s)
            \/ \E keys : ReturnKeys(c, "ok", keys)
  BY DEF get_keys_of_group, ping
<1>4. \A s \in {"ok", "bad_signature", "key_size", "no_group"} :
        s \in Directory!Outcome /\ Directory!Holds(call[c], s)
  BY <1>2, HoldsSilent DEF Directory!Outcome
<1>5. CASE Unread /\ Return(c, "db_error")
  BY <1>1, <1>5, ReadErrorMapped
<1>6. ASSUME Read \/ Unread, NEW s \in {"ok", "bad_signature", "key_size", "no_group"},
             NEW k, ReturnKeys(c, s, k)
      PROVE  Mapped(c)
  BY <1>1, <1>4, <1>6, ReadEndMapped
<1>7. ASSUME Read \/ Unread,
             NEW s \in {"ok", "bad_signature", "key_size", "no_group"}, Return(c, s)
      PROVE  Mapped(c)
  BY <1>6, <1>7 DEF Return
<1>8. ASSUME Read \/ Unread, NEW keys, ReturnKeys(c, "ok", keys)
      PROVE  Mapped(c)
  BY <1>6, <1>8
<1> QED BY <1>3, <1>5, <1>7, <1>8

LEMMA IsMemberMapped ==
    ASSUME IInv, LateOK, NEW c \in Client, UNCHANGED call, is_user_part_of_group(c)
    PROVE  Mapped(c)
<1>1. pc[c] = "is_member" /\ pc[c] \notin Idle
  BY DEF is_user_part_of_group, Idle
<1>2. call[c].group \in Group /\ call[c].user \in User
  BY <1>1 DEF IInv, ClientsOK, LocalOK, CountersOK, Calls, Stages, GroupUserOps, Idle
<1> DEFINE member == \E d \in groups : RemoveMatches(d, group_name(c), user_name(c))
<1>3. \/ Read /\ Return(c, IF member THEN "member" ELSE "not_member")
      \/ Unread /\ Return(c, "db_error")
  BY DEF is_user_part_of_group
<1>4. member <=> <<call[c].group, call[c].user>> \in Listed
  BY <1>2, MemberListed DEF group_name, user_name
<1> HIDE DEF member
<1>5. CASE Read /\ Return(c, IF member THEN "member" ELSE "not_member")
  <2> DEFINE s == IF member THEN "member" ELSE "not_member"
  <2>1. s \in Directory!Outcome
    BY DEF Directory!Outcome
  <2>2. Listed' = Listed
    BY <1>5, ReadListed
  <2>3. Directory!Holds(call[c], s)
    BY <1>4, <2>2 DEF Directory!Holds
  <2> QED BY <1>1, <1>5, <2>1, <2>3, ReadEndMapped DEF Return
<1> QED BY <1>1, <1>3, <1>5, ReadErrorMapped

LEMMA StepMapped ==
    ASSUME IInv, LateOK, GroupsUnique, NEW c \in Client, Step(c) PROVE Mapped(c)
<1>1. UNCHANGED call
  BY DEF Step
<1> QED BY <1>1, SilentStepsMapped, ReencryptMapped, CreateGroupMapped,
           AddFindMapped, AddUpdateMapped, RemoveFindMapped, RemoveUpdateMapped,
           ScanMapped, BulkMapped, DeleteGroupsMapped, ReadersMapped,
           IsMemberMapped DEF Step

-----------------------------------------------------------------------------
(* The other steps *)

LEMMA InvokeMapped ==
    ASSUME IInv, LateOK, NEW c \in Client, Invoke(c) PROVE Mapped(c)
<1>1. PICK new \in Calls : /\ call' = [call EXCEPT ![c] = new]
                           /\ pc' = [pc EXCEPT ![c] = First[new.op]]
  BY DEF Invoke
<1>2. First[new.op] \notin Idle
  <2>1. new.op \in AllOps
    BY DEF Calls, AllOps, GroupUserOps
  <2> QED BY <2>1 DEF AllOps, GroupUserOps, First, Idle
<1>3. /\ pc[c] = "idle" /\ UNCHANGED <<groups, inflight, faults>>
      /\ result' = [result EXCEPT ![c] = [status |-> "none", keys |-> {}]]
  BY DEF Invoke
<1>4. /\ pc'[c] = First[new.op] /\ call'[c] = new /\ result'[c].status = "none"
      /\ \A o \in Client \ {c} : pc'[o] = pc[o] /\ call'[o] = call[o]
                                 /\ result'[o] = result[o]
  BY <1>1, <1>3 DEF IInv, ClientsOK, CountersOK
<1>5. Running[c] = None
  BY <1>3 DEF Running, Idle
<1>6. Running' = [Running EXCEPT ![c] = new]
  <2>1. Running' = [o \in Client |-> IF pc'[o] \in Idle THEN None ELSE call'[o]]
    BY DEF Running, Idle
  <2> QED BY <1>2, <1>4, <2>1 DEF Running
<1>7. Status' = [Status EXCEPT ![c] = "none"]
  <2>1. Status' = [o \in Client |-> result'[o].status]
    BY DEF Status
  <2> QED BY <1>4, <2>1 DEF Status
<1>8. Same /\ Late' = Late /\ LateOK'
  BY <1>3, NothingChanges, LateKept DEF Late
<1>9. Directory!Begin(c)
  BY <1>3, <1>5, <1>6, <1>7, <1>8
     DEF Directory!Begin, Directory!Keep, Same, Running, Status, Late
<1> QED BY <1>8, <1>9 DEF Mapped

\* The commands the next round trip of a call sends ask for its own changes.
LEMMA PendingAsked ==
    ASSUME IInv, NEW c \in Client, pc[c] \notin Idle, NEW cmd \in Pending(c)
    PROVE  Addressed(cmd) /\ ChangeOf(cmd) \subseteq Directory!Asked(call[c])
<1> DEFINE g == call[c].group
           u == call[c].user
<1>1. CASE pc[c] = "insert_group"
  <2>1. call[c].op = "create_group" /\ g \in Group /\ u \in User
    BY <1>1, CallOfStage
  <2>2. /\ cmd.kind = "insert_group" /\ cmd.doc.name = hash_name(g)
        /\ cmd.doc.users = <<new_entry(c)>>
    BY <1>1 DEF Pending, insert_group_command, NewGroupDoc
  <2>3. new_entry(c) \in Entry /\ new_entry(c).name = salted_hash_name(u, g)
    BY <1>1, EntryOK DEF new_entry, user_name
  <2> HIDE DEF g, u
  <2>4. Addressed(cmd)
    BY <2>1, <2>2, <2>3 DEF Addressed
  <2>5. ChangeOf(cmd) = {Founding(g, u)}
    BY <2>2, <2>3, ChangeOfInsert
  <2> QED BY <2>1, <2>4, <2>5, AskedKinds DEF g, u
<1>2. CASE pc[c] = "add_update"
  <2>1. /\ call[c].op \in {"add_user_to_group", "create_group"}
        /\ g \in Group /\ u \in User
    BY <1>2, CallOfStage
  <2>2. /\ cmd.kind = "push" /\ cmd.name = hash_name(g)
        /\ cmd.entry.name = salted_hash_name(u, g)
    BY <1>2 DEF Pending, push_command, new_entry, group_name, user_name
  <2> HIDE DEF g, u
  <2>3. Addressed(cmd)
    BY <2>1, <2>2 DEF Addressed
  <2>4. ChangeOf(cmd) = {Joining(g, u)}
    BY <2>2, ChangeOfKinds
  <2> QED BY <2>1, <2>3, <2>4, AskedKinds DEF g, u
<1>3. CASE pc[c] = "remove_update"
  <2>1. call[c].op = "remove_user_from_group" /\ g \in Group /\ u \in User
    BY <1>3, CallOfStage
  <2>2. /\ cmd.kind = "pull" /\ cmd.name = hash_name(g)
        /\ cmd.user = salted_hash_name(u, g)
    BY <1>3 DEF Pending, pull_command, group_name, user_name
  <2> HIDE DEF g, u
  <2>3. Addressed(cmd)
    BY <2>1, <2>2 DEF Addressed
  <2>4. ChangeOf(cmd) = {Leaving(g, u)}
    BY <2>2, ChangeOfKinds
  <2> QED BY <2>1, <2>3, <2>4, AskedKinds DEF g, u
<1>4. CASE pc[c] = "bulk"
  <2>1. PICK d \in loc[c].held : cmd = bulk_command(c, d)
    BY <1>4 DEF Pending
  <2>2. PICK h \in Group : h = decrypt_data(d.encname)
    BY LocalType DEF LocalState, GroupDoc, NameCipher, decrypt_data
  <2>3. call[c].op = "delete_user" /\ u \in User
    BY <1>4, CallOfStage
  <2>4. cmd.kind = "pull_exact" /\ cmd.user = salted_hash_name(u, h)
    BY <2>1, <2>2 DEF bulk_command
  <2> HIDE DEF u
  <2>5. Addressed(cmd)
    BY <2>4 DEF Addressed
  <2>6. ChangeOf(cmd) = {Leaving(h, u)}
    BY <2>4, ChangeOfKinds
  <2> QED BY <2>3, <2>5, <2>6, AskedKinds DEF u
<1>5. CASE pc[c] = "delete_groups"
  <2>1. cmd.kind = "delete_groups" /\ call[c].op = "delete_all_data"
    BY <1>5, CallOfStage DEF Pending
  <2>2. Addressed(cmd)
    BY <2>1 DEF Addressed
  <2> QED BY <2>1, <2>2, ChangeOfKinds, AskedClear
<1>6. CASE pc[c] \notin {"insert_group", "add_update", "remove_update", "bulk",
                        "delete_groups"}
  <2>1. cmd.kind \in {"insert_user", "delete_user", "delete_users", "create_index"}
    BY <1>6 DEF Pending, insert_user_command, delete_user_command
  <2>2. Addressed(cmd)
    BY <2>1 DEF Addressed
  <2> QED BY <2>1, <2>2, ChangeOfKinds
<1> QED BY <1>1, <1>2, <1>3, <1>4, <1>5, <1>6

LEMMA CrashMapped ==
    ASSUME IInv, LateOK, NEW c \in Client, Crash(c) PROVE Mapped(c)
<1>1. /\ pc[c] \notin Idle /\ faults' = faults + 1
      /\ UNCHANGED <<groups, call>>
  BY DEF Crash, Fault
<1>2. /\ pc'[c] = "crashed" /\ result'[c].status = "crashed"
      /\ \A o \in Client \ {c} : pc'[o] = pc[o] /\ result'[o] = result[o]
  BY DEF Crash, IInv, ClientsOK
<1>3. Running[c] # None
  BY <1>1, CallOfStage DEF Running
<1>4. Running' = [Running EXCEPT ![c] = None]
  <2>1. Running' = [o \in Client |-> IF pc'[o] \in Idle THEN None ELSE call'[o]]
    BY DEF Running, Idle
  <2> QED BY <1>1, <1>2, <2>1 DEF Running, Idle
<1>5. Status' = [Status EXCEPT ![c] = "crashed"]
  <2>1. Status' = [o \in Client |-> result'[o].status]
    BY DEF Status
  <2> QED BY <1>2, <2>1 DEF Status
<1>6. Directory!End(c, "crashed")
  BY <1>3, <1>4, <1>5 DEF Directory!End, Running, Status
<1>7. PICK sent \in {{}, Pending(c)} : inflight' = inflight \cup sent
  BY DEF Crash
<1>8. \A cmd \in sent : Addressed(cmd) /\ ChangeOf(cmd) \subseteq Directory!Asked(call[c])
  BY <1>1, PendingAsked
<1>9. LateOK' /\ Same
  BY <1>1, <1>7, <1>8, LateGrows, NothingChanges
<1> DEFINE lost == UNION {ChangeOf(cmd) : cmd \in sent}
<1>10. lost \in SUBSET Directory!Asked(Running[c])
  BY <1>1, <1>8 DEF Running
<1>11. Late' = Late \cup lost
  <2>1. Late' = UNION {ChangeOf(cmd) : cmd \in inflight'}
    BY DEF Late, ChangeOf, OfEntry
  <2> QED BY <1>7, <2>1 DEF Late
<1>12. Directory!Keep
  BY <1>9 DEF Directory!Keep, Same
<1> HIDE DEF lost
<1>13. Directory!Abort(c)
  BY <1>1, <1>6, <1>10, <1>11, <1>12 DEF Directory!Abort, Running, Late
<1> QED BY <1>9, <1>13 DEF Mapped

\* A lost command that executes makes its change, or is forgotten.
LEMMA DeliverMapped ==
    ASSUME IInv, LateOK, GroupsUnique, NEW cmd \in inflight, Deliver(cmd)
    PROVE  /\ Directory!ActLate \/ UNCHANGED Directory!dirVars
           /\ LateOK'
<1>1. PICK n : Execute(cmd, n)
  BY DEF Deliver
<1>2. /\ inflight' = inflight \ {cmd}
      /\ UNCHANGED <<pc, call, result, faults>>
  BY DEF Deliver
<1>3. CommandOK(cmd) /\ Addressed(cmd)
  BY DEF IInv, InflightOK, LateOK
<1>4. Same \/ \E ch \in ChangeOf(cmd) : Directory!Make(ch)
  BY <1>1, <1>3, ExecuteDirectory
<1>5. Late = Late' \cup ChangeOf(cmd)
  <2>1. Late' = UNION {ChangeOf(x) : x \in inflight'}
    BY DEF Late, ChangeOf, OfEntry
  <2> QED BY <1>2, <2>1 DEF Late
<1>6. Running' = Running /\ Status' = Status
  BY <1>2 DEF Running, Status
<1>7. CASE ChangeOf(cmd) = {}
  <2>1. Late' = Late /\ Same
    BY <1>4, <1>5, <1>7
  <2> QED BY <1>2, <1>6, <2>1, LateShrinks
             DEF Directory!dirVars, Same, Running, Status, Late
<1>8. ASSUME NEW ch, ChangeOf(cmd) = {ch} PROVE Directory!ActLate \/ UNCHANGED Directory!dirVars
  <2>1. ch \in Late /\ Late' \in {Late, Late \ {ch}}
    BY <1>5, <1>8
  <2>2. CASE Directory!Make(ch)
    BY <1>2, <1>6, <2>1, <2>2 DEF Directory!ActLate, Running, Status, Late
  <2>3. CASE Same /\ Late' = Late \ {ch}
    BY <1>2, <1>6, <2>1, <2>3
       DEF Directory!ActLate, Directory!Keep, Same, Running, Status, Late
  <2>4. CASE Same /\ Late' = Late
    BY <1>2, <1>6, <2>4 DEF Directory!dirVars, Same, Running, Status, Late
  <2> QED BY <1>4, <1>8, <2>1, <2>2, <2>3, <2>4
<1> QED BY <1>2, <1>3, <1>7, <1>8, ChangeSingle, LateShrinks

-----------------------------------------------------------------------------
(* The refinement *)

LEMMA InitMapped == ASSUME Init PROVE Directory!DirInit /\ LateOK
<1>1. ListedGroups \subseteq Group
  BY DEF ListedGroups
<1>2. Listed \subseteq ListedGroups \X User
  BY DEF Listed, ListedGroups, RemoveMatches
<1>3. /\ Running = [c \in Client |-> None] /\ Status = [c \in Client |-> "none"]
      /\ Late = {} /\ faults = 0
  BY DEF Init, Running, Status, Late, Idle
<1>4. LateOK
  BY DEF Init, LateOK
<1> QED BY <1>1, <1>2, <1>3, <1>4 DEF Directory!DirInit, Running, Status, Late

LEMMA NextMapped ==
    ASSUME IInv, LateOK, GroupsUnique, [Next]_vars
    PROVE  [Directory!DirNext]_(Directory!dirVars) /\ LateOK'
<1>1. ASSUME NEW c \in Client, Mapped(c)
      PROVE  [Directory!DirNext]_(Directory!dirVars) /\ LateOK'
  BY <1>1 DEF Mapped, Directory!DirNext
<1>2. CASE \E cmd \in inflight : Deliver(cmd)
  BY <1>2, DeliverMapped DEF Directory!DirNext
<1>3. CASE UNCHANGED vars
  <2>1. UNCHANGED <<groups, inflight, pc, call, result, faults>>
    BY <1>3 DEF vars
  <2>2. Same /\ LateOK'
    BY <2>1, NothingChanges, LateKept
  <2>3. Running' = Running /\ Status' = Status /\ Late' = Late
    BY <2>1 DEF Running, Status, Late
  <2> QED BY <2>1, <2>2, <2>3 DEF Directory!dirVars, Same, Running, Status, Late
<1> QED BY <1>1, <1>2, <1>3, StepMapped, InvokeMapped, CrashMapped DEF Next, Done

\* Given the unique index on the groups, every behaviour of the clients and the
\* server, with any number of them, any attempts and any faults, is a behaviour
\* of the directory: no update loses or alters another user's membership, and
\* what a call returns is true when it returns.
THEOREM DirectoryImplemented ==
    ASSUME "groups" \in InitialIndexes PROVE Spec => ImplementsDirectory
<1>1. Init => Directory!DirInit /\ LateOK
  BY InitMapped
<1>2. IInv /\ RInv /\ LateOK /\ [Next]_vars
        => [Directory!DirNext]_(Directory!dirVars) /\ LateOK'
  BY NextMapped DEF RInv
<1>3. Spec => Directory!DirInit /\ [][Directory!DirNext]_(Directory!dirVars)
  BY <1>1, <1>2, InductiveInvariant, TurnsCounted, PTL DEF Spec
<1> QED BY <1>3 DEF ImplementsDirectory, Directory!DirSpec
=============================================================================

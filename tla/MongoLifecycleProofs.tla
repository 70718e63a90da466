------------------------ MODULE MongoLifecycleProofs ------------------------
(***************************************************************************)
(* How users come and go, for every number of clients, users, groups and   *)
(* calls.                                                                  *)
(*                                                                         *)
(* First, delete_user takes the user out of every group before it deletes  *)
(* the user's document, unless another client changed a group under it or  *)
(* a round trip failed.  The cursor knows the groups it returned by their  *)
(* encrypted names, so the argument needs that no two documents have the   *)
(* same one: each is encrypted under a nonce of the call that inserts the  *)
(* document, and a call inserts at most one.  From there the invariant     *)
(* follows the scan (every group is held or still to come) and the bulk    *)
(* (every group is held or lacks the user).                                *)
(*                                                                         *)
(* Then, what one caller finds in the database: as long as only one client *)
(* has called anything and no round trip failed, every member of a group   *)
(* is a stored user with that user's key, at no round trip excepted but    *)
(* the second deletion of delete_all_data, and get_keys_of_group returned  *)
(* the keys of the users the group has.  The calls are followed round trip *)
(* by round trip: a key that is re-encrypted stays that of a stored user   *)
(* until it is pushed, and a user is deleted when no group has the user    *)
(* any more (DeletionOK).                                                  *)
(***************************************************************************)
EXTENDS MongoDatabaseProofs

Author(d) == d.encname.nonce[1]
Number(d) == d.encname.nonce[2]

\* The documents were inserted by calls that began, each by another one.
NoncesOK(docs) ==
    /\ \A d, e \in docs : d.encname = e.encname => d = e
    /\ \A d \in docs, c \in Client : Author(d) = c =>
         /\ Number(d) <= seq[c]
         /\ pc[c] \in {"reencrypt", "insert_group"} => Number(d) < seq[c]

Lacks(c, d) == ~HasUser(d, salted_hash_name(call[c].user, decrypt_data(d.encname)))

\* How far the deletion has come, while nobody interferes with it.
DeletionOK(c) ==
    /\ pc[c] = "scan" =>
         /\ loc[c].held \subseteq groups
         /\ \A d \in groups : d \in loc[c].held \/ d.encname \in loc[c].unread
    /\ pc[c] = "bulk" =>
         /\ loc[c].held \subseteq groups
         /\ \A d \in groups : d \in loc[c].held \/ Lacks(c, d)
    /\ pc[c] = "delete_user" => \A d \in groups : Lacks(c, d)

\* The inductive invariant, on top of IInv.
DInv ==
    /\ \A c \in Client : pc[c] \in {"idle", "scan_open"} => loc[c].held = {}
    /\ faults = 0 =>
         /\ inflight = {}
         /\ NoncesOK(groups)
         /\ \A c \in Client : rivals[c] = 0 => DeletionOK(c)

-----------------------------------------------------------------------------
(* What a step does to the groups *)

LEMMA FaultCounts == ASSUME IInv, Fault PROVE faults' # 0
BY DEF IInv, CountersOK, Fault

LEMMA PulledName ==
    ASSUME IInv, NEW d \in groups, NEW user, NEW sig
    PROVE  /\ Pulled(d, user, sig).encname = d.encname
           /\ ~HasUser(Pulled(d, user, sig), user)
<1>1. d \in GroupDoc
  BY DEF IInv, DataOK
<1> DEFINE p == Pulled(d, user, sig)
<1>2. /\ p.encname = d.encname
      /\ Range(p.users) = {e \in Range(d.users) : e.name # user}
  BY <1>1, PulledMembers
<1> HIDE DEF p
<1>3. ~HasUser(p, user)
  BY <1>2 DEF HasUser
<1> QED BY <1>2, <1>3 DEF p

LEMMA PushedName ==
    ASSUME IInv, NEW d \in groups, NEW entry, NEW sig
    PROVE  Pushed(d, entry, sig).encname = d.encname
BY DEF IInv, DataOK, GroupDoc, Pushed

Updated == \E old \in groups : \E new : new.encname = old.encname /\ Replace(old, new)

\* A command that inserts no group changes documents in place or deletes them.
LEMMA ExecuteGroups ==
    ASSUME IInv, NEW cmd, NEW n, cmd.kind # "insert_group", Execute(cmd, n)
    PROVE  groups' \subseteq groups \/ Updated
<1>1. CASE ExecutePush(cmd, n)
  BY <1>1, PushedName DEF ExecutePush, Updated
<1>2. CASE ExecutePull(cmd, n)
  BY <1>2, PulledName DEF ExecutePull, Updated
<1>3. CASE ExecutePullExact(cmd, n)
  BY <1>3, PulledName DEF ExecutePullExact, Updated
<1> QED BY <1>1, <1>2, <1>3 DEF Execute, ExecuteInsert, ExecuteDelete, ExecuteIndex

Inserted(c) ==
    /\ pc[c] = "insert_group" /\ pc'[c] = "idle"
    /\ \E new : /\ new.encname = encrypt_data(call[c].group, nonce(c))
               /\ groups' = groups \cup {new}

LEMMA CreateGroupGroups ==
    ASSUME IInv, NEW c \in Client, create_group(c)
    PROVE  groups' = groups \/ Inserted(c)
<1> DEFINE encname == encrypt_data(call[c].group, nonce(c))
           d == NewGroupDoc(call[c].group, encname, new_entry(c))
           cmd == insert_group_command(c)
<1>1. d.encname = encname
  BY DEF NewGroupDoc
<1>2. cmd.kind = "insert_group" /\ cmd.doc = d
  BY DEF insert_group_command
<1>3. /\ pc[c] = "insert_group"
      /\ \/ Answered(cmd, 1) /\ Return(c, "ok")
         \/ Answered(cmd, 0)
         \/ Unanswered(c, {cmd})
  BY DEF create_group
<1> HIDE DEF cmd, d
<1>4. ASSUME NEW n, Answered(cmd, n) PROVE ExecuteInsert(cmd, n)
  BY <1>2, <1>4 DEF Answered, Execute, ExecutePush, ExecutePull,
                    ExecutePullExact, ExecuteDelete, ExecuteIndex
<1>5. CASE Answered(cmd, 1) /\ Return(c, "ok")
  <2>1. groups' = groups \/ groups' = groups \cup {d}
    BY <1>2, <1>4, <1>5 DEF ExecuteInsert
  <2>2. pc'[c] = "idle"
    BY <1>5, ReturnEffect
  <2> QED BY <1>1, <1>3, <2>1, <2>2 DEF Inserted
<1>6. CASE Answered(cmd, 0)
  BY <1>2, <1>4, <1>6 DEF ExecuteInsert
<1>7. CASE Unanswered(c, {cmd})
  BY <1>7 DEF Unanswered, data
<1> QED BY <1>3, <1>5, <1>6, <1>7

\* The commands of the other round trips.
LEMMA OtherCommand ==
    ASSUME NEW c, Step(c), ~create_group(c)
    PROVE  \/ groups' = groups
           \/ \E cmd, n : cmd.kind # "insert_group" /\ Execute(cmd, n)
<1>1. \/ create_user(c) \/ reencrypt_user_key(c) \/ add_find(c) \/ add_update(c)
      \/ remove_find(c) \/ remove_update(c) \/ scan_open(c) \/ scan_next(c)
      \/ scan_end(c) \/ bulk_update(c) \/ delete_user(c)
      \/ delete_all_users(c) \/ delete_all_groups(c) \/ init_users_index(c)
      \/ init_groups_index(c) \/ is_user_part_of_group(c)
      \/ get_keys_of_group(c) \/ ping(c)
  BY DEF Step
<1>2. CASE create_user(c)
  <2> DEFINE cmd == insert_user_command(c)
  <2>1. cmd.kind = "insert_user"
    BY DEF insert_user_command
  <2>2. (\E n : Answered(cmd, n)) \/ UNCHANGED groups
    BY <1>2 DEF create_user, Unanswered, data
  <2> HIDE DEF cmd
  <2> QED BY <2>1, <2>2 DEF Answered
<1>3. CASE add_update(c)
  <2> DEFINE cmd(d) == push_command(c, d)
  <2>1. \A d : cmd(d).kind = "push"
    BY DEF push_command
  <2>2. (\E d, n : Answered(cmd(d), n)) \/ UNCHANGED groups
    BY <1>3 DEF add_update, Unanswered, data
  <2> HIDE DEF cmd
  <2> QED BY <2>1, <2>2 DEF Answered
<1>4. CASE remove_update(c)
  <2> DEFINE cmd(d) == pull_command(c, d)
  <2>1. \A d : cmd(d).kind = "pull"
    BY DEF pull_command
  <2>2. (\E d, n : Answered(cmd(d), n)) \/ UNCHANGED groups
    BY <1>4 DEF remove_update, Unanswered, data
  <2> HIDE DEF cmd
  <2> QED BY <2>1, <2>2 DEF Answered
<1>5. CASE bulk_update(c)
  <2>1. \A d : bulk_command(c, d).kind = "pull_exact"
    BY DEF bulk_command
  <2>2. (\E d, n : Answered(bulk_command(c, d), n)) \/ UNCHANGED groups
    BY <1>5 DEF bulk_update, Unanswered, data
  <2> QED BY <2>1, <2>2 DEF Answered
<1>6. CASE delete_user(c) \/ delete_all_users(c) \/ delete_all_groups(c)
  <2> DEFINE D == {delete_user_command(c),
                   [kind |-> "delete_users"], [kind |-> "delete_groups"]}
  <2>1. \A cmd \in D : cmd.kind # "insert_group"
    BY DEF delete_user_command
  <2>2. (\E cmd \in D : \E n : Answered(cmd, n)) \/ UNCHANGED groups
    BY <1>6 DEF delete_user, delete_all_users, delete_all_groups, Unanswered, data
  <2> HIDE DEF D
  <2> QED BY <2>1, <2>2 DEF Answered
<1>7. CASE init_users_index(c) \/ init_groups_index(c)
  <2> DEFINE cmd(on) == [kind |-> "create_index", on |-> on]
  <2>1. \A on : cmd(on).kind # "insert_group"
    OBVIOUS
  <2>2. (\E on, n : Answered(cmd(on), n)) \/ UNCHANGED groups
    BY <1>7 DEF init_users_index, init_groups_index, Unanswered, data
  <2> HIDE DEF cmd
  <2> QED BY <2>1, <2>2 DEF Answered
<1>8. CASE \/ reencrypt_user_key(c) \/ add_find(c) \/ remove_find(c)
           \/ scan_open(c) \/ scan_next(c) \/ scan_end(c)
           \/ is_user_part_of_group(c) \/ get_keys_of_group(c) \/ ping(c)
  BY <1>8 DEF reencrypt_user_key, add_find, remove_find, Find, scan_open,
     scan_next, scan_end, is_user_part_of_group, get_keys_of_group, ping,
     Read, Unread, server
<1> QED BY <1>1, <1>2, <1>3, <1>4, <1>5, <1>6, <1>7, <1>8

LEMMA StepGroups ==
    ASSUME IInv, NEW c \in Client, Step(c)
    PROVE  groups' \subseteq groups \/ Updated \/ Inserted(c)
BY OtherCommand, ExecuteGroups, CreateGroupGroups

\* Only reencrypt leads to the insertion of a group, and it changes nothing.
LEMMA BeforeInsert ==
    ASSUME IInv, NEW c \in Client, Step(c),
           pc'[c] \in {"reencrypt", "insert_group"}
    PROVE  pc[c] = "reencrypt" /\ UNCHANGED <<groups, seq>>
<1>1. \A s, k : ReturnKeys(c, s, k) => pc'[c] = "idle"
  BY DEF ReturnKeys, IInv, ClientsOK
<1>2. \A l, v : Goto(c, l, v) => pc'[c] = l
  BY GotoEffect
<1>3. reencrypt_user_key(c)
  BY <1>1, <1>2
     DEF Step, create_user, create_group, add_find, add_update, remove_find,
         remove_update, Find, scan_open, scan_next, scan_end, bulk_update,
         delete_user, delete_all_users, delete_all_groups, init_users_index,
         init_groups_index, is_user_part_of_group, get_keys_of_group, ping,
         Unanswered, Retry, Return
<1> QED BY <1>3 DEF reencrypt_user_key, Read, Unread, server, Step

-----------------------------------------------------------------------------
(* The nonces *)

LEMMA NumberType ==
    ASSUME IInv, NEW d \in groups, NEW c \in Client
    PROVE  Number(d) \in Nat /\ seq[c] \in Nat
<1>1. d.encname.nonce \in Nonce
  BY DEF IInv, DataOK, GroupDoc, NameCipher
<1>2. Number(d) \in Nat
  BY <1>1 DEF Nonce, Number
<1> QED BY <1>2, MongoConstants DEF IInv, CountersOK

LEMMA StepKeepsNonces ==
    ASSUME IInv, NoncesOK(groups), NEW c \in Client, Step(c)
    PROVE  NoncesOK(groups)'
<1>1. /\ UNCHANGED seq
      /\ \A o \in Client \ {c} : pc'[o] = pc[o]
  BY OthersUntouched DEF Step
<1> DEFINE Old(d) == \A o \in Client : Author(d) = o =>
             /\ Number(d) <= seq[o]
             /\ pc[o] \in {"reencrypt", "insert_group"} => Number(d) < seq[o]
<1>2. ASSUME NEW d, NEW e \in groups, d.encname = e.encname
      PROVE  Old(d)
  <2>1. Author(d) = Author(e) /\ Number(d) = Number(e)
    BY <1>2 DEF Author, Number
  <2> QED BY <2>1 DEF NoncesOK
<1>3. ASSUME NEW d, Old(d)
      PROVE  \A o \in Client : Author(d) = o =>
               /\ Number(d) <= seq'[o]
               /\ pc'[o] \in {"reencrypt", "insert_group"} => Number(d) < seq'[o]
  BY <1>1, <1>3, BeforeInsert
<1> HIDE DEF Old
<1>4. CASE groups' \subseteq groups
  BY <1>2, <1>3, <1>4 DEF NoncesOK
<1>5. CASE Updated
  <2>1. PICK old \in groups :
          \E new : new.encname = old.encname /\ Replace(old, new)
    BY <1>5 DEF Updated
  <2>2. PICK new : new.encname = old.encname /\ Replace(old, new)
    BY <2>1
  <2>3. \A d \in groups' : d = new \/ (d \in groups /\ d # old)
    BY <2>2 DEF Replace
  <2>4. \A d, e \in groups' : d.encname = e.encname => d = e
    BY <2>2, <2>3 DEF NoncesOK
  <2>5. \A d \in groups' : Old(d)
    BY <1>2, <2>2, <2>3
  <2> QED BY <1>3, <2>4, <2>5 DEF NoncesOK
<1>6. CASE Inserted(c)
  <2>1. PICK new : /\ new.encname = encrypt_data(call[c].group, nonce(c))
                   /\ groups' = groups \cup {new}
    BY <1>6 DEF Inserted
  <2>2. Author(new) = c /\ Number(new) = seq[c]
    BY <2>1 DEF Author, Number, encrypt_data, nonce
  <2>3. ASSUME NEW e \in groups PROVE e.encname # new.encname
    <3> SUFFICES ASSUME e.encname = new.encname PROVE FALSE
      OBVIOUS
    <3>1. Author(e) = c /\ Number(e) = seq[c]
      BY <2>2 DEF Author, Number
    <3>2. Number(e) < seq[c]
      BY <1>6, <3>1 DEF Inserted, NoncesOK
    <3> QED BY <3>1, <3>2, NumberType
  <2>4. \A d, e \in groups' : d.encname = e.encname => d = e
    BY <2>1, <2>3 DEF NoncesOK
  <2>5. \A o \in Client : Author(new) = o =>
          /\ Number(new) <= seq'[o]
          /\ pc'[o] \in {"reencrypt", "insert_group"} => Number(new) < seq'[o]
    <3>1. pc'[c] = "idle" /\ seq'[c] = seq[c] /\ seq[c] \in Int
      BY <1>1, <1>6, MongoConstants DEF Inserted, IInv, CountersOK
    <3> QED BY <2>2, <3>1
  <2>6. \A d \in groups : Old(d)
    BY <1>2
  <2> QED BY <1>3, <2>1, <2>4, <2>5, <2>6 DEF NoncesOK
<1> QED BY <1>4, <1>5, <1>6, StepGroups

LEMMA InvokeKeepsNonces ==
    ASSUME IInv, NoncesOK(groups), NEW c \in Client, Invoke(c)
    PROVE  NoncesOK(groups)'
<1>1. /\ UNCHANGED groups /\ seq'[c] = seq[c] + 1
      /\ \A o \in Client \ {c} : pc'[o] = pc[o] /\ seq'[o] = seq[o]
  BY DEF Invoke, IInv, ClientsOK, CountersOK
<1>2. \A d \in groups : Author(d) = c => Number(d) < seq'[c]
  BY <1>1, NumberType DEF NoncesOK
<1> QED BY <1>1, <1>2, NumberType DEF NoncesOK

LEMMA InitNonces == ASSUME Init PROVE NoncesOK(groups)
<1>1. ASSUME NEW g \in DOMAIN InitialMembers
      PROVE  /\ StoredGroup(g).encname.plain = g
             /\ Author(StoredGroup(g)) = Past
  <2>1. StoredGroup(g).encname = encrypt_data(g, <<Past, 0>>)
    BY DEF StoredGroup
  <2> QED BY <2>1 DEF encrypt_data, Author
<1>2. groups = {StoredGroup(g) : g \in DOMAIN InitialMembers}
  BY DEF Init
<1>3. \A d \in groups : Author(d) \notin Client
  BY <1>1, <1>2, DocumentConstants
<1>4. \A d, e \in groups : d.encname = e.encname => d = e
  BY <1>1, <1>2
<1> QED BY <1>3, <1>4 DEF NoncesOK

-----------------------------------------------------------------------------
(* The scan and the bulk *)

\* No round trip leads back to the opening of the cursor, and a call that ends
\* lets go of its documents.
LEMMA HeldAtStart ==
    ASSUME IInv, NEW c \in Client, Step(c), pc'[c] \in {"idle", "scan_open"}
    PROVE  loc'[c].held = {}
<1>1. \A l, v : Goto(c, l, v) => pc'[c] = l
  BY GotoEffect
<1>2. \E s, k : ReturnKeys(c, s, k)
  BY <1>1
     DEF Step, create_user, reencrypt_user_key, create_group, add_find,
         add_update, remove_find, remove_update, Find, scan_open, scan_next,
         scan_end, bulk_update, delete_user, delete_all_users,
         delete_all_groups, init_users_index, init_groups_index,
         is_user_part_of_group, get_keys_of_group, ping, Unanswered, Retry,
         Return
<1>3. loc'[c] = Fresh
  BY <1>2 DEF ReturnKeys, IInv, ClientsOK
<1> QED BY <1>3, FreshOK

LEMMA ReturnKeepsDeletion ==
    ASSUME IInv, NEW c \in Client, NEW status, Return(c, status)
    PROVE  DeletionOK(c)'
BY ReturnEffect DEF DeletionOK

LEMMA ScanOpenKeeps ==
    ASSUME IInv, NEW c \in Client, scan_open(c), UNCHANGED call,
           loc[c].held = {}
    PROVE  DeletionOK(c)'
<1> DEFINE local == [loc[c] EXCEPT !.unread = {d.encname : d \in groups}]
<1>1. CASE Return(c, "empty_bulk")
  BY <1>1, ReturnKeepsDeletion
<1>2. CASE Read /\ Goto(c, "scan", local)
  <2>1. local.held = {} /\ local.unread = {d.encname : d \in groups}
    BY LocalType DEF LocalState
  <2>2. pc'[c] = "scan" /\ loc'[c] = local /\ groups' = groups
    BY <1>2, GotoEffect DEF Read, server
  <2> HIDE DEF local
  <2> QED BY <2>1, <2>2 DEF DeletionOK
<1> QED BY <1>1, <1>2 DEF scan_open

LEMMA ScanNextKeeps ==
    ASSUME IInv, NEW c \in Client, scan_next(c), UNCHANGED call, DeletionOK(c),
           \A d, e \in groups : d.encname = e.encname => d = e
    PROVE  DeletionOK(c)'
<1> DEFINE local(d) == [loc[c] EXCEPT !.held = @ \cup {d},
                                      !.unread = @ \ {d.encname}]
<1>1. CASE Return(c, "bad_signature")
  BY <1>1, ReturnKeepsDeletion
<1>2. CASE \E d \in groups : Read /\ Goto(c, "scan", local(d))
  <2>1. PICK d \in groups : Read /\ Goto(c, "scan", local(d))
    BY <1>2
  <2>2. /\ local(d).held = loc[c].held \cup {d}
        /\ local(d).unread = loc[c].unread \ {d.encname}
    BY LocalType DEF LocalState
  <2>3. pc'[c] = "scan" /\ loc'[c] = local(d) /\ groups' = groups
    BY <2>1, GotoEffect DEF Read, server
  <2>4. /\ loc[c].held \subseteq groups
        /\ \A e \in groups : e \in loc[c].held \/ e.encname \in loc[c].unread
    BY DEF scan_next, DeletionOK
  <2>5. \A e \in groups : e.encname = d.encname => e = d
    OBVIOUS
  <2> HIDE DEF local
  <2> QED BY <2>2, <2>3, <2>4, <2>5 DEF DeletionOK
<1> QED BY <1>1, <1>2 DEF scan_next

LEMMA ScanEndKeeps ==
    ASSUME IInv, NEW c \in Client, scan_end(c), ~Fault,
           UNCHANGED call, DeletionOK(c)
    PROVE  DeletionOK(c)'
<1> DEFINE local == [loc[c] EXCEPT !.unread = {}]
<1>1. Read /\ \A d \in groups : d.encname \notin loc[c].unread
  BY DEF scan_end, Unread
<1>2. groups' = groups /\ loc[c].held = groups
  BY <1>1 DEF scan_end, DeletionOK, Read, server
<1>3. CASE Return(c, "empty_bulk")
  BY <1>3, ReturnKeepsDeletion
<1>4. CASE Goto(c, "bulk", local)
  <2>1. local.held = loc[c].held
    BY LocalType DEF LocalState
  <2>2. pc'[c] = "bulk" /\ loc'[c] = local
    BY <1>4, GotoEffect
  <2> HIDE DEF local
  <2> QED BY <1>2, <2>1, <2>2 DEF DeletionOK
<1> QED BY <1>3, <1>4 DEF scan_end

LEMMA BulkKeeps ==
    ASSUME IInv, NEW c \in Client, bulk_update(c), UNCHANGED call, DeletionOK(c)
    PROVE  DeletionOK(c)'
<1> DEFINE label(d) == IF loc[c].held = {d} THEN "delete_user" ELSE "bulk"
           local(d) == [loc[c] EXCEPT !.held = @ \ {d}]
<1>1. CASE \E cmds : Unanswered(c, cmds)
  BY <1>1, ReturnKeepsDeletion DEF Unanswered
<1>2. CASE \E d \in loc[c].held, n \in {0, 1} :
             Answered(bulk_command(c, d), n) /\ Goto(c, label(d), local(d))
  <2>1. PICK d \in loc[c].held, n \in {0, 1} :
             Answered(bulk_command(c, d), n) /\ Goto(c, label(d), local(d))
    BY <1>2
  <2>2. /\ loc[c].held \subseteq groups
        /\ \A e \in groups : e \in loc[c].held \/ Lacks(c, e)
    BY DEF bulk_update, DeletionOK
  <2>3. local(d).held = loc[c].held \ {d}
    BY LocalType DEF LocalState
  <2>4. pc'[c] = label(d) /\ loc'[c] = local(d)
    BY <2>1, GotoEffect
  <2> DEFINE user == salted_hash_name(call[c].user, decrypt_data(d.encname))
             p == Pulled(d, user, signature_without(d, user))
  <2>5. groups' = (groups \ {d}) \cup {p}
    <3>1. /\ bulk_command(c, d).kind = "pull_exact" /\ bulk_command(c, d).doc = d
          /\ bulk_command(c, d).user = user
          /\ bulk_command(c, d).new = signature_without(d, user)
      BY DEF bulk_command
    <3>2. ExecutePullExact(bulk_command(c, d), n)
      BY <2>1, <3>1 DEF Answered, Execute, ExecuteInsert, ExecutePush,
                        ExecutePull, ExecuteDelete, ExecuteIndex
    <3> QED BY <2>2, <3>1, <3>2 DEF ExecutePullExact, Replace
  <2>6. Lacks(c, p)
    BY <2>2, PulledName DEF Lacks
  <2>7. \A e : Lacks(c, e)' = Lacks(c, e)
    BY DEF Lacks
  <2> HIDE DEF local, p
  <2>8. local(d).held \subseteq groups'
    BY <2>2, <2>3, <2>5
  <2>9. \A e \in groups' : e \in local(d).held \/ Lacks(c, e)'
    BY <2>2, <2>3, <2>5, <2>6, <2>7
  <2> QED BY <2>3, <2>4, <2>8, <2>9 DEF DeletionOK
<1> QED BY <1>1, <1>2 DEF bulk_update

-----------------------------------------------------------------------------
(* The invariant *)

\* The steps of the call itself.
LEMMA OwnStepKeepsDeletion ==
    ASSUME IInv, NEW c \in Client, Step(c), ~Fault, DeletionOK(c),
           pc[c] = "scan_open" => loc[c].held = {},
           \A d, e \in groups : d.encname = e.encname => d = e
    PROVE  DeletionOK(c)'
<1>1. UNCHANGED call
  BY DEF Step
<1>2. CASE scan_open(c) \/ scan_next(c) \/ scan_end(c) \/ bulk_update(c)
  BY <1>1, <1>2, ScanOpenKeeps, ScanNextKeeps, ScanEndKeeps, BulkKeeps
     DEF scan_open
<1>3. CASE ~(scan_open(c) \/ scan_next(c) \/ scan_end(c) \/ bulk_update(c))
  <2>1. \/ \E s, k : ReturnKeys(c, s, k)
        \/ \E l, v : l \notin {"scan", "bulk", "delete_user"} /\ Goto(c, l, v)
    BY <1>3
       DEF Step, create_user, reencrypt_user_key, create_group, add_find,
           add_update, remove_find, remove_update, Find, delete_user,
           delete_all_users, delete_all_groups, init_users_index,
           init_groups_index, is_user_part_of_group, get_keys_of_group, ping,
           Unanswered, Retry, Return
  <2>2. pc'[c] \notin {"scan", "bulk", "delete_user"}
    BY <2>1, GotoEffect DEF ReturnKeys, IInv, ClientsOK
  <2> QED BY <2>2 DEF DeletionOK
<1> QED BY <1>2, <1>3

\* While a deletion has no rival, nobody else changes a group.
LEMMA Undisturbed ==
    ASSUME IInv, NEW c \in Client, NEW actors, c \notin actors, Watch(actors),
           rivals[c] = 0, rivals'[c] = 0, pc[c] \in {"scan", "bulk", "delete_user"}
    PROVE  groups' = groups
<1>1. call[c].op = "delete_user" /\ pc[c] \notin Idle
  BY CallOfStage DEF Idle
<1> QED BY <1>1, MongoConstants DEF Watch, Watching, Watched

\* A step of another client: it changes a group and counts as a rival, or it
\* changes nothing the deletion depends on.
LEMMA OthersKeepDeletion ==
    ASSUME IInv, NEW c \in Client, NEW actors, c \notin actors, Watch(actors),
           rivals[c] = 0, rivals'[c] = 0, DeletionOK(c),
           pc'[c] = pc[c], call'[c] = call[c], loc'[c] = loc[c]
    PROVE  DeletionOK(c)'
<1>1. CASE pc[c] \notin {"scan", "bulk", "delete_user"}
  BY <1>1 DEF DeletionOK
<1>2. CASE pc[c] \in {"scan", "bulk", "delete_user"}
  <2>1. groups' = groups
    BY <1>2, Undisturbed
  <2> QED BY <2>1 DEF DeletionOK, Lacks
<1> QED BY <1>1, <1>2

LEMMA SameKeepsDeletion ==
    ASSUME NEW c, DeletionOK(c), UNCHANGED groups, pc'[c] = pc[c],
           call'[c] = call[c], loc'[c] = loc[c]
    PROVE  DeletionOK(c)'
BY DEF DeletionOK, Lacks

\* Without a fault no command is left on its way.
LEMMA NothingInflight ==
    ASSUME IInv, NEW c \in Client, Step(c), inflight = {}, ~Fault
    PROVE  inflight' = {}
<1>1. \A cmds : ~Unanswered(c, cmds)
  BY DEF Unanswered
<1>2. UNCHANGED inflight
  BY <1>1
     DEF Step, create_user, reencrypt_user_key, create_group, add_find,
         add_update, remove_find, remove_update, Find, scan_open, scan_next,
         scan_end, bulk_update, delete_user, delete_all_users,
         delete_all_groups, init_users_index, init_groups_index,
         is_user_part_of_group, get_keys_of_group, ping, Read, Unread, server,
         Answered
<1> QED BY <1>2

LEMMA FaultsStay ==
    ASSUME IInv, NEW c \in Client, Step(c), faults' = 0 PROVE faults = 0
<1>1. UNCHANGED faults \/ Fault
  BY DEF Step, create_user, reencrypt_user_key, create_group, add_find,
         add_update, remove_find, remove_update, Find, scan_open, scan_next,
         scan_end, bulk_update, delete_user, delete_all_users,
         delete_all_groups, init_users_index, init_groups_index,
         is_user_part_of_group, get_keys_of_group, ping, Read, Unread,
         Answered, Unanswered
<1> QED BY <1>1, FaultCounts

LEMMA StepKeepsDInv ==
    ASSUME IInv, DInv, NEW c \in Client, Step(c) PROVE DInv'
<1>1. \A o \in Client \ {c} : pc'[o] = pc[o] /\ loc'[o] = loc[o]
  BY OthersUntouched
<1>2. \A o \in Client : pc'[o] \in {"idle", "scan_open"} => loc'[o].held = {}
  BY <1>1, HeldAtStart DEF DInv
<1>3. ASSUME faults' = 0
      PROVE  /\ inflight' = {}
             /\ NoncesOK(groups)'
             /\ \A o \in Client : rivals'[o] = 0 => DeletionOK(o)'
  <2>1. /\ faults = 0 /\ inflight = {} /\ NoncesOK(groups)
        /\ \A o \in Client : rivals[o] = 0 => DeletionOK(o)
    BY <1>3, FaultsStay DEF DInv
  <2>2. Watch({c}) /\ UNCHANGED call
    BY DEF Step
  <2>3. \A o \in Client : rivals'[o] = 0 => rivals[o] = 0
    BY <2>2, RivalsGrow
  <2>4. ~Fault
    BY <1>3, FaultCounts
  <2>5. rivals'[c] = 0 => DeletionOK(c)'
    BY <2>1, <2>3, <2>4, OwnStepKeepsDeletion DEF DInv, NoncesOK
  <2>6. ASSUME NEW o \in Client \ {c}, rivals'[o] = 0 PROVE DeletionOK(o)'
    BY <1>1, <2>1, <2>2, <2>3, <2>6, OthersKeepDeletion
  <2> QED BY <1>3, <2>1, <2>4, <2>5, <2>6, NothingInflight, StepKeepsNonces
<1> QED BY <1>2, <1>3 DEF DInv

LEMMA InvokeKeepsDInv ==
    ASSUME IInv, DInv, NEW c \in Client, Invoke(c) PROVE DInv'
<1>1. /\ UNCHANGED <<groups, inflight, loc, faults>> /\ pc[c] = "idle"
      /\ \A o \in Client \ {c} : /\ pc'[o] = pc[o] /\ call'[o] = call[o]
                                /\ rivals'[o] = rivals[o]
  BY DEF Invoke, IInv, ClientsOK, CountersOK
<1>2. pc'[c] \notin {"idle", "scan", "bulk", "delete_user"}
  <2>1. PICK new \in Calls : pc' = [pc EXCEPT ![c] = First[new.op]]
    BY DEF Invoke
  <2>2. new.op \in AllOps
    BY DEF Calls, AllOps, GroupUserOps
  <2> QED BY <2>1, <2>2 DEF First, AllOps, GroupUserOps, IInv, ClientsOK
<1>3. DeletionOK(c)'
  BY <1>2 DEF DeletionOK
<1>4. \A o \in Client \ {c} : DeletionOK(o) => DeletionOK(o)'
  BY <1>1, SameKeepsDeletion
<1>5. \A o \in Client : pc'[o] \in {"idle", "scan_open"} => loc'[o].held = {}
  BY <1>1 DEF DInv
<1> QED BY <1>1, <1>3, <1>4, <1>5, InvokeKeepsNonces DEF DInv

LEMMA CrashKeepsDInv ==
    ASSUME IInv, DInv, NEW c \in Client, Crash(c) PROVE DInv'
<1>1. faults' # 0
  BY FaultCounts DEF Crash
<1>2. \A o \in Client : pc'[o] \in {"idle", "scan_open"} => loc'[o].held = {}
  BY FreshOK DEF Crash, DInv, IInv, ClientsOK
<1> QED BY <1>1, <1>2 DEF DInv

LEMMA DeliverKeepsDInv ==
    ASSUME IInv, DInv, NEW cmd \in inflight, Deliver(cmd) PROVE DInv'
<1>1. faults # 0 /\ UNCHANGED <<pc, loc, faults>>
  BY DEF Deliver, DInv
<1> QED BY <1>1 DEF DInv

\* While no round trip has failed and nobody else changes a group under it, the
\* scan and the bulk of a deletion keep track of every group.
LEMMA DeletionFollowed == Spec => []DInv
<1>1. Init => DInv
  BY InitNonces, FreshOK DEF Init, DInv, DeletionOK
<1>2. IInv /\ DInv /\ [Next]_vars => DInv'
  <2>1. DInv /\ UNCHANGED vars => DInv'
    BY SameKeepsDeletion DEF DInv, vars, NoncesOK
  <2> QED
    BY <2>1, StepKeepsDInv, InvokeKeepsDInv, CrashKeepsDInv, DeliverKeepsDInv
       DEF Next, Done
<1> QED BY <1>1, <1>2, InductiveInvariant, PTL DEF Spec

\* delete_user leaves no membership behind on its own (no failed round trip, no
\* change by others from its scan on), whatever came before, and however many
\* groups there are.
THEOREM DeletionLeavesNoMember == Spec => []OutBeforeDeletion
<1>1. DInv => OutBeforeDeletion
  BY DEF DInv, DeletionOK, Lacks, OutBeforeDeletion
<1> QED BY <1>1, DeletionFollowed, PTL

-----------------------------------------------------------------------------
(* A client that is alone *)

\* Nobody but c has called anything, and nothing failed.
Solo(c) == faults = 0 /\ \A o \in Client \ {c} : seq[o] = 0

Registered(u, key) ==
    \E x \in users : x.name = hash_name(u) /\ decrypt_data(x.key) = decrypt_data(key)

Known(e, d) ==
    \E u \in User : /\ e.name = salted_hash_name(u, decrypt_data(d.encname))
                    /\ Registered(u, e.key)

\* A group is stored under its own name, and its members are stored users.
Members ==
    \A d \in groups : /\ d.name = hash_name(decrypt_data(d.encname))
                      /\ \A e \in Range(d.users) : Known(e, d)

\* The state a client that is alone finds, between any two of its round trips.
SoloOK(c) ==
    /\ rivals[c] = 0
    /\ pc[c] # "delete_groups" => Members
    /\ pc[c] \in {"insert_group", "add_find", "add_update"} =>
         Registered(call[c].user, loc[c].key)

\* A client that never called does nothing.
Untouched ==
    \A c \in Client : seq[c] = 0 => pc[c] = "idle" /\ result[c].status = "none"

\* The inductive invariant, on top of IInv and DInv.
LInv == Untouched /\ \A c \in Client : Solo(c) => SoloOK(c)

-----------------------------------------------------------------------------
(* What a write leaves of the members *)

LEMMA SameMembers == ASSUME Members, UNCHANGED <<users, groups>> PROVE Members'
BY DEF Members, Known, Registered

LEMMA KnownGrows ==
    ASSUME NEW e, NEW d, Known(e, d), users \subseteq users' PROVE Known(e, d)'
BY DEF Known, Registered

LEMMA MoreUsers ==
    ASSUME Members, UNCHANGED groups, users \subseteq users' PROVE Members'
BY KnownGrows DEF Members

\* A document whose members are those of an old one, and others that are known.
LEMMA ReplacedMembers ==
    ASSUME Members, NEW old \in groups, NEW new, Replace(old, new),
           UNCHANGED users, new.name = old.name, new.encname = old.encname,
           \A e \in Range(new.users) : e \in Range(old.users) \/ Known(e, old)
    PROVE  Members'
<1>1. \A e : Known(e, old) => Known(e, new)'
  BY DEF Known, Registered
<1>2. \A e \in Range(new.users) : Known(e, new)'
  BY <1>1 DEF Members
<1>3. \A d \in groups : \A e \in Range(d.users) : Known(e, d)'
  BY KnownGrows DEF Members
<1>4. groups' \subseteq groups \cup {new}
  BY DEF Replace
<1> QED BY <1>2, <1>3, <1>4 DEF Members

LEMMA PullKeepsMembers ==
    ASSUME IInv, Members, NEW cmd, NEW n, UNCHANGED users,
           ExecutePull(cmd, n) \/ ExecutePullExact(cmd, n)
    PROVE  Members'
<1>1. ASSUME NEW d \in groups, NEW user, NEW sig, Replace(d, Pulled(d, user, sig))
      PROVE  Members'
  <2>1. d \in GroupDoc
    BY DEF IInv, DataOK
  <2> DEFINE p == Pulled(d, user, sig)
  <2>2. /\ p.name = d.name /\ p.encname = d.encname
        /\ \A e \in Range(p.users) : e \in Range(d.users)
    <3>1. /\ p.encname = d.encname
          /\ Range(p.users) = {e \in Range(d.users) : e.name # user}
      BY <2>1, PulledMembers
    <3>2. p.name = d.name
      BY <2>1 DEF Pulled, GroupDoc
    <3> HIDE DEF p
    <3> QED BY <3>1, <3>2
  <2> HIDE DEF p
  <2>3. Replace(d, p)
    BY <1>1 DEF p
  <2> QED BY <2>2, <2>3, ReplacedMembers
<1>2. UNCHANGED groups => Members'
  BY SameMembers
<1> QED BY <1>1, <1>2 DEF ExecutePull, ExecutePullExact

-----------------------------------------------------------------------------
(* The round trips that write *)

\* A client that is alone is answered.
LEMMA AlwaysAnswered ==
    ASSUME IInv, faults' = 0, NEW c
    PROVE  ~Unread /\ \A cmds : ~Unanswered(c, cmds)
BY FaultCounts DEF Unread, Unanswered

LEMMA CreateUserMembers ==
    ASSUME IInv, Members, NEW c, create_user(c), faults' = 0 PROVE Members'
<1> DEFINE cmd == insert_user_command(c)
<1>1. PICK n : Answered(cmd, n)
  BY AlwaysAnswered DEF create_user
<1>2. cmd.kind = "insert_user"
  BY DEF insert_user_command
<1> HIDE DEF cmd
<1>3. ExecuteInsert(cmd, n)
  BY <1>1, <1>2 DEF Answered, Execute, ExecutePush, ExecutePull,
                    ExecutePullExact, ExecuteDelete, ExecuteIndex
<1>4. UNCHANGED groups /\ users \subseteq users'
  BY <1>2, <1>3 DEF ExecuteInsert
<1> QED BY <1>4, MoreUsers

LEMMA CreateGroupMembers ==
    ASSUME IInv, Members, NEW c \in Client, create_group(c), faults' = 0,
           Registered(call[c].user, loc[c].key)
    PROVE  Members' /\ UNCHANGED users
<1> DEFINE entry == new_entry(c)
           d == NewGroupDoc(call[c].group,
                            encrypt_data(call[c].group, nonce(c)), entry)
           cmd == insert_group_command(c)
<1>1. PICK n : Answered(cmd, n)
  BY AlwaysAnswered DEF create_group
<1>2. cmd.kind = "insert_group" /\ cmd.doc = d
  BY DEF insert_group_command
<1>3. /\ d.name = hash_name(call[c].group) /\ Range(d.users) = {entry}
      /\ decrypt_data(d.encname) = call[c].group
  BY OneEntry DEF NewGroupDoc, decrypt_data, encrypt_data
<1>4. call[c].user \in User
  BY CallOfStage DEF create_group, Idle
<1>5. Known(entry, d)
  BY <1>3, <1>4 DEF Known, new_entry, user_name
<1> HIDE DEF cmd, d, entry
<1>6. ExecuteInsert(cmd, n)
  BY <1>1, <1>2 DEF Answered, Execute, ExecutePush, ExecutePull,
                    ExecutePullExact, ExecuteDelete, ExecuteIndex
<1>7. UNCHANGED users /\ groups' \subseteq groups \cup {d}
  BY <1>2, <1>6 DEF ExecuteInsert
<1>8. \A x \in groups : \A e \in Range(x.users) : Known(e, x)'
  BY <1>7, KnownGrows DEF Members
<1>9. PICK stored, member : stored = d /\ member = entry
  OBVIOUS
<1>10. Known(member, stored)'
  BY <1>5, <1>7, <1>9, KnownGrows
<1>11. ASSUME NEW x \in groups'
       PROVE  /\ x.name = hash_name(decrypt_data(x.encname))
              /\ \A e \in Range(x.users) : Known(e, x)'
  BY <1>3, <1>7, <1>8, <1>9, <1>10 DEF Members
<1> QED BY <1>7, <1>11 DEF Members

LEMMA AddUpdateMembers ==
    ASSUME IInv, Members, NEW c \in Client, add_update(c), faults' = 0,
           Registered(call[c].user, loc[c].key)
    PROVE  Members' /\ UNCHANGED users
<1> DEFINE cmd(d) == push_command(c, d)
<1>1. \E h \in loc[c].held, n \in {0, 1} : Answered(cmd(h), n)
  BY AlwaysAnswered DEF add_update
<1>2. PICK h \in loc[c].held, n \in {0, 1} : Answered(cmd(h), n)
  BY <1>1
<1>3. /\ cmd(h).kind = "push" /\ cmd(h).name = group_name(c)
      /\ cmd(h).entry = new_entry(c)
  BY DEF push_command
<1> HIDE DEF cmd
<1>4. ExecutePush(cmd(h), n)
  BY <1>2, <1>3 DEF Answered, Execute, ExecuteInsert, ExecutePull,
                    ExecutePullExact, ExecuteDelete, ExecuteIndex
<1>5. UNCHANGED users
  BY <1>4 DEF ExecutePush
<1>6. CASE UNCHANGED groups
  BY <1>5, <1>6, SameMembers
<1>7. CASE \E d \in groups : /\ PushMatches(d, cmd(h))
                             /\ Replace(d, Pushed(d, cmd(h).entry, cmd(h).new))
  <2>1. PICK d \in groups : /\ PushMatches(d, cmd(h))
                            /\ Replace(d, Pushed(d, cmd(h).entry, cmd(h).new))
    BY <1>7
  <2> DEFINE p == Pushed(d, cmd(h).entry, cmd(h).new)
  <2>2. /\ p.name = d.name /\ p.encname = d.encname
        /\ Range(p.users) = Range(d.users) \cup {new_entry(c)}
    <3>1. d \in GroupDoc
      BY DEF IInv, DataOK
    <3>2. new_entry(c) \in Entry
      BY EntryOK DEF add_update
    <3> QED BY <1>3, <3>1, <3>2, PushedMembers
  <2>3. decrypt_data(d.encname) = call[c].group
    BY <1>3, <2>1 DEF PushMatches, AddMatches, Members, group_name, hash_name
  <2>4. call[c].user \in User
    BY CallOfStage DEF add_update, Idle
  <2>5. Known(new_entry(c), d)
    BY <2>3, <2>4 DEF Known, new_entry, user_name
  <2> HIDE DEF p
  <2>6. Replace(d, p)
    BY <2>1 DEF p
  <2>7. \A e \in Range(p.users) : e \in Range(d.users) \/ Known(e, d)
    BY <2>2, <2>5
  <2> QED BY <1>5, <2>2, <2>6, <2>7, ReplacedMembers
<1> QED BY <1>4, <1>5, <1>6, <1>7 DEF ExecutePush

LEMMA RemoveUpdateMembers ==
    ASSUME IInv, Members, NEW c, remove_update(c), faults' = 0 PROVE Members'
<1> DEFINE cmd(d) == pull_command(c, d)
<1>1. \E h \in loc[c].held, n \in {0, 1} : Answered(cmd(h), n)
  BY AlwaysAnswered DEF remove_update
<1>2. PICK h \in loc[c].held, n \in {0, 1} : Answered(cmd(h), n)
  BY <1>1
<1>3. cmd(h).kind = "pull"
  BY DEF pull_command
<1> HIDE DEF cmd
<1>4. ExecutePull(cmd(h), n)
  BY <1>2, <1>3 DEF Answered, Execute, ExecuteInsert, ExecutePush,
                    ExecutePullExact, ExecuteDelete, ExecuteIndex
<1> QED BY <1>4, PullKeepsMembers DEF ExecutePull

LEMMA BulkMembers ==
    ASSUME IInv, Members, NEW c, bulk_update(c), faults' = 0 PROVE Members'
<1>1. \E d \in loc[c].held, n \in {0, 1} : Answered(bulk_command(c, d), n)
  BY AlwaysAnswered DEF bulk_update
<1>2. PICK d \in loc[c].held, n \in {0, 1} : Answered(bulk_command(c, d), n)
  BY <1>1
<1>3. bulk_command(c, d).kind = "pull_exact"
  BY DEF bulk_command
<1>4. ExecutePullExact(bulk_command(c, d), n)
  BY <1>2, <1>3 DEF Answered, Execute, ExecuteInsert, ExecutePush,
                    ExecutePull, ExecuteDelete, ExecuteIndex
<1> QED BY <1>4, PullKeepsMembers DEF ExecutePullExact

\* The user who is deleted is in no group: the members are other users.
LEMMA DeleteUserMembers ==
    ASSUME IInv, Members, NEW c, delete_user(c), faults' = 0,
           \A d \in groups : Lacks(c, d)
    PROVE  Members'
<1> DEFINE cmd == delete_user_command(c)
<1>1. Answered(cmd, 1)
  BY AlwaysAnswered DEF delete_user
<1>2. cmd.kind = "delete_user" /\ cmd.name = hash_name(call[c].user)
  BY DEF delete_user_command
<1> HIDE DEF cmd
<1>3. ExecuteDelete(cmd, 1)
  BY <1>1, <1>2 DEF Answered, Execute, ExecuteInsert, ExecutePush, ExecutePull,
                    ExecutePullExact, ExecuteIndex
<1>4. /\ UNCHANGED groups
      /\ \A x \in users : x.name = hash_name(call[c].user) \/ x \in users'
  BY <1>2, <1>3 DEF ExecuteDelete
<1>5. ASSUME NEW d \in groups, NEW e \in Range(d.users) PROVE Known(e, d)'
  <2>1. PICK u \in User : /\ e.name = salted_hash_name(u, decrypt_data(d.encname))
                          /\ Registered(u, e.key)
    BY DEF Members, Known
  <2>2. u # call[c].user
    BY <2>1 DEF Lacks, HasUser
  <2>3. Registered(u, e.key)'
    BY <1>4, <2>1, <2>2 DEF Registered, hash_name
  <2> QED BY <2>1, <2>3 DEF Known
<1> QED BY <1>4, <1>5 DEF Members

LEMMA DeleteAllMembers ==
    ASSUME IInv, NEW c \in Client, faults' = 0
    PROVE  /\ delete_all_users(c) => pc'[c] = "delete_groups"
           /\ delete_all_groups(c) => Members'
<1>1. ASSUME delete_all_users(c) PROVE pc'[c] = "delete_groups"
  BY <1>1, AlwaysAnswered, GotoEffect DEF delete_all_users
<1>2. ASSUME delete_all_groups(c) PROVE Members'
  <2> DEFINE cmd == [kind |-> "delete_groups"]
  <2>1. Answered(cmd, 1)
    BY <1>2, AlwaysAnswered DEF delete_all_groups
  <2>2. cmd.kind = "delete_groups"
    OBVIOUS
  <2> HIDE DEF cmd
  <2>3. groups' = {}
    BY <2>1, <2>2 DEF Answered, Execute, ExecuteInsert, ExecutePush,
       ExecutePull, ExecutePullExact, ExecuteDelete, ExecuteIndex
  <2> QED BY <2>3 DEF Members
<1> QED BY <1>1, <1>2

\* The round trips that leave both collections alone.
LEMMA QuietStep ==
    ASSUME IInv, NEW c, faults' = 0,
           \/ reencrypt_user_key(c) \/ add_find(c) \/ remove_find(c)
           \/ scan_open(c) \/ scan_next(c) \/ scan_end(c)
           \/ init_users_index(c) \/ init_groups_index(c)
           \/ is_user_part_of_group(c) \/ get_keys_of_group(c) \/ ping(c)
    PROVE  UNCHANGED <<users, groups>>
<1>1. CASE init_users_index(c) \/ init_groups_index(c)
  <2> DEFINE cmd(on) == [kind |-> "create_index", on |-> on]
  <2>1. PICK on, n : Answered(cmd(on), n)
    BY <1>1, AlwaysAnswered DEF init_users_index, init_groups_index
  <2>2. cmd(on).kind = "create_index"
    OBVIOUS
  <2> HIDE DEF cmd
  <2> QED BY <2>1, <2>2 DEF Answered, Execute, ExecuteInsert, ExecutePush,
          ExecutePull, ExecutePullExact, ExecuteDelete, ExecuteIndex
<1>2. CASE ~(init_users_index(c) \/ init_groups_index(c))
  BY <1>2 DEF reencrypt_user_key, add_find, remove_find, Find, scan_open,
     scan_next, scan_end, is_user_part_of_group, get_keys_of_group, ping, Read,
     Unread, server
<1> QED BY <1>1, <1>2

-----------------------------------------------------------------------------
(* The round trips of a client that is alone *)

LEMMA StepMembers ==
    ASSUME IInv, NEW c \in Client, Step(c), faults' = 0, SoloOK(c), DeletionOK(c)
    PROVE  pc'[c] = "delete_groups" \/ Members'
<1>1. CASE pc[c] = "delete_groups"
  <2>1. delete_all_groups(c)
    BY <1>1 DEF Step, create_user, reencrypt_user_key, create_group, add_find,
       add_update, remove_find, remove_update, scan_open, scan_next, scan_end,
       bulk_update, delete_user, delete_all_users, init_users_index,
       init_groups_index, is_user_part_of_group, get_keys_of_group, ping
  <2> QED BY <2>1, DeleteAllMembers
<1>2. CASE pc[c] # "delete_groups"
  <2>1. Members
    BY <1>2 DEF SoloOK
  <2>2. create_group(c) => Members'
    BY <2>1, CreateGroupMembers DEF SoloOK, create_group
  <2>3. add_update(c) => Members'
    BY <2>1, AddUpdateMembers DEF SoloOK, add_update
  <2>4. delete_user(c) => Members'
    BY <2>1, DeleteUserMembers DEF DeletionOK, delete_user
  <2> QED BY <2>1, <2>2, <2>3, <2>4, CreateUserMembers, RemoveUpdateMembers,
             BulkMembers, DeleteAllMembers, QuietStep, SameMembers DEF Step
<1> QED BY <1>1, <1>2

\* The key a call re-encrypted stays that of its user until the group has it.
LEMMA StepRegistered ==
    ASSUME IInv, NEW c \in Client, Step(c), faults' = 0, SoloOK(c),
           pc'[c] \in {"insert_group", "add_find", "add_update"}
    PROVE  Registered(call[c].user, loc[c].key)'
<1>1. \A s, k : ReturnKeys(c, s, k) => pc'[c] = "idle"
  BY DEF ReturnKeys, IInv, ClientsOK
<1>2. \A l, v : Goto(c, l, v) => pc'[c] = l
  BY GotoEffect
<1>3. reencrypt_user_key(c) \/ create_group(c) \/ add_find(c) \/ add_update(c)
  <2>1. ~(remove_find(c) \/ remove_update(c))
    BY <1>1, <1>2 DEF remove_find, remove_update, Find, Unanswered, Retry, Return
  <2>2. ~(scan_open(c) \/ scan_next(c) \/ scan_end(c) \/ bulk_update(c))
    BY <1>1, <1>2 DEF scan_open, scan_next, scan_end, bulk_update, Unanswered,
                      Return
  <2>3. ~(create_user(c) \/ delete_user(c) \/ delete_all_users(c)
            \/ delete_all_groups(c) \/ init_users_index(c)
            \/ init_groups_index(c))
    BY <1>1, <1>2 DEF create_user, delete_user, delete_all_users,
       delete_all_groups, init_users_index, init_groups_index, Unanswered, Return
  <2>4. ~(is_user_part_of_group(c) \/ get_keys_of_group(c) \/ ping(c))
    BY <1>1, <1>2 DEF is_user_part_of_group, get_keys_of_group, ping, Return
  <2> QED BY <2>1, <2>2, <2>3, <2>4 DEF Step
<1>4. UNCHANGED call
  BY DEF Step
<1>5. CASE reencrypt_user_key(c)
  <2>1. UNCHANGED users
    BY <1>5, QuietStep
  <2> DEFINE key(d) == encrypt_data(decrypt_data(d.key), nonce(c))
             local(d) == [loc[c] EXCEPT !.key = key(d)]
  <2>2. \E d \in users : /\ d.name = hash_name(call[c].user)
                         /\ loc'[c] = local(d)
    BY <1>1, <1>5, GotoEffect DEF reencrypt_user_key, Return
  <2>3. PICK d \in users : d.name = hash_name(call[c].user) /\ loc'[c] = local(d)
    BY <2>2
  <2>4. local(d).key = key(d)
    BY LocalType DEF LocalState
  <2>5. decrypt_data(loc'[c].key) = decrypt_data(d.key)
    BY <2>3, <2>4 DEF decrypt_data, encrypt_data
  <2> QED BY <1>4, <2>1, <2>3, <2>5 DEF Registered
<1>6. CASE create_group(c) \/ add_find(c) \/ add_update(c)
  <2>1. pc[c] \in {"insert_group", "add_find", "add_update"}
    BY <1>6 DEF create_group, add_find, add_update
  <2>2. Members /\ Registered(call[c].user, loc[c].key)
    BY <2>1 DEF SoloOK
  <2>3. UNCHANGED users
    BY <1>6, <2>2, CreateGroupMembers, AddUpdateMembers, QuietStep
  <2>4. loc'[c].key = loc[c].key
    <3>1. \/ Goto(c, "add_find", loc[c])
          \/ \E l, d : Goto(c, l, [loc[c] EXCEPT !.held = {d}])
          \/ \E l : Goto(c, l, [loc[c] EXCEPT !.held = {}, !.attempts = @ - 1])
      BY <1>1, <1>6 DEF create_group, add_find, Find, add_update, Unanswered,
                        Retry, Return
    <3>2. loc[c] \in LocalState
      BY LocalType
    <3>3. \A l, v : Goto(c, l, v) => loc'[c] = v
      BY GotoEffect
    <3>4. CASE \E l : Goto(c, l, [loc[c] EXCEPT !.held = {}, !.attempts = @ - 1])
      BY <3>2, <3>3, <3>4 DEF LocalState
    <3>5. CASE \E l, d : Goto(c, l, [loc[c] EXCEPT !.held = {d}])
      BY <3>2, <3>3, <3>5 DEF LocalState
    <3> QED BY <3>1, <3>3, <3>4, <3>5
  <2> QED BY <1>4, <2>2, <2>3, <2>4 DEF Registered
<1> QED BY <1>3, <1>5, <1>6

LEMMA StepKeepsSolo ==
    ASSUME IInv, NEW c \in Client, Step(c), faults' = 0, SoloOK(c), DeletionOK(c)
    PROVE  SoloOK(c)'
<1>1. rivals'[c] = 0
  BY RivalsGrow DEF Step, SoloOK
<1> QED BY <1>1, StepMembers, StepRegistered DEF SoloOK

-----------------------------------------------------------------------------
(* The invariant *)

\* A client does a round trip only in a call, and it is in one only if it called.
LEMMA StepCalled ==
    ASSUME IInv, Untouched, NEW c \in Client, Step(c) \/ Crash(c)
    PROVE  seq[c] # 0
<1>1. pc[c] # "idle"
  BY DEF Step, create_user, reencrypt_user_key, create_group, add_find,
     add_update, remove_find, remove_update, scan_open, scan_next, scan_end,
     bulk_update, delete_user, delete_all_users, delete_all_groups,
     init_users_index, init_groups_index, is_user_part_of_group,
     get_keys_of_group, ping, Crash, Idle
<1> QED BY <1>1 DEF Untouched

LEMMA StepKeepsUntouched ==
    ASSUME IInv, Untouched, NEW c \in Client, Step(c) PROVE Untouched'
<1>1. seq[c] # 0 /\ UNCHANGED seq
  BY StepCalled DEF Step
<1> QED BY <1>1, OthersUntouched DEF Untouched

LEMMA InvokeKeepsUntouched ==
    ASSUME IInv, Untouched, NEW c \in Client, Invoke(c) PROVE Untouched'
<1>1. /\ seq[c] \in Nat /\ seq'[c] = seq[c] + 1
      /\ \A o \in Client \ {c} : /\ pc'[o] = pc[o] /\ seq'[o] = seq[o]
                                /\ result'[o] = result[o]
  BY MongoConstants DEF Invoke, IInv, ClientsOK, CountersOK
<1> QED BY <1>1 DEF Untouched

LEMMA CrashKeepsUntouched ==
    ASSUME IInv, Untouched, NEW c \in Client, Crash(c) PROVE Untouched'
<1>1. /\ seq[c] # 0 /\ UNCHANGED seq
      /\ \A o \in Client \ {c} : pc'[o] = pc[o] /\ result'[o] = result[o]
  BY StepCalled DEF Crash, IInv, ClientsOK
<1> QED BY <1>1 DEF Untouched

\* A client that is alone after the step of another was no client at all.
LEMMA NobodyElse ==
    ASSUME IInv, Untouched, NEW c \in Client, Step(c), NEW o \in Client, Solo(o)'
    PROVE  o = c /\ Solo(c)
<1>1. seq[c] # 0 /\ UNCHANGED seq
  BY StepCalled DEF Step
<1>2. o = c
  BY <1>1 DEF Solo
<1>3. faults = 0
  BY FaultsStay DEF Solo
<1> QED BY <1>1, <1>2, <1>3 DEF Solo

LEMMA NobodyElseCalls ==
    ASSUME IInv, NEW c \in Client, Invoke(c), NEW o \in Client, Solo(o)'
    PROVE  o = c /\ Solo(c)
<1>1. /\ seq[c] \in Nat /\ seq'[c] = seq[c] + 1 /\ UNCHANGED faults
      /\ \A x \in Client \ {c} : seq'[x] = seq[x]
  BY MongoConstants DEF Invoke, IInv, CountersOK
<1> QED BY <1>1 DEF Solo

LEMMA StepKeepsLInv ==
    ASSUME IInv, DInv, LInv, NEW c \in Client, Step(c) PROVE LInv'
<1>1. ASSUME NEW o \in Client, Solo(o)' PROVE SoloOK(o)'
  <2>1. o = c /\ Solo(c) /\ faults' = 0
    BY <1>1, NobodyElse DEF LInv, Solo
  <2>2. SoloOK(c) /\ DeletionOK(c)
    BY <2>1 DEF LInv, DInv, Solo, SoloOK
  <2> QED BY <2>1, <2>2, StepKeepsSolo
<1> QED BY <1>1, StepKeepsUntouched DEF LInv

LEMMA InvokeKeepsSolo ==
    ASSUME IInv, NEW c \in Client, Invoke(c), SoloOK(c) PROVE SoloOK(c)'
<1>1. UNCHANGED <<users, groups>> /\ rivals'[c] = 0 /\ pc[c] = "idle"
  BY DEF Invoke, IInv, CountersOK
<1>2. pc'[c] \notin {"delete_groups", "insert_group", "add_find", "add_update"}
  <2>1. PICK new \in Calls : pc' = [pc EXCEPT ![c] = First[new.op]]
    BY DEF Invoke
  <2>2. new.op \in AllOps
    BY DEF Calls, AllOps, GroupUserOps
  <2> QED BY <2>1, <2>2 DEF First, AllOps, GroupUserOps, IInv, ClientsOK
<1> QED BY <1>1, <1>2, SameMembers DEF SoloOK

LEMMA InvokeKeepsLInv ==
    ASSUME IInv, LInv, NEW c \in Client, Invoke(c) PROVE LInv'
BY NobodyElseCalls, InvokeKeepsSolo, InvokeKeepsUntouched DEF LInv

LEMMA CrashKeepsLInv ==
    ASSUME IInv, LInv, NEW c \in Client, Crash(c) PROVE LInv'
<1>1. faults' # 0
  BY FaultCounts DEF Crash
<1> QED BY <1>1, CrashKeepsUntouched DEF LInv, Solo

LEMMA DeliverKeepsLInv ==
    ASSUME IInv, DInv, LInv, NEW cmd \in inflight, Deliver(cmd) PROVE LInv'
<1>1. faults # 0 /\ UNCHANGED <<pc, seq, result, faults>>
  BY DEF Deliver, DInv
<1> QED BY <1>1 DEF LInv, Solo, Untouched

LEMMA StutterKeepsLInv == ASSUME LInv, UNCHANGED vars PROVE LInv'
BY SameMembers DEF LInv, Solo, SoloOK, Untouched, Registered, vars

LEMMA InitLInv == ASSUME Init PROVE LInv
<1>1. ASSUME NEW g \in DOMAIN InitialMembers
      PROVE  /\ StoredGroup(g).name = hash_name(decrypt_data(StoredGroup(g).encname))
             /\ \A e \in Range(StoredGroup(g).users) : Known(e, StoredGroup(g))
  <2>1. /\ StoredGroup(g).name = hash_name(g)
        /\ decrypt_data(StoredGroup(g).encname) = g
        /\ StoredGroup(g).users = [i \in DOMAIN InitialMembers[g] |->
                                     StoredEntry(InitialMembers[g][i], g)]
    BY DEF StoredGroup, decrypt_data, encrypt_data
  <2>2. ASSUME NEW u \in DOMAIN RegisteredKey
        PROVE  Known(StoredEntry(u, g), StoredGroup(g))
    <3>1. u \in User
      BY MongoConstants
    <3>2. StoredUser(u) \in users
      BY <3>1 DEF Init
    <3>3. /\ StoredUser(u).name = hash_name(u)
          /\ decrypt_data(StoredUser(u).key) = RegisteredKey[u]
      BY DEF StoredUser, NewUserDoc, decrypt_data, encrypt_data
    <3>4. /\ StoredEntry(u, g).name = salted_hash_name(u, g)
          /\ decrypt_data(StoredEntry(u, g).key) = RegisteredKey[u]
      BY DEF StoredEntry, decrypt_data, encrypt_data
    <3> QED BY <2>1, <3>1, <3>2, <3>3, <3>4 DEF Known, Registered
  <2>3. \A i \in DOMAIN InitialMembers[g] :
          InitialMembers[g][i] \in DOMAIN RegisteredKey
    <3>1. InitialMembers[g] \in Seq(DOMAIN RegisteredKey)
      BY MongoConstants
    <3> QED BY <3>1
  <2>4. \A e \in Range(StoredGroup(g).users) :
          \E i \in DOMAIN InitialMembers[g] : e = StoredEntry(InitialMembers[g][i], g)
    BY <2>1 DEF Range
  <2> QED BY <2>1, <2>2, <2>3, <2>4
<1>2. Members
  BY <1>1 DEF Init, Members
<1> QED BY <1>2 DEF Init, LInv, Untouched, SoloOK

\* Between any two round trips of a client that is alone, the groups have the
\* members and the keys SoloOK says.
THEOREM OneCaller == Spec => []LInv
<1>1. IInv /\ DInv /\ LInv /\ [Next]_vars => LInv'
  BY StepKeepsLInv, InvokeKeepsLInv, CrashKeepsLInv, DeliverKeepsLInv,
     StutterKeepsLInv DEF Next, Done
<1> QED BY <1>1, InitLInv, InductiveInvariant, DeletionFollowed, PTL DEF Spec

\* A client that is the only one, on a network that never fails, is alone.
LEMMA OnlyClient ==
    ASSUME IInv, MaxFaults = 0, NEW me, Client = {me} PROVE Solo(me)
BY DEF IInv, CountersOK, Solo

\* Creations, deletions and re-creations of users and groups leave no orphan and
\* no old key in any group, at no round trip of a call except the second one of
\* delete_all_data, however many users, groups and calls there are.
THEOREM MembersStayRegistered ==
    ASSUME MaxFaults = 0, NEW me, Client = {me}
    PROVE  Spec => []MembersRegistered
<1>1. IInv /\ LInv => MembersRegistered
  <2> SUFFICES ASSUME IInv, LInv, \A c \in Client : pc[c] # "delete_groups"
               PROVE  \A d \in groups : \A e \in Range(d.users) : Known(e, d)
    BY DEF MembersRegistered, Known, Registered
  <2> QED BY OnlyClient DEF LInv, SoloOK, Members
<1> QED BY <1>1, InductiveInvariant, OneCaller, PTL

-----------------------------------------------------------------------------
(* What get_keys_of_group read *)

\* An index that exists is one of documents with different names.
IndexesOK == /\ "users" \in indexed => Unique(users)
             /\ "groups" \in indexed => Unique(groups)

\* The keys of the stored users who are in the group a client asked for.
KeysOf(c) ==
    {decrypt_data(x.key) : x \in {y \in users : \E d \in groups :
        /\ d.name = group_name(c)
        /\ HasUser(d, salted_hash_name(y.name[1], call[c].group))}}

KeysRead(c) ==
    /\ pc[c] = "idle" /\ result[c].status = "ok" /\ indexed = Collection
    /\ call[c].op = "get_keys_of_group"
    => result[c].keys = KeysOf(c)

KeysInv == IndexesOK /\ \A c \in Client : Solo(c) => KeysRead(c)

LEMMA ExecuteIndexes ==
    ASSUME DataOK, IndexesOK, NEW cmd, NEW n, Execute(cmd, n) PROVE IndexesOK'
<1>1. "users" \in indexed' => Unique(users)'
  BY DEF IndexesOK, Execute, ExecuteInsert, ExecutePush, ExecutePull,
         ExecutePullExact, ExecuteDelete, ExecuteIndex, Admits, Unique
<1>2. "groups" \in indexed' => Unique(groups)'
  <2>1. CASE "groups" \in indexed
    BY <2>1, ExecuteUnique DEF IndexesOK, GroupsUnique
  <2>2. CASE "groups" \notin indexed
    BY <2>2 DEF Execute, ExecuteInsert, ExecutePush, ExecutePull,
                ExecutePullExact, ExecuteDelete, ExecuteIndex, Unique
  <2> QED BY <2>1, <2>2
<1> QED BY <1>1, <1>2 DEF IndexesOK

LEMMA StepIndexes ==
    ASSUME IInv, IndexesOK, NEW c \in Client, Step(c) PROVE IndexesOK'
<1>1. \/ UNCHANGED <<users, groups, indexed>>
      \/ \E cmd, n : Execute(cmd, n)
  BY DEF Step, create_user, reencrypt_user_key, create_group, add_find,
         add_update, remove_find, remove_update, Find, scan_open, scan_next,
         scan_end, bulk_update, delete_user, delete_all_users,
         delete_all_groups, init_users_index, init_groups_index,
         is_user_part_of_group, get_keys_of_group, ping, Read, Unread, server,
         Answered, Unanswered, data
<1>2. CASE UNCHANGED <<users, groups, indexed>>
  BY <1>2 DEF IndexesOK, Unique
<1> QED BY <1>1, <1>2, ExecuteIndexes DEF IInv

\* The keys of a group's entries are those of the users who are in it: each
\* entry belongs to one stored user, and each user in the group has an entry.
LEMMA KeysOfGroup ==
    ASSUME IInv, Members, IndexesOK, indexed = Collection, NEW c,
           NEW d \in groups, d.name = group_name(c)
    PROVE  {decrypt_data(e.key) : e \in Range(d.users)} = KeysOf(c)
<1>1. Unique(users) /\ Unique(groups)
  BY DEF IndexesOK, Collection
<1>2. \A x \in groups : x.name = group_name(c) => x = d
  BY <1>1 DEF Unique
<1>3. decrypt_data(d.encname) = call[c].group
  BY DEF Members, group_name, hash_name
<1>4. \A x \in users : x.name = hash_name(x.name[1])
  BY DEF IInv, DataOK, UserDoc, hash_name
<1>5. ASSUME NEW e \in Range(d.users)
      PROVE  \E x \in users :
               /\ HasUser(d, salted_hash_name(x.name[1], call[c].group))
               /\ decrypt_data(x.key) = decrypt_data(e.key)
  <2>1. PICK u \in User, x \in users :
          /\ e.name = salted_hash_name(u, call[c].group)
          /\ x.name = hash_name(u) /\ decrypt_data(x.key) = decrypt_data(e.key)
    BY <1>3 DEF Members, Known, Registered
  <2>2. x.name[1] = u
    BY <2>1 DEF hash_name
  <2> QED BY <2>1, <2>2 DEF HasUser
<1>6. ASSUME NEW x \in users,
             HasUser(d, salted_hash_name(x.name[1], call[c].group))
      PROVE  \E e \in Range(d.users) : decrypt_data(e.key) = decrypt_data(x.key)
  <2>1. PICK e \in Range(d.users) : e.name = salted_hash_name(x.name[1], call[c].group)
    BY <1>6 DEF HasUser
  <2>2. PICK u \in User, y \in users :
          /\ e.name = salted_hash_name(u, call[c].group)
          /\ y.name = hash_name(u) /\ decrypt_data(y.key) = decrypt_data(e.key)
    BY <1>3 DEF Members, Known, Registered
  <2>3. u = x.name[1]
    BY <2>1, <2>2 DEF salted_hash_name
  <2>4. x = y
    BY <1>1, <1>4, <2>2, <2>3 DEF Unique
  <2> QED BY <2>2, <2>4
<1> QED BY <1>2, <1>5, <1>6 DEF KeysOf

LEMMA GetKeysReads ==
    ASSUME IInv, Members, IndexesOK, NEW c \in Client, get_keys_of_group(c),
           UNCHANGED call, faults' = 0
    PROVE  KeysRead(c)'
<1>1. UNCHANGED <<users, groups, indexed>>
  BY DEF get_keys_of_group, Read, Unread, server
<1>2. KeysOf(c)' = KeysOf(c)
  BY <1>1 DEF KeysOf, group_name
<1>3. \A s, k : ReturnKeys(c, s, k) => result'[c].status = s /\ result'[c].keys = k
  BY DEF ReturnKeys, IInv, ClientsOK
<1>4. \/ \E s \in Statuses \ {"ok"} : ReturnKeys(c, s, {})
      \/ \E d \in groups :
           /\ d.name = group_name(c)
           /\ ReturnKeys(c, "ok", {decrypt_data(e.key) : e \in Range(d.users)})
  BY AlwaysAnswered DEF get_keys_of_group, Return, Statuses
<1>5. CASE \E s \in Statuses \ {"ok"} : ReturnKeys(c, s, {})
  BY <1>3, <1>5 DEF KeysRead
<1>6. ASSUME NEW d \in groups, d.name = group_name(c), indexed' = Collection,
             ReturnKeys(c, "ok", {decrypt_data(e.key) : e \in Range(d.users)})
      PROVE  result'[c].keys = KeysOf(c)
  <2>1. PICK keys : keys = {decrypt_data(e.key) : e \in Range(d.users)}
    OBVIOUS
  <2>2. keys = KeysOf(c)
    BY <1>1, <1>6, <2>1, KeysOfGroup
  <2>3. ReturnKeys(c, "ok", keys)
    BY <1>6, <2>1
  <2> QED BY <1>3, <2>2, <2>3
<1> QED BY <1>2, <1>4, <1>5, <1>6 DEF KeysRead

\* A client that called get_keys_of_group does no other round trip.
LEMMA LastRoundTrip ==
    ASSUME IInv, NEW c \in Client, Step(c)
    PROVE  call[c].op = "get_keys_of_group" => get_keys_of_group(c)
<1>1. pc[c] \notin Idle
  BY DEF Step, create_user, reencrypt_user_key, create_group, add_find,
     add_update, remove_find, remove_update, scan_open, scan_next, scan_end,
     bulk_update, delete_user, delete_all_users, delete_all_groups,
     init_users_index, init_groups_index, is_user_part_of_group,
     get_keys_of_group, ping, Idle
<1>2. call[c].op = "get_keys_of_group" => pc[c] = "get_keys"
  BY <1>1, CallOfStage DEF Stages
<1> QED BY <1>2
        DEF Step, create_user, reencrypt_user_key, create_group, add_find,
            add_update, remove_find, remove_update, scan_open, scan_next,
            scan_end, bulk_update, delete_user, delete_all_users,
            delete_all_groups, init_users_index, init_groups_index,
            is_user_part_of_group, get_keys_of_group, ping

LEMMA StepKeepsKeys ==
    ASSUME IInv, LInv, KeysInv, NEW c \in Client, Step(c) PROVE KeysInv'
<1>1. ASSUME NEW o \in Client, Solo(o)' PROVE KeysRead(o)'
  <2>1. o = c /\ Solo(c) /\ faults' = 0 /\ UNCHANGED call
    BY <1>1, NobodyElse DEF LInv, Solo, Step
  <2>2. CASE call[c].op = "get_keys_of_group"
    <3>1. get_keys_of_group(c)
      BY <2>2, LastRoundTrip
    <3>2. Members
      BY <2>1, <3>1 DEF LInv, SoloOK, get_keys_of_group
    <3> QED BY <2>1, <3>1, <3>2, GetKeysReads DEF KeysInv
  <2> QED BY <2>1, <2>2 DEF KeysRead
<1> QED BY <1>1, StepIndexes DEF KeysInv

LEMMA InvokeKeepsKeys ==
    ASSUME IInv, KeysInv, NEW c \in Client, Invoke(c) PROVE KeysInv'
<1>1. result'[c].status = "none" /\ UNCHANGED <<users, groups, indexed>>
  BY DEF Invoke, IInv, ClientsOK
<1>2. IndexesOK'
  BY <1>1 DEF KeysInv, IndexesOK, Unique
<1> QED BY <1>1, <1>2, NobodyElseCalls DEF KeysInv, KeysRead

LEMMA FaultsKeepKeys ==
    ASSUME IInv, DInv, KeysInv,
           \/ \E c \in Client : Crash(c)
           \/ \E cmd \in inflight : Deliver(cmd)
    PROVE  KeysInv'
<1>1. faults' # 0
  BY FaultCounts DEF Crash, Deliver, DInv
<1>2. IndexesOK'
  <2>1. CASE \E c \in Client : Crash(c)
    BY <2>1 DEF Crash, KeysInv, IndexesOK, Unique
  <2>2. CASE \E cmd \in inflight : Deliver(cmd)
    BY <2>2, ExecuteIndexes DEF Deliver, IInv, KeysInv
  <2> QED BY <2>1, <2>2
<1> QED BY <1>1, <1>2 DEF KeysInv, Solo

LEMMA StutterKeepsKeys == ASSUME KeysInv, UNCHANGED vars PROVE KeysInv'
BY DEF KeysInv, IndexesOK, Unique, Solo, KeysRead, KeysOf, group_name, vars

LEMMA InitKeys == ASSUME Init PROVE KeysInv
<1>1. Unique(users)
  <2>1. \A u \in DOMAIN RegisteredKey : StoredUser(u).name = <<u>>
    BY DEF StoredUser, NewUserDoc, hash_name
  <2> QED BY <2>1 DEF Init, Unique
<1>2. Unique(groups)
  <2>1. \A g \in DOMAIN InitialMembers : StoredGroup(g).name = <<g>>
    BY DEF StoredGroup, hash_name
  <2> QED BY <2>1 DEF Init, Unique
<1> QED BY <1>1, <1>2 DEF Init, KeysInv, IndexesOK, KeysRead

\* Once both unique indexes exist, get_keys_of_group returns the keys create_user
\* was given for the users who are in the group, whatever was called before:
\* also before the indexes were created.
THEOREM KeysReadBack ==
    ASSUME MaxFaults = 0, NEW me, Client = {me}
    PROVE  Spec => []KeysMatchUsers
<1>1. IInv /\ DInv /\ LInv /\ KeysInv /\ [Next]_vars => KeysInv'
  BY StepKeepsKeys, InvokeKeepsKeys, FaultsKeepKeys, StutterKeepsKeys
     DEF Next, Done
<1>2. IInv /\ KeysInv => KeysMatchUsers
  BY OnlyClient DEF KeysInv, KeysRead, KeysOf, KeysMatchUsers
<1> QED BY <1>1, <1>2, InitKeys, InductiveInvariant, DeletionFollowed,
           OneCaller, PTL DEF Spec

=============================================================================

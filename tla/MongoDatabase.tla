--------------------------- MODULE MongoDatabase ----------------------------
(***************************************************************************)
(* MongoDatabase.cpp: several clients, each with one MongoDatabase object  *)
(* and one call at a time, over the two collections they share.            *)
(*                                                                         *)
(* A call is a sequence of round trips to the server; other clients run    *)
(* between any two of them, so each round trip is an action and a program  *)
(* counter says which comes next.  The server executes one command         *)
(* atomically.  A round trip may fail: a read then ends like a read that   *)
(* found nothing, which is all mongoc_cursor_next tells its caller, and a  *)
(* write command whose answer is lost may execute later, or never.  Reads  *)
(* see the primary's data.                                                 *)
(***************************************************************************)
EXTENDS MongoDocuments

CONSTANTS
    None,            \* no value
    Ops,             \* the operations the clients call
    MaxAttempts,     \* "attempts" of the two retry loops, 10 in the code
    CountWidth,      \* bits of the "matchedCount" libmongoc reports: 32 or 64
    MaxCalls,        \* bound: calls each client makes
    MaxFaults,       \* bound: round trips and processes that fail
    RegisteredKey,   \* the users stored at the start and their keys
    InitialMembers,  \* the groups stored at the start and their members in order
    InitialIndexes   \* the collections whose unique index exists already

GroupUserOps == {"add_user_to_group", "remove_user_from_group",
                 "create_group", "is_user_part_of_group"}

AllOps == GroupUserOps \cup {"delete_user", "create_user", "get_keys_of_group",
                             "delete_all_data", "init_indexes", "ping"}

\* A call: the operation and its arguments.
Calls ==
    [op : GroupUserOps, group : Group, user : User]
      \cup [op : {"delete_user"}, user : User]
      \cup [op : {"create_user"}, user : User, key : Key]
      \cup [op : {"get_keys_of_group"}, group : Group]
      \cup [op : {"delete_all_data", "init_indexes", "ping"}]

Collection == {"users", "groups"}

ASSUME MongoConstants ==
    /\ None \notin Calls \cup KeyCipher
    /\ Ops \subseteq AllOps
    /\ MaxAttempts \in Nat \ {0}
    /\ CountWidth \in {32, 64}
    /\ MaxCalls \in Nat /\ MaxFaults \in Nat
    /\ DOMAIN RegisteredKey \subseteq User
    /\ RegisteredKey \in [DOMAIN RegisteredKey -> Key]
    /\ DOMAIN InitialMembers \subseteq Group
    /\ InitialMembers \in [DOMAIN InitialMembers -> Seq(DOMAIN RegisteredKey)]
    /\ \A g \in DOMAIN InitialMembers : IsInjective(InitialMembers[g])
    /\ InitialIndexes \subseteq Collection

VARIABLES
    \* the server
    users,     \* the documents of collection "users"
    groups,    \* the documents of collection "groups"
    indexed,   \* the collections with their unique index on "name"
    inflight,  \* write commands no client waits for any more
    \* each client
    pc,        \* the round trip its call does next
    call,      \* its last or current call
    loc,       \* the local variables of that call
    seq,       \* how many calls it has begun
    result,    \* what its last call returned or threw
    \* bounds and history
    faults,    \* how many faults happened
    rivals     \* changes others made under a call, see Watch

data   == <<users, groups, indexed>>
server == <<users, groups, indexed, inflight>>
vars   == <<users, groups, indexed, inflight, pc, call, loc, seq, result,
            faults, rivals>>

\* The first round trip of each operation.
First ==
    [add_user_to_group      |-> "reencrypt",
     remove_user_from_group |-> "remove_find",
     create_group           |-> "reencrypt",
     is_user_part_of_group  |-> "is_member",
     delete_user            |-> "scan_open",
     create_user            |-> "create_user",
     get_keys_of_group      |-> "get_keys",
     delete_all_data        |-> "delete_users",
     init_indexes           |-> "index_users",
     ping                   |-> "ping"]

\* The local variables of a call: the re-encrypted key, the group documents
\* read and kept, the documents a scan has still to return, attempts left.
Fresh == [key |-> None, held |-> {}, unread |-> {}, attempts |-> MaxAttempts]

Idle == {"idle", "crashed"}

nonce(c)      == <<c, seq[c]>>
group_name(c) == hash_name(call[c].group)
user_name(c)  == salted_hash_name(call[c].user, call[c].group)
new_entry(c)  == [name |-> user_name(c), key |-> loc[c].key]

-----------------------------------------------------------------------------
(* The server: one write command, and the count it reports *)

WriteCommand ==
    [kind : {"insert_user"}, doc : UserDoc]
      \cup [kind : {"insert_group"}, doc : GroupDoc]
      \cup [kind : {"push"}, name : HashedGroup, entry : Entry,
            old : GroupSignature, new : GroupSignature]
      \cup [kind : {"pull"}, name : HashedGroup, user : HashedUser,
            old : GroupSignature, new : GroupSignature]
      \cup [kind : {"pull_exact"}, doc : GroupDoc, user : HashedUser,
            new : GroupSignature]
      \cup [kind : {"delete_user"}, name : {hash_name(u) : u \in User}]
      \cup [kind : {"delete_users", "delete_groups"}]
      \cup [kind : {"create_index"}, on : Collection]

\* Mutant of AddMatches: the selector lacks "users.name": {$ne: user}.
MutantAddMatches(d, name, user) == d.name = name

\* What the selector of the read before a $push matches.
AddMatches(d, name, user) == d.name = name /\ ~HasUser(d, user)

\* What the selector of the read before a $pull matches.
RemoveMatches(d, name, user) == d.name = name /\ HasUser(d, user)

\* Mutant of PushMatches: the old signature is not appended to the selector.
MutantPushMatches(d, cmd) == AddMatches(d, cmd.name, cmd.entry.name)

\* The selector of a $push or a $pull: that of the read and the old signature.
PushMatches(d, cmd) ==
    AddMatches(d, cmd.name, cmd.entry.name) /\ d.signature = cmd.old
PullMatches(d, cmd) ==
    RemoveMatches(d, cmd.name, cmd.user) /\ d.signature = cmd.old

\* A unique index admits no second document with the name of another.
Admits(collection, docs, d) ==
    collection \in indexed => \A x \in docs : x.name # d.name

Unique(docs) == \A x, y \in docs : x.name = y.name => x = y

Replace(old, new) == groups' = (groups \ {old}) \cup {new}

ExecuteInsert(cmd, n) ==
    /\ UNCHANGED indexed
    /\ \/ /\ cmd.kind = "insert_user"
          /\ UNCHANGED groups
          /\ \/ /\ Admits("users", users, cmd.doc)
                /\ users' = users \cup {cmd.doc} /\ n = 1
             \/ /\ ~Admits("users", users, cmd.doc)
                /\ UNCHANGED users /\ n = 0
       \/ /\ cmd.kind = "insert_group"
          /\ UNCHANGED users
          /\ \/ /\ Admits("groups", groups, cmd.doc)
                /\ groups' = groups \cup {cmd.doc} /\ n = 1
             \/ /\ ~Admits("groups", groups, cmd.doc)
                /\ UNCHANGED groups /\ n = 0

ExecutePush(cmd, n) ==
    /\ cmd.kind = "push"
    /\ UNCHANGED <<users, indexed>>
    /\ \/ \E d \in groups :
            /\ PushMatches(d, cmd)
            /\ Replace(d, Pushed(d, cmd.entry, cmd.new)) /\ n = 1
       \/ /\ \A d \in groups : ~PushMatches(d, cmd)
          /\ UNCHANGED groups /\ n = 0

ExecutePull(cmd, n) ==
    /\ cmd.kind = "pull"
    /\ UNCHANGED <<users, indexed>>
    /\ \/ \E d \in groups :
            /\ PullMatches(d, cmd)
            /\ Replace(d, Pulled(d, cmd.user, cmd.new)) /\ n = 1
       \/ /\ \A d \in groups : ~PullMatches(d, cmd)
          /\ UNCHANGED groups /\ n = 0

\* The update of a bulk: its selector is the whole document that was read.
ExecutePullExact(cmd, n) ==
    /\ cmd.kind = "pull_exact"
    /\ UNCHANGED <<users, indexed>>
    /\ \/ /\ cmd.doc \in groups
          /\ Replace(cmd.doc, Pulled(cmd.doc, cmd.user, cmd.new)) /\ n = 1
       \/ cmd.doc \notin groups /\ UNCHANGED groups /\ n = 0

ExecuteDelete(cmd, n) ==
    /\ UNCHANGED indexed
    /\ n = 1
    /\ \/ /\ cmd.kind = "delete_user"
          /\ UNCHANGED groups
          /\ \/ \E d \in users : d.name = cmd.name /\ users' = users \ {d}
             \/ (\A d \in users : d.name # cmd.name) /\ UNCHANGED users
       \/ cmd.kind = "delete_users" /\ users' = {} /\ UNCHANGED groups
       \/ cmd.kind = "delete_groups" /\ groups' = {} /\ UNCHANGED users

ExecuteIndex(cmd, n) ==
    /\ cmd.kind = "create_index"
    /\ UNCHANGED <<users, groups>>
    /\ LET unique == Unique(IF cmd.on = "users" THEN users ELSE groups)
       IN  \/ unique /\ indexed' = indexed \cup {cmd.on} /\ n = 1
           \/ ~unique /\ UNCHANGED indexed /\ n = 0

Execute(cmd, n) ==
    \/ ExecuteInsert(cmd, n) \/ ExecutePush(cmd, n) \/ ExecutePull(cmd, n)
    \/ ExecutePullExact(cmd, n) \/ ExecuteDelete(cmd, n) \/ ExecuteIndex(cmd, n)

\* Mutant of BsonIterInt64: the field never has the type that is asked for.
MutantBsonIterInt64(n) == 0

\* bson_iter_int64 returns 0 for a field that is not a 64-bit integer.
BsonIterInt64(n) == IF CountWidth = 64 THEN n ELSE 0

-----------------------------------------------------------------------------
(* The write commands of a call *)

insert_user_command(c) ==
    [kind |-> "insert_user",
     doc |-> NewUserDoc(call[c].user, encrypt_data(call[c].key, nonce(c)))]

insert_group_command(c) ==
    [kind |-> "insert_group",
     doc |-> NewGroupDoc(call[c].group, encrypt_data(call[c].group, nonce(c)),
                         new_entry(c))]

push_command(c, d) ==
    [kind |-> "push", name |-> group_name(c), entry |-> new_entry(c),
     old |-> d.signature, new |-> signature_with(d, new_entry(c))]

pull_command(c, d) ==
    [kind |-> "pull", name |-> group_name(c), user |-> user_name(c),
     old |-> d.signature, new |-> signature_without(d, user_name(c))]

\* Mutant of bulk_command: the signature still covers the user who leaves.
MutantBulkCommand(c, d) ==
    LET user == salted_hash_name(call[c].user, decrypt_data(d.encname))
    IN  [kind |-> "pull_exact", doc |-> d, user |-> user,
         new |-> compute_group_signature(d)]

bulk_command(c, d) ==
    LET user == salted_hash_name(call[c].user, decrypt_data(d.encname))
    IN  [kind |-> "pull_exact", doc |-> d, user |-> user,
         new |-> signature_without(d, user)]

delete_user_command(c) ==
    [kind |-> "delete_user", name |-> hash_name(call[c].user)]

\* The commands the next round trip of a call sends; none if it is a read.
Pending(c) ==
    CASE pc[c] = "create_user"   -> {insert_user_command(c)}
      [] pc[c] = "insert_group"  -> {insert_group_command(c)}
      [] pc[c] = "add_update"    -> {push_command(c, d) : d \in loc[c].held}
      [] pc[c] = "remove_update" -> {pull_command(c, d) : d \in loc[c].held}
      [] pc[c] = "bulk"          -> {bulk_command(c, d) : d \in loc[c].held}
      [] pc[c] = "delete_user"   -> {delete_user_command(c)}
      [] pc[c] = "delete_users"  -> {[kind |-> "delete_users"]}
      [] pc[c] = "delete_groups" -> {[kind |-> "delete_groups"]}
      [] pc[c] = "index_users"   -> {[kind |-> "create_index", on |-> "users"]}
      [] pc[c] = "index_groups"  -> {[kind |-> "create_index", on |-> "groups"]}
      [] OTHER                   -> {}

-----------------------------------------------------------------------------
(* How a call goes on, and how a round trip fails *)

Goto(c, label, local) ==
    /\ pc' = [pc EXCEPT ![c] = label]
    /\ loc' = [loc EXCEPT ![c] = local]
    /\ UNCHANGED result

ReturnKeys(c, status, keys) ==
    /\ pc' = [pc EXCEPT ![c] = "idle"]
    /\ loc' = [loc EXCEPT ![c] = Fresh]
    /\ result' = [result EXCEPT ![c] = [status |-> status, keys |-> keys]]

\* Return, or throw with a code that is not 0.
Return(c, status) == ReturnKeys(c, status, {})

Fault == faults < MaxFaults /\ faults' = faults + 1

\* A read that reaches the server, and one that does not.
Read   == UNCHANGED server /\ UNCHANGED faults
Unread == UNCHANGED server /\ Fault

\* A write command and its answer.
Answered(cmd, n) == Execute(cmd, n) /\ UNCHANGED <<inflight, faults>>

\* Commands sent whose answer never comes: throw_potential_error(error).
Unanswered(c, cmds) ==
    /\ Fault
    /\ inflight' = inflight \cup cmds
    /\ UNCHANGED data
    /\ Return(c, "db_error")

\* Mutants of Retry: the counter is not decremented; the loop gives up one turn
\* early; it makes one turn more.
MutantRetryForever(c, label) == Goto(c, label, [loc[c] EXCEPT !.held = {}])

MutantRetryLess(c, label) ==
    IF loc[c].attempts > 2
      THEN Goto(c, label, [loc[c] EXCEPT !.held = {}, !.attempts = @ - 1])
      ELSE Return(c, "gave_up")

MutantRetryMore(c, label) ==
    IF loc[c].attempts > 0
      THEN Goto(c, label, [loc[c] EXCEPT !.held = {}, !.attempts = @ - 1])
      ELSE Return(c, "gave_up")

\* One more turn of "while (!done && (attempts-- > 0))", or the throw after it.
Retry(c, label) ==
    IF loc[c].attempts > 1
      THEN Goto(c, label, [loc[c] EXCEPT !.held = {}, !.attempts = @ - 1])
      ELSE Return(c, "gave_up")

\* History: how often another party changed a group document a call works on.
Watched(c, docs) ==
    IF call[c].op = "delete_user" THEN docs
                                  ELSE {d \in docs : d.name = group_name(c)}

Watching(c) == /\ pc[c] \notin Idle
               /\ call[c].op \in {"add_user_to_group", "create_group",
                                  "remove_user_from_group", "delete_user"}

Watch(actors) ==
    rivals' = [c \in Client |->
        IF /\ c \notin actors /\ Watching(c) /\ rivals[c] < MaxAttempts
           /\ Watched(c, groups') # Watched(c, groups)
          THEN rivals[c] + 1 ELSE rivals[c]]

-----------------------------------------------------------------------------
(* The operations *)

create_user(c) ==
    /\ pc[c] = "create_user"
    /\ LET cmd == insert_user_command(c)
       IN  \/ Answered(cmd, 1) /\ Return(c, "ok")
           \/ Answered(cmd, 0) /\ Return(c, "duplicate")
           \/ Unanswered(c, {cmd})

\* The read an add or a create_group begins with.
reencrypt_user_key(c) ==
    /\ pc[c] = "reencrypt"
    /\ LET name == hash_name(call[c].user)
       IN  \/ \E d \in users :
                /\ d.name = name
                /\ Read
                /\ IF ~ValidUserDoc(d)
                     THEN Return(c, "bad_signature")
                     ELSE Goto(c, IF call[c].op = "create_group"
                                    THEN "insert_group" ELSE "add_find",
                               [loc[c] EXCEPT !.key =
                                  encrypt_data(decrypt_data(d.key), nonce(c))])
           \/ /\ \A d \in users : d.name # name
              /\ Read
              /\ Return(c, "no_user")
           \/ Unread /\ Return(c, "no_user")

\* create_group falls back to an add when the group is there already.
create_group(c) ==
    /\ pc[c] = "insert_group"
    /\ LET cmd == insert_group_command(c)
       IN  \/ Answered(cmd, 1) /\ Return(c, "ok")
           \/ Answered(cmd, 0) /\ Goto(c, "add_find", loc[c])
           \/ Unanswered(c, {cmd})

\* Read a document the selector of a turn matches; none means nothing to do.
Find(c, Matches(_, _, _), next) ==
    \/ \E d \in groups :
         /\ Matches(d, group_name(c), user_name(c))
         /\ Read
         /\ IF validate_group_signature(d)
              THEN Goto(c, next, [loc[c] EXCEPT !.held = {d}])
              ELSE Return(c, "bad_signature")
    \/ /\ \A d \in groups : ~Matches(d, group_name(c), user_name(c))
       /\ Read
       /\ Return(c, "ok")
    \/ Unread /\ Return(c, "ok")

\* Mutant of add_find: the selector lost its $ne.
MutantAddFind(c) == pc[c] = "add_find" /\ Find(c, RemoveMatches, "add_update")

add_find(c) == pc[c] = "add_find" /\ Find(c, AddMatches, "add_update")

add_update(c) ==
    /\ pc[c] = "add_update"
    /\ \E d \in loc[c].held :
         LET cmd == push_command(c, d)
         IN  \/ \E n \in {0, 1} :
                  /\ Answered(cmd, n)
                  /\ IF BsonIterInt64(n) >= 1 THEN Return(c, "ok")
                                              ELSE Retry(c, "add_find")
             \/ Unanswered(c, {cmd})

remove_find(c) ==
    pc[c] = "remove_find" /\ Find(c, RemoveMatches, "remove_update")

remove_update(c) ==
    /\ pc[c] = "remove_update"
    /\ \E d \in loc[c].held :
         LET cmd == pull_command(c, d)
         IN  \/ \E n \in {0, 1} :
                  /\ Answered(cmd, n)
                  /\ IF BsonIterInt64(n) >= 1 THEN Return(c, "ok")
                                              ELSE Retry(c, "remove_find")
             \/ Unanswered(c, {cmd})

\* remove_user_from_all_groups opens a cursor over all groups.
scan_open(c) ==
    /\ pc[c] = "scan_open"
    /\ \/ /\ Read
          /\ Goto(c, "scan", [loc[c] EXCEPT !.unread = {d.encname : d \in groups}])
       \/ Unread /\ Return(c, "empty_bulk")

\* The cursor returns a group it has not returned before.
scan_next(c) ==
    /\ pc[c] = "scan"
    /\ \E d \in groups :
         /\ d.encname \notin {h.encname : h \in loc[c].held}
         /\ Read
         /\ IF validate_group_signature(d)
              THEN Goto(c, "scan", [loc[c] EXCEPT !.held = @ \cup {d},
                                                  !.unread = @ \ {d.encname}])
              ELSE Return(c, "bad_signature")

\* Mutant of scan_end: only the documents of a first batch are looked at.
MutantScanEnd(c) ==
    /\ pc[c] = "scan"
    /\ Read
    /\ IF loc[c].held = {}
         THEN Return(c, "empty_bulk")
         ELSE Goto(c, "bulk", [loc[c] EXCEPT !.unread = {}])

\* The cursor ends once it returned every group that was there all along, or
\* on an error nobody looks at.  libmongoc refuses a bulk with no operation.
scan_end(c) ==
    /\ pc[c] = "scan"
    /\ \/ Read /\ \A d \in groups : d.encname \notin loc[c].unread
       \/ Unread
    /\ IF loc[c].held = {}
         THEN Return(c, "empty_bulk")
         ELSE Goto(c, "bulk", [loc[c] EXCEPT !.unread = {}])

\* The server runs the updates of the bulk one after the other.
bulk_update(c) ==
    /\ pc[c] = "bulk"
    /\ \/ \E d \in loc[c].held, n \in {0, 1} :
            /\ Answered(bulk_command(c, d), n)
            /\ Goto(c, IF loc[c].held = {d} THEN "delete_user" ELSE "bulk",
                       [loc[c] EXCEPT !.held = @ \ {d}])
       \/ Unanswered(c, {bulk_command(c, d) : d \in loc[c].held})

delete_user(c) ==
    /\ pc[c] = "delete_user"
    /\ LET cmd == delete_user_command(c)
       IN  \/ Answered(cmd, 1) /\ Return(c, "ok")
           \/ Unanswered(c, {cmd})

\* Mutants of delete_all_users: the groups are not deleted; the users are not.
MutantDeleteAllUsers(c) ==
    /\ pc[c] = "delete_users"
    /\ Answered([kind |-> "delete_users"], 1) /\ Return(c, "ok")

MutantDeleteNoUsers(c) ==
    pc[c] = "delete_users" /\ Read /\ Goto(c, "delete_groups", loc[c])

delete_all_users(c) ==
    /\ pc[c] = "delete_users"
    /\ LET cmd == [kind |-> "delete_users"]
       IN  \/ Answered(cmd, 1) /\ Goto(c, "delete_groups", loc[c])
           \/ Unanswered(c, {cmd})

delete_all_groups(c) ==
    /\ pc[c] = "delete_groups"
    /\ LET cmd == [kind |-> "delete_groups"]
       IN  \/ Answered(cmd, 1) /\ Return(c, "ok")
           \/ Unanswered(c, {cmd})

\* Mutant of init_users_index: the index on the users is not created.
MutantInitUsersIndex(c) ==
    pc[c] = "index_users" /\ Read /\ Goto(c, "index_groups", loc[c])

init_users_index(c) ==
    /\ pc[c] = "index_users"
    /\ LET cmd == [kind |-> "create_index", on |-> "users"]
       IN  \/ Answered(cmd, 1) /\ Goto(c, "index_groups", loc[c])
           \/ Answered(cmd, 0) /\ Return(c, "index_error")
           \/ Unanswered(c, {cmd})

init_groups_index(c) ==
    /\ pc[c] = "index_groups"
    /\ LET cmd == [kind |-> "create_index", on |-> "groups"]
       IN  \/ Answered(cmd, 1) /\ Return(c, "ok")
           \/ Answered(cmd, 0) /\ Return(c, "index_error")
           \/ Unanswered(c, {cmd})

ping(c) ==
    /\ pc[c] = "ping"
    /\ \/ Read /\ Return(c, "ok")
       \/ Unread /\ Return(c, "db_error")

is_user_part_of_group(c) ==
    /\ pc[c] = "is_member"
    /\ LET member == \E d \in groups :
                        RemoveMatches(d, group_name(c), user_name(c))
       IN  \/ Read /\ Return(c, IF member THEN "member" ELSE "not_member")
           \/ Unread /\ Return(c, "db_error")

\* Mutant of get_keys_of_group: keys of another size are skipped.
MutantGetKeys(c) ==
    /\ pc[c] = "get_keys"
    /\ \E d \in groups :
         /\ d.name = group_name(c)
         /\ Read
         /\ ReturnKeys(c, "ok",
                       {decrypt_data(e.key) : e \in Range(d.users)} \cap SizedKey)

get_keys_of_group(c) ==
    /\ pc[c] = "get_keys"
    /\ \/ \E d \in groups :
            /\ d.name = group_name(c)
            /\ Read
            /\ LET keys == {decrypt_data(e.key) : e \in Range(d.users)}
               IN  IF ~validate_group_signature(d) THEN Return(c, "bad_signature")
                   ELSE IF ~(keys \subseteq SizedKey) THEN Return(c, "key_size")
                   ELSE ReturnKeys(c, "ok", keys)
       \/ /\ \A d \in groups : d.name # group_name(c)
          /\ Read
          /\ Return(c, "no_group")
       \/ Unread /\ Return(c, "no_group")

-----------------------------------------------------------------------------
(* The specification *)

StoredUser(u) ==
    NewUserDoc(u, encrypt_data(RegisteredKey[u], <<Past, 0>>))

StoredEntry(u, g) ==
    [name |-> salted_hash_name(u, g),
     key  |-> encrypt_data(RegisteredKey[u], <<Past, 0>>)]

StoredGroup(g) ==
    LET name    == hash_name(g)
        encname == encrypt_data(g, <<Past, 0>>)
        entries == [i \in DOMAIN InitialMembers[g] |->
                      StoredEntry(InitialMembers[g][i], g)]
    IN  [name |-> name, encname |-> encname, users |-> entries,
         signature |-> group_hmac(name, encname, entries)]

Init ==
    /\ users = {StoredUser(u) : u \in DOMAIN RegisteredKey}
    /\ groups = {StoredGroup(g) : g \in DOMAIN InitialMembers}
    /\ indexed = InitialIndexes
    /\ inflight = {}
    /\ pc = [c \in Client |-> "idle"]
    /\ call = [c \in Client |-> None]
    /\ loc = [c \in Client |-> Fresh]
    /\ seq = [c \in Client |-> 0]
    /\ result = [c \in Client |-> [status |-> "none", keys |-> {}]]
    /\ faults = 0
    /\ rivals = [c \in Client |-> 0]

\* A client calls an operation.
Invoke(c) ==
    /\ pc[c] = "idle"
    /\ seq[c] < MaxCalls
    /\ \E new \in Calls :
         /\ new.op \in Ops
         /\ call' = [call EXCEPT ![c] = new]
         /\ pc' = [pc EXCEPT ![c] = First[new.op]]
    /\ seq' = [seq EXCEPT ![c] = @ + 1]
    /\ result' = [result EXCEPT ![c] = [status |-> "none", keys |-> {}]]
    /\ rivals' = [rivals EXCEPT ![c] = 0]
    /\ UNCHANGED <<users, groups, indexed, inflight, loc, faults>>

\* The client does the next round trip of its call.
Step(c) ==
    /\ \/ create_user(c)      \/ reencrypt_user_key(c) \/ create_group(c)
       \/ add_find(c)         \/ add_update(c)
       \/ remove_find(c)      \/ remove_update(c)
       \/ scan_open(c)        \/ scan_next(c)          \/ scan_end(c)
       \/ bulk_update(c)      \/ delete_user(c)
       \/ delete_all_users(c) \/ delete_all_groups(c)
       \/ init_users_index(c) \/ init_groups_index(c)
       \/ is_user_part_of_group(c) \/ get_keys_of_group(c) \/ ping(c)
    /\ Watch({c})
    /\ UNCHANGED <<call, seq>>

\* The process ends in the middle of a call, in sgx_exit after an OCALL that
\* failed: before the commands of a round trip are sent, or after.
Crash(c) ==
    /\ pc[c] \notin Idle
    /\ Fault
    /\ \E sent \in {{}, Pending(c)} : inflight' = inflight \cup sent
    /\ pc' = [pc EXCEPT ![c] = "crashed"]
    /\ loc' = [loc EXCEPT ![c] = Fresh]
    /\ result' = [result EXCEPT ![c].status = "crashed"]
    /\ UNCHANGED <<users, groups, indexed, call, seq, rivals>>

\* The server executes a command whose client stopped waiting for it.
Deliver(cmd) ==
    /\ \E n \in {0, 1} : Execute(cmd, n)
    /\ inflight' = inflight \ {cmd}
    /\ Watch({})
    /\ UNCHANGED <<pc, call, loc, seq, result, faults>>

\* Every client made its calls: the system may stop.
Done ==
    /\ \A c \in Client : pc[c] = "crashed" \/ (pc[c] = "idle" /\ seq[c] = MaxCalls)
    /\ UNCHANGED vars

Next ==
    \/ \E c \in Client : Invoke(c) \/ Step(c) \/ Crash(c)
    \/ \E cmd \in inflight : Deliver(cmd)
    \/ Done

\* A client that began a call goes on with it; nobody has to begin a call, and
\* no lost command has to reach the server.
Fairness == \A c \in Client : WF_vars(Step(c))

Spec     == Init /\ [][Next]_vars
FairSpec == Spec /\ Fairness

-----------------------------------------------------------------------------
(* Properties *)

Statuses == {"none", "ok", "no_user", "no_group", "bad_signature", "gave_up",
             "duplicate", "key_size", "db_error", "empty_bulk", "index_error",
             "member", "not_member", "crashed"}

\* The round trips an operation is made of.
Stages(op) ==
    CASE op = "add_user_to_group"      -> {"reencrypt", "add_find", "add_update"}
      [] op = "create_group"           -> {"reencrypt", "insert_group",
                                           "add_find", "add_update"}
      [] op = "remove_user_from_group" -> {"remove_find", "remove_update"}
      [] op = "is_user_part_of_group"  -> {"is_member"}
      [] op = "delete_user"            -> {"scan_open", "scan", "bulk", "delete_user"}
      [] op = "create_user"            -> {"create_user"}
      [] op = "get_keys_of_group"      -> {"get_keys"}
      [] op = "delete_all_data"        -> {"delete_users", "delete_groups"}
      [] op = "init_indexes"           -> {"index_users", "index_groups"}
      [] op = "ping"                   -> {"ping"}

Labels == Idle \cup {"reencrypt", "insert_group", "add_find", "add_update",
    "remove_find", "remove_update", "is_member", "scan_open", "scan", "bulk",
    "delete_user", "create_user", "get_keys", "delete_users", "delete_groups",
    "index_users", "index_groups", "ping"}

\* The type invariant: a client is between calls or in a round trip of the
\* operation it called, and every document and command is well formed.
TypeOK ==
    /\ users \subseteq UserDoc
    /\ groups \subseteq GroupDoc
    /\ indexed \subseteq Collection
    /\ inflight \subseteq WriteCommand
    /\ call \in [Client -> Calls \cup {None}]
    /\ pc \in [Client -> Labels]
    /\ \A c \in Client : \/ pc[c] \in Idle
                         \/ call[c] # None /\ pc[c] \in Stages(call[c].op)
    /\ loc \in [Client -> [key : KeyCipher \cup {None}, held : SUBSET GroupDoc,
                           unread : SUBSET NameCipher, attempts : 1 .. MaxAttempts]]
    /\ seq \in [Client -> 0 .. MaxCalls]
    /\ result \in [Client -> [status : Statuses, keys : SUBSET SizedKey]]
    /\ faults \in 0 .. MaxFaults
    /\ rivals \in [Client -> 0 .. MaxAttempts]

\* Whatever updates race, are lost, or arrive late, the signature of every
\* stored document covers the content it has: no reader ever fails with "Error
\* in signature validation" (lines 194, 274, 349, 491, 569).
SignaturesValid ==
    /\ \A d \in users : ValidUserDoc(d)
    /\ \A d \in groups : validate_group_signature(d)

\* No user is twice in one group document, although a turn of an add whose
\* $push was applied is followed by another turn with the same entry (line 236
\* misreads the count), a $push whose answer was lost may be applied later, and
\* two clients may add the same user.
UniqueMembers == \A d \in groups : DistinctMembers(d)

\* "Unable to add user to group after multiple attempts" (and its remove twin)
\* is thrown only to a call whose group others changed in every one of its
\* attempts, the last one excepted where the count of an update is misread.
GiveUpOnlyUnderContention ==
    "groups" \in InitialIndexes =>
        \A c \in Client : result[c].status = "gave_up" =>
            rivals[c] >= IF CountWidth = 64 THEN MaxAttempts ELSE MaxAttempts - 1

\* Every call returns, throws, or ends with its process: the retry loops are
\* bounded even when clients keep undoing each other's updates.
EveryCallReturns ==
    \A c \in Client : pc[c] \notin Idle ~> pc[c] \in Idle

\* When delete_user is about to delete the user's document, the user is in no
\* group any more, unless another client changed a group in the meantime or a
\* round trip failed: lines 130-137 never leave a member behind on their own.
OutBeforeDeletion ==
    \A c \in Client :
        pc[c] = "delete_user" /\ rivals[c] = 0 /\ faults = 0 =>
            \A d \in groups :
                ~HasUser(d, salted_hash_name(call[c].user, decrypt_data(d.encname)))

\* "Unable to add user to group after multiple attempts": a call that throws
\* it has not changed the group with its last update.
GaveUpMeansNotDone ==
    [][\A c \in Client :
         pc[c] \in {"add_update", "remove_update"} /\ result'[c].status = "gave_up"
           => UNCHANGED groups]_vars

\* "User is already in group; nothing to do" (line 188): an add that returns
\* leaves the user in the group, as long as nobody else calls anything.
AddReturnMeansMember ==
    \A c \in Client :
        /\ pc[c] = "idle" /\ result[c].status = "ok"
        /\ call[c].op = "add_user_to_group"
        => \E d \in groups : RemoveMatches(d, group_name(c), user_name(c))

\* "OK, exception thrown when creating group again" (mongoclient.cpp:61):
\* create_group returns only when the group did not exist.
CreateExistingThrows ==
    [][\A c \in Client :
         /\ pc[c] \notin Idle /\ pc'[c] = "idle"
         /\ call[c].op = "create_group" /\ result'[c].status = "ok"
         => \A d \in groups : d.name # group_name(c)]_vars

(* Properties of one client on its own, without faults *)

\* Every member of a group is a stored user, with that user's key: creations,
\* deletions and re-creations leave no orphan and no old key, at no point of a
\* call except between the two deletions of delete_all_data (lines 150 and 155).
MembersRegistered ==
    indexed = Collection /\ (\A c \in Client : pc[c] # "delete_groups") =>
        \A d \in groups : \A e \in Range(d.users) : \E u \in User :
            /\ e.name = salted_hash_name(u, decrypt_data(d.encname))
            /\ \E x \in users : /\ x.name = hash_name(u)
                                /\ decrypt_data(x.key) = decrypt_data(e.key)

\* get_keys_of_group returns the keys of the users the group has, no more and
\* no fewer, as create_user was given them.
KeysMatchUsers ==
    \A c \in Client :
        /\ pc[c] = "idle" /\ result[c].status = "ok" /\ indexed = Collection
        /\ call[c].op = "get_keys_of_group"
        => result[c].keys =
             {decrypt_data(x.key) : x \in {y \in users : \E d \in groups :
                 /\ d.name = group_name(c)
                 /\ HasUser(d, salted_hash_name(y.name[1], call[c].group))}}
=============================================================================

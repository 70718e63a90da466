--------------------------- MODULE MongoDirectory ---------------------------
(***************************************************************************)
(* MongoDatabase implements GroupDirectory: the documents of the groups    *)
(* are its groups and members, and the write commands on their way are the *)
(* changes that may still happen.                                          *)
(***************************************************************************)
EXTENDS MongoDatabase

\* The groups some document stands for, and the users it lists.
ListedGroups == {g \in Group : \E d \in groups : d.name = hash_name(g)}

Listed ==
    {p \in Group \X User : \E d \in groups :
        RemoveMatches(d, hash_name(p[1]), salted_hash_name(p[2], p[1]))}

\* A user's salted name is the user and the group.
OfEntry(kind, name) == [kind |-> kind, group |-> name[2], user |-> name[1]]

\* The changes a write command makes when the server executes it.
ChangeOf(cmd) ==
    CASE cmd.kind = "push"          -> {OfEntry("join", cmd.entry.name)}
      [] cmd.kind = "pull"          -> {OfEntry("leave", cmd.user)}
      [] cmd.kind = "pull_exact"    -> {OfEntry("leave", cmd.user)}
      [] cmd.kind = "insert_group"  -> {OfEntry("found", e.name) : e \in Range(cmd.doc.users)}
      [] cmd.kind = "delete_groups" -> {[kind |-> "clear"]}
      [] OTHER                      -> {}

Directory == INSTANCE GroupDirectory WITH
    Call     <- Calls,
    AtOnce   <- CountWidth = 64,
    exists   <- ListedGroups,
    members  <- Listed,
    running  <- [c \in Client |-> IF pc[c] \in Idle THEN None ELSE call[c]],
    status   <- [c \in Client |-> result[c].status],
    late     <- UNION {ChangeOf(cmd) : cmd \in inflight},
    failures <- faults

\* The clients and the server together behave like a directory: no update
\* loses or alters another user's membership, one is changed only by a call
\* (or a lost command) that asked for it, and add_user_to_group, create_group,
\* remove_user_from_group, is_user_part_of_group and delete_all_data return
\* what is true at that moment.  With matchedCount read as meant, adds and
\* removes also happen once, in the step that returns, and never in a call that
\* throws "after multiple attempts".
ImplementsDirectory == Directory!DirSpec
=============================================================================

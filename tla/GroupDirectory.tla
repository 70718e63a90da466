--------------------------- MODULE GroupDirectory ---------------------------
(***************************************************************************)
(* What MongoDatabase promises its callers about groups and their members, *)
(* with nothing of how: no documents, signatures, round trips or attempts. *)
(* A call makes the changes its operation names and no others, one user in *)
(* one group at a time, and what it returns is true when it returns.       *)
(***************************************************************************)
EXTENDS Naturals

CONSTANTS
    Client, User, Group, None,
    Call,     \* operations with their arguments
    AtOnce    \* whether an add or a remove changes the directory only in the
              \* step in which it returns, and so at most once

VARIABLES
    exists,   \* the groups
    members,  \* pairs of a group and a user who is in it
    running,  \* the call each client makes, or None
    status,   \* what its last call returned or threw
    late,     \* changes asked by calls that ended without an answer
    failures  \* how many round trips and processes failed

dirVars == <<exists, members, running, status, late, failures>>

-----------------------------------------------------------------------------
(* Changes, and the calls that ask for them *)

Change == [kind : {"found", "join", "leave"}, group : Group, user : User]
            \cup [kind : {"clear"}]

OneUserOps == {"add_user_to_group", "remove_user_from_group"}

Asked(call) ==
    {ch \in Change :
        \/ /\ call.op = "add_user_to_group" /\ ch.kind = "join"
           /\ ch.group = call.group /\ ch.user = call.user
        \/ /\ call.op = "create_group" /\ ch.kind \in {"found", "join"}
           /\ ch.group = call.group /\ ch.user = call.user
        \/ /\ call.op = "remove_user_from_group" /\ ch.kind = "leave"
           /\ ch.group = call.group /\ ch.user = call.user
        \/ call.op = "delete_user" /\ ch.kind = "leave" /\ ch.user = call.user
        \/ call.op = "delete_all_data" /\ ch.kind = "clear"}

Make(ch) ==
    \/ /\ ch.kind = "found" /\ ch.group \notin exists
       /\ exists' = exists \cup {ch.group}
       /\ members' = members \cup {<<ch.group, ch.user>>}
    \/ /\ ch.kind = "join" /\ ch.group \in exists
       /\ members' = members \cup {<<ch.group, ch.user>>}
       /\ UNCHANGED exists
    \/ /\ ch.kind = "leave"
       /\ members' = members \ {<<ch.group, ch.user>>}
       /\ UNCHANGED exists
    \/ ch.kind = "clear" /\ exists' = {} /\ members' = {}

Keep == UNCHANGED <<exists, members>>

\* What a caller may conclude from what its call returned.
Holds(call, s) ==
    LET member == <<call.group, call.user>> \in members'
    IN  /\ s = "ok" /\ call.op \in {"add_user_to_group", "create_group"} =>
             member \/ call.group \notin exists' \/ failures' # failures
        /\ s = "ok" /\ call.op = "remove_user_from_group" =>
             ~member \/ failures' # failures
        /\ s = "ok" /\ call.op = "delete_all_data" => exists' = {}
        /\ s = "member" => member
        /\ s = "not_member" => ~member

-----------------------------------------------------------------------------
(* The steps of the directory *)

Outcome == {"ok", "member", "not_member", "gave_up", "no_user", "no_group",
            "bad_signature", "empty_bulk", "duplicate", "key_size", "index_error"}

DirInit ==
    /\ exists \subseteq Group
    /\ members \subseteq exists \X User
    /\ running = [c \in Client |-> None]
    /\ status = [c \in Client |-> "none"]
    /\ late = {}
    /\ failures = 0

Begin(c) ==
    /\ running[c] = None
    /\ \E call \in Call : running' = [running EXCEPT ![c] = call]
    /\ status' = [status EXCEPT ![c] = "none"]
    /\ Keep /\ UNCHANGED <<late, failures>>

\* A change while the call goes on.
Act(c) ==
    /\ running[c] # None
    /\ AtOnce => running[c].op \notin OneUserOps
    /\ \E ch \in Asked(running[c]) : Make(ch)
    /\ UNCHANGED <<running, status, late, failures>>

End(c, s) ==
    /\ running[c] # None
    /\ running' = [running EXCEPT ![c] = None]
    /\ status' = [status EXCEPT ![c] = s]

\* The call returns, or throws after its attempts; a change may be made in the
\* same step, but if at once then not by a call that throws.
Finish(c) ==
    \E s \in Outcome :
        /\ End(c, s)
        /\ \/ Keep
           \/ /\ AtOnce => s = "ok"
              /\ \E ch \in Asked(running[c]) : Make(ch)
        /\ UNCHANGED late /\ failures' \in {failures, failures + 1}
        /\ Holds(running[c], s)

\* A read fails and the call goes on.
Overlook(c) ==
    /\ running[c] # None
    /\ failures' = failures + 1
    /\ Keep /\ UNCHANGED <<running, status, late>>

\* The call throws because an answer was lost: what it asked may happen later.
Lose(c) ==
    /\ End(c, "db_error")
    /\ \E lost \in SUBSET Asked(running[c]) : late' = late \cup lost
    /\ Keep /\ failures' = failures + 1

\* The process ends: what its call asked may happen later.
Abort(c) ==
    /\ End(c, "crashed")
    /\ \E lost \in SUBSET Asked(running[c]) : late' = late \cup lost
    /\ Keep /\ failures' = failures + 1

ActLate ==
    /\ \E ch \in late : \/ Make(ch) /\ late' \in {late, late \ {ch}}
                        \/ Keep /\ late' = late \ {ch}
    /\ UNCHANGED <<running, status, failures>>

DirNext ==
    \/ \E c \in Client : \/ Begin(c) \/ Act(c) \/ Finish(c)
                         \/ Overlook(c) \/ Lose(c) \/ Abort(c)
    \/ ActLate

DirSpec == DirInit /\ [][DirNext]_dirVars
=============================================================================

--------------------------- MODULE EnclaveSample ----------------------------
(***************************************************************************)
(* ecall_mongoclient_sample of mongoclient.cpp: a script of calls to one   *)
(* MongoDatabase object.  Each client of MongoDatabase is one run of the   *)
(* program; a run begins when no other is going on, on what the earlier    *)
(* ones left: their documents, and the write commands whose answers they   *)
(* never saw.                                                              *)
(***************************************************************************)
EXTENDS MongoDatabase, Sequences

CONSTANT SampleKey  \* 'hunter2', padded to KEY_SIZE bytes

ASSUME SampleConstants ==
    /\ {"user1", "user2"} \subseteq User
    /\ {"group1", "group2"} \subseteq Group
    /\ SampleKey \in SizedKey

VARIABLES
    line,     \* the statement of the script each run is at; 0 before it begins
    aborted,  \* the runs an exception nobody catches has ended
    clean     \* history, see Clean

sampleVars == <<vars, line, aborted, clean>>

OnGroup(op, g, u) == [op |-> op, group |-> g, user |-> u]
CreateUser(u)     == [op |-> "create_user", user |-> u, key |-> SampleKey]

-----------------------------------------------------------------------------
(* The script: statements, and how far an exception jumps; 0 is terminate  *)

Do(c) == <<[call |-> c, skip |-> 0]>>

\* Mutant of Try: the call is outside of the try block.
MutantTry(c, skip) == <<[call |-> c, skip |-> 0]>>

\* A call whose exception the handler after it, or after the next, prints.
Try(c, skip) == <<[call |-> c, skip |-> skip]>>

printMemberships ==
    Do(OnGroup("is_user_part_of_group", "group1", "user1"))
      \o Do(OnGroup("is_user_part_of_group", "group1", "user2"))
      \o Do(OnGroup("is_user_part_of_group", "group2", "user1"))
      \o Do(OnGroup("is_user_part_of_group", "group2", "user2"))

\* The database is emptied, and the users are created.
Setup ==
    Do([op |-> "delete_all_data"]) \o Do([op |-> "init_indexes"])
      \o Try(CreateUser("user1"), 2) \o Try(CreateUser("user2"), 1)
      \o printMemberships

Memberships ==
    Do(OnGroup("create_group", "group1", "user1")) \o printMemberships
      \o Try(OnGroup("create_group", "group1", "user1"), 1) \o printMemberships
      \o Do(OnGroup("create_group", "group2", "user2")) \o printMemberships
      \o Do(OnGroup("add_user_to_group", "group2", "user1")) \o printMemberships
      \o Do(OnGroup("add_user_to_group", "group1", "user1")) \o printMemberships

Again == Try(CreateUser("user1"), 1) \o printMemberships

Removals ==
    Do([op |-> "get_keys_of_group", group |-> "group1"])
      \o Do(OnGroup("remove_user_from_group", "group2", "user1"))
      \o printMemberships
      \o Do(OnGroup("add_user_to_group", "group2", "user1")) \o printMemberships
      \o Do([op |-> "delete_user", user |-> "user1"]) \o printMemberships

Script == Setup \o Memberships \o Again \o Removals
Last   == Len(Script)

-----------------------------------------------------------------------------
(* The runs *)

Returned(c) == line[c] = Last + 1
Over(c)     == Returned(c) \/ c \in aborted \/ pc[c] = "crashed"
Going(c)    == line[c] > 0 /\ ~Over(c)

Threw(c) == result[c].status \notin {"ok", "member", "not_member"}

\* What the call of a statement returned or threw decides where to go on.
Jump(c) == IF Threw(c) THEN Script[line[c]].skip ELSE 1

CallOf(c, n) == Invoke(c) /\ call'[c] = Script[n].call

\* History: the runs that began with no command of an earlier run on its way
\* and of which no round trip has failed.
Clean(c) == clean' = IF faults' = faults THEN clean ELSE clean \ {c}

Begin(c) ==
    /\ line[c] = 0
    /\ \A d \in Client : ~Going(d)
    /\ CallOf(c, 1)
    /\ line' = [line EXCEPT ![c] = 1]
    /\ clean' = IF inflight = {} THEN clean \cup {c} ELSE clean
    /\ UNCHANGED aborted

Proceed(c) ==
    /\ Going(c) /\ pc[c] = "idle" /\ Jump(c) # 0
    /\ line' = [line EXCEPT ![c] = @ + Jump(c)]
    /\ \/ line'[c] <= Last /\ CallOf(c, line'[c])
       \/ line'[c] > Last /\ UNCHANGED vars
    /\ UNCHANGED <<aborted, clean>>

\* An exception leaves ecall_mongoclient_sample: std::terminate.
Terminate(c) ==
    /\ Going(c) /\ pc[c] = "idle" /\ Jump(c) = 0
    /\ aborted' = aborted \cup {c}
    /\ UNCHANGED <<vars, line, clean>>

RoundTrip(c) == Step(c) /\ Clean(c) /\ UNCHANGED <<line, aborted>>

CrashRun(c) == Going(c) /\ Crash(c) /\ Clean(c) /\ UNCHANGED <<line, aborted>>

LateCommand(cmd) == Deliver(cmd) /\ UNCHANGED <<line, aborted, clean>>

AllOver == (\A c \in Client : Over(c)) /\ UNCHANGED sampleVars

SampleInit ==
    /\ Init
    /\ line = [c \in Client |-> 0]
    /\ aborted = {}
    /\ clean = {}

SampleNext ==
    \/ \E c \in Client : \/ Begin(c) \/ Proceed(c) \/ Terminate(c)
                         \/ RoundTrip(c) \/ CrashRun(c)
    \/ \E cmd \in inflight : LateCommand(cmd)
    \/ AllOver

SampleSpec == SampleInit /\ [][SampleNext]_sampleVars

-----------------------------------------------------------------------------
(* Properties *)

\* Whatever crashed or terminated before it left in the database, a run whose
\* own round trips succeed returns 0: no exception of the script is uncaught.
CleanRunReturns == \A c \in clean : c \notin aborted

\* What "Is user... part of group..." prints last, in a run without failures:
\* user2 is in group2, and nobody else is anywhere.
CleanRunResult ==
    [][\A c \in clean : line[c] <= Last /\ line'[c] > Last =>
         /\ {decrypt_data(d.encname) : d \in groups} = {"group1", "group2"}
         /\ UNION {{e.name : e \in Range(d.users)} : d \in groups}
              = {salted_hash_name("user2", "group2")}]_sampleVars

\* "ERROR: exception thrown when adding users. Did a previous run fail?"
\* (mongoclient.cpp:46): the users exist after delete_all_data only if a
\* command of a run that failed came late.
UserErrorMeansEarlierFailure ==
    \A c \in clean :
        line[c] \in {3, 4} /\ pc[c] = "idle" => result[c].status = "ok"

\* "OK, exception thrown when adding user1 again" (mongoclient.cpp:83): the
\* index that init_indexes made refuses the second user1.
SecondUserRefused ==
    \A c \in clean :
        /\ line[c] = Len(Setup \o Memberships) + 1 /\ pc[c] = "idle"
        => result[c].status = "duplicate"

\* A run that ends in the middle of its script, delete_user included, before
\* anything else failed leaves no member of a group who is not a registered
\* user: memberships are removed before users (lines 130-137 of
\* MongoDatabase.cpp), and made after them.  In delete_all_data, line 1 of the
\* script, it is the other way round.
CrashLeavesNoOrphan ==
    \A c \in Client :
        /\ pc[c] = "crashed" /\ line[c] > 1 /\ faults = 1
        /\ \A o \in Client \ {c} : line[o] = 0
        => \A d \in groups : \A e \in Range(d.users) : \E x \in users :
                \E u \in User : /\ x.name = hash_name(u)
                               /\ e.name = salted_hash_name(u, decrypt_data(d.encname))
=============================================================================

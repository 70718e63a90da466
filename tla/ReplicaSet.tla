----------------------------- MODULE ReplicaSet -----------------------------
(***************************************************************************)
(* MongoDatabase over the replica set README.md and mongodb-service.yml    *)
(* deploy: a primary, and a secondary that repeats the primary's writes    *)
(* later, in their order.  The read preferences of the code decide which   *)
(* of the two a read reaches: get_keys_of_group prefers the secondary,     *)
(* is_user_part_of_group, reencrypt_user_key and the scan of delete_user   *)
(* prefer the primary, everything else needs it.  Writes are acknowledged  *)
(* by the primary alone (the default write concern), so an election may    *)
(* undo them.                                                              *)
(***************************************************************************)
EXTENDS MongoDatabase, Sequences

CONSTANT MaxOutages  \* bound: how often the primary goes down

ASSUME ReplicaConstants ==
    /\ MaxOutages \in Nat
    /\ "init_indexes" \notin Ops  \* both servers have the indexes already

VARIABLES
    copyUsers, copyGroups,  \* the secondary's collections
    oplog,     \* writes of the primary the secondary has not repeated yet
    up,        \* whether there is a primary
    cursor,    \* the server of each client's last scan, or "lost"
    blind,     \* history: the clients whose last scan saw old data or was cut
    outages    \* how often the primary went down

copy        == <<copyUsers, copyGroups>>
replicaVars == <<vars, copy, oplog, up, cursor, blind, outages>>

\* The read actions of MongoDatabase, on the secondary's collections.
Secondary == INSTANCE MongoDatabase WITH users  <- copyUsers,
                                         groups <- copyGroups

-----------------------------------------------------------------------------
(* The replica set *)

Logged == oplog' = IF UNCHANGED <<users, groups>> THEN oplog
                   ELSE Append(oplog, [users |-> users', groups |-> groups'])

\* The secondary repeats the next write.
Replicate ==
    /\ oplog # <<>>
    /\ copyUsers' = Head(oplog).users
    /\ copyGroups' = Head(oplog).groups
    /\ oplog' = Tail(oplog)
    /\ UNCHANGED <<vars, up, cursor, blind, outages>>

\* The primary goes down, and with it what clients had asked it to do.
StepDown ==
    /\ up /\ outages < MaxOutages
    /\ up' = FALSE /\ outages' = outages + 1
    /\ inflight' = {}
    /\ cursor' = [c \in Client |->
                    IF cursor[c] = "primary" THEN "lost" ELSE cursor[c]]
    /\ UNCHANGED <<data, pc, call, loc, seq, result, faults, rivals, copy,
                   oplog, blind>>

\* The same server is primary again.
Resume == ~up /\ up' = TRUE
          /\ UNCHANGED <<vars, copy, oplog, cursor, blind, outages>>

\* The secondary becomes the primary; what it had not repeated is rolled back.
Elect ==
    /\ ~up /\ up' = TRUE
    /\ users' = copyUsers /\ groups' = copyGroups
    /\ oplog' = <<>>
    /\ cursor' = [c \in Client |->
                    IF cursor[c] = "secondary" THEN "primary" ELSE cursor[c]]
    /\ Watch({})
    /\ UNCHANGED <<indexed, inflight, pc, call, loc, seq, result, faults, copy,
                   blind, outages>>

-----------------------------------------------------------------------------
(* The round trips of the clients *)

\* A round trip to the primary.  A scan goes on where it was opened.
ToPrimary(c) ==
    /\ up
    /\ pc[c] = "scan" => cursor[c] = "primary"
    /\ Step(c)
    /\ Logged
    /\ \/ /\ pc[c] = "scan_open"
          /\ cursor' = [cursor EXCEPT ![c] = "primary"]
          /\ blind' = blind \ {c}
       \/ pc[c] # "scan_open" /\ UNCHANGED <<cursor, blind>>
    /\ UNCHANGED <<copy, up, outages>>

\* Mutant of PreferPrimary: any server will do.
MutantPreferPrimary(c) ==
    Secondary!is_user_part_of_group(c) \/ Secondary!reencrypt_user_key(c)

\* MONGOC_READ_PRIMARY_PREFERRED
PreferPrimary(c) ==
    ~up /\ (Secondary!is_user_part_of_group(c) \/ Secondary!reencrypt_user_key(c))

\* MONGOC_READ_SECONDARY_PREFERRED
PreferSecondary(c) == Secondary!get_keys_of_group(c)

ScanSecondary(c) ==
    \/ /\ ~up /\ Secondary!scan_open(c)
       /\ cursor' = [cursor EXCEPT ![c] = "secondary"]
       /\ blind' = IF oplog = <<>> THEN blind \ {c} ELSE blind \cup {c}
    \/ /\ cursor[c] = "secondary"
       /\ Secondary!scan_next(c) \/ Secondary!scan_end(c)
       /\ UNCHANGED <<cursor, blind>>

\* A cursor that was lost ends like one that returned everything.
ScanLost(c) ==
    /\ pc[c] = "scan" /\ cursor[c] = "lost"
    /\ Read
    /\ IF loc[c].held = {}
         THEN Return(c, "empty_bulk")
         ELSE Goto(c, "bulk", [loc[c] EXCEPT !.unread = {}])
    /\ blind' = blind \cup {c}
    /\ UNCHANGED cursor

\* Mutant of NoPrimary: the status of the bulk is not looked at.
MutantNoPrimary(c) ==
    /\ ~up /\ Read
    /\ \/ pc[c] = "bulk" /\ Goto(c, "delete_user", Fresh)
       \/ /\ pc[c] \in {"add_update", "remove_update", "insert_group", "delete_user"}
          /\ Return(c, "db_error")
    /\ UNCHANGED <<cursor, blind>>

\* What needs the primary fails while there is none: the reads of the retry
\* loops look like reads that found nothing, everything else throws.
NoPrimary(c) ==
    /\ ~up /\ Read
    /\ \/ pc[c] \in {"add_find", "remove_find"} /\ Return(c, "ok")
       \/ /\ pc[c] \in {"add_update", "remove_update", "insert_group",
                        "create_user", "bulk", "delete_user", "delete_users",
                        "delete_groups", "ping"}
          /\ Return(c, "db_error")
    /\ UNCHANGED <<cursor, blind>>

NotToPrimary(c) ==
    /\ \/ (PreferPrimary(c) \/ PreferSecondary(c)) /\ UNCHANGED <<cursor, blind>>
       \/ ScanSecondary(c) \/ ScanLost(c) \/ NoPrimary(c)
    /\ UNCHANGED <<server, copy, oplog, up, call, seq, outages, rivals>>

-----------------------------------------------------------------------------
ReplicaInit ==
    /\ Init
    /\ copyUsers = users /\ copyGroups = groups
    /\ oplog = <<>>
    /\ up = TRUE
    /\ cursor = [c \in Client |-> "lost"]
    /\ blind = {}
    /\ outages = 0

Local == UNCHANGED <<copy, oplog, up, cursor, blind, outages>>

\* What a process sends when there is no primary reaches nobody.
CrashOf(c) == Crash(c) /\ (up \/ UNCHANGED inflight) /\ Local

ReplicaNext ==
    \/ \E c \in Client : \/ ToPrimary(c) \/ NotToPrimary(c)
                         \/ Invoke(c) /\ Local
                         \/ CrashOf(c)
    \/ \E cmd \in inflight :
         /\ up /\ Deliver(cmd) /\ Logged
         /\ UNCHANGED <<copy, up, cursor, blind, outages>>
    \/ Replicate \/ StepDown \/ Resume \/ Elect
    \/ Done /\ Local

ReplicaSpec == ReplicaInit /\ [][ReplicaNext]_replicaVars

-----------------------------------------------------------------------------
(* Properties *)

\* Updates that were computed from what an election undid, and sent to the new
\* primary, find their old signature gone: on both servers every signature
\* covers the content beside it, and nobody is a member twice.
ReplicasSound ==
    /\ SignaturesValid /\ UniqueMembers
    /\ Secondary!SignaturesValid /\ Secondary!UniqueMembers

\* However far the secondary is behind, what a single client writes is right
\* as long as the primary stays up and answers: no read that feeds a write (lines
\* 328 and 530) is answered from an old copy.
LagReachesNoWrite ==
    outages = 0 /\ faults = 0 /\ (\E c \in Client : \A o \in Client \ {c} : seq[o] = 0) =>
        MembersRegistered

\* delete_user reaches the deletion of the user with memberships left only if
\* its scan saw an old copy or was cut off, others changed groups meanwhile (an
\* election included), or a round trip failed.
OutUnlessBlind ==
    \A c \in Client :
        /\ pc[c] = "delete_user" /\ c \notin blind
        /\ rivals[c] = 0 /\ faults = 0
        => \A d \in groups :
             ~HasUser(d, salted_hash_name(call[c].user, decrypt_data(d.encname)))
=============================================================================

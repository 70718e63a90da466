-------------------------- MODULE MCEnclaveSample ---------------------------
(***************************************************************************)
(* Two runs of the sample program for TLC, from a database in which an     *)
(* older program left its users and groups.                                *)
(***************************************************************************)
EXTENDS EnclaveSample

CONSTANTS k1

OldUsers  == [u \in User |-> k1]
OldGroups == [g \in Group |-> <<"user1", "user2">>]
NoIndexes == {}
=============================================================================

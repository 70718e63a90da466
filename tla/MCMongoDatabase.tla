-------------------------- MODULE MCMongoDatabase ---------------------------
(***************************************************************************)
(* Instances of MongoDatabase for TLC: what the server stores at the start.*)
(***************************************************************************)
EXTENDS MongoDirectory

CONSTANTS u1, u2, g1, g2, k1, k2, k3

OneUser   == [u \in {u1} |-> k1]
TwoUsers  == [u \in {u1, u2} |-> k1]

NoGroups     == <<>>
GroupOfU1    == [g \in {g1} |-> <<u1>>]
TwoGroups    == [g \in {g1, g2} |-> IF g = g1 THEN <<u1>> ELSE <<>>]

MembershipOps == {"add_user_to_group", "remove_user_from_group", "create_group"}
AddRemoveOps  == {"add_user_to_group", "remove_user_from_group"}
QueryOps      == MembershipOps \cup {"is_user_part_of_group"}
DeletionOps   == {"delete_user", "add_user_to_group", "create_group",
                  "delete_all_data"}
BothIndexes   == Collection
NoIndexes     == {}
=============================================================================

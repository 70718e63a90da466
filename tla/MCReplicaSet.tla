---------------------------- MODULE MCReplicaSet ----------------------------
(***************************************************************************)
(* An instance of ReplicaSet for TLC: what both servers store at the start.*)
(***************************************************************************)
EXTENDS ReplicaSet, TLC, Functions

CONSTANTS u1, u2, g1, k1

TwoUsers    == [u \in {u1, u2} |-> k1]
GroupOfU1   == [g \in {g1} |-> <<u1>>]
ReplicaOps  == {"delete_user", "add_user_to_group", "get_keys_of_group"}
BothIndexes == Collection

\* The clients differ in nothing but their names.
Clients == Permutations(Client)

\* Bounds the search: three calls in all, and one outage or one fault.
FewEvents == FoldFunctionOnSet(+, 0, seq, Client) <= 3 /\ faults + outages <= 1
=============================================================================

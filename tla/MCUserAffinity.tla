-------------------------- MODULE MCUserAffinity ---------------------------
(* Small instances of UserAffinity: the requests of a popular user (hash 1), *)
(* one of a second user (hash 0) and one without a user id.                *)
EXTENDS UserAffinity

MCUsers == {"u1", "u2"}
MCRequests == {"q1", "q2", "q3", "q4"}
MCUserOf == [q1 |-> "u1", q2 |-> "u1", q3 |-> "u1", q4 |-> "u2"]
MCCrc32 == [u1 |-> 1, u2 |-> 0]

FewRequests == {"q1", "q2", "x"}
FewUserOf == [q1 |-> "u1", q2 |-> "u1", x |-> "none"]

OneReplica == <<1>>
TwoReplicas == <<1, 2>>
=============================================================================

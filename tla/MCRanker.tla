------------------------------ MODULE MCRanker -----------------------------
(* Small instances of RankerForward and Ranker.  "b" and "c" collide in    *)
(* the item table, "a" scores below them for u1 and above for u2.          *)
EXTENDS Ranker

MCUsers == {"u1", "u2"}
MCCandidates == {"a", "b", "c"}
MCItemIndex == [a |-> 0, b |-> 1, c |-> 1]
MCScore == [u1 |-> (0 :> 1 @@ 1 :> 2), u2 |-> (0 :> 4 @@ 1 :> 3)]

MCRequests == {"q1", "q2", "q3"}
MCRequestOf ==
    [q1 |-> [user_id |-> "u1", candidate_ids |-> <<"a", "b", "a">>],
     q2 |-> [user_id |-> "u2", candidate_ids |-> <<>>],
     q3 |-> [user_id |-> "u1", candidate_ids |-> <<"c", "a", "b">>],
     q4 |-> [user_id |-> "u2", candidate_ids |-> <<"b", "a">>]]
FourRequests == {"q1", "q2", "q3", "q4"}

MCReplicas == {"r1", "r2"}
MCOtherScore == [r1 |-> [u1 |-> (0 :> 5 @@ 1 :> 6), u2 |-> (0 :> 5 @@ 1 :> 5)],
                 r2 |-> [u1 |-> (0 :> 8 @@ 1 :> 7), u2 |-> (0 :> 7 @@ 1 :> 8)]]
=============================================================================

---------------------------- MODULE MCLoadTest -----------------------------
(* Requests, two at a time, through slots and a queue that is shorter than *)
(* the permits, or just as long.                                           *)
EXTENDS LoadTest, TLC

CONSTANTS r1, r2, r3, r4

Interchangeable == Permutations(Requests)
=============================================================================

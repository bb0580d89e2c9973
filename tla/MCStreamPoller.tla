-------------------------- MODULE MCStreamPoller ---------------------------
(* Small instances of StreamPoller.  Messages with a prompt are            *)
(* interchangeable.                                                        *)
EXTENDS StreamPoller, TLC

CONSTANTS m1, m2, m3, p1

GoodSymmetry == Permutations(Messages \ Poison)

\* A SUBSET of the disruptions, by what they touch.
AllFaults == FaultKinds
Deliveries == FaultKinds \ {"receive"}
=============================================================================

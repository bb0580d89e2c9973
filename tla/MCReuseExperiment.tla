------------------------- MODULE MCReuseExperiment -------------------------
(* Two replicas; a prefix of nine tokens to one of the question, a short   *)
(* one for the warm-up.                                                    *)
EXTENDS ReuseExperiment

MCPrefixTokens == [warm |-> 2, shared |-> 9]
=============================================================================

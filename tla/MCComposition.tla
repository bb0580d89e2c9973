--------------------------- MODULE MCComposition ---------------------------
(* A question about two keys of the table on each endpoint, and one about  *)
(* none.                                                                   *)
EXTENDS Composition

MCFAQ == <<"hours", "pricing", "status">>
MCRequests == {"faq body", "faq stream", "body", "stream"}
MCStreaming == {"faq stream", "stream"}
MCMentions == [q \in MCRequests |-> IF q \in {"faq body", "faq stream"}
                                    THEN {"pricing", "status"} ELSE {}]
=============================================================================

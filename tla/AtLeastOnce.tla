---------------------------- MODULE AtLeastOnce ----------------------------
(***************************************************************************)
(* What a queue consumer promises the producers of a queue, and nothing of *)
(* how: a message is accepted, its result is stored (possibly again and    *)
(* again, a redelivery repeats the work), and it is retired from the queue *)
(* only once a result is stored.  poller.py:11-12 states the promise:      *)
(* "A message is deleted only AFTER its result lands."                     *)
(***************************************************************************)
CONSTANT Messages       \* the messages producers may send

VARIABLES
    accepted,           \* messages the queue has taken from a producer
    results,            \* messages whose result is durably stored
    retired             \* messages deleted from the queue

vars == <<accepted, results, retired>>

Init == accepted = {} /\ results = {} /\ retired = {}

Accept(m) ==
    /\ m \notin accepted
    /\ accepted' = accepted \cup {m}
    /\ UNCHANGED <<results, retired>>

Store(m) ==
    /\ m \in accepted
    /\ results' = results \cup {m}
    /\ UNCHANGED <<accepted, retired>>

Retire(m) ==
    /\ m \in results
    /\ retired' = retired \cup {m}
    /\ UNCHANGED <<accepted, results>>

Next == \E m \in Messages : Accept(m) \/ Store(m) \/ Retire(m)

Spec == Init /\ [][Next]_vars
=============================================================================

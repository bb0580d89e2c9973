------------------------ MODULE PolicyExternalTarget -----------------------
(***************************************************************************)
(* classic/custom_autoscaling/policy_external_target.py: the state of the  *)
(* policy object, [desired_replicas, since_poll], over its calls.  Time    *)
(* since the last poll is counted in control-loop ticks, up to the poll    *)
(* interval.                                                               *)
(***************************************************************************)
EXTENDS Integers

CONSTANTS
    Unreadable,         \* the file is missing, torn or not the expected JSON
    PollInterval        \* poll_interval_s in ticks

ASSUME PollIntervalAssumption == PollInterval \in Nat \ {0}
ASSUME UnreadableAssumption == Unreadable \notin Nat

\* Mutant of FreshObject: the interval starts with the object.
FreshObjectWaits == [desired_replicas |-> 1, since_poll |-> 0]

\* __init__: the last poll is at the epoch, so the first call polls.
FreshObject == [desired_replicas |-> 1, since_poll |-> PollInterval]

ReadTarget(object, file) ==
    IF file = Unreadable THEN object.desired_replicas ELSE file

\* _maybe_poll, and the tick that passes before the next call.  The interval
\* starts over after a failed read too.
MaybePoll(object, file) ==
    IF object.since_poll = PollInterval
    THEN [desired_replicas |-> ReadTarget(object, file), since_poll |-> 1]
    ELSE [object EXCEPT !.since_poll = @ + 1]
=============================================================================

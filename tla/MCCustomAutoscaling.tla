------------------------ MODULE MCCustomAutoscaling ------------------------
(* Small instances of CustomAutoscaling: three replicas, readings on each  *)
(* side of the marks, queue depths on each side of one, two and three      *)
(* limits of a replica.                                                    *)
EXTENDS CustomAutoscaling

Args(policy, min, max) ==
    [policy_function |-> policy, min_replicas |-> min, max_replicas |-> max]

EachPolicy == {Args("resource_pressure", 1, 3), Args("queue_latency", 0, 3),
               Args("external_target", 0, 3), Args("schedule", 1, 3),
               Args("inflight_requests", 1, 3)}
LoadPolicies == {Args("resource_pressure", 1, 2), Args("queue_latency", 0, 2)}
OnlyPressure == {Args("resource_pressure", 1, 3)}
OnlyQueue == {Args("queue_latency", 1, 3)}

Use(c, m) == [cpu |-> c, memory |-> m]
EachSide == {Use(10, 10), Use(10, 60), Use(60, 90), Use(90, 10)}

MCReplicas == 1..3
Depths == {0, 5, 6, 11, 16}
FewDepths == {0, 5, 11}
Rising == {6, 8, 10, 12, 14, 16, 18}
NoTarget == -1
=============================================================================

-------------------------- MODULE ServeAutoscaler --------------------------
(***************************************************************************)
(* What Serve does around a policy's raw target, as classic/               *)
(* custom_autoscaling relies on it (README.md, "The policy contract";      *)
(* app.py:138-141): bounds, then delays counted in control-loop ticks.     *)
(* Serve's code is external.                                               *)
(***************************************************************************)
EXTENDS Integers

CONSTANTS
    UpscaleTicks,       \* upscale_delay_s / control loop interval
    DownscaleTicks      \* downscale_delay_s / control loop interval

ASSUME DelaysAssumption == UpscaleTicks \in Nat /\ DownscaleTicks \in Nat

Bounded(raw, low, high) == IF raw < low THEN low
                           ELSE IF raw > high THEN high
                           ELSE raw

\* The run of ticks asking for more (positive) or fewer (negative) replicas
\* than the target; a tick that asks for neither starts over.
Streak(counter, target, wanted) ==
    IF wanted > target THEN (IF counter > 0 THEN counter ELSE 0) + 1
    ELSE IF wanted < target THEN (IF counter < 0 THEN counter ELSE 0) - 1
    ELSE 0

DelayOver(streak) == streak > UpscaleTicks \/ streak < -DownscaleTicks

\* Target and counter after one tick with a policy that wants so many.
Decide(counter, target, wanted) ==
    LET streak == Streak(counter, target, wanted)
    IN  IF DelayOver(streak) THEN [target |-> wanted, counter |-> 0]
        ELSE [target |-> target, counter |-> streak]
=============================================================================

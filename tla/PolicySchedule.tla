--------------------------- MODULE PolicySchedule --------------------------
(***************************************************************************)
(* classic/custom_autoscaling/policy_schedule.py: the raw target by the    *)
(* hour of the day, UTC.                                                   *)
(***************************************************************************)
EXTENDS Integers

Hours == 0..23

Schedule(hour) == CASE hour \in 9..16 -> 4
                    [] hour \in 17..19 -> 8
                    [] OTHER -> 1
=============================================================================

----------------------- MODULE PolicyResourcePressure ----------------------
(***************************************************************************)
(* classic/custom_autoscaling/policy_resource_pressure.py: the raw target  *)
(* for a context ctx.  ctx.usage maps each replica that has reported to    *)
(* the cpu_percent and memory_percent it pushed last.                      *)
(***************************************************************************)
EXTENDS Integers

CPU_HIGH == 80
MEMORY_HIGH == 85
CPU_LOW == 30
MEMORY_LOW == 40

\* The worst replica decides.
UnderPressure(use) == use.cpu > CPU_HIGH \/ use.memory > MEMORY_HIGH
AtEase(use) == use.cpu < CPU_LOW /\ use.memory < MEMORY_LOW

\* Mutant of PressureHigh: the best replica decides.
PressureHighOnAll(ctx) == \A r \in DOMAIN ctx.usage : UnderPressure(ctx.usage[r])

PressureHigh(ctx) == \E r \in DOMAIN ctx.usage : UnderPressure(ctx.usage[r])

PressureLow(ctx) == \A r \in DOMAIN ctx.usage : AtEase(ctx.usage[r])

OneMore(ctx) == IF ctx.current + 1 <= ctx.max_replicas THEN ctx.current + 1
                ELSE ctx.max_replicas

OneLess(ctx) == IF ctx.current - 1 >= ctx.min_replicas THEN ctx.current - 1
                ELSE ctx.min_replicas

\* Mutant of ResourcePressure: no report is no load.
ResourcePressureNoHold(ctx) ==
    CASE PressureHigh(ctx) -> OneMore(ctx)
      [] ~PressureHigh(ctx) /\ PressureLow(ctx) -> OneLess(ctx)
      [] OTHER -> ctx.current

\* policy(ctx); without a report it holds what runs.
ResourcePressure(ctx) ==
    CASE DOMAIN ctx.usage = {} -> ctx.current
      [] DOMAIN ctx.usage # {} /\ PressureHigh(ctx) -> OneMore(ctx)
      [] DOMAIN ctx.usage # {} /\ ~PressureHigh(ctx) /\ PressureLow(ctx) -> OneLess(ctx)
      [] OTHER -> ctx.current
=============================================================================

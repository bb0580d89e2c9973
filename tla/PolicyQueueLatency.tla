------------------------- MODULE PolicyQueueLatency ------------------------
(***************************************************************************)
(* classic/custom_autoscaling/policy_queue_latency.py: the raw target for  *)
(* a context ctx, whose policy_state is what the previous tick returned.   *)
(***************************************************************************)
EXTENDS Integers

QUEUED_PER_REPLICA_LIMIT == 5

AtLeastOne(ctx) == IF ctx.current > 1 THEN ctx.current ELSE 1

Growing(ctx) == ctx.queued > ctx.policy_state

Deep(ctx) == ctx.queued > QUEUED_PER_REPLICA_LIMIT * AtLeastOne(ctx)

\* How many limits deep the queue of one replica is, at least one.
Behind(ctx) == LET limits == ctx.queued \div (QUEUED_PER_REPLICA_LIMIT * AtLeastOne(ctx))
               IN  IF limits > 1 THEN limits ELSE 1

\* Mutant of Idle: the running requests are forgotten.
IdleQueue(ctx) == ctx.queued = 0

Idle(ctx) == ctx.queued = 0 /\ ctx.total < AtLeastOne(ctx)

\* Mutant of QueueLatency: it holds what runs, which may be nothing.
QueueLatencyHoldsNone(ctx) ==
    CASE Deep(ctx) /\ Growing(ctx) -> AtLeastOne(ctx) + Behind(ctx)
      [] ~(Deep(ctx) /\ Growing(ctx)) /\ Idle(ctx) -> AtLeastOne(ctx) - 1
      [] OTHER -> ctx.current

\* policy(ctx)
QueueLatency(ctx) ==
    CASE Deep(ctx) /\ Growing(ctx) -> AtLeastOne(ctx) + Behind(ctx)
      [] ~(Deep(ctx) /\ Growing(ctx)) /\ Idle(ctx) -> AtLeastOne(ctx) - 1
      [] OTHER -> AtLeastOne(ctx)

\* Mutant of Remembered: the wrong one of the two counts.
RememberedTotal(ctx) == ctx.total

\* policy_state["queued"] of the next tick.
Remembered(ctx) == ctx.queued
=============================================================================

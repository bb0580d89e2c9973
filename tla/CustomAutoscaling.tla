------------------------- MODULE CustomAutoscaling -------------------------
(***************************************************************************)
(* classic/custom_autoscaling: a deployment of Worker replicas under one   *)
(* of its four policies, or of Rankers under the default one of notebook   *)
(* 02, which Serve's control loop calls on every tick.                     *)
(* Replicas start late, report late and crash; queue depths reach the      *)
(* controller once per push; the control plane rewrites its file; the hour *)
(* passes; the controller restarts.                                        *)
(***************************************************************************)
EXTENDS ServeAutoscaler, PolicyResourcePressure, PolicyQueueLatency,
        PolicyExternalTarget, PolicySchedule, PolicyInflight, FiniteSets

CONSTANTS
    Deployments,        \* the AutoscalingArgs a deployment may be built with
    ReplicaIds,         \* ids of the replicas Serve may run
    Uses,               \* the [cpu, memory] percentages a replica may report
    QueueDepths,        \* the queue depths that may be pushed
    MaxBusy,            \* bound on the requests running beside them
    PushTicks,          \* metric push interval / control loop interval
    Published,          \* replica counts the control plane writes
    MaxFaults           \* bound on replica crashes and controller restarts

Policies == {"resource_pressure", "queue_latency", "external_target", "schedule",
             "inflight_requests"}

ASSUME DeploymentsAssumption ==
    \A d \in Deployments :
      /\ d \in [policy_function : Policies, min_replicas : Nat,
                max_replicas : Nat \ {0}]
      /\ d.min_replicas <= d.max_replicas
      /\ d.max_replicas <= Cardinality(ReplicaIds)
ASSUME ReplicaIdsAssumption == IsFiniteSet(ReplicaIds)
ASSUME LoadAssumption == /\ Uses \subseteq [cpu : Nat, memory : Nat]
                         /\ QueueDepths \subseteq Nat
                         /\ MaxBusy \in Nat /\ PushTicks \in Nat \ {0}
ASSUME PublishedAssumption == Published \subseteq Nat /\ MaxFaults \in Nat

VARIABLES
    args,               \* the AutoscalingArgs of this deployment
    running,            \* replicas that are up
    usage,              \* of the replicas that reported: what they pushed last
    queued, total,      \* total_queued_requests, total_num_requests as pushed
    policy_state,       \* policy_state["queued"]
    object,             \* the ExternalTargetPolicy object
    file, hour,         \* what it reads, what the schedule reads
    target, decision_counter,
    since_push,         \* ticks since the last push of the queue depth
    behind,             \* history: pushes in a row that were deep and growing,
                        \* since capacity was last added
    settled,            \* history: ticks since file, hour or load changed, capped
    faults

world == <<queued, total, file, hour>>
serve == <<target, decision_counter>>
memory == <<policy_state, object>>
history == <<behind, settled>>
vars == <<args, running, usage, world, memory, serve, since_push, history, faults>>

-----------------------------------------------------------------------------
Runs(policy) == args.policy_function = policy

AutoscalingContext ==
    [current |-> Cardinality(running), target |-> target, usage |-> usage, queued |-> queued,
     total |-> total, policy_state |-> policy_state,
     min_replicas |-> args.min_replicas, max_replicas |-> args.max_replicas]

\* The raw target of this tick.
RawTarget ==
    CASE Runs("resource_pressure") -> ResourcePressure(AutoscalingContext)
      [] Runs("queue_latency") -> QueueLatency(AutoscalingContext)
      [] Runs("external_target") -> MaybePoll(object, file).desired_replicas
      [] Runs("schedule") -> Schedule(hour)
      [] Runs("inflight_requests") -> InflightRequests(AutoscalingContext)

InBounds(raw) == Bounded(raw, args.min_replicas, args.max_replicas)

\* By then a file or an hour that has not changed must have become the target.
Patience == PollInterval
            + (IF UpscaleTicks > DownscaleTicks THEN UpscaleTicks ELSE DownscaleTicks)

Init ==
    /\ args \in Deployments
    /\ running = {}
    /\ usage = [r \in {} |-> 0]
    /\ queued = 0 /\ total = 0
    /\ policy_state = 0
    /\ object = FreshObject
    /\ file \in IF Runs("external_target") THEN Published \cup {Unreadable}
                ELSE {Unreadable}
    /\ hour = 0
    /\ target = args.min_replicas /\ decision_counter = 0
    /\ since_push = 0
    /\ behind = 0 /\ settled = 0
    /\ faults = 0

-----------------------------------------------------------------------------
(* The controller.                                                         *)

\* Only these replicas are left, and what they reported.
Keep(S) ==
    /\ running' = S
    /\ usage' = [r \in S \cap DOMAIN usage |-> usage[r]]

ReadsQueue == Runs("queue_latency") \/ Runs("inflight_requests")

PushDue == ReadsQueue /\ since_push = PushTicks

\* Without a replica the default policy sees no load.
Blind == Runs("inflight_requests") /\ running = {}

\* One tick: the policy, Serve's bounds and delays, and the end of the replicas
\* beyond a lowered target.
ControlLoop ==
    /\ ~PushDue
    /\ \E d \in {Decide(decision_counter, target, InBounds(RawTarget))} :
         /\ target' = d.target
         /\ decision_counter' = d.counter
         /\ behind' = IF d.target > target THEN 0 ELSE behind
         /\ \E S \in SUBSET running :
              /\ Cardinality(S) = IF Cardinality(running) <= d.target
                                  THEN Cardinality(running) ELSE d.target
              /\ Keep(S)
    /\ policy_state' = IF Runs("queue_latency") THEN Remembered(AutoscalingContext)
                       ELSE policy_state
    /\ object' = IF Runs("external_target") THEN MaybePoll(object, file) ELSE object
    /\ since_push' = IF ReadsQueue THEN since_push + 1 ELSE 0
    /\ settled' = IF Blind THEN 0
                  ELSE IF settled < Patience THEN settled + 1 ELSE settled
    /\ UNCHANGED <<args, world, faults>>

Start(r) ==
    /\ Cardinality(running) < target
    /\ r \in ReplicaIds \ running
    /\ running' = running \cup {r}
    /\ UNCHANGED <<args, usage, world, memory, serve, since_push, history, faults>>

Strike == faults < MaxFaults /\ faults' = faults + 1

Crash(r) ==
    /\ r \in running
    /\ Strike
    /\ Keep(running \ {r})
    /\ UNCHANGED <<args, world, memory, serve, since_push, history>>

\* The target survives; the policy object and the delays start afresh.
ControllerRestart ==
    /\ Runs("external_target")
    /\ Strike
    /\ object' = FreshObject
    /\ decision_counter' = 0
    /\ settled' = 0
    /\ UNCHANGED <<args, running, usage, world, policy_state, target, since_push,
                   behind>>

-----------------------------------------------------------------------------
(* What the policies read.                                                 *)

\* record_autoscaling_stats, pushed to the controller.
PushUsage(r, use) ==
    /\ Runs("resource_pressure")
    /\ r \in running
    /\ usage' = [s \in DOMAIN usage \cup {r} |->
                   IF s = r THEN use ELSE usage[s]]
    /\ UNCHANGED <<args, running, world, memory, serve, since_push, history, faults>>

PushQueue(q, busy) ==
    /\ PushDue
    /\ queued' = q
    /\ total' = q + busy
    /\ since_push' = 0
    /\ behind' = IF /\ Runs("queue_latency") /\ q > queued
                    /\ q > QUEUED_PER_REPLICA_LIMIT * AtLeastOne(AutoscalingContext)
                 THEN behind + 1 ELSE 0
    /\ settled' = IF Runs("inflight_requests") /\ total' # total THEN 0 ELSE settled
    /\ UNCHANGED <<args, running, usage, file, hour, memory, serve, faults>>

Write(v) ==
    /\ Runs("external_target")
    /\ v # file
    /\ file' = v
    /\ settled' = 0
    /\ UNCHANGED <<args, running, usage, queued, total, hour, memory, serve,
                   since_push, behind, faults>>

\* Only the hour at which a window starts is told apart from the others.
HourPasses ==
    /\ Runs("schedule")
    /\ hour' = (hour + 1) % 24
    /\ settled' = IF Schedule(hour') = Schedule(hour) THEN settled ELSE 0
    /\ UNCHANGED <<args, running, usage, queued, total, file, memory, serve,
                   since_push, behind, faults>>

-----------------------------------------------------------------------------
Next ==
    \/ ControlLoop \/ ControllerRestart \/ HourPasses
    \/ \E r \in ReplicaIds : \/ Start(r) \/ Crash(r)
                             \/ \E use \in Uses : PushUsage(r, use)
    \/ \E q \in QueueDepths, busy \in 0..MaxBusy : PushQueue(q, busy)
    \/ \E v \in Published \cup {Unreadable} : Write(v)

Spec == Init /\ [][Next]_vars

\* The loop ticks and queue depths are pushed for ever, and replicas that are
\* wanted come up; what is reported, written or crashes is anybody's choice.
FairSpec ==
    /\ Spec
    /\ WF_vars(ControlLoop)
    /\ WF_vars(\E r \in ReplicaIds : Start(r))
    /\ WF_vars(\E q \in QueueDepths, busy \in 0..MaxBusy : PushQueue(q, busy))

-----------------------------------------------------------------------------
(* Properties.                                                             *)

\* Every variable has its type; the target and the replicas stay in the bounds
\* the deployment was built with, and no delay is overrun, whatever the policy.
TypeOK ==
    /\ args \in Deployments
    /\ running \subseteq ReplicaIds /\ Cardinality(running) <= target
    /\ DOMAIN usage \subseteq running /\ usage \in [DOMAIN usage -> Uses]
    /\ queued \in QueueDepths \cup {0} /\ total \in queued..(queued + MaxBusy)
    /\ policy_state \in QueueDepths \cup {0}
    /\ object \in [desired_replicas : Published \cup {1}, since_poll : 0..PollInterval]
    /\ file \in Published \cup {Unreadable} /\ hour \in Hours
    /\ target \in args.min_replicas..args.max_replicas
    /\ decision_counter \in (-DownscaleTicks)..UpscaleTicks
    /\ since_push \in 0..PushTicks
    /\ behind \in Nat /\ settled \in 0..Patience /\ faults \in 0..MaxFaults

\* What a move of the target downwards may be, whatever the policy reads: it gives up
\* replicas that are not there yet, or not there any more, and none that runs.
GivesUpMissing == Cardinality(running) < target /\ target' >= Cardinality(running)

\* On resource pressure a replica is only added for one that reports pressure, one
\* more than run.  One that runs is only given away, one at a time, while every
\* replica that reports is below the low marks and at least one reports: not for a
\* replica that just started, crashed or has not reported.  Otherwise the target only
\* falls to forget missing replicas (policy_resource_pressure.py:45-62).
PressureMovesForCause ==
    [][Runs("resource_pressure") =>
         /\ target' > target =>
              /\ target' = Cardinality(running) + 1
              /\ \E r \in DOMAIN usage : usage[r].cpu > CPU_HIGH
                                         \/ usage[r].memory > MEMORY_HIGH
         /\ target' < target =>
              \/ GivesUpMissing
              \/ /\ target' = Cardinality(running) - 1
                 /\ DOMAIN usage # {}
                 /\ \A r \in DOMAIN usage :
                      usage[r].cpu < CPU_LOW /\ usage[r].memory < MEMORY_LOW]_vars

\* While any replica stays under pressure, though others idle, start and crash,
\* the deployment ends up, and stays, with as many as it may have.
PressureFillsUp ==
    <>[](Runs("resource_pressure") /\ PressureHigh(AutoscalingContext))
      => <>[](target = args.max_replicas)

\* On queue latency the target grows only while the queue is deep for the replicas
\* that run, taken as one if none does, and deeper than at the tick before, or to the
\* first replica for requests that wait at zero.  A replica that runs is only given
\* away, one at a time, while nothing is queued and fewer requests run than replicas.
\* Otherwise the target only falls to forget missing replicas
\* (policy_queue_latency.py:39-51).
QueueMovesForCause ==
    [][Runs("queue_latency") =>
         /\ target' > target =>
              \/ /\ queued > QUEUED_PER_REPLICA_LIMIT
                 /\ queued > QUEUED_PER_REPLICA_LIMIT * Cardinality(running)
                 /\ policy_state < queued
              \/ target = 0 /\ target' = 1 /\ total > 0
         /\ target' < target =>
              \/ GivesUpMissing
              \/ /\ target' = Cardinality(running) - 1
                 /\ queued = 0 /\ total < Cardinality(running)]_vars

\* A deployment scaled to zero comes back for requests that keep waiting, deep
\* queue or not (the max in policy_queue_latency.py:39).
WakesUp == <>[](Runs("queue_latency") /\ total > 0) => <>[](target > 0)

\* A target published in the file, that of the hour, and that of a load that no
\* longer changes, is the deployment's target one poll interval and one delay
\* later, whatever reads failed, files were torn, restarts forgot and replicas
\* crashed before (policy_external_target.py:46-61, notebook 02 section 6).
WishHonouredInTime ==
    settled = Patience =>
      /\ Runs("external_target") /\ file # Unreadable => target = InBounds(file)
      /\ Runs("schedule") => target = InBounds(Schedule(hour))
      /\ Runs("inflight_requests") =>
           target = InBounds(RoundedUp(total, TARGET_ONGOING_REQUESTS))

\* Stated by README.md:11 of custom_autoscaling, "Saturated but keeping up is fine;
\* saturated and growing is not": a queue that was deep and deeper at every push
\* for longer than the upscale delay has bought a replica.
GrowthBuysCapacity ==
    behind * PushTicks > UpscaleTicks + 2 * PushTicks => target = args.max_replicas
=============================================================================

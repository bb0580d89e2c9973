---------------------- MODULE CustomAutoscaling_proofs ----------------------
(***************************************************************************)
(* What CustomAutoscaling guarantees for every set of deployments, number  *)
(* of replicas, load, delay, poll interval and number of disruptions.      *)
(***************************************************************************)
EXTENDS CustomAutoscaling, FiniteSetTheorems, TLAPS

USE DeploymentsAssumption, ReplicaIdsAssumption, LoadAssumption,
    PublishedAssumption, DelaysAssumption, PollIntervalAssumption,
    UnreadableAssumption

\* The bounds of a deployment are numbers in order, its policy one of the five.
LEMMA ArgsType ==
    ASSUME TypeOK
    PROVE  /\ args.policy_function \in Policies
           /\ args.min_replicas \in Nat /\ args.max_replicas \in Nat \ {0}
           /\ args.min_replicas <= args.max_replicas
           /\ target \in Nat
BY DEF TypeOK

\* The replicas that run can be counted.
LEMMA RunningCount ==
    ASSUME TypeOK
    PROVE  IsFiniteSet(running) /\ Cardinality(running) \in Nat
BY FS_Subset, FS_CardinalityType DEF TypeOK

\* What the policies know of the queue are numbers.
LEMMA QueueType ==
    ASSUME TypeOK
    PROVE  queued \in Nat /\ total \in Nat /\ policy_state \in Nat
BY DEF TypeOK

\* A step of one replica up or down, or a hold, is a number.
LEMMA PressureType ==
    ASSUME NEW ctx, ctx.current \in Nat, ctx.min_replicas \in Nat, ctx.max_replicas \in Nat
    PROVE  ResourcePressure(ctx) \in Int
<1>1. OneMore(ctx) \in Int
  BY DEF OneMore
<1>2. OneLess(ctx) \in Int
  BY DEF OneLess
<1>3. QED
  BY <1>1, <1>2 DEF ResourcePressure

\* The default policy holds a target or divides by what is positive.
LEMMA InflightType ==
    ASSUME NEW ctx, ctx.current \in Nat, ctx.target \in Nat, ctx.total \in Nat
    PROVE  InflightRequests(ctx) \in Int
<1>1. CASE ctx.current = 0
  BY <1>1 DEF InflightRequests
<1>2. CASE ctx.current # 0
  <2> DEFINE n == ctx.current * ctx.total
             d == TARGET_ONGOING_REQUESTS * ctx.current
  <2>1. n \in Int /\ d \in Nat \ {0}
    BY <1>2 DEF TARGET_ONGOING_REQUESTS
  <2> HIDE DEF n, d
  <2>2. RoundedUp(n, d) \in Int
    BY <2>1 DEF RoundedUp
  <2>3. QED
    BY <1>2, <2>2 DEF InflightRequests, n, d
<1>3. QED
  BY <1>1, <1>2

\* Every policy answers a number, whatever it reads.
LEMMA RawTargetType ==
    ASSUME TypeOK PROVE RawTarget \in Int
<1>0. /\ AutoscalingContext.current = Cardinality(running)
      /\ AutoscalingContext.min_replicas = args.min_replicas
      /\ AutoscalingContext.max_replicas = args.max_replicas
  BY DEF AutoscalingContext
<1>1. ResourcePressure(AutoscalingContext) \in Int
  BY <1>0, ArgsType, RunningCount, PressureType
<1>2. QueueLatency(AutoscalingContext) \in Int
  BY RunningCount, QueueType
     DEF AutoscalingContext, QueueLatency, AtLeastOne, Behind, QUEUED_PER_REPLICA_LIMIT
<1>3. MaybePoll(object, file).desired_replicas \in Int
  BY DEF TypeOK, MaybePoll, ReadTarget
<1>4. Schedule(hour) \in Int
  BY DEF TypeOK, Schedule, Hours
<1>5. InflightRequests(AutoscalingContext) \in Int
  <2>1. /\ AutoscalingContext.target = target
        /\ AutoscalingContext.total = total
    BY DEF AutoscalingContext
  <2>2. QED
    BY <1>0, <2>1, ArgsType, RunningCount, QueueType, InflightType
<1>6. QED
  BY <1>1, <1>2, <1>3, <1>4, <1>5, ArgsType DEF RawTarget, Runs, Policies

\* So what Serve makes of it is within the bounds of the deployment.
LEMMA WishInBounds ==
    ASSUME TypeOK
    PROVE  InBounds(RawTarget) \in args.min_replicas..args.max_replicas
BY ArgsType, RawTargetType DEF InBounds, Bounded

\* A tick answers the old target or the wish, and overruns no delay.
LEMMA DecideType ==
    ASSUME NEW c \in (-DownscaleTicks)..UpscaleTicks, NEW t \in Int, NEW w \in Int
    PROVE  /\ Decide(c, t, w).target \in {t, w}
           /\ Decide(c, t, w).counter \in (-DownscaleTicks)..UpscaleTicks
BY DEF Decide, Streak, DelayOver

\* The policy object keeps its types over a call.
LEMMA MaybePollType ==
    ASSUME TypeOK
    PROVE  MaybePoll(object, file) \in
             [desired_replicas : Published \cup {1}, since_poll : 0..PollInterval]
BY DEF TypeOK, MaybePoll, ReadTarget

\* Keeping some of the replicas keeps what is said of them.
LEMMA KeepType ==
    ASSUME TypeOK, NEW S \in SUBSET running, Keep(S)
    PROVE  /\ running' \subseteq ReplicaIds
           /\ DOMAIN usage' \subseteq running' /\ usage' \in [DOMAIN usage' -> Uses]
BY DEF TypeOK, Keep

\* The patience is long enough to be counted.
LEMMA PatienceType == Patience \in Nat \ {0}
BY DEF Patience

\* The initial state has the declared types.
LEMMA InitType == Init => TypeOK
<1> SUFFICES ASSUME Init PROVE TypeOK
  OBVIOUS
<1>1. args.min_replicas \in Nat /\ args.max_replicas \in Nat
        /\ args.min_replicas <= args.max_replicas
  BY DEF Init
<1>2. Cardinality(running) = 0
  BY FS_EmptySet DEF Init
<1>3. object \in [desired_replicas : Published \cup {1}, since_poll : 0..PollInterval]
  BY DEF Init, FreshObject
<1>4. usage \in [DOMAIN usage -> Uses] /\ DOMAIN usage \subseteq running
  BY DEF Init
<1>5. QED
  BY <1>1, <1>2, <1>3, <1>4, PatienceType DEF Init, TypeOK, Hours

\* A tick keeps the declared types, under each policy.
LEMMA ControlLoopType ==
    ASSUME TypeOK, ControlLoop PROVE TypeOK'
<1> DEFINE d == Decide(decision_counter, target, InBounds(RawTarget))
<1>1. /\ d.target \in args.min_replicas..args.max_replicas
      /\ d.counter \in (-DownscaleTicks)..UpscaleTicks
  BY WishInBounds, ArgsType, DecideType DEF TypeOK
<1>2. target' = d.target /\ decision_counter' = d.counter
  BY DEF ControlLoop
<1>3. PICK S \in SUBSET running :
        /\ Cardinality(S) = IF Cardinality(running) <= d.target
                            THEN Cardinality(running) ELSE d.target
        /\ Keep(S)
  BY DEF ControlLoop
<1>4. Cardinality(running') <= target'
  BY <1>1, <1>2, <1>3, RunningCount, ArgsType DEF Keep
<1>5. /\ running' \subseteq ReplicaIds
      /\ DOMAIN usage' \subseteq running' /\ usage' \in [DOMAIN usage' -> Uses]
  BY <1>3, KeepType
<1>6. policy_state' \in QueueDepths \cup {0}
  BY DEF ControlLoop, TypeOK, Remembered, AutoscalingContext
<1>7. object' \in [desired_replicas : Published \cup {1}, since_poll : 0..PollInterval]
  BY MaybePollType DEF ControlLoop, TypeOK
<1>8. since_push' \in 0..PushTicks
  BY DEF ControlLoop, TypeOK, PushDue
<1>9. behind' \in Nat /\ settled' \in 0..Patience
  BY PatienceType DEF ControlLoop, TypeOK
<1>10. UNCHANGED <<args, world, faults>>
  BY DEF ControlLoop
<1>11. QED
  BY <1>1, <1>2, <1>4, <1>5, <1>6, <1>7, <1>8, <1>9, <1>10 DEF TypeOK, world

\* Every step of controller, replicas and surroundings keeps the declared types.
LEMMA NextType == TypeOK /\ [Next]_vars => TypeOK'
<1> SUFFICES ASSUME TypeOK, [Next]_vars PROVE TypeOK'
  OBVIOUS
<1> USE DEF TypeOK, world, memory, serve, history
<1>1. CASE ControlLoop
  BY <1>1, ControlLoopType
<1>2. CASE ControllerRestart
  BY <1>2, PatienceType DEF ControllerRestart, Strike, FreshObject
<1>3. CASE HourPasses
  BY <1>3, PatienceType DEF HourPasses, Hours
<1>4. ASSUME NEW r \in ReplicaIds, Start(r) PROVE TypeOK'
  <2>1. Cardinality(running \cup {r}) = Cardinality(running) + 1
    BY <1>4, RunningCount, FS_AddElement DEF Start
  <2>2. Cardinality(running') <= target'
    BY <1>4, <2>1, RunningCount, ArgsType DEF Start
  <2>3. QED BY <1>4, <2>2 DEF Start
<1>5. ASSUME NEW r \in ReplicaIds, Crash(r) PROVE TypeOK'
  <2>1. Cardinality(running \ {r}) <= Cardinality(running)
    BY RunningCount, FS_Subset
  <2>2. Cardinality(running \ {r}) \in Nat
    BY RunningCount, FS_Subset, FS_CardinalityType
  <2>3. Cardinality(running') <= target'
    BY <1>5, <2>1, <2>2, RunningCount, ArgsType DEF Crash, Keep
  <2>4. /\ running' \subseteq ReplicaIds
        /\ DOMAIN usage' \subseteq running' /\ usage' \in [DOMAIN usage' -> Uses]
    BY <1>5, KeepType DEF Crash
  <2>5. QED BY <1>5, <2>3, <2>4 DEF Crash, Strike
<1>6. ASSUME NEW r \in ReplicaIds, NEW use \in Uses, PushUsage(r, use)
      PROVE  TypeOK'
  BY <1>6 DEF PushUsage
<1>7. ASSUME NEW q \in QueueDepths, NEW busy \in 0..MaxBusy, PushQueue(q, busy)
      PROVE  TypeOK'
  BY <1>7, PatienceType DEF PushQueue
<1>8. ASSUME NEW v \in Published \cup {Unreadable}, Write(v) PROVE TypeOK'
  BY <1>8, PatienceType DEF Write
<1>9. CASE UNCHANGED vars
  BY <1>9 DEF vars
<1>10. QED
  BY <1>1, <1>2, <1>3, <1>4, <1>5, <1>6, <1>7, <1>8, <1>9 DEF Next

\* Whatever the policy reads and the replicas do, the target stays within the
\* bounds the deployment was built with (app.py:135-137), and every variable has
\* its type.
THEOREM AutoscalingTyped == Spec => []TypeOK
BY InitType, NextType, PTL DEF Spec

-----------------------------------------------------------------------------
\* Only a tick moves the target, and it moves it to the wish.
LEMMA OnlyTicksMove ==
    ASSUME TypeOK, [Next]_vars, target' # target
    PROVE  ControlLoop /\ target' = InBounds(RawTarget)
<1>1. ControlLoop
  BY DEF Next, vars, world, serve, ControllerRestart, HourPasses, Start, Crash,
         PushUsage, PushQueue, Write
<1>2. target' = Decide(decision_counter, target, InBounds(RawTarget)).target
  BY <1>1 DEF ControlLoop
<1>3. QED
  BY <1>1, <1>2 DEF Decide

\* A tick moves the target no further than the policy wants: a move up is towards a
\* wish above the target and the lower bound, a move down away from one below the
\* target and the upper bound.
LEMMA MoveIsWish ==
    ASSUME TypeOK, [Next]_vars, target' # target
    PROVE  /\ RawTarget \in Int /\ target' \in Int /\ target \in Int
           /\ target' > target => RawTarget >= target' /\ target' > args.min_replicas
           /\ target' < target => RawTarget <= target' /\ target' < args.max_replicas
           /\ target' \in {RawTarget, args.min_replicas, args.max_replicas}
<1>1. target' = InBounds(RawTarget) /\ RawTarget \in Int
  BY OnlyTicksMove, RawTargetType
<1>2. /\ target \in args.min_replicas..args.max_replicas
      /\ args.min_replicas \in Nat /\ args.max_replicas \in Nat
      /\ args.min_replicas <= args.max_replicas
  BY ArgsType DEF TypeOK
<1>3. QED
  BY <1>1, <1>2 DEF InBounds, Bounded

\* No policy that answers at least what runs gives a replica away that runs.
LEMMA MissingOnly ==
    ASSUME TypeOK, [Next]_vars, target' < target, RawTarget >= Cardinality(running)
    PROVE  GivesUpMissing
<1>1. target \in Nat /\ Cardinality(running) \in Nat
  BY ArgsType, RunningCount
<1>2. RawTarget \in Int /\ target' \in Int /\ RawTarget <= target'
  BY <1>1, MoveIsWish
<1>3. QED
  BY <1>1, <1>2 DEF GivesUpMissing

\* One fewer than run is one fewer, unless the bound has it that none is given away.
LEMMA OneFewer ==
    ASSUME TypeOK, [Next]_vars, target' < target, RawTarget >= Cardinality(running) - 1
    PROVE  GivesUpMissing \/ target' = Cardinality(running) - 1
<1>1. target \in Nat /\ Cardinality(running) \in Nat
  BY ArgsType, RunningCount
<1>2. RawTarget \in Int /\ target' \in Int /\ RawTarget <= target'
  BY <1>1, MoveIsWish
<1>3. QED
  BY <1>1, <1>2 DEF GivesUpMissing

PressureCause ==
    /\ target' > target =>
         /\ target' = Cardinality(running) + 1
         /\ \E r \in DOMAIN usage : usage[r].cpu > CPU_HIGH \/ usage[r].memory > MEMORY_HIGH
    /\ target' < target =>
         \/ GivesUpMissing
         \/ /\ target' = Cardinality(running) - 1
            /\ DOMAIN usage # {}
            /\ \A r \in DOMAIN usage :
                 usage[r].cpu < CPU_LOW /\ usage[r].memory < MEMORY_LOW

\* On resource pressure a replica is only added for one that reports pressure, and one
\* that runs only given away while every replica that reports is idle and one does;
\* all other moves forget replicas that are missing (policy_resource_pressure.py:45-62).
THEOREM PressureMoves == Spec => PressureMovesForCause
<1>1. ASSUME TypeOK, [Next]_vars, Runs("resource_pressure") PROVE PressureCause
  <2> DEFINE ctx == AutoscalingContext
             n == Cardinality(running)
  <2>1. n \in Nat /\ args.min_replicas \in Nat /\ args.max_replicas \in Nat /\ target \in Nat
    BY <1>1, RunningCount, ArgsType
  <2>2. /\ ctx.current = n /\ ctx.usage = usage
        /\ ctx.min_replicas = args.min_replicas /\ ctx.max_replicas = args.max_replicas
    BY DEF AutoscalingContext
  <2>3. RawTarget = ResourcePressure(ctx)
    BY <1>1 DEF RawTarget, Runs
  <2>4. /\ n <= target
        /\ target \in args.min_replicas..args.max_replicas
    BY <1>1 DEF TypeOK
  <2>5. ASSUME target' > target PROVE target' = n + 1 /\ PressureHigh(ctx)
    <3>1. /\ RawTarget \in Int /\ target' \in Int
          /\ RawTarget >= target' /\ target' > args.min_replicas
          /\ target' \in {RawTarget, args.min_replicas, args.max_replicas}
      BY <1>1, <2>1, <2>5, MoveIsWish
    <3>2. RawTarget > n
      BY <2>1, <2>4, <2>5, <3>1
    <3>3. RawTarget # OneLess(ctx)
      BY <2>1, <2>2, <2>4, <2>5, <3>1 DEF OneLess
    <3>4. RawTarget = OneMore(ctx) /\ PressureHigh(ctx)
      BY <2>1, <2>2, <2>3, <3>2, <3>3 DEF ResourcePressure
    <3>5. target' = n + 1
      BY <2>1, <2>2, <2>4, <2>5, <3>1, <3>4 DEF OneMore
    <3>6. QED
      BY <3>4, <3>5
  <2>6. ASSUME target' < target
        PROVE  \/ GivesUpMissing
               \/ (target' = n - 1 /\ DOMAIN usage # {} /\ PressureLow(ctx))
    <3>1. CASE RawTarget >= n
      BY <1>1, <2>6, <3>1, MissingOnly
    <3>2. CASE ~(RawTarget >= n)
      <4>1. RawTarget # n /\ RawTarget # OneMore(ctx)
        BY <2>1, <2>2, <2>4, <3>2 DEF OneMore
      <4>2. RawTarget = OneLess(ctx) /\ DOMAIN usage # {} /\ PressureLow(ctx)
        BY <2>2, <2>3, <4>1 DEF ResourcePressure
      <4>3. RawTarget >= n - 1
        BY <2>1, <2>2, <4>2 DEF OneLess
      <4>4. QED
        BY <1>1, <2>6, <4>2, <4>3, OneFewer
    <3>3. QED
      BY <3>1, <3>2
  <2>7. QED
    BY <2>2, <2>5, <2>6
       DEF PressureCause, PressureHigh, UnderPressure, PressureLow, AtEase
<1>2. TypeOK /\ [Next]_vars => [Runs("resource_pressure") => PressureCause]_vars
  BY <1>1
<1>3. QED
  BY <1>2, AutoscalingTyped, PTL DEF Spec, PressureMovesForCause, PressureCause

-----------------------------------------------------------------------------
QueueCause ==
    /\ target' > target =>
         \/ /\ queued > QUEUED_PER_REPLICA_LIMIT
            /\ queued > QUEUED_PER_REPLICA_LIMIT * Cardinality(running)
            /\ policy_state < queued
         \/ target = 0 /\ target' = 1 /\ total > 0
    /\ target' < target =>
         \/ GivesUpMissing
         \/ /\ target' = Cardinality(running) - 1
            /\ queued = 0 /\ total < Cardinality(running)

\* On queue latency the target grows only for a queue that is deep and deeper than at
\* the tick before, or from zero for requests that wait; a replica that runs is only
\* given away while nothing is queued and fewer requests run than replicas; all other
\* moves forget replicas that are missing (policy_queue_latency.py:39-51).
THEOREM QueueMoves == Spec => QueueMovesForCause
<1>1. ASSUME TypeOK, [Next]_vars, Runs("queue_latency") PROVE QueueCause
  <2> DEFINE ctx == AutoscalingContext
             n == Cardinality(running)
             one == AtLeastOne(ctx)
  <2>1. /\ n \in Nat /\ args.min_replicas \in Nat /\ args.max_replicas \in Nat \ {0}
        /\ target \in Nat /\ queued \in Nat /\ total \in Nat /\ policy_state \in Nat
        /\ queued <= total
    BY <1>1, RunningCount, ArgsType, QueueType DEF TypeOK
  <2>2. /\ ctx.current = n /\ ctx.queued = queued /\ ctx.total = total
        /\ ctx.policy_state = policy_state
    BY DEF AutoscalingContext
  <2>3. one = IF n > 1 THEN n ELSE 1
    BY <2>2 DEF AtLeastOne
  <2>4. RawTarget = QueueLatency(ctx)
    BY <1>1 DEF RawTarget, Runs
  <2>5. Behind(ctx) \in Nat
    BY <2>1, <2>2, <2>3 DEF Behind, QUEUED_PER_REPLICA_LIMIT
  <2>6. n <= target /\ target \in args.min_replicas..args.max_replicas
    BY <1>1 DEF TypeOK
  <2>7. \/ RawTarget = one + Behind(ctx) /\ Deep(ctx) /\ Growing(ctx)
        \/ RawTarget = one - 1 /\ Idle(ctx)
        \/ RawTarget = one /\ ~Idle(ctx)
    BY <2>4 DEF QueueLatency
  <2> HIDE DEF one
  <2>8. ASSUME target' > target
        PROVE  (Deep(ctx) /\ Growing(ctx)) \/ (target = 0 /\ target' = 1 /\ ~Idle(ctx))
    <3>1. /\ RawTarget \in Int /\ target' \in Int
          /\ RawTarget >= target' /\ target' > args.min_replicas
      BY <1>1, <2>1, <2>8, MoveIsWish
    <3>2. CASE RawTarget = one - 1
      BY <2>1, <2>3, <2>6, <2>8, <3>1, <3>2
    <3>3. CASE RawTarget = one /\ ~Idle(ctx)
      BY <2>1, <2>3, <2>6, <2>8, <3>1, <3>3
    <3>4. QED
      BY <2>7, <3>2, <3>3
  <2>9. ASSUME target' < target
        PROVE  GivesUpMissing \/ (target' = n - 1 /\ Idle(ctx) /\ n >= 1)
    <3>1. CASE RawTarget >= n
      BY <1>1, <2>9, <3>1, MissingOnly
    <3>2. CASE ~(RawTarget >= n)
      <4>1. RawTarget = one - 1 /\ Idle(ctx) /\ n >= 1
        BY <2>1, <2>3, <2>5, <2>7, <3>2
      <4>2. RawTarget >= n - 1
        BY <2>1, <2>3, <4>1
      <4>3. QED
        BY <1>1, <2>9, <4>1, <4>2, OneFewer
    <3>3. QED
      BY <3>1, <3>2
  <2>10. Deep(ctx) /\ Growing(ctx) =>
           /\ queued > QUEUED_PER_REPLICA_LIMIT
           /\ queued > QUEUED_PER_REPLICA_LIMIT * n
           /\ policy_state < queued
    BY <2>1, <2>2, <2>3 DEF Deep, Growing, QUEUED_PER_REPLICA_LIMIT, one
  <2>11. ~Idle(ctx) => total > 0
    BY <2>1, <2>2, <2>3 DEF Idle, one
  <2>12. Idle(ctx) /\ n >= 1 => queued = 0 /\ total < n
    BY <2>1, <2>2, <2>3 DEF Idle, one
  <2>13. QED
    BY <2>8, <2>9, <2>10, <2>11, <2>12 DEF QueueCause
<1>2. TypeOK /\ [Next]_vars => [Runs("queue_latency") => QueueCause]_vars
  BY <1>1
<1>3. QED
  BY <1>2, AutoscalingTyped, PTL DEF Spec, QueueMovesForCause, QueueCause

-----------------------------------------------------------------------------
(* How long a wish takes.  A wish that stays is the target, or for k ticks *)
(* now the delay has been counting towards it; there is no delay so long.  *)
Near(t, c, w, k) == \/ k <= 0
                    \/ t = w
                    \/ t < w /\ c >= k
                    \/ t > w /\ -c >= k

TargetNear(wish, k) == Near(target, decision_counter, InBounds(wish), k)

\* The object asks for what the file holds, or has not polled since it was written.
Settling ==
    /\ object.since_poll >= 1
    /\ Runs("external_target") /\ file # Unreadable =>
         /\ object.desired_replicas # file => settled < object.since_poll
         /\ object.desired_replicas = file => TargetNear(file, settled - PollInterval + 1)
    /\ Runs("schedule") => TargetNear(Schedule(hour), settled)
    /\ Runs("inflight_requests") =>
         TargetNear(RoundedUp(total, TARGET_ONGOING_REQUESTS), settled)

\* What a quotient is, said without a quotient.
LEMMA DivIs ==
    ASSUME NEW d \in Nat \ {0}, NEW q \in Nat, NEW r \in Nat, r < d
    PROVE  (d * q + r) \div d = q
OBVIOUS

\* A load shared among n replicas and multiplied by n again is the load.
LEMMA SharedLoad ==
    ASSUME NEW n \in Nat \ {0}, NEW load \in Nat
    PROVE  RoundedUp(n * load, TARGET_ONGOING_REQUESTS * n)
             = RoundedUp(load, TARGET_ONGOING_REQUESTS)
<1>1. PICK half \in Nat : load = 2 * half \/ load = 2 * half + 1
  <2> DEFINE h == load \div 2
  <2>1. h \in Nat /\ (load = 2 * h \/ load = 2 * h + 1)
    OBVIOUS
  <2>2. QED BY <2>1
<1>2. CASE load = 2 * half
  <2>1. n * load + 2 * n - 1 = (2 * n) * half + (2 * n - 1)
    BY <1>2
  <2>2. ((2 * n) * half + (2 * n - 1)) \div (2 * n) = half
    <3>1. 2 * n \in Nat \ {0} /\ 2 * n - 1 \in Nat /\ 2 * n - 1 < 2 * n
      OBVIOUS
    <3>2. QED BY <3>1, DivIs
  <2>3. (load + 2 - 1) \div 2 = half
    BY <1>2
  <2>4. QED
    BY <2>1, <2>2, <2>3 DEF RoundedUp, TARGET_ONGOING_REQUESTS
<1>3. CASE load = 2 * half + 1
  <2>1. n * load + 2 * n - 1 = (2 * n) * (half + 1) + (n - 1)
    BY <1>3
  <2>2. ((2 * n) * (half + 1) + (n - 1)) \div (2 * n) = half + 1
    <3>1. 2 * n \in Nat \ {0} /\ n - 1 \in Nat /\ n - 1 < 2 * n /\ half + 1 \in Nat
      OBVIOUS
    <3>2. QED BY <3>1, DivIs
  <2>3. (load + 2 - 1) \div 2 = half + 1
    BY <1>3
  <2>4. QED
    BY <2>1, <2>2, <2>3 DEF RoundedUp, TARGET_ONGOING_REQUESTS
<1>4. QED
  BY <1>1, <1>2, <1>3

\* A tick whose policy asks for the wish brings it one tick nearer.
LEMMA NearStep ==
    ASSUME NEW c \in (-DownscaleTicks)..UpscaleTicks, NEW t \in Int, NEW w \in Int,
           NEW k \in Int, Near(t, c, w, k)
    PROVE  Near(Decide(c, t, w).target, Decide(c, t, w).counter, w, k + 1)
BY DEF Near, Decide, Streak, DelayOver

\* Whoever is near for longer is near for less.
LEMMA NearLess ==
    ASSUME NEW c \in Int, NEW t \in Int, NEW w \in Int, NEW k \in Int, NEW j \in Int,
           j <= k, Near(t, c, w, k)
    PROVE  Near(t, c, w, j)
BY DEF Near

\* No delay is as long as the patience.
LEMMA NearIsThere ==
    ASSUME NEW c \in (-DownscaleTicks)..UpscaleTicks, NEW t \in Int, NEW w \in Int,
           NEW k \in Int, k > UpscaleTicks, k > DownscaleTicks, Near(t, c, w, k)
    PROVE  t = w
BY DEF Near

\* Bounds keep a number a number.
LEMMA InBoundsInt ==
    ASSUME TypeOK, NEW wish \in Int PROVE InBounds(wish) \in Int
BY ArgsType DEF InBounds, Bounded

\* Half a load, rounded up, is a number.
LEMMA HalfInt == \A load \in Nat : RoundedUp(load, TARGET_ONGOING_REQUESTS) \in Int
BY DEF RoundedUp, TARGET_ONGOING_REQUESTS

\* A schedule asks for a number at any hour.
LEMMA ScheduleInt == \A h \in Hours : Schedule(h) \in Int
BY DEF Schedule, Hours

\* With the policy asking for the wish, a tick brings the target one tick nearer.
LEMMA TickNears ==
    ASSUME TypeOK, ControlLoop, NEW wish \in Int, NEW k \in Int, NEW j \in Int,
           j <= k + 1, InBounds(RawTarget) = InBounds(wish), TargetNear(wish, k)
    PROVE  TargetNear(wish, j)'
<1> DEFINE w == InBounds(wish)
           d == Decide(decision_counter, target, w)
<1>1. /\ decision_counter \in (-DownscaleTicks)..UpscaleTicks
      /\ target \in Int /\ w \in Int
  BY ArgsType, InBoundsInt DEF TypeOK
<1>2. Near(d.target, d.counter, w, k + 1)
  BY <1>1, NearStep DEF TargetNear
<1>3. target' = d.target /\ decision_counter' = d.counter
  BY DEF ControlLoop
<1>4. d.target \in Int /\ d.counter \in Int
  <2>1. d.target \in {target, w} /\ d.counter \in (-DownscaleTicks)..UpscaleTicks
    BY <1>1, DecideType
  <2> HIDE DEF d, w
  <2>2. QED BY <1>1, <2>1
<1>5. Near(target', decision_counter', w, j)
  BY <1>2, <1>3, <1>4, <1>1, NearLess
<1>6. InBounds(wish)' = InBounds(wish)
  BY DEF InBounds, ControlLoop
<1>7. QED
  BY <1>5, <1>6 DEF TargetNear

\* At first nothing has been settled for any time.
LEMMA InitSettling == Init => Settling
<1> SUFFICES ASSUME Init PROVE Settling
  OBVIOUS
<1>1. settled = 0 /\ object = FreshObject
  BY DEF Init
<1>2. \A t, c, w : Near(t, c, w, 0) /\ Near(t, c, w, 0 - PollInterval + 1)
  BY DEF Near
<1>3. QED
  BY <1>1, <1>2 DEF Settling, TargetNear, FreshObject

\* A wish of which nothing is claimed yet is near.
LEMMA NothingClaimed ==
    /\ \A wish : \A k \in Int : k <= 0 => TargetNear(wish, k)
    /\ \A wish : \A k \in Int : k <= 0 => TargetNear(wish, k)'
BY DEF TargetNear, Near

\* A tick of the external policy: its object polls, waits on, or asks for the file.
LEMMA ExternalTick ==
    ASSUME TypeOK, Settling, ControlLoop, Runs("external_target"), file # Unreadable
    PROVE  /\ object'.since_poll >= 1
           /\ object'.desired_replicas # file => settled' < object'.since_poll
           /\ object'.desired_replicas = file =>
                TargetNear(file, settled - PollInterval + 1)'
<1>1. /\ object' = MaybePoll(object, file)
      /\ settled' \in Int /\ settled \in Int /\ settled' <= settled + 1
  BY PatienceType DEF ControlLoop, TypeOK
<1>0. settled - PollInterval + 1 \in Int /\ settled' - PollInterval + 1 \in Int
  BY <1>1
<1>2. /\ object \in [desired_replicas : Published \cup {1}, since_poll : 0..PollInterval]
      /\ object.since_poll \in 1..PollInterval /\ file \in Int
  BY DEF TypeOK, Settling
<1>3. /\ object.desired_replicas # file => settled < object.since_poll
      /\ object.desired_replicas = file => TargetNear(file, settled - PollInterval + 1)
  BY DEF Settling
<1>4. CASE object.since_poll = PollInterval
  <2>1. object' = [desired_replicas |-> file, since_poll |-> 1]
    BY <1>1, <1>4 DEF MaybePoll, ReadTarget
  <2>2. InBounds(RawTarget) = InBounds(file)
    BY <1>1, <2>1 DEF RawTarget, Runs
  <2>3. TargetNear(file, settled - PollInterval + 1)
    BY <1>1, <1>3, <1>4, NothingClaimed
  <2>4. TargetNear(file, settled - PollInterval + 1)'
    <3>1. PICK j \in Int : j = settled' - PollInterval + 1
      BY <1>0
    <3>2. PICK k \in Int : k = settled - PollInterval + 1
      BY <1>0
    <3>3. PICK wish \in Int : wish = file
      BY <1>2
    <3>4. TargetNear(wish, j)'
      BY <1>1, <2>2, <2>3, <3>1, <3>2, <3>3, TickNears
    <3>5. file' = file
      BY DEF ControlLoop, world
    <3>6. QED BY <3>1, <3>3, <3>4, <3>5 DEF TargetNear, Near, InBounds
  <2>5. QED
    BY <2>1, <2>4
<1>5. CASE object.since_poll # PollInterval
  <2>1. /\ object'.desired_replicas = object.desired_replicas
        /\ object'.since_poll = object.since_poll + 1
    BY <1>1, <1>2, <1>5 DEF MaybePoll
  <2>2. ASSUME object.desired_replicas = file
        PROVE  TargetNear(file, settled - PollInterval + 1)'
    <3>1. InBounds(RawTarget) = InBounds(file)
      BY <1>1, <2>1, <2>2 DEF RawTarget, Runs
    <3>2. PICK j \in Int : j = settled' - PollInterval + 1
      BY <1>0
    <3>3. PICK k \in Int : k = settled - PollInterval + 1
      BY <1>0
    <3>4. PICK wish \in Int : wish = file
      BY <1>2
    <3>5. TargetNear(wish, j)'
      BY <1>1, <1>3, <2>2, <3>1, <3>2, <3>3, <3>4, TickNears
    <3>6. file' = file
      BY DEF ControlLoop, world
    <3>7. QED BY <3>2, <3>4, <3>5, <3>6 DEF TargetNear, Near, InBounds
  <2>3. QED
    BY <1>1, <1>2, <1>3, <2>1, <2>2
<1>6. QED
  BY <1>4, <1>5

\* A tick under the schedule, the hour being what it was.
LEMMA ScheduleTick ==
    ASSUME TypeOK, Settling, ControlLoop, Runs("schedule")
    PROVE  TargetNear(Schedule(hour), settled)'
<1>1. settled' \in Int /\ settled \in Int /\ settled' <= settled + 1
  BY PatienceType DEF ControlLoop, TypeOK
<1>2. PICK wish \in Int : wish = Schedule(hour)
  BY ScheduleInt DEF TypeOK
<1>3. PICK j \in Int : j = settled'
  BY <1>1
<1>4. PICK k \in Int : k = settled
  BY <1>1
<1>5. InBounds(RawTarget) = InBounds(wish) /\ TargetNear(wish, k)
  BY <1>2, <1>4 DEF RawTarget, Runs, Settling
<1>6. TargetNear(wish, j)'
  BY <1>1, <1>3, <1>4, <1>5, TickNears
<1>7. Schedule(hour)' = wish
  BY <1>2 DEF ControlLoop, world
<1>8. QED
  BY <1>3, <1>6, <1>7 DEF TargetNear

\* A tick of the default policy, which sees the load or is blind.
LEMMA InflightTick ==
    ASSUME TypeOK, Settling, ControlLoop, Runs("inflight_requests")
    PROVE  TargetNear(RoundedUp(total, TARGET_ONGOING_REQUESTS), settled)'
<1>1. settled' \in Int /\ settled \in Int /\ settled' <= settled + 1
  BY PatienceType DEF ControlLoop, TypeOK
<1>2. CASE Blind
  <2>1. settled' = 0
    BY <1>2 DEF ControlLoop
  <2>2. QED
    BY <2>1 DEF TargetNear, Near
<1>3. CASE ~Blind
  <2>1. PICK wish \in Int : wish = RoundedUp(total, TARGET_ONGOING_REQUESTS)
    BY HalfInt, QueueType
  <2>2. PICK j \in Int : j = settled'
    BY <1>1
  <2>3. PICK k \in Int : k = settled
    BY <1>1
  <2>4. RawTarget = wish
    <3>1. PICK n \in Nat : n = Cardinality(running)
      BY RunningCount
    <3>2. n # 0
      BY <1>3, <3>1, RunningCount, FS_EmptySet DEF Blind
    <3>3. AutoscalingContext.current = n /\ AutoscalingContext.total = total
      BY <3>1 DEF AutoscalingContext
    <3>4. InflightRequests(AutoscalingContext)
            = RoundedUp(n * total, TARGET_ONGOING_REQUESTS * n)
      BY <3>2, <3>3 DEF InflightRequests
    <3>5. QED
      BY <2>1, <3>2, <3>4, SharedLoad, QueueType DEF RawTarget, Runs
  <2>5. TargetNear(wish, k)
    BY <2>1, <2>3 DEF Settling
  <2>6. TargetNear(wish, j)'
    BY <1>1, <2>2, <2>3, <2>4, <2>5, TickNears
  <2>7. RoundedUp(total, TARGET_ONGOING_REQUESTS)' = wish
    BY <2>1 DEF ControlLoop, world
  <2>8. QED
    BY <2>2, <2>6, <2>7 DEF TargetNear
<1>4. QED
  BY <1>2, <1>3

\* A step that leaves wish, target and delays alone.
LEMMA StillSettling ==
    ASSUME Settling,
           UNCHANGED <<args, object, file, hour, total, serve, settled>>
    PROVE  Settling'
BY DEF Settling, Runs, TargetNear, Near, InBounds, serve

\* Where nothing has been settled for any time, there is nothing to claim.
LEMMA StartsSettling ==
    ASSUME settled' = 0, object'.since_poll >= 1, object'.since_poll \in Int
    PROVE  Settling'
BY DEF Settling, TargetNear, Near

\* Every step leaves a wish that stays as near as it was, a tick brings it nearer.
LEMMA NextSettling == TypeOK /\ Settling /\ [Next]_vars => Settling'
<1> SUFFICES ASSUME TypeOK, Settling, [Next]_vars PROVE Settling'
  OBVIOUS
<1> USE DEF world, memory, serve, history
<1>0. object.since_poll >= 1 /\ object.since_poll \in Int
  BY DEF Settling, TypeOK
<1>1. CASE ControlLoop
  <2>0. args' = args /\ file' = file
    BY <1>1 DEF ControlLoop
  <2>1. CASE Runs("external_target") /\ file # Unreadable
    BY <1>1, <2>0, <2>1, ExternalTick DEF Settling, Runs
  <2>2. ASSUME ~(Runs("external_target") /\ file # Unreadable) PROVE Settling'
    <3>1. object'.since_poll >= 1
      BY <1>0, <1>1 DEF ControlLoop, MaybePoll, TypeOK
    <3>2. Runs("schedule") => TargetNear(Schedule(hour), settled)'
      BY <1>1, ScheduleTick
    <3>3. Runs("inflight_requests") =>
            TargetNear(RoundedUp(total, TARGET_ONGOING_REQUESTS), settled)'
      BY <1>1, InflightTick
    <3>4. QED
      BY <2>0, <2>2, <3>1, <3>2, <3>3 DEF Settling, Runs
  <2>3. QED
    BY <2>1, <2>2
<1>2. CASE ControllerRestart
  BY <1>2, StartsSettling DEF ControllerRestart, FreshObject
<1>3. CASE HourPasses
  <2>1. CASE settled' = 0
    BY <1>0, <1>3, <2>1, StartsSettling DEF HourPasses
  <2>2. CASE Schedule(hour') = Schedule(hour) /\ settled' = settled
    BY <1>3, <2>2 DEF HourPasses, Settling, Runs, TargetNear, Near, InBounds
  <2>3. QED
    BY <1>3, <2>1, <2>2 DEF HourPasses
<1>4. ASSUME NEW r \in ReplicaIds, Start(r) PROVE Settling'
  BY <1>4, StillSettling DEF Start
<1>5. ASSUME NEW r \in ReplicaIds, Crash(r) PROVE Settling'
  BY <1>5, StillSettling DEF Crash
<1>6. ASSUME NEW r \in ReplicaIds, NEW use \in Uses, PushUsage(r, use)
      PROVE  Settling'
  BY <1>6, StillSettling DEF PushUsage
<1>7. ASSUME NEW q \in QueueDepths, NEW busy \in 0..MaxBusy, PushQueue(q, busy)
      PROVE  Settling'
  <2>1. CASE Runs("inflight_requests") /\ total' = total
    BY <1>7, <2>1, StillSettling DEF PushQueue
  <2>2. CASE Runs("inflight_requests") /\ total' # total
    BY <1>0, <1>7, <2>2, StartsSettling DEF PushQueue
  <2>3. CASE Runs("queue_latency")
    BY <1>0, <1>7, <2>3 DEF PushQueue, Settling, Runs
  <2>4. QED
    BY <1>7, <2>1, <2>2, <2>3 DEF PushQueue, PushDue, ReadsQueue
<1>8. ASSUME NEW v \in Published \cup {Unreadable}, Write(v) PROVE Settling'
  BY <1>0, <1>8, StartsSettling DEF Write
<1>9. CASE UNCHANGED vars
  BY <1>9, StillSettling DEF vars
<1>10. QED
  BY <1>1, <1>2, <1>3, <1>4, <1>5, <1>6, <1>7, <1>8, <1>9 DEF Next

\* With all patience spent the delay is over.
LEMMA SettledIsThere ==
    ASSUME TypeOK, Settling, settled = Patience, NEW wish \in Int, NEW k \in Int,
           k >= settled - PollInterval + 1, TargetNear(wish, k)
    PROVE  target = InBounds(wish)
<1>1. k > UpscaleTicks /\ k > DownscaleTicks
  BY DEF Patience
<1>2. PICK w \in Int : w = InBounds(wish)
  BY InBoundsInt
<1>3. decision_counter \in (-DownscaleTicks)..UpscaleTicks /\ target \in Int
  BY ArgsType DEF TypeOK
<1>4. Near(target, decision_counter, w, k)
  BY <1>2 DEF TargetNear
<1>5. QED
  BY <1>1, <1>2, <1>3, <1>4, NearIsThere

\* A target published in the file, that of the hour, and that of a load that no
\* longer changes, is the deployment's target one poll interval and one delay
\* later, whatever reads failed, files were torn, restarts forgot and replicas
\* crashed before (policy_external_target.py:46-61, notebook 02 section 6).
THEOREM WishHonoured == Spec => []WishHonouredInTime
<1>1. TypeOK /\ Settling => WishHonouredInTime
  <2> SUFFICES ASSUME TypeOK, Settling, settled = Patience
               PROVE  /\ Runs("external_target") /\ file # Unreadable =>
                           target = InBounds(file)
                      /\ Runs("schedule") => target = InBounds(Schedule(hour))
                      /\ Runs("inflight_requests") =>
                           target = InBounds(RoundedUp(total, TARGET_ONGOING_REQUESTS))
    BY DEF WishHonouredInTime
  <2>1. settled \in Nat /\ settled >= PollInterval
    BY PatienceType DEF Patience
  <2>2. ASSUME Runs("external_target"), file # Unreadable
        PROVE  target = InBounds(file)
    <3>1. file \in Int /\ object.since_poll <= PollInterval
      BY <2>2 DEF TypeOK
    <3>2. object.desired_replicas = file
      BY <2>1, <2>2, <3>1 DEF Settling, TypeOK
    <3>3. TargetNear(file, settled - PollInterval + 1)
      BY <2>2, <3>2 DEF Settling
    <3>4. settled - PollInterval + 1 \in Int
      BY <2>1
    <3>5. PICK k \in Int : k = settled - PollInterval + 1
      BY <3>4
    <3>6. PICK wish \in Int : wish = file
      BY <3>1
    <3>7. QED
      BY <3>3, <3>5, <3>6, SettledIsThere
  <2>3. ASSUME Runs("schedule") PROVE target = InBounds(Schedule(hour))
    <3>1. PICK wish \in Int : wish = Schedule(hour)
      BY ScheduleInt DEF TypeOK
    <3>2. PICK k \in Int : k = settled
      BY <2>1
    <3>3. QED
      BY <2>1, <2>3, <3>1, <3>2, SettledIsThere DEF Settling
  <2>4. ASSUME Runs("inflight_requests")
        PROVE  target = InBounds(RoundedUp(total, TARGET_ONGOING_REQUESTS))
    <3>1. PICK wish \in Int : wish = RoundedUp(total, TARGET_ONGOING_REQUESTS)
      BY HalfInt, QueueType
    <3>2. PICK k \in Int : k = settled
      BY <2>1
    <3>3. QED
      BY <2>1, <2>4, <3>1, <3>2, SettledIsThere DEF Settling
  <2>5. QED
    BY <2>2, <2>3, <2>4
<1>2. QED
  BY <1>1, InitType, NextType, InitSettling, NextSettling, PTL DEF Spec

=============================================================================

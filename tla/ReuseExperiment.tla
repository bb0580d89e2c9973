-------------------------- MODULE ReuseExperiment --------------------------
(***************************************************************************)
(* llm/routing/verify.py: the experiment that decides from token counters  *)
(* whether prefix-affinity routing works.  Two arms, first the default     *)
(* router and then the affinity router: deploy, warm up with an unrelated  *)
(* prefix, read the counters, fire two requests with the same long prefix  *)
(* at once, read the counters again.  The routers, the engine's prefix     *)
(* cache and the metrics agents, which publish with a delay, are external. *)
(* Fractions are compared by cross-multiplication, waits counted in ticks. *)
(***************************************************************************)
EXTENDS Integers, FiniteSets, Functions

CONSTANTS
    Replicas,           \* of the measured deployment, with one slot each
    Warmups,            \* requests of the warm-up, one after the other
    PrefixTokens,       \* per kind of request: tokens of its prefix ...
    QuestionTokens,     \* ... and of the rest of any prompt
    EXPORT_WAIT_S,      \* before each reading
    ExportPeriod,       \* the longest an agent goes without publishing
    MaxFaults           \* bound: requests and readings that raise

ASSUME ReplicasAssumption == IsFiniteSet(Replicas) /\ Replicas # {}
\* SHARED_PREFIX is eighty times two sentences, the question is four words.
ASSUME TokensAssumption == /\ PrefixTokens \in [{"warm", "shared"} -> Nat]
                           /\ QuestionTokens \in Nat \ {0} /\ Warmups \in Nat \ {0}
                           /\ PrefixTokens["shared"] > QuestionTokens
\* The script waits 15 s, the agents publish about every 10 s.
ASSUME WaitAssumption == /\ ExportPeriod \in Nat \ {0} /\ EXPORT_WAIT_S \in Nat
                         /\ ExportPeriod < EXPORT_WAIT_S
ASSUME FaultsAssumption == MaxFaults \in Nat

VARIABLES
    arm,                \* "default", then "affinity"
    step,               \* where measure_arm is
    warmed,             \* warm-up requests done
    timer,              \* ticks waited
    phase, ranks, at,   \* per request: progress, replicas it may go to, its replica
    tree,               \* per replica: prefixes the affinity router saw go there
    cache,              \* per replica: prefixes whose KV it holds
    counters,           \* per replica: prompt tokens found in the cache, and all
    exported,           \* per replica: the counters its agent shows
    age,                \* per replica: ticks since its agent published
    before,             \* the first reading
    reuse,              \* per arm: what it measured
    reused,             \* history, per arm: tokens the pair really found cached
    verdict,            \* "none", "PASS", "FAIL", or "raised"
    faults

script == <<arm, step, warmed, timer, before, reuse, verdict>>
engine == <<cache, counters, reused>>
agents == <<exported, age>>
requests == <<phase, ranks, at, tree>>
vars == <<script, engine, agents, requests, faults>>

-----------------------------------------------------------------------------
Arms == {"default", "affinity"}
Pair == {"first", "second"}
Requests == Pair \cup {"hello"}
NoReplica == "none"
Zero == [hits |-> 0, queries |-> 0]

\* Mutant of PrefixOf: the warm-up uses the default prefix, SHARED_PREFIX.
PrefixOfShared(q) == "shared"

PrefixOf(q) == IF q = "hello" THEN "warm" ELSE "shared"

Free(r) == \A q \in Requests : at[q] # r

\* prefix_cache_counters: the sum over what every agent shows.
Reading == [hits |-> SumFunction([r \in Replicas |-> exported[r].hits]),
            queries |-> SumFunction([r \in Replicas |-> exported[r].queries])]

Strike == faults < MaxFaults /\ faults' = faults + 1

Fresh == [r \in Replicas |-> Zero]

Init ==
    /\ arm = "default" /\ step = "deploy"
    /\ warmed = 0 /\ timer = 0
    /\ phase = [q \in Requests |-> "idle"]
    /\ ranks = [q \in Requests |-> {}]
    /\ at = [q \in Requests |-> NoReplica]
    /\ tree = [r \in Replicas |-> {}]
    /\ cache = [r \in Replicas |-> {}]
    /\ counters = Fresh /\ exported = Fresh
    /\ age = [r \in Replicas |-> 0]
    /\ before = Zero
    /\ reuse = [a \in Arms |-> Zero]
    /\ reused = [a \in Arms |-> 0]
    /\ verdict = "none" /\ faults = 0

-----------------------------------------------------------------------------
(* The script.                                                             *)

\* serve.run: new replicas, with empty caches and counters.
Deploy ==
    /\ step = "deploy"
    /\ step' = "warmup"
    /\ warmed' = 0
    /\ phase' = [q \in Requests |-> "idle"]
    /\ tree' = [r \in Replicas |-> {}]
    /\ cache' = [r \in Replicas |-> {}]
    /\ counters' = Fresh /\ exported' = Fresh
    /\ age' = [r \in Replicas |-> 0]
    /\ UNCHANGED <<arm, timer, ranks, at, before, reuse, reused, verdict, faults>>

\* One warm-up request, and the next when it is done.
WarmUp ==
    /\ step = "warmup"
    /\ \/ /\ warmed < Warmups /\ phase["hello"] = "idle"
          /\ phase' = [phase EXCEPT !["hello"] = "sent"]
          /\ UNCHANGED <<step, warmed, timer>>
       \/ /\ phase["hello"] = "done"
          /\ phase' = [phase EXCEPT !["hello"] = "idle"]
          /\ warmed' = warmed + 1
          /\ step' = IF warmed + 1 = Warmups THEN "waitBefore" ELSE step
          /\ timer' = 0
    /\ UNCHANGED <<arm, before, reuse, verdict, engine, agents, ranks, at, tree, faults>>

\* Mutant of Waited: the end of the wait is missed by one.
WaitedLonger == timer > EXPORT_WAIT_S

\* Mutant of Waited: it waits for all but one tick of the agents' period.
WaitedShort == timer >= ExportPeriod - 1

Waited == timer >= EXPORT_WAIT_S

\* The first reading, then asyncio.gather sends both requests.
FirePair ==
    /\ step = "waitBefore" /\ Waited
    /\ before' = Reading
    /\ phase' = [q \in Requests |-> IF q \in Pair THEN "sent" ELSE "idle"]
    /\ step' = "pair"
    /\ UNCHANGED <<arm, warmed, timer, reuse, verdict, engine, agents, ranks, at, tree,
                   faults>>

Gather ==
    /\ step = "pair"
    /\ \A q \in Pair : phase[q] = "done"
    /\ step' = "waitAfter"
    /\ timer' = 0
    /\ UNCHANGED <<arm, warmed, before, reuse, verdict, engine, agents, requests, faults>>

Measured == [hits |-> Reading.hits - before.hits,
             queries |-> Reading.queries - before.queries]

\* The second reading gives the reuse of the arm; the deployment is torn down.
Measure ==
    /\ step = "waitAfter" /\ Waited
    /\ reuse' = [reuse EXCEPT ![arm] = Measured]
    /\ step' = IF arm = "default" THEN "deploy" ELSE "judge"
    /\ arm' = "affinity"
    /\ UNCHANGED <<warmed, timer, before, verdict, engine, agents, requests, faults>>

\* Mutant of BeatsDefault: the baseline is not looked at.
ReusesAQuarter ==
    4 * reuse["affinity"].hits > reuse["affinity"].queries

\* Both arms measured something, the affinity arm more than a quarter, and more
\* than a quarter above the default arm.  No queries is NaN, which beats nothing.
BeatsDefault ==
    LET d == reuse["default"]
        a == reuse["affinity"]
    IN  /\ d.queries > 0 /\ a.queries > 0
        /\ 4 * (a.hits * d.queries - d.hits * a.queries) > a.queries * d.queries
        /\ 4 * a.hits > a.queries

Judge ==
    /\ step = "judge"
    /\ step' = "over"
    /\ verdict' = IF BeatsDefault THEN "PASS" ELSE "FAIL"
    /\ UNCHANGED <<arm, warmed, timer, before, reuse, engine, agents, requests, faults>>

\* A request or a reading raises: nothing catches it, the script ends.
Raises ==
    /\ step \in {"warmup", "pair", "waitBefore", "waitAfter"}
    /\ Strike
    /\ step' = "over"
    /\ verdict' = "raised"
    /\ UNCHANGED <<arm, warmed, timer, before, reuse, engine, agents, requests>>

-----------------------------------------------------------------------------
(* Router, engine and agents.                                              *)

\* The affinity router picks the replicas it saw this prefix go to.
Choose(q) ==
    /\ phase[q] = "sent"
    /\ LET known == {r \in Replicas : PrefixOf(q) \in tree[r]}
       IN  ranks' = [ranks EXCEPT ![q] =
                       IF arm = "affinity" /\ known # {} THEN known ELSE Replicas]
    /\ phase' = [phase EXCEPT ![q] = "chosen"]
    /\ UNCHANGED <<script, engine, agents, at, tree, faults>>

\* max_ongoing_requests = 1: the request waits for one of them to be free.
Land(q, r) ==
    /\ phase[q] = "chosen"
    /\ r \in ranks[q] /\ Free(r)
    /\ at' = [at EXCEPT ![q] = r]
    /\ tree' = [tree EXCEPT ![r] = @ \cup {PrefixOf(q)}]
    /\ phase' = [phase EXCEPT ![q] = "running"]
    /\ UNCHANGED <<script, engine, agents, ranks, faults>>

Prefill(q) ==
    LET r == at[q]
        asked == PrefixTokens[PrefixOf(q)] + QuestionTokens
        found == IF PrefixOf(q) \in cache[r] THEN PrefixTokens[PrefixOf(q)] ELSE 0
    IN  /\ phase[q] = "running"
        /\ counters' = [counters EXCEPT ![r] =
                          [hits |-> @.hits + found, queries |-> @.queries + asked]]
        /\ cache' = [cache EXCEPT ![r] = @ \cup {PrefixOf(q)}]
        /\ reused' = IF q \in Pair THEN [reused EXCEPT ![arm] = @ + found] ELSE reused
        /\ phase' = [phase EXCEPT ![q] = "prefilled"]
        /\ UNCHANGED <<script, agents, ranks, at, tree, faults>>

\* Mutant of FirstToken: the stream is abandoned, and its slot with it.
FirstTokenAbandons(q) ==
    /\ phase[q] = "prefilled"
    /\ phase' = [phase EXCEPT ![q] = "done"]
    /\ UNCHANGED <<script, engine, agents, ranks, at, tree, faults>>

\* The first chunk, or the end without one: the stream is closed, its slot free.
FirstToken(q) ==
    /\ phase[q] = "prefilled"
    /\ phase' = [phase EXCEPT ![q] = "done"]
    /\ at' = [at EXCEPT ![q] = NoReplica]
    /\ UNCHANGED <<script, engine, agents, ranks, tree, faults>>

Export(r) ==
    /\ exported[r] # counters[r] \/ age[r] > 0
    /\ exported' = [exported EXCEPT ![r] = counters[r]]
    /\ age' = [age EXCEPT ![r] = 0]
    /\ UNCHANGED <<script, engine, requests, faults>>

\* Time goes on while the script waits; no agent is ever overdue.
Tick ==
    /\ step \in {"waitBefore", "waitAfter"} /\ ~Waited
    /\ \A r \in Replicas : age[r] < ExportPeriod
    /\ timer' = timer + 1
    /\ age' = [r \in Replicas |-> age[r] + 1]
    /\ UNCHANGED <<arm, step, warmed, before, reuse, verdict, engine, exported, requests,
                   faults>>

-----------------------------------------------------------------------------
Running == step # "over"

ScriptStep == Deploy \/ WarmUp \/ FirePair \/ Gather \/ Measure \/ Judge

RequestStep(q) ==
    Running /\ (Choose(q) \/ (\E r \in Replicas : Land(q, r)) \/ Prefill(q) \/ FirstToken(q))

Next ==
    \/ ScriptStep \/ Raises \/ Tick
    \/ \E q \in Requests : RequestStep(q)
    \/ \E r \in Replicas : Running /\ Export(r)

Spec == Init /\ [][Next]_vars

\* The script and time go on, every request runs when it finds a slot, agents
\* publish.
FairSpec ==
    /\ Spec
    /\ WF_vars(ScriptStep) /\ WF_vars(Tick)
    /\ \A q \in Requests : WF_vars(RequestStep(q))
    /\ \A r \in Replicas : WF_vars(Running /\ age[r] > 0 /\ Export(r))

-----------------------------------------------------------------------------
(* Properties.                                                             *)
Counters == [hits : Nat, queries : Nat]

\* Every variable has its type; no agent is overdue.
TypeOK ==
    /\ arm \in Arms
    /\ step \in {"deploy", "warmup", "waitBefore", "pair", "waitAfter", "judge", "over"}
    /\ warmed \in 0..Warmups /\ timer \in 0..EXPORT_WAIT_S
    /\ phase \in [Requests -> {"idle", "sent", "chosen", "running", "prefilled", "done"}]
    /\ ranks \in [Requests -> SUBSET Replicas]
    /\ at \in [Requests -> Replicas \cup {NoReplica}]
    /\ tree \in [Replicas -> SUBSET {"warm", "shared"}]
    /\ cache \in [Replicas -> SUBSET {"warm", "shared"}]
    /\ counters \in [Replicas -> Counters] /\ exported \in [Replicas -> Counters]
    /\ age \in [Replicas -> 0..ExportPeriod]
    /\ before \in Counters /\ reuse \in [Arms -> [hits : Int, queries : Int]]
    /\ reused \in [Arms -> Nat]
    /\ verdict \in {"none", "PASS", "FAIL", "raised"} /\ faults \in 0..MaxFaults

\* Whatever the routers did, PASS is printed exactly if the second request of the
\* affinity pair found the whole prefix and that of the default pair nothing,
\* whenever the agents published (verify.py:182-194).
VerdictIsRight ==
    step = "over" /\ verdict # "raised" =>
      (verdict = "PASS" <=> /\ reused["affinity"] = PrefixTokens["shared"]
                            /\ reused["default"] = 0)

ExactFor(a) == /\ reuse[a].queries = 2 * (PrefixTokens["shared"] + QuestionTokens)
               /\ reuse[a].hits = reused[a]

\* What an arm measured are the tokens of its pair: all of them, and none of the
\* warm-up's, though the agents publish late (verify.py:149-162).
MeasuresThePair ==
    /\ arm = "affinity" => ExactFor("default")
    /\ step = "judge" => ExactFor("affinity")

\* Until one of the pair is prefilled no replica holds the shared prefix: it is
\* cold in both arms, and the warm-up left it so (verify.py:144-147).
PairIsCold ==
    step = "pair" /\ (\A q \in Pair : phase[q] \in {"sent", "chosen", "running"})
      => \A r \in Replicas : "shared" \notin cache[r]

\* The experiment comes to an end: a request that waits for a busy replica gets
\* it, because streams are closed (verify.py:123-129).
RunEnds == <>(step = "over")
=============================================================================

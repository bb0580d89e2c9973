---------------------- MODULE ReuseExperiment_proofs -----------------------
(***************************************************************************)
(* What the experiment owes its verdict, whatever the number of replicas,  *)
(* the prompts, the waits and the routers' choices: a cold start, readings *)
(* that count the pair and nothing else, and a verdict that follows.       *)
(***************************************************************************)
EXTENDS ReuseExperiment, FiniteSetTheorems, WellFoundedInduction, TLAPS

-----------------------------------------------------------------------------
\* A nonempty set of naturals has a least element: induction is by a least
\* counterexample.
LEMMA Least ==
    ASSUME NEW S \in SUBSET Nat, S # {}
    PROVE  \E x \in S : \A y \in S : x <= y
<1>1. PICK x \in S : \A y \in S : ~(<<y, x>> \in OpToRel(<, Nat))
  BY NatLessThanWellFounded, WFMin, Zenon
<1>2. ASSUME NEW y \in S PROVE x <= y
  <2> DEFINE pair == <<y, x>>
  <2>1. pair \in Nat \X Nat /\ pair[1] = y /\ pair[2] = x
    OBVIOUS
  <2>2. ~(pair \in {ss \in Nat \X Nat : ss[1] < ss[2]})
    BY <1>1 DEF OpToRel
  <2>3. ~(pair[1] < pair[2])
    BY <2>1, <2>2
  <2>4. QED
    BY <2>1, <2>3
<1>3. QED
  BY <1>2

(* Sums.  The fold is the value at S of a function on the subsets of S that *)
(* takes one chosen element out after the other.                           *)
Pick(s) == CHOOSE x \in s : TRUE
Rest(s) == s \ {Pick(s)}

\* g sums f over the subsets of S with at most n elements.
SumsTo(f, S, g, n) ==
    \A s \in SUBSET S : Cardinality(s) <= n =>
        g[s] = IF s = {} THEN 0 ELSE f[Pick(s)] + g[Rest(s)]

\* A chosen element leaves a smaller set.
LEMMA Smaller ==
    ASSUME NEW S, IsFiniteSet(S), NEW s \in SUBSET S
    PROVE  /\ Cardinality(s) \in Nat
           /\ s # {} => /\ Pick(s) \in s /\ Rest(s) \in SUBSET S
                        /\ Cardinality(Rest(s)) = Cardinality(s) - 1
<1>1. IsFiniteSet(s) /\ Cardinality(s) \in Nat
  BY FS_Subset, FS_CardinalityType
<1>2. ASSUME s # {} PROVE Pick(s) \in s /\ Rest(s) \in SUBSET S
  BY <1>2 DEF Pick, Rest
<1>3. ASSUME s # {} PROVE Cardinality(Rest(s)) = Cardinality(s) - 1
  BY <1>1, <1>2, <1>3, FS_RemoveElement DEF Rest
<1>4. QED
  BY <1>1, <1>2, <1>3

\* Such a function exists.
LEMMA SumExists ==
    ASSUME NEW f, NEW S, IsFiniteSet(S), NEW n \in Nat
    PROVE  \E g : g = [s \in SUBSET S |-> g[s]] /\ SumsTo(f, S, g, n)
<1> DEFINE Good(k) == \E g : g = [s \in SUBSET S |-> g[s]] /\ SumsTo(f, S, g, k)
           Bad == {k \in Nat : ~Good(k)}
<1>1. SUFFICES Bad = {}
  OBVIOUS
<1>2. SUFFICES ASSUME Bad # {} PROVE FALSE
  OBVIOUS
<1>3. PICK m \in Bad : \A k \in Bad : m <= k
  <2>1. Bad \in SUBSET Nat
    OBVIOUS
  <2> HIDE DEF Bad
  <2>2. QED
    BY <1>2, <2>1, Least
<1>4. CASE m = 0
  <2> DEFINE g == [s \in SUBSET S |-> 0]
  <2>1. ASSUME NEW s \in SUBSET S, Cardinality(s) <= 0 PROVE s = {}
    <3>1. IsFiniteSet(s) /\ Cardinality(s) = 0
      BY <2>1, Smaller, FS_Subset
    <3>2. QED
      BY <3>1, FS_EmptySet
  <2>2. SumsTo(f, S, g, 0)
    BY <2>1 DEF SumsTo
  <2>3. g = [s \in SUBSET S |-> g[s]]
    OBVIOUS
  <2>4. QED
    BY <1>3, <1>4, <2>2, <2>3
<1>5. CASE m # 0
  <2>1. m - 1 \in Nat /\ m - 1 \notin Bad
    <3>1. m \in Nat
      OBVIOUS
    <3> HIDE DEF Bad
    <3>2. QED
      BY <1>3, <1>5, <3>1
  <2>2. PICK g : SumsTo(f, S, g, m - 1)
    BY <2>1
  <2> DEFINE h == [s \in SUBSET S |-> IF s = {} THEN 0 ELSE f[Pick(s)] + g[Rest(s)]]
  <2>3. ASSUME NEW s \in SUBSET S, Cardinality(s) <= m - 1 PROVE h[s] = g[s]
    BY <2>2, <2>3 DEF SumsTo
  <2>4. ASSUME NEW s \in SUBSET S, Cardinality(s) <= m
        PROVE  h[s] = IF s = {} THEN 0 ELSE f[Pick(s)] + h[Rest(s)]
    <3>1. CASE s = {}
      BY <3>1
    <3>2. CASE s # {}
      <4>1. Rest(s) \in SUBSET S /\ Cardinality(Rest(s)) <= m - 1
        BY <1>3, <2>4, <3>2, Smaller
      <4>2. h[Rest(s)] = g[Rest(s)]
        BY <2>3, <4>1
      <4>3. QED
        BY <3>2, <4>2
    <3>3. QED
      BY <3>1, <3>2
  <2>5. SumsTo(f, S, h, m)
    BY <2>4 DEF SumsTo
  <2>6. h = [s \in SUBSET S |-> h[s]]
    OBVIOUS
  <2>7. QED
    BY <1>3, <2>5, <2>6
<1>6. QED
  BY <1>4, <1>5

\* The sum over a finite set, by such a function.
LEMMA SumIs ==
    ASSUME NEW f, NEW S, IsFiniteSet(S), DOMAIN f = S
    PROVE  \E g : SumsTo(f, S, g, Cardinality(S)) /\ SumFunction(f) = g[S]
<1>1. Cardinality(S) \in Nat
  BY FS_CardinalityType
<1> DEFINE Is(g) == g = [s \in SUBSET S |-> IF s = {} THEN 0
                                            ELSE f[Pick(s)] + g[s \ {Pick(s)}]]
<1>2. \E g : Is(g)
  <2>1. PICK g : g = [s \in SUBSET S |-> g[s]] /\ SumsTo(f, S, g, Cardinality(S))
    BY <1>1, SumExists
  <2>2. \A s \in SUBSET S : Cardinality(s) <= Cardinality(S)
    BY FS_Subset
  <2>3. \A s \in SUBSET S : g[s] = IF s = {} THEN 0 ELSE f[Pick(s)] + g[s \ {Pick(s)}]
    BY <2>1, <2>2 DEF SumsTo, Rest
  <2>4. Is(g)
    BY <2>1, <2>3
  <2>5. QED
    BY <2>4
<1> DEFINE g == CHOOSE g : Is(g)
<1>3. Is(g)
  BY <1>2
<1>4. SumFunction(f) = g[S]
  BY <1>3 DEF SumFunction, SumFunctionOnSet, FoldFunctionOnSet, MapThenFoldSet, Pick
<1>5. SumsTo(f, S, g, Cardinality(S))
  BY <1>3 DEF SumsTo, Rest
<1>6. QED
  BY <1>4, <1>5

-----------------------------------------------------------------------------
(* The start of an arm.                                                    *)
Cold == \A r \in Replicas : "shared" \notin cache[r]

\* The pair has not been sent before the first reading, and nothing else brings the
\* shared prefix to a replica.
ColdInv ==
    /\ cache \in [Replicas -> SUBSET {"warm", "shared"}]
    /\ DOMAIN phase = Requests /\ phase = [q \in Requests |-> phase[q]]
    /\ step \in {"warmup", "waitBefore"}
         => Cold /\ \A q \in Pair : phase[q] = "idle"
    /\ PairIsCold

LEMMA InitColdInv == Init => ColdInv
BY DEF Init, ColdInv, Cold, PairIsCold, Requests, Pair

\* What the engine, the router and the agents do to a cold deployment.
LEMMA RequestKeeps ==
    ASSUME ColdInv, NEW q \in Requests, RequestStep(q)
    PROVE  ColdInv'
<1>1. /\ UNCHANGED step /\ q \in {"first", "second", "hello"}
      /\ \A p \in Requests \ {q} : phase'[p] = phase[p]
      /\ DOMAIN phase' = Requests /\ phase' = [p \in Requests |-> phase'[p]]
  BY DEF RequestStep, Choose, Land, Prefill, FirstToken, script, ColdInv, Requests, Pair
<1>2. CASE Prefill(q)
  <2>1. /\ cache' = [cache EXCEPT ![at[q]] = @ \cup {PrefixOf(q)}]
        /\ phase[q] = "running" /\ phase'[q] = "prefilled"
    BY <1>2 DEF Prefill, ColdInv
  <2>2. cache' \in [Replicas -> SUBSET {"warm", "shared"}]
    BY <2>1 DEF ColdInv, PrefixOf
  <2>3. CASE q \in Pair
    <3>1. step \notin {"warmup", "waitBefore"}
      BY <2>1, <2>3 DEF ColdInv
    <3>2. QED
      BY <1>1, <2>1, <2>2, <2>3, <3>1 DEF ColdInv, PairIsCold
  <2>4. CASE q \notin Pair
    <3>1. PrefixOf(q) = "warm" /\ \A p \in Pair : phase'[p] = phase[p]
      BY <1>1, <2>4 DEF PrefixOf, Requests, Pair
    <3>2. Cold => Cold'
      BY <2>1, <3>1 DEF ColdInv, Cold
    <3>3. QED
      BY <1>1, <2>2, <3>1, <3>2 DEF ColdInv, PairIsCold, Cold
  <2>5. QED
    BY <2>3, <2>4
<1>3. CASE ~Prefill(q)
  <2>1. /\ UNCHANGED cache /\ phase[q] # "idle"
        /\ phase'[q] \in {"sent", "chosen", "running"}
             => phase[q] \in {"sent", "chosen", "running"}
    BY <1>3 DEF RequestStep, Choose, Land, FirstToken, engine, ColdInv
  <2>2. \A p \in Pair : /\ phase[p] = "idle" => phase'[p] = "idle"
                        /\ phase'[p] \in {"sent", "chosen", "running"}
                             => phase[p] \in {"sent", "chosen", "running"}
    BY <1>1, <2>1 DEF Requests, Pair
  <2>3. QED
    BY <1>1, <2>1, <2>2 DEF ColdInv, PairIsCold, Cold
<1>4. QED
  BY <1>2, <1>3

LEMMA NextColdInv == ColdInv /\ [Next]_vars => ColdInv'
<1> SUFFICES ASSUME ColdInv, [Next]_vars PROVE ColdInv'
  OBVIOUS
<1>1. CASE Deploy
  BY <1>1 DEF Deploy, ColdInv, Cold, PairIsCold, Requests, Pair
<1>2. CASE WarmUp
  <2>1. UNCHANGED cache /\ step = "warmup" /\ step' \in {"warmup", "waitBefore"}
    BY <1>2 DEF WarmUp, engine
  <2>2. /\ \A p \in Pair : phase'[p] = phase[p]
        /\ DOMAIN phase' = Requests /\ phase' = [p \in Requests |-> phase'[p]]
    BY <1>2 DEF WarmUp, ColdInv, Requests, Pair
  <2>3. QED
    BY <2>1, <2>2 DEF ColdInv, Cold, PairIsCold
<1>3. CASE FirePair
  BY <1>3 DEF FirePair, engine, ColdInv, Cold, PairIsCold, Requests, Pair
<1>4. CASE Gather \/ Measure \/ Judge \/ Raises
  BY <1>4 DEF Gather, Measure, Judge, Raises, engine, requests, ColdInv, Cold, PairIsCold
<1>5. CASE Tick \/ UNCHANGED vars
  BY <1>5 DEF Tick, vars, script, engine, requests, ColdInv, Cold, PairIsCold
<1>6. ASSUME NEW r \in Replicas, Export(r) PROVE ColdInv'
  BY <1>6 DEF Export, script, engine, requests, ColdInv, Cold, PairIsCold
<1>7. QED
  BY <1>1, <1>2, <1>3, <1>4, <1>5, <1>6, RequestKeeps DEF Next, ScriptStep

\* Until one of the pair is prefilled no replica holds the shared prefix: it is
\* cold in both arms, and the warm-up left it so (verify.py:144-147).
THEOREM StartsCold == Spec => []PairIsCold
<1>1. ColdInv => PairIsCold
  BY DEF ColdInv
<1>2. QED
  BY <1>1, InitColdInv, NextColdInv, PTL DEF Spec

-----------------------------------------------------------------------------
(* Types.  A reading is typed because a sum of naturals is a natural.      *)
USE ReplicasAssumption, TokensAssumption, WaitAssumption, FaultsAssumption

Hits(shown) == SumFunction([r \in Replicas |-> shown[r].hits])
Queries(shown) == SumFunction([r \in Replicas |-> shown[r].queries])

\* What is added to one element is added to the sum; a sum of naturals is one.
Grows(f, h, r, n) ==
    /\ f \in [Replicas -> Nat] /\ h \in [Replicas -> Nat] /\ r \in Replicas /\ n \in Nat
    /\ \A s \in Replicas : h[s] = IF s = r THEN f[s] + n ELSE f[s]

LEMMA SumGrows ==
    ASSUME NEW f, NEW h, NEW r, NEW n, Grows(f, h, r, n)
    PROVE  SumFunction(f) \in Nat /\ SumFunction(h) = SumFunction(f) + n
<1> USE DEF Grows
<1>1. Cardinality(Replicas) \in Nat /\ \A s \in SUBSET Replicas : Cardinality(s) \in Nat
                                     /\ Cardinality(s) <= Cardinality(Replicas)
  BY FS_CardinalityType, FS_Subset, Smaller
<1>2. PICK g : SumsTo(f, Replicas, g, Cardinality(Replicas)) /\ SumFunction(f) = g[Replicas]
  BY SumIs
<1>3. PICK k : SumsTo(h, Replicas, k, Cardinality(Replicas)) /\ SumFunction(h) = k[Replicas]
  BY SumIs
<1> DEFINE Right(s) == g[s] \in Nat /\ k[s] = g[s] + (IF r \in s THEN n ELSE 0)
           Bad == {c \in Nat : \E s \in SUBSET Replicas : Cardinality(s) = c /\ ~Right(s)}
<1>4. SUFFICES Bad = {}
  <2>1. Right(Replicas)
    BY <1>1, <1>4
  <2>2. QED
    BY <1>2, <1>3, <2>1
<1>5. SUFFICES ASSUME Bad # {} PROVE FALSE
  OBVIOUS
<1>6. PICK m \in Bad : \A c \in Bad : m <= c
  <2>1. Bad \in SUBSET Nat
    OBVIOUS
  <2> HIDE DEF Bad
  <2>2. QED
    BY <1>5, <2>1, Least
<1>7. PICK s \in SUBSET Replicas : Cardinality(s) = m /\ ~Right(s)
  BY <1>6
<1>8. /\ g[s] = IF s = {} THEN 0 ELSE f[Pick(s)] + g[Rest(s)]
      /\ k[s] = IF s = {} THEN 0 ELSE h[Pick(s)] + k[Rest(s)]
  BY <1>1, <1>2, <1>3 DEF SumsTo
<1>9. s # {}
  BY <1>7, <1>8
<1>10. /\ Pick(s) \in s /\ Rest(s) \in SUBSET Replicas
       /\ Cardinality(Rest(s)) \in Nat /\ Cardinality(Rest(s)) < m
  BY <1>1, <1>7, <1>9, Smaller
<1>11. Right(Rest(s))
  <2>1. Cardinality(Rest(s)) \notin Bad
    BY <1>6, <1>10
  <2>2. QED
    BY <1>10, <2>1
<1>12. r \in Rest(s) <=> r \in s /\ r # Pick(s)
  BY DEF Rest
<1>13. f[Pick(s)] \in Nat /\ h[Pick(s)] = f[Pick(s)] + (IF Pick(s) = r THEN n ELSE 0)
  BY <1>10
<1>14. Right(s)
  <2>1. CASE r \in Rest(s)
    BY <1>8, <1>9, <1>11, <1>12, <1>13, <2>1
  <2>2. CASE r \notin Rest(s)
    BY <1>8, <1>9, <1>10, <1>11, <1>12, <1>13, <2>2
  <2>3. QED
    BY <2>1, <2>2
<1>15. QED
  BY <1>7, <1>14

LEMMA SumTyped ==
    ASSUME NEW f \in [Replicas -> Nat]
    PROVE  SumFunction(f) \in Nat
<1>1. PICK r \in Replicas : TRUE
  OBVIOUS
<1>2. Grows(f, f, r, 0)
  BY DEF Grows
<1>3. QED
  BY <1>2, SumGrows

LEMMA ReadingTyped ==
    ASSUME NEW shown \in [Replicas -> Counters]
    PROVE  Hits(shown) \in Nat /\ Queries(shown) \in Nat
<1>1. /\ [r \in Replicas |-> shown[r].hits] \in [Replicas -> Nat]
      /\ [r \in Replicas |-> shown[r].queries] \in [Replicas -> Nat]
  BY DEF Counters
<1>2. QED
  BY <1>1, SumTyped DEF Hits, Queries

\* A prefill adds its tokens to both sums.
ReadingGrows(shown, then, r, found, asked) ==
    /\ shown \in [Replicas -> Counters] /\ then \in [Replicas -> Counters]
    /\ r \in Replicas /\ found \in Nat /\ asked \in Nat
    /\ \A s \in Replicas :
         /\ then[s].hits = IF s = r THEN shown[s].hits + found ELSE shown[s].hits
         /\ then[s].queries = IF s = r THEN shown[s].queries + asked ELSE shown[s].queries

LEMMA ReadingAdds ==
    ASSUME NEW shown, NEW then, NEW r, NEW found, NEW asked,
           ReadingGrows(shown, then, r, found, asked)
    PROVE  Hits(then) = Hits(shown) + found /\ Queries(then) = Queries(shown) + asked
<1> DEFINE h == [s \in Replicas |-> shown[s].hits]
           q == [s \in Replicas |-> shown[s].queries]
           hThen == [s \in Replicas |-> then[s].hits]
           qThen == [s \in Replicas |-> then[s].queries]
<1>1. Grows(h, hThen, r, found)
  BY DEF ReadingGrows, Grows, Counters
<1>2. Grows(q, qThen, r, asked)
  BY DEF ReadingGrows, Grows, Counters
<1> HIDE DEF h, q, hThen, qThen
<1>3. SumFunction(hThen) = SumFunction(h) + found
  BY <1>1, SumGrows
<1>4. SumFunction(qThen) = SumFunction(q) + asked
  BY <1>2, SumGrows
<1>5. QED
  BY <1>3, <1>4 DEF Hits, Queries, h, q, hThen, qThen

\* A request that runs has a replica; the warm-up has a request left.
ScriptTyped ==
    /\ arm \in Arms
    /\ step \in {"deploy", "warmup", "waitBefore", "pair", "waitAfter", "judge", "over"}
    /\ warmed \in 0..Warmups /\ timer \in 0..EXPORT_WAIT_S
    /\ before \in Counters /\ reuse \in [Arms -> [hits : Int, queries : Int]]
    /\ verdict \in {"none", "PASS", "FAIL", "raised"} /\ faults \in 0..MaxFaults
    /\ step = "warmup" => warmed < Warmups
RequestsTyped ==
    /\ phase \in [Requests -> {"idle", "sent", "chosen", "running", "prefilled", "done"}]
    /\ ranks \in [Requests -> SUBSET Replicas]
    /\ at \in [Requests -> Replicas \cup {NoReplica}]
    /\ tree \in [Replicas -> SUBSET {"warm", "shared"}]
    /\ \A q \in Requests : phase[q] \in {"running", "prefilled"} => at[q] \in Replicas
EngineTyped ==
    /\ cache \in [Replicas -> SUBSET {"warm", "shared"}]
    /\ counters \in [Replicas -> Counters] /\ reused \in [Arms -> Nat]
AgentsTyped ==
    /\ exported \in [Replicas -> Counters]
    /\ age \in [Replicas -> 0..ExportPeriod]

TypeInv == ScriptTyped /\ RequestsTyped /\ EngineTyped /\ AgentsTyped

LEMMA FreshTyped == Fresh \in [Replicas -> Counters] /\ Zero \in Counters
BY DEF Fresh, Zero, Counters

LEMMA InitTypeInv == Init => TypeInv
<1> SUFFICES ASSUME Init PROVE TypeInv
  OBVIOUS
<1>1. ScriptTyped
  BY DEF Init, ScriptTyped, Arms, Zero, Counters
<1>2. RequestsTyped
  BY DEF Init, RequestsTyped
<1>3. EngineTyped /\ AgentsTyped
  BY FreshTyped DEF Init, EngineTyped, AgentsTyped
<1>4. QED
  BY <1>1, <1>2, <1>3 DEF TypeInv

\* What a request does concerns the requests, and the engine if it is prefilled.
LEMMA RequestTyped ==
    ASSUME TypeInv, NEW q \in Requests, RequestStep(q)
    PROVE  TypeInv'
<1> USE DEF TypeInv
<1>1. PrefixOf(q) \in {"warm", "shared"}
  BY DEF PrefixOf
<1>2. RequestsTyped'
  <2>1. CASE Choose(q)
    BY <2>1 DEF Choose, RequestsTyped
  <2>2. ASSUME NEW r \in Replicas, Land(q, r) PROVE RequestsTyped'
    BY <1>1, <2>2 DEF Land, RequestsTyped
  <2>3. CASE Prefill(q)
    BY <2>3 DEF Prefill, RequestsTyped
  <2>4. CASE FirstToken(q)
    BY <2>4 DEF FirstToken, RequestsTyped
  <2>5. QED
    BY <2>1, <2>2, <2>3, <2>4 DEF RequestStep
<1>3. UNCHANGED script /\ UNCHANGED agents /\ UNCHANGED faults
  BY DEF RequestStep, Choose, Land, Prefill, FirstToken
<1>4. ScriptTyped' /\ AgentsTyped'
  BY <1>3 DEF script, agents, ScriptTyped, AgentsTyped
<1>5. EngineTyped'
  <2>1. CASE Prefill(q)
    <3>1. at[q] \in Replicas
      BY <2>1 DEF Prefill, RequestsTyped
    <3>2. cache' \in [Replicas -> SUBSET {"warm", "shared"}]
      BY <1>1, <2>1, <3>1 DEF Prefill, EngineTyped
    <3>3. PrefixTokens[PrefixOf(q)] \in Nat /\ QuestionTokens \in Nat
      BY <1>1
    <3>4. counters' \in [Replicas -> Counters]
      BY <2>1, <3>1, <3>3 DEF Prefill, EngineTyped, Counters
    <3>5. reused' \in [Arms -> Nat]
      <4> DEFINE found == IF PrefixOf(q) \in cache[at[q]]
                          THEN PrefixTokens[PrefixOf(q)] ELSE 0
      <4>1. found \in Nat
        BY <3>3
      <4>2. reused' = IF q \in Pair THEN [reused EXCEPT ![arm] = @ + found] ELSE reused
        BY <2>1 DEF Prefill
      <4> HIDE DEF found
      <4>3. QED
        BY <4>1, <4>2 DEF EngineTyped, ScriptTyped
    <3>6. QED
      BY <3>2, <3>4, <3>5 DEF EngineTyped
  <2>2. CASE ~Prefill(q)
    BY <2>2 DEF RequestStep, Choose, Land, FirstToken, engine, EngineTyped
  <2>3. QED
    BY <2>1, <2>2
<1>6. QED
  BY <1>2, <1>4, <1>5

LEMMA NextTypeInv == TypeInv /\ [Next]_vars => TypeInv'
<1> SUFFICES ASSUME TypeInv, [Next]_vars PROVE TypeInv'
  OBVIOUS
<1> USE DEF TypeInv
<1>1. CASE Deploy
  <2>1. ScriptTyped'
    BY <1>1 DEF Deploy, ScriptTyped
  <2>2. RequestsTyped'
    BY <1>1 DEF Deploy, RequestsTyped
  <2>3. EngineTyped' /\ AgentsTyped'
    BY <1>1, FreshTyped DEF Deploy, EngineTyped, AgentsTyped
  <2>4. QED
    BY <2>1, <2>2, <2>3
<1>2. CASE WarmUp
  <2>1. ScriptTyped'
    BY <1>2 DEF WarmUp, ScriptTyped
  <2>2. RequestsTyped'
    BY <1>2 DEF WarmUp, RequestsTyped, Requests, Pair
  <2>3. EngineTyped' /\ AgentsTyped'
    BY <1>2 DEF WarmUp, engine, agents, EngineTyped, AgentsTyped
  <2>4. QED
    BY <2>1, <2>2, <2>3
<1>3. CASE FirePair
  <2>1. Reading \in Counters
    BY ReadingTyped DEF Reading, Hits, Queries, Counters, AgentsTyped
  <2>2. ScriptTyped'
    BY <1>3, <2>1 DEF FirePair, ScriptTyped
  <2>3. RequestsTyped'
    BY <1>3 DEF FirePair, RequestsTyped
  <2>4. EngineTyped' /\ AgentsTyped'
    BY <1>3 DEF FirePair, engine, agents, EngineTyped, AgentsTyped
  <2>5. QED
    BY <2>2, <2>3, <2>4
<1>4. CASE Measure
  <2>1. Reading.hits \in Nat /\ Reading.queries \in Nat
    BY ReadingTyped DEF Reading, Hits, Queries, AgentsTyped
  <2>2. Measured \in [hits : Int, queries : Int]
    BY <2>1 DEF Measured, ScriptTyped, Counters
  <2>3. ScriptTyped'
    BY <1>4, <2>2 DEF Measure, ScriptTyped, Arms
  <2>4. QED
    BY <1>4, <2>3 DEF Measure, engine, agents, requests, RequestsTyped, EngineTyped,
                      AgentsTyped
<1>5. CASE Gather \/ Judge \/ Raises
  <2>1. ScriptTyped'
    BY <1>5 DEF Gather, Judge, Raises, Strike, ScriptTyped
  <2>2. QED
    BY <1>5, <2>1 DEF Gather, Judge, Raises, engine, agents, requests, RequestsTyped,
                      EngineTyped, AgentsTyped
<1>6. CASE Tick
  <2>1. ScriptTyped'
    BY <1>6 DEF Tick, Waited, ScriptTyped
  <2>2. AgentsTyped'
    BY <1>6 DEF Tick, AgentsTyped
  <2>3. QED
    BY <1>6, <2>1, <2>2 DEF Tick, engine, requests, RequestsTyped, EngineTyped
<1>7. ASSUME NEW r \in Replicas, Export(r) PROVE TypeInv'
  <2>1. AgentsTyped'
    BY <1>7 DEF Export, AgentsTyped, EngineTyped
  <2>2. QED
    BY <1>7, <2>1 DEF Export, script, engine, requests, ScriptTyped, RequestsTyped, EngineTyped
<1>8. CASE UNCHANGED vars
  BY <1>8 DEF vars, script, engine, agents, requests, ScriptTyped, RequestsTyped,
              EngineTyped, AgentsTyped
<1>9. QED
  BY <1>1, <1>2, <1>3, <1>4, <1>5, <1>6, <1>7, <1>8, RequestTyped DEF Next, ScriptStep

LEMMA TypeInvariance == Spec => []TypeInv
BY InitTypeInv, NextTypeInv, PTL DEF Spec

\* Every variable has its type; no agent is overdue.
THEOREM ExperimentTyped == Spec => []TypeOK
<1>1. TypeInv => TypeOK
  BY DEF TypeInv, TypeOK, ScriptTyped, RequestsTyped, EngineTyped, AgentsTyped
<1>2. QED
  BY <1>1, TypeInvariance, PTL

-----------------------------------------------------------------------------
(* What the readings count.                                                *)
Shared == PrefixTokens["shared"]
Cost == Shared + QuestionTokens
Prefilled(q) == phase[q] \in {"prefilled", "done"}
Asked(q) == IF Prefilled(q) THEN Cost ELSE 0

\* No request is under way but in the warm-up and in the pair's time.
Where ==
    /\ step \in {"deploy", "waitBefore", "waitAfter", "judge"}
         => \A q \in Requests : phase[q] \in {"idle", "done"}
    /\ step = "pair" => phase["hello"] = "idle" /\ \A q \in Pair : phase[q] # "idle"
    /\ step = "waitAfter" => \A q \in Pair : phase[q] = "done"

\* An agent that shows old counters published before the wait began.
Published ==
    step \in {"waitBefore", "waitAfter"}
      => \A r \in Replicas : exported[r] = counters[r] \/ timer <= age[r]

\* What the counters gained since the first reading is what the pair asked for and
\* what it found; the first of the pair finds nothing.
PairCounted ==
    step \in {"pair", "waitAfter"} =>
      /\ Hits(counters) = before.hits + reused[arm]
      /\ Queries(counters) = before.queries + Asked("first") + Asked("second")
      /\ reused[arm] \in {0, Shared}
      /\ (\E q \in Pair : ~Prefilled(q)) => reused[arm] = 0

\* What is known of an arm that is over.
ArmRight(a) == ExactFor(a) /\ reused[a] \in {0, Shared}

History ==
    /\ arm = "default" => reused["affinity"] = 0
    /\ step \in {"deploy", "warmup", "waitBefore"} => reused[arm] = 0
    /\ arm = "affinity" => ArmRight("default")
    /\ step = "judge" => arm = "affinity" /\ ArmRight("affinity")

IInv ==
    TypeInv /\ ColdInv /\ Where /\ Published /\ PairCounted /\ History /\ VerdictIsRight

LEMMA InitParts == Init => Where /\ Published /\ PairCounted /\ History /\ VerdictIsRight
BY DEF Init, Where, Published, PairCounted, History, VerdictIsRight, Arms, Requests, Pair

\* What a request does, and when it can.
LEMMA RequestMoves ==
    ASSUME TypeInv, ColdInv, Where, NEW q \in Requests, RequestStep(q)
    PROVE  /\ step \in {"warmup", "pair"} /\ (step = "pair" <=> q \in Pair)
           /\ phase[q] \in {"sent", "chosen", "running", "prefilled"}
           /\ phase'[q] \in {"chosen", "running", "prefilled", "done"}
           /\ \A p \in Requests \ {q} : phase'[p] = phase[p]
           /\ UNCHANGED script /\ UNCHANGED agents
<1>1. phase[q] \in {"sent", "chosen", "running", "prefilled"}
  BY DEF RequestStep, Choose, Land, Prefill, FirstToken
<1>2. /\ phase'[q] \in {"chosen", "running", "prefilled", "done"}
      /\ \A p \in Requests \ {q} : phase'[p] = phase[p]
  BY DEF RequestStep, Choose, Land, Prefill, FirstToken, TypeInv, RequestsTyped
<1>3. UNCHANGED script /\ UNCHANGED agents
  BY DEF RequestStep, Choose, Land, Prefill, FirstToken
<1>4. step \in {"warmup", "pair"}
  BY <1>1 DEF RequestStep, Running, Where, TypeInv, ScriptTyped
<1>5. step = "pair" => q \in Pair
  BY <1>1 DEF Where, Requests
<1>6. step = "warmup" => q \notin Pair
  BY <1>1 DEF ColdInv
<1>7. QED
  BY <1>1, <1>2, <1>3, <1>4, <1>5, <1>6

LEMMA NextWhere == TypeInv /\ ColdInv /\ Where /\ [Next]_vars => Where'
<1> SUFFICES ASSUME TypeInv, ColdInv, Where, [Next]_vars PROVE Where'
  OBVIOUS
<1>1. CASE Deploy
  BY <1>1 DEF Deploy, Where
<1>2. CASE WarmUp
  <2>1. CASE step' = "waitBefore"
    <3>1. phase' = [phase EXCEPT !["hello"] = "idle"] /\ step = "warmup"
      BY <1>2, <2>1 DEF WarmUp
    <3>2. QED
      BY <2>1, <3>1 DEF Where, ColdInv, Requests, TypeInv, RequestsTyped
  <2>2. CASE step' = "warmup"
    BY <2>2 DEF Where
  <2>3. QED
    BY <1>2, <2>1, <2>2 DEF WarmUp
<1>3. CASE FirePair
  BY <1>3 DEF FirePair, Where, Requests, Pair
<1>4. CASE Gather
  BY <1>4 DEF Gather, requests, Where, Requests
<1>5. CASE Measure
  BY <1>5 DEF Measure, requests, Where
<1>6. CASE Judge \/ Raises
  BY <1>6 DEF Judge, Raises, Where
<1>7. CASE Tick \/ UNCHANGED vars
  BY <1>7 DEF Tick, vars, script, requests, Where
<1>8. ASSUME NEW q \in Requests, RequestStep(q) PROVE Where'
  BY <1>8, RequestMoves DEF Where, script, Requests, Pair
<1>9. ASSUME NEW r \in Replicas, Export(r) PROVE Where'
  BY <1>9 DEF Export, script, requests, Where
<1>10. QED
  BY <1>1, <1>2, <1>3, <1>4, <1>5, <1>6, <1>7, <1>8, <1>9 DEF Next, ScriptStep

LEMMA NextPublished ==
    TypeInv /\ ColdInv /\ Where /\ Published /\ [Next]_vars => Published'
<1> SUFFICES ASSUME TypeInv, ColdInv, Where, Published, [Next]_vars PROVE Published'
  OBVIOUS
<1>1. \A r \in Replicas : age[r] \in Nat
  BY DEF TypeInv, AgentsTyped
<1>2. CASE WarmUp \/ Gather
  <2>1. UNCHANGED <<exported, age>> /\ (step' \in {"waitBefore", "waitAfter"} => timer' = 0)
    BY <1>2 DEF WarmUp, Gather, agents
  <2>2. QED
    BY <1>1, <2>1 DEF Published
<1>3. CASE Deploy \/ FirePair \/ Measure \/ Judge \/ Raises
  BY <1>3 DEF Deploy, FirePair, Measure, Judge, Raises, Published
<1>4. CASE Tick
  <2>1. UNCHANGED <<step, exported, counters>> /\ timer' = timer + 1 /\ timer \in Nat
    BY <1>4 DEF Tick, engine, TypeInv, ScriptTyped
  <2>2. \A r \in Replicas : age'[r] = age[r] + 1
    BY <1>4 DEF Tick
  <2>3. QED
    BY <1>1, <2>1, <2>2 DEF Published
<1>5. CASE UNCHANGED vars
  BY <1>5 DEF vars, script, engine, agents, Published
<1>6. ASSUME NEW q \in Requests, RequestStep(q) PROVE Published'
  BY <1>6, RequestMoves DEF Published, script
<1>7. ASSUME NEW r \in Replicas, Export(r) PROVE Published'
  BY <1>7 DEF Export, script, engine, Published, TypeInv, AgentsTyped
<1>8. QED
  BY <1>2, <1>3, <1>4, <1>5, <1>6, <1>7 DEF Next, ScriptStep

\* When the wait is over every agent shows its counters: none can go that long
\* without publishing.
LEMMA ReadingIsCurrent ==
    ASSUME TypeInv, Published, step \in {"waitBefore", "waitAfter"}, Waited
    PROVE  Reading.hits = Hits(counters) /\ Reading.queries = Queries(counters)
<1>1. ASSUME NEW r \in Replicas PROVE exported[r] = counters[r]
  <2>1. age[r] \in 0..ExportPeriod /\ timer \in Nat
    BY DEF TypeInv, AgentsTyped, ScriptTyped
  <2>2. ~(timer <= age[r])
    BY <2>1 DEF Waited
  <2>3. QED
    BY <2>2 DEF Published
<1>2. /\ [r \in Replicas |-> exported[r].hits] = [r \in Replicas |-> counters[r].hits]
      /\ [r \in Replicas |-> exported[r].queries] = [r \in Replicas |-> counters[r].queries]
  BY <1>1
<1>3. QED
  BY <1>2 DEF Reading, Hits, Queries

\* A prefill of the pair: the first finds nothing, as the deployment is cold.
LEMMA PrefillCounts ==
    ASSUME TypeInv, ColdInv, Where, PairCounted, NEW q \in Pair, step = "pair", Prefill(q)
    PROVE  PairCounted' /\ \A a \in Arms \ {arm} : reused'[a] = reused[a]
<1> DEFINE r == at[q]
           found == IF "shared" \in cache[r] THEN Shared ELSE 0
           other == IF q = "first" THEN "second" ELSE "first"
<1>1. /\ r \in Replicas /\ PrefixOf(q) = "shared" /\ arm \in Arms /\ q \in Requests
      /\ phase[q] = "running" /\ other \in Pair \ {q} /\ Pair = {q, other}
      /\ other \in Requests
  BY DEF Prefill, PrefixOf, TypeInv, RequestsTyped, ScriptTyped, Pair, Requests
<1>2. /\ counters' = [counters EXCEPT ![r] = [hits |-> @.hits + found,
                                             queries |-> @.queries + Cost]]
      /\ reused' = [reused EXCEPT ![arm] = @ + found]
      /\ phase' = [phase EXCEPT ![q] = "prefilled"]
      /\ UNCHANGED <<arm, step, before>>
  BY <1>1 DEF Prefill, Cost, Shared, script
<1>3. found \in {0, Shared} /\ found \in Nat /\ Cost \in Nat /\ Shared \in Nat
  BY DEF Cost, Shared
<1>4. (~Prefilled(other)) => found = 0
  <2> SUFFICES ASSUME ~Prefilled(other) PROVE "shared" \notin cache[r]
    OBVIOUS
  <2>1. phase[other] \in {"sent", "chosen", "running"}
    BY <1>1 DEF Prefilled, Where, TypeInv, RequestsTyped
  <2>2. \A p \in Pair : phase[p] \in {"sent", "chosen", "running"}
    BY <1>1, <2>1
  <2>3. QED
    BY <1>1, <2>2 DEF ColdInv, PairIsCold
<1> HIDE DEF found, r, other
<1>5. /\ Hits(counters') = Hits(counters) + found
      /\ Queries(counters') = Queries(counters) + Cost
  <2>1. counters \in [Replicas -> Counters] /\ counters' \in [Replicas -> Counters]
    BY <1>1, <1>2, <1>3 DEF TypeInv, EngineTyped, Counters
  <2>2. ReadingGrows(counters, counters', r, found, Cost)
    BY <1>1, <1>2, <1>3, <2>1 DEF ReadingGrows
  <2>3. QED
    BY <2>2, ReadingAdds
<1>6. reused'[arm] = reused[arm] + found /\ reused[arm] \in Nat
  BY <1>1, <1>2 DEF TypeInv, EngineTyped
<1>7. reused[arm] = 0 /\ Asked(q) = 0 /\ Prefilled(q)' /\ Asked(q)' = Cost
  <2>1. ~Prefilled(q) /\ Prefilled(q)'
    BY <1>1, <1>2 DEF Prefilled, TypeInv, RequestsTyped
  <2>2. QED
    BY <2>1 DEF PairCounted, Asked
<1>8. Prefilled(other)' = Prefilled(other) /\ Asked(other)' = Asked(other)
  BY <1>1, <1>2 DEF Prefilled, Asked, TypeInv, RequestsTyped
<1>9. /\ Asked(other) \in Nat
      /\ Asked("first") + Asked("second") = Asked(q) + Asked(other)
      /\ Asked("first")' + Asked("second")' = Asked(q)' + Asked(other)'
  <2>1. Asked(q) \in Nat /\ Asked(other) \in Nat /\ Asked(q)' \in Nat /\ Asked(other)' \in Nat
    BY <1>3 DEF Asked
  <2>2. (q = "first" /\ other = "second") \/ (q = "second" /\ other = "first")
    BY DEF other, Pair
  <2>3. QED
    BY <2>1, <2>2
<1>10. Hits(counters) \in Nat /\ Queries(counters) \in Nat /\ before.hits \in Nat
         /\ before.queries \in Nat
  BY ReadingTyped DEF TypeInv, EngineTyped, ScriptTyped, Counters
<1>11. /\ Hits(counters') = before'.hits + reused'[arm']
       /\ Queries(counters') = before'.queries + Asked("first")' + Asked("second")'
  <2>1. /\ Hits(counters) = before.hits + reused[arm]
        /\ Queries(counters) = before.queries + Asked("first") + Asked("second")
    BY DEF PairCounted
  <2>2. Asked("first") \in Nat /\ Asked("second") \in Nat
        /\ Asked("first")' \in Nat /\ Asked("second")' \in Nat
    BY <1>3 DEF Asked
  <2>3. before' = before /\ arm' = arm
    BY <1>2
  <2>4. Hits(counters') = before'.hits + reused'[arm']
    BY <1>3, <1>5, <1>6, <1>10, <2>1, <2>3
  <2>5. Queries(counters') = before'.queries + Asked("first")' + Asked("second")'
    BY <1>3, <1>5, <1>7, <1>8, <1>9, <1>10, <2>1, <2>2, <2>3
  <2>6. QED
    BY <2>4, <2>5
<1>12. reused'[arm'] \in {0, Shared}
  BY <1>2, <1>3, <1>6, <1>7
<1>13. (\E p \in Pair : ~Prefilled(p)') => reused'[arm'] = 0
  BY <1>1, <1>2, <1>4, <1>6, <1>7, <1>8
<1>14. PairCounted'
  BY <1>11, <1>12, <1>13 DEF PairCounted, Hits, Queries
<1>15. \A a \in Arms \ {arm} : reused'[a] = reused[a]
  BY <1>2 DEF TypeInv, EngineTyped
<1>16. QED
  BY <1>14, <1>15

\* A request that is not prefilled changes nothing that is counted.
LEMMA RequestCounts ==
    ASSUME TypeInv, ColdInv, Where, PairCounted, NEW q \in Requests, RequestStep(q)
    PROVE  /\ PairCounted' /\ \A a \in Arms \ {arm} : reused'[a] = reused[a]
           /\ step = "warmup" => UNCHANGED reused
<1>1. /\ step \in {"warmup", "pair"} /\ (step = "pair" <=> q \in Pair)
      /\ \A p \in Requests \ {q} : phase'[p] = phase[p]
      /\ UNCHANGED script
  BY RequestMoves
<1>2. UNCHANGED <<arm, step, before>>
  BY <1>1 DEF script
<1>3. CASE Prefill(q)
  <2>1. CASE q \in Pair
    BY <1>1, <1>3, <2>1, PrefillCounts
  <2>2. CASE q \notin Pair
    BY <1>1, <1>2, <1>3, <2>2 DEF Prefill, PairCounted
  <2>3. QED
    BY <2>1, <2>2
<1>4. CASE ~Prefill(q)
  <2>1. UNCHANGED <<counters, reused>>
    BY <1>4 DEF RequestStep, Choose, Land, FirstToken, engine
  <2>2. Prefilled(q)' = Prefilled(q)
    BY <1>4 DEF RequestStep, Choose, Land, FirstToken, Prefilled, TypeInv, RequestsTyped
  <2>3. \A p \in Pair : Prefilled(p)' = Prefilled(p) /\ Asked(p)' = Asked(p)
    BY <1>1, <2>2 DEF Prefilled, Asked, Pair, Requests
  <2>4. Asked("first")' = Asked("first") /\ Asked("second")' = Asked("second")
    BY <2>3 DEF Pair
  <2>5. PairCounted'
    <3> SUFFICES ASSUME step = "pair" PROVE PairCounted'
      BY <1>1, <1>2 DEF PairCounted
    <3>1. /\ Hits(counters) = before.hits + reused[arm]
          /\ Queries(counters) = before.queries + Asked("first") + Asked("second")
          /\ reused[arm] \in {0, Shared}
          /\ (\E p \in Pair : ~Prefilled(p)) => reused[arm] = 0
      BY DEF PairCounted
    <3>2. Hits(counters)' = Hits(counters) /\ Queries(counters)' = Queries(counters)
      BY <2>1 DEF Hits, Queries
    <3>3. (\E p \in Pair : ~Prefilled(p)') => reused'[arm'] = 0
      BY <1>2, <2>1, <2>3, <3>1
    <3>4. QED
      BY <1>2, <2>1, <2>4, <3>1, <3>2, <3>3 DEF PairCounted, Shared
  <2>6. QED
    BY <2>1, <2>5
<1>5. QED
  BY <1>3, <1>4

\* The first reading starts the count.
LEMMA FireCounts ==
    ASSUME TypeInv, Published, History, FirePair
    PROVE  PairCounted'
<1>1. /\ step = "waitBefore" /\ Waited /\ before' = Reading /\ UNCHANGED <<counters, reused, arm>>
      /\ phase' = [q \in Requests |-> IF q \in Pair THEN "sent" ELSE "idle"]
  BY DEF FirePair, engine
<1>2. Reading.hits = Hits(counters) /\ Reading.queries = Queries(counters)
  BY <1>1, ReadingIsCurrent
<1>3. Hits(counters)' = Hits(counters) /\ Queries(counters)' = Queries(counters)
  BY <1>1 DEF Hits, Queries
<1>4. Hits(counters) \in Nat /\ Queries(counters) \in Nat
  BY ReadingTyped DEF TypeInv, EngineTyped
<1>5. \A q \in Pair : ~Prefilled(q)'
  BY <1>1 DEF Prefilled, Requests, Pair
<1>6. Asked("first")' = 0 /\ Asked("second")' = 0
  BY <1>5 DEF Asked, Pair
<1>7. reused'[arm'] = 0
  BY <1>1 DEF History
<1>8. QED
  BY <1>1, <1>2, <1>3, <1>4, <1>6, <1>7 DEF PairCounted

\* The second reading measures the pair.
LEMMA MeasureIsRight ==
    ASSUME TypeInv, Where, Published, PairCounted, Measure
    PROVE  \A a \in Arms : a = arm => ArmRight(a)'
<1>1. /\ step = "waitAfter" /\ Waited /\ UNCHANGED reused
      /\ reuse' = [reuse EXCEPT ![arm] = Measured] /\ arm \in Arms
      /\ arm \in DOMAIN reuse
  BY DEF Measure, engine, TypeInv, ScriptTyped
<1>2. Reading.hits = Hits(counters) /\ Reading.queries = Queries(counters)
  BY <1>1, ReadingIsCurrent
<1>3. Asked("first") = Cost /\ Asked("second") = Cost
  BY <1>1 DEF Where, Asked, Prefilled, Pair
<1>4. /\ Hits(counters) = before.hits + reused[arm]
      /\ Queries(counters) = before.queries + Cost + Cost
      /\ reused[arm] \in {0, Shared}
  BY <1>1, <1>3 DEF PairCounted
<1>5. before.hits \in Nat /\ before.queries \in Nat /\ reused[arm] \in Nat
        /\ Cost \in Nat
  BY <1>1 DEF TypeInv, ScriptTyped, EngineTyped, Counters, Cost, Shared
<1>6. Measured = [hits |-> Reading.hits - before.hits,
                 queries |-> Reading.queries - before.queries]
  BY DEF Measured
<1>7. Measured.hits = reused[arm] /\ Measured.queries = Cost + Cost
  BY <1>2, <1>4, <1>5, <1>6
<1>8. reuse'[arm] = Measured
  BY <1>1
<1>9. Cost + Cost = 2 * (PrefixTokens["shared"] + QuestionTokens)
  BY <1>5 DEF Cost, Shared
<1>10. ASSUME NEW a \in Arms, a = arm
       PROVE  /\ reuse'[a].queries = 2 * (PrefixTokens["shared"] + QuestionTokens)
              /\ reuse'[a].hits = reused'[a] /\ reused'[a] \in {0, Shared}
  BY <1>1, <1>4, <1>7, <1>8, <1>9, <1>10
<1>11. QED
  BY <1>10 DEF ArmRight, ExactFor, Shared

\* Steps that touch neither the counters nor what was measured, and do not fire.
LEMMA CountsStay ==
    ASSUME PairCounted, UNCHANGED <<counters, reused, before, arm, phase>>,
           step' \in {"pair", "waitAfter"} => step \in {"pair", "waitAfter"}
    PROVE  PairCounted'
BY DEF PairCounted, Hits, Queries, Asked, Prefilled

LEMMA NextPairCounted ==
    TypeInv /\ ColdInv /\ Where /\ Published /\ PairCounted /\ History /\ [Next]_vars
      => PairCounted'
<1> SUFFICES ASSUME TypeInv, ColdInv, Where, Published, PairCounted, History, [Next]_vars
             PROVE  PairCounted'
  OBVIOUS
<1>1. CASE Deploy \/ WarmUp
  BY <1>1 DEF Deploy, WarmUp, PairCounted
<1>2. CASE FirePair
  BY <1>2, FireCounts
<1>3. CASE Gather
  BY <1>3, CountsStay DEF Gather, engine, requests
<1>4. CASE Measure \/ Judge \/ Raises
  BY <1>4 DEF Measure, Judge, Raises, PairCounted
<1>5. CASE Tick \/ UNCHANGED vars
  BY <1>5, CountsStay DEF Tick, vars, script, engine, requests
<1>6. ASSUME NEW q \in Requests, RequestStep(q) PROVE PairCounted'
  BY <1>6, RequestCounts
<1>7. ASSUME NEW r \in Replicas, Export(r) PROVE PairCounted'
  BY <1>7, CountsStay DEF Export, script, engine, requests
<1>8. QED
  BY <1>1, <1>2, <1>3, <1>4, <1>5, <1>6, <1>7 DEF Next, ScriptStep

LEMMA NextHistory ==
    TypeInv /\ ColdInv /\ Where /\ Published /\ PairCounted /\ History /\ [Next]_vars
      => History'
<1> SUFFICES ASSUME TypeInv, ColdInv, Where, Published, PairCounted, History, [Next]_vars
             PROVE  History'
  OBVIOUS
<1> USE DEF ArmRight, ExactFor
<1>1. CASE Deploy \/ WarmUp
  <2>1. /\ UNCHANGED <<arm, reuse, reused>> /\ step \in {"deploy", "warmup"}
        /\ step' \in {"warmup", "waitBefore"}
    BY <1>1 DEF Deploy, WarmUp, engine
  <2>2. QED
    BY <2>1 DEF History
<1>2. CASE FirePair \/ Gather \/ Judge \/ Raises
  <2>1. /\ UNCHANGED <<arm, reuse, reused>> /\ step' \in {"pair", "waitAfter", "over"}
    BY <1>2 DEF FirePair, Gather, Judge, Raises, engine
  <2>2. QED
    BY <2>1 DEF History
<1>3. CASE Measure
  <2>1. /\ UNCHANGED reused /\ arm' = "affinity" /\ arm \in Arms
        /\ step' = IF arm = "default" THEN "deploy" ELSE "judge"
        /\ reuse' = [reuse EXCEPT ![arm] = Measured]
    BY <1>3 DEF Measure, engine, TypeInv, ScriptTyped
  <2>2. \A a \in Arms : a = arm => ArmRight(a)'
    BY <1>3, MeasureIsRight
  <2>3. CASE arm = "default"
    BY <2>1, <2>2, <2>3 DEF History, Arms
  <2>4. CASE arm = "affinity"
    <3>1. reuse'["default"] = reuse["default"]
      BY <2>1, <2>4 DEF Arms, TypeInv, ScriptTyped
    <3>2. ArmRight("affinity")'
      BY <2>2, <2>4 DEF Arms
    <3>3. QED
      BY <2>1, <2>4, <3>1, <3>2 DEF History
  <2>5. QED
    BY <2>1, <2>3, <2>4 DEF Arms
<1>4. CASE Tick \/ UNCHANGED vars
  BY <1>4 DEF Tick, vars, script, engine, History
<1>5. ASSUME NEW q \in Requests, RequestStep(q) PROVE History'
  <2>1. /\ step \in {"warmup", "pair"} /\ UNCHANGED <<arm, step, reuse>> /\ arm \in Arms
    BY <1>5, RequestMoves DEF script, TypeInv, ScriptTyped
  <2>2. /\ \A a \in Arms \ {arm} : reused'[a] = reused[a]
        /\ step = "warmup" => UNCHANGED reused
    BY <1>5, RequestCounts
  <2>3. QED
    BY <2>1, <2>2 DEF History, Arms
<1>6. ASSUME NEW r \in Replicas, Export(r) PROVE History'
  BY <1>6 DEF Export, script, engine, History
<1>7. QED
  BY <1>1, <1>2, <1>3, <1>4, <1>5, <1>6 DEF Next, ScriptStep

\* With every prefix longer than its question, the thresholds tell the four cases
\* apart.
LEMMA ThresholdsSeparate ==
    ASSUME ArmRight("default"), ArmRight("affinity")
    PROVE  BeatsDefault <=> reused["affinity"] = Shared /\ reused["default"] = 0
<1> DEFINE N == reuse["affinity"].queries
           dh == reuse["default"].hits
           ah == reuse["affinity"].hits
<1>1. /\ reuse["default"].queries = N /\ N = 2 * (Shared + QuestionTokens)
      /\ dh = reused["default"] /\ ah = reused["affinity"]
      /\ dh \in {0, Shared} /\ ah \in {0, Shared}
  BY DEF ArmRight, ExactFor, Shared
<1>2. Shared \in Nat /\ QuestionTokens \in Nat /\ Shared > QuestionTokens /\ QuestionTokens > 0
  BY DEF Shared
<1>3. N \in Nat /\ N > 0 /\ Shared > 0 /\ 4 * Shared > N
  <2> HIDE DEF N
  <2>1. QED
    BY <1>1, <1>2
<1>4. BeatsDefault <=> 4 * (ah * N - dh * N) > N * N /\ 4 * ah > N
  <2> HIDE DEF N, dh, ah
  <2>1. BeatsDefault <=> /\ N > 0 /\ N > 0
                         /\ 4 * (ah * N - dh * N) > N * N
                         /\ 4 * ah > N
    BY <1>1 DEF BeatsDefault, N, dh, ah
  <2>2. QED
    BY <1>3, <2>1
<1> HIDE DEF N, dh, ah
<1>5. CASE ah = 0
  <2>1. ~(4 * ah > N)
    BY <1>3, <1>5
  <2>2. QED
    BY <1>1, <1>3, <1>4, <1>5, <2>1
<1>6. CASE ah = Shared /\ dh = Shared
  <2>1. Shared * N \in Nat /\ N * N > 0
    BY <1>2, <1>3
  <2>2. 4 * (Shared * N - Shared * N) = 0
    BY <2>1
  <2>3. ~BeatsDefault
    BY <1>3, <1>4, <1>6, <2>1, <2>2
  <2>4. QED
    BY <1>1, <1>3, <1>6, <2>3
<1>7. CASE ah = Shared /\ dh = 0
  <2>1. 4 * (Shared * N - 0 * N) = (4 * Shared) * N
    BY <1>2, <1>3
  <2>2. (4 * Shared) * N > N * N
    <3>1. \A x, y \in Nat : x > y /\ y > 0 => x * y > y * y
      OBVIOUS
    <3>2. QED
      BY <1>2, <1>3, <3>1
  <2>3. BeatsDefault
    BY <1>3, <1>4, <1>7, <2>1, <2>2
  <2>4. QED
    BY <1>1, <1>7, <2>3
<1>8. QED
  BY <1>1, <1>5, <1>6, <1>7

LEMMA NextVerdict == TypeInv /\ History /\ VerdictIsRight /\ [Next]_vars => VerdictIsRight'
<1> SUFFICES ASSUME TypeInv, History, VerdictIsRight, [Next]_vars PROVE VerdictIsRight'
  OBVIOUS
<1>1. CASE Judge
  <2>1. /\ ArmRight("default") /\ ArmRight("affinity") /\ UNCHANGED reused
        /\ verdict' = IF BeatsDefault THEN "PASS" ELSE "FAIL"
    BY <1>1 DEF Judge, History, engine
  <2>2. BeatsDefault <=> reused["affinity"] = Shared /\ reused["default"] = 0
    BY <2>1, ThresholdsSeparate
  <2>3. QED
    BY <2>1, <2>2 DEF VerdictIsRight, Shared
<1>2. CASE Deploy \/ WarmUp \/ FirePair \/ Gather \/ Measure
  BY <1>2 DEF Deploy, WarmUp, FirePair, Gather, Measure, VerdictIsRight
<1>3. CASE Raises
  BY <1>3 DEF Raises, VerdictIsRight
<1>4. CASE Tick \/ UNCHANGED vars
  BY <1>4 DEF Tick, vars, script, engine, VerdictIsRight
<1>5. ASSUME NEW q \in Requests, RequestStep(q) PROVE VerdictIsRight'
  <2>1. step # "over" /\ UNCHANGED step
    BY <1>5 DEF RequestStep, Running, Choose, Land, Prefill, FirstToken, script
  <2>2. QED
    BY <2>1 DEF VerdictIsRight
<1>6. ASSUME NEW r \in Replicas, Export(r) PROVE VerdictIsRight'
  BY <1>6 DEF Export, script, engine, VerdictIsRight
<1>7. QED
  BY <1>1, <1>2, <1>3, <1>4, <1>5, <1>6 DEF Next, ScriptStep

LEMMA Invariance == Spec => []IInv
<1>1. Init => IInv
  BY InitTypeInv, InitColdInv, InitParts DEF IInv
<1>2. IInv /\ [Next]_vars => IInv'
  BY NextTypeInv, NextColdInv, NextWhere, NextPublished, NextPairCounted, NextHistory,
     NextVerdict DEF IInv
<1>3. QED
  BY <1>1, <1>2, PTL DEF Spec

\* What an arm measured are the tokens of its pair, all of them and none of the
\* warm-up's, though the agents publish late (verify.py:149-162).
THEOREM PairIsMeasured == Spec => []MeasuresThePair
<1>1. IInv => MeasuresThePair
  BY DEF IInv, History, ArmRight, MeasuresThePair
<1>2. QED
  BY <1>1, Invariance, PTL

\* Whatever the routers did, PASS is printed exactly if the second request of the
\* affinity pair found the whole prefix and that of the default pair nothing
\* (verify.py:182-194).
THEOREM VerdictFollows == Spec => []VerdictIsRight
<1>1. IInv => VerdictIsRight
  BY DEF IInv
<1>2. QED
  BY <1>1, Invariance, PTL
=============================================================================

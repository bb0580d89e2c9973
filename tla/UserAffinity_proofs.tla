------------------------ MODULE UserAffinity_proofs ------------------------
(***************************************************************************)
(* What UserAffinity guarantees for every number of users, requests and    *)
(* replicas, every hash, every load threshold and every listing order.     *)
(***************************************************************************)
EXTENDS UserAffinity, FiniteSetTheorems, SequenceTheorems, WellFoundedInduction, TLAPS

-----------------------------------------------------------------------------
(* Sets of replicas and of requests are finite; a user has a slot in them.  *)
\* A nonempty set of naturals has a least element.
LEMMA Least ==
    ASSUME NEW S \in SUBSET Nat, S # {}
    PROVE  \E x \in S : \A y \in S : x <= y
<1>1. PICK x \in S : \A y \in S : ~(<<y, x>> \in OpToRel(<, Nat))
  BY NatLessThanWellFounded, WFMin, Zenon
<1>2. ASSUME NEW y \in S PROVE x <= y
  <2> DEFINE pair == <<y, x>>
  <2>1. pair \in Nat \X Nat /\ pair[1] = y /\ pair[2] = x
    OBVIOUS
  <2>2. ~(pair \in {ss \in Nat \X Nat : ss[1] < ss[2]})
    BY <1>1 DEF OpToRel
  <2>3. ~(pair[1] < pair[2])
    BY <2>1, <2>2
  <2>4. QED
    BY <2>1, <2>3
<1>3. QED
  BY <1>2

Before(S, r) == {s \in S : s < r}

\* In a finite set of replicas, every number below its size is the number of ids
\* before one of them.
LEMMA SlotTaken ==
    ASSUME NEW S \in SUBSET Nat, IsFiniteSet(S), NEW k \in Nat, k < Cardinality(S)
    PROVE  \E r \in S : Cardinality(Before(S, r)) = k
<1> DEFINE Free == {n \in Nat : /\ n < Cardinality(S)
                                /\ \A r \in S : Cardinality(Before(S, r)) # n}
<1>1. Cardinality(S) \in Nat
  BY FS_CardinalityType
<1>2. SUFFICES ASSUME Free # {} PROVE FALSE
  OBVIOUS
<1>3. PICK n \in Free : \A m \in Free : n <= m
  <2>1. Free \in SUBSET Nat
    OBVIOUS
  <2> HIDE DEF Free
  <2>2. QED
    BY <1>2, <2>1, Least
<1>4. CASE n = 0
  <2>1. S # {}
    BY <1>1, <1>3, <1>4, FS_EmptySet
  <2>2. PICK r \in S : \A s \in S : r <= s
    BY <2>1, Least
  <2>3. Before(S, r) = {}
    <3>1. ASSUME NEW s \in S PROVE ~(s < r)
      <4>1. s \in Nat /\ r \in Nat /\ r <= s
        BY <2>2
      <4>2. QED
        BY <4>1
    <3>2. QED
      BY <3>1 DEF Before
  <2>4. QED
    BY <1>3, <1>4, <2>3, FS_EmptySet
<1>5. CASE n # 0
  <2>1. PICK r \in S : Cardinality(Before(S, r)) = n - 1
    <3>1. n - 1 \in Nat /\ n - 1 < Cardinality(S) /\ n - 1 \notin Free
      BY <1>1, <1>3, <1>5
    <3>2. QED
      BY <3>1
  <2> DEFINE After == {s \in S : r < s}
             UpTo == Before(S, r) \cup {r}
  <2>2. /\ IsFiniteSet(Before(S, r)) /\ r \notin Before(S, r)
        /\ IsFiniteSet(UpTo) /\ Cardinality(UpTo) = n
    <3>1. Before(S, r) \subseteq S /\ r \notin Before(S, r)
      BY DEF Before
    <3>2. IsFiniteSet(Before(S, r))
      BY <3>1, FS_Subset
    <3>3. IsFiniteSet(UpTo) /\ Cardinality(UpTo) = Cardinality(Before(S, r)) + 1
      BY <3>1, <3>2, FS_AddElement
    <3>4. QED
      BY <2>1, <3>1, <3>2, <3>3
  <2>3. After # {}
    <3>1. ASSUME After = {} PROVE UpTo = S
      <4>1. ASSUME NEW s \in S PROVE s < r \/ s = r
        <5>1. s \in Nat /\ r \in Nat /\ ~(r < s)
          BY <3>1
        <5>2. QED
          BY <5>1
      <4>2. QED
        BY <4>1 DEF Before
    <3>2. QED
      BY <1>1, <1>3, <2>2, <3>1
  <2>4. PICK t \in After : \A s \in After : t <= s
    BY <2>3, Least
  <2>5. Before(S, t) = UpTo
    <3>1. ASSUME NEW s \in S PROVE s < t <=> s < r \/ s = r
      <4>1. s \in Nat /\ r \in Nat /\ t \in Nat /\ r < t /\ (r < s => t <= s)
        BY <2>4
      <4>2. QED
        BY <4>1
    <3>2. QED
      BY <3>1 DEF Before
  <2>6. QED
    BY <1>3, <2>2, <2>4, <2>5
<1>6. QED
  BY <1>4, <1>5

\* _affine_replica answers with one of the replicas it was given.
LEMMA AffineOfThem ==
    ASSUME NEW u \in Users, NEW S \in SUBSET ReplicaIds, S # {}
    PROVE  Affine(u, S) \in S
<1>1. S \in SUBSET Nat /\ IsFiniteSet(S)
  BY ReplicasAssumption, FS_Subset
<1>2. Cardinality(S) \in Nat /\ Cardinality(S) # 0
  BY <1>1, FS_CardinalityType, FS_EmptySet
<1> DEFINE slot == Crc32[u] % Cardinality(S)
<1>3. slot \in Nat /\ slot < Cardinality(S)
  BY <1>2, Crc32Assumption
<1> HIDE DEF slot
<1>4. \E r \in S : Cardinality(Before(S, r)) = slot
  BY <1>1, <1>3, SlotTaken
<1>5. QED
  BY <1>4 DEF Affine, Before, slot

LEMMA Countable ==
    ASSUME NEW S \in SUBSET Requests
    PROVE  IsFiniteSet(S) /\ Cardinality(S) \in Nat
BY UserOfAssumption, FS_Subset, FS_CardinalityType

-----------------------------------------------------------------------------
(* Requests and replicas.                                                  *)
Fetching(r) == {q \in Requests : at[q] = r /\ phase[q] = "fetching"}

\* A request that runs is on a replica and of a user if it waits for features; one
\* that was answered from a cache is over.
Placed(q) ==
    /\ phase[q] \in {"assigned", "fetching", "done"} => at[q] \in ReplicaIds
    /\ phase[q] = "fetching" => UserOf[q] \in Users
    /\ q \in cache_hit => phase[q] = "done"

\* The replica of a user as long as there is no excuse to leave it.
Home(u) == Affine(u, ToSet(InitialReplicas))

AtHome(u) ==
    excuses[u] = {} =>
      /\ Live = ToSet(InitialReplicas)
      /\ replicas_per_user[u] \subseteq {Home(u)}
      /\ \A q \in Requests : UserOf[q] = u /\ phase[q] = "chosen"
                               => 1 \in DOMAIN ranks[q] /\ ranks[q][1] = {Home(u)}

IInv ==
    /\ TypeOK /\ OngoingExact /\ CacheIsWarm
    /\ \A q \in Requests : Placed(q)
    /\ \A u \in Users : AtHome(u)

LEMMA LiveType ==
    ASSUME TypeOK
    PROVE  Live \subseteq ReplicaIds
BY LenProperties DEF TypeOK, Live, ToSet

LEMMA InitIInv == Init => IInv
<1> SUFFICES ASSUME Init PROVE IInv
  OBVIOUS
<1>1. ToSet(InitialReplicas) \subseteq ReplicaIds
  BY ReplicasAssumption, LenProperties DEF ToSet
<1>2. TypeOK
  BY <1>1, ReplicasAssumption, BoundsAssumption, EmptySeq
  DEF Init, ReplicaInit, TypeOK, Phases, NoReplica
<1>3. OngoingExact
  <2>1. ASSUME NEW r \in ReplicaIds
        PROVE  {q \in Requests : at[q] = r /\ phase[q] = "fetching"} = {}
    BY DEF Init
  <2>2. QED
    BY <2>1, FS_EmptySet DEF Init, ReplicaInit, OngoingExact
<1>4. QED
  BY <1>2, <1>3 DEF Init, ReplicaInit, IInv, CacheIsWarm, Placed, AtHome, Live
-----------------------------------------------------------------------------
(* The router's steps.                                                     *)
\* A step that moves no request in or out of the feature store, caches nothing and
\* ends nothing keeps what is counted and what is warm.
LEMMA ReplicasKeep ==
    ASSUME OngoingExact, CacheIsWarm, UNCHANGED <<ongoing, feature_cache, cache_hit>>,
           \A q \in Requests : (phase[q] = "fetching") = (phase'[q] = "fetching"),
           \A q \in Requests : phase[q] = "done" => phase'[q] = "done",
           \A q \in Requests : phase[q] \in {"fetching", "done"} => at'[q] = at[q]
    PROVE  OngoingExact' /\ CacheIsWarm'
<1>1. ASSUME NEW r \in ReplicaIds PROVE Fetching(r)' = Fetching(r)
  BY DEF Fetching
<1>2. OngoingExact'
  BY <1>1 DEF OngoingExact, Fetching
<1>3. CacheIsWarm'
  BY DEF CacheIsWarm
<1>4. QED
  BY <1>2, <1>3

\* The home of a user is a matter of constants.
LEMMA HomeStays ==
    ASSUME NEW u \in Users
    PROVE  Home(u)' = Home(u)
BY DEF Home, Affine, ToSet

LEMMA ArriveKeeps ==
    ASSUME IInv, NEW q \in Requests, Arrive(q)
    PROVE  IInv'
<1> USE DEF IInv
<1>1. TypeOK'
  BY DEF Arrive, TypeOK, Phases, routerVars, replicaVars
<1>2. OngoingExact' /\ CacheIsWarm'
  BY ReplicasKeep DEF Arrive, TypeOK, replicaVars
<1>3. \A p \in Requests : Placed(p)'
  BY DEF Arrive, TypeOK, Placed, replicaVars
<1>4. \A u \in Users : AtHome(u)'
  BY DEF Arrive, TypeOK, AtHome, Live, Home, Affine, routerVars
<1>5. QED
  BY <1>1, <1>2, <1>3, <1>4

\* The first rank of a choice made without an excuse is the user's home.
LEMMA ChooseKeeps ==
    ASSUME IInv, NEW q \in Requests, Choose(q)
    PROVE  IInv'
<1> USE DEF IInv
<1> DEFINE available == {r \in Live : HasRoom(r)}
           u == UserOf[q]
<1>1. /\ phase[q] = "pending" /\ available # {}
      /\ phase' = [phase EXCEPT ![q] = "chosen"]
      /\ UNCHANGED <<routerVars, at, replicaVars, replicas_per_user, faults>>
  BY DEF Choose
<1>2. available \subseteq ReplicaIds /\ available \subseteq Live
  BY LiveType
<1>3. PICK chosen \in Seq(SUBSET ReplicaIds), why \in {"none", "overridden", "crowded"} :
        /\ ranks' = [ranks EXCEPT ![q] = chosen]
        /\ excuses' = IF why = "none" THEN excuses ELSE Excuse(u, why)
        /\ why = "none" /\ u # NoUser
             => /\ available = Live /\ 1 \in DOMAIN chosen
                /\ chosen[1] = {Affine(u, available)}
  <2> HIDE DEF available, u
  <2>1. CASE u = NoUser /\ ranks' = [ranks EXCEPT ![q] = <<available>>]
             /\ UNCHANGED excuses
    <3>1. <<available>> \in Seq(SUBSET ReplicaIds)
      BY <1>2
    <3>2. QED
      BY <2>1, <3>1
  <2>2. CASE u # NoUser
    <3>1. u \in Users
      BY <2>2, UserOfAssumption DEF u
    <3> DEFINE preferred == Affine(u, available)
    <3>2. preferred \in ReplicaIds
      BY <1>1, <1>2, <3>1, AffineOfThem
    <3> HIDE DEF preferred
    <3>3. PICK least \in LeastLoaded(available) :
            IF Lopsided(preferred, least)
            THEN /\ ranks' = [ranks EXCEPT ![q] = Override(least)]
                 /\ excuses' = Excuse(u, "overridden")
            ELSE /\ ranks' = [ranks EXCEPT ![q] = <<{preferred}, available \ {preferred}>>]
                 /\ excuses' = IF available = Live THEN excuses ELSE Excuse(u, "crowded")
      BY <2>2 DEF Choose, available, u, preferred
    <3>4. CASE Lopsided(preferred, least)
      <4>1. Override(least) \in Seq(SUBSET ReplicaIds)
        BY <1>2 DEF Override, LeastLoaded
      <4>2. QED
        BY <3>3, <3>4, <4>1
    <3>5. CASE ~Lopsided(preferred, least)
      <4> DEFINE two == <<{preferred}, available \ {preferred}>>
      <4>1. two \in Seq(SUBSET ReplicaIds) /\ 1 \in DOMAIN two /\ two[1] = {preferred}
        BY <1>2, <3>2
      <4>2. CASE available = Live
        BY <3>3, <3>5, <4>1, <4>2 DEF preferred
      <4>3. CASE available # Live
        BY <3>3, <3>5, <4>1, <4>3
      <4>4. QED
        BY <4>2, <4>3
    <3>6. QED
      BY <3>4, <3>5
  <2>3. QED
    BY <2>1, <2>2 DEF Choose, u, available
<1>4. excuses' \in [Users -> SUBSET {"overridden", "crowded", "moved"}]
  BY <1>3 DEF TypeOK, Excuse
<1>5. TypeOK'
  BY <1>1, <1>3, <1>4 DEF TypeOK, Phases, routerVars, replicaVars
<1>6. OngoingExact' /\ CacheIsWarm'
  BY <1>1, ReplicasKeep DEF TypeOK, replicaVars
<1>7. \A p \in Requests : Placed(p)'
  BY <1>1 DEF TypeOK, Placed, replicaVars
<1>8. ASSUME NEW v \in Users, excuses'[v] = {}
      PROVE  /\ Live' = ToSet(InitialReplicas)
             /\ replicas_per_user'[v] \subseteq {Home(v)}
             /\ \A p \in Requests : UserOf[p] = v /\ phase'[p] = "chosen"
                                      => 1 \in DOMAIN ranks'[p] /\ ranks'[p][1] = {Home(v)}
  <2>1. excuses[v] = {} /\ AtHome(v) /\ Live' = Live
    BY <1>1, <1>3, <1>8 DEF TypeOK, Excuse, Live, routerVars
  <2>2. u = v => why = "none" /\ u # NoUser
    BY <1>3, <1>8, UserOfAssumption DEF TypeOK, Excuse
  <2>3. Live = ToSet(InitialReplicas) /\ replicas_per_user' = replicas_per_user
    BY <1>1, <2>1 DEF AtHome
  <2>4. ASSUME NEW p \in Requests, UserOf[p] = v, phase'[p] = "chosen"
        PROVE  1 \in DOMAIN ranks'[p] /\ ranks'[p][1] = {Home(v)}
    <3>1. CASE p = q
      <4>1. ranks'[q] = chosen
        BY <1>3 DEF TypeOK
      <4>2. QED
        BY <1>3, <2>2, <2>3, <2>4, <3>1, <4>1 DEF Home
    <3>2. CASE p # q
      BY <1>1, <1>3, <2>1, <2>4, <3>2 DEF AtHome, TypeOK
    <3>3. QED
      BY <3>1, <3>2
  <2>5. QED
    BY <2>1, <2>3, <2>4 DEF AtHome
<1>9. \A v \in Users : AtHome(v)'
  BY <1>8, HomeStays DEF AtHome
<1>10. QED
  BY <1>5, <1>6, <1>7, <1>9

\* Without an excuse the request lands where the first rank says.
LEMMA LandKeeps ==
    ASSUME IInv, NEW q \in Requests, Land(q)
    PROVE  IInv'
<1> USE DEF IInv
<1> DEFINE u == UserOf[q]
<1>0. PICK i \in FirstOpen(q) : \E r \in Open(ranks[q][i]) :
        /\ at' = [at EXCEPT ![q] = r]
        /\ replicas_per_user' = IF u = NoUser THEN replicas_per_user
                                ELSE [replicas_per_user EXCEPT ![u] = @ \cup {r}]
        /\ excuses' = IF i = 1 THEN excuses ELSE Excuse(u, "crowded")
  BY DEF Land
<1>1. PICK r \in Open(ranks[q][i]) :
        /\ at' = [at EXCEPT ![q] = r]
        /\ replicas_per_user' = IF u = NoUser THEN replicas_per_user
                                ELSE [replicas_per_user EXCEPT ![u] = @ \cup {r}]
        /\ excuses' = IF i = 1 THEN excuses ELSE Excuse(u, "crowded")
  BY <1>0
<1>2. /\ phase[q] = "chosen" /\ phase' = [phase EXCEPT ![q] = "assigned"]
      /\ ranks' = [ranks EXCEPT ![q] = <<>>]
      /\ UNCHANGED <<routerVars, replicaVars, faults>>
  BY DEF Land
<1>3. r \in ReplicaIds /\ r \in ranks[q][i] /\ i \in DOMAIN ranks[q]
  BY LiveType DEF Open, FirstOpen
<1>4. u \in Users \cup {NoUser}
  BY UserOfAssumption
<1>5. TypeOK'
  <2>1. replicas_per_user' \in [Users -> SUBSET ReplicaIds]
    BY <1>1, <1>3, <1>4 DEF TypeOK
  <2>2. excuses' \in [Users -> SUBSET {"overridden", "crowded", "moved"}]
    BY <1>1 DEF TypeOK, Excuse
  <2>3. at' \in [Requests -> ReplicaIds \cup {NoReplica}]
    BY <1>1, <1>3 DEF TypeOK
  <2>4. phase' \in [Requests -> Phases] /\ ranks' \in [Requests -> Seq(SUBSET ReplicaIds)]
    BY <1>2, EmptySeq DEF TypeOK, Phases
  <2>5. QED
    BY <1>2, <2>1, <2>2, <2>3, <2>4 DEF TypeOK, routerVars, replicaVars
<1>6. OngoingExact' /\ CacheIsWarm'
  BY <1>1, <1>2, ReplicasKeep DEF TypeOK, replicaVars
<1>7. \A p \in Requests : Placed(p)'
  BY <1>1, <1>2, <1>3 DEF TypeOK, Placed, replicaVars
<1>8. ASSUME NEW v \in Users, excuses'[v] = {}
      PROVE  /\ Live' = ToSet(InitialReplicas)
             /\ replicas_per_user'[v] \subseteq {Home(v)}
             /\ \A p \in Requests : UserOf[p] = v /\ phase'[p] = "chosen"
                                      => 1 \in DOMAIN ranks'[p] /\ ranks'[p][1] = {Home(v)}
  <2>1. excuses[v] = {} /\ AtHome(v) /\ Live' = Live
    BY <1>1, <1>2, <1>8 DEF TypeOK, Excuse, Live, routerVars
  <2>2. u = v => i = 1
    BY <1>1, <1>8 DEF TypeOK, Excuse
  <2>3. replicas_per_user'[v] \subseteq {Home(v)}
    <3>1. CASE u = v
      <4>1. ranks[q][1] = {Home(v)}
        BY <1>2, <2>1, <3>1 DEF AtHome
      <4>2. r = Home(v)
        BY <1>3, <2>2, <3>1, <4>1
      <4>3. QED
        BY <1>1, <2>1, <3>1, <4>2 DEF AtHome, TypeOK
    <3>2. CASE u # v
      BY <1>1, <2>1, <3>2 DEF AtHome, TypeOK
    <3>3. QED
      BY <3>1, <3>2
  <2>4. \A p \in Requests : phase'[p] = "chosen" => phase[p] = "chosen" /\ ranks'[p] = ranks[p]
    BY <1>2 DEF TypeOK
  <2>5. QED
    BY <2>1, <2>3, <2>4 DEF AtHome
<1>9. \A v \in Users : AtHome(v)'
  BY <1>8, HomeStays DEF AtHome
<1>10. QED
  BY <1>5, <1>6, <1>7, <1>9

LEMMA ChooseAgainKeeps ==
    ASSUME IInv, NEW q \in Requests, ChooseAgain(q)
    PROVE  IInv'
<1> USE DEF IInv
<1>1. TypeOK'
  BY EmptySeq DEF ChooseAgain, TypeOK, Phases, routerVars, replicaVars
<1>2. OngoingExact' /\ CacheIsWarm'
  BY ReplicasKeep DEF ChooseAgain, TypeOK, replicaVars
<1>3. \A p \in Requests : Placed(p)'
  BY DEF ChooseAgain, TypeOK, Placed, replicaVars
<1>4. \A u \in Users : AtHome(u)'
  BY HomeStays DEF ChooseAgain, TypeOK, AtHome, Live, routerVars
<1>5. QED
  BY <1>1, <1>2, <1>3, <1>4

-----------------------------------------------------------------------------
(* The replicas' steps: they concern no choice of the router.              *)
\* A request beyond its choice leaves every user where it was.
LEMMA RouterKeeps ==
    ASSUME TypeOK, \A u \in Users : AtHome(u), NEW q \in Requests,
           NEW outcome \in Phases \ {"chosen"}, phase' = [phase EXCEPT ![q] = outcome],
           UNCHANGED <<replicas, ranks, replicas_per_user, excuses>>
    PROVE  \A u \in Users : AtHome(u)'
BY HomeStays DEF TypeOK, AtHome, Live

LEMMA RankHitKeeps ==
    ASSUME IInv, NEW q \in Requests, RankHit(q)
    PROVE  IInv'
<1> USE DEF IInv
<1>1. /\ phase[q] = "assigned" /\ phase' = [phase EXCEPT ![q] = "done"]
      /\ cache_hit' = cache_hit \cup {q} /\ q \notin cache_hit
      /\ UNCHANGED <<routerVars, ranks, at, ongoing, feature_cache, replicas_per_user,
                     excuses, faults>>
  BY DEF RankHit, End, Placed
<1>2. TypeOK'
  BY <1>1 DEF TypeOK, Phases, routerVars
<1>3. OngoingExact'
  <2>1. ASSUME NEW r \in ReplicaIds PROVE Fetching(r)' = Fetching(r)
    BY <1>1 DEF Fetching, TypeOK
  <2>2. QED
    BY <1>1, <2>1 DEF OngoingExact, Fetching
<1>4. CacheIsWarm'
  <2>1. \A p \in Requests \ cache_hit : phase[p] = "done" => /\ p \notin cache_hit'
                                                            /\ phase'[p] = "done"
    BY <1>1 DEF TypeOK
  <2>2. QED
    BY <1>1, <2>1 DEF CacheIsWarm
<1>5. \A p \in Requests : Placed(p)'
  BY <1>1 DEF TypeOK, Placed
<1>6. \A u \in Users : AtHome(u)'
  BY <1>1, RouterKeeps DEF routerVars, Phases
<1>7. QED
  BY <1>2, <1>3, <1>4, <1>5, <1>6

LEMMA RankMissKeeps ==
    ASSUME IInv, NEW q \in Requests, RankMiss(q)
    PROVE  IInv'
<1> USE DEF IInv
<1> DEFINE r == at[q]
<1>1. /\ phase[q] = "assigned" /\ UserOf[q] \in Users /\ r \in ReplicaIds
      /\ ongoing' = [ongoing EXCEPT ![r] = @ + 1]
      /\ phase' = [phase EXCEPT ![q] = "fetching"]
      /\ UNCHANGED <<routerVars, ranks, at, cache_hit, feature_cache, replicas_per_user,
                     excuses, faults>>
  BY DEF RankMiss, Placed
<1>2. TypeOK'
  BY <1>1 DEF TypeOK, Phases, routerVars
<1>3. ASSUME NEW s \in ReplicaIds PROVE ongoing'[s] = Cardinality(Fetching(s)')
  <2>1. CASE s = r
    <3>1. Fetching(s)' = Fetching(s) \cup {q} /\ q \notin Fetching(s)
      BY <1>1, <2>1 DEF Fetching, TypeOK
    <3>2. IsFiniteSet(Fetching(s)) /\ Cardinality(Fetching(s)) \in Nat
      BY Countable DEF Fetching
    <3>3. Cardinality(Fetching(s)') = Cardinality(Fetching(s)) + 1
      BY <3>1, <3>2, FS_AddElement
    <3>4. QED
      BY <1>1, <2>1, <3>3 DEF OngoingExact, Fetching, TypeOK
  <2>2. CASE s # r
    <3>1. Fetching(s)' = Fetching(s)
      BY <1>1, <2>2 DEF Fetching, TypeOK
    <3>2. QED
      BY <1>1, <2>2, <3>1 DEF OngoingExact, Fetching, TypeOK
  <2>3. QED
    BY <2>1, <2>2
<1>4. OngoingExact'
  BY <1>3 DEF OngoingExact, Fetching
<1>5. CacheIsWarm'
  BY <1>1 DEF CacheIsWarm, TypeOK
<1>6. \A p \in Requests : Placed(p)'
  BY <1>1 DEF TypeOK, Placed
<1>7. \A u \in Users : AtHome(u)'
  BY <1>1, RouterKeeps DEF routerVars, Phases
<1>8. QED
  BY <1>2, <1>4, <1>5, <1>6, <1>7

LEMMA RankRaisesKeeps ==
    ASSUME IInv, NEW q \in Requests, RankRaises(q)
    PROVE  IInv'
<1> USE DEF IInv
<1>1. TypeOK'
  BY DEF RankRaises, End, TypeOK, Phases, routerVars, replicaVars
<1>2. OngoingExact' /\ CacheIsWarm'
  BY ReplicasKeep DEF RankRaises, End, TypeOK, replicaVars
<1>3. \A p \in Requests : Placed(p)'
  BY DEF RankRaises, End, TypeOK, Placed, replicaVars
<1>4. \A u \in Users : AtHome(u)'
  BY RouterKeeps DEF RankRaises, End, routerVars, Phases
<1>5. QED
  BY <1>1, <1>2, <1>3, <1>4

\* The end of a fetch, whichever way: one request less waits on its replica.
LEMMA FetchEnds ==
    ASSUME IInv, NEW q \in Requests, phase[q] = "fetching",
           NEW outcome \in {"done", "failed"}, phase' = [phase EXCEPT ![q] = outcome],
           ongoing' = [ongoing EXCEPT ![at[q]] = @ - 1],
           UNCHANGED <<routerVars, ranks, at, cache_hit, replicas_per_user, excuses>>
    PROVE  /\ OngoingExact' /\ ongoing' \in [ReplicaIds -> Nat]
           /\ phase' \in [Requests -> Phases] /\ at[q] \in ReplicaIds
           /\ UserOf[q] \in Users /\ q \notin cache_hit
           /\ \A p \in Requests : Placed(p)'
           /\ \A u \in Users : AtHome(u)'
<1> USE DEF IInv
<1> DEFINE r == at[q]
<1>1. r \in ReplicaIds /\ UserOf[q] \in Users /\ q \notin cache_hit
  BY DEF Placed
<1>2. ASSUME NEW s \in ReplicaIds
      PROVE  ongoing'[s] = Cardinality(Fetching(s)') /\ ongoing'[s] \in Nat
  <2>1. CASE s = r
    <3>1. Fetching(s)' = Fetching(s) \ {q} /\ q \in Fetching(s)
      BY <1>1, <2>1 DEF Fetching, TypeOK
    <3>2. /\ IsFiniteSet(Fetching(s)) /\ Cardinality(Fetching(s)) \in Nat
          /\ Cardinality(Fetching(s)') \in Nat
      BY <3>1, Countable DEF Fetching
    <3>3. Cardinality(Fetching(s)') = Cardinality(Fetching(s)) - 1
      BY <3>1, <3>2, FS_RemoveElement
    <3>4. QED
      BY <1>1, <2>1, <3>2, <3>3 DEF OngoingExact, Fetching, TypeOK
  <2>2. CASE s # r
    <3>1. Fetching(s)' = Fetching(s)
      BY <1>1, <2>2 DEF Fetching, TypeOK
    <3>2. QED
      BY <1>1, <2>2, <3>1 DEF OngoingExact, Fetching, TypeOK
  <2>3. QED
    BY <2>1, <2>2
<1>3. OngoingExact' /\ ongoing' \in [ReplicaIds -> Nat]
  BY <1>1, <1>2 DEF OngoingExact, Fetching, TypeOK
<1>4. \A p \in Requests : Placed(p)'
  BY <1>1 DEF TypeOK, Placed
<1>5. \A u \in Users : AtHome(u)'
  BY RouterKeeps DEF routerVars, Phases
<1>6. QED
  BY <1>1, <1>3, <1>4, <1>5 DEF TypeOK, Phases

LEMMA FetchDoneKeeps ==
    ASSUME IInv, NEW q \in Requests, FetchDone(q)
    PROVE  IInv'
<1> USE DEF IInv
<1>1. /\ phase[q] = "fetching" /\ phase' = [phase EXCEPT ![q] = "done"]
      /\ feature_cache' = [feature_cache EXCEPT ![at[q]] = @ \cup {UserOf[q]}]
      /\ ongoing' = [ongoing EXCEPT ![at[q]] = @ - 1]
      /\ UNCHANGED <<routerVars, ranks, at, cache_hit, replicas_per_user, excuses, faults>>
  BY DEF FetchDone, End
<1>2. /\ OngoingExact' /\ ongoing' \in [ReplicaIds -> Nat]
      /\ phase' \in [Requests -> Phases] /\ at[q] \in ReplicaIds
      /\ UserOf[q] \in Users /\ q \notin cache_hit
      /\ \A p \in Requests : Placed(p)'
      /\ \A u \in Users : AtHome(u)'
  BY <1>1, FetchEnds
<1>3. TypeOK'
  BY <1>1, <1>2 DEF TypeOK, routerVars
<1>4. CacheIsWarm'
  <2> SUFFICES ASSUME NEW r \in ReplicaIds, NEW u \in feature_cache'[r]
               PROVE  \E p \in Requests \ cache_hit' : /\ at'[p] = r /\ UserOf[p] = u
                                                       /\ phase'[p] = "done"
    BY DEF CacheIsWarm
  <2>1. CASE r = at[q] /\ u = UserOf[q]
    BY <1>1, <1>2, <2>1 DEF TypeOK
  <2>2. CASE u \in feature_cache[r]
    <3>1. PICK p \in Requests \ cache_hit : at[p] = r /\ UserOf[p] = u /\ phase[p] = "done"
      BY <2>2 DEF CacheIsWarm
    <3>2. QED
      BY <1>1, <3>1 DEF TypeOK
  <2>3. QED
    BY <1>1, <2>1, <2>2 DEF TypeOK
<1>5. QED
  BY <1>2, <1>3, <1>4

LEMMA FetchFailsKeeps ==
    ASSUME IInv, NEW q \in Requests, FetchFails(q)
    PROVE  IInv'
<1> USE DEF IInv
<1>1. /\ phase[q] = "fetching" /\ phase' = [phase EXCEPT ![q] = "failed"]
      /\ ongoing' = [ongoing EXCEPT ![at[q]] = @ - 1]
      /\ faults < MaxFaults /\ faults' = faults + 1
      /\ UNCHANGED <<routerVars, ranks, at, cache_hit, feature_cache, replicas_per_user,
                     excuses>>
  BY DEF FetchFails, End
<1>2. /\ OngoingExact' /\ ongoing' \in [ReplicaIds -> Nat]
      /\ phase' \in [Requests -> Phases]
      /\ \A p \in Requests : Placed(p)'
      /\ \A u \in Users : AtHome(u)'
  BY <1>1, FetchEnds
<1>3. TypeOK'
  BY <1>1, <1>2, BoundsAssumption DEF TypeOK, routerVars
<1>4. CacheIsWarm'
  BY <1>1 DEF CacheIsWarm, TypeOK
<1>5. QED
  BY <1>2, <1>3, <1>4

-----------------------------------------------------------------------------
(* Serve's steps.                                                          *)
LEMMA StatsKeep ==
    ASSUME IInv, NEW r \in ReplicaIds, RecordRoutingStats(r)
    PROVE  IInv'
<1> USE DEF IInv
<1>1. TypeOK'
  BY DEF RecordRoutingStats, TypeOK, requestVars, replicaVars
<1>2. OngoingExact' /\ CacheIsWarm'
  BY ReplicasKeep DEF RecordRoutingStats, requestVars, replicaVars
<1>3. (\A p \in Requests : Placed(p)') /\ \A u \in Users : AtHome(u)'
  BY HomeStays DEF RecordRoutingStats, Placed, AtHome, Live, requestVars, replicaVars
<1>4. QED
  BY <1>1, <1>2, <1>3

\* A published listing is a sequence of replicas.
LEMMA ListingType ==
    ASSUME NEW listing \in Listings
    PROVE  listing \in Seq(ReplicaIds) /\ ToSet(listing) \subseteq ReplicaIds
<1>1. PICK S \in SUBSET ReplicaIds : listing \in [1..Cardinality(S) -> S]
  BY DEF Listings, SetToSeqs
<1>2. Cardinality(S) \in Nat
  BY ReplicasAssumption, FS_Subset, FS_CardinalityType
<1> DEFINE n == Cardinality(S)
<1>3. n \in Nat /\ listing \in [1..n -> ReplicaIds]
  BY <1>1, <1>2
<1> HIDE DEF n
<1>4. listing \in Seq(ReplicaIds)
  BY <1>3, SeqDef
<1>5. QED
  BY <1>4, LenProperties DEF ToSet

\* Whoever has an excuse is free to move, and everyone has one after a change.
LEMMA UpdateKeeps ==
    ASSUME IInv, NEW listing \in Listings, UpdateReplicas(listing)
    PROVE  IInv'
<1> USE DEF IInv
<1>1. /\ replicas' = listing /\ started' = started \cup ToSet(listing)
      /\ updates < MaxUpdates /\ updates' = updates + 1
      /\ excuses' = IF ToSet(listing) = Live THEN excuses ELSE Moved
      /\ UNCHANGED <<routing_stats, requestVars, replicaVars, replicas_per_user, faults>>
  BY DEF UpdateReplicas
<1>2. Moved \in [Users -> SUBSET {"overridden", "crowded", "moved"}]
  BY DEF Moved, TypeOK
<1>3. TypeOK'
  BY <1>1, <1>2, ListingType, BoundsAssumption DEF TypeOK, requestVars, replicaVars
<1>4. OngoingExact' /\ CacheIsWarm'
  BY <1>1, ReplicasKeep DEF requestVars, replicaVars
<1>5. \A p \in Requests : Placed(p)'
  BY <1>1 DEF Placed, requestVars, replicaVars
<1>6. ASSUME NEW u \in Users PROVE AtHome(u)'
  <2>1. CASE ToSet(listing) = Live
    <3>1. Live' = Live /\ excuses' = excuses
      BY <1>1, <2>1 DEF Live
    <3>2. QED
      BY <1>1, <3>1, HomeStays DEF AtHome, requestVars
  <2>2. CASE ToSet(listing) # Live
    BY <1>1, <2>2 DEF AtHome, Moved
  <2>3. QED
    BY <2>1, <2>2
<1>7. QED
  BY <1>3, <1>4, <1>5, <1>6

LEMMA CrashKeeps ==
    ASSUME IInv, NEW r \in ReplicaIds, Crash(r)
    PROVE  IInv'
<1> USE DEF IInv
<1>1. /\ phase' = [q \in Requests |-> IF q \in On(r) THEN "failed" ELSE phase[q]]
      /\ ongoing' = [ongoing EXCEPT ![r] = 0]
      /\ feature_cache' = [feature_cache EXCEPT ![r] = {}]
      /\ faults < MaxFaults /\ faults' = faults + 1 /\ excuses' = Moved
      /\ UNCHANGED <<started, routing_stats, updates, ranks, at, cache_hit,
                     replicas_per_user>>
  BY DEF Crash
<1>2. replicas' \in Seq(ReplicaIds)
  <2>1. PICK i \in DOMAIN replicas : replicas' = RemoveAt(replicas, i)
    BY DEF Crash
  <2>2. /\ replicas \in Seq(ReplicaIds) /\ Len(replicas) \in Nat /\ i \in 1..Len(replicas)
        /\ \A j \in 1..Len(replicas) : replicas[j] \in ReplicaIds
    BY LenProperties, ElementOfSeq DEF TypeOK
  <2>3. SubSeq(replicas, 1, i - 1) \in Seq(ReplicaIds)
    BY <2>2
  <2>4. SubSeq(replicas, i + 1, Len(replicas)) \in Seq(ReplicaIds)
    BY <2>2
  <2>5. QED
    BY <2>1, <2>3, <2>4, ConcatProperties DEF RemoveAt
<1>3. Moved \in [Users -> SUBSET {"overridden", "crowded", "moved"}]
  BY DEF Moved, TypeOK
<1>4. TypeOK'
  BY <1>1, <1>2, <1>3, BoundsAssumption DEF TypeOK, Phases
<1>5. OngoingExact'
  <2>1. ASSUME NEW s \in ReplicaIds PROVE ongoing'[s] = Cardinality(Fetching(s)')
    <3>1. CASE s = r
      <4>1. Fetching(s)' = {}
        BY <1>1, <3>1 DEF Fetching, On
      <4>2. QED
        BY <1>1, <3>1, <4>1, FS_EmptySet DEF TypeOK
    <3>2. CASE s # r
      <4>1. Fetching(s)' = Fetching(s)
        BY <1>1, <3>2 DEF Fetching, On
      <4>2. QED
        BY <1>1, <3>2, <4>1 DEF OngoingExact, Fetching, TypeOK
    <3>3. QED
      BY <3>1, <3>2
  <2>2. QED
    BY <2>1 DEF OngoingExact, Fetching
<1>6. CacheIsWarm'
  BY <1>1 DEF CacheIsWarm, TypeOK, On
<1>7. \A p \in Requests : Placed(p)'
  BY <1>1 DEF Placed, On
<1>8. \A u \in Users : AtHome(u)'
  BY <1>1 DEF AtHome, Moved
<1>9. QED
  BY <1>4, <1>5, <1>6, <1>7, <1>8

LEMMA NextIInv == IInv /\ [Next]_vars => IInv'
<1> SUFFICES ASSUME IInv, [Next]_vars PROVE IInv'
  OBVIOUS
<1>1. CASE UNCHANGED vars
  <2>1. TypeOK'
    BY <1>1 DEF IInv, TypeOK, vars, routerVars, requestVars, replicaVars
  <2>2. OngoingExact' /\ CacheIsWarm'
    BY <1>1, ReplicasKeep DEF IInv, vars, requestVars, replicaVars
  <2>3. (\A p \in Requests : Placed(p)') /\ \A u \in Users : AtHome(u)'
    BY <1>1, HomeStays
    DEF IInv, Placed, AtHome, Live, vars, routerVars, requestVars, replicaVars
  <2>4. QED
    BY <2>1, <2>2, <2>3 DEF IInv
<1>2. QED
  BY <1>1, ArriveKeeps, ChooseKeeps, LandKeeps, ChooseAgainKeeps, RankHitKeeps,
     RankMissKeeps, RankRaisesKeeps, FetchDoneKeeps, FetchFailsKeeps, StatsKeep,
     UpdateKeeps, CrashKeeps DEF Next, RankStep

LEMMA Invariance == Spec => []IInv
BY InitIInv, NextIInv, PTL DEF Spec

-----------------------------------------------------------------------------
\* Every variable has its type, and no counter of ongoing requests is negative.
THEOREM UserAffinityTyped == Spec => []TypeOK
<1>1. IInv => TypeOK
  BY DEF IInv
<1>2. QED
  BY <1>1, Invariance, PTL

\* What a replica would report as its load is the number of its requests that
\* wait for features, after any failure (app.py:101-130, try/finally).
THEOREM OngoingIsExact == Spec => []OngoingExact
<1>1. IInv => OngoingExact
  BY DEF IInv
<1>2. QED
  BY <1>1, Invariance, PTL

\* A cached user was fetched to the end by an earlier request on that very
\* replica (app.py:109-110).
THEOREM CachesAreWarm == Spec => []CacheIsWarm
<1>1. IInv => CacheIsWarm
  BY DEF IInv
<1>2. QED
  BY <1>1, Invariance, PTL

\* A user leaves its replica only for a reason: the override, a full replica or
\* another set of replicas (router.py:110-115).
THEOREM NoUnexcusedMove == Spec => []OneReplicaUnlessExcused
<1>1. IInv => OneReplicaUnlessExcused
  <2> SUFFICES ASSUME IInv, NEW u \in Users, Cardinality(replicas_per_user[u]) > 1,
                      excuses[u] = {}
               PROVE  FALSE
    BY DEF OneReplicaUnlessExcused
  <2>1. replicas_per_user[u] \subseteq {Home(u)}
    BY DEF IInv, AtHome
  <2>2. Cardinality({Home(u)}) = 1 /\ IsFiniteSet({Home(u)})
    BY FS_Singleton
  <2>3. Cardinality(replicas_per_user[u]) <= 1
    BY <2>1, <2>2, FS_Subset
  <2>4. Cardinality(replicas_per_user[u]) \in Nat
    BY <2>1, <2>2, FS_Subset, FS_CardinalityType
  <2>5. QED
    BY <2>3, <2>4
<1>2. QED
  BY <1>1, Invariance, PTL
=============================================================================

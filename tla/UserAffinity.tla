--------------------------- MODULE UserAffinity ----------------------------
(***************************************************************************)
(* classic/custom_routing: the UserAffinityRouter of one handle and the    *)
(* Ranker replicas it routes to, with their feature caches and the load    *)
(* they report once per request_routing_stats_period_s.  Serve's part -    *)
(* which ranks have room, which replicas exist, when stats are polled - is *)
(* external.  Requests are routed concurrently; the order of the pending   *)
(* queue (FIFOMixin) is abstracted: any pending request may be next.       *)
(***************************************************************************)
EXTENDS Integers, FiniteSets, Sequences, SequencesExt

CONSTANTS
    Users, NoUser,          \* NoUser: a payload without a user id
    Requests, UserOf,       \* [Requests -> Users \cup {NoUser}]
    ReplicaIds,             \* naturals: replica ids are sorted
    InitialReplicas,        \* the first listing of the deployment's replicas
    Crc32,                  \* [Users -> Nat], the hash of the user id
    MaxOngoing,             \* max_ongoing_requests of Ranker
    ImbalanceThreshold,     \* request_router_kwargs
    MaxUpdates,             \* bound: replica listings published after the first
    MaxFaults               \* bound: failed fetches and crashed replicas

ASSUME UserOfAssumption == /\ IsFiniteSet(Requests) /\ NoUser \notin Users
                           /\ UserOf \in [Requests -> Users \cup {NoUser}]
ASSUME Crc32Assumption == Crc32 \in [Users -> Nat]
ASSUME ReplicasAssumption == /\ ReplicaIds \subseteq Nat /\ IsFiniteSet(ReplicaIds)
                             /\ InitialReplicas \in Seq(ReplicaIds) \ {<<>>}
ASSUME BoundsAssumption == MaxUpdates \in Nat /\ MaxFaults \in Nat

VARIABLES
    replicas,               \* the listing the router sees, in Serve's order
    started,                \* replica ids used so far
    routing_stats,          \* the ongoing_requests each replica last reported
    phase, ranks, at,       \* per request: progress, choice, where it landed
    cache_hit,              \* requests answered with cache_hit = True
    ongoing,                \* self.ongoing of each replica
    feature_cache,          \* self.feature_cache: users cached per replica
    replicas_per_user,      \* the router's record of where users landed
    excuses,                \* history: why a user may have left its replica
    updates, faults         \* listings and failures so far

routerVars == <<replicas, started, routing_stats, updates>>
requestVars == <<phase, ranks, at>>
replicaVars == <<cache_hit, ongoing, feature_cache>>
vars == <<routerVars, requestVars, replicaVars, replicas_per_user, excuses,
          faults>>

-----------------------------------------------------------------------------
NoReplica == -1
Live == ToSet(replicas)
On(r) == {q \in Requests : at[q] = r /\ phase[q] \in {"assigned", "fetching"}}

HasRoom(r) == Cardinality(On(r)) < MaxOngoing

\* Mutant of Affine: without the sort, the listing order decides.
AffineUnsorted(u, S) ==
    LET listed == SelectSeq(replicas, LAMBDA r : r \in S)
    IN  listed[(Crc32[u] % Len(listed)) + 1]

\* _affine_replica: the user's slot among these replicas in id order, the one with
\* that many ids before it.
Affine(u, S) ==
    LET slot == Crc32[u] % Cardinality(S)
    IN  CHOOSE r \in S : Cardinality({s \in S : s < r}) = slot

LeastLoaded(S) == {r \in S : \A s \in S : routing_stats[r] <= routing_stats[s]}

\* The escape hatch, judged on what the replicas last reported.
Lopsided(preferred, least) ==
    routing_stats[preferred] - routing_stats[least] >= ImbalanceThreshold

\* Mutant of Override: the request is to wait for its replica to cool down.
OverrideWaits(least) == <<>>

\* The one rank of a request that is not to go to its affine replica.
Override(least) == <<{least}>>

Excuse(u, why) == IF u \in Users THEN [excuses EXCEPT ![u] = @ \cup {why}]
                  ELSE excuses

\* Ranker.__init__ of every replica: nothing cached, nothing ongoing.
ReplicaInit ==
    /\ ongoing = [r \in ReplicaIds |-> 0]
    /\ feature_cache = [r \in ReplicaIds |-> {}]

Init ==
    /\ ReplicaInit
    /\ replicas = InitialReplicas
    /\ started = ToSet(InitialReplicas)
    /\ routing_stats = [r \in ReplicaIds |-> 0]
    /\ phase = [q \in Requests |-> "new"]
    /\ ranks = [q \in Requests |-> <<>>]
    /\ at = [q \in Requests |-> NoReplica]
    /\ cache_hit = {}
    /\ replicas_per_user = [u \in Users |-> {}]
    /\ excuses = [u \in Users |-> {}]
    /\ updates = 0
    /\ faults = 0

-----------------------------------------------------------------------------
(* The router.                                                             *)
Arrive(q) ==
    /\ phase[q] = "new"
    /\ phase' = [phase EXCEPT ![q] = "pending"]
    /\ UNCHANGED <<routerVars, ranks, at, replicaVars, replicas_per_user,
                   excuses, faults>>

\* choose_replicas; an empty list of ranks leaves the request pending.
Choose(q) ==
    LET available == {r \in Live : HasRoom(r)}
        u == UserOf[q]
    IN  /\ phase[q] = "pending"
        /\ available # {}
        /\ phase' = [phase EXCEPT ![q] = "chosen"]
        /\ \/ /\ u = NoUser
              /\ ranks' = [ranks EXCEPT ![q] = <<available>>]
              /\ UNCHANGED excuses
           \/ /\ u # NoUser
              /\ LET preferred == Affine(u, available)
                 IN  \E least \in LeastLoaded(available) :
                       IF Lopsided(preferred, least)
                       THEN /\ ranks' = [ranks EXCEPT ![q] = Override(least)]
                            /\ excuses' = Excuse(u, "overridden")
                       ELSE /\ ranks' = [ranks EXCEPT ![q] =
                                  <<{preferred}, available \ {preferred}>>]
                            /\ excuses' = IF available = Live THEN excuses
                                          ELSE Excuse(u, "crowded")
        /\ UNCHANGED <<routerVars, at, replicaVars, replicas_per_user, faults>>

Open(rank) == {r \in rank \cap Live : HasRoom(r)}

\* Serve tries rank 0, then rank 1, and so on.
FirstOpen(q) == {i \in DOMAIN ranks[q] :
                   /\ Open(ranks[q][i]) # {}
                   /\ \A j \in 1..(i - 1) : Open(ranks[q][j]) = {}}

\* The request goes to a replica of that rank, and on_request_routed records
\* the outcome.
Land(q) ==
    /\ phase[q] = "chosen"
    /\ \E i \in FirstOpen(q), u \in {UserOf[q]} : \E r \in Open(ranks[q][i]) :
         /\ at' = [at EXCEPT ![q] = r]
         /\ replicas_per_user' = IF u = NoUser THEN replicas_per_user
                                 ELSE [replicas_per_user EXCEPT ![u] = @ \cup {r}]
         /\ excuses' = IF i = 1 THEN excuses ELSE Excuse(u, "crowded")
    /\ phase' = [phase EXCEPT ![q] = "assigned"]
    /\ ranks' = [ranks EXCEPT ![q] = <<>>]
    /\ UNCHANGED <<routerVars, replicaVars, faults>>

\* No rank has room any more: the router chooses again.
ChooseAgain(q) ==
    /\ phase[q] = "chosen"
    /\ FirstOpen(q) = {}
    /\ phase' = [phase EXCEPT ![q] = "pending"]
    /\ ranks' = [ranks EXCEPT ![q] = <<>>]
    /\ UNCHANGED <<routerVars, at, replicaVars, replicas_per_user, excuses,
                   faults>>

-----------------------------------------------------------------------------
(* Ranker.rank on the replica: up to the await of the feature store, and   *)
(* from there.                                                             *)
End(q, outcome) == phase' = [phase EXCEPT ![q] = outcome]

RankHit(q) ==
    /\ phase[q] = "assigned"
    /\ UserOf[q] \in feature_cache[at[q]]
    /\ cache_hit' = cache_hit \cup {q}
    /\ End(q, "done")
    /\ UNCHANGED <<routerVars, ranks, at, ongoing, feature_cache,
                   replicas_per_user, excuses, faults>>

\* Mutant of RankMiss: the cache entry is made before the features arrive.
RankMissCachesEarly(q) ==
    /\ phase[q] = "assigned"
    /\ UserOf[q] \in Users \ feature_cache[at[q]]
    /\ ongoing' = [ongoing EXCEPT ![at[q]] = @ + 1]
    /\ feature_cache' = [feature_cache EXCEPT ![at[q]] = @ \cup {UserOf[q]}]
    /\ phase' = [phase EXCEPT ![q] = "fetching"]
    /\ UNCHANGED <<routerVars, ranks, at, cache_hit, replicas_per_user,
                   excuses, faults>>

RankMiss(q) ==
    /\ phase[q] = "assigned"
    /\ UserOf[q] \in Users \ feature_cache[at[q]]
    /\ ongoing' = [ongoing EXCEPT ![at[q]] = @ + 1]
    /\ phase' = [phase EXCEPT ![q] = "fetching"]
    /\ UNCHANGED <<routerVars, ranks, at, cache_hit, feature_cache,
                   replicas_per_user, excuses, faults>>

\* A payload without a user id raises inside the try: finally restores ongoing.
RankRaises(q) ==
    /\ phase[q] = "assigned"
    /\ UserOf[q] = NoUser
    /\ End(q, "failed")
    /\ UNCHANGED <<routerVars, ranks, at, replicaVars, replicas_per_user,
                   excuses, faults>>

FetchDone(q) ==
    /\ phase[q] = "fetching"
    /\ feature_cache' = [feature_cache EXCEPT ![at[q]] = @ \cup {UserOf[q]}]
    /\ ongoing' = [ongoing EXCEPT ![at[q]] = @ - 1]
    /\ End(q, "done")
    /\ UNCHANGED <<routerVars, ranks, at, cache_hit, replicas_per_user,
                   excuses, faults>>

\* Mutant of FetchFails: the error handler decrements, and then the finally.
FetchFailsTwice(q) ==
    /\ phase[q] = "fetching"
    /\ faults < MaxFaults
    /\ faults' = faults + 1
    /\ ongoing' = [ongoing EXCEPT ![at[q]] = @ - 2]
    /\ End(q, "failed")
    /\ UNCHANGED <<routerVars, ranks, at, cache_hit, feature_cache,
                   replicas_per_user, excuses>>

\* Mutant of FetchFails: no finally.
FetchFailsLeaks(q) ==
    /\ phase[q] = "fetching"
    /\ faults < MaxFaults
    /\ faults' = faults + 1
    /\ End(q, "failed")
    /\ UNCHANGED <<routerVars, ranks, at, replicaVars, replicas_per_user,
                   excuses>>

\* The store raises or the caller disconnects during the await.
FetchFails(q) ==
    /\ phase[q] = "fetching"
    /\ faults < MaxFaults
    /\ faults' = faults + 1
    /\ ongoing' = [ongoing EXCEPT ![at[q]] = @ - 1]
    /\ End(q, "failed")
    /\ UNCHANGED <<routerVars, ranks, at, cache_hit, feature_cache,
                   replicas_per_user, excuses>>

-----------------------------------------------------------------------------
(* Serve: stats polling, autoscaling and crashes.                          *)
RecordRoutingStats(r) ==
    /\ r \in Live
    /\ routing_stats[r] # ongoing[r]
    /\ routing_stats' = [routing_stats EXCEPT ![r] = ongoing[r]]
    /\ UNCHANGED <<replicas, started, updates, requestVars, replicaVars,
                   replicas_per_user, excuses, faults>>

Moved == [u \in Users |-> excuses[u] \cup {"moved"}]

\* A new listing: other replicas (never an id that has gone) or another order.
UpdateReplicas(listing) ==
    /\ updates < MaxUpdates
    /\ listing # replicas
    /\ ToSet(listing) \cap started \subseteq Live
    /\ replicas' = listing
    /\ started' = started \cup ToSet(listing)
    /\ updates' = updates + 1
    /\ excuses' = IF ToSet(listing) = Live THEN excuses ELSE Moved
    /\ UNCHANGED <<routing_stats, requestVars, replicaVars, replicas_per_user,
                   faults>>

\* A replica dies with its cache; the requests on it fail.
Crash(r) ==
    /\ Len(replicas) > 1
    /\ \E i \in DOMAIN replicas :
         replicas[i] = r /\ replicas' = RemoveAt(replicas, i)
    /\ faults < MaxFaults
    /\ faults' = faults + 1
    /\ phase' = [q \in Requests |-> IF q \in On(r) THEN "failed" ELSE phase[q]]
    /\ ongoing' = [ongoing EXCEPT ![r] = 0]
    /\ feature_cache' = [feature_cache EXCEPT ![r] = {}]
    /\ excuses' = Moved
    /\ UNCHANGED <<started, routing_stats, updates, ranks, at, cache_hit,
                   replicas_per_user>>

-----------------------------------------------------------------------------
Listings == UNION {SetToSeqs(S) : S \in SUBSET ReplicaIds \ {{}}}

RankStep(q) == RankHit(q) \/ RankMiss(q) \/ RankRaises(q) \/ FetchDone(q)

Next ==
    \/ \E q \in Requests : \/ Arrive(q) \/ Choose(q) \/ Land(q) \/ ChooseAgain(q)
                           \/ RankStep(q) \/ FetchFails(q)
    \/ \E r \in ReplicaIds : RecordRoutingStats(r) \/ Crash(r)
    \/ \E listing \in Listings : UpdateReplicas(listing)

Spec == Init /\ [][Next]_vars

\* The router retries what it cannot place, replicas run what they accepted.
\* A request that keeps seeing room is placed although others compete for it.
Fairness ==
    \A q \in Requests : /\ SF_vars(Choose(q))
                        /\ WF_vars(Land(q) \/ ChooseAgain(q))
                        /\ WF_vars(RankStep(q))

FairSpec == Spec /\ Fairness

-----------------------------------------------------------------------------
(* Properties.                                                             *)
Phases == {"new", "pending", "chosen", "assigned", "fetching", "done", "failed"}

\* Every variable has its type, and no counter of ongoing requests is negative.
TypeOK ==
    /\ replicas \in Seq(ReplicaIds) /\ started \subseteq ReplicaIds
    /\ routing_stats \in [ReplicaIds -> Nat]
    /\ phase \in [Requests -> Phases]
    /\ ranks \in [Requests -> Seq(SUBSET ReplicaIds)]
    /\ at \in [Requests -> ReplicaIds \cup {NoReplica}]
    /\ cache_hit \subseteq Requests
    /\ ongoing \in [ReplicaIds -> Nat]
    /\ feature_cache \in [ReplicaIds -> SUBSET Users]
    /\ replicas_per_user \in [Users -> SUBSET ReplicaIds]
    /\ excuses \in [Users -> SUBSET {"overridden", "crowded", "moved"}]
    /\ updates \in 0..MaxUpdates /\ faults \in 0..MaxFaults

\* What a replica would report as its load is the number of its requests that
\* wait for features, after any failure (app.py:101-130, try/finally).
OngoingExact ==
    \A r \in ReplicaIds :
      ongoing[r] = Cardinality({q \in Requests : at[q] = r /\ phase[q] = "fetching"})

\* A cached user was fetched to the end by an earlier request on that very
\* replica, so a hit never reports features that had not arrived (app.py:109-110).
CacheIsWarm ==
    \A r \in ReplicaIds : \A u \in feature_cache[r] :
      \E q \in Requests \ cache_hit : /\ at[q] = r /\ UserOf[q] = u
                                      /\ phase[q] = "done"

\* A user leaves its replica only for a reason: the imbalance override, a full
\* replica when one was chosen or reached, or another set of replicas; the
\* listing order and the interleaving of requests are no reasons
\* (router.py:110-115).
OneReplicaUnlessExcused ==
    \A u \in Users : Cardinality(replicas_per_user[u]) > 1 => excuses[u] # {}

\* Every request that arrives is answered, or failed for its caller, though its
\* replicas fill up, vanish or crash between choice and landing.
EveryRequestEnds ==
    \A q \in Requests : phase[q] = "pending" ~> phase[q] \in {"done", "failed"}
=============================================================================

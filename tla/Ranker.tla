------------------------------- MODULE Ranker ------------------------------
(***************************************************************************)
(* classic/ranking: Ranker replicas behind the ingress.  Concurrent calls  *)
(* of a replica are coalesced into batches by @serve.batch (external); a   *)
(* batch fetches all features in one await, runs forward() in a thread and *)
(* hands response i to caller i.  Knobs are retuned while batches form,    *)
(* callers go away, the feature store fails, and the weights file may not  *)
(* be there when a replica loads it.                                       *)
(***************************************************************************)
EXTENDS RankerForward, FiniteSets

CONSTANTS
    Requests,           \* call ids
    RequestOf,          \* [Requests -> payloads posted to /rank]
    Unbatched,          \* calls made with use_batching=False
    Replicas,
    BatchSizes,         \* max_batch_size values a config update may carry
    DefaultBatchSize,   \* the one of the decorator and of BatchConfig()
    OtherScore,         \* [Replicas -> Scores]: of that replica's random weights
    MaxFaults           \* bound: store failures, cancels, missing weights, updates

ASSUME CallsAssumption == Unbatched \subseteq Requests
ASSUME RequestOfAssumption ==
    \A q \in Requests :
      RequestOf[q] \in [user_id : Users, candidate_ids : Seq(Candidates)]
ASSUME OtherScoreAssumption == \A r \in Replicas : OtherScore[r] \in Scores
ASSUME SizesAssumption == BatchSizes \subseteq Nat \ {0} /\ DefaultBatchSize \in BatchSizes

VARIABLES
    weights,            \* per replica: "none", "checkpoint" or "random"
    max_batch_size,
    batch_queue,        \* per replica: calls waiting in score_batch
    batch,              \* per call: the batch it leads, <<>> if it leads none
    features,           \* per batch leader: rows fetched, <<>> before
    phase,              \* per call
    on,                 \* per call: its replica
    answer,             \* per call: what the caller got
    faults

batchVars == <<weights, max_batch_size, batch_queue, batch, features, phase, on>>
vars == <<batchVars, answer, faults>>

NoReplica == "none"
NoAnswer == [user_id |-> "none", ranked |-> <<>>]

prepared(q) == prepare_features(RequestOf[q])

ScoreOn(r) == IF weights[r] = "checkpoint" THEN Score ELSE OtherScore[r]

Strike == faults < MaxFaults /\ faults' = faults + 1

\* score_batch runs one batch of a replica at a time.
Batching(r) == \E q \in Requests \ Unbatched : on[q] = r /\ batch[q] # <<>>

Init ==
    /\ weights = [r \in Replicas |-> "none"]
    /\ max_batch_size = [r \in Replicas |-> DefaultBatchSize]
    /\ batch_queue = [r \in Replicas |-> <<>>]
    /\ batch = [q \in Requests |-> <<>>]
    /\ features = [q \in Requests |-> <<>>]
    /\ phase = [q \in Requests |-> "new"]
    /\ on = [q \in Requests |-> NoReplica]
    /\ answer = [q \in Requests |-> NoAnswer]
    /\ faults = 0

-----------------------------------------------------------------------------
\* __init__: a file that cannot be loaded leaves the replica random weights.
LoadModel(r) ==
    /\ weights[r] = "none"
    /\ \/ weights' = [weights EXCEPT ![r] = "checkpoint"] /\ UNCHANGED faults
       \/ weights' = [weights EXCEPT ![r] = "random"] /\ Strike
    /\ UNCHANGED <<max_batch_size, batch_queue, batch, features, phase, on, answer>>

\* Serve calls reconfigure with a new user_config.
reconfigure(r, size) ==
    /\ weights[r] # "none"
    /\ size # max_batch_size[r]
    /\ Strike
    /\ max_batch_size' = [max_batch_size EXCEPT ![r] = size]
    /\ UNCHANGED <<weights, batch_queue, batch, features, phase, on, answer>>

\* __call__ on the replica Serve picked: into the queue, or a batch of its own.
Call(q, r) ==
    /\ phase[q] = "new"
    /\ weights[r] # "none"
    /\ on' = [on EXCEPT ![q] = r]
    /\ phase' = [phase EXCEPT ![q] = "called"]
    /\ \/ /\ q \in Unbatched
          /\ batch' = [batch EXCEPT ![q] = <<q>>]
          /\ UNCHANGED batch_queue
       \/ /\ q \notin Unbatched
          /\ batch_queue' = [batch_queue EXCEPT ![r] = Append(@, q)]
          /\ UNCHANGED batch
    /\ UNCHANGED <<weights, max_batch_size, features, answer, faults>>

Room(r) == max_batch_size[r]

\* @serve.batch: as many calls as are there at the timeout, or as fit.
FormBatch(r, n) ==
    /\ ~Batching(r)
    /\ n \in 1..Len(batch_queue[r]) /\ n <= Room(r)
    /\ batch' = [batch EXCEPT ![Head(batch_queue[r])] = SubSeq(batch_queue[r], 1, n)]
    /\ batch_queue' = [batch_queue EXCEPT ![r] = SubSeq(@, n + 1, Len(@))]
    /\ UNCHANGED <<weights, max_batch_size, features, phase, on, answer, faults>>

\* batch_get: row i is for user_ids[i].
Rows(calls) == [i \in DOMAIN calls |-> prepared(calls[i]).user_id]

BatchGet(q) ==
    /\ batch[q] # <<>> /\ features[q] = <<>>
    /\ features' = [features EXCEPT ![q] = Rows(batch[q])]
    /\ UNCHANGED <<weights, max_batch_size, batch_queue, batch, phase, on,
                   answer, faults>>

\* The calls of a batch that still have a caller.
Waiting(calls) == {c \in ToSet(calls) : phase[c] = "called"}

IndexIn(calls, c) == CHOOSE i \in DOMAIN calls : calls[i] = c

EndBatch(q, outcome) ==
    /\ batch' = [batch EXCEPT ![q] = <<>>]
    /\ features' = [features EXCEPT ![q] = <<>>]
    /\ phase' = [c \in Requests |-> IF c \in Waiting(batch[q]) THEN outcome
                                    ELSE phase[c]]
    /\ UNCHANGED <<weights, max_batch_size, batch_queue, on>>

Answered(q) == features[q] # <<>> /\ EndBatch(q, "done")

\* forward in its thread; every caller still there gets the response at its index.
Respond(q) ==
    /\ Answered(q)
    /\ UNCHANGED faults
    /\ LET calls == batch[q]
           responses == forward([i \in DOMAIN calls |-> prepared(calls[i])],
                                features[q], ScoreOn(on[q]))
       IN  answer' = [c \in Requests |-> IF c \in Waiting(calls)
                                         THEN responses[IndexIn(calls, c)]
                                         ELSE answer[c]]

\* Mutant of StoreFails: only the call at the head of the batch hears of it.
StoreFailsForOne(q) ==
    /\ batch[q] # <<>> /\ features[q] = <<>>
    /\ Strike
    /\ phase' = [phase EXCEPT ![q] = "failed"]
    /\ batch' = [batch EXCEPT ![q] = <<>>]
    /\ UNCHANGED <<weights, max_batch_size, batch_queue, features, on, answer>>

\* batch_get raises: every call of the batch fails.
StoreFails(q) ==
    /\ batch[q] # <<>> /\ features[q] = <<>>
    /\ Strike
    /\ EndBatch(q, "failed")
    /\ UNCHANGED answer

\* The caller goes away; its place in queue or batch stays.
Cancel(q) ==
    /\ phase[q] = "called"
    /\ Strike
    /\ phase' = [phase EXCEPT ![q] = "cancelled"]
    /\ UNCHANGED <<weights, max_batch_size, batch_queue, batch, features, on, answer>>

Next ==
    \/ \E r \in Replicas : \/ LoadModel(r)
                           \/ \E size \in BatchSizes : reconfigure(r, size)
                           \/ \E q \in Requests : Call(q, r)
                           \/ \E n \in 1..Cardinality(Requests) : FormBatch(r, n)
    \/ \E q \in Requests : BatchGet(q) \/ Respond(q) \/ StoreFails(q) \/ Cancel(q)

Spec == Init /\ [][Next]_vars

\* The batch timeout forms a batch, awaits and threads return.  What the answers
\* are is no matter of fairness, so that of Respond is on when it happens.
FairSpec ==
    /\ Spec
    /\ \A r \in Replicas :
         WF_vars(\E n \in 1..Cardinality(Requests) : FormBatch(r, n))
    /\ \A q \in Requests : WF_batchVars(BatchGet(q) \/ Answered(q))

-----------------------------------------------------------------------------
(* Properties.                                                             *)

\* Every caller gets its own user's slate, each candidate once, scored as the
\* single-user reference scores it and sorted, whichever calls it was batched
\* with and whoever of them went away (ranker.py:59-84).
OwnAnswer ==
    \A q \in Requests : phase[q] = "done" =>
      IsAnswerTo(answer[q], prepared(q), ScoreOn(on[q]))

\* A call is in exactly one place until its caller is served: waiting in the
\* queue of its replica or in one batch there.
InOnePlace ==
    \A q \in Requests : phase[q] = "called" =>
      Cardinality({<<"queue", i>> : i \in {i \in DOMAIN batch_queue[on[q]] :
                                             batch_queue[on[q]][i] = q}}
                  \cup {<<"batch", c>> : c \in {c \in Requests :
                          on[c] = on[q] /\ q \in ToSet(batch[c])}}) = 1

\* Every call ends for its caller: a failed batch strands none of its calls and a
\* shrunken batch size none of the queue.
EveryCallEnds == \A q \in Requests : phase[q] = "called" ~> phase[q] # "called"
=============================================================================

# Verification of the distributed-inference course code

TLA+ models of the programs under `src/code`, checked by TLC on small instances
and, where it says so, proved for every instance by TLAPS. The repository is the
code of a course on Ray Serve: small services whose own logic (a queue consumer, a
request router, autoscaling policies, a batching ranker, a queue-backed scorer, an LLM
composition, a load generator) runs inside machinery that is not in the repository
(Ray Serve, SQS, S3, Celery, vLLM). The modules model the repository's logic line
by line at the level of control, and the machinery by what that logic can see of
it. Definitions of the second kind are marked external in `PROJECT.json`.

Paths below are relative to `src/code`; `01` and `02` are the notebooks `src/01_...ipynb`
and `src/02_...ipynb`.

## 1. Inventory

| part | state it keeps | operations | talks to | status |
|---|---|---|---|---|
| `classic/stream_processing/poller.py`, `image_model.py` | ids in flight, backpressure counter, shutdown event, the batch in hand | poll loop, one task per message, upload thread, drain | SQS, bucket, model handle, controller | modelled |
| `classic/custom_routing/router.py`, `app.py`, `feature_store.py` | the router's landing record; per replica `ongoing` and a feature cache | choose replicas, record a landing, rank, report load | Serve's router loop, listing and stats poll | partly |
| `classic/custom_autoscaling/app.py` | deployment arguments, what replicas reported | build with a policy, report usage | Serve's control loop | modelled |
| `.../policy_resource_pressure.py` | none | raw target from worst CPU and memory | context | modelled |
| `.../policy_queue_latency.py` | queue depth of the previous tick | raw target from depth and trend | context | modelled |
| `.../policy_external_target.py` | last good value, time of the last poll | poll a file, answer | a file a control plane rewrites | modelled |
| `.../policy_schedule.py` | none | raw target of the hour | clock | modelled |
| `classic/ranking` | weights, batch knobs, the calls waiting | call, batch, fetch, score, retune | `@serve.batch`, feature store | partly |
| `classic/async_inference` | task states in a broker and a result backend; per client a deadline | submit, status, cancel, score, poll | Celery adapter | modelled |
| `classic/load_testing` | none | users and spawn rate of a stage | locust | not modelled: a function of the run time |
| `llm/composition` | none beyond each request | ask, ask/stream | triage, engine stream | modelled |
| `llm/routing/verify.py` | counters before and after, the reuse of each arm | two-request reuse experiment | router, engine, metrics agents | modelled |
| `llm/routing/app.py` | none | build a configuration | Ray Serve LLM | not modelled: configuration only |
| `llm/engine/load_test.py` | semaphore, latencies, gaps, tokens, errors | bounded load: enter, stream, record, fail | client library, handle, engine | modelled |
| `llm/engine/reset_cache.py` | none; one prefix cache per replica of the engine | populate, warm, reset, cold | routing, engine | not modelled: sequential calls, see section 5 |
| `llm/serving`, `llm/disaggregation`, `llm/expert_parallel` | none | build configurations | Ray Serve LLM | not modelled: configuration only |
| `llm/offline_inference` | none | a Ray Data pipeline | Ray Data | not modelled: the library schedules it |
| `ops/tracing`, `ops/debugging` | none | a chain of calls; a script | - | not modelled: no state, no concurrency |
| the notebooks | none | the default autoscaling policy (02, section 6); teaching copies of the above | Serve | partly |

What is hard in each, and what makes it correct:

* **Stream processing.** The poll loop, a task per message, the drain and executor
  threads interleave at every `await`; SQS redelivers, uploads and deletes fail, and
  a poller may be killed or replaced with requests still running on the model. It is
  correct if no message leaves the queue before its image is stored, an in-flight message is not
  started twice, every message completes while no poisoned one competes with it, and a
  drain ends.
* **Custom routing.** Choice and landing are separate steps; loads are reported late;
  the listing changes order and content; misses of one user overlap. It is correct if
  reported load is exact, a cache entry means fetched features, a user moves only for
  a reason, and each request ends.
* **Custom autoscaling.** Ticks, reports, replica starts, crashes and controller
  restarts interleave; Serve puts bounds and delays around every policy. It is correct
  if replicas are added, and running ones given away, only for the cause a policy names, a
  wish is honoured in time, and lasting causes reach the bound.
* **Ranking.** Calls are coalesced by position into flat tensors and cut back, across
  an await and a thread, while knobs change and callers leave. It is correct if every
  caller gets exactly what the one-user reference computes, no call is lost or served
  twice, and no call waits for ever.
* **Async inference.** Jobs outlive the connection that posted them; tickets and answers
  get lost, workers raise or die with a message, clients poll against a deadline and
  withdraw what may be running. It is correct if every accepted job ends or was lost with
  a worker, a failure is kept for inspection after all its retries, and a poll ends in
  time and does not say TIMEOUT of something it could have seen.
* **LLM composition.** Two endpoints over two branches, one of them an engine that fails
  in the middle of a stream. It is correct if a client receives its own answer in order
  and the end marker means that it is whole.
* **The reuse experiment.** Its verdict rests on counters that are published late, on
  caches that must be cold and on two requests that compete for one slot per replica. It
  is correct if it measures its pair and nothing else, judges right and comes to an end.
* **The load generator.** Coroutines share tallies and permits, and fail before, while and
  after a response begins; the client library resends behind their back. It is correct if
  permits come back on every path, all figures are about the same requests, the test
  brings no rejection on itself where the queue is as long as the permits, and it ends.

The hazards behind these are listed one by one, at their lines, in `PROJECT.json`.

## 2. Modules

`AtLeastOnce` is the promise of a queue consumer: accepted, stored, and only then
retired. `StreamPoller` models the poller; `MCStreamPoller` instantiates it;
`StreamPoller_proofs` proves it.

| `StreamPoller` | `poller.py` |
|---|---|
| `processing_requests[m]` | the dict entry of a message and how far its task is: `sent`, `queued`, `running` are inside `await response`, `uploading` inside `to_thread`, `uploaded`/`rejected`/`failed` about to run the rest of the `try` |
| `run`, `messages` | the loop: at its top (72), inside `receive_messages` (75), holding a batch (81) |
| `LoopTop`, `Receive`, `ReceiveFails`, `Dispatch` | 72, 75-80, an exception out of it, 81-98 |
| `Admit`, `Reject`, `Assign` | the handle: `max_queued_requests`, `max_ongoing_requests` of `image_model.py` |
| `Generate`, `EmptyPrompt`, `GenerateFails` | `image_model.py:46-49` |
| `Upload`, `UploadFails`, `Finish*`, `DeleteFails` | 106-133, 110-119; a failed put or delete may have landed |
| `Shutdown`, `DrainDone`, `Replace`, `Crash` | `__del__` (135-147), and the controller |
| `orphans` | model requests whose poller died: they hold a slot until they end |

The number of model replicas is abstracted to `Slots`, the most that autoscaling allows.

`UserAffinity` (`MCUserAffinity`) models router and replicas together: `Choose` is
`choose_replicas` (router.py:124-149), `Land` is Serve's pick in a rank followed by
`on_request_routed` (151-173), `RankHit`/`RankMiss`/`FetchDone`/`FetchFails` are `rank`
(app.py:100-130) cut at its `await`, `RecordRoutingStats` the stats poll,
`UpdateReplicas` and `Crash` the environment. `excuses` is a history variable. Left out:
the order of the pending queue (FIFOMixin; any pending request may be next), the hit and
miss counters, the scores.

`CustomAutoscaling` (`MCCustomAutoscaling`) is one deployment under one of its four
policies, or under the default policy that 02 prints (`inflight_requests_policy`). Each policy is a module of pure operators over the context it reads
(`PolicyResourcePressure`, `PolicyQueueLatency`, `PolicyExternalTarget`,
`PolicySchedule`, `PolicyInflight`); `ServeAutoscaler` is what Serve does around the raw target, external;
`CustomAutoscaling` composes them: `ControlLoop` is a whole tick (policy, bounds,
delays, replicas stopped, policy state kept), beside it replicas start, crash and
report, queue depths are pushed, the file is rewritten or torn, the hour passes and
the controller restarts. Percentages are natural numbers, time is counted in ticks.
`behind` and `settled` are history variables.

`RankerForward` holds `prepare_features` and `RankerLogic.forward` as operators on
sequences, with the same flattening and offsets as the code, and `IsAnswerTo`, the
one-user reference of `model.py`. `InOrder` is a stable sort said by its result (the elements
listed in an order), since the sort of the standard modules has no definition a proof can use. `Ranker` (`MCRanker`) puts them under concurrency:
`Call`, `FormBatch`, `BatchGet`, `Respond`, `StoreFails`, `Cancel`, `reconfigure`,
`LoadModel`. Scores are small integers under a constant `Score`; the towers' arithmetic
and the metrics are left out.

`AsyncJobs` (`MCAsyncJobs`) models one client per job. `submit`, `Ask`, `Response`,
`Wake`, `RequestFails` and `cancel` are `client.py`; `Submit`, `Status` and `Cancel` the
handlers of `app.py`; `Score` and `ScoreRaises` a run of `score_batch` under the
configuration of `task_queue.py`. `status` is the result backend, `message` the broker,
both Celery's, whose deliveries (`Take`, `WorkerDies`) are external: a worker that dies
has its message delivered again or takes it along, since the configured filesystem
transport promises neither. Storing a result and acknowledging its message are one step.
`Tick` lets time pass when no client can act. `lost` and `done_for` are history variables.
`JobLedger` is what the API promises of a ticket, and `AsyncJobs` implements it (`KeepsTickets`):
a job that was accepted ends once or is lost with a worker, is revoked only if it was withdrawn,
is kept if it failed, and whoever is told an end is told that of the job.

`ReuseExperiment` (`MCReuseExperiment`) follows `measure_arm` and `main` of `verify.py`
from the first arm on (with fewer than two GPUs `main` prints SKIP and returns before
anything is deployed) step by step (`Deploy`, `WarmUp`, `FirePair`, `Gather`, `Measure`, `Judge`, `Raises`);
routing (`Choose`, `Land`), the engine (`Prefill`) and the metrics agents (`Export`) are
external. Token counts are constants, fractions are compared by cross-multiplication. The
agents are assumed to have dropped the series of the first deployment when the second one
is measured (it would cancel in the difference). `reused` is a history variable.

`Composition` (`MCComposition`) has one action per step of a handler of `app.py`: `Hit`,
`HitDone`, `TriageFails` (the call raises, status 500), `Escalate`, `Body`, `Window` (one batch of the engine's stream joined),
`MarkDone`, `Broken`; `route` is `triage.py` over the ordered keys of the table. The engine
(`Generate`, `Stop`, `EngineFails`) and the client's `Disconnect` are external.

`LoadTest` (`MCLoadTest`) has the life of one coroutine of `load_test.py`: `Enter` (the
permit, and `create`), `Chunk`, `EndOfStream` (the tallies of `one`, in one step, since no
`await` separates them), `Fail`, `Leave`. The client library (`AttemptFails`: it resends
what failed before the response began, never a broken stream), the handle of the LLM app
that `serving/app.py` deploys, with its queue in front of slots (`HasRoom`, `Busy`,
`Admitted`, `Rejected`, `Assigned`), and the failures (`ConnectionLost`, `StreamBreaks`) are
external. That app sets no `max_queued_requests`, so its queue is unlimited, which a queue as
long as the permits stands for; a shorter one is what a deployment that sets it would have. `orphans` counts the streams
the server still generates for nobody. Times are left out: a latency is one more value in
its list.

A module `X_proofs` beside a module `X` holds its theorems (section 4).

## 3. Runs

| run | instance | shows |
|---|---|---|
| `StreamPollerSafety` | 2 good messages and a poisoned one, batches of 2, 1 queued, 1 slot, one disruption of any of six kinds | `TypeOK`, `DeletedOnlyAfterStored`, `InFlightForwardedOnce`, refinement of `AtLeastOnce` (`Consumes`) |
| `StreamPollerLive` | 2 messages competing for 1 queue place and 1 slot, two disruptions (all but a failed receive) | `EveryMessageCompletes`, `DrainEnds` |
| `UserAffinity` | 2 requests of one user and one without a user, up to 3 replicas, 2 slots each, one new listing, one failure | `TypeOK`, `OngoingExact`, `CacheIsWarm`, `OneReplicaUnlessExcused`, `EveryRequestEnds` |
| `CustomAutoscaling` | each of five policies, up to 3 replicas, readings on each side of each mark, depths around each limit, two crashes or restarts | `TypeOK` with the bounds, `WishHonouredInTime`, `PressureMovesForCause`, `QueueMovesForCause`, `PressureFillsUp`, `WakesUp` |
| `Ranker` | 4 calls of 2 users, empty, overlapping and colliding slates, one unbatched, batch sizes 1 to 3, two failures, cancels or updates | `OwnAnswer`, `InOnePlace`, `EveryCallEnds` |
| `AsyncJobs` | a polling and a withdrawing client, one worker, one retry, a timeout of 3 ticks polled every 2, two faults | `PollOverrunBounded`, `TimeoutIsNews`, `FailuresAreKept`, refinement of `JobLedger` (`KeepsTickets`), `AcceptedJobsEnd`, `PollEnds` |
| `ReuseExperiment` | 2 replicas, 2 warm-ups, a prefix of 9 tokens and a question of 1, agents that publish every 2 ticks at the latest and a wait of 3 | `TypeOK`, `VerdictIsRight`, `MeasuresThePair`, `PairIsCold`, `RunEnds` |
| `Composition` | a table question and another on each endpoint, the table questions about two of three keys, up to 3 chunks, two failing triage calls, engine errors or disconnects | `TypeOK`, `InOrder`, `DoneMeansWhole`, `EveryAskEnds` |
| `LoadTest` | 3 requests, 2 at a time, 2 slots behind a queue of 1, up to 2 tokens, one retry of the library, two faults | `TypeOK`, `PermitsAccounted`, `FiguresAgree`, `TestEnds` |
| `LoadTestRoomy` | 4 requests, 2 at a time, 1 slot behind a queue of 2, up to 2 tokens, one retry, four faults | `OnlyFaultsFail` |

Runs that must fail, one per disagreement between the code and what it says:

| run | statement | what happens |
|---|---|---|
| `StreamPollerNoWorkAfterDelete` | poller.py:13-14 | a copy redelivered into an open receive is processed again after the first deleted the message |
| `CustomAutoscalingGrowthBuysCapacity` | custom_autoscaling README.md:11 | the trend lasts one tick per push and never outlasts the upscale delay |

Observed while modelling and not kept as runs:

* One exception of `receive_messages` (poller.py:75) ends the poll loop for good: no health
  check observes the task and the replica stays up. `EveryMessageCompletes` is therefore
  checked without that disruption; every safety property is checked with it.
* `load_model` (model.py:100) swallows every error of reading the weights, so a replica that
  starts without the file answers from unseeded random weights, though model.py:33-34 wants
  scores reproducible across replicas (`ScoreOn` of `Ranker` keeps that choice).
* locustfile.py asks for 20 users at a spawn rate of one per 30 s until 240 s: about 7 of
  them are there when the stage ends.
* In 02, the replica that replaces one whose health check fails reads the same marker file
  and is unhealthy again.
* A message with an empty prompt comes back for ever, and with adverse timing as many of
  them as the handle queues keep every other request rejected, so `EveryMessageCompletes`
  is checked without them.
* The drain (poller.py:142) may return while the loop is inside a receive whose messages
  it then forwards, against "Drain in-flight work before exiting" (136).
* A burst of rejections in one batch jumps over the documented 2 s, 4 s, 8 s of
  poller.py:94, since each increments the counter.
* A full replica, or another set of replicas, spreads a user too: router.py:159-161 says
  only the override does, and line 169 logs such a move as an override
  (`OneReplicaUnlessExcused` counts them as excused). The override of router.py:141 acts on a load that may be over
  (reports are a period old).
* "Hold" without metrics (policy_resource_pressure.py:47-52) answers the replicas that
  are up, so the target falls to them if the only reporting replica dies while others
  still start. The queue policy does the same. Every policy that answers from `current` can
  thus lower the target, even under pressure, to what runs when replicas are missing for
  longer than the downscale delay: `PressureMovesForCause` and `QueueMovesForCause` admit
  that move (`GivesUpMissing`) and no other downwards without cause.
* After a controller restart with an unreadable file `ExternalTargetPolicy` answers 1,
  not the last good value (`WishHonouredInTime` speaks of a file that can be read).
* task_queue.py:49 says "fails 3 times"; `max_retries=3` is read here as three retries
  after the first attempt (`MayRetry`), Celery's meaning of the word.
* When both requests of the affinity pair are routed before either has landed, a right
  router reuses nothing and `verify.py` prints FAIL: a FAIL is not proof of a defect, a
  PASS (`VerdictIsRight`) is proof of reuse.

**Bounds and why they are enough.** The properties are about pairs of actors: a task and
the loop, a task and a redelivery, two requests of a user, a tick and a push, two calls
of a batch. Two of each, plus a third to compete for room, with capacities of one or two,
reach every combination; counters saturate (`CounterCap`), disruptions are counted
(`MaxFaults`, `MaxUpdates`), and times are the smallest with a tick strictly inside each
interval. Messages with a prompt are interchangeable (symmetry in the safety runs only).
In `CustomAutoscaling` the readings are on each side of every threshold, so finer values
add nothing. In `AsyncJobs` the timeout is no multiple of the interval, so that rounds
fall on both sides of the deadline, and a request may take a tick; in `ReuseExperiment` the
wait exceeds the agents' period by the least it can, as 15 s exceed 10 s, and a prefix is
long beside a question, as it is in the code. In `LoadTest` the third request waits for a
permit, for the queue or for a slot; two tokens are the least with a gap, fewer have none,
and one retry tells "sent again" from "given up"; `LoadTestRoomy` has faults for two requests
to use up their attempts and two more to compete for what they left. Deadlock is not checked where the system really comes to rest: every
request answered, every client returned, the script or the test over, or the poll loop dead.

**Fairness.** `StreamPoller`: asyncio runs every ready task, executor threads return,
Serve replaces a drained replica, a hidden message reappears (weak); a queued request
competes for slots and a message for room in a batch (strong, justified by the handle's
FIFO queue and SQS's eventual delivery). Producers and disruptions have none.
`UserAffinity`: the router retries pending requests and replicas finish what they took; a
request that keeps seeing room is placed (strong: it competes). `CustomAutoscaling`:
ticks and queue pushes recur and wanted replicas start; what is reported, written or
crashes is free. `Ranker`: the batch timeout fires, awaits and threads return.
`AsyncJobs`: time passes, the ingress answers and a run of the handler ends (weak); a
queued message is taken though others compete for the worker (strong). `ReuseExperiment`:
the script and time go on, a request runs when it finds a slot, agents publish (weak).
`Composition`: handlers run and the engine ends a generation (weak). `LoadTest`: the
semaphore and the handle serve their waiters in turn, so that a coroutine gets its permit
and a queued request its slot though others compete (strong); the handle answers, streams
and orphans end, by `max_tokens` if by nothing else (weak). Faults,
withdrawals and disconnects have none.

## 4. Proofs

`StreamPoller_proofs` proves, for any finite set of messages, any subset of them
poisoned, any kinds and number of disruptions and any positive bounds (the assumptions of
`StreamPoller.tla`):

* `TypeCorrect`: `Spec => []TypeOK`, with the bound on a batch;
* `StoredBeforeDeleted`: `Spec => []DeletedOnlyAfterStored`;
* `ForwardedOnce`: the action property `InFlightForwardedOnce`;
* `PollerConsumes`: `Spec => ALO!Spec`, step by step.

`DeletedOnlyAfterStored` alone is not inductive: a task in phase `uploaded` deletes next,
so the invariant must also say that its image is stored. The invariant proved conjoins the
type invariant and that tie between phases, bucket and queue. The refinement maps `Upload` (and a failed put that
landed) to `Store`, the deletes to `Retire`, `Produce` to `Accept`, everything else to a
stutter.

`CustomAutoscaling_proofs` proves, for any set of replicas, any bounds, loads, poll
interval and delays, and any number of disruptions (the assumptions of
`CustomAutoscaling.tla`):

* `AutoscalingTyped`: `Spec => []TypeOK`, in which the target lies between the bounds of
  the deployment. The argument runs along a tick: every policy answers an integer
  (`RawTargetType`), clamping it gives a number within the bounds (`WishInBounds`), and
  `Decide` answers the target or that wish (`DecideType`);
* `PressureMoves`, `QueueMoves`: the action properties `PressureMovesForCause` and
  `QueueMovesForCause`, for every state of the replicas: missing, just started, crashed or
  silent ones included, and zero of them. A step that changes the target is a tick
  (`OnlyTicksMove`) and moves it to the wish, clamped (`MoveIsWish`). What the policy answered
  is then split: the replicas that run (`MissingOnly`: a fall of the target to them gives up
  missing ones only), one fewer (`OneFewer`: at the lower bound no fall, or one to missing
  ones), or one more, which is growth unless more were wanted already;
* `WishHonoured`: `Spec => []WishHonouredInTime`. The property looks at one moment, the end
  of the wait, so the invariant (`Settling`) speaks of every tick before it: `Near(t, c, w, k)`
  says that the target `t` is the wish `w`, or differs from it while Serve's counter `c` of
  decisions has pushed the same way for `k` ticks. `TickNears` shows that a tick makes `k` one
  more, and no counter reaches the delay without moving the target. A file adds the polls: the
  object has read what is published or was last asked before it was (`ExternalTick`). The
  load adds a quotient: the default policy divides by the replicas that run and multiplies by
  them again, and `SharedLoad` shows that this is the load over the target per replica,
  rounded up, however many run.

`AsyncJobs_proofs`, for any jobs, replicas, retries, timeouts, intervals and faults:
`AsyncJobsTyped` (`TypeOK`, which no run repeats), `PollOverrun`, `FailuresKept`, the action
property `NoLateTimeout`, and `TicketsAreKept`, `Spec => KeepsTickets`, step by step. A
deadline says nothing by itself about a client that sleeps or waits, so the invariant bounds
`left` in each phase by the timer of that phase (`Round`): awake it is past its deadline by
less than a gap (`IntervalS + RequestS`), asking by no more than its request has taken, asleep
by less than a gap minus what is left to sleep. `News` does the same for how long a job may have been over unseen, and `JobOver` says that an ended
job has no message, so nothing revives it. The refinement maps `submit` to `Accept`, a sent
revocation to `Withdraw`, what a worker does to `End`, `Lose` or a stutter, and an answer that
names an end to `Tell`; it needs that such an answer under way names the end the job still has,
and that a lost job has no message (`Ticket`).

`Composition_proofs`, for any requests, any ordered table, any number of chunks and faults:
`CompositionTyped`, `AnswersInOrder`, `DoneIsWhole`. `sent` is a sequence, so the invariant
(`Shape`) says for each phase exactly which sequence it is: nothing, the packet, the chunks
forwarded so far, and with the marker when it is done. Two lemmas on sequences carry it:
a window continues where the windows before it ended (`ChunksJoin`), and what a client has is
a first part of its answer (`Received`).

`UserAffinity_proofs`, for any users, requests, replicas, hash, threshold, listing and number
of updates and failures: `UserAffinityTyped`, `OngoingIsExact` (the counter equals the
cardinality of the requests awaiting the store, so each step moves both by one),
`CachesAreWarm`, and `NoUnexcusedMove`. The last rests on `AtHome`: as long as a user has no
excuse, the listing has the members it started with, its landings are at the affine replica
of those, and so is rank 0 of every choice under way, since the choice may be older than the
landing. That `Affine` answers at all is `SlotTaken`: in a finite set of ids every number
below its size is the number of ids before one of them, shown by taking the least number
that is not, in place of an induction.

`LoadTest_proofs`, for any finite set of requests, any concurrency, slots, queue, retries and
faults: `LoadTestTyped`, `Permits`, `FailuresAreFaults`, `FiguresRight`. All are about
cardinalities of the requests in a phase. For `FailuresAreFaults`, whoever is about to be
admitted holds a permit itself, so that those with a permit that are queued are fewer than
`Concurrency` and the queue has room (`RoomForAll`, from `Permits`); an attempt thus fails by a
fault only, and adds either one resent attempt or one error (`FaultCharged`). For the tokens, a sum, `FiguresRight` counts pairs (request, number of a token): the
total is the cardinality of those received, and a stream that ends adds its own.

`Ranker_proofs`, for any calls, slates, replicas, sizes, scores and faults:

* `OnePlace`: `Spec => []InOnePlace`. The invariant says that queues and batches hold no call
  twice and share none, that a batch starts with its leader, and that a call with a caller is
  in one of them (`Kept`);
* `AnswersOwn`: `Spec => []OwnAnswer`. `AnswerInv` adds to it that the rows a batch has
  fetched are those of its calls in its order, and that a call that was made is at a replica
  with a model, which keeps it. What remains is a fact about `forward` alone
  (`ForwardAnswers`): every answer of one vectorized pass is that of the one-user reference.
  It rests on `OffsetIs` (the offset of a request is the length of the slates before it),
  `FlattenIs` (cut at the offsets, what was flattened is the parts again), `RankedIs`
  (a listing in a total order is a permutation, sorted, and stable) and `UniqueIs`
  (`prepare_features` leaves each candidate once, in the order of first appearance).

`ReuseExperiment_proofs`, for any replicas, prompts, periods, choices and faults, where the
shared prefix is longer than the question (verify.py:64-67) and the wait longer than the
agents' period (verify.py:58):

* `StartsCold`: `Spec => []PairIsCold`; before the first reading only warm-ups were sent,
  and none of them brings the shared prefix;
* `ExperimentTyped`: `Spec => []TypeOK`;
* `PairIsMeasured`: `Spec => []MeasuresThePair`. An agent published longer ago than its
  period never is (`Published`), so after each wait the published counters are those of the
  engines; between the two readings only the pair adds to them (`PairCounted`), and a step of
  one replica changes the sum over all of them by its own change (`ReadingAdds`);
* `VerdictFollows`: `Spec => []VerdictIsRight`, by `ThresholdsSeparate`: a pair reuses the
  whole prefix or nothing, and the prefix is more than a quarter of both prompts exactly
  because it is longer than the question.

Folds and recursive functions over sets and prefixes have no induction principle that the
provers could instantiate, so where one was needed (`SumExists`, `SumGrows`, `OffsetsExist`,
`FoldExists`, `FlattenExists`, `ListExists`) the lemma is about that one definition and takes
the least natural number for which it fails (`Least`, from the well-foundedness of `<`).

Model-checked only: every liveness property (TLAPS has no support for fairness and `ENABLED`
here). Every safety and action property that a passing run checks is also a theorem.

## 5. Not modelled, and how much of the code the modules stand for

* Configuration only - `llm/serving`, `llm/disaggregation`, `llm/expert_parallel`,
  `llm/routing/app.py`, `stream_processing/app.py`: they build argument objects for Ray
  Serve LLM and hold no state. Nothing a step could do wrong is in them.
* `ops/tracing`, `ops/debugging`, `llm/offline_inference`: a chain of stateless calls, a
  script, a pipeline that Ray Data schedules.
* `classic/load_testing`: the stage is a function of the run time; who spawns is locust.
* The notebooks are JSON: nine tenths of their lines are prose, outputs and cell metadata. The
  cells that are code repeat the programs above, start deployments and print. Their own logic
  is the default policy, which is modelled; they also set admission limits; failing health checks
  and rolling updates in 02 show what Serve does, with one line of the cell's own.
* `llm/engine/reset_cache.py`: one client calls two idle replicas in turn and times it. Its
  second call finds the cache of the first only if both reach the same replica, which
  `verify.py:26-28` says they do (Power of Two ties and the tie-break is deterministic), and
  the reset is broadcast to all. Nothing interleaves; what is left is the time a call takes.
* Within modelled parts: numbers (scores, latencies, percentiles, hashes), wire formats,
  metrics and logging.

The map of `PROJECT.json` therefore names a seventh of all lines counted as implementation,
notebooks included, and a third of the Python lines, which are most of the lines that change
state.

## 6. Plan

1. The order of the pending queue (FIFOMixin) in `UserAffinity`.
2. Abstract specifications of the ranker (a call and its answer) and of a bounded load test.

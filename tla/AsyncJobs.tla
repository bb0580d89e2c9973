----------------------------- MODULE AsyncJobs -----------------------------
(***************************************************************************)
(* classic/async_inference: jobs posted to the ingress (app.py), carried   *)
(* by a task queue (task_queue.py) to Scorer replicas (scorer.py), and the *)
(* clients that submit, poll and withdraw them (client.py).  Celery and    *)
(* Serve's adapter - delivery, retries, the result backend - are external. *)
(* Time is counted in ticks; a client's own steps take none, its requests  *)
(* up to RequestS, its sleeps exactly IntervalS.                           *)
(***************************************************************************)
EXTENDS Integers, FiniteSets

CONSTANTS
    Jobs,               \* one client for each
    Withdrawing,        \* clients run with --cancel: submit, withdraw, leave
    Replicas,           \* Scorer replicas, each with one job at a time
    MaxRetries,         \* max_retries of the queue
    TimeoutS,           \* timeout_s of poll
    IntervalS,          \* interval_s of poll
    RequestS,           \* the longest a status request takes
    MaxFaults           \* bound: lost requests, dead workers, broker errors

ASSUME JobsAssumption == /\ IsFiniteSet(Jobs) /\ Withdrawing \subseteq Jobs
                         /\ Replicas \in Nat \ {0}
ASSUME RetriesAssumption == MaxRetries \in Nat /\ MaxFaults \in Nat
ASSUME TimesAssumption == TimeoutS \in Nat /\ IntervalS \in Nat \ {0} /\ RequestS \in Nat

VARIABLES
    status,             \* per job: its state in the result backend
    message,            \* per job: "none", "queued" or "running"
    retries,            \* per job: retries so far
    dead_letters,       \* jobs in failed_task_queue_name
    revoked,            \* jobs a client withdrew
    lost,               \* history: jobs whose worker died with the message
    poll,               \* per client: where poll() is
    seen,               \* per client: the status in the response under way
    timer,              \* per client: ticks in this request, or left to sleep
    left,               \* per client: ticks to its deadline, negative after it
    outcome,            \* per client: the status poll() returned
    done_for,           \* history, per job: ticks since its state is terminal
    faults

jobVars == <<status, message, retries, dead_letters, revoked, lost>>
clientVars == <<poll, seen, timer, left, outcome>>
vars == <<jobVars, clientVars, done_for, faults>>

DONE_STATES == {"SUCCESS", "FAILURE", "REVOKED"}

Strike == faults < MaxFaults /\ faults' = faults + 1

Polling(j) == poll[j] \in {"due", "asking", "told", "asleep"}

\* The longest a client goes without news of its job; no deadline and no history
\* is counted further than that.
Gap == IntervalS + RequestS

Init ==
    /\ status = [j \in Jobs |-> "PENDING"]
    /\ message = [j \in Jobs |-> "none"]
    /\ retries = [j \in Jobs |-> 0]
    /\ dead_letters = {} /\ revoked = {} /\ lost = {}
    /\ poll = [j \in Jobs |-> "new"]
    /\ seen = [j \in Jobs |-> "PENDING"]
    /\ timer = [j \in Jobs |-> 0]
    /\ left = [j \in Jobs |-> TimeoutS]
    /\ outcome = [j \in Jobs |-> "none"]
    /\ done_for = [j \in Jobs |-> 0]
    /\ faults = 0

-----------------------------------------------------------------------------
(* The client, and the ingress that serves it.                             *)

\* The client's part ends, and with it what poll() kept.
Return(j, result) ==
    /\ poll' = [poll EXCEPT ![j] = "returned"]
    /\ outcome' = [outcome EXCEPT ![j] = result]
    /\ seen' = [seen EXCEPT ![j] = "PENDING"]
    /\ timer' = [timer EXCEPT ![j] = 0]
    /\ left' = [left EXCEPT ![j] = 0]
    /\ done_for' = [done_for EXCEPT ![j] = 0]

\* POST /score enqueues the job and answers a ticket.
Submit(j) ==
    /\ message' = [message EXCEPT ![j] = "queued"]
    /\ UNCHANGED <<status, retries, dead_letters, revoked, lost>>

\* The client posts and goes on with the ticket, which may be lost on its way.
submit(j) ==
    /\ poll[j] = "new"
    /\ Submit(j)
    /\ \/ /\ poll' = [poll EXCEPT ![j] = IF j \in Withdrawing THEN "withdrawing"
                                          ELSE "due"]
          /\ UNCHANGED <<seen, timer, left, outcome, done_for, faults>>
       \/ Return(j, "error") /\ Strike

\* Mutant of BeforeDeadline: the loop has no deadline.
NoDeadline(j) == TRUE

\* Mutant of BeforeDeadline: one more round at the deadline.
UpToDeadline(j) == left[j] >= 0

BeforeDeadline(j) == left[j] > 0

\* The head of the loop: another GET /status, or TIMEOUT.
Ask(j) ==
    /\ poll[j] = "due"
    /\ \/ /\ BeforeDeadline(j)
          /\ poll' = [poll EXCEPT ![j] = "asking"]
          /\ UNCHANGED <<seen, timer, left, outcome, done_for>>
       \/ ~BeforeDeadline(j) /\ Return(j, "TIMEOUT")
    /\ UNCHANGED <<jobVars, faults>>

\* The ingress reads the backend: a job it knows nothing of is PENDING.
Status(j) ==
    /\ poll[j] = "asking"
    /\ seen' = [seen EXCEPT ![j] = status[j]]
    /\ poll' = [poll EXCEPT ![j] = "told"]
    /\ UNCHANGED <<jobVars, timer, left, outcome, done_for, faults>>

\* Mutant of Sleep: it backs off to twice the interval.
SleepTwice == 2 * IntervalS

Sleep == IntervalS

\* The response arrives: a terminal state is returned, otherwise it sleeps.
Response(j) ==
    /\ poll[j] = "told"
    /\ \/ seen[j] \in DONE_STATES /\ Return(j, seen[j])
       \/ /\ seen[j] \notin DONE_STATES
          /\ poll' = [poll EXCEPT ![j] = "asleep"]
          /\ timer' = [timer EXCEPT ![j] = Sleep]
          /\ seen' = [seen EXCEPT ![j] = "PENDING"]
          /\ UNCHANGED <<left, outcome, done_for>>
    /\ UNCHANGED <<jobVars, faults>>

Wake(j) ==
    /\ poll[j] = "asleep" /\ timer[j] = 0
    /\ poll' = [poll EXCEPT ![j] = "due"]
    /\ UNCHANGED <<jobVars, seen, timer, left, outcome, done_for, faults>>

\* A status request fails or times out: poll() raises.
RequestFails(j) ==
    /\ poll[j] \in {"asking", "told"}
    /\ Strike
    /\ Return(j, "error")
    /\ UNCHANGED jobVars

\* DELETE /status: the revocation is sent, or the adapter raises (409).
Cancel(j) ==
    /\ \/ revoked' = revoked \cup {j} /\ UNCHANGED faults
       \/ UNCHANGED revoked /\ Strike
    /\ UNCHANGED <<status, message, retries, dead_letters, lost>>

\* A --cancel client withdraws its job and leaves with the answer.
cancel(j) ==
    /\ poll[j] = "withdrawing"
    /\ Cancel(j)
    /\ Return(j, IF j \in revoked' THEN "CANCELLED" ELSE "refused")

\* Somebody else who knows the ticket withdraws a job that is polled for.
CancelledByOther(j) ==
    /\ Polling(j) /\ j \notin revoked
    /\ Cancel(j)
    /\ UNCHANGED <<clientVars, done_for>>

-----------------------------------------------------------------------------
(* The queue and the workers.                                              *)
Running == {j \in Jobs : message[j] = "running"}

\* A worker takes the message; one that heard of the revocation drops it.
Take(j) ==
    /\ message[j] = "queued"
    /\ Cardinality(Running) < Replicas
    /\ \/ /\ message' = [message EXCEPT ![j] = "running"]
          /\ UNCHANGED status
       \/ /\ j \in revoked
          /\ message' = [message EXCEPT ![j] = "none"]
          /\ status' = [status EXCEPT ![j] = "REVOKED"]
    /\ UNCHANGED <<retries, dead_letters, revoked, lost, clientVars, done_for, faults>>

\* Mutant of Result: the handler returns None, no result is stored.
ResultForgotten(j) == status

\* score_batch returns, and its result is stored for the job.
Result(j) == [status EXCEPT ![j] = "SUCCESS"]

\* Mutant of Score: the result is stored and its message not acknowledged.
ScoreUnacknowledged(j) ==
    /\ message[j] = "running"
    /\ status' = Result(j)
    /\ message' = [message EXCEPT ![j] = "queued"]
    /\ UNCHANGED <<retries, dead_letters, revoked, lost, clientVars, done_for, faults>>

Score(j) ==
    /\ message[j] = "running"
    /\ status' = Result(j)
    /\ message' = [message EXCEPT ![j] = "none"]
    /\ UNCHANGED <<retries, dead_letters, revoked, lost, clientVars, done_for, faults>>

\* Mutant of MayRetry: one retry too many.
MayRetryOnceMore(j) == retries[j] <= MaxRetries

MayRetry(j) == retries[j] < MaxRetries

\* Mutant of DeadLetter: no queue is configured for what failed.
DeadLetterNowhere(j) == dead_letters

DeadLetter(j) == dead_letters \cup {j}

\* score_batch raises: the job is retried, and in the end dead-lettered.
ScoreRaises(j) ==
    /\ message[j] = "running"
    /\ \/ /\ MayRetry(j)
          /\ retries' = [retries EXCEPT ![j] = @ + 1]
          /\ message' = [message EXCEPT ![j] = "queued"]
          /\ status' = [status EXCEPT ![j] = "RETRY"]
          /\ UNCHANGED dead_letters
       \/ /\ ~MayRetry(j)
          /\ dead_letters' = DeadLetter(j)
          /\ message' = [message EXCEPT ![j] = "none"]
          /\ status' = [status EXCEPT ![j] = "FAILURE"]
          /\ UNCHANGED retries
    /\ UNCHANGED <<revoked, lost, clientVars, done_for, faults>>

\* A worker dies: its message is delivered again, or is gone.
WorkerDies(j) ==
    /\ message[j] = "running"
    /\ Strike
    /\ \/ message' = [message EXCEPT ![j] = "queued"] /\ UNCHANGED lost
       \/ message' = [message EXCEPT ![j] = "none"] /\ lost' = lost \cup {j}
    /\ UNCHANGED <<status, retries, dead_letters, revoked, clientVars, done_for>>

-----------------------------------------------------------------------------
\* A client with something to do has done it before time goes on.
Patient(j) ==
    /\ poll[j] # "due"
    /\ poll[j] \in {"asking", "told"} => timer[j] < RequestS
    /\ poll[j] = "asleep" => timer[j] > 0

TimeLeft(j) == CASE poll[j] = "asleep" -> timer[j] - 1
                 [] poll[j] \in {"asking", "told"} -> timer[j] + 1
                 [] OTHER -> timer[j]

Tick ==
    /\ \A j \in Jobs : Patient(j)
    /\ \E j \in Jobs : Polling(j)
    /\ left' = [j \in Jobs |-> IF Polling(j) /\ left[j] > -Gap THEN left[j] - 1
                               ELSE left[j]]
    /\ timer' = [j \in Jobs |-> TimeLeft(j)]
    /\ done_for' = [j \in Jobs |-> IF status[j] \in DONE_STATES /\ Polling(j)
                                      /\ done_for[j] <= Gap
                                   THEN done_for[j] + 1 ELSE done_for[j]]
    /\ UNCHANGED <<jobVars, poll, seen, outcome, faults>>

ClientStep(j) == Ask(j) \/ Status(j) \/ Response(j) \/ Wake(j)

Next ==
    \/ \E j \in Jobs : \/ submit(j) \/ cancel(j) \/ ClientStep(j) \/ RequestFails(j)
                       \/ CancelledByOther(j)
                       \/ Take(j) \/ Score(j) \/ ScoreRaises(j) \/ WorkerDies(j)
    \/ Tick

Spec == Init /\ [][Next]_vars

\* Clients and time go on, requests are answered; workers take what is queued,
\* though others compete for them, and every run of the handler ends.
FairSpec ==
    /\ Spec
    /\ WF_vars(Tick)
    /\ \A j \in Jobs : /\ WF_vars(ClientStep(j))
                       /\ SF_vars(Take(j))
                       /\ WF_vars(Score(j) \/ ScoreRaises(j))

-----------------------------------------------------------------------------
(* Properties.                                                             *)
\* Every variable has its type; no job is retried more often than configured.
TypeOK ==
    /\ status \in [Jobs -> DONE_STATES \cup {"PENDING", "RETRY"}]
    /\ message \in [Jobs -> {"none", "queued", "running"}]
    /\ retries \in [Jobs -> 0..MaxRetries]
    /\ dead_letters \subseteq Jobs /\ revoked \subseteq Jobs /\ lost \subseteq Jobs
    /\ poll \in [Jobs -> {"new", "withdrawing", "due", "asking", "told", "asleep",
                      "returned"}]
    /\ seen \in [Jobs -> DONE_STATES \cup {"PENDING", "RETRY"}]
    /\ timer \in [Jobs -> Nat] /\ left \in [Jobs -> Int]
    /\ outcome \in [Jobs -> DONE_STATES \cup {"none", "error", "TIMEOUT",
                                                "CANCELLED", "refused"}]
    /\ done_for \in [Jobs -> 0..(Gap + 1)]
    /\ faults \in 0..MaxFaults

\* A client overruns its timeout by less than one sleep and one request, however
\* its rounds fall on the deadline (client.py:52-59).
PollOverrunBounded == \A j \in Jobs : Polling(j) => left[j] > -Gap

\* TIMEOUT is never reported of a job that was over long enough for one more look,
\* though it ended while the client slept or its answer was under way
\* (client.py:53-60).
TimeoutIsNews ==
    [][\A j \in Jobs : outcome[j] = "none" /\ outcome'[j] = "TIMEOUT"
                         => done_for[j] <= Gap]_vars

\* A job fails for good only when its retries are used up, and then, however
\* many workers died on it, it is in the dead letter queue rather than gone
\* (task_queue.py:49-52).
FailuresAreKept ==
    \A j \in Jobs : /\ j \in dead_letters <=> status[j] = "FAILURE"
                    /\ status[j] = "FAILURE" => retries[j] = MaxRetries

\* Every job that was accepted reaches a terminal state, unless a worker took
\* the message with it, though its submitter may never have got the ticket.
AcceptedJobsEnd ==
    \A j \in Jobs : message[j] # "none" ~> status[j] \in DONE_STATES \/ j \in lost

\* Every poll ends, also of a job that is lost (client.py:52-60).
PollEnds == \A j \in Jobs : poll[j] = "due" ~> poll[j] = "returned"

\* How a job stands in the ledger.
Stands(j) == IF status[j] \in DONE_STATES THEN status[j]
             ELSE IF j \in lost THEN "lost"
             ELSE IF poll[j] = "new" THEN "none" ELSE "accepted"

Told(j) == IF outcome[j] \in DONE_STATES THEN outcome[j] ELSE "nothing"

Ledger == INSTANCE JobLedger
            WITH state <- [j \in Jobs |-> Stands(j)], withdrawn <- revoked,
                 told <- [j \in Jobs |-> Told(j)]

\* A ticket keeps its promise: its job ends once or is lost with a worker, is revoked
\* only if it was withdrawn, stays where a failure can be inspected, and what poll()
\* returns as its end is its end, however deliveries, retries, withdrawals and answers
\* under way overlap (app.py:72-101, client.py:52-60).
KeepsTickets == Ledger!Spec
=============================================================================

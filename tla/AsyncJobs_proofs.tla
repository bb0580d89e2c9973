-------------------------- MODULE AsyncJobs_proofs -------------------------
(***************************************************************************)
(* What AsyncJobs guarantees for every number of jobs, replicas, retries   *)
(* and faults, and for every timeout, interval and request time.           *)
(***************************************************************************)
EXTENDS AsyncJobs, TLAPS

USE JobsAssumption, RetriesAssumption, TimesAssumption

Phases == {"new", "withdrawing", "due", "asking", "told", "asleep", "returned"}
States == DONE_STATES \cup {"PENDING", "RETRY"}

\* The types of what the queue keeps, and of what the clients keep.
QueueType ==
    /\ status \in [Jobs -> States]
    /\ message \in [Jobs -> {"none", "queued", "running"}]
    /\ retries \in [Jobs -> 0..MaxRetries]
    /\ dead_letters \subseteq Jobs /\ revoked \subseteq Jobs /\ lost \subseteq Jobs

ClientType ==
    /\ poll \in [Jobs -> Phases]
    /\ seen \in [Jobs -> States]
    /\ timer \in [Jobs -> Nat] /\ left \in [Jobs -> Int]
    /\ outcome \in [Jobs -> DONE_STATES \cup {"none", "error", "TIMEOUT",
                                                "CANCELLED", "refused"}]
    /\ done_for \in [Jobs -> 0..(Gap + 1)]

\* A job that is over has no message left, and was submitted once.
JobOver(j) ==
    /\ status[j] \in DONE_STATES => message[j] = "none" /\ poll[j] # "new"
    /\ poll[j] = "new" => message[j] = "none"

\* Where a client is in its round, and how far past its deadline it can be there.
Round(j) ==
    /\ poll[j] \in {"new", "withdrawing", "due"} => timer[j] = 0
    /\ poll[j] \in {"new", "withdrawing"} => left[j] = TimeoutS
    /\ poll[j] = "due" => left[j] > -Gap
    /\ poll[j] \in {"asking", "told"} => timer[j] <= RequestS /\ left[j] > -timer[j]
    /\ poll[j] = "asleep" => /\ timer[j] <= IntervalS
                             /\ left[j] > timer[j] - Gap

\* How long a job can have been over without its client knowing.
News(j) ==
    /\ status[j] \notin DONE_STATES => done_for[j] = 0
    /\ poll[j] \in {"new", "withdrawing"} => done_for[j] = 0
    /\ poll[j] = "due" => done_for[j] <= Gap
    /\ poll[j] = "told" /\ seen[j] \notin DONE_STATES => done_for[j] <= timer[j]
    /\ poll[j] = "asleep" => done_for[j] <= Gap - timer[j]

IInv ==
    /\ QueueType /\ ClientType /\ faults \in 0..MaxFaults
    /\ FailuresAreKept
    /\ \A j \in Jobs : JobOver(j) /\ Round(j) /\ News(j)

-----------------------------------------------------------------------------
\* The gap is a positive number of ticks.
LEMMA GapType == Gap \in Nat /\ Gap > 0 /\ Gap = IntervalS + RequestS
BY DEF Gap

LEMMA InitIInv == Init => IInv
BY GapType DEF Init, IInv, QueueType, ClientType, FailuresAreKept, JobOver, Round,
   News, Phases, States, DONE_STATES

-----------------------------------------------------------------------------
\* The round and the news of a client are its own business and its job's state.
LEMMA Untouched ==
    ASSUME NEW j \in Jobs, Round(j), News(j),
           poll'[j] = poll[j], seen'[j] = seen[j], timer'[j] = timer[j],
           left'[j] = left[j], done_for'[j] = done_for[j],
           status'[j] \notin DONE_STATES => status[j] \notin DONE_STATES
    PROVE  Round(j)' /\ News(j)'
BY DEF Round, News

\* A client that leaves forgets its round.
LEMMA ReturnKeeps ==
    ASSUME IInv, NEW j \in Jobs,
           NEW result \in DONE_STATES \cup {"error", "TIMEOUT", "CANCELLED", "refused"},
           Return(j, result), UNCHANGED status
    PROVE  /\ ClientType' /\ \A i \in Jobs : Round(i)' /\ News(i)'
           /\ poll'[j] = "returned" /\ \A i \in Jobs \ {j} : poll'[i] = poll[i]
<1>1. ClientType'
  BY GapType DEF IInv, ClientType, Return, Phases, States
<1>2. ASSUME NEW i \in Jobs PROVE Round(i)' /\ News(i)'
  <2>1. CASE i = j
    BY <2>1, GapType DEF IInv, ClientType, Return, Phases, Round, News
  <2>2. CASE i # j
    BY <2>2, Untouched DEF IInv, ClientType, Return
  <2>3. QED
    BY <2>1, <2>2
<1>3. QED
  BY <1>1, <1>2 DEF IInv, ClientType, Return

\* A step of the queue that ends the job, or leaves it as far from its end as it
\* was, disturbs no client.
LEMMA ClientsKeep ==
    ASSUME IInv, UNCHANGED clientVars, UNCHANGED done_for,
           \A i \in Jobs : status'[i] \notin DONE_STATES => status[i] \notin DONE_STATES
    PROVE  ClientType' /\ \A i \in Jobs : Round(i)' /\ News(i)'
<1>1. ClientType'
  BY DEF IInv, ClientType, clientVars
<1>2. ASSUME NEW i \in Jobs PROVE Round(i)' /\ News(i)'
  BY Untouched DEF IInv, clientVars
<1>3. QED
  BY <1>1, <1>2

\* A step of the clients alone, of which none is new, leaves the queue as it was.
LEMMA QueueKeeps ==
    ASSUME IInv, UNCHANGED jobVars,
           \A i \in Jobs : poll[i] = "new" <=> poll'[i] = "new"
    PROVE  QueueType' /\ FailuresAreKept' /\ \A i \in Jobs : JobOver(i)'
BY DEF IInv, QueueType, FailuresAreKept, JobOver, jobVars

\* Whatever the faults did, their number stays within its bound.
LEMMA FaultsKeep ==
    ASSUME faults \in 0..MaxFaults, Strike \/ UNCHANGED faults
    PROVE  faults' \in 0..MaxFaults
BY RetriesAssumption DEF Strike

-----------------------------------------------------------------------------
\* The clients' steps.
LEMMA SubmitKeeps ==
    ASSUME IInv, NEW j \in Jobs, submit(j)
    PROVE  IInv'
<1>1. /\ poll[j] = "new" /\ message' = [message EXCEPT ![j] = "queued"]
      /\ UNCHANGED <<status, retries, dead_letters, revoked, lost>>
  BY DEF submit, Submit
<1>2. status[j] \notin DONE_STATES
  BY <1>1 DEF IInv, JobOver
<1>3. QueueType' /\ FailuresAreKept'
  BY <1>1 DEF IInv, QueueType, FailuresAreKept
<1>4. CASE /\ poll' = [poll EXCEPT ![j] = IF j \in Withdrawing THEN "withdrawing"
                                           ELSE "due"]
           /\ UNCHANGED <<seen, timer, left, outcome, done_for, faults>>
  <2>1. ClientType'
    BY <1>4 DEF IInv, ClientType, Phases
  <2>2. ASSUME NEW i \in Jobs PROVE JobOver(i)' /\ Round(i)' /\ News(i)'
    <3>1. CASE i = j
      BY <1>1, <1>2, <1>4, <3>1, GapType
      DEF IInv, QueueType, ClientType, Phases, JobOver, Round, News
    <3>2. CASE i # j
      BY <1>1, <1>4, <3>2, Untouched DEF IInv, QueueType, ClientType, JobOver
    <3>3. QED
      BY <3>1, <3>2
  <2>3. QED
    BY <1>3, <1>4, <2>1, <2>2 DEF IInv
<1>5. CASE Return(j, "error") /\ Strike
  <2>1. /\ ClientType' /\ \A i \in Jobs : Round(i)' /\ News(i)'
        /\ poll'[j] = "returned" /\ \A i \in Jobs \ {j} : poll'[i] = poll[i]
    BY <1>1, <1>5, ReturnKeeps
  <2>2. \A i \in Jobs : JobOver(i)'
    BY <1>1, <1>2, <2>1 DEF IInv, QueueType, JobOver
  <2>3. QED
    BY <1>3, <1>5, <2>1, <2>2, FaultsKeep DEF IInv
<1>6. QED
  BY <1>4, <1>5 DEF submit

\* A client with a ticket leaves, and the queue does not notice.
LEMMA LeaveKeeps ==
    ASSUME IInv, NEW j \in Jobs, poll[j] # "new",
           NEW result \in DONE_STATES \cup {"error", "TIMEOUT", "CANCELLED", "refused"},
           Return(j, result), UNCHANGED jobVars, Strike \/ UNCHANGED faults
    PROVE  IInv'
<1>1. /\ ClientType' /\ \A i \in Jobs : Round(i)' /\ News(i)'
      /\ poll'[j] = "returned" /\ \A i \in Jobs \ {j} : poll'[i] = poll[i]
  BY ReturnKeeps DEF jobVars
<1>2. QueueType' /\ FailuresAreKept' /\ \A i \in Jobs : JobOver(i)'
  BY <1>1, QueueKeeps
<1>3. QED
  BY <1>1, <1>2, FaultsKeep DEF IInv

\* A client goes on with its round.
LEMMA RoundGoesOn ==
    ASSUME IInv, NEW j \in Jobs, UNCHANGED <<jobVars, left, outcome, done_for, faults>>,
           poll[j] # "new", NEW phase \in Phases \ {"new"},
           poll' = [poll EXCEPT ![j] = phase],
           NEW answer \in States, seen' = [seen EXCEPT ![j] = answer],
           NEW ticks \in Nat, timer' = [timer EXCEPT ![j] = ticks],
           Round(j)', News(j)'
    PROVE  IInv'
<1>1. ClientType'
  BY DEF IInv, ClientType
<1>2. \A i \in Jobs : Round(i)' /\ News(i)'
  BY Untouched DEF IInv, ClientType, jobVars
<1>3. QueueType' /\ FailuresAreKept' /\ \A i \in Jobs : JobOver(i)'
  BY QueueKeeps DEF IInv, ClientType
<1>4. QED
  BY <1>1, <1>2, <1>3 DEF IInv

LEMMA ClientStepKeeps ==
    ASSUME IInv, NEW j \in Jobs, ClientStep(j)
    PROVE  IInv'
<1> USE GapType
<1>1. CASE Ask(j)
  <2>1. CASE left[j] > 0 /\ poll' = [poll EXCEPT ![j] = "asking"]
             /\ UNCHANGED <<seen, timer, left, outcome, done_for>>
    <3>1. poll[j] = "due" /\ UNCHANGED <<jobVars, faults>>
      BY <1>1 DEF Ask
    <3>2. Round(j)' /\ News(j)'
      BY <2>1, <3>1 DEF IInv, ClientType, Round, News, jobVars
    <3>3. /\ seen' = [seen EXCEPT ![j] = seen[j]] /\ seen[j] \in States
          /\ timer' = [timer EXCEPT ![j] = timer[j]] /\ timer[j] \in Nat
      BY <2>1 DEF IInv, ClientType
    <3>4. QED
      BY <2>1, <3>1, <3>2, <3>3, RoundGoesOn DEF Phases
  <2>2. CASE Return(j, "TIMEOUT")
    BY <1>1, <2>2, LeaveKeeps DEF Ask
  <2>3. QED
    BY <1>1, <2>1, <2>2 DEF Ask, BeforeDeadline
<1>2. CASE Status(j)
  <2>1. Round(j)' /\ News(j)'
    BY <1>2 DEF Status, IInv, QueueType, ClientType, Round, News, jobVars
  <2>2. /\ timer' = [timer EXCEPT ![j] = timer[j]] /\ timer[j] \in Nat
        /\ status[j] \in States
    BY <1>2 DEF Status, IInv, ClientType, QueueType
  <2>3. QED
    BY <1>2, <2>1, <2>2, RoundGoesOn DEF Status, Phases
<1>3. CASE Response(j)
  <2>1. CASE seen[j] \in DONE_STATES /\ Return(j, seen[j])
    BY <1>3, <2>1, LeaveKeeps DEF Response
  <2>2. CASE /\ seen[j] \notin DONE_STATES
             /\ poll' = [poll EXCEPT ![j] = "asleep"]
             /\ timer' = [timer EXCEPT ![j] = Sleep]
             /\ seen' = [seen EXCEPT ![j] = "PENDING"]
             /\ UNCHANGED <<left, outcome, done_for>>
    <3>1. poll[j] = "told" /\ UNCHANGED <<jobVars, faults>>
      BY <1>3 DEF Response
    <3>2. Round(j)' /\ News(j)'
      BY <2>2, <3>1 DEF Sleep, IInv, ClientType, Round, News, jobVars
    <3>3. QED
      BY <2>2, <3>1, <3>2, RoundGoesOn DEF Sleep, Phases, States
  <2>3. QED
    BY <1>3, <2>1, <2>2 DEF Response
<1>4. CASE Wake(j)
  <2>1. Round(j)' /\ News(j)'
    BY <1>4 DEF Wake, IInv, ClientType, Round, News, jobVars
  <2>2. /\ seen' = [seen EXCEPT ![j] = seen[j]] /\ seen[j] \in States
        /\ timer' = [timer EXCEPT ![j] = timer[j]] /\ timer[j] \in Nat
    BY <1>4 DEF Wake, IInv, ClientType
  <2>3. QED
    BY <1>4, <2>1, <2>2, RoundGoesOn DEF Wake, Phases
<1>5. QED
  BY <1>1, <1>2, <1>3, <1>4 DEF ClientStep

\* A withdrawal is noted in the queue, or refused.
LEMMA CancelKeeps ==
    ASSUME IInv, NEW j \in Jobs, Cancel(j)
    PROVE  /\ QueueType' /\ FailuresAreKept' /\ UNCHANGED <<status, message>>
           /\ faults' \in 0..MaxFaults
BY FaultsKeep DEF Cancel, IInv, QueueType, FailuresAreKept

LEMMA WithdrawKeeps ==
    ASSUME IInv, NEW j \in Jobs, cancel(j) \/ CancelledByOther(j)
    PROVE  IInv'
<1>1. /\ QueueType' /\ FailuresAreKept' /\ UNCHANGED <<status, message>>
      /\ faults' \in 0..MaxFaults
  BY CancelKeeps DEF cancel, CancelledByOther
<1>2. CASE cancel(j)
  <2>1. PICK result \in {"CANCELLED", "refused"} : Return(j, result)
    BY <1>2 DEF cancel
  <2>2. /\ ClientType' /\ \A i \in Jobs : Round(i)' /\ News(i)'
        /\ poll'[j] = "returned" /\ \A i \in Jobs \ {j} : poll'[i] = poll[i]
    BY <1>1, <2>1, ReturnKeeps
  <2>3. \A i \in Jobs : JobOver(i)'
    BY <1>1, <1>2, <2>2 DEF IInv, JobOver, cancel
  <2>4. QED
    BY <1>1, <2>2, <2>3 DEF IInv
<1>3. CASE CancelledByOther(j)
  <2>1. ClientType' /\ \A i \in Jobs : Round(i)' /\ News(i)'
    BY <1>1, <1>3, ClientsKeep DEF CancelledByOther
  <2>2. \A i \in Jobs : JobOver(i)'
    BY <1>1, <1>3 DEF IInv, JobOver, CancelledByOther, clientVars
  <2>3. QED
    BY <1>1, <2>1, <2>2 DEF IInv
<1>4. QED
  BY <1>2, <1>3

-----------------------------------------------------------------------------
\* The workers' steps, on a job that has a message and so is not over.
LEMMA WorkerKeeps ==
    ASSUME IInv, NEW j \in Jobs,
           Take(j) \/ Score(j) \/ ScoreRaises(j) \/ WorkerDies(j)
    PROVE  IInv'
<1>1. message[j] # "none" /\ status[j] \notin DONE_STATES /\ poll[j] # "new"
  BY DEF Take, Score, ScoreRaises, WorkerDies, IInv, JobOver
<1>2. /\ UNCHANGED <<clientVars, done_for>>
      /\ \A i \in Jobs \ {j} : status'[i] = status[i] /\ message'[i] = message[i]
      /\ \A i \in Jobs \ {j} : retries'[i] = retries[i]
      /\ status'[j] \in DONE_STATES => message'[j] = "none"
  BY <1>1 DEF Take, Score, Result, ScoreRaises, WorkerDies, IInv, QueueType, States,
     DONE_STATES
<1>3. ClientType' /\ \A i \in Jobs : Round(i)' /\ News(i)'
  BY <1>1, <1>2, ClientsKeep
<1>4. \A i \in Jobs : JobOver(i)'
  BY <1>1, <1>2 DEF IInv, JobOver, clientVars
<1>5. faults' \in 0..MaxFaults
  BY FaultsKeep DEF Take, Score, ScoreRaises, WorkerDies, IInv
<1>6. QueueType'
  BY DEF Take, Score, Result, ScoreRaises, MayRetry, DeadLetter, WorkerDies, IInv,
     QueueType, States, DONE_STATES
<1>7. FailuresAreKept'
  <2>1. j \notin dead_letters
    BY <1>1 DEF IInv, FailuresAreKept, DONE_STATES
  <2>2. CASE Take(j) \/ Score(j) \/ WorkerDies(j)
    <3>1. UNCHANGED <<dead_letters, retries>> /\ status'[j] # "FAILURE"
      BY <1>1, <2>2 DEF Take, Score, Result, WorkerDies, IInv, QueueType, DONE_STATES
    <3>2. QED
      BY <1>2, <2>1, <3>1 DEF IInv, FailuresAreKept
  <2>3. CASE ScoreRaises(j)
    BY <2>1, <2>3 DEF ScoreRaises, MayRetry, DeadLetter, IInv, QueueType, FailuresAreKept
  <2>4. QED
    BY <2>2, <2>3
<1>8. QED
  BY <1>3, <1>4, <1>5, <1>6, <1>7 DEF IInv

\* Time: no request takes longer than it may, no sleep, and no gap.
LEMMA TickKeeps ==
    ASSUME IInv, Tick
    PROVE  IInv'
<1> USE GapType
<1>1. QueueType' /\ FailuresAreKept' /\ \A i \in Jobs : JobOver(i)'
  BY QueueKeeps DEF Tick
<1>2. ASSUME NEW i \in Jobs
      PROVE  /\ timer'[i] \in Nat /\ left'[i] \in Int /\ done_for'[i] \in 0..(Gap + 1)
             /\ Round(i)' /\ News(i)'
  <2>1. /\ Patient(i) /\ timer'[i] = TimeLeft(i)
        /\ left'[i] = IF Polling(i) /\ left[i] > -Gap THEN left[i] - 1 ELSE left[i]
        /\ done_for'[i] = IF status[i] \in DONE_STATES /\ Polling(i) /\ done_for[i] <= Gap
                          THEN done_for[i] + 1 ELSE done_for[i]
        /\ poll' = poll /\ status' = status /\ seen' = seen
    BY <1>2 DEF Tick, jobVars
  <2>2. /\ poll[i] \in Phases /\ timer[i] \in Nat /\ left[i] \in Int
        /\ done_for[i] \in 0..(Gap + 1) /\ Round(i) /\ News(i)
    BY DEF IInv, ClientType
  <2>3. CASE poll[i] = "asleep"
    BY <2>1, <2>2, <2>3 DEF Patient, Polling, TimeLeft, Round, News
  <2>4. CASE poll[i] \in {"asking", "told"}
    BY <2>1, <2>2, <2>4 DEF Patient, Polling, TimeLeft, Round, News
  <2>5. CASE poll[i] \in {"new", "withdrawing", "returned"}
    BY <2>1, <2>2, <2>5 DEF Polling, TimeLeft, Round, News
  <2>6. QED
    BY <2>1, <2>2, <2>3, <2>4, <2>5 DEF Patient, Phases
<1>3. ClientType'
  BY <1>2 DEF Tick, IInv, ClientType
<1>4. QED
  BY <1>1, <1>2, <1>3 DEF Tick, IInv

LEMMA NextIInv == IInv /\ [Next]_vars => IInv'
<1> SUFFICES ASSUME IInv, [Next]_vars PROVE IInv'
  OBVIOUS
<1>1. ASSUME NEW j \in Jobs, RequestFails(j) PROVE IInv'
  BY <1>1, LeaveKeeps DEF RequestFails
<1>2. CASE UNCHANGED vars
  BY <1>2 DEF vars, jobVars, clientVars, IInv, QueueType, ClientType, FailuresAreKept,
     JobOver, Round, News
<1>3. QED
  BY <1>1, <1>2, SubmitKeeps, WithdrawKeeps, ClientStepKeeps, WorkerKeeps, TickKeeps
  DEF Next

LEMMA Invariance == Spec => []IInv
BY InitIInv, NextIInv, PTL DEF Spec

-----------------------------------------------------------------------------
\* Every variable has its type; no job is retried more often than configured.
THEOREM AsyncJobsTyped == Spec => []TypeOK
<1>1. IInv => TypeOK
  BY DEF IInv, QueueType, ClientType, States, Phases, TypeOK
<1>2. QED
  BY <1>1, Invariance, PTL

\* A client overruns its timeout by less than one sleep and one request
\* (client.py:52-59).
THEOREM PollOverrun == Spec => []PollOverrunBounded
<1>1. IInv => PollOverrunBounded
  <2> SUFFICES ASSUME IInv, NEW j \in Jobs, Polling(j) PROVE left[j] > -Gap
    BY DEF PollOverrunBounded
  <2>1. timer[j] \in Nat /\ left[j] \in Int /\ Round(j)
    BY DEF IInv, ClientType
  <2>2. QED
    BY <2>1, GapType DEF Polling, Round
<1>2. QED
  BY <1>1, Invariance, PTL

\* A job fails for good only when its retries are used up, and then it is in the
\* dead letter queue rather than gone (task_queue.py:49-52).
THEOREM FailuresKept == Spec => []FailuresAreKept
<1>1. IInv => FailuresAreKept
  BY DEF IInv
<1>2. QED
  BY <1>1, Invariance, PTL

\* TIMEOUT is never reported of a job that was over long enough for one more look
\* (client.py:53-60).
THEOREM NoLateTimeout == Spec => TimeoutIsNews
<1>1. IInv /\ [Next]_vars
        => [\A j \in Jobs : outcome[j] = "none" /\ outcome'[j] = "TIMEOUT"
                              => done_for[j] <= Gap]_vars
  <2> SUFFICES ASSUME IInv, Next, NEW j \in Jobs, outcome[j] = "none",
                      outcome'[j] = "TIMEOUT"
               PROVE  done_for[j] <= Gap
    OBVIOUS
  <2>1. Ask(j)
    BY DEF Next, IInv, ClientType, submit, cancel, ClientStep, Ask, Status, Response, Wake,
       RequestFails, CancelledByOther, Take, Score, ScoreRaises, WorkerDies, Tick,
       clientVars, Return, DONE_STATES, States
  <2>2. QED
    BY <2>1 DEF Ask, IInv, News
<1>2. QED
  BY <1>1, Invariance, PTL DEF Spec, TimeoutIsNews

-----------------------------------------------------------------------------
(* The refinement of JobLedger.                                            *)

\* What a ticket stands for, which types and rounds do not say: a lost job has no
\* message, an answer under way that names an end names the job's, and poll() has
\* returned nothing before it returns.
Ticket(j) ==
    /\ j \in lost => message[j] = "none" /\ status[j] \notin DONE_STATES /\ poll[j] # "new"
    /\ j \in revoked => poll[j] # "new"
    /\ seen[j] \in DONE_STATES => seen[j] = status[j]
    /\ poll[j] # "returned" => outcome[j] = "none"

TicketInv == IInv /\ \A j \in Jobs : Ticket(j)

LEMMA InitTickets == Init => TicketInv
BY InitIInv DEF Init, TicketInv, Ticket, DONE_STATES

\* A ticket is safe from what happens to other jobs.
LEMMA TicketStays ==
    ASSUME NEW j \in Jobs, Ticket(j), status'[j] = status[j], message'[j] = message[j],
           poll'[j] = poll[j], seen'[j] = seen[j], outcome'[j] = outcome[j],
           j \in lost' => j \in lost, j \in revoked' => j \in revoked
    PROVE  Ticket(j)'
BY DEF Ticket

\* A client that leaves keeps its ticket sound.
LEMMA ReturnTicket ==
    ASSUME TicketInv, NEW j \in Jobs, NEW result, Return(j, result),
           UNCHANGED <<status, message, lost>>,
           \A i \in Jobs \ {j} : i \in revoked' => i \in revoked
    PROVE  \A i \in Jobs : Ticket(i)'
<1>1. Ticket(j)'
  BY DEF TicketInv, IInv, ClientType, Ticket, Return, DONE_STATES
<1>2. ASSUME NEW i \in Jobs \ {j} PROVE Ticket(i)'
  BY TicketStays DEF TicketInv, IInv, ClientType, Return
<1>3. QED
  BY <1>1, <1>2

LEMMA ClientTickets ==
    ASSUME TicketInv, NEW j \in Jobs,
           submit(j) \/ ClientStep(j) \/ RequestFails(j) \/ cancel(j) \/ CancelledByOther(j)
    PROVE  \A i \in Jobs : Ticket(i)'
<1> USE DEF TicketInv, IInv, QueueType, ClientType
<1>1. CASE submit(j)
  <2>1. CASE Return(j, "error")
    <3>1. Ticket(j)'
      BY <1>1, <2>1 DEF submit, Submit, Ticket, Return, DONE_STATES
    <3>2. ASSUME NEW i \in Jobs \ {j} PROVE Ticket(i)'
      BY <1>1, <2>1, TicketStays DEF submit, Submit, Return
    <3>3. QED
      BY <3>1, <3>2
  <2>2. CASE /\ poll' = [poll EXCEPT ![j] = IF j \in Withdrawing THEN "withdrawing"
                                             ELSE "due"]
             /\ UNCHANGED <<seen, timer, left, outcome, done_for, faults>>
    <3>1. Ticket(j)'
      BY <1>1, <2>2 DEF submit, Submit, Ticket
    <3>2. ASSUME NEW i \in Jobs \ {j} PROVE Ticket(i)'
      BY <1>1, <2>2, TicketStays DEF submit, Submit
    <3>3. QED
      BY <3>1, <3>2
  <2>3. QED
    BY <1>1, <2>1, <2>2 DEF submit
<1>2. CASE ClientStep(j)
  <2>1. UNCHANGED jobVars
    BY <1>2 DEF ClientStep, Ask, Status, Response, Wake
  <2>2. CASE \E result : Return(j, result)
    BY <2>1, <2>2, ReturnTicket DEF jobVars
  <2>3. CASE ~\E result : Return(j, result)
    <3>1. Ticket(j)'
      BY <1>2, <2>1, <2>3 DEF ClientStep, Ask, Status, Response, Wake, Ticket, jobVars,
         DONE_STATES
    <3>2. ASSUME NEW i \in Jobs \ {j} PROVE Ticket(i)'
      BY <1>2, <2>1, <2>3, TicketStays
      DEF ClientStep, Ask, Status, Response, Wake, jobVars
    <3>3. QED
      BY <3>1, <3>2
  <2>4. QED
    BY <2>2, <2>3
<1>3. CASE RequestFails(j)
  BY <1>3, ReturnTicket DEF RequestFails, jobVars
<1>4. CASE cancel(j)
  BY <1>4, ReturnTicket DEF cancel, Cancel
<1>5. CASE CancelledByOther(j)
  <2>1. Ticket(j)'
    BY <1>5 DEF CancelledByOther, Cancel, Polling, Ticket, clientVars
  <2>2. ASSUME NEW i \in Jobs \ {j} PROVE Ticket(i)'
    BY <1>5, TicketStays DEF CancelledByOther, Cancel, clientVars
  <2>3. QED
    BY <2>1, <2>2
<1>6. QED
  BY <1>1, <1>2, <1>3, <1>4, <1>5

\* A job with a message is neither lost nor over, so no answer under way names an end.
LEMMA HasMessage ==
    ASSUME TicketInv, NEW j \in Jobs, message[j] # "none"
    PROVE  /\ j \notin lost /\ status[j] \notin DONE_STATES /\ seen[j] \notin DONE_STATES
           /\ poll[j] # "new"
BY DEF TicketInv, Ticket, IInv, JobOver

\* What a worker does to its job and to no other.
LEMMA WorkerMoves ==
    ASSUME TicketInv, NEW j \in Jobs,
           Take(j) \/ Score(j) \/ ScoreRaises(j) \/ WorkerDies(j)
    PROVE  /\ UNCHANGED <<clientVars, revoked>> /\ message[j] # "none"
           /\ \A i \in Jobs \ {j} : /\ status'[i] = status[i] /\ message'[i] = message[i]
                                    /\ i \in lost' => i \in lost
                                    /\ i \in lost => i \in lost'
BY DEF Take, Score, Result, ScoreRaises, WorkerDies, TicketInv, IInv, QueueType

LEMMA WorkerTickets ==
    ASSUME TicketInv, NEW j \in Jobs,
           Take(j) \/ Score(j) \/ ScoreRaises(j) \/ WorkerDies(j)
    PROVE  \A i \in Jobs : Ticket(i)'
<1>1. /\ UNCHANGED <<clientVars, revoked>> /\ message[j] # "none"
      /\ \A i \in Jobs \ {j} : /\ status'[i] = status[i] /\ message'[i] = message[i]
                               /\ i \in lost' => i \in lost
  BY WorkerMoves
<1>2. ASSUME NEW i \in Jobs \ {j} PROVE Ticket(i)'
  BY <1>1, TicketStays DEF TicketInv, clientVars
<1>3. j \in lost' => message'[j] = "none" /\ status'[j] \notin DONE_STATES
  BY <1>1, HasMessage DEF Take, Score, ScoreRaises, WorkerDies, TicketInv, IInv, QueueType
<1>4. Ticket(j)'
  BY <1>1, <1>3, HasMessage DEF TicketInv, Ticket, clientVars
<1>5. QED
  BY <1>2, <1>4

LEMMA NextTickets == TicketInv /\ [Next]_vars => TicketInv'
<1> SUFFICES ASSUME TicketInv, [Next]_vars PROVE TicketInv'
  OBVIOUS
<1>1. IInv'
  BY NextIInv DEF TicketInv
<1>2. CASE Tick \/ UNCHANGED vars
  <2>1. UNCHANGED <<jobVars, poll, seen, outcome>>
    BY <1>2 DEF Tick, vars, clientVars
  <2>2. QED
    BY <1>1, <2>1, TicketStays DEF TicketInv, jobVars
<1>3. QED
  BY <1>1, <1>2, ClientTickets, WorkerTickets DEF Next, TicketInv

LEMMA TicketInvariance == Spec => []TicketInv
BY InitTickets, NextTickets, PTL DEF Spec

-----------------------------------------------------------------------------
(* The steps of the ledger.                                                *)

\* A step of the ledger, said of how one job stood before and stands after it.
LEMMA OneStands ==
    ASSUME NEW j \in Jobs, NEW how, Stands(j)' = how,
           \A i \in Jobs \ {j} : Stands(i)' = Stands(i)
    PROVE  [i \in Jobs |-> Stands(i)]' = [[i \in Jobs |-> Stands(i)] EXCEPT ![j] = how]
OBVIOUS

LEMMA OneIsTold ==
    ASSUME NEW j \in Jobs, NEW what, Told(j)' = what,
           \A i \in Jobs \ {j} : Told(i)' = Told(i)
    PROVE  [i \in Jobs |-> Told(i)]' = [[i \in Jobs |-> Told(i)] EXCEPT ![j] = what]
OBVIOUS

LEMMA NoneStands ==
    ASSUME \A i \in Jobs : Stands(i)' = Stands(i)
    PROVE  UNCHANGED [i \in Jobs |-> Stands(i)]
OBVIOUS

LEMMA NoneIsTold ==
    ASSUME \A i \in Jobs : Told(i)' = Told(i)
    PROVE  UNCHANGED [i \in Jobs |-> Told(i)]
OBVIOUS

\* How a job stands is a matter of three things.
LEMMA StandsStill ==
    ASSUME NEW i \in Jobs, status'[i] = status[i], i \in lost' <=> i \in lost,
           poll'[i] = "new" <=> poll[i] = "new"
    PROVE  Stands(i)' = Stands(i)
BY DEF Stands

\* Nothing that the ledger keeps.
LEMMA LedgerStays ==
    ASSUME UNCHANGED <<revoked, dead_letters>>,
           \A i \in Jobs : Stands(i)' = Stands(i) /\ Told(i)' = Told(i)
    PROVE  UNCHANGED Ledger!vars
BY NoneStands, NoneIsTold DEF Ledger!vars

LEMMA InitKeepsTickets == Init => Ledger!Init
BY DEF Init, Ledger!Init, Stands, Told, DONE_STATES

\* A client that leaves without an end tells the ledger nothing; with one it tells.
LEMMA ReturnTells ==
    ASSUME TicketInv, NEW j \in Jobs, NEW result, Return(j, result)
    PROVE  /\ Told(j)' = (IF result \in DONE_STATES THEN result ELSE "nothing")
           /\ \A i \in Jobs \ {j} : Told(i)' = Told(i) /\ poll'[i] = poll[i]
           /\ poll'[j] = "returned"
BY DEF TicketInv, IInv, ClientType, Return, Told

\* The outcome is open until the client returns.
LEMMA UntoldBefore ==
    ASSUME TicketInv, NEW j \in Jobs, poll[j] # "returned"
    PROVE  Told(j) = "nothing"
BY DEF TicketInv, Ticket, Told, DONE_STATES

\* Only a job that was submitted becomes known, and known it stays.
LEMMA SubmitAccepts ==
    ASSUME TicketInv, NEW j \in Jobs, submit(j)
    PROVE  Ledger!Accept(j)
<1> USE DEF TicketInv, IInv, QueueType, ClientType
<1>1. /\ poll[j] = "new" /\ UNCHANGED <<status, dead_letters, revoked, lost>>
      /\ poll'[j] # "new" /\ \A i \in Jobs \ {j} : poll'[i] = poll[i]
  BY DEF submit, Submit, Return
<1>2. status[j] \notin DONE_STATES /\ j \notin lost
  BY <1>1 DEF JobOver, Ticket
<1>3. Stands(j) = "none" /\ Stands(j)' = "accepted"
  BY <1>1, <1>2 DEF Stands
<1>4. \A i \in Jobs \ {j} : Stands(i)' = Stands(i)
  BY <1>1, StandsStill
<1>5. \A i \in Jobs : Told(i)' = Told(i)
  <2>1. CASE Return(j, "error")
    BY <1>1, <2>1, ReturnTells, UntoldBefore DEF DONE_STATES
  <2>2. CASE UNCHANGED outcome
    BY <2>2 DEF Told
  <2>3. QED
    BY <2>1, <2>2 DEF submit
<1>6. QED
  BY <1>1, <1>3, <1>4, <1>5, OneStands, NoneIsTold DEF Ledger!Accept

LEMMA WithdrawIsKept ==
    ASSUME TicketInv, NEW j \in Jobs, cancel(j) \/ CancelledByOther(j)
    PROVE  Ledger!Withdraw(j) \/ UNCHANGED Ledger!vars
<1> USE DEF TicketInv, IInv, QueueType, ClientType
<1>1. /\ UNCHANGED <<status, dead_letters, lost>> /\ poll[j] \notin {"new", "returned"}
      /\ revoked' = revoked \cup {j} \/ UNCHANGED revoked
  BY DEF cancel, CancelledByOther, Cancel, Polling
<1>2. /\ \A i \in Jobs : poll'[i] = "new" <=> poll[i] = "new"
      /\ \A i \in Jobs : Told(i)' = Told(i)
  <2>1. CASE cancel(j)
    <3>1. PICK result \in {"CANCELLED", "refused"} : Return(j, result)
      BY <2>1 DEF cancel
    <3>2. QED
      BY <1>1, <3>1, ReturnTells, UntoldBefore DEF DONE_STATES
  <2>2. CASE CancelledByOther(j)
    BY <2>2 DEF CancelledByOther, clientVars, Told
  <2>3. QED
    BY <2>1, <2>2
<1>3. \A i \in Jobs : Stands(i)' = Stands(i)
  BY <1>1, <1>2, StandsStill
<1>4. Stands(j) # "none"
  BY <1>1 DEF Stands, DONE_STATES
<1>5. CASE revoked' = revoked \cup {j}
  BY <1>1, <1>2, <1>3, <1>4, <1>5, NoneStands, NoneIsTold DEF Ledger!Withdraw
<1>6. CASE UNCHANGED revoked
  BY <1>1, <1>2, <1>3, <1>6, LedgerStays
<1>7. QED
  BY <1>1, <1>5, <1>6

\* A client that has its ticket learns the end, or the ledger is not involved.
LEMMA RoundTells ==
    ASSUME TicketInv, NEW j \in Jobs, ClientStep(j) \/ RequestFails(j)
    PROVE  Ledger!Tell(j) \/ UNCHANGED Ledger!vars
<1> USE DEF TicketInv, IInv, QueueType, ClientType
<1>1. UNCHANGED jobVars /\ poll[j] \notin {"new", "returned"}
  BY DEF ClientStep, Ask, Status, Response, Wake, RequestFails
<1>2. \A i \in Jobs : poll'[i] = "new" <=> poll[i] = "new"
  BY DEF ClientStep, Ask, Status, Response, Wake, RequestFails, Return
<1>3. \A i \in Jobs : Stands(i)' = Stands(i)
  BY <1>1, <1>2, StandsStill DEF jobVars
<1>4. CASE Response(j) /\ seen[j] \in DONE_STATES
  <2>1. Return(j, seen[j]) /\ status[j] = seen[j]
    BY <1>4 DEF Response, Ticket
  <2>2. /\ Told(j)' = status[j] /\ Told(j) = "nothing"
        /\ \A i \in Jobs \ {j} : Told(i)' = Told(i)
    BY <1>1, <1>4, <2>1, ReturnTells, UntoldBefore
  <2>3. Stands(j) = status[j] /\ status[j] \in DONE_STATES
    BY <1>4, <2>1 DEF Stands
  <2>4. QED
    BY <1>1, <1>3, <2>2, <2>3, NoneStands, OneIsTold
    DEF jobVars, Ledger!Tell, Ledger!Ends, DONE_STATES
<1>5. CASE ~(Response(j) /\ seen[j] \in DONE_STATES)
  <2>1. \A i \in Jobs : Told(i)' = Told(i)
    <3>1. CASE \E result \in {"TIMEOUT", "error"} : Return(j, result)
      BY <1>1, <3>1, ReturnTells, UntoldBefore DEF DONE_STATES
    <3>2. CASE UNCHANGED outcome
      BY <3>2 DEF Told
    <3>3. QED
      BY <1>5, <3>1, <3>2 DEF ClientStep, Ask, Status, Response, Wake, RequestFails
  <2>2. QED
    BY <1>1, <1>3, <2>1, LedgerStays DEF jobVars
<1>6. QED
  BY <1>4, <1>5

\* What a worker does ends its job, loses it, or leaves it accepted.
LEMMA WorkerEnds ==
    ASSUME TicketInv, NEW j \in Jobs,
           Take(j) \/ Score(j) \/ ScoreRaises(j) \/ WorkerDies(j)
    PROVE  \/ \E how \in Ledger!Ends : Ledger!End(j, how)
           \/ Ledger!Lose(j) \/ UNCHANGED Ledger!vars
<1> USE DEF TicketInv, IInv, QueueType, ClientType
<1>1. /\ UNCHANGED <<clientVars, revoked>> /\ message[j] # "none"
      /\ \A i \in Jobs \ {j} : status'[i] = status[i]
      /\ \A i \in Jobs \ {j} : i \in lost' <=> i \in lost
  BY WorkerMoves
<1>2. /\ j \notin lost /\ status[j] \notin DONE_STATES /\ poll[j] # "new"
  BY <1>1, HasMessage
<1>3. \A i \in Jobs \ {j} : Stands(i)' = Stands(i)
  BY <1>1, StandsStill DEF clientVars
<1>4. /\ \A i \in Jobs : Told(i)' = Told(i)
      /\ Stands(j) = "accepted"
  BY <1>1, <1>2 DEF Told, Stands, clientVars
<1>5. ASSUME NEW how \in DONE_STATES, status'[j] = how, how = "REVOKED" => j \in revoked,
             dead_letters' = IF how = "FAILURE" THEN dead_letters \cup {j} ELSE dead_letters
      PROVE  Ledger!End(j, how) /\ how \in Ledger!Ends
  <2>1. Stands(j)' = how
    BY <1>5 DEF Stands
  <2>2. QED
    BY <1>1, <1>3, <1>4, <1>5, <2>1, OneStands, NoneIsTold
    DEF Ledger!End, Ledger!Ends, DONE_STATES
<1>6. ASSUME j \in lost', status'[j] \notin DONE_STATES, UNCHANGED dead_letters
      PROVE  Ledger!Lose(j)
  <2>1. Stands(j)' = "lost"
    BY <1>6 DEF Stands
  <2>2. QED
    BY <1>1, <1>3, <1>4, <1>6, <2>1, OneStands, NoneIsTold DEF Ledger!Lose
<1>7. ASSUME j \notin lost', status'[j] \notin DONE_STATES, UNCHANGED dead_letters
      PROVE  UNCHANGED Ledger!vars
  <2>1. Stands(j)' = "accepted"
    BY <1>1, <1>2, <1>7 DEF Stands, clientVars
  <2>2. QED
    BY <1>1, <1>3, <1>4, <1>7, <2>1, LedgerStays
<1>8. CASE Take(j)
  BY <1>2, <1>5, <1>7, <1>8 DEF Take, DONE_STATES
<1>9. CASE Score(j)
  BY <1>5, <1>9 DEF Score, Result, DONE_STATES
<1>10. CASE ScoreRaises(j)
  BY <1>2, <1>5, <1>7, <1>10 DEF ScoreRaises, DeadLetter, DONE_STATES
<1>11. CASE WorkerDies(j)
  BY <1>2, <1>6, <1>7, <1>11 DEF WorkerDies
<1>12. QED
  BY <1>8, <1>9, <1>10, <1>11

LEMMA NextKeepsTickets == TicketInv /\ [Next]_vars => [Ledger!Next]_(Ledger!vars)
<1> SUFFICES ASSUME TicketInv, [Next]_vars PROVE [Ledger!Next]_(Ledger!vars)
  OBVIOUS
<1>1. CASE Tick \/ UNCHANGED vars
  <2>1. UNCHANGED <<jobVars, poll, outcome>>
    BY <1>1 DEF Tick, vars, clientVars
  <2>2. \A i \in Jobs : Stands(i)' = Stands(i) /\ Told(i)' = Told(i)
    BY <2>1 DEF Stands, Told, jobVars
  <2>3. QED
    BY <2>1, <2>2, LedgerStays DEF jobVars
<1>2. QED
  BY <1>1, SubmitAccepts, WithdrawIsKept, RoundTells, WorkerEnds DEF Next, Ledger!Next

\* A ticket keeps its promise, step by step: every step of the queue, its workers and
\* the clients is one of the ledger or leaves it alone (app.py:72-101).
THEOREM TicketsAreKept == Spec => KeepsTickets
BY InitKeepsTickets, TicketInvariance, NextKeepsTickets, PTL
DEF Spec, KeepsTickets, Ledger!Spec
=============================================================================

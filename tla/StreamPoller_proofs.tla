------------------------ MODULE StreamPoller_proofs ------------------------
(***************************************************************************)
(* What StreamPoller guarantees for every set of messages, every capacity  *)
(* and any number of disruptions of any kind.                              *)
(***************************************************************************)
EXTENDS StreamPoller, FiniteSetTheorems, TLAPS

USE MessagesFinite, PoisonAssumption, BoundsAssumption, FaultsAssumption

\* Requests on model replicas are counted by natural numbers.
LEMMA PhaseCount ==
    \A p : IsFiniteSet(InPhase(p)) /\ Cardinality(InPhase(p)) \in Nat
BY FS_Subset, FS_CardinalityType DEF InPhase

\* The initial state has the declared types.
LEMMA InitType == Init => TypeOK
BY FS_EmptySet DEF Init, TypeOK, QueueStates, RunStates, PollDelay

\* Moving one task to a phase keeps the dict a function to phases.
LEMMA GoToType ==
    ASSUME TypeOK, NEW m \in Messages, NEW p \in Phases \cup {"none"}, GoTo(m, p)
    PROVE  processing_requests' \in [Messages -> Phases \cup {"none"}]
BY DEF TypeOK, GoTo

\* A fresh poller has the declared types.
LEMMA FreshType ==
    ASSUME TypeOK, FreshPoller, UNCHANGED <<queue, bucket>>,
           faults' \in 0..MaxFaults
    PROVE  TypeOK'
<1>1. orphans' \in Nat
  BY PhaseCount DEF TypeOK, FreshPoller
<1>2. Cardinality(messages') <= MaxMessages
  BY FS_EmptySet DEF FreshPoller
<1>3. poll_delay' \in {PollDelay(c) : c \in 0..CounterCap}
  BY DEF FreshPoller
<1>4. QED
  BY <1>1, <1>2, <1>3 DEF TypeOK, FreshPoller, QueueStates, RunStates

\* Every step of every actor keeps the declared types.
LEMMA NextType == TypeOK /\ [Next]_vars => TypeOK'
<1> SUFFICES ASSUME TypeOK, [Next]_vars PROVE TypeOK'
  OBVIOUS
<1> USE DEF TypeOK, QueueStates, RunStates, pollerVars
<1>1. ASSUME NEW m \in Messages, Produce(m) \/ VisibilityTimeout(m)
      PROVE  TypeOK'
  BY <1>1 DEF Produce, VisibilityTimeout
<1>2. ASSUME NEW m \in Messages,
             NEW from \in Phases, NEW to \in Phases, HandleStep(m, from, to),
             faults' \in 0..MaxFaults
      PROVE  TypeOK'
  <2>1. processing_requests' \in [Messages -> Phases \cup {"none"}]
    BY <1>2, GoToType DEF HandleStep
  <2>2. QED BY <1>2, <2>1 DEF HandleStep
<1>3. ASSUME NEW m \in Messages, TaskStep(m) \/ Assign(m) \/ TaskFault(m)
      PROVE  TypeOK'
  <2>1. CASE Admit(m) \/ Reject(m) \/ Assign(m) \/ Generate(m)
               \/ EmptyPrompt(m) \/ GenerateFails(m)
    BY <2>1, <1>2 DEF Admit, Reject, Assign, Generate, EmptyPrompt,
                      GenerateFails, Strike, Phases
  <2>2. CASE Upload(m)
    <3>1. processing_requests' \in [Messages -> Phases \cup {"none"}]
      BY <2>2, GoToType DEF Upload, Phases
    <3>2. QED BY <2>2, <3>1 DEF Upload
  <2>3. CASE UploadFails(m)
    <3>1. processing_requests' \in [Messages -> Phases \cup {"none"}]
      BY <2>3, GoToType DEF UploadFails, Phases
    <3>2. QED BY <2>3, <3>1 DEF UploadFails, Strike
  <2>4. CASE FinishSucceeded(m)
    <3>1. processing_requests' \in [Messages -> Phases \cup {"none"}]
      BY <2>4, GoToType DEF FinishSucceeded
    <3>2. queue' \in [Messages -> QueueStates] /\ 0 \in 0..CounterCap
      BY <2>4 DEF FinishSucceeded
    <3>3. QED BY <2>4, <3>1, <3>2 DEF FinishSucceeded
  <2>5. CASE DeleteFails(m)
    <3>1. processing_requests' \in [Messages -> Phases \cup {"none"}]
      BY <2>5, GoToType DEF DeleteFails
    <3>2. queue' \in [Messages -> QueueStates] /\ 0 \in 0..CounterCap
      BY <2>5 DEF DeleteFails
    <3>3. QED BY <2>5, <3>1, <3>2 DEF DeleteFails, Strike
  <2>6. CASE FinishRejected(m)
    <3>1. processing_requests' \in [Messages -> Phases \cup {"none"}]
      BY <2>6, GoToType DEF FinishRejected
    <3>2. QED BY <2>6, <3>1 DEF FinishRejected
  <2>7. CASE FinishFailed(m)
    <3>1. processing_requests' \in [Messages -> Phases \cup {"none"}]
      BY <2>7, GoToType DEF FinishFailed
    <3>2. QED BY <2>7, <3>1 DEF FinishFailed
  <2>8. QED
    BY <1>3, <2>1, <2>2, <2>3, <2>4, <2>5, <2>6, <2>7 DEF TaskStep, TaskFault
<1>4. CASE LoopTop
  BY <1>4 DEF LoopTop
<1>5. CASE ReceiveFails
  BY <1>5 DEF ReceiveFails, Strike
<1>6. CASE Dispatch
  <2>1. poll_delay' \in {PollDelay(c) : c \in 0..CounterCap}
    BY <1>6 DEF Dispatch
  <2>2. Cardinality(messages') <= MaxMessages
    BY <1>6, FS_EmptySet DEF Dispatch
  <2>3. processing_requests' \in [Messages -> Phases \cup {"none"}]
    BY <1>6 DEF Dispatch, Phases
  <2>4. QED BY <1>6, <2>1, <2>2, <2>3 DEF Dispatch
<1>7. ASSUME NEW S \in SUBSET Messages, Receive(S)
      PROVE  TypeOK'
  BY <1>7 DEF Receive, Batches, Visible
<1>8. CASE OrphanDone
  BY <1>8 DEF OrphanDone
<1>9. CASE Shutdown \/ DrainDone
  BY <1>9 DEF Shutdown, DrainDone, Strike
<1>10. CASE Replace \/ Crash
  BY <1>10, FreshType DEF Replace, Crash, Strike
<1>11. CASE UNCHANGED vars
  BY <1>11 DEF vars
<1>12. QED
  BY <1>1, <1>3, <1>4, <1>5, <1>6, <1>7, <1>8, <1>9, <1>10, <1>11 DEF Next

\* The types hold in every reachable state (StreamPoller, all handlers).
THEOREM TypeCorrect == Spec => []TypeOK
BY InitType, NextType, PTL DEF Spec

-----------------------------------------------------------------------------
(* Storing before deleting.  DeletedOnlyAfterStored is not inductive: the  *)
(* step that deletes knows only that the task is uploaded, and the step    *)
(* that stores knows only that the task exists.                            *)

\* A task called uploaded has its object in the bucket, and whatever the
\* poller or the bucket holds came from the queue.
TaskState ==
    /\ \A m \in Messages : processing_requests[m] = "uploaded" => m \in bucket
    /\ \A m \in messages \cup InFlight \cup bucket : queue[m] # "absent"

IInv == TypeOK /\ DeletedOnlyAfterStored /\ TaskState

LEMMA InitIInv == Init => IInv
<1> SUFFICES ASSUME Init PROVE IInv
  OBVIOUS
<1>1. DeletedOnlyAfterStored /\ TaskState
  BY DEF Init, DeletedOnlyAfterStored, TaskState, InFlight
<1>2. QED BY <1>1, InitType DEF IInv

\* A poller that starts over forgets its tasks and changes neither the queue
\* nor the bucket.
LEMMA FreshIInv ==
    ASSUME IInv, FreshPoller, UNCHANGED <<queue, bucket>>
    PROVE  DeletedOnlyAfterStored' /\ TaskState'
BY DEF IInv, TypeOK, FreshPoller, DeletedOnlyAfterStored, TaskState, InFlight

LEMMA NextIInv == IInv /\ [Next]_vars => IInv'
<1> SUFFICES ASSUME IInv, [Next]_vars
             PROVE  DeletedOnlyAfterStored' /\ TaskState'
  BY NextType DEF IInv
<1> USE DEF IInv, TypeOK, DeletedOnlyAfterStored, TaskState, InFlight, pollerVars
<1>1. ASSUME NEW m \in Messages, Produce(m) \/ VisibilityTimeout(m)
      PROVE  DeletedOnlyAfterStored' /\ TaskState'
  BY <1>1 DEF Produce, VisibilityTimeout
<1>2. ASSUME NEW m \in Messages, NEW from \in Phases, NEW to \in Phases,
             HandleStep(m, from, to), to # "uploaded"
      PROVE  DeletedOnlyAfterStored' /\ TaskState'
  BY <1>2 DEF HandleStep, GoTo, Phases
<1>3. ASSUME NEW m \in Messages, TaskStep(m) \/ Assign(m) \/ TaskFault(m)
      PROVE  DeletedOnlyAfterStored' /\ TaskState'
  <2>1. CASE Admit(m) \/ Reject(m) \/ Assign(m) \/ Generate(m)
               \/ EmptyPrompt(m) \/ GenerateFails(m)
    BY <2>1, <1>2 DEF Admit, Reject, Assign, Generate, EmptyPrompt,
                      GenerateFails, Phases
  <2>2. CASE Upload(m)
    BY <2>2 DEF Upload, GoTo
  <2>3. CASE UploadFails(m)
    BY <2>3 DEF UploadFails, GoTo
  <2>4. CASE FinishSucceeded(m)
    BY <2>4 DEF FinishSucceeded, GoTo
  <2>5. CASE DeleteFails(m)
    BY <2>5 DEF DeleteFails, GoTo
  <2>6. CASE FinishRejected(m) \/ FinishFailed(m)
    BY <2>6 DEF FinishRejected, FinishFailed, GoTo
  <2>7. QED
    BY <1>3, <2>1, <2>2, <2>3, <2>4, <2>5, <2>6 DEF TaskStep, TaskFault
<1>4. CASE LoopTop \/ ReceiveFails \/ OrphanDone \/ Shutdown \/ DrainDone
  BY <1>4 DEF LoopTop, ReceiveFails, OrphanDone, Shutdown, DrainDone
<1>5. CASE Dispatch
  BY <1>5 DEF Dispatch, NewMessages
<1>6. ASSUME NEW S \in SUBSET Messages, Receive(S)
      PROVE  DeletedOnlyAfterStored' /\ TaskState'
  BY <1>6 DEF Receive, Batches, Visible
<1>7. CASE Replace \/ Crash
  BY <1>7, FreshIInv DEF Replace, Crash
<1>8. CASE UNCHANGED vars
  BY <1>8 DEF vars
<1>9. QED
  BY <1>1, <1>3, <1>4, <1>5, <1>6, <1>7, <1>8 DEF Next

\* A message leaves the queue only when its image is stored
\* (process_finished_request), through any crashes and redeliveries.
THEOREM StoredBeforeDeleted == Spec => []DeletedOnlyAfterStored
<1>1. IInv => DeletedOnlyAfterStored
  BY DEF IInv
<1>2. QED BY <1>1, InitIInv, NextIInv, PTL DEF Spec

-----------------------------------------------------------------------------
(* Duplicate suppression.                                                  *)

LEMMA StepForwardsOnce ==
    TypeOK /\ [Next]_vars =>
      [\A m \in InFlight : processing_requests'[m] = "sent"
                             => processing_requests[m] = "sent"]_vars
<1> SUFFICES ASSUME TypeOK, Next, NEW n \in InFlight,
                    processing_requests'[n] = "sent"
             PROVE  processing_requests[n] = "sent"
  OBVIOUS
<1> n \in Messages /\ processing_requests[n] # "none"
  BY DEF InFlight
<1>1. ASSUME NEW m \in Messages, NEW q, q # "sent", GoTo(m, q)
      PROVE  processing_requests[n] = "sent"
  BY <1>1 DEF GoTo, TypeOK
<1>2. ASSUME NEW m \in Messages, TaskStep(m) \/ Assign(m) \/ TaskFault(m)
      PROVE  processing_requests[n] = "sent"
  BY <1>2, <1>1 DEF TaskStep, TaskFault, HandleStep, Admit, Reject, Assign,
       Generate, EmptyPrompt, GenerateFails, Upload, UploadFails,
       FinishSucceeded, DeleteFails, FinishRejected, FinishFailed
<1>3. CASE Dispatch
  BY <1>3 DEF Dispatch, NewMessages
<1>4. CASE Replace \/ Crash
  BY <1>4 DEF Replace, Crash, FreshPoller
<1>5. ASSUME UNCHANGED processing_requests
      PROVE  processing_requests[n] = "sent"
  BY <1>5
<1>6. QED
  BY <1>2, <1>3, <1>4, <1>5 DEF Next, Produce, VisibilityTimeout, Receive,
       LoopTop, ReceiveFails, OrphanDone, Shutdown, DrainDone, pollerVars

\* One poller never forwards a message again while its task is alive, however
\* often SQS redelivers it (the skip in run()).
THEOREM ForwardedOnce == Spec => InFlightForwardedOnce
BY TypeCorrect, StepForwardsOnce, PTL DEF Spec, InFlightForwardedOnce

-----------------------------------------------------------------------------
(* The refinement of AtLeastOnce.                                          *)

LEMMA InitConsumes == Init => ALO!Init
BY DEF Init, ALO!Init

\* A step that leaves the queue and the bucket alone is a stutter.
LEMMA Stutter ==
    ASSUME UNCHANGED <<queue, bucket>> PROVE UNCHANGED ALO!vars
BY DEF ALO!vars

\* Each step is a stutter or one abstract operation on one message.
LEMMA NextConsumes == IInv /\ [Next]_vars => [ALO!Next]_(ALO!vars)
<1> SUFFICES ASSUME IInv, [Next]_vars PROVE [ALO!Next]_(ALO!vars)
  OBVIOUS
<1> USE DEF IInv, TypeOK, QueueStates
<1>1. ASSUME NEW m \in Messages, Produce(m)
      PROVE  ALO!Accept(m)
  BY <1>1 DEF Produce, ALO!Accept
<1>2. ASSUME NEW m \in Messages, VisibilityTimeout(m)
      PROVE  UNCHANGED ALO!vars
  BY <1>2 DEF VisibilityTimeout, ALO!vars
<1>3. ASSUME NEW S \in SUBSET Messages, Receive(S)
      PROVE  UNCHANGED ALO!vars
  BY <1>3 DEF Receive, Batches, Visible, ALO!vars
<1>4. ASSUME NEW m \in Messages, processing_requests[m] = "uploading",
             bucket' = bucket \cup {m}, UNCHANGED queue
      PROVE  ALO!Store(m)
  BY <1>4 DEF ALO!Store, TaskState, InFlight
<1>5. ASSUME NEW m \in Messages, processing_requests[m] = "uploaded",
             queue' = [queue EXCEPT ![m] = "deleted"], UNCHANGED bucket
      PROVE  ALO!Retire(m)
  BY <1>5 DEF ALO!Retire, TaskState, InFlight
<1>6. ASSUME NEW m \in Messages, TaskStep(m) \/ Assign(m) \/ TaskFault(m)
      PROVE  [ALO!Next]_(ALO!vars)
  <2>1. CASE Upload(m) \/ UploadFails(m)
    <3>1. ALO!Store(m) \/ UNCHANGED <<queue, bucket>>
      BY <1>4, <2>1 DEF Upload, UploadFails
    <3>2. QED BY <3>1, Stutter DEF ALO!Next
  <2>2. CASE FinishSucceeded(m) \/ DeleteFails(m)
    <3>1. ALO!Retire(m) \/ UNCHANGED <<queue, bucket>>
      BY <1>5, <2>2 DEF FinishSucceeded, DeleteFails
    <3>2. QED BY <3>1, Stutter DEF ALO!Next
  <2>3. CASE Admit(m) \/ Reject(m) \/ Assign(m) \/ Generate(m)
               \/ EmptyPrompt(m) \/ GenerateFails(m)
               \/ FinishRejected(m) \/ FinishFailed(m)
    BY <2>3, Stutter DEF Admit, Reject, Assign, Generate, EmptyPrompt,
         GenerateFails, HandleStep, FinishRejected, FinishFailed
  <2>4. QED BY <1>6, <2>1, <2>2, <2>3 DEF TaskStep, TaskFault
<1>7. CASE UNCHANGED <<queue, bucket>>
  BY <1>7, Stutter
<1>8. QED
  BY <1>1, <1>2, <1>3, <1>6, <1>7 DEF Next, ALO!Next, LoopTop, ReceiveFails,
       Dispatch, OrphanDone, Shutdown, DrainDone, Replace, Crash, vars

\* The poller implements AtLeastOnce (poller.py "At-least-once delivery").
THEOREM PollerConsumes == Spec => Consumes
<1>1. Spec => []IInv
  BY InitIInv, NextIInv, PTL DEF Spec
<1>2. QED
  BY <1>1, InitConsumes, NextConsumes, PTL DEF Spec, Consumes, ALO!Spec
=============================================================================

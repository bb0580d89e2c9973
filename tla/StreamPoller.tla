--------------------------- MODULE StreamPoller ----------------------------
(***************************************************************************)
(* classic/stream_processing: one QueuePoller replica moves messages from  *)
(* an SQS queue through the handle of the ImageGenerator deployment into a *)
(* bucket.  The poll loop run(), one process_finished_request task per     *)
(* message, the drain in __del__ and the executor threads interleave at    *)
(* every await; everything between two awaits is one step.  SQS, the       *)
(* bucket, the Serve handle and the controller that kills and restarts     *)
(* replicas are external: they are modelled by what the poller can see.    *)
(***************************************************************************)
EXTENDS Integers, FiniteSets

CONSTANTS
    Messages,       \* message ids producers may send, each once
    Poison,         \* messages whose prompt is empty: the model asserts on them
    MaxMessages,    \* messages per receive_messages call (10)
    MaxQueued,      \* max_queued_requests of the model handle (3)
    Slots,          \* max_replicas * max_ongoing_requests of the model (10 * 1)
    CounterCap,     \* backpressure_counter saturates here
    Faults,         \* the kinds of disruption that may strike
    MaxFaults       \* how many of them may strike

FaultKinds == {"crash", "redeploy", "model", "upload", "delete", "receive"}

ASSUME MessagesFinite == IsFiniteSet(Messages)
ASSUME PoisonAssumption == Poison \subseteq Messages
ASSUME BoundsAssumption == /\ MaxMessages \in Nat \ {0}
                           /\ MaxQueued \in Nat \ {0}
                           /\ Slots \in Nat \ {0}
                           /\ CounterCap \in Nat \ {0}
                           /\ MaxFaults \in Nat
ASSUME FaultsAssumption == Faults \subseteq FaultKinds

VARIABLES
    queue,                  \* SQS: where each message is in its life
    bucket,                 \* S3: messages with an image_<id>.png object
    processing_requests,    \* phase of the task of each id, "none" if no entry
    run,                    \* where the poll loop is
    messages,               \* the batch of the last receive_messages call
    backpressure_counter,
    poll_delay,             \* the last sleep of the loop, in tenths of a second
    life,                   \* the replica: up, draining in __del__, drained
    orphans,                \* model requests whose poller is gone
    faults                  \* disruptions so far

pollerVars == <<processing_requests, run, messages, backpressure_counter,
                poll_delay>>
vars == <<queue, bucket, processing_requests, run, messages,
          backpressure_counter, poll_delay, life, orphans, faults>>

-----------------------------------------------------------------------------
(* A task is "sent" until the handle admits or rejects the request, then   *)
(* queued in the handle, running on a model replica, uploading in an       *)
(* executor thread; "uploaded", "rejected" and "failed" are tasks about to *)
(* run the rest of their try statement.                                    *)
Phases == {"sent", "queued", "running", "uploading",
           "uploaded", "rejected", "failed"}

InPhase(p) == {m \in Messages : processing_requests[m] = p}
InFlight == {m \in Messages : processing_requests[m] # "none"}
Visible == {m \in Messages : queue[m] = "visible"}

shutdown_event == life # "up"

\* The wait before the next poll, in tenths of a second.
PollDelay(c) == IF c = 0 THEN 1
                ELSE IF 2^c < 10 THEN 10 * 2^c ELSE 100

\* Mutant of Batches: no MaxNumberOfMessages.
BatchesUnlimited == SUBSET Visible

\* What one receive_messages call may return: at most MaxMessages visible
\* messages, and possibly fewer than are visible.
Batches == {S \in SUBSET Visible : Cardinality(S) <= MaxMessages}

\* Mutant of NewMessages: no duplicate suppression.
NewMessagesUnfiltered == messages

\* The messages of the batch the loop does not skip.
NewMessages == {m \in messages : processing_requests[m] = "none"}

HandleHasRoom == Cardinality(InPhase("queued")) < MaxQueued
SlotFree == Cardinality(InPhase("running")) + orphans < Slots

Strike(kind) ==
    /\ kind \in Faults
    /\ faults < MaxFaults
    /\ faults' = faults + 1

GoTo(m, phase) ==
    processing_requests' = [processing_requests EXCEPT ![m] = phase]

\* A poller whose __init__ has just scheduled run(): all memory is new, the
\* requests it had on model replicas run on unobserved.
FreshPoller ==
    /\ processing_requests' = [m \in Messages |-> "none"]
    /\ run' = "top"
    /\ messages' = {}
    /\ backpressure_counter' = 0
    /\ poll_delay' = PollDelay(0)
    /\ life' = "up"
    /\ orphans' = orphans + Cardinality(InPhase("running"))

Init ==
    /\ queue = [m \in Messages |-> "absent"]
    /\ bucket = {}
    /\ processing_requests = [m \in Messages |-> "none"]
    /\ run = "top"
    /\ messages = {}
    /\ backpressure_counter = 0
    /\ poll_delay = PollDelay(0)
    /\ life = "up"
    /\ orphans = 0
    /\ faults = 0

-----------------------------------------------------------------------------
(* The queue.                                                              *)
Produce(m) ==
    /\ queue[m] = "absent"
    /\ queue' = [queue EXCEPT ![m] = "visible"]
    /\ UNCHANGED <<bucket, pollerVars, life, orphans, faults>>

VisibilityTimeout(m) ==
    /\ queue[m] = "invisible"
    /\ queue' = [queue EXCEPT ![m] = "visible"]
    /\ UNCHANGED <<bucket, pollerVars, life, orphans, faults>>

-----------------------------------------------------------------------------
(* The poll loop.                                                          *)
LoopTop ==
    /\ run = "top"
    /\ run' = IF shutdown_event THEN "exited" ELSE "receiving"
    /\ UNCHANGED <<queue, bucket, processing_requests, messages,
                   backpressure_counter, poll_delay, life, orphans, faults>>

Receive(S) ==
    /\ run = "receiving"
    /\ S \in Batches
    /\ messages' = S
    /\ queue' = [m \in Messages |-> IF m \in S THEN "invisible" ELSE queue[m]]
    /\ run' = "received"
    /\ UNCHANGED <<bucket, processing_requests, backpressure_counter,
                   poll_delay, life, orphans, faults>>

\* receive_messages raises: nothing catches it, so the task of run() ends.
ReceiveFails ==
    /\ run = "receiving"
    /\ Strike("receive")
    /\ run' = "crashed"
    /\ UNCHANGED <<queue, bucket, processing_requests, messages,
                   backpressure_counter, poll_delay, life, orphans>>

Dispatch ==
    /\ run = "received"
    /\ processing_requests' =
         [m \in Messages |-> IF m \in NewMessages THEN "sent"
                             ELSE processing_requests[m]]
    /\ poll_delay' = PollDelay(backpressure_counter)
    /\ messages' = {}
    /\ run' = "top"
    /\ UNCHANGED <<queue, bucket, backpressure_counter, life, orphans, faults>>

-----------------------------------------------------------------------------
(* The model handle: await response.                                       *)
HandleStep(m, from, to) ==
    /\ processing_requests[m] = from
    /\ GoTo(m, to)
    /\ UNCHANGED <<queue, bucket, run, messages, backpressure_counter,
                   poll_delay, life, orphans>>

Admit(m) == HandleHasRoom /\ HandleStep(m, "sent", "queued") /\ UNCHANGED faults
Reject(m) == ~HandleHasRoom /\ HandleStep(m, "sent", "rejected") /\ UNCHANGED faults
Assign(m) == SlotFree /\ HandleStep(m, "queued", "running") /\ UNCHANGED faults

Generate(m) == /\ m \notin Poison
               /\ HandleStep(m, "running", "uploading")
               /\ UNCHANGED faults
EmptyPrompt(m) == /\ m \in Poison
                  /\ HandleStep(m, "running", "failed")
                  /\ UNCHANGED faults
GenerateFails(m) == HandleStep(m, "running", "failed") /\ Strike("model")

OrphanDone ==
    /\ orphans > 0
    /\ orphans' = orphans - 1
    /\ UNCHANGED <<queue, bucket, pollerVars, life, faults>>

-----------------------------------------------------------------------------
(* _upload_to_s3 in its thread, then the rest of process_finished_request. *)
Upload(m) ==
    /\ processing_requests[m] = "uploading"
    /\ bucket' = bucket \cup {m}
    /\ GoTo(m, "uploaded")
    /\ UNCHANGED <<queue, run, messages, backpressure_counter, poll_delay,
                   life, orphans, faults>>

\* Mutant of UploadFails: the helper swallows the error.
UploadFailsSilently(m) ==
    /\ processing_requests[m] = "uploading"
    /\ Strike("upload")
    /\ GoTo(m, "uploaded")
    /\ UNCHANGED <<queue, bucket, run, messages, backpressure_counter,
                   poll_delay, life, orphans>>

\* A failed put may still have landed.
UploadFails(m) ==
    /\ processing_requests[m] = "uploading"
    /\ Strike("upload")
    /\ bucket' \in {bucket, bucket \cup {m}}
    /\ GoTo(m, "failed")
    /\ UNCHANGED <<queue, run, messages, backpressure_counter, poll_delay,
                   life, orphans>>

FinishSucceeded(m) ==
    /\ processing_requests[m] = "uploaded"
    /\ backpressure_counter' = 0
    /\ queue' = [queue EXCEPT ![m] = "deleted"]
    /\ GoTo(m, "none")
    /\ UNCHANGED <<bucket, run, messages, poll_delay, life, orphans, faults>>

\* delete() raises: the counter is reset already and finally still runs.
DeleteFails(m) ==
    /\ processing_requests[m] = "uploaded"
    /\ Strike("delete")
    /\ backpressure_counter' = 0
    /\ queue' \in {queue, [queue EXCEPT ![m] = "deleted"]}
    /\ GoTo(m, "none")
    /\ UNCHANGED <<bucket, run, messages, poll_delay, life, orphans>>

\* Mutants of FinishRejected: the delete moved into finally; no finally.
FinishRejectedDeletes(m) ==
    /\ processing_requests[m] = "rejected"
    /\ queue' = [queue EXCEPT ![m] = "deleted"]
    /\ GoTo(m, "none")
    /\ UNCHANGED <<bucket, run, messages, backpressure_counter, poll_delay,
                   life, orphans, faults>>

FinishRejectedLeaks(m) ==
    /\ processing_requests[m] = "rejected"
    /\ backpressure_counter' = CounterCap
    /\ UNCHANGED <<queue, bucket, processing_requests, run, messages,
                   poll_delay, life, orphans, faults>>

FinishRejected(m) ==
    /\ processing_requests[m] = "rejected"
    /\ backpressure_counter' = IF backpressure_counter < CounterCap
                               THEN backpressure_counter + 1
                               ELSE backpressure_counter
    /\ GoTo(m, "none")
    /\ UNCHANGED <<queue, bucket, run, messages, poll_delay, life, orphans,
                   faults>>

\* Mutant of FinishFailed: no finally.
FinishFailedLeaks(m) == processing_requests[m] = "failed" /\ UNCHANGED vars

FinishFailed(m) ==
    /\ processing_requests[m] = "failed"
    /\ GoTo(m, "none")
    /\ UNCHANGED <<queue, bucket, run, messages, backpressure_counter,
                   poll_delay, life, orphans, faults>>

-----------------------------------------------------------------------------
(* The life of the replica: Serve awaits __del__, then replaces it.        *)
Shutdown ==
    /\ life = "up"
    /\ Strike("redeploy")
    /\ life' = "draining"
    /\ UNCHANGED <<queue, bucket, pollerVars, orphans>>

DrainDone ==
    /\ life = "draining"
    /\ InFlight = {}
    /\ life' = "drained"
    /\ UNCHANGED <<queue, bucket, pollerVars, orphans, faults>>

Replace ==
    /\ life = "drained"
    /\ FreshPoller
    /\ UNCHANGED <<queue, bucket, faults>>

Crash ==
    /\ Strike("crash")
    /\ FreshPoller
    /\ UNCHANGED <<queue, bucket>>

-----------------------------------------------------------------------------
TaskStep(m) == \/ Admit(m) \/ Reject(m)
               \/ Generate(m) \/ EmptyPrompt(m)
               \/ Upload(m)
               \/ FinishSucceeded(m) \/ FinishRejected(m) \/ FinishFailed(m)

TaskFault(m) == GenerateFails(m) \/ UploadFails(m) \/ DeleteFails(m)

Next ==
    \/ \E m \in Messages : \/ Produce(m) \/ VisibilityTimeout(m)
                           \/ TaskStep(m) \/ Assign(m) \/ TaskFault(m)
    \/ LoopTop \/ ReceiveFails \/ Dispatch
    \/ \E S \in SUBSET Messages : Receive(S)
    \/ OrphanDone
    \/ Shutdown \/ DrainDone \/ Replace \/ Crash

Spec == Init /\ [][Next]_vars

(* The event loop runs every ready task, the executor every submitted      *)
(* call; Serve replaces a drained replica; a model request ends; a hidden  *)
(* message reappears.  A slot that keeps becoming free reaches every       *)
(* queued request and a message that keeps being visible is received: both *)
(* need strong fairness because others compete.  No producer is forced to  *)
(* send and no disruption to strike.                                       *)
Fairness ==
    /\ WF_vars(LoopTop) /\ WF_vars(Dispatch)
    /\ WF_vars(\E S \in SUBSET Messages : Receive(S))
    /\ WF_vars(OrphanDone)
    /\ WF_vars(DrainDone) /\ WF_vars(Replace)
    /\ \A m \in Messages :
         /\ WF_vars(VisibilityTimeout(m))
         /\ WF_vars(TaskStep(m))
         /\ SF_vars(Assign(m))
         /\ SF_vars(\E S \in SUBSET Messages : m \in S /\ Receive(S))

FairSpec == Spec /\ Fairness
-----------------------------------------------------------------------------
(* Properties.                                                             *)

QueueStates == {"absent", "visible", "invisible", "deleted"}
RunStates == {"top", "receiving", "received", "exited", "crashed"}

\* Every variable has its type, and a batch is no larger than one
\* receive_messages call may make it (poller.py:78).
TypeOK ==
    /\ queue \in [Messages -> QueueStates]
    /\ bucket \subseteq Messages
    /\ processing_requests \in [Messages -> Phases \cup {"none"}]
    /\ run \in RunStates
    /\ messages \subseteq Messages
    /\ Cardinality(messages) <= MaxMessages
    /\ backpressure_counter \in 0..CounterCap
    /\ poll_delay \in {PollDelay(c) : c \in 0..CounterCap}
    /\ life \in {"up", "draining", "drained"}
    /\ orphans \in Nat
    /\ faults \in 0..MaxFaults

\* A message is gone from the queue only when its image is in the bucket,
\* whatever crashes, failed uploads, failed deletes and redeliveries came
\* between (poller.py:103, "upload it, and only then delete the message").
DeletedOnlyAfterStored ==
    \A m \in Messages : queue[m] = "deleted" => m \in bucket

\* While a message is in flight, a redelivery of it never starts it again in
\* the same poller: its task only moves forward (poller.py:13, "in-flight
\* message ids are tracked and a repeat is skipped").
InFlightForwardedOnce ==
    [][\A m \in InFlight : processing_requests'[m] = "sent"
                             => processing_requests[m] = "sent"]_vars

\* The poller keeps the promise of AtLeastOnce (poller.py:11).
ALO == INSTANCE AtLeastOnce WITH
         accepted <- {m \in Messages : queue[m] # "absent"},
         results  <- bucket,
         retired  <- {m \in Messages : queue[m] = "deleted"}
Consumes == ALO!Spec

\* Every message with a prompt that reaches the queue is eventually stored and
\* deleted, although requests are rejected for want of room and pollers are
\* killed or replaced halfway (poller.py:11).
EveryMessageCompletes ==
    \A m \in Messages \ Poison :
        queue[m] = "visible" ~> (queue[m] = "deleted" /\ m \in bucket)

\* A redeploy does not hang in the drain: each in-flight task leaves the dict
\* even if it fails or is rejected (poller.py:118 finally, 142).
DrainEnds == life = "draining" ~> life # "draining"

\* Stated by poller.py:13-14, "a repeat is skipped rather than processed
\* twice": a message deleted from the queue is not forwarded again.
NoWorkAfterDelete ==
    [][\A m \in Messages : queue[m] = "deleted" /\ processing_requests[m] = "none"
                             => processing_requests'[m] = "none"]_vars
=============================================================================

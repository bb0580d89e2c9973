----------------------------- MODULE LoadTest ------------------------------
(***************************************************************************)
(* llm/engine/load_test.py: total_requests coroutines stream completions,  *)
(* `concurrency` of them at a time, and keep the figures of the test.  A   *)
(* request goes through the client library, which retries what failed      *)
(* before the response began, and through the Serve handle of the LLM app: *)
(* a queue, unlimited unless max_queued_requests is set (MaxQueued >=      *)
(* Concurrency is as good), in front of slots.  The library, the handle    *)
(* and the engine are external.                                            *)
(***************************************************************************)
EXTENDS Integers, FiniteSets

CONSTANTS
    Requests,           \* the coroutines of gather, total_requests of them
    Concurrency,        \* concurrency
    MaxTokens,          \* max_tokens
    MaxRetries,         \* max_retries of the client library (2)
    Slots,              \* requests that run at once, on all replicas
    MaxQueued,          \* what the queue of the handle holds
    MaxFaults           \* bound: connections and streams that break

ASSUME RequestsAssumption == IsFiniteSet(Requests)
ASSUME SizesAssumption == /\ Concurrency \in Nat \ {0} /\ MaxTokens \in Nat
                          /\ Slots \in Nat \ {0} /\ MaxQueued \in Nat \ {0}
ASSUME LimitsAssumption == MaxRetries \in Nat /\ MaxFaults \in Nat

VARIABLES
    one,                \* per request: where its coroutine is
    tokens,             \* per request: content chunks so far
    attempts,           \* per request: attempts of the client library so far
    semaphore,          \* permits left
    ttfts_ms,           \* how many values the list holds
    tpots_ms,           \* how many values the list holds
    total_tokens,
    errors,
    orphans,            \* streams the server still generates for nobody
    faults

figures == <<ttfts_ms, tpots_ms, total_tokens, errors>>
vars == <<one, tokens, attempts, semaphore, figures, orphans, faults>>

-----------------------------------------------------------------------------
(* A coroutine is "waiting" for a permit, inside create ("sent" to the     *)
(* handle, "queued" in it, "running" on a replica but with no response     *)
(* yet), "streaming", or over: "recorded" or "failed".                     *)
At(phase) == {r \in Requests : one[r] = phase}
Inside == {"sent", "queued", "running", "streaming"}
InFlight == {r \in Requests : one[r] \in Inside}
Busy == Cardinality(At("running") \cup At("streaming")) + orphans

Strike == faults < MaxFaults /\ faults' = faults + 1

Init ==
    /\ one = [r \in Requests |-> "waiting"]
    /\ tokens = [r \in Requests |-> 0]
    /\ attempts = [r \in Requests |-> 0]
    /\ semaphore = Concurrency
    /\ ttfts_ms = 0 /\ tpots_ms = 0 /\ total_tokens = 0 /\ errors = 0
    /\ orphans = 0
    /\ faults = 0

-----------------------------------------------------------------------------
(* The coroutine.                                                          *)
\* Mutant of Permit: the semaphore is made but never entered.
NoPermit == UNCHANGED semaphore

\* async with semaphore: one permit less, if there is one.
Permit == semaphore > 0 /\ semaphore' = semaphore - 1

\* The request starts: create sends it.
Enter(r) ==
    /\ one[r] = "waiting"
    /\ Permit
    /\ one' = [one EXCEPT ![r] = "sent"]
    /\ attempts' = [attempts EXCEPT ![r] = 1]
    /\ UNCHANGED <<tokens, figures, orphans, faults>>

\* Mutant of Leave: an exception leaves the block without the permit.
LeaveUnlessFailed(r, outcome) ==
    /\ one' = [one EXCEPT ![r] = outcome]
    /\ semaphore' = IF outcome = "failed" THEN semaphore ELSE semaphore + 1

\* Mutant of Leave: an except that releases what the block releases again.
LeaveTwiceIfFailed(r, outcome) ==
    /\ one' = [one EXCEPT ![r] = outcome]
    /\ semaphore' = IF outcome = "failed" THEN semaphore + 2 ELSE semaphore + 1

\* The coroutine ends and its permit is free.
Leave(r, outcome) ==
    /\ one' = [one EXCEPT ![r] = outcome]
    /\ semaphore' = semaphore + 1

\* Mutant of Content: tokens are added to the total as they come.
ContentCounted(r) ==
    /\ tokens' = [tokens EXCEPT ![r] = @ + 1]
    /\ total_tokens' = total_tokens + 1
    /\ UNCHANGED <<ttfts_ms, tpots_ms, errors>>

\* A chunk with content counts for this request alone.
Content(r) ==
    /\ tokens' = [tokens EXCEPT ![r] = @ + 1]
    /\ UNCHANGED figures

\* A chunk arrives; the first one also ends create.  It may have no content.
Chunk(r) ==
    /\ one[r] \in {"running", "streaming"}
    /\ one' = [one EXCEPT ![r] = "streaming"]
    /\ \/ tokens[r] < MaxTokens /\ Content(r)
       \/ one[r] = "running" /\ UNCHANGED <<tokens, figures>>
    /\ UNCHANGED <<attempts, semaphore, orphans, faults>>

\* Mutant of EndOfStream: the gaps are divided by whatever their number is; the
\* one token of a short answer raises when its latency is already in the list.
EndOfStreamDividing(r) ==
    /\ one[r] = "streaming"
    /\ ttfts_ms' = ttfts_ms + 1
    /\ total_tokens' = total_tokens + tokens[r]
    /\ tpots_ms' = IF tokens[r] = 1 THEN tpots_ms ELSE tpots_ms + 1
    /\ errors' = IF tokens[r] = 1 THEN errors + 1 ELSE errors
    /\ Leave(r, "recorded")
    /\ UNCHANGED <<tokens, attempts, orphans, faults>>

\* The stream ends: a latency (ttft, or the total time if no token landed), its
\* tokens, and the gap between them if there were two.
EndOfStream(r) ==
    /\ one[r] = "streaming"
    /\ ttfts_ms' = ttfts_ms + 1
    /\ total_tokens' = total_tokens + tokens[r]
    /\ tpots_ms' = IF tokens[r] > 1 THEN tpots_ms + 1 ELSE tpots_ms
    /\ Leave(r, "recorded")
    /\ UNCHANGED <<tokens, attempts, errors, orphans, faults>>

\* except Exception: one error more and nothing else.
Fail(r) ==
    /\ errors' = errors + 1
    /\ Leave(r, "failed")
    /\ UNCHANGED <<tokens, ttfts_ms, tpots_ms, total_tokens>>

-----------------------------------------------------------------------------
(* The client library, the handle and the replicas.                        *)
\* An attempt fails before the response began: the library sends the request
\* again, or raises when its retries are used up.
AttemptFails(r) ==
    \/ /\ attempts[r] <= MaxRetries
       /\ attempts' = [attempts EXCEPT ![r] = @ + 1]
       /\ one' = [one EXCEPT ![r] = "sent"]
       /\ UNCHANGED <<tokens, figures, semaphore>>
    \/ /\ attempts[r] > MaxRetries
       /\ Fail(r)
       /\ UNCHANGED attempts

HasRoom == Cardinality(At("queued")) < MaxQueued

\* The handle takes the request into its queue, whatever slots are free.
Admitted(r) ==
    /\ one[r] = "sent" /\ HasRoom
    /\ one' = [one EXCEPT ![r] = "queued"]
    /\ UNCHANGED <<tokens, attempts, semaphore, figures, orphans, faults>>

\* The queue is full: BackPressureError, 503 at the proxy.
Rejected(r) ==
    /\ one[r] = "sent" /\ ~HasRoom
    /\ AttemptFails(r)
    /\ UNCHANGED <<orphans, faults>>

Assigned(r) ==
    /\ one[r] = "queued" /\ Busy < Slots
    /\ one' = [one EXCEPT ![r] = "running"]
    /\ UNCHANGED <<tokens, attempts, semaphore, figures, orphans, faults>>

\* The connection or the engine breaks; what runs may run on for nobody.
ConnectionLost(r) ==
    /\ Strike
    /\ \/ one[r] \in {"sent", "queued"} /\ UNCHANGED orphans
       \/ one[r] = "running" /\ orphans' \in {orphans, orphans + 1}
    /\ AttemptFails(r)

StreamBreaks(r) ==
    /\ one[r] = "streaming"
    /\ Strike
    /\ orphans' \in {orphans, orphans + 1}
    /\ Fail(r)
    /\ UNCHANGED attempts

OrphanEnds ==
    /\ orphans > 0
    /\ orphans' = orphans - 1
    /\ UNCHANGED <<one, tokens, attempts, semaphore, figures, faults>>

-----------------------------------------------------------------------------
Step(r) == Enter(r) \/ Admitted(r) \/ Rejected(r) \/ Chunk(r) \/ EndOfStream(r)

Next ==
    \/ \E r \in Requests : \/ Step(r) \/ Assigned(r)
                           \/ ConnectionLost(r) \/ StreamBreaks(r)
    \/ OrphanEnds

Spec == Init /\ [][Next]_vars

\* asyncio.Semaphore and the handle serve their waiters in turn; a generation
\* ends, by max_tokens if by nothing else.
FairSpec ==
    /\ Spec
    /\ WF_vars(OrphanEnds)
    /\ \A r \in Requests : /\ SF_vars(Enter(r)) /\ SF_vars(Assigned(r))
                           /\ WF_vars(Admitted(r) \/ Rejected(r))
                           /\ WF_vars(Chunk(r) \/ EndOfStream(r))

-----------------------------------------------------------------------------
(* Properties.                                                             *)
Phases == {"waiting", "recorded", "failed"} \cup Inside

\* Every variable has its type; no request is tried more often than the library
\* may, no stream is longer than max_tokens.
TypeOK ==
    /\ one \in [Requests -> Phases]
    /\ tokens \in [Requests -> 0..MaxTokens]
    /\ attempts \in [Requests -> 0..(MaxRetries + 1)]
    /\ semaphore \in 0..Concurrency
    /\ ttfts_ms \in Nat /\ tpots_ms \in Nat /\ total_tokens \in Nat /\ errors \in Nat
    /\ orphans \in 0..MaxFaults /\ faults \in 0..MaxFaults

\* Every permit is free or with one request under way, however requests end: no
\* more than `concurrency` are in flight, and no failure makes the rest of the
\* test slower than it was asked to be (load_test.py:78).
PermitsAccounted == semaphore + Cardinality(InFlight) = Concurrency

Over == \A r \in Requests : one[r] \in {"recorded", "failed"}

ok == Cardinality(Requests) - errors

\* As many latencies as there are good requests, gaps of those with two tokens,
\* and everything else is an error.
CountsAgree ==
    /\ errors = Cardinality(At("failed"))
    /\ ttfts_ms = Cardinality(At("recorded"))
    /\ tpots_ms = Cardinality({r \in At("recorded") : tokens[r] > 1})
    /\ Over => ttfts_ms = ok

\* The tokens of the streams that ended, each by its place in its stream.
Received == {chunk \in At("recorded") \X (1..MaxTokens) : chunk[2] <= tokens[chunk[1]]}

\* All figures of the result are about the same requests, and its throughput counts
\* the tokens of streams that ended and of no stream that broke
\* (load_test.py:80-97).
FiguresAgree == CountsAgree /\ total_tokens = Cardinality(Received)

\* What the library sent again, each by its number among the attempts.
Retries == {try \in Requests \X (2..(MaxRetries + 1)) : try[2] <= attempts[try[1]]}

\* The test brings no failure on itself: as long as the queue holds `concurrency`
\* requests, as the unlimited one of the LLM app does, every request that was sent
\* again and every error is one connection or stream that broke, and none is two of
\* them, however many ended badly before (load_test.py:78-88).
OnlyFaultsFail == MaxQueued >= Concurrency => Cardinality(Retries) + errors = faults

\* The test ends, whatever is rejected, retried or broken (load_test.py:91).
TestEnds == <>[]Over
=============================================================================

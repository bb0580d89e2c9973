---------------------------- MODULE Composition ----------------------------
(***************************************************************************)
(* llm/composition: an ingress that answers from a table what Triage finds *)
(* there and escalates the rest to an LLM deployment, as one body (/ask)   *)
(* or as server-sent events (/ask/stream).  The engine, its batching       *)
(* window and the connection to the client are external.  A chunk of a     *)
(* generated answer is known by its number, an answer from the table by    *)
(* its key.                                                                *)
(***************************************************************************)
EXTENDS Integers, Sequences, SequencesExt

CONSTANTS
    Requests,
    Streaming,          \* those made to /ask/stream
    FAQ,                \* the keys of the table, in its order
    Mentions,           \* [Requests -> keys that occur in the lowered text]
    MaxChunks,          \* bound: chunks of a generated answer (max_tokens)
    MaxFaults           \* bound: failing calls, engine errors and disconnects

NoHit == "none"     \* no key of the table

ASSUME RequestsAssumption == Streaming \subseteq Requests
ASSUME FAQAssumption == FAQ \in Seq(ToSet(FAQ)) /\ NoHit \notin ToSet(FAQ)
ASSUME MentionsAssumption == Mentions \in [Requests -> SUBSET ToSet(FAQ)]
ASSUME BoundsAssumption == MaxChunks \in Nat /\ MaxFaults \in Nat

VARIABLES
    phase,              \* per request: where its handler is
    sent,               \* per request: what its client received
    made,               \* per request: chunks the engine generated
    passed,             \* per request: chunks the engine's stream handed out
    engine,             \* per request: "idle", "busy", "stop", "error", "aborted"
    faults

vars == <<phase, sent, made, passed, engine, faults>>

DONE == <<"DONE">>
Packet(key) == <<"packet", key>>
Chunks(from, to) == [i \in 1..(to - from) |-> <<"chunk", from + i>>]

Strike == faults < MaxFaults /\ faults' = faults + 1

Init ==
    /\ phase = [q \in Requests |-> "new"]
    /\ sent = [q \in Requests |-> <<>>]
    /\ made = [q \in Requests |-> 0]
    /\ passed = [q \in Requests |-> 0]
    /\ engine = [q \in Requests |-> "idle"]
    /\ faults = 0

\* What a client receives next, and where that leaves the handler.
Send(q, items, next) ==
    /\ sent' = [sent EXCEPT ![q] = @ \o items]
    /\ phase' = [phase EXCEPT ![q] = next]

-----------------------------------------------------------------------------
\* The first key of the table that occurs in the text.
route(q) ==
    LET hit == SelectInSeq(FAQ, LAMBDA key : key \in Mentions[q])
    IN  IF hit = 0 THEN NoHit ELSE FAQ[hit]

Ask(q) ==
    /\ phase[q] = "new"
    /\ phase' = [phase EXCEPT ![q] = "triage"]
    /\ UNCHANGED <<sent, made, passed, engine, faults>>

\* Triage found the answer: one body, or the packet of a stream.
Hit(q) ==
    /\ phase[q] = "triage" /\ route(q) # NoHit
    /\ Send(q, <<Packet(route(q))>>, IF q \in Streaming THEN "packet sent" ELSE "done")
    /\ UNCHANGED <<made, passed, engine, faults>>

HitDone(q) ==
    /\ phase[q] = "packet sent"
    /\ Send(q, <<DONE>>, "done")
    /\ UNCHANGED <<made, passed, engine, faults>>

\* The call to Triage raises, its replica is gone: status 500 on both endpoints, and
\* the stream of /ask/stream is never begun.
TriageFails(q) ==
    /\ phase[q] = "triage"
    /\ Strike
    /\ Send(q, <<>>, "failed")
    /\ UNCHANGED <<made, passed, engine>>

Escalate(q) ==
    /\ phase[q] = "triage" /\ route(q) = NoHit
    /\ phase' = [phase EXCEPT ![q] = "escalated"]
    /\ engine' = [engine EXCEPT ![q] = "busy"]
    /\ UNCHANGED <<sent, made, passed, faults>>

\* /ask: the one response of the engine is the body.
Body(q) ==
    /\ phase[q] = "escalated" /\ q \notin Streaming
    /\ engine[q] = "stop"
    /\ passed' = [passed EXCEPT ![q] = made[q]]
    /\ Send(q, Chunks(0, made[q]), "done")
    /\ UNCHANGED <<made, engine, faults>>

\* Mutant of Window: only the newest chunk of a window is forwarded.
WindowNewest(q) ==
    /\ phase[q] = "escalated" /\ q \in Streaming
    /\ passed[q] < made[q]
    /\ passed' = [passed EXCEPT ![q] = made[q]]
    /\ Send(q, Chunks(made[q] - 1, made[q]), "escalated")
    /\ UNCHANGED <<made, engine, faults>>

\* Mutant of Window: every window brings the whole text so far.
WindowFromStart(q) ==
    /\ phase[q] = "escalated" /\ q \in Streaming
    /\ passed[q] < made[q]
    /\ passed' = [passed EXCEPT ![q] = made[q]]
    /\ Send(q, Chunks(0, made[q]), "escalated")
    /\ UNCHANGED <<made, engine, faults>>

\* sse: the chunks of one batching window, joined.
Window(q) ==
    /\ phase[q] = "escalated" /\ q \in Streaming
    /\ passed[q] < made[q]
    /\ passed' = [passed EXCEPT ![q] = made[q]]
    /\ Send(q, Chunks(passed[q], made[q]), "escalated")
    /\ UNCHANGED <<made, engine, faults>>

\* Mutant of MarkDone: the marker is sent in a finally.
MarkDoneAlways(q) ==
    /\ phase[q] = "escalated" /\ q \in Streaming
    /\ engine[q] \in {"stop", "error"} /\ passed[q] = made[q]
    /\ Send(q, <<DONE>>, "done")
    /\ UNCHANGED <<made, passed, engine, faults>>

\* sse: the loop over the engine's stream is over.
MarkDone(q) ==
    /\ phase[q] = "escalated" /\ q \in Streaming
    /\ engine[q] = "stop" /\ passed[q] = made[q]
    /\ Send(q, <<DONE>>, "done")
    /\ UNCHANGED <<made, passed, engine, faults>>

\* Mutant of Broken: a stream swallows the error and stays open.
BrokenSilently(q) ==
    /\ phase[q] = "escalated" /\ q \notin Streaming
    /\ engine[q] = "error"
    /\ Send(q, <<>>, "failed")
    /\ UNCHANGED <<made, passed, engine, faults>>

\* The engine's error comes out of the loop: status 500, or a stream that breaks
\* off, with what was in the last window or without.
Broken(q) ==
    /\ phase[q] = "escalated"
    /\ engine[q] = "error"
    /\ Send(q, <<>>, "failed")
    /\ UNCHANGED <<made, passed, engine, faults>>

-----------------------------------------------------------------------------
(* The engine and the client.                                              *)
Generate(q) ==
    /\ engine[q] = "busy"
    /\ made[q] < MaxChunks
    /\ made' = [made EXCEPT ![q] = @ + 1]
    /\ UNCHANGED <<phase, sent, passed, engine, faults>>

Stop(q) ==
    /\ engine[q] = "busy"
    /\ engine' = [engine EXCEPT ![q] = "stop"]
    /\ UNCHANGED <<phase, sent, made, passed, faults>>

EngineFails(q) ==
    /\ engine[q] = "busy"
    /\ Strike
    /\ engine' = [engine EXCEPT ![q] = "error"]
    /\ UNCHANGED <<phase, sent, made, passed>>

Open(q) == phase[q] \in {"triage", "packet sent", "escalated"}

\* The client hangs up: the handler is cancelled, and its call to the engine.
Disconnect(q) ==
    /\ Open(q)
    /\ Strike
    /\ phase' = [phase EXCEPT ![q] = "gone"]
    /\ engine' = [engine EXCEPT ![q] = IF @ = "busy" THEN "aborted" ELSE @]
    /\ UNCHANGED <<sent, made, passed>>

-----------------------------------------------------------------------------
HandlerStep(q) == \/ Hit(q) \/ HitDone(q) \/ Escalate(q) \/ Body(q) \/ Window(q)
                  \/ MarkDone(q) \/ Broken(q)

Next == \E q \in Requests : \/ Ask(q) \/ HandlerStep(q) \/ Generate(q) \/ Stop(q)
                            \/ TriageFails(q) \/ EngineFails(q) \/ Disconnect(q)

Spec == Init /\ [][Next]_vars

\* Handlers run, and the engine ends every generation.
FairSpec == /\ Spec
            /\ \A q \in Requests : WF_vars(HandlerStep(q)) /\ WF_vars(Stop(q))

-----------------------------------------------------------------------------
(* Properties.                                                             *)
FromTable(q) == Mentions[q] # {}

\* What the endpoint owes a client, as far as it exists: the answer to the first
\* key of the table that the text is about, or what the engine generates.
Answer(q) ==
    IF FromTable(q)
    THEN LET first == CHOOSE i \in DOMAIN FAQ :
                        /\ FAQ[i] \in Mentions[q]
                        /\ \A k \in 1..(i - 1) : FAQ[k] \notin Mentions[q]
         IN  <<Packet(FAQ[first])>>
    ELSE Chunks(0, made[q])

\* Every variable has its type, and no stream runs ahead of its engine.
TypeOK ==
    /\ phase \in [Requests -> {"new", "triage", "packet sent", "escalated", "done",
                               "failed", "gone"}]
    /\ \A q \in Requests : /\ made[q] \in 0..MaxChunks /\ passed[q] \in 0..made[q]
                          /\ Len(sent[q]) <= MaxChunks + 2
    /\ engine \in [Requests -> {"idle", "busy", "stop", "error", "aborted"}]
    /\ faults \in 0..MaxFaults

\* A client receives its own answer from the start, in order, nothing left out and
\* nothing twice, however the engine's windows fall (app.py:121-127), and after it
\* at most the marker.
InOrder == \A q \in Requests : IsPrefix(sent[q], Answer(q) \o <<DONE>>)

\* One contract for both branches (app.py:64-65): a stream is marked done if and
\* only if it ended well, once, after the whole answer; one that the engine's
\* error broke off is not.
DoneMeansWhole ==
    \A q \in Streaming :
      /\ DONE \in ToSet(sent[q]) => /\ sent[q] = Answer(q) \o <<DONE>>
                                    /\ FromTable(q) \/ engine[q] = "stop"
      /\ phase[q] = "done" => DONE \in ToSet(sent[q])

\* Every question ends for its client, also when a call of its handler fails.
EveryAskEnds ==
    \A q \in Requests : phase[q] = "triage" ~> phase[q] \in {"done", "failed", "gone"}
=============================================================================

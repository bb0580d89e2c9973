-------------------------- MODULE LoadTest_proofs ---------------------------
(***************************************************************************)
(* What LoadTest guarantees for every number of requests, permits, tokens, *)
(* retries, slots and faults.                                              *)
(***************************************************************************)
EXTENDS LoadTest, FiniteSetTheorems, TLAPS

USE RequestsAssumption, SizesAssumption, LimitsAssumption

\* The requests in a phase, or in flight, can be counted.
LEMMA Countable ==
    ASSUME NEW S \in SUBSET Requests
    PROVE  IsFiniteSet(S) /\ Cardinality(S) \in Nat
BY FS_Subset, FS_CardinalityType

\* A request that comes in, or goes, changes the count by one.
LEMMA CountOneMore ==
    ASSUME NEW S \in SUBSET Requests, NEW r \in Requests, r \notin S
    PROVE  Cardinality(S \cup {r}) = Cardinality(S) + 1
BY Countable, FS_AddElement

LEMMA CountOneLess ==
    ASSUME NEW S \in SUBSET Requests, NEW r \in S
    PROVE  /\ Cardinality(S \ {r}) = Cardinality(S) - 1
           /\ Cardinality(S) > 0
<1>1. IsFiniteSet(S) /\ Cardinality(S) \in Nat
  BY Countable
<1>2. Cardinality(S \ {r}) = Cardinality(S) - 1
  BY <1>1, FS_RemoveElement
<1>3. Cardinality(S \ {r}) \in Nat
  BY Countable
<1>4. QED
  BY <1>1, <1>2, <1>3

\* Sets of requests with nothing in common are counted apart.
LEMMA CountApart ==
    ASSUME NEW S \in SUBSET Requests, NEW T \in SUBSET Requests, S \cap T = {}
    PROVE  Cardinality(S \cup T) = Cardinality(S) + Cardinality(T)
<1>1. IsFiniteSet(S) /\ IsFiniteSet(T) /\ Cardinality(S) \in Nat /\ Cardinality(T) \in Nat
  BY Countable
<1>2. Cardinality(S \cup T) = Cardinality(S) + Cardinality(T) - Cardinality(S \cap T)
  BY <1>1, FS_Union
<1>3. Cardinality(S \cap T) = 0
  BY FS_EmptySet
<1>4. QED
  BY <1>1, <1>2, <1>3

-----------------------------------------------------------------------------
\* The semaphore is typed because its permits are accounted for, and the server
\* runs for nobody at most what broke.
IInv == TypeOK /\ PermitsAccounted /\ orphans <= faults

LEMMA InitIInv == Init => IInv
<1> SUFFICES ASSUME Init PROVE IInv
  OBVIOUS
<1>1. InFlight = {}
  BY DEF Init, InFlight, Inside
<1>2. Cardinality(InFlight) = 0
  BY <1>1, FS_EmptySet
<1>3. TypeOK
  BY DEF Init, TypeOK, Phases, Inside
<1>4. QED
  BY <1>2, <1>3 DEF Init, IInv, PermitsAccounted

\* A request that stays in flight, or out of it, moves no permit.
LEMMA SameFlight ==
    ASSUME PermitsAccounted, NEW r \in Requests, NEW phase,
           one' = [one EXCEPT ![r] = phase], UNCHANGED semaphore,
           one \in [Requests -> Phases], one[r] \in Inside, phase \in Inside
    PROVE  PermitsAccounted'
<1>1. InFlight' = InFlight
  BY DEF InFlight, Inside
<1>2. QED
  BY <1>1 DEF PermitsAccounted

\* A request that ends frees the permit it had.
LEMMA PermitFreed ==
    ASSUME TypeOK, PermitsAccounted, NEW r \in Requests, NEW outcome \in {"recorded", "failed"},
           one[r] \in Inside, Leave(r, outcome)
    PROVE  PermitsAccounted' /\ semaphore' \in 0..Concurrency
<1>1. InFlight' = InFlight \ {r} /\ r \in InFlight /\ InFlight \subseteq Requests
  BY DEF Leave, InFlight, Inside, TypeOK
<1>2. Cardinality(InFlight') = Cardinality(InFlight) - 1 /\ Cardinality(InFlight) > 0
  BY <1>1, CountOneLess
<1>3. Cardinality(InFlight) \in Nat
  BY <1>1, Countable
<1>4. QED
  BY <1>2, <1>3 DEF PermitsAccounted, Leave, TypeOK

\* A failed attempt keeps the permit for the next one or frees it with the request.
LEMMA AttemptFailsType ==
    ASSUME TypeOK, PermitsAccounted, NEW r \in Requests, one[r] \in Inside,
           AttemptFails(r)
    PROVE  /\ one' \in [Requests -> Phases] /\ tokens' = tokens
           /\ attempts' \in [Requests -> 0..(MaxRetries + 1)]
           /\ semaphore' \in 0..Concurrency /\ PermitsAccounted'
           /\ ttfts_ms' \in Nat /\ tpots_ms' \in Nat /\ total_tokens' \in Nat
           /\ errors' \in Nat
<1>1. CASE attempts[r] <= MaxRetries
  <2>1. /\ attempts' = [attempts EXCEPT ![r] = @ + 1]
        /\ one' = [one EXCEPT ![r] = "sent"]
        /\ UNCHANGED <<tokens, figures, semaphore>>
    BY <1>1 DEF AttemptFails, TypeOK
  <2>2. PermitsAccounted'
    BY <2>1, SameFlight DEF TypeOK, Inside
  <2>3. QED
    BY <1>1, <2>1, <2>2 DEF TypeOK, Phases, Inside, figures
<1>2. CASE attempts[r] > MaxRetries
  <2>1. Fail(r) /\ UNCHANGED attempts
    BY <1>2 DEF AttemptFails, TypeOK
  <2>2. PermitsAccounted' /\ semaphore' \in 0..Concurrency
    BY <2>1, PermitFreed DEF Fail
  <2>3. QED
    BY <2>1, <2>2 DEF Fail, Leave, TypeOK, Phases
<1>3. QED
  BY <1>1, <1>2 DEF TypeOK

LEMMA NextIInv == IInv /\ [Next]_vars => IInv'
<1> SUFFICES ASSUME IInv, [Next]_vars PROVE IInv'
  OBVIOUS
<1> USE DEF IInv
<1>1. ASSUME NEW r \in Requests, Enter(r) PROVE IInv'
  <2>1. /\ InFlight' = InFlight \cup {r} /\ r \notin InFlight
        /\ InFlight \subseteq Requests
    BY <1>1 DEF Enter, InFlight, Inside, TypeOK
  <2>2. Cardinality(InFlight') = Cardinality(InFlight) + 1
    BY <2>1, CountOneMore
  <2>3. Cardinality(InFlight) \in Nat
    BY <2>1, Countable
  <2>4. PermitsAccounted'
    BY <1>1, <2>2, <2>3 DEF Enter, Permit, PermitsAccounted, TypeOK
  <2>5. TypeOK'
    BY <1>1 DEF Enter, Permit, TypeOK, Phases, Inside, figures
  <2>6. QED
    BY <1>1, <2>4, <2>5 DEF Enter
<1>2. ASSUME NEW r \in Requests, Admitted(r) PROVE IInv'
  <2>1. PermitsAccounted'
    BY <1>2, SameFlight DEF Admitted, TypeOK, Inside
  <2>2. QED
    BY <1>2, <2>1 DEF Admitted, TypeOK, Phases, Inside, figures
<1>3. ASSUME NEW r \in Requests, Rejected(r) PROVE IInv'
  <2>1. one[r] \in Inside /\ AttemptFails(r) /\ UNCHANGED <<orphans, faults>>
    BY <1>3 DEF Rejected, Inside
  <2>2. QED
    BY <2>1, AttemptFailsType DEF TypeOK
<1>4. ASSUME NEW r \in Requests, Chunk(r) PROVE IInv'
  <2>1. PermitsAccounted'
    BY <1>4, SameFlight DEF Chunk, TypeOK, Inside
  <2>2. tokens' \in [Requests -> 0..MaxTokens] /\ UNCHANGED figures
    BY <1>4 DEF Chunk, Content, TypeOK
  <2>3. QED
    BY <1>4, <2>1, <2>2 DEF Chunk, TypeOK, Phases, Inside, figures
<1>5. ASSUME NEW r \in Requests, EndOfStream(r) PROVE IInv'
  <2>1. PermitsAccounted' /\ semaphore' \in 0..Concurrency
    BY <1>5, PermitFreed DEF EndOfStream, Inside
  <2>2. one' \in [Requests -> Phases]
    BY <1>5 DEF EndOfStream, Leave, TypeOK, Phases
  <2>3. ttfts_ms' \in Nat /\ tpots_ms' \in Nat /\ total_tokens' \in Nat
    BY <1>5 DEF EndOfStream, TypeOK
  <2>4. QED
    BY <1>5, <2>1, <2>2, <2>3 DEF EndOfStream, TypeOK
<1>6. ASSUME NEW r \in Requests, Assigned(r) PROVE IInv'
  <2>1. PermitsAccounted'
    BY <1>6, SameFlight DEF Assigned, TypeOK, Inside
  <2>2. QED
    BY <1>6, <2>1 DEF Assigned, TypeOK, Phases, Inside, figures
<1>7. ASSUME NEW r \in Requests, ConnectionLost(r) PROVE IInv'
  <2>1. one[r] \in Inside /\ AttemptFails(r)
    BY <1>7 DEF ConnectionLost, Inside
  <2>2. /\ faults' = faults + 1 /\ faults' \in 0..MaxFaults
        /\ orphans' \in {orphans, orphans + 1}
    BY <1>7 DEF ConnectionLost, Strike, TypeOK
  <2>3. QED
    BY <2>1, <2>2, AttemptFailsType DEF TypeOK
<1>8. ASSUME NEW r \in Requests, StreamBreaks(r) PROVE IInv'
  <2>1. PermitsAccounted' /\ semaphore' \in 0..Concurrency
    BY <1>8, PermitFreed DEF StreamBreaks, Fail, Inside
  <2>2. /\ faults' = faults + 1 /\ faults' \in 0..MaxFaults
        /\ orphans' \in {orphans, orphans + 1}
    BY <1>8 DEF StreamBreaks, Strike, TypeOK
  <2>3. QED
    BY <1>8, <2>1, <2>2 DEF StreamBreaks, Fail, Leave, TypeOK, Phases
<1>9. CASE OrphanEnds
  <2>1. UNCHANGED <<one, semaphore>> /\ InFlight' = InFlight
    BY <1>9 DEF OrphanEnds, InFlight
  <2>2. QED
    BY <1>9, <2>1 DEF OrphanEnds, TypeOK, PermitsAccounted, figures
<1>10. CASE UNCHANGED vars
  BY <1>10 DEF vars, figures, TypeOK, PermitsAccounted, InFlight
<1>11. QED
  BY <1>1, <1>2, <1>3, <1>4, <1>5, <1>6, <1>7, <1>8, <1>9, <1>10 DEF Next, Step

LEMMA Invariance == Spec => []IInv
BY InitIInv, NextIInv, PTL DEF Spec

\* Every variable has its type; no request is tried more often than the library
\* may, no stream is longer than max_tokens.
THEOREM LoadTestTyped == Spec => []TypeOK
<1>1. IInv => TypeOK
  BY DEF IInv
<1>2. QED
  BY <1>1, Invariance, PTL

\* Every permit is free or with one request under way, however requests end
\* (load_test.py:78).
THEOREM Permits == Spec => []PermitsAccounted
<1>1. IInv => PermitsAccounted
  BY DEF IInv
<1>2. QED
  BY <1>1, Invariance, PTL

-----------------------------------------------------------------------------
(* The counts: each step moves at most one request into one of the sets    *)
(* that are counted, and adds one to the figure that counts it.            *)
Recorded == At("recorded")
Failed == At("failed")
Gapped == {r \in Recorded : tokens[r] > 1}

Counts ==
    /\ errors = Cardinality(Failed) /\ ttfts_ms = Cardinality(Recorded)
    /\ tpots_ms = Cardinality(Gapped) /\ total_tokens = Cardinality(Received)

LEMMA SetsTyped == Recorded \subseteq Requests /\ Failed \subseteq Requests
                     /\ Gapped \subseteq Requests
BY DEF Recorded, Failed, Gapped, At

\* The tokens one request received are counted by their number.
LEMMA TokensOfOne ==
    ASSUME NEW r, NEW n \in Nat
    PROVE  IsFiniteSet({r} \X (1..n)) /\ Cardinality({r} \X (1..n)) = n
<1> DEFINE f == [i \in 1..n |-> <<r, i>>]
<1>1. f \in Injection(1..n, {r} \X (1..n))
  BY DEF Injection, IsInjective
<1>2. \A t \in {r} \X (1..n) : t[2] \in 1..n /\ f[t[2]] = t
  OBVIOUS
<1>3. f \in Bijection(1..n, {r} \X (1..n))
  BY <1>1, <1>2 DEF Bijection, Injection, Surjection
<1>4. ExistsBijection(1..n, {r} \X (1..n))
  BY <1>3 DEF ExistsBijection
<1>5. IsFiniteSet(1..n) /\ Cardinality(1..n) = n
  BY FS_Interval
<1>6. QED
  BY <1>4, <1>5, FS_Bijection

LEMMA ReceivedCountable == IsFiniteSet(Received) /\ Cardinality(Received) \in Nat
<1>1. IsFiniteSet(At("recorded")) /\ IsFiniteSet(1..MaxTokens)
  BY Countable, FS_Interval DEF At
<1>2. IsFiniteSet(At("recorded") \X (1..MaxTokens))
  BY <1>1, FS_Product
<1>3. QED
  BY <1>2, FS_Subset, FS_CardinalityType DEF Received

\* A request that has not ended is in none of the sets, before and after a step
\* that does not end it.
LEMMA NoneEnds ==
    ASSUME TypeOK, Counts, NEW r \in Requests, one[r] \notin {"recorded", "failed"},
           NEW phase \in Phases \ {"recorded", "failed"},
           one' = [one EXCEPT ![r] = phase],
           \A s \in Requests \ {r} : tokens'[s] = tokens[s],
           UNCHANGED figures
    PROVE  Counts'
<1>1. Recorded' = Recorded /\ Failed' = Failed
  BY DEF Recorded, Failed, At, TypeOK
<1>2. Gapped' = Gapped
  BY <1>1 DEF Gapped, Recorded, At, TypeOK
<1>3. Received' = Received
  <2>1. \A s \in Recorded : tokens'[s] = tokens[s]
    BY DEF Recorded, At
  <2>2. QED
    BY <1>1, <2>1 DEF Received, Recorded
<1>4. QED
  BY <1>1, <1>2, <1>3 DEF Counts, figures

LEMMA FailCounts ==
    ASSUME TypeOK, Counts, NEW r \in Requests, one[r] \in Inside, Fail(r)
    PROVE  Counts'
<1>1. /\ one' = [one EXCEPT ![r] = "failed"] /\ errors' = errors + 1
      /\ UNCHANGED <<tokens, ttfts_ms, tpots_ms, total_tokens>>
  BY DEF Fail, Leave
<1>2. Failed' = Failed \cup {r} /\ r \notin Failed /\ Recorded' = Recorded
  BY <1>1 DEF Recorded, Failed, At, TypeOK, Inside
<1>3. Gapped' = Gapped /\ Received' = Received
  BY <1>1, <1>2 DEF Gapped, Received, Recorded
<1>4. Cardinality(Failed') = Cardinality(Failed) + 1
  BY <1>2, SetsTyped, CountOneMore
<1>5. QED
  BY <1>1, <1>2, <1>3, <1>4 DEF Counts

LEMMA AttemptFailsCounts ==
    ASSUME TypeOK, Counts, NEW r \in Requests, one[r] \in Inside, AttemptFails(r)
    PROVE  Counts'
<1>1. CASE Fail(r)
  BY <1>1, FailCounts
<1>2. CASE /\ one' = [one EXCEPT ![r] = "sent"]
           /\ UNCHANGED <<tokens, figures, semaphore>>
  BY <1>2, NoneEnds DEF Phases, Inside
<1>3. QED
  BY <1>1, <1>2 DEF AttemptFails

LEMMA EndOfStreamCounts ==
    ASSUME TypeOK, Counts, NEW r \in Requests, EndOfStream(r)
    PROVE  Counts'
<1>1. /\ one[r] = "streaming" /\ one' = [one EXCEPT ![r] = "recorded"]
      /\ UNCHANGED <<tokens, errors>> /\ ttfts_ms' = ttfts_ms + 1
  BY DEF EndOfStream, Leave
<1>2. Recorded' = Recorded \cup {r} /\ r \notin Recorded /\ Failed' = Failed
  BY <1>1 DEF Recorded, Failed, At, TypeOK
<1>3. Cardinality(Recorded') = Cardinality(Recorded) + 1
  BY <1>2, SetsTyped, CountOneMore
<1>4. tpots_ms' = Cardinality(Gapped')
  <2>1. CASE tokens[r] > 1
    <3>1. Gapped' = Gapped \cup {r} /\ r \notin Gapped
      BY <1>1, <1>2, <2>1 DEF Gapped
    <3>2. Cardinality(Gapped') = Cardinality(Gapped) + 1
      BY <3>1, SetsTyped, CountOneMore
    <3>3. QED
      BY <2>1, <3>2 DEF EndOfStream, Counts
  <2>2. CASE ~(tokens[r] > 1)
    <3>1. Gapped' = Gapped
      BY <1>1, <1>2, <2>2 DEF Gapped
    <3>2. QED
      BY <2>2, <3>1 DEF EndOfStream, Counts
  <2>3. QED
    BY <2>1, <2>2
<1>5. total_tokens' = Cardinality(Received')
  <2> DEFINE New == {r} \X (1..tokens[r])
  <2>1. tokens[r] \in 0..MaxTokens /\ tokens[r] \in Nat
    BY DEF TypeOK
  <2>2. Received' = Received \cup New
    BY <1>1, <1>2, <2>1 DEF Received, Recorded
  <2>3. Received \cap New = {}
    BY <1>2 DEF Received, Recorded
  <2>4. IsFiniteSet(New) /\ Cardinality(New) = tokens[r]
    <3>1. PICK n \in Nat : n = tokens[r]
      BY <2>1
    <3>2. IsFiniteSet({r} \X (1..n)) /\ Cardinality({r} \X (1..n)) = n
      BY TokensOfOne
    <3>3. QED
      BY <3>1, <3>2
  <2> HIDE DEF New
  <2>5. Cardinality(Received \cap New) = 0
    BY <2>3, FS_EmptySet
  <2>6. Cardinality(Received') = Cardinality(Received) + tokens[r]
    <3>1. IsFiniteSet(Received) /\ Cardinality(Received) \in Nat
      BY ReceivedCountable
    <3>2. Cardinality(Received \cup New)
            = Cardinality(Received) + Cardinality(New) - Cardinality(Received \cap New)
      BY <2>4, <3>1, FS_Union
    <3>3. QED
      BY <2>1, <2>2, <2>4, <2>5, <3>1, <3>2
  <2>7. QED
    BY <2>6 DEF EndOfStream, Counts
<1>6. QED
  BY <1>1, <1>2, <1>3, <1>4, <1>5 DEF Counts

LEMMA NextCounts == TypeOK /\ Counts /\ [Next]_vars => Counts'
<1> SUFFICES ASSUME TypeOK, Counts, [Next]_vars PROVE Counts'
  OBVIOUS
<1>1. ASSUME NEW r \in Requests, Enter(r) \/ Admitted(r) \/ Assigned(r) PROVE Counts'
  <2>1. /\ one[r] \in {"waiting", "sent", "queued"}
        /\ UNCHANGED <<tokens, figures>>
        /\ \/ one' = [one EXCEPT ![r] = "sent"]
           \/ one' = [one EXCEPT ![r] = "queued"]
           \/ one' = [one EXCEPT ![r] = "running"]
    BY <1>1 DEF Enter, Admitted, Assigned
  <2>2. QED
    BY <2>1, NoneEnds DEF Phases, Inside
<1>2. ASSUME NEW r \in Requests, Rejected(r) \/ ConnectionLost(r) PROVE Counts'
  <2>1. one[r] \in Inside /\ AttemptFails(r)
    BY <1>2 DEF Rejected, ConnectionLost, Inside
  <2>2. QED
    BY <2>1, AttemptFailsCounts
<1>3. ASSUME NEW r \in Requests, Chunk(r) PROVE Counts'
  <2>1. /\ one[r] \in {"running", "streaming"} /\ UNCHANGED figures
        /\ one' = [one EXCEPT ![r] = "streaming"]
        /\ \A s \in Requests \ {r} : tokens'[s] = tokens[s]
    BY <1>3 DEF Chunk, Content, TypeOK
  <2>2. QED
    BY <2>1, NoneEnds DEF Phases, Inside
<1>4. ASSUME NEW r \in Requests, EndOfStream(r) PROVE Counts'
  BY <1>4, EndOfStreamCounts
<1>5. ASSUME NEW r \in Requests, StreamBreaks(r) PROVE Counts'
  BY <1>5, FailCounts DEF StreamBreaks, Inside
<1>6. CASE OrphanEnds \/ UNCHANGED vars
  BY <1>6 DEF OrphanEnds, vars, figures, Counts, Recorded, Failed, Gapped, Received, At
<1>7. QED
  BY <1>1, <1>2, <1>3, <1>4, <1>5, <1>6 DEF Next, Step

\* All figures of the result are about the same requests, at every moment, and its
\* throughput counts the tokens of the streams that ended and no others
\* (load_test.py:80-97).
THEOREM FiguresRight == Spec => []FiguresAgree
<1>1. Init => Counts
  <2> SUFFICES ASSUME Init PROVE Counts
    OBVIOUS
  <2>1. Recorded = {} /\ Failed = {} /\ Gapped = {} /\ Received = {}
    BY DEF Init, Recorded, Failed, Gapped, Received, At
  <2>2. QED
    BY <2>1, FS_EmptySet DEF Init, Counts
<1>2. TypeOK /\ Counts => FiguresAgree
  <2> SUFFICES ASSUME TypeOK, Counts, Over PROVE ttfts_ms = ok
    BY DEF Counts, FiguresAgree, CountsAgree, Recorded, Failed, Gapped
  <2>1. Recorded \cup Failed = Requests /\ Recorded \cap Failed = {}
    BY DEF Recorded, Failed, At, Over
  <2>2. Cardinality(Requests) = Cardinality(Recorded) + Cardinality(Failed)
    BY <2>1, SetsTyped, CountApart
  <2>3. Cardinality(Recorded) \in Nat /\ Cardinality(Failed) \in Nat
    BY SetsTyped, Countable
  <2>4. QED
    BY <2>2, <2>3 DEF Counts, ok
<1>3. QED
  BY <1>1, <1>2, NextCounts, LoadTestTyped, PTL DEF Spec

-----------------------------------------------------------------------------
(* What the library sends again.                                           *)
Tried ==
    \A r \in Requests : /\ one[r] = "waiting" => attempts[r] = 0
                        /\ one[r] \in Inside => attempts[r] >= 1

Charged == Tried /\ Cardinality(Retries) + errors = faults

LEMMA RetriesCountable == IsFiniteSet(Retries) /\ Cardinality(Retries) \in Nat
<1>1. IsFiniteSet(2..(MaxRetries + 1))
  BY FS_Interval
<1>2. IsFiniteSet(Requests \X (2..(MaxRetries + 1)))
  BY <1>1, FS_Product
<1>3. QED
  BY <1>2, FS_Subset, FS_CardinalityType DEF Retries

\* One attempt more of a request that was sent before is one retry more.
LEMMA RetryCounts ==
    ASSUME TypeOK, NEW r \in Requests, attempts[r] >= 1, attempts[r] <= MaxRetries,
           attempts' = [attempts EXCEPT ![r] = @ + 1]
    PROVE  Cardinality(Retries') = Cardinality(Retries) + 1
<1> DEFINE try == <<r, attempts[r] + 1>>
<1>1. attempts[r] \in Nat /\ attempts[r] + 1 \in 2..(MaxRetries + 1)
  BY DEF TypeOK
<1>2. try \notin Retries
  BY <1>1 DEF Retries
<1>3. Retries' = Retries \cup {try}
  <2>1. ASSUME NEW s \in Requests, NEW n \in 2..(MaxRetries + 1)
        PROVE  <<s, n>> \in Retries' <=> (<<s, n>> \in Retries \/ <<s, n>> = try)
    <3>1. attempts[s] \in Nat /\ n \in Nat
      BY DEF TypeOK
    <3>2. CASE s = r
      BY <1>1, <3>1, <3>2 DEF Retries, TypeOK
    <3>3. CASE s # r
      BY <3>1, <3>3 DEF Retries, TypeOK
    <3>4. QED
      BY <3>2, <3>3
  <2>2. /\ Retries' \subseteq Requests \X (2..(MaxRetries + 1))
        /\ Retries \subseteq Requests \X (2..(MaxRetries + 1))
        /\ try \in Requests \X (2..(MaxRetries + 1))
    BY <1>1 DEF Retries
  <2>3. QED
    BY <2>1, <2>2
<1>4. QED
  BY <1>2, <1>3, RetriesCountable, FS_AddElement

\* Whoever is sent and not queued leaves room for all the others with a permit.
LEMMA RoomForAll ==
    ASSUME TypeOK, PermitsAccounted, MaxQueued >= Concurrency,
           NEW r \in Requests, one[r] = "sent"
    PROVE  HasRoom
<1> DEFINE Q == At("queued")
<1>1. /\ Q \subseteq InFlight \ {r} /\ r \in InFlight /\ InFlight \subseteq Requests
  BY DEF At, InFlight, Inside
<1>2. /\ Cardinality(InFlight \ {r}) = Cardinality(InFlight) - 1
      /\ Cardinality(InFlight) \in Nat /\ Cardinality(Q) \in Nat
      /\ IsFiniteSet(InFlight \ {r}) /\ Cardinality(InFlight \ {r}) \in Nat
  BY <1>1, CountOneLess, Countable
<1>3. Cardinality(Q) <= Cardinality(InFlight \ {r})
  BY <1>1, <1>2, FS_Subset
<1>4. Cardinality(InFlight) <= Concurrency
  BY <1>2 DEF TypeOK, PermitsAccounted
<1> HIDE DEF Q
<1>5. Cardinality(Q) < MaxQueued
  BY <1>2, <1>3, <1>4
<1>6. QED
  BY <1>5 DEF HasRoom, Q

\* A fault is either one attempt more or one error.
LEMMA FaultCharged ==
    ASSUME TypeOK, Charged, NEW r \in Requests, one[r] \in Inside,
           faults' = faults + 1, AttemptFails(r)
    PROVE  Charged'
<1>1. attempts[r] \in Nat /\ attempts[r] >= 1 /\ errors \in Nat /\ faults \in Nat
  BY DEF Charged, Tried, TypeOK
<1>2. CASE /\ attempts[r] <= MaxRetries
           /\ attempts' = [attempts EXCEPT ![r] = @ + 1]
           /\ one' = [one EXCEPT ![r] = "sent"]
           /\ UNCHANGED errors
  <2>1. Cardinality(Retries') = Cardinality(Retries) + 1
    BY <1>1, <1>2, RetryCounts
  <2>2. Tried'
    BY <1>1, <1>2 DEF Charged, Tried, TypeOK, Inside
  <2>3. QED
    BY <1>1, <1>2, <2>1, <2>2, RetriesCountable DEF Charged
<1>3. CASE Fail(r) /\ UNCHANGED attempts
  <2>1. Retries' = Retries
    BY <1>3 DEF Retries
  <2>2. Tried' /\ errors' = errors + 1
    BY <1>3 DEF Charged, Tried, Fail, Leave, TypeOK, Inside
  <2>3. QED
    BY <1>1, <2>1, <2>2, RetriesCountable DEF Charged
<1>4. QED
  BY <1>2, <1>3 DEF AttemptFails, figures

\* Any other step but a rejection sends nothing again and fails nobody.
LEMMA NothingCharged ==
    ASSUME TypeOK, Charged, NEW r \in Requests, NEW phase, one' = [one EXCEPT ![r] = phase],
           one[r] \in Inside, phase # "waiting", UNCHANGED <<attempts, errors, faults>>
    PROVE  Charged'
<1>1. Retries' = Retries
  BY DEF Retries
<1>2. Tried'
  BY DEF Charged, Tried, TypeOK, Inside
<1>3. QED
  BY <1>1, <1>2 DEF Charged

LEMMA NextCharged ==
    ASSUME MaxQueued >= Concurrency, IInv, Charged, [Next]_vars
    PROVE  Charged'
<1> USE DEF IInv
<1>1. ASSUME NEW r \in Requests, Enter(r) PROVE Charged'
  <2>1. attempts[r] = 0 /\ attempts' = [attempts EXCEPT ![r] = 1]
        /\ one' = [one EXCEPT ![r] = "sent"] /\ UNCHANGED <<errors, faults>>
    BY <1>1 DEF Enter, Charged, Tried, figures
  <2>2. Retries' = Retries
    <3>1. ASSUME NEW s \in Requests, NEW n \in 2..(MaxRetries + 1)
          PROVE  n <= attempts'[s] <=> n <= attempts[s]
      BY <2>1 DEF TypeOK
    <3>2. QED
      BY <3>1 DEF Retries
  <2>3. Tried'
    BY <2>1 DEF Charged, Tried, TypeOK
  <2>4. QED
    BY <2>1, <2>2, <2>3 DEF Charged
<1>2. ASSUME NEW r \in Requests, Rejected(r) PROVE Charged'
  BY <1>2, RoomForAll DEF Rejected
<1>3. ASSUME NEW r \in Requests, Admitted(r) \/ Assigned(r) \/ Chunk(r) \/ EndOfStream(r)
      PROVE  Charged'
  <2>1. /\ one[r] \in Inside /\ UNCHANGED <<attempts, errors, faults>>
        /\ \E phase \in {"queued", "running", "streaming", "recorded"} :
             one' = [one EXCEPT ![r] = phase]
    BY <1>3 DEF Admitted, Assigned, Chunk, Content, EndOfStream, Leave, Inside, figures
  <2>2. QED
    BY <2>1, NothingCharged
<1>4. ASSUME NEW r \in Requests, ConnectionLost(r) PROVE Charged'
  BY <1>4, FaultCharged DEF ConnectionLost, Strike, Inside
<1>5. ASSUME NEW r \in Requests, StreamBreaks(r) PROVE Charged'
  <2>1. /\ one[r] = "streaming" /\ Fail(r) /\ UNCHANGED attempts /\ faults' = faults + 1
    BY <1>5 DEF StreamBreaks, Strike
  <2>2. Retries' = Retries
    BY <2>1 DEF Retries
  <2>3. Tried' /\ errors' = errors + 1
    BY <2>1 DEF Charged, Tried, Fail, Leave, TypeOK, Inside
  <2>4. QED
    BY <2>1, <2>2, <2>3, RetriesCountable DEF Charged, TypeOK
<1>6. CASE OrphanEnds \/ UNCHANGED vars
  BY <1>6 DEF OrphanEnds, vars, figures, Charged, Tried, Retries
<1>7. QED
  BY <1>1, <1>2, <1>3, <1>4, <1>5, <1>6 DEF Next, Step

\* The test brings no failure on itself: with a queue for `concurrency` requests every
\* retry of the library and every error is one fault, and no fault is two of them
\* (load_test.py:78-88).
THEOREM FailuresAreFaults == Spec => []OnlyFaultsFail
<1>1. CASE MaxQueued >= Concurrency
  <2>1. Init => Charged
    <3> SUFFICES ASSUME Init PROVE Charged
      OBVIOUS
    <3>1. Retries = {}
      BY DEF Init, Retries
    <3>2. QED
      BY <3>1, FS_EmptySet DEF Init, Charged, Tried, Inside
  <2>2. IInv /\ Charged /\ [Next]_vars => Charged'
    BY <1>1, NextCharged
  <2>3. Charged => OnlyFaultsFail
    BY DEF Charged, OnlyFaultsFail
  <2>4. QED
    BY <2>1, <2>2, <2>3, Invariance, PTL DEF Spec
<1>2. CASE ~(MaxQueued >= Concurrency)
  <2>1. OnlyFaultsFail
    BY <1>2 DEF OnlyFaultsFail
  <2>2. QED
    BY <2>1, PTL
<1>3. QED
  BY <1>1, <1>2
=============================================================================

------------------------- MODULE Composition_proofs ------------------------
(***************************************************************************)
(* What Composition guarantees for every table, every set of requests and  *)
(* every number of chunks and faults.                                      *)
(***************************************************************************)
EXTENDS Composition, SequenceTheorems, WellFoundedInduction, TLAPS

-----------------------------------------------------------------------------
(* The table: what route finds.                                            *)
\* A nonempty set of naturals has a least element.
LEMMA Least ==
    ASSUME NEW S \in SUBSET Nat, S # {}
    PROVE  \E x \in S : \A y \in S : x <= y
<1>1. PICK x \in S : \A y \in S : ~(<<y, x>> \in OpToRel(<, Nat))
  BY NatLessThanWellFounded, WFMin, Zenon
<1>2. ASSUME NEW y \in S PROVE x <= y
  <2> DEFINE pair == <<y, x>>
  <2>1. pair \in Nat \X Nat /\ pair[1] = y /\ pair[2] = x
    OBVIOUS
  <2>2. ~(pair \in {ss \in Nat \X Nat : ss[1] < ss[2]})
    BY <1>1 DEF OpToRel
  <2>3. ~(pair[1] < pair[2])
    BY <2>1, <2>2
  <2>4. QED
    BY <2>1, <2>3
<1>3. QED
  BY <1>2

Hits(q) == {i \in 1..Len(FAQ) : FAQ[i] \in Mentions[q]}

LEMMA HitsType ==
    ASSUME NEW q \in Requests
    PROVE  /\ Hits(q) \subseteq Nat \ {0} /\ Len(FAQ) \in Nat
           /\ FromTable(q) <=> Hits(q) # {}
<1>1. DOMAIN FAQ = 1..Len(FAQ) /\ Len(FAQ) \in Nat
  BY FAQAssumption, LenProperties
<1>2. Mentions[q] \subseteq ToSet(FAQ)
  BY MentionsAssumption
<1>3. QED
  BY <1>1, <1>2 DEF Hits, FromTable, ToSet

LEMMA RouteNoHit ==
    ASSUME NEW q \in Requests, ~FromTable(q)
    PROVE  route(q) = NoHit
<1>1. Hits(q) = {}
  BY HitsType
<1>2. QED
  BY <1>1 DEF route, SelectInSeq, Hits

\* The key it finds is the first one of the table that the text is about.
LEMMA RouteHit ==
    ASSUME NEW q \in Requests, FromTable(q)
    PROVE  /\ route(q) # NoHit /\ route(q) \in ToSet(FAQ)
           /\ Answer(q) = <<Packet(route(q))>>
<1>1. Hits(q) # {} /\ Hits(q) \subseteq Nat \ {0}
  BY HitsType
<1> DEFINE first == Min(Hits(q))
<1>2. first \in Hits(q) /\ \A i \in Hits(q) : first <= i
  <2>1. \E x \in Hits(q) : \A y \in Hits(q) : x <= y
    BY <1>1, Least
  <2>2. QED
    BY <2>1 DEF Min
<1>3. route(q) = FAQ[first]
  BY <1>1, <1>2 DEF route, SelectInSeq, Hits
<1>4. DOMAIN FAQ = 1..Len(FAQ)
  BY FAQAssumption, LenProperties
<1>5. FAQ[first] \in ToSet(FAQ)
  BY <1>2, <1>4 DEF Hits, ToSet
<1> DEFINE chosen == CHOOSE i \in DOMAIN FAQ :
                       /\ FAQ[i] \in Mentions[q]
                       /\ \A k \in 1..(i - 1) : FAQ[k] \notin Mentions[q]
<1>6. chosen = first
  <2>1. /\ first \in DOMAIN FAQ /\ FAQ[first] \in Mentions[q]
        /\ \A k \in 1..(first - 1) : FAQ[k] \notin Mentions[q]
    <3> HIDE DEF first
    <3>1. first \in 1..Len(FAQ) /\ FAQ[first] \in Mentions[q] /\ Len(FAQ) \in Nat
      BY <1>2, HitsType DEF Hits
    <3>2. ASSUME NEW k \in 1..(first - 1) PROVE FAQ[k] \notin Mentions[q]
      <4>1. k \in 1..Len(FAQ) /\ ~(first <= k)
        BY <3>1
      <4>2. QED
        BY <1>2, <4>1 DEF Hits
    <3>3. QED
      BY <1>4, <3>1, <3>2
  <2>2. ASSUME NEW i \in DOMAIN FAQ, FAQ[i] \in Mentions[q],
               \A k \in 1..(i - 1) : FAQ[k] \notin Mentions[q]
        PROVE  i = first
    BY <1>1, <1>2, <1>4, <2>1, <2>2 DEF Hits
  <2>3. QED
    BY <2>1, <2>2
<1>7. Answer(q) = <<Packet(FAQ[chosen])>>
  BY DEF Answer, FromTable
<1>8. QED
  BY <1>3, <1>5, <1>6, <1>7, FAQAssumption

-----------------------------------------------------------------------------
(* Sequences of chunks.                                                    *)
Items == {<<"chunk", n>> : n \in Nat} \cup {Packet(key) : key \in ToSet(FAQ)} \cup {DONE}

LEMMA ChunksType ==
    ASSUME NEW a \in Nat, NEW b \in Nat, a <= b
    PROVE  /\ Chunks(a, b) \in Seq(Items) /\ Len(Chunks(a, b)) = b - a
           /\ DOMAIN Chunks(a, b) = 1..(b - a)
           /\ \A i \in 1..(b - a) : Chunks(a, b)[i] = <<"chunk", a + i>>
<1> DEFINE n == b - a
           s == [i \in 1..n |-> <<"chunk", a + i>>]
<1>1. n \in Nat /\ \A i \in 1..n : <<"chunk", a + i>> \in Items
  BY DEF Items
<1>2. Chunks(a, b) = s
  BY DEF Chunks
<1>3. s \in Seq(Items) /\ Len(s) = n
  <2> HIDE DEF n
  <2> QED
    BY <1>1
<1>4. DOMAIN s = 1..n /\ \A i \in 1..n : s[i] = <<"chunk", a + i>>
  OBVIOUS
<1> HIDE DEF s
<1>5. QED
  BY <1>2, <1>3, <1>4

\* The first chunks of an answer.
LEMMA StartType ==
    ASSUME NEW b \in Nat
    PROVE  /\ Chunks(0, b) \in Seq(Items) /\ Len(Chunks(0, b)) = b
           /\ \A i \in 1..b : Chunks(0, b)[i] = <<"chunk", i>>
<1>1. 0 \in Nat /\ 0 <= b /\ b - 0 = b
  OBVIOUS
<1>2. /\ Chunks(0, b) \in Seq(Items) /\ Len(Chunks(0, b)) = b - 0
      /\ \A i \in 1..(b - 0) : Chunks(0, b)[i] = <<"chunk", 0 + i>>
  BY <1>1, ChunksType, Zenon
<1>3. ASSUME NEW i \in 1..b PROVE Chunks(0, b)[i] = <<"chunk", i>>
  <2>1. Chunks(0, b)[i] = <<"chunk", 0 + i>> /\ 0 + i = i
    BY <1>1, <1>2
  <2>2. QED
    BY <2>1
<1>4. QED
  BY <1>1, <1>2, <1>3

\* A window continues where the windows before it ended.
LEMMA ChunksJoin ==
    ASSUME NEW a \in Nat, NEW b \in Nat, a <= b
    PROVE  Chunks(0, a) \o Chunks(a, b) = Chunks(0, b)
<1> DEFINE w == Chunks(0, b)
           s == Chunks(0, a)
           t == Chunks(a, b)
<1>1. /\ w \in Seq(Items) /\ Len(w) = b
      /\ \A i \in 1..b : w[i] = <<"chunk", i>>
  BY StartType
<1>2. /\ s \in Seq(Items) /\ Len(s) = a
      /\ \A i \in 1..a : s[i] = <<"chunk", i>>
  BY StartType
<1>3. /\ t \in Seq(Items) /\ Len(t) = b - a
      /\ \A i \in 1..(b - a) : t[i] = <<"chunk", a + i>>
  BY ChunksType
<1> HIDE DEF s, t, w
<1>4. /\ s \o t \in Seq(Items) /\ Len(s \o t) = Len(s) + Len(t)
      /\ \A i \in 1..(Len(s) + Len(t)) :
           (s \o t)[i] = IF i <= Len(s) THEN s[i] ELSE t[i - Len(s)]
  BY <1>2, <1>3, ConcatProperties
<1>5. ASSUME NEW i \in 1..b PROVE (s \o t)[i] = w[i]
  <2>1. CASE i <= a
    <3>1. (s \o t)[i] = s[i] /\ i \in 1..a
      BY <1>2, <1>3, <1>4, <2>1
    <3>2. QED
      BY <1>1, <1>2, <3>1
  <2>2. CASE ~(i <= a)
    <3>1. i - a \in 1..(b - a) /\ a + (i - a) = i
      BY <2>2
    <3>2. t[i - a] = <<"chunk", i>>
      BY <1>3, <3>1
    <3>3. (s \o t)[i] = t[i - a]
      BY <1>2, <1>3, <1>4, <2>2
    <3>4. QED
      BY <1>1, <3>2, <3>3
  <2>3. QED
    BY <2>1, <2>2
<1>6. s \o t = w
  BY <1>1, <1>2, <1>3, <1>4, <1>5, SeqEqual
<1>7. QED
  BY <1>6 DEF s, t, w

-----------------------------------------------------------------------------
\* What a client was given of its answer.
Given(q) == IF FromTable(q) THEN <<Packet(route(q))>> ELSE Chunks(0, passed[q])

Counted(q) == made[q] \in 0..MaxChunks /\ passed[q] \in 0..made[q]

\* What each phase of a handler means for what was sent.
Shape(q) ==
    /\ phase[q] \in {"new", "triage"} => /\ sent[q] = <<>> /\ engine[q] = "idle"
                                         /\ passed[q] = 0
    /\ phase[q] = "packet sent" => /\ q \in Streaming /\ FromTable(q)
                                   /\ sent[q] = Given(q) /\ engine[q] = "idle"
    /\ phase[q] = "escalated" => /\ ~FromTable(q) /\ sent[q] = Given(q)
                                 /\ q \notin Streaming => passed[q] = 0
    /\ phase[q] = "done" =>
         /\ sent[q] = IF q \in Streaming THEN Given(q) \o <<DONE>> ELSE Given(q)
         /\ ~FromTable(q) => engine[q] = "stop" /\ passed[q] = made[q]
    /\ phase[q] \in {"failed", "gone"} => sent[q] \in {<<>>, Given(q)}
    /\ engine[q] = "busy" => phase[q] = "escalated"

Phases == {"new", "triage", "packet sent", "escalated", "done", "failed", "gone"}

Typed ==
    /\ phase \in [Requests -> Phases]
    /\ engine \in [Requests -> {"idle", "busy", "stop", "error", "aborted"}]
    /\ sent \in [Requests -> Seq(Items)]
    /\ made \in [Requests -> Nat] /\ passed \in [Requests -> Nat]
    /\ faults \in 0..MaxFaults

IInv == Typed /\ \A q \in Requests : Counted(q) /\ Shape(q)

LEMMA GivenType ==
    ASSUME IInv, NEW q \in Requests
    PROVE  /\ Given(q) \in Seq(Items) /\ Len(Given(q)) <= MaxChunks + 1
           /\ \A i \in 1..Len(Given(q)) : Given(q)[i] # DONE
<1>1. CASE FromTable(q)
  <2>1. Given(q) = <<Packet(route(q))>> /\ route(q) \in ToSet(FAQ)
    BY <1>1, RouteHit DEF Given
  <2>2. Packet(route(q)) \in Items /\ Packet(route(q)) # DONE
    BY <2>1 DEF Items, Packet, DONE
  <2>3. QED
    BY <2>1, <2>2, BoundsAssumption
<1>2. CASE ~FromTable(q)
  <2>1. passed[q] \in Nat /\ passed[q] <= MaxChunks /\ Given(q) = Chunks(0, passed[q])
    BY <1>2, BoundsAssumption DEF IInv, Counted, Given
  <2> DEFINE s == Chunks(0, passed[q])
  <2>2. /\ s \in Seq(Items) /\ Len(s) = passed[q]
        /\ \A i \in 1..passed[q] : s[i] = <<"chunk", i>>
    BY <2>1, StartType
  <2> HIDE DEF s
  <2>3. \A i \in 1..passed[q] : s[i] # DONE
    BY <2>2 DEF DONE
  <2>4. QED
    BY <2>1, <2>2, <2>3, BoundsAssumption DEF s
<1>3. QED
  BY <1>1, <1>2

LEMMA InitIInv == Init => IInv
BY BoundsAssumption, EmptySeq DEF Init, IInv, Typed, Phases, Counted, Shape

-----------------------------------------------------------------------------
\* A step of one request disturbs no other.
LEMMA Others ==
    ASSUME IInv, NEW q \in Requests, Typed', Counted(q)', Shape(q)',
           \A p \in Requests \ {q} :
             /\ phase'[p] = phase[p] /\ sent'[p] = sent[p] /\ made'[p] = made[p]
             /\ passed'[p] = passed[p] /\ engine'[p] = engine[p]
    PROVE  IInv'
<1>1. ASSUME NEW p \in Requests \ {q} PROVE Counted(p)' /\ Shape(p)'
  <2>1. Given(p)' = Given(p) /\ FromTable(p)' = FromTable(p)
    <3>1. route(p)' = route(p)
      BY DEF route, SelectInSeq, Min
    <3>2. passed'[p] = passed[p]
      OBVIOUS
    <3>3. QED
      BY <3>1, <3>2 DEF Given, FromTable, Packet, Chunks
  <2>2. Counted(p) /\ Shape(p)
    BY DEF IInv
  <2>3. QED
    BY <2>1, <2>2 DEF Counted, Shape
<1>2. QED
  BY <1>1 DEF IInv

\* What Send does to the types, to its own request, and to no other.
LEMMA Sends ==
    ASSUME IInv, NEW q \in Requests, NEW items \in Seq(Items), NEW next \in Phases,
           Send(q, items, next)
    PROVE  /\ phase' \in [Requests -> Phases] /\ sent' \in [Requests -> Seq(Items)]
           /\ phase'[q] = next /\ sent'[q] = sent[q] \o items
           /\ \A p \in Requests \ {q} : phase'[p] = phase[p] /\ sent'[p] = sent[p]
<1>1. sent[q] \o items \in Seq(Items)
  BY ConcatProperties DEF IInv, Typed
<1>2. QED
  BY <1>1 DEF IInv, Typed, Send

\* The table does not change, so what a client was given changes with passed only.
LEMMA SameGiven ==
    ASSUME NEW q \in Requests, passed'[q] = passed[q]
    PROVE  Given(q)' = Given(q) /\ FromTable(q)' = FromTable(q)
<1>1. route(q)' = route(q)
  BY DEF route, SelectInSeq, Min
<1>2. QED
  BY <1>1 DEF Given, FromTable, Packet, Chunks

LEMMA StrikeType ==
    ASSUME IInv, Strike \/ UNCHANGED faults
    PROVE  faults' \in 0..MaxFaults
BY BoundsAssumption DEF IInv, Typed, Strike

-----------------------------------------------------------------------------
(* The steps of a handler.                                                 *)
LEMMA AskKeeps ==
    ASSUME IInv, NEW q \in Requests, Ask(q)
    PROVE  IInv'
<1>1. Typed'
  BY DEF Ask, IInv, Typed, Phases
<1>2. Counted(q)' /\ Shape(q)'
  BY DEF Ask, IInv, Typed, Counted, Shape
<1>3. QED
  BY <1>1, <1>2, Others DEF Ask, IInv, Typed

LEMMA HitKeeps ==
    ASSUME IInv, NEW q \in Requests, Hit(q)
    PROVE  IInv'
<1> DEFINE next == IF q \in Streaming THEN "packet sent" ELSE "done"
           packet == <<Packet(route(q))>>
<1>1. FromTable(q)
  BY RouteNoHit DEF Hit
<1>2. packet = Given(q) /\ packet \in Seq(Items)
  BY <1>1, GivenType DEF Given
<1>3. /\ phase' \in [Requests -> Phases] /\ sent' \in [Requests -> Seq(Items)]
      /\ phase'[q] = next /\ sent'[q] = sent[q] \o packet
      /\ \A p \in Requests \ {q} : phase'[p] = phase[p] /\ sent'[p] = sent[p]
  BY <1>2, Sends DEF Hit, Phases
<1>4. sent[q] = <<>> /\ engine[q] = "idle"
  BY DEF Hit, IInv, Shape
<1>5. sent'[q] = Given(q)
  BY <1>2, <1>3, <1>4, ConcatEmptySeq
<1>6. Given(q)' = Given(q) /\ FromTable(q)' /\ UNCHANGED <<made, passed, engine, faults>>
  BY <1>1, SameGiven DEF Hit
<1>7. Typed' /\ Counted(q)'
  BY <1>3, <1>6 DEF IInv, Typed, Counted
<1>8. Shape(q)'
  BY <1>3, <1>4, <1>5, <1>6 DEF Shape
<1>9. QED
  BY <1>3, <1>6, <1>7, <1>8, Others

LEMMA HitDoneKeeps ==
    ASSUME IInv, NEW q \in Requests, HitDone(q)
    PROVE  IInv'
<1>1. <<DONE>> \in Seq(Items)
  BY DEF Items
<1>2. /\ phase' \in [Requests -> Phases] /\ sent' \in [Requests -> Seq(Items)]
      /\ phase'[q] = "done" /\ sent'[q] = sent[q] \o <<DONE>>
      /\ \A p \in Requests \ {q} : phase'[p] = phase[p] /\ sent'[p] = sent[p]
  BY <1>1, Sends DEF HitDone, Phases
<1>3. /\ q \in Streaming /\ FromTable(q) /\ sent[q] = Given(q) /\ engine[q] = "idle"
  BY DEF HitDone, IInv, Shape
<1>4. Given(q)' = Given(q) /\ FromTable(q)' /\ UNCHANGED <<made, passed, engine, faults>>
  BY <1>3, SameGiven DEF HitDone
<1>5. Typed' /\ Counted(q)'
  BY <1>2, <1>4 DEF IInv, Typed, Counted
<1>6. Shape(q)'
  BY <1>2, <1>3, <1>4 DEF Shape
<1>7. QED
  BY <1>2, <1>4, <1>5, <1>6, Others

LEMMA EscalateKeeps ==
    ASSUME IInv, NEW q \in Requests, Escalate(q)
    PROVE  IInv'
<1>1. ~FromTable(q)
  BY RouteHit DEF Escalate
<1>2. Typed'
  BY DEF Escalate, IInv, Typed, Phases
<1>3. sent[q] = <<>> /\ passed[q] = 0
  BY DEF Escalate, IInv, Shape
<1>4. Given(q) = <<>>
  BY <1>1, <1>3 DEF Given, Chunks
<1>5. Given(q)' = Given(q) /\ ~FromTable(q)'
  BY <1>1, SameGiven DEF Escalate
<1>6. Counted(q)' /\ Shape(q)'
  BY <1>3, <1>4, <1>5 DEF Escalate, IInv, Typed, Counted, Shape
<1>7. QED
  BY <1>2, <1>6, Others DEF Escalate, IInv, Typed

\* The chunks that the engine has made and the handler has not seen follow.
LEMMA ForwardKeeps ==
    ASSUME IInv, NEW q \in Requests, phase[q] = "escalated",
           passed' = [passed EXCEPT ![q] = made[q]],
           NEW next \in {"escalated", "done"}, Send(q, Chunks(passed[q], made[q]), next),
           IF next = "done" THEN engine[q] = "stop" /\ q \notin Streaming
                            ELSE q \in Streaming,
           UNCHANGED <<made, engine, faults>>
    PROVE  IInv'
<1>1. /\ passed[q] \in Nat /\ made[q] \in Nat /\ passed[q] <= made[q]
      /\ made[q] <= MaxChunks /\ passed'[q] = made[q]
  BY BoundsAssumption DEF IInv, Typed, Counted
<1>2. Chunks(passed[q], made[q]) \in Seq(Items)
  BY <1>1, ChunksType
<1>3. /\ phase' \in [Requests -> Phases] /\ sent' \in [Requests -> Seq(Items)]
      /\ phase'[q] = next /\ sent'[q] = sent[q] \o Chunks(passed[q], made[q])
      /\ \A p \in Requests \ {q} : phase'[p] = phase[p] /\ sent'[p] = sent[p]
  BY <1>2, Sends DEF Phases
<1>4. ~FromTable(q) /\ sent[q] = Given(q)
  BY DEF IInv, Shape
<1>5. sent'[q] = Chunks(0, made[q])
  BY <1>1, <1>3, <1>4, ChunksJoin DEF Given
<1>6. ~FromTable(q)' /\ Given(q)' = Chunks(0, made[q])
  BY <1>1, <1>4 DEF Given, FromTable, Chunks
<1>7. Typed' /\ Counted(q)'
  <2>1. passed' \in [Requests -> Nat] /\ UNCHANGED <<made, engine, faults>>
    BY <1>1 DEF IInv, Typed
  <2>2. QED
    BY <1>1, <1>3, <2>1 DEF IInv, Typed, Counted
<1>8. Shape(q)'
  BY <1>1, <1>3, <1>5, <1>6 DEF IInv, Shape
<1>9. QED
  BY <1>3, <1>7, <1>8, Others DEF IInv, Typed

LEMMA MarkDoneKeeps ==
    ASSUME IInv, NEW q \in Requests, MarkDone(q)
    PROVE  IInv'
<1>1. <<DONE>> \in Seq(Items)
  BY DEF Items
<1>2. /\ phase' \in [Requests -> Phases] /\ sent' \in [Requests -> Seq(Items)]
      /\ phase'[q] = "done" /\ sent'[q] = sent[q] \o <<DONE>>
      /\ \A p \in Requests \ {q} : phase'[p] = phase[p] /\ sent'[p] = sent[p]
  BY <1>1, Sends DEF MarkDone, Phases
<1>3. q \in Streaming /\ ~FromTable(q) /\ sent[q] = Given(q)
  BY DEF MarkDone, IInv, Shape
<1>4. Given(q)' = Given(q) /\ ~FromTable(q)' /\ UNCHANGED <<made, passed, engine, faults>>
  BY <1>3, SameGiven DEF MarkDone
<1>5. Typed' /\ Counted(q)'
  BY <1>2, <1>4 DEF IInv, Typed, Counted
<1>6. Shape(q)'
  BY <1>2, <1>3, <1>4 DEF Shape, MarkDone
<1>7. QED
  BY <1>2, <1>4, <1>5, <1>6, Others

\* A handler that breaks off, or is cancelled, sends nothing more.
LEMMA EndsKeeps ==
    ASSUME IInv, NEW q \in Requests, Broken(q) \/ TriageFails(q) \/ Disconnect(q)
    PROVE  IInv'
<1>1. sent[q] \in {<<>>, Given(q)} /\ sent[q] \in Seq(Items)
  BY DEF IInv, Typed, Shape, Broken, TriageFails, Disconnect, Open
<1>2. /\ phase'[q] \in {"failed", "gone"} /\ phase' \in [Requests -> Phases]
      /\ sent' \in [Requests -> Seq(Items)] /\ sent'[q] = sent[q]
      /\ \A p \in Requests \ {q} : phase'[p] = phase[p] /\ sent'[p] = sent[p]
  <2>1. CASE Broken(q) \/ TriageFails(q)
    <3>1. <<>> \in Seq(Items) /\ Send(q, <<>>, "failed")
      BY <2>1 DEF Broken, TriageFails
    <3>2. /\ phase' \in [Requests -> Phases] /\ sent' \in [Requests -> Seq(Items)]
          /\ phase'[q] = "failed" /\ sent'[q] = sent[q] \o <<>>
          /\ \A p \in Requests \ {q} : phase'[p] = phase[p] /\ sent'[p] = sent[p]
      BY <3>1, Sends DEF Phases
    <3>3. QED
      BY <1>1, <3>2, ConcatEmptySeq
  <2>2. CASE Disconnect(q)
    BY <2>2 DEF Disconnect, IInv, Typed, Phases
  <2>3. QED
    BY <2>1, <2>2
<1>3. /\ UNCHANGED <<made, passed>> /\ engine'[q] # "busy" /\ faults' \in 0..MaxFaults
      /\ engine' \in [Requests -> {"idle", "busy", "stop", "error", "aborted"}]
      /\ \A p \in Requests \ {q} : engine'[p] = engine[p]
  BY StrikeType DEF Broken, TriageFails, Disconnect, IInv, Typed, Shape
<1>4. Given(q)' = Given(q)
  BY <1>3, SameGiven
<1>5. Typed' /\ Counted(q)'
  BY <1>2, <1>3 DEF IInv, Typed, Counted
<1>6. Shape(q)'
  BY <1>1, <1>2, <1>3, <1>4 DEF Shape
<1>7. QED
  BY <1>2, <1>3, <1>5, <1>6, Others

\* The engine: it generates for a handler that waits, and ends.
LEMMA EngineKeeps ==
    ASSUME IInv, NEW q \in Requests, Generate(q) \/ Stop(q) \/ EngineFails(q)
    PROVE  IInv'
<1>1. /\ engine[q] = "busy" /\ phase[q] = "escalated" /\ UNCHANGED <<phase, sent, passed>>
  BY DEF Generate, Stop, EngineFails, IInv, Shape
<1>2. Given(q)' = Given(q) /\ FromTable(q)' = FromTable(q)
  BY <1>1, SameGiven
<1>3. /\ made' \in [Requests -> Nat] /\ made'[q] \in 0..MaxChunks /\ made[q] <= made'[q]
      /\ \A p \in Requests \ {q} : made'[p] = made[p] /\ engine'[p] = engine[p]
      /\ engine' \in [Requests -> {"idle", "busy", "stop", "error", "aborted"}]
  <2>1. made \in [Requests -> Nat] /\ made[q] \in 0..MaxChunks
    BY DEF IInv, Typed, Counted
  <2>2. engine \in [Requests -> {"idle", "busy", "stop", "error", "aborted"}]
    BY DEF IInv, Typed
  <2>3. CASE Generate(q)
    BY <2>1, <2>2, <2>3, BoundsAssumption DEF Generate
  <2>4. CASE Stop(q) \/ EngineFails(q)
    BY <2>1, <2>2, <2>4 DEF Stop, EngineFails
  <2>5. QED
    BY <2>3, <2>4
<1>4. faults' \in 0..MaxFaults
  BY StrikeType DEF Generate, Stop, EngineFails
<1>5. Typed' /\ Counted(q)'
  BY <1>1, <1>3, <1>4, BoundsAssumption DEF IInv, Typed, Counted
<1>6. Shape(q)'
  BY <1>1, <1>2 DEF IInv, Shape
<1>7. QED
  BY <1>1, <1>3, <1>5, <1>6, Others

LEMMA NextIInv == IInv /\ [Next]_vars => IInv'
<1> SUFFICES ASSUME IInv, [Next]_vars PROVE IInv'
  OBVIOUS
<1>1. ASSUME NEW q \in Requests, Body(q) PROVE IInv'
  <2>1. passed[q] = 0
    BY <1>1 DEF Body, IInv, Shape
  <2>2. QED
    BY <1>1, <2>1, ForwardKeeps DEF Body
<1>2. ASSUME NEW q \in Requests, Window(q) PROVE IInv'
  BY <1>2, ForwardKeeps DEF Window
<1>3. CASE UNCHANGED vars
  <2>1. ASSUME NEW q \in Requests PROVE Counted(q)' /\ Shape(q)'
    BY <1>3, SameGiven DEF vars, IInv, Counted, Shape
  <2>2. QED
    BY <1>3, <2>1 DEF vars, IInv, Typed
<1>4. QED
  BY <1>1, <1>2, <1>3, AskKeeps, HitKeeps, HitDoneKeeps, EscalateKeeps, MarkDoneKeeps,
     EndsKeeps, EngineKeeps DEF Next, HandlerStep

LEMMA Invariance == Spec => []IInv
BY InitIInv, NextIInv, PTL DEF Spec

-----------------------------------------------------------------------------
(* The theorems.                                                           *)
\* Of the answer a client has some first part, and after the whole of it at most
\* the marker.
LEMMA Received ==
    ASSUME IInv, NEW q \in Requests
    PROVE  /\ Answer(q) \in Seq(Items) /\ Len(Given(q)) <= Len(Answer(q))
           /\ \A i \in 1..Len(Given(q)) : Answer(q)[i] = Given(q)[i]
           /\ phase[q] = "done" => Answer(q) = Given(q)
           /\ \/ sent[q] \in {<<>>, Given(q)}
              \/ /\ phase[q] = "done" /\ q \in Streaming
                 /\ sent[q] = Given(q) \o <<DONE>>
<1>1. CASE FromTable(q)
  <2>1. Given(q) = <<Packet(route(q))>> /\ Answer(q) = Given(q)
    BY <1>1, RouteHit DEF Given
  <2>2. Given(q) \in Seq(Items) /\ Len(Given(q)) \in Nat
    BY GivenType, LenProperties
  <2>3. \/ sent[q] \in {<<>>, Given(q)}
        \/ phase[q] = "done" /\ q \in Streaming /\ sent[q] = Given(q) \o <<DONE>>
    BY DEF IInv, Typed, Phases, Shape
  <2> HIDE DEF Given
  <2>4. \A i \in 1..Len(Given(q)) : Answer(q)[i] = Given(q)[i]
    BY <2>1
  <2>5. Len(Given(q)) <= Len(Answer(q))
    BY <2>1, <2>2
  <2>6. QED
    BY <2>1, <2>2, <2>3, <2>4, <2>5
<1>2. CASE ~FromTable(q)
  <2>1. /\ Given(q) = Chunks(0, passed[q]) /\ Answer(q) = Chunks(0, made[q])
        /\ passed[q] \in Nat /\ made[q] \in Nat /\ passed[q] <= made[q]
    BY <1>2, BoundsAssumption DEF Given, Answer, IInv, Typed, Counted
  <2>2. /\ Answer(q) \in Seq(Items) /\ Len(Answer(q)) = made[q]
        /\ \A i \in 1..made[q] : Answer(q)[i] = <<"chunk", i>>
    BY <2>1, StartType
  <2>3. /\ Len(Given(q)) = passed[q]
        /\ \A i \in 1..passed[q] : Given(q)[i] = <<"chunk", i>>
    BY <2>1, StartType
  <2>4. phase[q] = "done" => Answer(q) = Given(q)
    BY <1>2, <2>1 DEF IInv, Shape
  <2>5. \/ sent[q] \in {<<>>, Given(q)}
        \/ phase[q] = "done" /\ q \in Streaming /\ sent[q] = Given(q) \o <<DONE>>
    BY DEF IInv, Typed, Phases, Shape
  <2>6. /\ Len(Given(q)) <= Len(Answer(q))
        /\ \A i \in 1..Len(Given(q)) : Answer(q)[i] = Given(q)[i]
    <3>1. Len(Given(q)) <= Len(Answer(q))
      BY <2>1, <2>2, <2>3
    <3>2. ASSUME NEW i \in 1..Len(Given(q)) PROVE Answer(q)[i] = Given(q)[i]
      <4>1. i \in 1..passed[q] /\ i \in 1..made[q]
        BY <2>1, <2>3
      <4>2. QED
        BY <2>2, <2>3, <4>1
    <3>3. QED
      BY <3>1, <3>2
  <2>7. QED
    BY <2>2, <2>4, <2>5, <2>6
<1>3. QED
  BY <1>1, <1>2

\* What begins like a sequence is a prefix of it.
LEMMA Begins ==
    ASSUME NEW s \in Seq(Items), NEW t \in Seq(Items), Len(s) <= Len(t),
           \A i \in 1..Len(s) : s[i] = t[i]
    PROVE  IsPrefix(s, t)
<1>1. Len(s) \in Nat /\ Len(t) \in Nat /\ \A i \in 1..Len(t) : t[i] \in Items
  BY LenProperties, ElementOfSeq
<1>2. SubSeq(s, 1, Len(s)) = s
  BY SubSeqFull
<1>3. /\ SubSeq(t, 1, Len(s)) \in Seq(Items) /\ Len(SubSeq(t, 1, Len(s))) = Len(s)
      /\ \A i \in 1..Len(s) : SubSeq(t, 1, Len(s))[i] = t[i]
  BY <1>1
<1>4. SubSeq(t, 1, Len(s)) = s
  BY <1>3, SeqEqual
<1>5. QED
  BY <1>2, <1>4 DEF IsPrefix

\* Every variable has its type, and no stream runs ahead of its engine.
THEOREM CompositionTyped == Spec => []TypeOK
<1>1. IInv => TypeOK
  <2> SUFFICES ASSUME IInv PROVE TypeOK
    OBVIOUS
  <2>1. ASSUME NEW q \in Requests PROVE Len(sent[q]) <= MaxChunks + 2
    <3>1. /\ Given(q) \in Seq(Items) /\ Len(Given(q)) <= MaxChunks + 1
          /\ Len(Given(q)) \in Nat /\ <<DONE>> \in Seq(Items)
      BY GivenType, LenProperties DEF Items
    <3>2. Len(Given(q) \o <<DONE>>) = Len(Given(q)) + 1
      BY <3>1, ConcatProperties
    <3>3. sent[q] \in {<<>>, Given(q), Given(q) \o <<DONE>>}
      BY Received
    <3>4. QED
      BY <3>1, <3>2, <3>3, BoundsAssumption
  <2>2. QED
    BY <2>1 DEF IInv, Typed, Phases, Counted, TypeOK
<1>2. QED
  BY <1>1, Invariance, PTL

\* A client receives its own answer from the start, in order, nothing left out and
\* nothing twice, and after it at most the marker (app.py:121-127).
THEOREM AnswersInOrder == Spec => []InOrder
<1>1. IInv => InOrder
  <2> SUFFICES ASSUME IInv, NEW q \in Requests
               PROVE  IsPrefix(sent[q], Answer(q) \o <<DONE>>)
    BY DEF InOrder
  <2> DEFINE s == sent[q]
             g == Given(q)
             t == Answer(q)
  <2>1. /\ t \in Seq(Items) /\ Len(g) <= Len(t) /\ g \in Seq(Items)
        /\ \A i \in 1..Len(g) : t[i] = g[i]
        /\ s \in {<<>>, g, t \o <<DONE>>} /\ s \in Seq(Items)
    BY Received, GivenType DEF IInv, Typed
  <2> HIDE DEF s, g, t
  <2>2. <<DONE>> \in Seq(Items) /\ Len(<<DONE>>) = 1
    BY DEF Items
  <2>3. /\ t \o <<DONE>> \in Seq(Items) /\ Len(t \o <<DONE>>) = Len(t) + 1
        /\ \A i \in 1..(Len(t) + 1) :
             (t \o <<DONE>>)[i] = IF i <= Len(t) THEN t[i] ELSE <<DONE>>[i - Len(t)]
    BY <2>1, <2>2, ConcatProperties
  <2>4. Len(g) \in Nat /\ Len(t) \in Nat /\ Len(s) \in Nat
    BY <2>1, LenProperties
  <2>5. Len(s) <= Len(t \o <<DONE>>) /\ \A i \in 1..Len(s) : s[i] = (t \o <<DONE>>)[i]
    <3>1. CASE s = <<>>
      BY <2>3, <2>4, <3>1
    <3>2. CASE s = g
      BY <2>1, <2>3, <2>4, <3>2
    <3>3. CASE s = t \o <<DONE>>
      BY <2>3, <2>4, <3>3
    <3>4. QED
      BY <2>1, <3>1, <3>2, <3>3
  <2>6. IsPrefix(s, t \o <<DONE>>)
    BY <2>1, <2>3, <2>5, Begins
  <2>7. QED
    BY <2>6 DEF s, t
<1>2. QED
  BY <1>1, Invariance, PTL

\* A stream is marked done if and only if it ended well, once, after the whole
\* answer (app.py:64-65).
THEOREM DoneIsWhole == Spec => []DoneMeansWhole
<1>1. IInv => DoneMeansWhole
  <2> DEFINE Marked(q) == /\ sent[q] = Answer(q) \o <<DONE>>
                          /\ FromTable(q) \/ engine[q] = "stop"
             Whole(q) == /\ DONE \in ToSet(sent[q]) => Marked(q)
                         /\ phase[q] = "done" => DONE \in ToSet(sent[q])
  <2> SUFFICES ASSUME IInv, NEW q \in Streaming PROVE Whole(q)
    BY Zenon DEF DoneMeansWhole
  <2>1. q \in Requests
    BY RequestsAssumption
  <2>2. /\ Given(q) \in Seq(Items) /\ Len(Given(q)) \in Nat
        /\ \A i \in 1..Len(Given(q)) : Given(q)[i] # DONE
        /\ DOMAIN Given(q) = 1..Len(Given(q))
    BY <2>1, GivenType, LenProperties
  <2>3. ASSUME DONE \in ToSet(sent[q])
        PROVE  sent[q] = Answer(q) \o <<DONE>> /\ (FromTable(q) \/ engine[q] = "stop")
    <3>1. sent[q] \notin {<<>>, Given(q)}
      BY <2>2, <2>3 DEF ToSet
    <3>2. phase[q] = "done" /\ sent[q] = Given(q) \o <<DONE>> /\ Answer(q) = Given(q)
      BY <2>1, <3>1, Received
    <3>3. QED
      BY <2>1, <3>2 DEF IInv, Shape
  <2>4. ASSUME phase[q] = "done" PROVE DONE \in ToSet(sent[q])
    <3> DEFINE g == Given(q)
               s == g \o <<DONE>>
    <3>1. sent[q] = s
      BY <2>1, <2>4 DEF IInv, Shape
    <3>2. <<DONE>> \in Seq(Items) /\ Len(<<DONE>>) = 1 /\ <<DONE>>[1] = DONE
      BY DEF Items
    <3> HIDE DEF g
    <3>3. /\ s \in Seq(Items) /\ Len(s) = Len(g) + 1
          /\ s[Len(g) + 1] = DONE
      BY <2>2, <3>2, ConcatProperties DEF g
    <3> HIDE DEF s
    <3>4. Len(g) + 1 \in DOMAIN s
      BY <2>2, <3>3, LenProperties DEF g
    <3>5. QED
      BY <3>1, <3>3, <3>4 DEF ToSet
  <2>5. QED
    BY <2>3, <2>4
<1>2. QED
  BY <1>1, Invariance, PTL
=============================================================================

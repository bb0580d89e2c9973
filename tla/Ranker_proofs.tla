--------------------------- MODULE Ranker_proofs ---------------------------
(***************************************************************************)
(* Where the calls of a Ranker replica are, and what each caller is        *)
(* answered, for every number of calls, replicas and batch sizes and every *)
(* score.  The second half is about forward() alone: what its sort, its    *)
(* offsets and its flattening do to sequences of any length, by least      *)
(* counterexample; with it the invariant that the answers need is about    *)
(* the rows a batch has fetched and the model its replica has.             *)
(***************************************************************************)
EXTENDS Ranker, FiniteSetTheorems, SequenceTheorems, WellFoundedInduction, TLAPS

Queued(q, r) == \E i \in DOMAIN batch_queue[r] : batch_queue[r][i] = q
Batched(q, c) == \E i \in DOMAIN batch[c] : batch[c][i] = q

PlacesType ==
    /\ batch_queue \in [Replicas -> Seq(Requests)]
    /\ batch \in [Requests -> Seq(Requests)]
    /\ phase \in [Requests -> {"new", "called", "done", "failed", "cancelled"}]
    /\ DOMAIN on = Requests /\ on = [q \in Requests |-> on[q]]

\* A queue holds calls of its replica, each once.
QueueSound(r) ==
    /\ \A i \in DOMAIN batch_queue[r] :
         phase[batch_queue[r][i]] # "new" /\ on[batch_queue[r][i]] = r
    /\ \A i, j \in DOMAIN batch_queue[r] :
         batch_queue[r][i] = batch_queue[r][j] => i = j

\* A batch holds calls of its leader's replica, the leader first, and no call that
\* is in a queue or in another batch.
BatchSound(c) ==
    /\ batch[c] # <<>> => batch[c][1] = c
    /\ \A q \in Requests : Batched(q, c) =>
         /\ phase[q] # "new" /\ on[q] = on[c]
         /\ \A r \in Replicas : ~Queued(q, r)
         /\ \A d \in Requests : Batched(q, d) => d = c

\* No call is forgotten while it has a caller.
Kept(q) == phase[q] = "called" => /\ on[q] \in Replicas
                                  /\ Queued(q, on[q]) \/ \E c \in Requests : Batched(q, c)

IInv ==
    /\ PlacesType
    /\ \A r \in Replicas : QueueSound(r)
    /\ \A c \in Requests : BatchSound(c) /\ Kept(c)

LEMMA InitIInv == Init => IInv
<1> SUFFICES ASSUME Init PROVE IInv
  OBVIOUS
<1>1. PlacesType
  BY EmptySeq DEF Init, PlacesType
<1>2. \A r \in Replicas : batch_queue[r] = <<>> /\ DOMAIN batch_queue[r] = {}
  BY DEF Init
<1>3. \A c \in Requests : batch[c] = <<>> /\ DOMAIN batch[c] = {} /\ phase[c] = "new"
  BY DEF Init
<1>4. QED
  BY <1>1, <1>2, <1>3 DEF IInv, QueueSound, BatchSound, Batched, Kept

-----------------------------------------------------------------------------
\* A call that nobody made is nowhere, and leads nothing.
LEMMA NewIsNowhere ==
    ASSUME IInv, NEW q \in Requests, phase[q] = "new"
    PROVE  /\ \A r \in Replicas : ~Queued(q, r)
           /\ \A c \in Requests : ~Batched(q, c)
           /\ batch[q] = <<>>
<1>1. \A r \in Replicas : ~Queued(q, r)
  BY DEF IInv, QueueSound, Queued
<1>2. \A c \in Requests : ~Batched(q, c)
  BY DEF IInv, BatchSound
<1>3. ASSUME batch[q] # <<>> PROVE FALSE
  <2>1. batch[q] \in Seq(Requests) /\ Len(batch[q]) \in Nat \ {0}
    BY <1>3, EmptySeq DEF IInv, PlacesType
  <2>2. 1 \in DOMAIN batch[q]
    BY <2>1, LenProperties
  <2>3. Batched(q, q)
    BY <1>3, <2>2 DEF IInv, BatchSound, Batched
  <2>4. QED
    BY <1>2, <2>3
<1>4. QED
  BY <1>1, <1>2, <1>3

\* A step that moves no call keeps all of them where they are.
LEMMA NothingMoves ==
    ASSUME IInv, UNCHANGED <<batch_queue, batch, on>>,
           phase' \in [Requests -> {"new", "called", "done", "failed", "cancelled"}],
           \A q \in Requests : /\ phase'[q] = "new" => phase[q] = "new"
                               /\ phase'[q] = "called" => phase[q] = "called"
    PROVE  IInv'
<1>1. \A r \in Replicas : QueueSound(r)'
  <2>1. \A r \in Replicas : \A i \in DOMAIN batch_queue[r] :
          batch_queue[r][i] \in Requests
    BY ElementOfSeq, LenProperties DEF IInv, PlacesType
  <2>2. QED
    BY <2>1 DEF IInv, QueueSound
<1>2. \A c \in Requests : BatchSound(c)' /\ Kept(c)'
  BY DEF IInv, BatchSound, Kept, Batched, Queued
<1>3. QED
  BY <1>1, <1>2 DEF IInv, PlacesType

\* A call joins the queue of its replica.
LEMMA EnqueueKeeps ==
    ASSUME IInv, NEW q \in Requests, NEW r \in Replicas, phase[q] = "new",
           on' = [on EXCEPT ![q] = r], phase' = [phase EXCEPT ![q] = "called"],
           batch_queue' = [batch_queue EXCEPT ![r] = Append(@, q)], UNCHANGED batch
    PROVE  IInv'
<1> USE DEF IInv
<1> DEFINE s == batch_queue[r]
           t == Append(s, q)
<1>1. /\ \A x \in Replicas : ~Queued(q, x)
      /\ \A c \in Requests : ~Batched(q, c)
      /\ batch[q] = <<>>
  BY NewIsNowhere
<1>2. /\ s \in Seq(Requests) /\ Len(s) \in Nat /\ DOMAIN s = 1..Len(s)
      /\ t \in Seq(Requests) /\ Len(t) = Len(s) + 1 /\ DOMAIN t = 1..(Len(s) + 1)
      /\ \A i \in 1..Len(s) : t[i] = s[i] /\ s[i] \in Requests
      /\ t[Len(s) + 1] = q
  BY AppendProperties, LenProperties, ElementOfSeq DEF PlacesType
<1>3. /\ batch_queue'[r] = t
      /\ \A x \in Replicas \ {r} : batch_queue'[x] = batch_queue[x]
  BY DEF PlacesType
<1>4. PlacesType'
  BY <1>2 DEF PlacesType
<1> HIDE DEF t
<1>5. \A c \in Requests \ {q} : on'[c] = on[c] /\ phase'[c] = phase[c]
  BY DEF PlacesType
<1>6. on'[q] = r /\ phase'[q] = "called"
  BY DEF PlacesType
<1>7. ASSUME NEW x \in Replicas PROVE QueueSound(x)'
  <2>1. CASE x = r
    <3>1. \A i \in 1..Len(s) : s[i] # q
      BY <1>1, <1>2 DEF Queued
    <3>2. ASSUME NEW i \in DOMAIN t PROVE phase'[t[i]] # "new" /\ on'[t[i]] = r
      <4>1. CASE i = Len(s) + 1
        BY <1>2, <1>6, <4>1
      <4>2. CASE i \in 1..Len(s)
        BY <1>2, <1>5, <3>1, <4>2 DEF QueueSound
      <4>3. QED
        BY <1>2, <4>1, <4>2
    <3>3. ASSUME NEW i \in DOMAIN t, NEW j \in DOMAIN t, t[i] = t[j] PROVE i = j
      <4>1. CASE i \in 1..Len(s) /\ j \in 1..Len(s)
        BY <1>2, <3>3, <4>1 DEF QueueSound
      <4>2. CASE i = Len(s) + 1 \/ j = Len(s) + 1
        BY <1>2, <3>1, <3>3, <4>2
      <4>3. QED
        BY <1>2, <4>1, <4>2
    <3>4. QED
      BY <1>3, <2>1, <3>2, <3>3 DEF QueueSound
  <2>2. CASE x # r
    <3>1. \A i \in DOMAIN batch_queue[x] : /\ batch_queue[x][i] \in Requests
                                           /\ batch_queue[x][i] # q
      BY <1>1, LenProperties, ElementOfSeq DEF PlacesType, Queued
    <3>2. QED
      BY <1>3, <1>5, <2>2, <3>1 DEF QueueSound
  <2>3. QED
    BY <2>1, <2>2
<1>8. \A p \in Requests \ {q}, x \in Replicas : Queued(p, x)' <=> Queued(p, x)
  <2>1. ASSUME NEW p \in Requests \ {q} PROVE Queued(p, r)' <=> Queued(p, r)
    BY <1>2, <1>3 DEF Queued
  <2>2. QED
    BY <1>3, <2>1 DEF Queued
<1>9. Queued(q, r)'
  <2>1. Len(s) + 1 \in DOMAIN t
    BY <1>2
  <2>2. QED
    BY <1>2, <1>3, <2>1 DEF Queued
<1>10. \A p, c \in Requests : Batched(p, c)' <=> Batched(p, c)
  BY DEF Batched
<1>11. ASSUME NEW c \in Requests PROVE BatchSound(c)' /\ Kept(c)'
  <2>1. BatchSound(c)'
    <3>1. batch'[c] # <<>> => batch'[c][1] = c
      BY DEF BatchSound
    <3>2. ASSUME NEW p \in Requests, Batched(p, c)
          PROVE  p # q /\ c # q
      BY <1>1, <3>2 DEF Batched
    <3>3. QED
      BY <1>5, <1>8, <1>10, <3>1, <3>2 DEF BatchSound
  <2>2. Kept(c)'
    BY <1>5, <1>6, <1>8, <1>9, <1>10 DEF Kept
  <2>3. QED
    BY <2>1, <2>2
<1>12. QED
  BY <1>4, <1>7, <1>11

\* A call that is not to be batched is a batch of its own.
LEMMA AloneKeeps ==
    ASSUME IInv, NEW q \in Requests, NEW r \in Replicas, phase[q] = "new",
           on' = [on EXCEPT ![q] = r], phase' = [phase EXCEPT ![q] = "called"],
           batch' = [batch EXCEPT ![q] = <<q>>], UNCHANGED batch_queue
    PROVE  IInv'
<1> USE DEF IInv
<1>1. /\ \A x \in Replicas : ~Queued(q, x)
      /\ \A c \in Requests : ~Batched(q, c)
      /\ batch[q] = <<>>
  BY NewIsNowhere
<1>2. PlacesType'
  <2>1. <<q>> \in Seq(Requests)
    OBVIOUS
  <2>2. QED
    BY <2>1 DEF PlacesType
<1>3. /\ \A c \in Requests \ {q} : on'[c] = on[c] /\ phase'[c] = phase[c]
      /\ \A c \in Requests \ {q} : batch'[c] = batch[c]
      /\ on'[q] = r /\ phase'[q] = "called" /\ batch'[q] = <<q>>
  BY DEF PlacesType
<1>4. \A x \in Replicas : QueueSound(x)'
  <2>1. \A x \in Replicas : \A i \in DOMAIN batch_queue[x] :
          batch_queue[x][i] \in Requests \ {q}
    BY <1>1, LenProperties, ElementOfSeq DEF PlacesType, Queued
  <2>2. QED
    BY <1>3, <2>1 DEF QueueSound
<1>5. \A p \in Requests, x \in Replicas : Queued(p, x)' <=> Queued(p, x)
  BY DEF Queued
<1>6. /\ \A p \in Requests : Batched(p, q)' <=> p = q
      /\ \A p \in Requests, c \in Requests \ {q} : Batched(p, c)' <=> Batched(p, c)
      /\ \A p \in Requests : ~Batched(p, q)
  BY <1>1, <1>3 DEF Batched
<1>7. ASSUME NEW c \in Requests PROVE BatchSound(c)' /\ Kept(c)'
  <2>1. BatchSound(c)'
    <3>1. CASE c = q
      BY <1>1, <1>3, <1>5, <1>6, <3>1 DEF BatchSound
    <3>2. CASE c # q
      BY <1>1, <1>3, <1>5, <1>6, <3>2 DEF BatchSound
    <3>3. QED
      BY <3>1, <3>2
  <2>2. Kept(c)'
    BY <1>3, <1>5, <1>6 DEF Kept
  <2>3. QED
    BY <2>1, <2>2
<1>8. QED
  BY <1>2, <1>4, <1>7

\* The first calls of the queue become a batch of their own.
LEMMA FormBatchKeeps ==
    ASSUME IInv, NEW r \in Replicas, NEW n \in 1..Cardinality(Requests), FormBatch(r, n)
    PROVE  IInv'
<1> USE DEF IInv
<1> DEFINE s == batch_queue[r]
           b == SubSeq(s, 1, n)
           t == SubSeq(s, n + 1, Len(s))
<1>1. /\ n \in 1..Len(s) /\ batch' = [batch EXCEPT ![Head(s)] = b]
      /\ batch_queue' = [batch_queue EXCEPT ![r] = t]
      /\ UNCHANGED <<phase, on>>
  BY DEF FormBatch
<1>2. /\ s \in Seq(Requests) /\ Len(s) \in Nat /\ DOMAIN s = 1..Len(s)
      /\ \A i \in 1..Len(s) : s[i] \in Requests
  BY LenProperties, ElementOfSeq DEF PlacesType
<1>3. PICK h \in Requests : h = Head(s) /\ h = s[1] /\ Queued(h, r)
  <2>1. s # <<>> /\ 1 \in 1..Len(s)
    BY <1>1, <1>2
  <2>2. Head(s) = s[1] /\ s[1] \in Requests
    BY <1>2, <2>1
  <2>3. \E i \in DOMAIN s : s[i] = s[1]
    BY <1>2, <2>1
  <2> HIDE DEF s
  <2>4. QED
    BY <2>2, <2>3 DEF Queued, s
<1>4. /\ b \in Seq(Requests) /\ DOMAIN b = 1..n /\ b # <<>>
      /\ \A i \in 1..n : b[i] = s[i]
  BY <1>1, <1>2
<1>5. /\ t \in Seq(Requests) /\ DOMAIN t = 1..(Len(s) - n)
      /\ \A i \in 1..(Len(s) - n) : t[i] = s[n + i]
  BY <1>1, <1>2
<1> HIDE DEF b, t
<1>6. batch[h] = <<>> /\ \A p \in Requests : ~Batched(p, h)
  <2>1. ASSUME batch[h] # <<>> PROVE FALSE
    <3>1. batch[h] \in Seq(Requests) /\ Len(batch[h]) \in Nat \ {0}
      BY <1>3, <2>1, EmptySeq DEF PlacesType
    <3>2. 1 \in DOMAIN batch[h]
      BY <3>1, LenProperties
    <3>3. Batched(h, h)
      BY <1>3, <2>1, <3>2 DEF BatchSound, Batched
    <3>4. QED
      BY <1>3, <3>3 DEF BatchSound
  <2>2. QED
    BY <2>1 DEF Batched
<1>7. PlacesType'
  BY <1>1, <1>3, <1>4, <1>5 DEF PlacesType
<1>8. /\ batch'[h] = b /\ \A c \in Requests \ {h} : batch'[c] = batch[c]
      /\ batch_queue'[r] = t /\ \A x \in Replicas \ {r} : batch_queue'[x] = batch_queue[x]
  BY <1>1, <1>3 DEF PlacesType
<1>9. ASSUME NEW x \in Replicas PROVE QueueSound(x)'
  <2>1. CASE x = r
    <3>1. ASSUME NEW i \in DOMAIN t PROVE n + i \in DOMAIN s /\ t[i] = s[n + i] /\ i \in Nat
      BY <1>1, <1>2, <1>5
    <3>2. \A i \in DOMAIN t : phase[t[i]] # "new" /\ on[t[i]] = r
      BY <3>1 DEF QueueSound
    <3>3. ASSUME NEW i \in DOMAIN t, NEW j \in DOMAIN t, t[i] = t[j] PROVE i = j
      <4>1. n + i = n + j
        BY <3>1, <3>3 DEF QueueSound
      <4>2. QED
        BY <1>1, <3>1, <4>1
    <3>4. QED
      BY <1>1, <1>8, <2>1, <3>2, <3>3 DEF QueueSound
  <2>2. CASE x # r
    BY <1>1, <1>8, <2>2 DEF QueueSound
  <2>3. QED
    BY <2>1, <2>2
<1>10. /\ \A p \in Requests, x \in Replicas : Queued(p, x)' => Queued(p, x)
       /\ \A p \in Requests, x \in Replicas :
            Queued(p, x) => Queued(p, x)' \/ (x = r /\ Batched(p, h)')
       /\ \A p \in Requests : Batched(p, h)' => Queued(p, r) /\ ~Queued(p, r)'
  <2>1. ASSUME NEW p \in Requests
        PROVE  /\ Queued(p, r)' => Queued(p, r)
               /\ Queued(p, r) => Queued(p, r)' \/ Batched(p, h)'
               /\ Batched(p, h)' => Queued(p, r) /\ ~Queued(p, r)'
    <3>1. Queued(p, r) <=> \E i \in 1..Len(s) : s[i] = p
      BY <1>2 DEF Queued
    <3>2. Queued(p, r)' <=> \E i \in 1..(Len(s) - n) : s[n + i] = p
      BY <1>5, <1>8 DEF Queued
    <3>3. Batched(p, h)' <=> \E i \in 1..n : s[i] = p
      <4>1. Batched(p, h)' <=> \E i \in DOMAIN b : b[i] = p
        BY <1>8 DEF Batched
      <4>2. QED
        BY <1>4, <4>1
    <3>4. \A i \in 1..(Len(s) - n) : n + i \in 1..Len(s)
      BY <1>1, <1>2
    <3>5. ASSUME NEW i \in 1..Len(s), ~(i \in 1..n)
          PROVE  i - n \in 1..(Len(s) - n) /\ n + (i - n) = i
      BY <1>1, <1>2, <3>5
    <3>6. ASSUME NEW i \in 1..n, NEW j \in 1..(Len(s) - n), s[i] = s[n + j] PROVE FALSE
      <4>1. i \in DOMAIN s /\ n + j \in DOMAIN s /\ i # n + j
        BY <1>1, <1>2
      <4>2. QED
        BY <3>6, <4>1 DEF QueueSound
    <3>7. Queued(p, r)' => Queued(p, r)
      BY <3>1, <3>2, <3>4
    <3>8. Queued(p, r) => Queued(p, r)' \/ Batched(p, h)'
      BY <3>1, <3>2, <3>3, <3>5
    <3>9. Batched(p, h)' => Queued(p, r) /\ ~Queued(p, r)'
      <4>1. \A i \in 1..n : i \in 1..Len(s)
        BY <1>1, <1>2
      <4>2. QED
        BY <3>1, <3>2, <3>3, <3>6, <4>1
    <3>10. QED
      BY <3>7, <3>8, <3>9
  <2>2. \A p \in Requests, x \in Replicas \ {r} : Queued(p, x)' <=> Queued(p, x)
    BY <1>8 DEF Queued
  <2>3. QED
    BY <2>1, <2>2
<1>11. \A p \in Requests, c \in Requests \ {h} : Batched(p, c)' <=> Batched(p, c)
  BY <1>8 DEF Batched
<1>12. ASSUME NEW c \in Requests PROVE BatchSound(c)' /\ Kept(c)'
  <2>1. BatchSound(c)'
    <3>1. CASE c = h
      <4>1. b[1] = h
        BY <1>1, <1>3, <1>4
      <4>2. on[h] = r
        BY <1>3 DEF QueueSound, Queued
      <4>3. ASSUME NEW p \in Requests, Batched(p, h)'
            PROVE  /\ phase[p] # "new" /\ on[p] = r
                   /\ \A x \in Replicas : ~Queued(p, x)'
                   /\ \A d \in Requests : Batched(p, d)' => d = h
        <5>1. Queued(p, r) /\ ~Queued(p, r)'
          BY <1>10, <4>3
        <5>2. phase[p] # "new" /\ on[p] = r
          BY <5>1 DEF QueueSound, Queued
        <5>3. \A x \in Replicas : Queued(p, x) => x = r
          BY <5>2 DEF QueueSound, Queued
        <5>4. \A d \in Requests : ~Batched(p, d)
          BY <5>1 DEF BatchSound
        <5>5. QED
          BY <1>10, <1>11, <5>1, <5>2, <5>3, <5>4
      <4>4. QED
        BY <1>1, <1>8, <3>1, <4>1, <4>2, <4>3 DEF BatchSound
    <3>2. CASE c # h
      <4>1. ASSUME NEW p \in Requests, Batched(p, c)'
            PROVE  /\ phase[p] # "new" /\ on[p] = on[c]
                   /\ \A x \in Replicas : ~Queued(p, x)'
                   /\ \A d \in Requests : Batched(p, d)' => d = c
        <5>1. Batched(p, c)
          BY <1>11, <3>2, <4>1
        <5>2. \A x \in Replicas : ~Queued(p, x)
          BY <5>1 DEF BatchSound
        <5>3. ~Batched(p, h)'
          BY <1>10, <5>2
        <5>4. QED
          BY <1>10, <1>11, <5>1, <5>2, <5>3 DEF BatchSound
      <4>2. batch'[c] # <<>> => batch'[c][1] = c
        BY <1>8, <3>2 DEF BatchSound
      <4>3. QED
        BY <1>1, <4>1, <4>2 DEF BatchSound
    <3>3. QED
      BY <3>1, <3>2
  <2>2. Kept(c)'
    <3>1. ASSUME phase[c] = "called"
          PROVE  /\ on[c] \in Replicas
                 /\ Queued(c, on[c])' \/ \E d \in Requests : Batched(c, d)'
      <4>1. on[c] \in Replicas /\ (Queued(c, on[c]) \/ \E d \in Requests : Batched(c, d))
        BY <3>1 DEF Kept
      <4>2. CASE Queued(c, on[c])
        <5>1. Queued(c, on[c])' \/ Batched(c, h)'
          <6>1. \A x \in Replicas : Queued(c, x) => Queued(c, x)' \/ Batched(c, h)'
            BY <1>10
          <6>2. on' = on
            BY <1>1
          <6>3. QED
            BY <4>1, <4>2, <6>1, <6>2 DEF Queued
        <5>2. QED
          BY <1>3, <4>1, <5>1
      <4>3. CASE \E d \in Requests : Batched(c, d)
        BY <1>6, <1>11, <4>1, <4>3
      <4>4. QED
        BY <4>1, <4>2, <4>3
    <3>2. QED
      BY <1>1, <3>1 DEF Kept, Queued
  <2>3. QED
    BY <2>1, <2>2
<1>13. QED
  BY <1>7, <1>9, <1>12

\* A batch ends for its calls, and it is the only one they were in.
LEMMA EndBatchKeeps ==
    ASSUME IInv, NEW q \in Requests, NEW outcome \in {"done", "failed"},
           EndBatch(q, outcome)
    PROVE  IInv'
<1> USE DEF IInv
<1>1. /\ batch' = [batch EXCEPT ![q] = <<>>]
      /\ phase' = [c \in Requests |-> IF c \in Waiting(batch[q]) THEN outcome ELSE phase[c]]
      /\ UNCHANGED <<batch_queue, on>>
  BY DEF EndBatch
<1>2. PlacesType'
  BY <1>1, EmptySeq DEF PlacesType
<1>3. \A c \in Requests : /\ phase'[c] = "new" => phase[c] = "new"
                          /\ phase'[c] = "called" => phase[c] = "called" /\ ~Batched(c, q)
  BY <1>1 DEF Waiting, ToSet, Batched
<1>4. \A x \in Replicas : QueueSound(x)'
  <2>1. \A x \in Replicas : \A i \in DOMAIN batch_queue[x] : batch_queue[x][i] \in Requests
    BY LenProperties, ElementOfSeq DEF PlacesType
  <2>2. QED
    BY <1>1, <1>3, <2>1 DEF QueueSound
<1>5. /\ \A p \in Requests : ~Batched(p, q)'
      /\ \A p \in Requests, c \in Requests \ {q} : Batched(p, c)' <=> Batched(p, c)
      /\ \A p \in Requests, x \in Replicas : Queued(p, x)' <=> Queued(p, x)
  BY <1>1 DEF Batched, Queued, PlacesType
<1>6. ASSUME NEW c \in Requests PROVE BatchSound(c)' /\ Kept(c)'
  <2>1. batch'[c] # <<>> => batch'[c][1] = c
    BY <1>1 DEF BatchSound, PlacesType
  <2>2. BatchSound(c)'
    BY <1>1, <1>3, <1>5, <2>1 DEF BatchSound
  <2>3. Kept(c)'
    BY <1>1, <1>3, <1>5 DEF Kept
  <2>4. QED
    BY <2>2, <2>3
<1>7. QED
  BY <1>2, <1>4, <1>6

LEMMA NextIInv == IInv /\ [Next]_vars => IInv'
<1> SUFFICES ASSUME IInv, [Next]_vars PROVE IInv'
  OBVIOUS
<1>1. ASSUME NEW q \in Requests, NEW r \in Replicas, Call(q, r) PROVE IInv'
  BY <1>1, EnqueueKeeps, AloneKeeps DEF Call
<1>2. ASSUME NEW q \in Requests, Respond(q) \/ StoreFails(q) PROVE IInv'
  BY <1>2, EndBatchKeeps DEF Respond, Answered, StoreFails
<1>3. ASSUME NEW r \in Replicas,
             LoadModel(r) \/ \E size \in BatchSizes : reconfigure(r, size)
      PROVE  IInv'
  BY <1>3, NothingMoves DEF LoadModel, reconfigure, IInv, PlacesType
<1>4. ASSUME NEW q \in Requests, BatchGet(q) \/ Cancel(q) PROVE IInv'
  BY <1>4, NothingMoves DEF BatchGet, Cancel, IInv, PlacesType
<1>5. CASE UNCHANGED vars
  BY <1>5, NothingMoves DEF vars, batchVars, IInv, PlacesType
<1>6. QED
  BY <1>1, <1>2, <1>3, <1>4, <1>5, FormBatchKeeps DEF Next

\* A call is in exactly one place until its caller is served: waiting in the queue of
\* its replica or in one batch there.
THEOREM OnePlace == Spec => []InOnePlace
<1>1. IInv => InOnePlace
  <2> SUFFICES ASSUME IInv, NEW q \in Requests, phase[q] = "called"
               PROVE  Cardinality({<<"queue", i>> : i \in {i \in DOMAIN batch_queue[on[q]] :
                                                       batch_queue[on[q]][i] = q}}
                        \cup {<<"batch", c>> : c \in {c \in Requests :
                                on[c] = on[q] /\ q \in ToSet(batch[c])}}) = 1
    BY DEF InOnePlace
  <2> DEFINE waits == {i \in DOMAIN batch_queue[on[q]] : batch_queue[on[q]][i] = q}
             leads == {c \in Requests : on[c] = on[q] /\ q \in ToSet(batch[c])}
             places == {<<"queue", i>> : i \in waits} \cup {<<"batch", c>> : c \in leads}
  <2>1. on[q] \in Replicas /\ (Queued(q, on[q]) \/ \E c \in Requests : Batched(q, c))
    BY DEF IInv, Kept
  <2>2. \A c \in Requests : q \in ToSet(batch[c]) <=> Batched(q, c)
    BY DEF ToSet, Batched
  <2>3. \E place : places = {place}
    <3>1. CASE Queued(q, on[q])
      <4>1. PICK i \in DOMAIN batch_queue[on[q]] : batch_queue[on[q]][i] = q
        BY <3>1 DEF Queued
      <4>2. waits = {i}
        BY <2>1, <4>1 DEF IInv, QueueSound
      <4>3. leads = {}
        BY <2>1, <2>2, <3>1 DEF IInv, BatchSound
      <4>4. places = {<<"queue", i>>}
        BY <4>2, <4>3
      <4>5. QED
        BY <4>4
    <3>2. CASE \E c \in Requests : Batched(q, c)
      <4>1. PICK c \in Requests : Batched(q, c)
        BY <3>2
      <4>2. leads = {c}
        BY <2>2, <4>1 DEF IInv, BatchSound
      <4>3. waits = {}
        BY <2>1, <4>1 DEF IInv, BatchSound, Queued
      <4>4. places = {<<"batch", c>>}
        BY <4>2, <4>3
      <4>5. QED
        BY <4>4
    <3>3. QED
      BY <2>1, <3>1, <3>2
  <2> HIDE DEF places
  <2>4. Cardinality(places) = 1
    BY <2>3, FS_Singleton
  <2>5. QED
    BY <2>4 DEF places
<1>2. QED
  BY <1>1, InitIInv, NextIInv, PTL DEF Spec

-----------------------------------------------------------------------------
(* Induction, by a least counterexample.                                   *)

\* A nonempty set of naturals has a least element: induction is by a least
\* counterexample.
LEMMA Least ==
    ASSUME NEW S \in SUBSET Nat, S # {}
    PROVE  \E x \in S : \A y \in S : x <= y
<1>1. PICK x \in S : \A y \in S : ~(<<y, x>> \in OpToRel(<, Nat))
  BY NatLessThanWellFounded, WFMin, Zenon
<1>2. ASSUME NEW y \in S PROVE x <= y
  <2> DEFINE pair == <<y, x>>
  <2>1. pair \in Nat \X Nat /\ pair[1] = y /\ pair[2] = x
    OBVIOUS
  <2>2. ~(pair \in {ss \in Nat \X Nat : ss[1] < ss[2]})
    BY <1>1 DEF OpToRel
  <2>3. ~(pair[1] < pair[2])
    BY <2>1, <2>2
  <2>4. QED
    BY <2>1, <2>3
<1>3. QED
  BY <1>2

-----------------------------------------------------------------------------
(* Orders, as sets of pairs.                                               *)
Orders(R, S) ==
    /\ \A x \in S : <<x, x>> \notin R
    /\ \A x, y \in S : x = y \/ <<x, y>> \in R \/ <<y, x>> \in R
    /\ \A x, y, z \in S : <<x, y>> \in R /\ <<y, z>> \in R => <<x, z>> \in R

\* s lists the n elements of S by R.
Lists(s, n, S, R) == /\ s \in [1..n -> S]
                     /\ \A j \in 1..n : \A i \in 1..(j - 1) : <<s[i], s[j]>> \in R

\* A finite set can be listed by an order: each element stands behind those before it.
LEMMA ListExists ==
    ASSUME NEW S, IsFiniteSet(S), NEW R, Orders(R, S)
    PROVE  \E s : Lists(s, Cardinality(S), S, R)
<1> DEFINE n == Cardinality(S)
           below(x) == {y \in S : <<y, x>> \in R}
           rank == [x \in S |-> Cardinality(below(x)) + 1]
<1>0. n \in Nat
  BY FS_CardinalityType
<1>1. ASSUME NEW x \in S
      PROVE  IsFiniteSet(below(x)) /\ Cardinality(below(x)) \in 0..(n - 1)
  <2>1. below(x) \in SUBSET (S \ {x})
    BY DEF Orders
  <2>2. IsFiniteSet(S \ {x}) /\ Cardinality(S \ {x}) = n - 1
    BY FS_RemoveElement
  <2> HIDE DEF below, n
  <2>3. IsFiniteSet(below(x)) /\ Cardinality(below(x)) <= n - 1
    BY <2>1, <2>2, FS_Subset
  <2>4. QED
    BY <1>0, <2>3, FS_CardinalityType
<1>2. ASSUME NEW x \in S, NEW y \in S, <<x, y>> \in R
      PROVE  Cardinality(below(x)) < Cardinality(below(y))
  <2>1. below(x) \in SUBSET below(y) /\ x \in below(y) /\ x \notin below(x)
    BY <1>2 DEF Orders
  <2> HIDE DEF below, n
  <2>2. Cardinality(below(x)) <= Cardinality(below(y))
    BY <1>1, <2>1, FS_Subset
  <2>3. Cardinality(below(x)) # Cardinality(below(y))
    BY <1>1, <2>1, FS_Subset
  <2>4. QED
    BY <1>0, <1>1, <2>2, <2>3
<1> HIDE DEF below
<1>3. rank \in [S -> 1..n]
  BY <1>0, <1>1
<1>4. \A x, y \in S : <<x, y>> \in R => rank[x] < rank[y]
  BY <1>0, <1>1, <1>2
<1> HIDE DEF rank, n
<1>5. rank \in Injection(S, 1..n)
  <2>1. ASSUME NEW x \in S, NEW y \in S, rank[x] = rank[y] PROVE x = y
    <3>1. ~(rank[x] < rank[y]) /\ ~(rank[y] < rank[x])
      BY <1>3, <2>1
    <3>2. QED
      BY <1>4, <3>1 DEF Orders
  <2>2. QED
    BY <1>3, <2>1 DEF Injection, IsInjective
<1>6. rank \in Surjection(S, 1..n)
  <2>1. IsFiniteSet(1..n) /\ Cardinality(1..n) = n
    BY <1>0, FS_Interval
  <2>2. QED
    BY <1>5, <2>1, FS_Injection DEF n
<1> DEFINE s == [k \in 1..n |-> CHOOSE x \in S : rank[x] = k]
<1>7. \A k \in 1..n : s[k] \in S /\ rank[s[k]] = k
  BY <1>6 DEF Surjection
<1>8. s \in [1..n -> S]
  BY <1>7
<1> HIDE DEF s
<1>9. ASSUME NEW j \in 1..n, NEW i \in 1..(j - 1) PROVE <<s[i], s[j]>> \in R
  <2>1. i \in 1..n /\ i < j
    BY <1>0
  <2>2. s[i] \in S /\ s[j] \in S /\ rank[s[i]] = i /\ rank[s[j]] = j
    BY <1>7, <2>1
  <2>3. s[i] # s[j] /\ <<s[j], s[i]>> \notin R
    BY <1>4, <2>1, <2>2
  <2>4. QED
    BY <2>2, <2>3 DEF Orders
<1>10. QED
  BY <1>8, <1>9 DEF Lists, n

\* A list by an order has every element once.
LEMMA ListsAll ==
    ASSUME NEW S, NEW n, IsFiniteSet(S), Cardinality(S) = n, NEW R, Orders(R, S),
           NEW s, Lists(s, n, S, R)
    PROVE  /\ \A x \in S : \E k \in 1..n : s[k] = x
           /\ \A i, j \in 1..n : s[i] = s[j] => i = j
<1>0. n \in Nat
  BY FS_CardinalityType
<1>1. s \in [1..n -> S]
  BY DEF Lists
<1>2. ASSUME NEW i \in 1..n, NEW j \in 1..n, s[i] = s[j] PROVE i = j
  <2>1. \A a, b \in 1..n : a < b => <<s[a], s[b]>> \in R
    <3>1. \A a, b \in 1..n : a < b => a \in 1..(b - 1)
      BY <1>0
    <3>2. QED
      BY <3>1 DEF Lists
  <2>2. \A a, b \in 1..n : a < b => s[a] # s[b]
    BY <1>1, <2>1 DEF Orders
  <2>3. i < j \/ j < i \/ i = j
    BY <1>0
  <2>4. QED
    BY <1>2, <2>2, <2>3
<1>3. s \in Injection(1..n, S)
  BY <1>1, <1>2 DEF Injection, IsInjective
<1>4. Cardinality(1..n) = n
  BY <1>0, FS_Interval
<1>5. s \in Surjection(1..n, S)
  BY <1>3, <1>4, FS_Injection
<1>6. QED
  BY <1>2, <1>5 DEF Surjection

-----------------------------------------------------------------------------
\* Falling scores, and positions where they are equal, order the positions.
LEMMA ScoreOrder ==
    ASSUME NEW n \in Nat, NEW v \in [1..n -> Int], NEW R,
           \A a, b \in 1..n : <<a, b>> \in R <=> v[a] > v[b] \/ (v[a] = v[b] /\ a < b)
    PROVE  Orders(R, 1..n)
<1>1. \A x \in 1..n : <<x, x>> \notin R
  OBVIOUS
<1>2. ASSUME NEW x \in 1..n, NEW y \in 1..n
      PROVE  x = y \/ <<x, y>> \in R \/ <<y, x>> \in R
  <2>1. v[x] \in Int /\ v[y] \in Int /\ x \in Int /\ y \in Int
    OBVIOUS
  <2>2. \A a, b, i, j \in Int : i = j \/ a > b \/ b > a \/ (a = b /\ (i < j \/ j < i))
    OBVIOUS
  <2>3. \/ x = y \/ v[x] > v[y] \/ v[y] > v[x]
        \/ v[x] = v[y] /\ (x < y \/ y < x)
    BY <2>1, <2>2
  <2>4. QED
    BY <2>3
<1>3. ASSUME NEW x \in 1..n, NEW y \in 1..n, NEW z \in 1..n,
             <<x, y>> \in R, <<y, z>> \in R
      PROVE  <<x, z>> \in R
  <2>1. v[x] \in Int /\ v[y] \in Int /\ v[z] \in Int
    OBVIOUS
  <2>2. /\ v[x] > v[y] \/ (v[x] = v[y] /\ x < y)
        /\ v[y] > v[z] \/ (v[y] = v[z] /\ y < z)
    BY <1>3
  <2>3. v[x] > v[z] \/ (v[x] = v[z] /\ x < z)
    BY <2>1, <2>2
  <2>4. QED
    BY <2>3
<1>4. QED
  BY <1>1, <1>2, <1>3 DEF Orders

\* at lists the positions of scored, a higher score first and the earlier of two equal
\* scores, and ranked is scored in that order.
RankedBy(at, n, scored, ranked) ==
    /\ at \in [1..n -> 1..n] /\ ranked = [k \in 1..n |-> scored[at[k]]]
    /\ \A i \in 1..n : \E k \in 1..n : at[k] = i
    /\ \A k \in 1..(n - 1) :
         \/ scored[at[k]].score > scored[at[k + 1]].score
         \/ /\ scored[at[k]].score = scored[at[k + 1]].score
            /\ at[k] < at[k + 1]

\* A slate is ranked by its positions, each taken once.
LEMMA RankedIs ==
    ASSUME NEW n \in Nat, NEW scored, DOMAIN scored = 1..n,
           \A i \in 1..n : scored[i].score \in Int
    PROVE  \E at : RankedBy(at, n, scored, Ranked(scored))
<1> DEFINE Before(a, b) == \/ scored[a].score > scored[b].score
                           \/ scored[a].score = scored[b].score /\ a < b
           R == {p \in (1..n) \X (1..n) : Before(p[1], p[2])}
<1>1. \A a, b \in 1..n : <<a, b>> \in R <=> Before(a, b)
  OBVIOUS
<1>2. Orders(R, 1..n)
  <2> DEFINE v == [i \in 1..n |-> scored[i].score]
  <2>1. v \in [1..n -> Int] /\ \A i \in 1..n : scored[i].score = v[i]
    OBVIOUS
  <2> HIDE DEF R, v
  <2>2. \A a, b \in 1..n : <<a, b>> \in R <=> v[a] > v[b] \/ (v[a] = v[b] /\ a < b)
    BY <1>1, <2>1
  <2>3. QED
    BY <2>1, <2>2, ScoreOrder
<1>3. IsFiniteSet(1..n) /\ Cardinality(1..n) = n
  BY FS_Interval
<1> DEFINE Sorted(s) == /\ s \in [1..Cardinality(DOMAIN scored) -> DOMAIN scored]
                        /\ \A j \in DOMAIN s : \A i \in 1..(j - 1) : Before(s[i], s[j])
           at == CHOOSE s \in [1..Cardinality(DOMAIN scored) -> DOMAIN scored] :
                   \A j \in DOMAIN s : \A i \in 1..(j - 1) : Before(s[i], s[j])
<1>4. ASSUME NEW s PROVE Sorted(s) <=> Lists(s, n, 1..n, R)
  <2>1. ASSUME s \in [1..n -> 1..n]
        PROVE  \A j \in 1..n : \A i \in 1..(j - 1) :
                 Before(s[i], s[j]) <=> <<s[i], s[j]>> \in R
    <3>1. \A j \in 1..n : \A i \in 1..(j - 1) : i \in 1..n /\ s[i] \in 1..n /\ s[j] \in 1..n
      BY <2>1
    <3> HIDE DEF R
    <3>2. QED
      BY <1>1, <3>1
  <2> HIDE DEF R, Before
  <2>2. QED
    BY <1>3, <2>1 DEF Lists
<1>5. Lists(at, n, 1..n, R)
  <2>1. PICK s : Lists(s, n, 1..n, R)
    BY <1>2, <1>3, ListExists
  <2>2. Sorted(s)
    BY <1>4, <2>1
  <2> HIDE DEF Before, R
  <2>3. Sorted(at)
    BY <2>2
  <2> HIDE DEF at
  <2>4. QED
    BY <1>4, <2>3
<1>6. Ranked(scored) = [k \in DOMAIN at |-> scored[at[k]]]
  BY DEF Ranked, InOrder
<1> HIDE DEF at, R
<1>7. at \in [1..n -> 1..n]
  BY <1>5 DEF Lists
<1>8. \A i \in 1..n : \E k \in 1..n : at[k] = i
  <2> DEFINE D == 1..n
  <2>1. IsFiniteSet(D) /\ Cardinality(D) = n /\ Orders(R, D) /\ Lists(at, n, D, R)
    BY <1>2, <1>3, <1>5
  <2> HIDE DEF D
  <2>2. \A x \in D : \E k \in 1..n : at[k] = x
    BY <2>1, ListsAll
  <2>3. QED
    BY <2>2 DEF D
<1>9. ASSUME NEW k \in 1..(n - 1) PROVE Before(at[k], at[k + 1])
  <2>1. k + 1 \in 1..n /\ k \in 1..((k + 1) - 1) /\ k \in 1..n
    OBVIOUS
  <2>2. <<at[k], at[k + 1]>> \in R
    BY <1>5, <2>1 DEF Lists
  <2>3. QED
    BY <1>1, <1>7, <2>1, <2>2
<1>10. QED
  BY <1>6, <1>7, <1>8, <1>9 DEF RankedBy

\* Deduplicated candidates are candidates, each once.
LEMMA UniqueIs ==
    ASSUME NEW ids \in Seq(Candidates)
    PROVE  \E n \in Nat : /\ Unique(ids) \in [1..n -> Candidates]
                          /\ \A i, j \in 1..n : Unique(ids)[i] = Unique(ids)[j] => i = j
<1>0. Len(ids) \in Nat /\ ids \in [1..Len(ids) -> Candidates]
  OBVIOUS
<1> DEFINE S == {i \in DOMAIN ids : \A j \in 1..(i - 1) : ids[j] # ids[i]}
           n == Cardinality(S)
           R == {p \in S \X S : p[1] < p[2]}
<1>1. S \in SUBSET (1..Len(ids)) /\ S \in SUBSET Nat
  BY <1>0
<1>2. IsFiniteSet(S) /\ n \in Nat
  <2>1. IsFiniteSet(1..Len(ids))
    BY <1>0, FS_Interval
  <2> HIDE DEF S
  <2>2. QED
    BY <1>1, <2>1, FS_Subset, FS_CardinalityType
<1>3. \A a, b \in S : ids[a] = ids[b] => a = b
  <2>1. ASSUME NEW a \in S, NEW b \in S, a < b PROVE ids[a] # ids[b]
    <3>1. a \in 1..(b - 1)
      BY <1>1, <2>1
    <3>2. QED
      BY <3>1
  <2>2. QED
    BY <1>1, <2>1
<1>4. \A a, b \in S : <<a, b>> \in R <=> a < b
  OBVIOUS
<1>5. \A a \in S : ids[a] \in Candidates
  BY <1>0
<1> DEFINE Sorted(s) == /\ s \in [1..Cardinality(S) -> S]
                        /\ \A j \in DOMAIN s : \A i \in 1..(j - 1) : s[i] < s[j]
           at == CHOOSE s \in [1..Cardinality(S) -> S] :
                   \A j \in DOMAIN s : \A i \in 1..(j - 1) : s[i] < s[j]
<1>6. Unique(ids) = [k \in DOMAIN at |-> ids[at[k]]]
  BY DEF Unique, InOrder
<1> HIDE DEF S, R
<1>7. Orders(R, S)
  BY <1>1, <1>4 DEF Orders
<1>8. ASSUME NEW s PROVE Sorted(s) <=> Lists(s, n, S, R)
  <2>1. ASSUME s \in [1..n -> S]
        PROVE  \A j \in 1..n : \A i \in 1..(j - 1) : s[i] < s[j] <=> <<s[i], s[j]>> \in R
    <3>1. \A j \in 1..n : \A i \in 1..(j - 1) : i \in 1..n /\ s[i] \in S /\ s[j] \in S
      BY <1>2, <2>1
    <3>2. QED
      BY <1>4, <3>1
  <2>2. QED
    BY <2>1 DEF Lists
<1>9. Lists(at, n, S, R)
  <2>1. PICK s : Lists(s, n, S, R)
    BY <1>2, <1>7, ListExists
  <2>2. Sorted(s)
    BY <1>8, <2>1
  <2>3. Sorted(at)
    BY <2>2
  <2>4. QED
    BY <1>8, <2>3
<1> HIDE DEF at
<1>10. at \in [1..n -> S] /\ \A i, j \in 1..n : at[i] = at[j] => i = j
  BY <1>2, <1>7, <1>9, ListsAll DEF Lists
<1> HIDE DEF n
<1>11. QED
  BY <1>2, <1>3, <1>5, <1>6, <1>10

-----------------------------------------------------------------------------
(* Offsets: how long the slates before one are together.                   *)
Offsets(c, n, off) == /\ off \in [0..n -> Nat] /\ off[0] = 0
                      /\ \A i \in 1..n : off[i] = off[i - 1] + c[i]

\* What is true of nothing and of one more is true of all.
LEMMA UpTo ==
    ASSUME NEW n \in Nat, NEW S \in SUBSET (0..n), 0 \in S,
           \A k \in 1..n : k - 1 \in S => k \in S
    PROVE  S = 0..n
<1> DEFINE Bad == (0..n) \ S
<1>1. SUFFICES ASSUME Bad # {} PROVE FALSE
  OBVIOUS
<1>2. Bad \in SUBSET Nat
  OBVIOUS
<1>3. PICK m \in Bad : \A k \in Bad : m <= k
  <2> HIDE DEF Bad
  <2>1. QED
    BY <1>1, <1>2, Least
<1>4. m \in 1..n /\ m - 1 \in (0..n) \ Bad
  <2>1. m \in 0..n /\ m # 0
    OBVIOUS
  <2>2. m - 1 \in 0..n /\ ~(m <= m - 1)
    BY <2>1
  <2> HIDE DEF Bad
  <2>3. m - 1 \notin Bad
    BY <1>3, <2>2
  <2>4. QED
    BY <2>1, <2>2, <2>3
<1>5. QED
  BY <1>4

\* Running totals of any counts exist.
LEMMA OffsetsExist ==
    ASSUME NEW n \in Nat, NEW c \in [1..n -> Nat]
    PROVE  \E off : Offsets(c, n, off)
<1> DEFINE S == {k \in 0..n : \E off : Offsets(c, k, off)}
<1>1. 0 \in S
  <2> DEFINE off == [k \in 0..0 |-> 0]
  <2>1. Offsets(c, 0, off)
    BY DEF Offsets
  <2>2. QED
    BY <2>1
<1>2. ASSUME NEW k \in 1..n, k - 1 \in S PROVE k \in S
  <2>1. PICK off : Offsets(c, k - 1, off)
    BY <1>2
  <2> DEFINE more == [i \in 0..k |-> IF i = k THEN off[k - 1] + c[k] ELSE off[i]]
  <2>2. off[k - 1] \in Nat /\ c[k] \in Nat /\ k - 1 \in 0..(k - 1)
    BY <2>1 DEF Offsets
  <2>3. \A i \in 0..(k - 1) : more[i] = off[i]
    OBVIOUS
  <2>4. more \in [0..k -> Nat] /\ more[0] = 0
    BY <2>1, <2>2 DEF Offsets
  <2>5. ASSUME NEW i \in 1..k PROVE more[i] = more[i - 1] + c[i]
    <3>1. CASE i = k
      BY <2>2, <2>3, <3>1
    <3>2. CASE i # k
      <4>1. i \in 1..(k - 1) /\ i \in 0..(k - 1) /\ i - 1 \in 0..(k - 1)
        BY <3>2
      <4>2. off[i] = off[i - 1] + c[i]
        BY <2>1, <4>1 DEF Offsets
      <4>3. QED
        BY <2>3, <4>1, <4>2
    <3>3. QED
      BY <3>1, <3>2
  <2> HIDE DEF more
  <2>6. Offsets(c, k, more)
    BY <2>4, <2>5 DEF Offsets
  <2>7. QED
    BY <2>6
<1>3. S = 0..n
  <2>1. S \in SUBSET (0..n)
    OBVIOUS
  <2> HIDE DEF S
  <2>2. QED
    BY <1>1, <1>2, <2>1, UpTo
<1>4. QED
  <2>1. n \in S
    <3> HIDE DEF S
    <3>1. QED
      BY <1>3
  <2>2. QED
    BY <2>1

\* Offsets never fall.
LEMMA OffsetsRise ==
    ASSUME NEW n \in Nat, NEW c \in [1..n -> Nat], NEW off, Offsets(c, n, off),
           NEW i \in 0..n, NEW j \in 0..i
    PROVE  off[j] <= off[i]
<1> DEFINE S == {k \in 0..n : j <= k => off[j] <= off[k]}
<1>0. j \in 0..n /\ off \in [0..n -> Nat]
  BY DEF Offsets
<1>1. 0 \in S
  BY <1>0
<1>2. ASSUME NEW k \in 1..n, k - 1 \in S PROVE k \in S
  <2>1. /\ off[k] = off[k - 1] + c[k] /\ c[k] \in Nat /\ k - 1 \in 0..n /\ k \in 0..n
        /\ j <= k - 1 => off[j] <= off[k - 1]
    BY <1>2 DEF Offsets
  <2>2. off[k] \in Nat /\ off[k - 1] \in Nat /\ off[j] \in Nat
    BY <1>0, <2>1
  <2>3. j = k \/ j <= k - 1 \/ j > k
    BY <1>0
  <2>4. QED
    BY <2>1, <2>2, <2>3
<1>3. S = 0..n
  <2>1. S \in SUBSET (0..n)
    OBVIOUS
  <2> HIDE DEF S
  <2>2. QED
    BY <1>1, <1>2, <2>1, UpTo
<1>4. QED
  <2>1. i \in S
    BY <1>3
  <2>2. j <= i
    OBVIOUS
  <2>3. QED
    BY <2>1, <2>2

\* g folds + over the subsets of 1..n, the last element last.
FoldsTo(c, n, g) ==
    g = [s \in SUBSET (1..n) |->
           IF s = {} THEN 0 ELSE g[s \ {Max(s)}] + c[Max(s)]]

\* The maximum that the fold is defined by is the last index.
LEMMA LastIsMax ==
    ASSUME NEW k \in Nat, NEW s \in SUBSET (1..k), k \in s
    PROVE  Max(s) = k
<1>1. \A y \in s : k >= y
  OBVIOUS
<1>2. ASSUME NEW x \in s, \A y \in s : x >= y PROVE x = k
  <2>1. x >= k /\ k >= x /\ x \in Int
    BY <1>1, <1>2
  <2>2. QED
    BY <2>1
<1>3. QED
  BY <1>1, <1>2 DEF Max

\* Without its last position a prefix is the shorter prefix.
LEMMA ShorterPrefix ==
    ASSUME NEW k \in Nat \ {0}
    PROVE  (1..k) \ {k} = 1..(k - 1) /\ 1..k # {}
OBVIOUS

\* The recursion that defines the fold has a solution.
LEMMA FoldExists ==
    ASSUME NEW n \in Nat, NEW c
    PROVE  \E g : FoldsTo(c, n, g)
<1> DEFINE S == {k \in 0..n : \E g : FoldsTo(c, k, g)}
<1>1. 0 \in S
  <2> DEFINE g == [s \in SUBSET (1..0) |-> 0]
  <2>1. \A s \in SUBSET (1..0) : s = {}
    OBVIOUS
  <2>2. FoldsTo(c, 0, g)
    BY <2>1 DEF FoldsTo
  <2>3. QED
    BY <2>2
<1>2. ASSUME NEW k \in 1..n, k - 1 \in S PROVE k \in S
  <2>1. PICK g : FoldsTo(c, k - 1, g)
    BY <1>2
  <2> DEFINE h == [s \in SUBSET (1..k) |->
                     IF k \in s THEN g[s \ {k}] + c[k] ELSE g[s]]
             Step(s) == IF s = {} THEN 0 ELSE h[s \ {Max(s)}] + c[Max(s)]
  <2>2. ASSUME NEW s \in SUBSET (1..k), k \notin s
        PROVE  s \in SUBSET (1..(k - 1)) /\ h[s] = g[s]
    BY <2>2
  <2>3. ASSUME NEW s \in SUBSET (1..k), k \in s
        PROVE  Max(s) = k /\ h[s] = g[s \ {k}] + c[k] /\ h[s \ {k}] = g[s \ {k}]
    <3>1. Max(s) = k
      BY <2>3, LastIsMax
    <3>2. s \ {k} \in SUBSET (1..k) /\ k \notin s \ {k}
      OBVIOUS
    <3>3. h[s \ {k}] = g[s \ {k}]
      BY <2>2, <3>2
    <3>4. h[s] = g[s \ {k}] + c[k]
      BY <2>3
    <3>5. QED
      BY <3>1, <3>3, <3>4
  <2>4. h = [s \in SUBSET (1..k) |-> h[s]]
    OBVIOUS
  <2> HIDE DEF h
  <2>5. ASSUME NEW s \in SUBSET (1..k) PROVE h[s] = Step(s)
    <3>1. CASE k \in s
      BY <2>3, <3>1
    <3>2. CASE k \notin s
      <4>1. s \in SUBSET (1..(k - 1)) /\ h[s] = g[s]
        BY <2>2, <3>2
      <4>2. g[s] = IF s = {} THEN 0 ELSE g[s \ {Max(s)}] + c[Max(s)]
        BY <2>1, <4>1 DEF FoldsTo
      <4>3. h[s \ {Max(s)}] = g[s \ {Max(s)}]
        <5>1. s \ {Max(s)} \in SUBSET (1..k) /\ k \notin s \ {Max(s)}
          BY <3>2
        <5>2. QED
          BY <2>2, <5>1
      <4>4. QED
        BY <4>1, <4>2, <4>3
    <3>3. QED
      BY <3>1, <3>2
  <2>6. FoldsTo(c, k, h)
    BY <2>4, <2>5 DEF FoldsTo
  <2>7. QED
    BY <2>6
<1>3. S = 0..n
  <2>1. S \in SUBSET (0..n)
    OBVIOUS
  <2> HIDE DEF S
  <2>2. QED
    BY <1>1, <1>2, <2>1, UpTo
<1>4. QED
  BY <1>3

\* The offset of a slate is what those before it add up to.
LEMMA OffsetIs ==
    ASSUME NEW requests, NEW n \in Nat, NEW c \in [1..n -> Nat], counts(requests) = c,
           NEW off, Offsets(c, n, off), NEW i \in 1..n
    PROVE  Offset(requests, i) = off[i - 1]
<1> DEFINE m == i - 1
           pre == SubSeq(counts(requests), 1, i - 1)
           Is(g) == g = [s \in SUBSET DOMAIN pre |->
                           IF s = {} THEN 0 ELSE g[s \ {Max(s)}] + pre[Max(s)]]
           g == CHOOSE g : Is(g)
<1>1. m \in 0..n /\ m \in Nat
  OBVIOUS
<1>2. pre = [k \in 1..m |-> c[k]] /\ DOMAIN pre = 1..m
  <2>1. pre = [k \in 1..m |-> c[k]]
    BY <1>1
  <2>2. QED
    BY <2>1
<1>3. Offset(requests, i) = g[DOMAIN pre]
  BY DEF Offset, FoldLeft, MapThenFoldSet
<1>4. Is(g)
  <2>1. \E h : FoldsTo(pre, m, h)
    BY <1>1, FoldExists
  <2>2. \E h : Is(h)
    BY <1>2, <2>1 DEF FoldsTo
  <2>3. QED
    BY <2>2
<1> HIDE DEF g, pre
<1> DEFINE S == {k \in 0..m : g[1..k] = off[k]}
<1>5. 0 \in S
  <2>1. 1..0 = {} /\ {} \in SUBSET (1..m)
    OBVIOUS
  <2>2. g[{}] = 0
    BY <1>2, <1>4, <2>1
  <2>3. QED
    BY <1>1, <2>1, <2>2 DEF Offsets
<1>6. ASSUME NEW k \in 1..m, k - 1 \in S PROVE k \in S
  <2>1. Max(1..k) = k
    BY <1>1, LastIsMax
  <2>2. (1..k) \ {k} = 1..(k - 1) /\ 1..k # {} /\ 1..k \in SUBSET (1..m)
    <3>1. k \in Nat \ {0} /\ k <= m /\ m \in Nat
      OBVIOUS
    <3>2. (1..k) \ {k} = 1..(k - 1) /\ 1..k # {}
      BY <3>1, ShorterPrefix
    <3>3. 1..k \in SUBSET (1..m)
      BY <3>1
    <3>4. QED
      BY <3>2, <3>3
  <2>3. g[1..k] = g[1..(k - 1)] + pre[k]
    BY <1>2, <1>4, <2>1, <2>2
  <2>4. off[k] = off[k - 1] + c[k]
    BY <1>1 DEF Offsets
  <2>5. QED
    BY <1>2, <1>6, <2>3, <2>4
<1>7. S = 0..m
  <2>1. S \in SUBSET (0..m)
    OBVIOUS
  <2> HIDE DEF S, m
  <2>2. QED
    BY <1>1, <1>5, <1>6, <2>1, UpTo
<1>8. m \in S
  <2> HIDE DEF S
  <2>1. QED
    BY <1>1, <1>7
<1>9. QED
  BY <1>2, <1>3, <1>8

-----------------------------------------------------------------------------
(* Flattening.                                                             *)

\* g[i] is the first i sequences, one behind the other.
Flattens(seqs, n, g) ==
    g = [i \in 1..n |-> IF i = 1 THEN seqs[i] ELSE g[i - 1] \o seqs[i]]

\* The recursion of FlattenSeq has a solution, by appending one part to the one before.
LEMMA FlattenExists ==
    ASSUME NEW n \in Nat, NEW seqs
    PROVE  \E g : Flattens(seqs, n, g)
<1> DEFINE S == {k \in 0..n : \E g : Flattens(seqs, k, g)}
<1>1. 0 \in S
  <2> DEFINE g == [i \in 1..0 |-> 0]
  <2>1. Flattens(seqs, 0, g)
    BY DEF Flattens
  <2>2. QED
    BY <2>1
<1>2. ASSUME NEW k \in 1..n, k - 1 \in S PROVE k \in S
  <2>1. PICK g : Flattens(seqs, k - 1, g)
    BY <1>2
  <2> DEFINE h == [i \in 1..k |-> IF i # k THEN g[i]
                                  ELSE IF i = 1 THEN seqs[i] ELSE g[i - 1] \o seqs[i]]
  <2>2. \A i \in 1..(k - 1) : h[i] = g[i]
    OBVIOUS
  <2>3. h = [i \in 1..k |-> h[i]]
    OBVIOUS
  <2>4. h[k] = IF k = 1 THEN seqs[k] ELSE g[k - 1] \o seqs[k]
    OBVIOUS
  <2> HIDE DEF h
  <2>5. ASSUME NEW i \in 1..k
        PROVE  h[i] = IF i = 1 THEN seqs[i] ELSE h[i - 1] \o seqs[i]
    <3>1. CASE i = k
      <4>1. k # 1 => h[k - 1] = g[k - 1]
        BY <2>2
      <4>2. QED
        BY <2>4, <3>1, <4>1
    <3>2. CASE i # k
      <4>1. i \in 1..(k - 1) /\ (i # 1 => i - 1 \in 1..(k - 1))
        BY <3>2
      <4>2. g[i] = IF i = 1 THEN seqs[i] ELSE g[i - 1] \o seqs[i]
        BY <2>1, <4>1 DEF Flattens
      <4>3. QED
        BY <2>2, <4>1, <4>2
    <3>3. QED
      BY <3>1, <3>2
  <2>6. Flattens(seqs, k, h)
    BY <2>3, <2>5 DEF Flattens
  <2>7. QED
    BY <2>6
<1>3. S = 0..n
  <2>1. S \in SUBSET (0..n)
    OBVIOUS
  <2> HIDE DEF S
  <2>2. QED
    BY <1>1, <1>2, <2>1, UpTo
<1>4. QED
  BY <1>3

\* The first i of the sequences seqs, of lengths c, are slices of the sequence flat.
Slices(flat, seqs, c, off, i, X) ==
    /\ flat \in Seq(X) /\ Len(flat) = off[i]
    /\ \A m \in 1..i : \A j \in 1..c[m] : flat[off[m - 1] + j] = seqs[m][j]

\* One more sequence at the end is one more slice.
LEMMA OneMoreSlice ==
    ASSUME NEW X, NEW n \in Nat, NEW c \in [1..n -> Nat], NEW off, Offsets(c, n, off),
           NEW seqs, NEW k \in 1..n, seqs[k] \in Seq(X), Len(seqs[k]) = c[k],
           NEW flat, Slices(flat, seqs, c, off, k - 1, X)
    PROVE  Slices(flat \o seqs[k], seqs, c, off, k, X)
<1> DEFINE all == flat \o seqs[k]
<1>1. flat \in Seq(X) /\ Len(flat) = off[k - 1]
  BY DEF Slices
<1>2. off[k - 1] \in Nat /\ c[k] \in Nat /\ off[k] = off[k - 1] + c[k]
  BY DEF Offsets
<1>3. /\ all \in Seq(X) /\ Len(all) = off[k]
      /\ \A p \in 1..off[k - 1] : all[p] = flat[p]
      /\ \A j \in 1..c[k] : all[off[k - 1] + j] = seqs[k][j]
  <2>1. /\ all \in Seq(X) /\ Len(all) = Len(flat) + Len(seqs[k])
        /\ \A p \in 1..(Len(flat) + Len(seqs[k])) :
             all[p] = IF p <= Len(flat) THEN flat[p] ELSE seqs[k][p - Len(flat)]
    BY <1>1, ConcatProperties
  <2> HIDE DEF all
  <2>2. all \in Seq(X) /\ Len(all) = off[k]
    BY <1>1, <1>2, <2>1
  <2>3. \A p \in 1..off[k - 1] : all[p] = flat[p]
    BY <1>1, <1>2, <2>1
  <2>4. ASSUME NEW j \in 1..c[k] PROVE all[off[k - 1] + j] = seqs[k][j]
    <3>1. /\ off[k - 1] + j \in 1..(off[k - 1] + c[k]) /\ ~(off[k - 1] + j <= off[k - 1])
          /\ (off[k - 1] + j) - off[k - 1] = j
      BY <1>2
    <3>2. QED
      BY <1>1, <2>1, <3>1
  <2>5. QED
    BY <2>2, <2>3, <2>4
<1> HIDE DEF all
<1>4. ASSUME NEW m \in 1..k, NEW j \in 1..c[m]
      PROVE  all[off[m - 1] + j] = seqs[m][j]
  <2>1. CASE m = k
    BY <1>3, <2>1
  <2>2. CASE m # k
    <3>1. m \in 1..(k - 1) /\ m \in 1..n /\ m - 1 \in 0..n /\ m \in 0..(k - 1) /\ k - 1 \in 0..n
      BY <2>2
    <3>2. off[m] = off[m - 1] + c[m] /\ off[m - 1] \in Nat /\ c[m] \in Nat
      BY <3>1 DEF Offsets
    <3>3. off[m] <= off[k - 1]
      BY <3>1, OffsetsRise
    <3>4. off[m - 1] + j \in 1..off[k - 1]
      <4>1. \A a, b, d \in Nat : \A i \in 1..b : a + b <= d => a + i \in 1..d
        OBVIOUS
      <4>2. off[m - 1] + c[m] <= off[k - 1]
        BY <3>2, <3>3
      <4>3. QED
        BY <1>2, <3>2, <4>1, <4>2
    <3>5. flat[off[m - 1] + j] = seqs[m][j]
      BY <3>1 DEF Slices
    <3>6. QED
      BY <1>3, <3>4, <3>5
  <2>3. QED
    BY <2>1, <2>2
<1>5. QED
  BY <1>3, <1>4 DEF Slices, all

\* A flattened sequence of sequences has each of them at its offset.
LEMMA FlattenIs ==
    ASSUME NEW X, NEW n \in Nat \ {0}, NEW c \in [1..n -> Nat], NEW off,
           Offsets(c, n, off), NEW seqs, seqs \in [1..n -> Seq(X)],
           \A i \in 1..n : Len(seqs[i]) = c[i]
    PROVE  Slices(FlattenSeq(seqs), seqs, c, off, n, X)
<1> DEFINE Is(g) == g = [i \in 1..Len(seqs) |->
                           IF i = 1 THEN seqs[i] ELSE g[i - 1] \o seqs[i]]
           g == CHOOSE g : Is(g)
<1>1. Len(seqs) = n
  OBVIOUS
<1>2. FlattenSeq(seqs) = g[Len(seqs)]
  BY <1>1 DEF FlattenSeq
<1>3. Is(g)
  <2>1. \E h : Flattens(seqs, n, h)
    BY FlattenExists
  <2>2. \E h : Is(h)
    BY <1>1, <2>1 DEF Flattens
  <2>3. QED
    BY <2>2
<1> HIDE DEF g
<1> DEFINE S == {k \in 0..n : k = 0 \/ Slices(g[k], seqs, c, off, k, X)}
<1>4. 0 \in S
  OBVIOUS
<1>5. ASSUME NEW k \in 1..n, k - 1 \in S PROVE k \in S
  <2>1. seqs[k] \in Seq(X) /\ Len(seqs[k]) = c[k]
    OBVIOUS
  <2>2. CASE k = 1
    <3>1. g[k] = seqs[1]
      BY <1>1, <1>3, <2>2
    <3>2. off[0] = 0 /\ off[1] = c[1] /\ c[1] \in Nat
      <4>1. 1 \in 1..n
        OBVIOUS
      <4>2. QED
        BY <4>1 DEF Offsets
    <3>3. Slices(seqs[1], seqs, c, off, 1, X)
      <4>1. \A j \in 1..c[1] : seqs[1][off[0] + j] = seqs[1][j]
        BY <3>2
      <4>2. QED
        BY <2>1, <2>2, <3>2, <4>1 DEF Slices
    <3>4. QED
      BY <2>2, <3>1, <3>3
  <2>3. CASE k # 1
    <3>1. g[k] = g[k - 1] \o seqs[k]
      BY <1>1, <1>3, <2>3
    <3>2. Slices(g[k - 1], seqs, c, off, k - 1, X)
      BY <1>5, <2>3
    <3>3. PICK flat : flat = g[k - 1]
      OBVIOUS
    <3>4. Slices(flat \o seqs[k], seqs, c, off, k, X)
      <4>1. n \in Nat /\ Slices(flat, seqs, c, off, k - 1, X)
        BY <3>2, <3>3
      <4> HIDE DEF S
      <4>2. QED
        BY <2>1, <4>1, OneMoreSlice
    <3>5. Slices(g[k], seqs, c, off, k, X)
      BY <3>1, <3>3, <3>4
    <3>6. QED
      BY <3>5
  <2>4. QED
    BY <2>2, <2>3
<1>6. S = 0..n
  <2>1. S \in SUBSET (0..n)
    OBVIOUS
  <2> HIDE DEF S
  <2>2. QED
    BY <1>4, <1>5, <2>1, UpTo
<1>7. n \in S
  <2> HIDE DEF S
  <2>1. QED
    BY <1>6
<1>8. QED
  BY <1>1, <1>2, <1>7

-----------------------------------------------------------------------------
(* One vectorized pass against one user at a time.                         *)

\* Prepared requests: candidates, each once.
Prepared(request) ==
    \E n \in Nat :
      /\ request.candidate_ids \in [1..n -> Candidates]
      /\ \A i, j \in 1..n : request.candidate_ids[i] = request.candidate_ids[j] => i = j

\* Each candidate of a request with the score the weights give it.
Scored(scored, request, score) ==
    /\ DOMAIN scored = DOMAIN request.candidate_ids
    /\ \A j \in DOMAIN request.candidate_ids :
         /\ scored[j].candidate_id = request.candidate_ids[j]
         /\ scored[j].score = score[request.user_id][ItemIndex[request.candidate_ids[j]]]

\* The scores of a slate, ranked, are the reference's answer.
LEMMA SlateIsAnswer ==
    ASSUME NEW request, Prepared(request), request.user_id \in Users,
           NEW score \in Scores, NEW scored, Scored(scored, request, score)
    PROVE  IsAnswerTo([user_id |-> request.user_id, ranked |-> Ranked(scored)],
                      request, score)
<1> DEFINE response == [user_id |-> request.user_id, ranked |-> Ranked(scored)]
           ids == request.candidate_ids
           ranked == response.ranked
           place(k) == CHOOSE j \in DOMAIN ids : ids[j] = ranked[k].candidate_id
<1>0. ranked = Ranked(scored) /\ response.user_id = request.user_id
  OBVIOUS
<1> HIDE DEF response
<1>1. PICK n \in Nat : /\ ids \in [1..n -> Candidates]
                       /\ \A i, j \in 1..n : ids[i] = ids[j] => i = j
  BY DEF Prepared
<1>2. \A j \in 1..n : /\ scored[j].candidate_id = ids[j]
                      /\ scored[j].score = score[request.user_id][ItemIndex[ids[j]]]
  BY <1>1 DEF Scored
<1>3. \A j \in 1..n : scored[j].score \in Int
  <2>1. \A j \in 1..n : ids[j] \in Candidates
    BY <1>1
  <2>2. score[request.user_id] \in [{ItemIndex[c] : c \in Candidates} -> Int]
    BY DEF Scores
  <2>3. QED
    BY <1>2, <2>1, <2>2
<1>4. PICK at : RankedBy(at, n, scored, ranked)
  <2>1. DOMAIN scored = 1..n
    BY <1>1 DEF Scored
  <2> HIDE DEF ranked, ids
  <2>2. QED
    BY <1>0, <1>3, <2>1, RankedIs
<1> HIDE DEF ranked, ids
<1>5. DOMAIN ids = 1..n /\ DOMAIN ranked = 1..n
  BY <1>1, <1>4 DEF RankedBy
<1>6. \A k \in 1..n : at[k] \in 1..n /\ ranked[k] = scored[at[k]]
  BY <1>4 DEF RankedBy
<1>7. \A k \in 1..n : place(k) = at[k]
  <2>1. ASSUME NEW k \in 1..n PROVE place(k) = at[k]
    <3>1. at[k] \in DOMAIN ids /\ ids[at[k]] = ranked[k].candidate_id
      BY <1>2, <1>5, <1>6
    <3>2. \A j \in DOMAIN ids : ids[j] = ranked[k].candidate_id => j = at[k]
      BY <1>1, <1>5, <3>1
    <3>3. QED
      BY <3>1, <3>2
  <2>2. QED
    BY <2>1
<1>8. Len(ranked) = n /\ Len(ids) = n
  <2>1. ids \in Seq(Candidates)
    BY <1>1
  <2>2. ranked = [k \in 1..n |-> scored[at[k]]]
    BY <1>4 DEF RankedBy
  <2>3. Len(ranked) = n
    BY <2>2
  <2>4. Len(ids) = n
    BY <1>1
  <2>5. QED
    BY <2>3, <2>4
<1>9. {ranked[k].candidate_id : k \in DOMAIN ranked} = ToSet(ids)
  <2>1. \A k \in 1..n : ranked[k].candidate_id = ids[at[k]]
    BY <1>2, <1>6
  <2>2. ASSUME NEW i \in 1..n
        PROVE  \E k \in 1..n : ranked[k].candidate_id = ids[i]
    <3>1. PICK k \in 1..n : at[k] = i
      BY <1>4 DEF RankedBy
    <3>2. QED
      BY <2>1, <3>1
  <2>3. \A k \in 1..n : at[k] \in 1..n
    BY <1>6
  <2> HIDE DEF place
  <2>4. ASSUME NEW k \in DOMAIN ranked PROVE ranked[k].candidate_id \in ToSet(ids)
    BY <1>5, <2>1, <2>3 DEF ToSet
  <2>5. ASSUME NEW x \in ToSet(ids)
        PROVE  x \in {ranked[k].candidate_id : k \in DOMAIN ranked}
    <3>1. PICK i \in 1..n : x = ids[i]
      BY <1>5 DEF ToSet
    <3>2. PICK k \in DOMAIN ranked : ranked[k].candidate_id = x
      BY <1>5, <2>2, <3>1
    <3>3. QED
      BY <3>2
  <2>6. QED
    BY <2>4, <2>5
<1>10. \A k \in DOMAIN ranked :
         ranked[k].score = score[request.user_id][ItemIndex[ranked[k].candidate_id]]
  BY <1>2, <1>5, <1>6
<1>11. \A k \in 1..(Len(ranked) - 1) :
         \/ ranked[k].score > ranked[k + 1].score
         \/ ranked[k].score = ranked[k + 1].score /\ place(k) < place(k + 1)
  <2>1. ASSUME NEW k \in 1..(n - 1)
        PROVE  \/ ranked[k].score > ranked[k + 1].score
               \/ ranked[k].score = ranked[k + 1].score /\ place(k) < place(k + 1)
    <3>1. k \in 1..n /\ k + 1 \in 1..n
      OBVIOUS
    <3>2. QED
      BY <1>4, <1>6, <1>7, <3>1 DEF RankedBy
  <2>2. QED
    BY <1>8, <2>1
<1>12. QED
  <2>1. IsAnswerTo(response, request, score)
    BY <1>0, <1>8, <1>9, <1>10, <1>11 DEF IsAnswerTo, ids, ranked
  <2>2. QED
    BY <2>1 DEF response

\* What the callers of a batch posted, prepared, with a row for each.
BatchOf(requests, user_feats, n) ==
    /\ DOMAIN requests = 1..n
    /\ \A i \in 1..n : /\ Prepared(requests[i]) /\ requests[i].user_id \in Users
                       /\ user_feats[i] = requests[i].user_id

\* One vectorized pass answers every request of a batch as the single-user reference
\* would, however many slates are flattened and however long they are, empty ones
\* included (ranker.py:55-84 against model.py:64-74).
THEOREM ForwardAnswers ==
    ASSUME NEW n \in Nat \ {0}, NEW requests, NEW user_feats,
           BatchOf(requests, user_feats, n), NEW score \in Scores, NEW i \in 1..n
    PROVE  IsAnswerTo(forward(requests, user_feats, score)[i], requests[i], score)
<1> DEFINE c == counts(requests)
           items(k) == [j \in 1..c[k] |-> ItemIndex[requests[k].candidate_ids[j]]]
           rows(k) == [j \in 1..c[k] |-> user_feats[k]]
           flat_ids == FlattenSeq([k \in DOMAIN requests |-> items(k)])
           expanded == FlattenSeq([k \in DOMAIN requests |-> rows(k)])
           flat_scores == [k \in DOMAIN flat_ids |-> score[expanded[k]][flat_ids[k]]]
           scored == [j \in 1..c[i] |->
                        [candidate_id |-> requests[i].candidate_ids[j],
                         score |-> flat_scores[Offset(requests, i) + j]]]
<1>1. DOMAIN requests = 1..n
  BY DEF BatchOf
<1>2. \A k \in 1..n : /\ c[k] \in Nat /\ DOMAIN requests[k].candidate_ids = 1..c[k]
                      /\ requests[k].candidate_ids \in [1..c[k] -> Candidates]
  <2>1. ASSUME NEW k \in 1..n
        PROVE  /\ c[k] \in Nat /\ DOMAIN requests[k].candidate_ids = 1..c[k]
               /\ requests[k].candidate_ids \in [1..c[k] -> Candidates]
    <3>1. PICK m \in Nat : requests[k].candidate_ids \in [1..m -> Candidates]
      BY DEF BatchOf, Prepared
    <3>2. Len(requests[k].candidate_ids) = m
      BY <3>1
    <3>3. c[k] = m
      BY <1>1, <3>2 DEF counts
    <3>4. QED
      BY <3>1, <3>3
  <2>2. QED
    BY <2>1
<1>3. c \in [1..n -> Nat]
  <2>1. DOMAIN c = 1..n /\ c = [k \in 1..n |-> c[k]]
    BY <1>1 DEF counts
  <2> HIDE DEF c
  <2>2. QED
    BY <1>2, <2>1
<1>4. forward(requests, user_feats, score)[i]
        = [user_id |-> requests[i].user_id, ranked |-> Ranked(scored)]
  BY <1>1 DEF forward
<1> HIDE DEF c
<1>5. PICK off : Offsets(c, n, off)
  BY <1>3, OffsetsExist
<1>6. Offset(requests, i) = off[i - 1]
  BY <1>3, <1>5, OffsetIs DEF c
<1> DEFINE all == [k \in 1..n |-> items(k)]
           allRows == [k \in 1..n |-> rows(k)]
<1>7. Slices(flat_ids, all, c, off, n, Nat)
  <2>1. ASSUME NEW k \in 1..n PROVE items(k) \in Seq(Nat) /\ Len(items(k)) = c[k]
    <3>1. \A j \in 1..c[k] : ItemIndex[requests[k].candidate_ids[j]] \in Nat
      BY <1>2, ItemIndexAssumption
    <3>2. QED
      BY <1>2, <3>1
  <2> HIDE DEF items
  <2>2. all \in [1..n -> Seq(Nat)] /\ \A k \in 1..n : Len(all[k]) = c[k]
    BY <2>1
  <2>3. flat_ids = FlattenSeq(all)
    BY <1>1
  <2> HIDE DEF all, flat_ids
  <2>4. Slices(FlattenSeq(all), all, c, off, n, Nat)
    BY <1>3, <1>5, <2>2, FlattenIs
  <2>5. QED
    BY <2>3, <2>4
<1>8. Slices(expanded, allRows, c, off, n, Users)
  <2>1. ASSUME NEW k \in 1..n PROVE rows(k) \in Seq(Users) /\ Len(rows(k)) = c[k]
    <3>1. user_feats[k] \in Users
      BY DEF BatchOf
    <3>2. PICK m \in Nat : m = c[k]
      BY <1>2
    <3>3. PICK u \in Users : u = user_feats[k]
      BY <3>1
    <3>4. rows(k) = [j \in 1..m |-> u]
      BY <3>2, <3>3
    <3>5. [j \in 1..m |-> u] \in Seq(Users) /\ Len([j \in 1..m |-> u]) = m
      OBVIOUS
    <3>6. QED
      BY <3>2, <3>4, <3>5
  <2> HIDE DEF rows
  <2>2. allRows \in [1..n -> Seq(Users)] /\ \A k \in 1..n : Len(allRows[k]) = c[k]
    BY <2>1
  <2>3. expanded = FlattenSeq(allRows)
    BY <1>1
  <2> HIDE DEF allRows, expanded
  <2>4. Slices(FlattenSeq(allRows), allRows, c, off, n, Users)
    BY <1>3, <1>5, <2>2, FlattenIs
  <2>5. QED
    BY <2>3, <2>4
<1> HIDE DEF flat_ids, expanded
<1>9. ASSUME NEW j \in 1..c[i]
      PROVE  flat_scores[off[i - 1] + j]
               = score[requests[i].user_id][ItemIndex[requests[i].candidate_ids[j]]]
  <2>1. off[i - 1] + j \in DOMAIN flat_ids
    <3>1. off[i - 1] + j \in 1..off[n]
      <4>1. /\ off[i] = off[i - 1] + c[i] /\ off[i - 1] \in Nat /\ off[n] \in Nat
            /\ c[i] \in Nat
        BY <1>3, <1>5 DEF Offsets
      <4>2. off[i] <= off[n]
        BY <1>3, <1>5, OffsetsRise
      <4>3. \A a, b, d \in Nat : \A p \in 1..b : a + b <= d => a + p \in 1..d
        OBVIOUS
      <4>4. off[i - 1] + c[i] <= off[n]
        BY <4>1, <4>2
      <4>5. QED
        BY <4>1, <4>3, <4>4
    <3>2. DOMAIN flat_ids = 1..off[n]
      BY <1>7, LenProperties DEF Slices
    <3>3. QED
      BY <3>1, <3>2
  <2>2. flat_ids[off[i - 1] + j] = ItemIndex[requests[i].candidate_ids[j]]
    <3>1. flat_ids[off[i - 1] + j] = all[i][j]
      BY <1>7 DEF Slices
    <3>2. QED
      BY <3>1
  <2>3. expanded[off[i - 1] + j] = requests[i].user_id
    <3>1. expanded[off[i - 1] + j] = allRows[i][j]
      BY <1>8 DEF Slices
    <3>2. allRows[i][j] = user_feats[i]
      OBVIOUS
    <3>3. QED
      BY <3>1, <3>2 DEF BatchOf
  <2>4. QED
    BY <2>1, <2>2, <2>3
<1> HIDE DEF flat_scores
<1>10. Scored(scored, requests[i], score)
  BY <1>2, <1>6, <1>9 DEF Scored
<1> HIDE DEF scored
<1>11. Prepared(requests[i]) /\ requests[i].user_id \in Users
  BY DEF BatchOf
<1>12. QED
  BY <1>4, <1>10, <1>11, SlateIsAnswer

-----------------------------------------------------------------------------
(* The answers.                                                            *)

AnswerType ==
    /\ weights \in [Replicas -> {"none", "checkpoint", "random"}]
    /\ features = [q \in Requests |-> features[q]]
    /\ answer = [q \in Requests |-> answer[q]]

\* The rows a batch has fetched are those of its calls, in its order.
RowsFit(q) == features[q] # <<>> => batch[q] # <<>> /\ features[q] = Rows(batch[q])

\* A call that was made is at a replica with a model.
AtModel(q) == phase[q] # "new" => on[q] \in Replicas /\ weights[on[q]] # "none"

Own(q) == phase[q] = "done" => IsAnswerTo(answer[q], prepared(q), ScoreOn(on[q]))

AnswerInv ==
    /\ AnswerType
    /\ \A q \in Requests : RowsFit(q) /\ AtModel(q) /\ Own(q)

\* Nothing is fetched or answered at the start.
LEMMA InitAnswerInv == Init => AnswerInv
BY DEF Init, AnswerInv, AnswerType, RowsFit, AtModel, Own

\* The posted slate, its duplicates dropped.
LEMMA PreparedCall ==
    ASSUME NEW q \in Requests
    PROVE  Prepared(prepared(q)) /\ prepared(q).user_id \in Users
<1>1. RequestOf[q].user_id \in Users /\ RequestOf[q].candidate_ids \in Seq(Candidates)
  BY RequestOfAssumption
<1>2. PICK ids \in Seq(Candidates) : ids = RequestOf[q].candidate_ids
  BY <1>1
<1>3. prepared(q) = [user_id |-> RequestOf[q].user_id, candidate_ids |-> Unique(ids)]
  BY <1>2 DEF prepared, prepare_features
<1>4. QED
  BY <1>1, <1>3, UniqueIs DEF Prepared

\* The leader of a batch is a call that was made.
LEMMA LeaderCalled ==
    ASSUME IInv, NEW q \in Requests, batch[q] # <<>>
    PROVE  phase[q] # "new"
BY NewIsNowhere

\* The response that a caller of a batch gets is the one to its call.
LEMMA RespondsRight ==
    ASSUME IInv, AnswerInv, NEW q \in Requests, features[q] # <<>>,
           NEW c \in Requests, c \in ToSet(batch[q])
    PROVE  IsAnswerTo(forward([i \in DOMAIN batch[q] |-> prepared(batch[q][i])],
                              features[q], ScoreOn(on[q]))[IndexIn(batch[q], c)],
                      prepared(c), ScoreOn(on[c]))
<1> DEFINE calls == batch[q]
           requests == [i \in DOMAIN calls |-> prepared(calls[i])]
           score == ScoreOn(on[q])
<1>1. PICK n \in Nat \ {0} : /\ DOMAIN calls = 1..n
                             /\ \A i \in 1..n : calls[i] \in Requests
  <2>1. calls \in Seq(Requests) /\ calls # <<>>
    BY DEF IInv, PlacesType, AnswerInv, RowsFit
  <2>2. Len(calls) \in Nat \ {0} /\ DOMAIN calls = 1..Len(calls)
    BY <2>1, EmptySeq, LenProperties
  <2>3. QED
    BY <2>1, <2>2, ElementOfSeq
<1>2. score \in Scores
  <2>1. on[q] \in Replicas
    BY LeaderCalled DEF AnswerInv, RowsFit, AtModel
  <2>2. QED
    BY <2>1, ScoreAssumption, OtherScoreAssumption DEF ScoreOn
<1>3. BatchOf(requests, features[q], n)
  <2>1. features[q] = Rows(calls)
    BY DEF AnswerInv, RowsFit
  <2>2. ASSUME NEW i \in 1..n
        PROVE  /\ Prepared(requests[i]) /\ requests[i].user_id \in Users
               /\ features[q][i] = requests[i].user_id
    <3>1. requests[i] = prepared(calls[i]) /\ features[q][i] = prepared(calls[i]).user_id
      BY <1>1, <2>1 DEF Rows
    <3>2. QED
      BY <1>1, <3>1, PreparedCall
  <2>3. QED
    BY <1>1, <2>2 DEF BatchOf
<1>4. PICK i \in 1..n : i = IndexIn(calls, c) /\ calls[i] = c
  <2>1. \E k \in DOMAIN calls : calls[k] = c
    BY DEF ToSet
  <2>2. QED
    BY <1>1, <2>1 DEF IndexIn
<1>5. requests[i] = prepared(c)
  BY <1>1, <1>4
<1>6. on[c] = on[q]
  <2>1. Batched(c, q)
    BY <1>1, <1>4 DEF Batched
  <2>2. QED
    BY <2>1 DEF IInv, BatchSound
<1> HIDE DEF requests, score
<1>7. PICK rows : rows = features[q]
  OBVIOUS
<1>8. IsAnswerTo(forward(requests, rows, score)[i], requests[i], score)
  BY <1>2, <1>3, <1>7, ForwardAnswers
<1>9. score = ScoreOn(on[c])
  BY <1>6 DEF score
<1>10. IsAnswerTo(forward(requests, rows, score)[IndexIn(calls, c)], prepared(c),
                  ScoreOn(on[c]))
  BY <1>4, <1>5, <1>8, <1>9
<1>11. QED
  BY <1>7, <1>10 DEF requests, score

\* A call keeps its answer as long as its replica keeps its model.
LEMMA OwnStays ==
    ASSUME NEW q \in Requests, Own(q), answer'[q] = answer[q], on'[q] = on[q],
           weights'[on[q]] = weights[on[q]], phase'[q] = "done" => phase[q] = "done"
    PROVE  Own(q)'
BY DEF Own, ScoreOn

\* What a step must leave alone for the answers of all calls but those of Q to stand.
LEMMA AnswersStand ==
    ASSUME AnswerInv, NEW Q \in SUBSET Requests,
           \A q \in Requests \ Q : /\ answer'[q] = answer[q] /\ on'[q] = on[q]
                                   /\ phase'[q] = "done" => phase[q] = "done",
           \A r \in Replicas : weights[r] # "none" => weights'[r] = weights[r]
    PROVE  \A q \in Requests \ Q : Own(q)'
<1> SUFFICES ASSUME NEW q \in Requests \ Q PROVE Own(q)'
  OBVIOUS
<1>1. CASE phase'[q] = "done"
  <2>1. on[q] \in Replicas /\ weights[on[q]] # "none"
    BY <1>1 DEF AnswerInv, AtModel
  <2>2. QED
    BY <1>1, <2>1, OwnStays DEF AnswerInv
<1>2. CASE phase'[q] # "done"
  BY <1>2 DEF Own
<1>3. QED
  BY <1>1, <1>2

\* A step that fetches nothing, answers nothing and ends no batch with an answer.
LEMMA NothingAnswered ==
    ASSUME IInv, AnswerInv, UNCHANGED <<features, on, answer>>,
           weights' \in [Replicas -> {"none", "checkpoint", "random"}],
           \A r \in Replicas : weights[r] # "none" => weights'[r] = weights[r],
           \A q \in Requests : /\ batch[q] # <<>> => batch'[q] = batch[q]
                               /\ phase'[q] = "done" => phase[q] = "done"
                               /\ phase'[q] # "new" => phase[q] # "new"
    PROVE  AnswerInv'
<1>1. AnswerType'
  BY DEF AnswerInv, AnswerType
<1>2. \A q \in Requests : Own(q)'
  <2>1. \A q \in Requests \ {} : Own(q)'
    BY AnswersStand, Zenon
  <2>2. QED
    BY <2>1
<1>3. ASSUME NEW q \in Requests PROVE RowsFit(q)' /\ AtModel(q)'
  <2>1. RowsFit(q)'
    BY DEF AnswerInv, RowsFit, Rows, prepared
  <2>2. AtModel(q)'
    BY DEF AnswerInv, AtModel
  <2>3. QED
    BY <2>1, <2>2
<1>4. QED
  BY <1>1, <1>2, <1>3 DEF AnswerInv

\* A call is made where there is a model, and leads no batch with rows.
LEMMA CallAnswers ==
    ASSUME IInv, AnswerInv, NEW q \in Requests, NEW r \in Replicas, Call(q, r)
    PROVE  AnswerInv'
<1>1. /\ phase[q] = "new" /\ weights[r] # "none" /\ UNCHANGED <<weights, features, answer>>
      /\ on' = [on EXCEPT ![q] = r] /\ phase' = [phase EXCEPT ![q] = "called"]
      /\ \A p \in Requests \ {q} : batch'[p] = batch[p]
  BY DEF Call, IInv, PlacesType
<1>2. /\ \A p \in Requests \ {q} : on'[p] = on[p] /\ phase'[p] = phase[p]
      /\ on'[q] = r /\ phase'[q] = "called"
  BY <1>1 DEF IInv, PlacesType
<1>3. AnswerType'
  BY <1>1 DEF AnswerInv, AnswerType
<1>4. \A p \in Requests : Own(p)'
  <2>1. \A p \in Requests \ {q} : Own(p)'
    <3>1. {q} \in SUBSET Requests
      OBVIOUS
    <3>2. QED
      BY <1>1, <1>2, <3>1, AnswersStand
  <2>2. Own(q)'
    BY <1>2 DEF Own
  <2>3. QED
    BY <2>1, <2>2
<1>5. features[q] = <<>>
  BY <1>1, NewIsNowhere DEF AnswerInv, RowsFit
<1>6. ASSUME NEW p \in Requests PROVE RowsFit(p)' /\ AtModel(p)'
  <2>1. RowsFit(p)'
    <3>1. CASE p = q
      BY <1>1, <1>5, <3>1 DEF RowsFit
    <3>2. CASE p # q
      BY <1>1, <3>2 DEF AnswerInv, RowsFit, Rows, prepared
    <3>3. QED
      BY <3>1, <3>2
  <2>2. AtModel(p)'
    BY <1>1, <1>2 DEF AnswerInv, AtModel
  <2>3. QED
    BY <2>1, <2>2
<1>7. QED
  BY <1>3, <1>4, <1>6 DEF AnswerInv

\* The call at the head of a queue leads nothing yet.
LEMMA HeadLeadsNothing ==
    ASSUME IInv, NEW r \in Replicas, NEW n \in 1..Cardinality(Requests), FormBatch(r, n)
    PROVE  \E h \in Requests : h = Head(batch_queue[r]) /\ batch[h] = <<>>
<1>1. batch_queue[r] \in Seq(Requests) /\ batch_queue[r] # <<>>
  BY EmptySeq DEF FormBatch, IInv, PlacesType
<1>2. PICK h \in Requests : h = Head(batch_queue[r]) /\ h = batch_queue[r][1]
  BY <1>1
<1>3. Queued(h, r)
  BY <1>1, <1>2, LenProperties, EmptySeq DEF Queued
<1>4. ASSUME batch[h] # <<>> PROVE FALSE
  <2>1. batch[h] \in Seq(Requests) /\ Len(batch[h]) \in Nat \ {0}
    BY <1>4, EmptySeq DEF IInv, PlacesType
  <2>2. 1 \in DOMAIN batch[h]
    BY <2>1, LenProperties
  <2>3. Batched(h, h)
    BY <1>4, <2>2 DEF IInv, BatchSound, Batched
  <2>4. QED
    BY <1>3, <2>3 DEF IInv, BatchSound
<1>5. QED
  BY <1>2, <1>4

\* A batch is formed without rows.
LEMMA FormBatchAnswers ==
    ASSUME IInv, AnswerInv, NEW r \in Replicas, NEW n \in 1..Cardinality(Requests),
           FormBatch(r, n)
    PROVE  AnswerInv'
<1>1. PICK h \in Requests : h = Head(batch_queue[r]) /\ batch[h] = <<>>
  BY HeadLeadsNothing
<1>2. \A q \in Requests \ {h} : batch'[q] = batch[q]
  BY <1>1 DEF FormBatch, IInv, PlacesType
<1>3. /\ UNCHANGED <<features, on, answer, weights, phase>>
      /\ \A q \in Requests : batch[q] # <<>> => batch'[q] = batch[q]
  BY <1>1, <1>2 DEF FormBatch
<1>4. weights' \in [Replicas -> {"none", "checkpoint", "random"}]
  BY <1>3 DEF AnswerInv, AnswerType
<1>5. QED
  BY <1>3, <1>4, NothingAnswered

\* The rows fetched are those of the batch.
LEMMA BatchGetAnswers ==
    ASSUME IInv, AnswerInv, NEW q \in Requests, BatchGet(q)
    PROVE  AnswerInv'
<1>1. /\ batch[q] # <<>> /\ features' = [features EXCEPT ![q] = Rows(batch[q])]
      /\ UNCHANGED <<weights, batch, phase, on, answer>>
  BY DEF BatchGet
<1>2. AnswerType'
  BY <1>1 DEF AnswerInv, AnswerType
<1>3. \A p \in Requests : Own(p)'
  <2>1. \A p \in Requests \ {} : Own(p)'
    BY <1>1, AnswersStand, Zenon
  <2>2. QED
    BY <2>1
<1>4. ASSUME NEW p \in Requests PROVE RowsFit(p)' /\ AtModel(p)'
  <2>1. RowsFit(p)'
    <3>1. CASE p = q
      BY <1>1, <3>1 DEF AnswerInv, AnswerType, RowsFit, Rows, prepared
    <3>2. CASE p # q
      BY <1>1, <3>2 DEF AnswerInv, AnswerType, RowsFit, Rows, prepared
    <3>3. QED
      BY <3>1, <3>2
  <2>2. AtModel(p)'
    BY <1>1 DEF AnswerInv, AtModel
  <2>3. QED
    BY <2>1, <2>2
<1>5. QED
  BY <1>2, <1>3, <1>4 DEF AnswerInv

\* Whatever became of its calls, a batch that ended has no rows, and its calls are
\* where they were.
LEMMA EndedRows ==
    ASSUME IInv, AnswerInv, NEW q \in Requests, NEW outcome \in {"done", "failed"},
           EndBatch(q, outcome), UNCHANGED weights
    PROVE  /\ features' = [p \in Requests |-> features'[p]]
           /\ \A p \in Requests : RowsFit(p)' /\ AtModel(p)'
<1>1. /\ batch' = [batch EXCEPT ![q] = <<>>]
      /\ features' = [features EXCEPT ![q] = <<>>]
      /\ phase' = [c \in Requests |-> IF c \in Waiting(batch[q]) THEN outcome ELSE phase[c]]
      /\ UNCHANGED on
  BY DEF EndBatch
<1>2. features' = [p \in Requests |-> features'[p]]
  BY <1>1 DEF AnswerInv, AnswerType
<1>3. ASSUME NEW p \in Requests PROVE RowsFit(p)' /\ AtModel(p)'
  <2>1. RowsFit(p)'
    <3>1. CASE p = q
      BY <1>1, <3>1 DEF AnswerInv, AnswerType, RowsFit
    <3>2. CASE p # q
      <4>1. features'[p] = features[p] /\ batch'[p] = batch[p]
        BY <1>1, <3>2 DEF AnswerInv, AnswerType, IInv, PlacesType
      <4>2. QED
        BY <4>1 DEF AnswerInv, RowsFit, Rows, prepared
    <3>3. QED
      BY <3>1, <3>2
  <2>2. AtModel(p)'
    BY <1>1 DEF AnswerInv, AtModel, Waiting
  <2>3. QED
    BY <2>1, <2>2
<1>4. QED
  BY <1>2, <1>3

\* Those who still wait are answered by the model; the others keep what they have.
LEMMA RespondAnswers ==
    ASSUME IInv, AnswerInv, NEW q \in Requests, Respond(q), UNCHANGED weights
    PROVE  AnswerInv'
<1> DEFINE calls == batch[q]
           responses == forward([i \in DOMAIN calls |-> prepared(calls[i])],
                                features[q], ScoreOn(on[q]))
           waiting == Waiting(calls)
<1>1. /\ features[q] # <<>> /\ EndBatch(q, "done")
      /\ answer' = [c \in Requests |-> IF c \in waiting THEN responses[IndexIn(calls, c)]
                                       ELSE answer[c]]
  BY DEF Respond, Answered
<1>2. AnswerType'
  BY <1>1, EndedRows DEF AnswerInv, AnswerType
<1>3. waiting \in SUBSET Requests /\ \A c \in waiting : c \in ToSet(calls)
  <2>1. \A i \in DOMAIN calls : calls[i] \in Requests
    <3>1. calls \in Seq(Requests)
      BY DEF IInv, PlacesType
    <3>2. QED
      BY <3>1, ElementOfSeq, LenProperties
  <2>2. QED
    BY <2>1 DEF Waiting, ToSet
<1>4. /\ UNCHANGED on
      /\ phase' = [c \in Requests |-> IF c \in waiting THEN "done" ELSE phase[c]]
  BY <1>1 DEF EndBatch
<1>5. \A c \in Requests \ waiting : Own(c)'
  <2> HIDE DEF waiting, responses
  <2>1. \A c \in Requests \ waiting : /\ answer'[c] = answer[c] /\ on'[c] = on[c]
                                      /\ phase'[c] = phase[c]
    BY <1>1, <1>4
  <2>2. QED
    BY <1>3, <2>1, AnswersStand
<1>6. ASSUME NEW c \in waiting PROVE Own(c)'
  <2>1. IsAnswerTo(responses[IndexIn(calls, c)], prepared(c), ScoreOn(on[c]))
    BY <1>1, <1>3, RespondsRight
  <2> HIDE DEF responses
  <2>2. answer'[c] = responses[IndexIn(calls, c)] /\ on'[c] = on[c]
    BY <1>1, <1>3, <1>4
  <2>3. IsAnswerTo(answer'[c], prepared(c), ScoreOn(on[c]))
    BY <2>1, <2>2
  <2>4. ScoreOn(on[c])' = ScoreOn(on[c]) /\ prepared(c)' = prepared(c)
    BY <2>2 DEF ScoreOn, prepared
  <2>5. QED
    BY <2>2, <2>3, <2>4 DEF Own, ScoreOn, prepared
<1>7. QED
  BY <1>1, <1>2, <1>3, <1>5, <1>6, EndedRows DEF AnswerInv

\* A batch that failed answers nobody.
LEMMA StoreFailsAnswers ==
    ASSUME IInv, AnswerInv, NEW q \in Requests, StoreFails(q), UNCHANGED weights
    PROVE  AnswerInv'
<1>1. EndBatch(q, "failed") /\ UNCHANGED answer
  BY DEF StoreFails
<1>2. AnswerType'
  BY <1>1, EndedRows DEF AnswerInv, AnswerType
<1>3. \A c \in Requests : /\ answer'[c] = answer[c] /\ on'[c] = on[c]
                          /\ phase'[c] = "done" => phase[c] = "done"
  BY <1>1 DEF EndBatch
<1>4. \A c \in Requests \ {} : Own(c)'
  BY <1>3, AnswersStand
<1>5. QED
  BY <1>1, <1>2, <1>4, EndedRows DEF AnswerInv

\* One lemma per action, the places of the calls given.
LEMMA NextAnswerInv == IInv /\ AnswerInv /\ [Next]_vars => AnswerInv'
<1> SUFFICES ASSUME IInv, AnswerInv, [Next]_vars PROVE AnswerInv'
  OBVIOUS
<1>1. ASSUME NEW q \in Requests, Respond(q) \/ StoreFails(q) PROVE AnswerInv'
  <2>1. UNCHANGED weights
    BY <1>1 DEF Respond, Answered, StoreFails, EndBatch
  <2>2. QED
    BY <1>1, <2>1, RespondAnswers, StoreFailsAnswers
<1>2. ASSUME NEW r \in Replicas,
             LoadModel(r) \/ \E size \in BatchSizes : reconfigure(r, size)
      PROVE  AnswerInv'
  BY <1>2, NothingAnswered DEF LoadModel, reconfigure, AnswerInv, AnswerType
<1>3. ASSUME NEW q \in Requests, Cancel(q) PROVE AnswerInv'
  <2>1. /\ phase[q] = "called" /\ phase' = [phase EXCEPT ![q] = "cancelled"]
        /\ UNCHANGED <<weights, batch, features, on, answer>>
    BY <1>3 DEF Cancel
  <2>2. \A p \in Requests : /\ phase'[p] = "done" => phase[p] = "done"
                            /\ phase'[p] # "new" => phase[p] # "new"
    BY <2>1 DEF IInv, PlacesType
  <2>3. QED
    BY <2>1, <2>2, NothingAnswered DEF AnswerInv, AnswerType
<1>4. CASE UNCHANGED vars
  BY <1>4, NothingAnswered DEF vars, batchVars, AnswerInv, AnswerType
<1>5. QED
  BY <1>1, <1>2, <1>3, <1>4, CallAnswers, FormBatchAnswers, BatchGetAnswers DEF Next

\* Every caller gets its own user's slate, each candidate once, scored as the
\* single-user reference scores it and sorted, whichever calls it was batched with
\* and whoever of them went away (ranker.py:59-84).
THEOREM AnswersOwn == Spec => []OwnAnswer
<1>1. AnswerInv => OwnAnswer
  BY DEF AnswerInv, Own, OwnAnswer
<1>2. QED
  BY <1>1, InitIInv, NextIInv, InitAnswerInv, NextAnswerInv, PTL DEF Spec
=============================================================================

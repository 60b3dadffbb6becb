---------------------------- MODULE EgressProofs -----------------------------
(* Proofs about the way out to a language model, for any number of callers, *)
(* batches, items and batch sizes, and whatever the provider answers.       *)
EXTENDS Egress, FiniteSetTheorems, TLAPS

Admitted == {"waiting", "holding", "calling", "falling", "alone",
             "repeating", "dropping"}
Locked == {"holding", "calling", "falling", "alone"}

(* What each caller holds comes from its batch, of which every item was     *)
(* allowed before the first was sent; it has a call only where it waits for *)
(* an answer, and holds the lock wherever the batcher works for it.         *)
CallerInv(c) ==
  /\ pc[c] \in Places /\ batch[c] \in Batches
  /\ chunks[c] \in Seq(Seq(Items)) /\ rest[c] \in Seq(Items) /\ call[c] \in Seq(Items)
  /\ \A k \in 1 .. Len(chunks[c]) :
       /\ Len(chunks[c][k]) \in 1 .. MaxBatchSize
       /\ Elements(chunks[c][k]) \subseteq Elements(batch[c])
  /\ Elements(rest[c]) \subseteq Elements(batch[c])
  /\ Elements(call[c]) \subseteq Elements(batch[c])
  /\ DOMAIN results[c] \subseteq Items
  /\ pc[c] \in Admitted =>
       batch[c] # <<>> /\ \A i \in Elements(batch[c]) : EgressAllowed(Request[i])
  /\ pc[c] \in Locked \cup {"waiting"} => chunks[c] # <<>>
  /\ pc[c] \in {"falling", "alone"} => rest[c] # <<>>
  /\ call[c] # <<>> =>
       pc[c] \in {"calling", "alone", "dropping"} /\ Named(call[c][1])
  /\ pc[c] \in Locked => lock = c

Functions ==
  /\ DOMAIN pc = Callers /\ DOMAIN batch = Callers /\ DOMAIN chunks = Callers
  /\ DOMAIN rest = Callers /\ DOMAIN call = Callers /\ DOMAIN results = Callers

EgressInv ==
  /\ Functions
  /\ lock \in Callers \cup {Nobody}
  /\ \A c \in Callers : CallerInv(c)

(* A step of c leaves the other callers as they are, and the lock theirs.   *)
StepOf(c) ==
  /\ Functions' /\ batch' = batch
  /\ \A d \in Callers \ {c} :
       /\ pc'[d] = pc[d] /\ chunks'[d] = chunks[d] /\ rest'[d] = rest[d]
       /\ call'[d] = call[d] /\ results'[d] = results[d]
  /\ \/ lock' = lock
     \/ lock = Nobody /\ lock' = c
     \/ lock = c /\ lock' = Nobody

LEMMA OneCallerSteps ==
  ASSUME EgressInv, NEW c \in Callers, StepOf(c), CallerInv(c)'
  PROVE  EgressInv'
<1>1. Nobody \notin Callers
  BY EgressAssumption
<1>2. ASSUME NEW d \in Callers, d # c
      PROVE  CallerInv(d)'
  <2>1. CallerInv(d)
    BY DEF EgressInv
  <2>2. /\ pc'[d] = pc[d] /\ chunks'[d] = chunks[d] /\ rest'[d] = rest[d]
        /\ call'[d] = call[d] /\ results'[d] = results[d] /\ batch'[d] = batch[d]
    BY <1>2 DEF StepOf
  <2>3. lock = d => lock' = d
    BY <1>1, <1>2 DEF StepOf
  <2>4. QED
    BY <2>1, <2>2, <2>3 DEF CallerInv
<1>3. \A d \in Callers : CallerInv(d)'
  BY <1>2
<1>4. lock' \in Callers \cup {Nobody}
  BY DEF StepOf, EgressInv
<1>5. Functions'
  BY DEF StepOf
<1>6. QED
  BY <1>3, <1>4, <1>5 DEF EgressInv

-----------------------------------------------------------------------------
(* Sequences of items *)

LEMMA EmptyHasNoElements == Elements(<<>>) = {}
BY DEF Elements

LEMMA LongIsNotEmpty ==
  ASSUME NEW S, NEW s \in Seq(S), Len(s) > 0
  PROVE  s # <<>>
OBVIOUS

LEMMA ElementsOfSeq ==
  ASSUME NEW s \in Seq(Items)
  PROVE  /\ Elements(s) \subseteq Items
         /\ s # <<>> => s[1] \in Elements(s) /\ s[1] \in Items
BY DEF Elements

LEMMA TailHasFewer ==
  ASSUME NEW s \in Seq(Items), Len(s) > 1
  PROVE  Tail(s) \in Seq(Items) /\ Tail(s) # <<>> /\ Elements(Tail(s)) \subseteq Elements(s)
<1>1. /\ Tail(s) \in Seq(Items) /\ Len(Tail(s)) = Len(s) - 1
      /\ \A i \in 1 .. Len(Tail(s)) : Tail(s)[i] = s[i + 1] /\ i + 1 \in 1 .. Len(s)
  OBVIOUS
<1>2. QED
  BY <1>1 DEF Elements

LEMMA SingleItem ==
  ASSUME NEW i \in Items
  PROVE  <<i>> \in Seq(Items) /\ Elements(<<i>>) = {i} /\ <<i>>[1] = i /\ <<i>> # <<>>
BY DEF Elements

LEMMA ChunksOf ==
  ASSUME NEW s \in Seq(Items), NEW k \in Nat \ {0}, (k - 1) * MaxBatchSize < Len(s)
  PROVE  /\ Chunk(s, k) \in Seq(Items)
         /\ Len(Chunk(s, k)) \in 1 .. MaxBatchSize
         /\ Elements(Chunk(s, k)) \subseteq Elements(s)
         /\ \A p \in 1 .. Len(s) :
              (k - 1) * MaxBatchSize < p /\ p <= k * MaxBatchSize
                => s[p] \in Elements(Chunk(s, k))
<1> DEFINE from == (k - 1) * MaxBatchSize
           to == IF k * MaxBatchSize < Len(s) THEN k * MaxBatchSize ELSE Len(s)
<1>1. MaxBatchSize \in Nat \ {0} /\ Len(s) \in Nat
  BY EgressAssumption
<1>2. from \in Nat /\ k * MaxBatchSize = from + MaxBatchSize
  <2>1. \A a \in Nat, b \in Nat : a * b \in Nat /\ (a + 1) * b = a * b + b
    OBVIOUS
  <2>2. k - 1 \in Nat /\ (k - 1) + 1 = k
    OBVIOUS
  <2>3. QED
    BY <2>1, <2>2, <1>1
<1>3. Chunk(s, k) = SubSeq(s, from + 1, to)
  BY DEF Chunk
<1> DEFINE next == k * MaxBatchSize
<1>4. to = IF next < Len(s) THEN next ELSE Len(s)
  OBVIOUS
<1>5. from \in Nat /\ next = from + MaxBatchSize /\ from < Len(s)
  BY <1>2
<1> HIDE DEF from, to, next
<1>6. to \in Nat /\ from + 1 <= to /\ to <= Len(s) /\ to - from <= MaxBatchSize
  BY <1>1, <1>4, <1>5
<1>7. /\ Chunk(s, k) \in Seq(Items) /\ Len(Chunk(s, k)) = to - from
      /\ \A i \in 1 .. to - from :
           Chunk(s, k)[i] = s[from + i] /\ from + i \in 1 .. Len(s)
  BY <1>1, <1>3, <1>5, <1>6
<1>8. ASSUME NEW i \in 1 .. Len(Chunk(s, k))
      PROVE  Chunk(s, k)[i] \in Elements(s)
  BY <1>7 DEF Elements
<1>9. Elements(Chunk(s, k)) \subseteq Elements(s)
  BY <1>8 DEF Elements
<1>10. ASSUME NEW p \in 1 .. Len(s), from < p, p <= next
       PROVE  s[p] \in Elements(Chunk(s, k))
  <2>1. p - from \in 1 .. to - from /\ from + (p - from) = p
    BY <1>1, <1>4, <1>5, <1>6, <1>10
  <2>2. Chunk(s, k)[p - from] = s[p] /\ p - from \in 1 .. Len(Chunk(s, k))
    BY <1>7, <2>1
  <2>3. QED
    BY <2>2 DEF Elements
<1>11. Len(Chunk(s, k)) \in 1 .. MaxBatchSize
  BY <1>1, <1>5, <1>6, <1>7
<1>12. QED
  BY <1>7, <1>9, <1>10, <1>11 DEF from, next

LEMMA AllChunks ==
  ASSUME NEW s \in Seq(Items)
  PROVE  /\ Chunks(s) \in Seq(Seq(Items))
         /\ s # <<>> => Chunks(s) # <<>>
         /\ \A k \in 1 .. Len(Chunks(s)) :
              /\ Len(Chunks(s)[k]) \in 1 .. MaxBatchSize
              /\ Elements(Chunks(s)[k]) \subseteq Elements(s)
<1> DEFINE n == (Len(s) + MaxBatchSize - 1) \div MaxBatchSize
<1>1. MaxBatchSize \in Nat \ {0} /\ Len(s) \in Nat
  BY EgressAssumption
<1>2. /\ n \in Nat
      /\ \A k \in Nat \ {0} : k <= n => (k - 1) * MaxBatchSize < Len(s)
      /\ Len(s) > 0 => n >= 1
  <2>1. \A a \in Nat, b \in Nat \ {0} :
          /\ a \div b \in Nat /\ (a \div b) * b <= a
          /\ a >= b => a \div b >= 1
    OBVIOUS
  <2>2. \A k, m \in Nat, b \in Nat \ {0} : k <= m => k * b <= m * b
    OBVIOUS
  <2>3. \A k \in Nat \ {0}, b \in Nat \ {0} : (k - 1) * b = k * b - b /\ k * b \in Nat
    OBVIOUS
  <2>4. Len(s) + MaxBatchSize - 1 \in Nat
    BY <1>1
  <2>5. n \in Nat /\ n * MaxBatchSize <= Len(s) + MaxBatchSize - 1
    BY <1>1, <2>1, <2>4
  <2>6. Len(s) > 0 => n >= 1
    BY <1>1, <2>1, <2>4
  <2> HIDE DEF n
  <2>7. ASSUME NEW k \in Nat \ {0}, k <= n
        PROVE  (k - 1) * MaxBatchSize < Len(s)
    <3>1. k * MaxBatchSize <= n * MaxBatchSize /\ n * MaxBatchSize \in Nat
      BY <1>1, <2>2, <2>5, <2>7
    <3>2. (k - 1) * MaxBatchSize = k * MaxBatchSize - MaxBatchSize /\ k * MaxBatchSize \in Nat
      BY <1>1, <2>3
    <3>3. QED
      BY <1>1, <2>5, <3>1, <3>2
  <2>8. QED
    BY <2>5, <2>6, <2>7
<1>3. Chunks(s) = [k \in 1 .. n |-> Chunk(s, k)]
  BY DEF Chunks
<1> HIDE DEF n
<1>4. \A k \in 1 .. n :
        /\ Chunk(s, k) \in Seq(Items)
        /\ Len(Chunk(s, k)) \in 1 .. MaxBatchSize
        /\ Elements(Chunk(s, k)) \subseteq Elements(s)
  BY <1>2, ChunksOf
<1>5. Chunks(s) \in Seq(Seq(Items)) /\ Len(Chunks(s)) = n
  BY <1>2, <1>3, <1>4
<1>6. \A k \in 1 .. n : Chunks(s)[k] = Chunk(s, k)
  BY <1>3
<1>7. s # <<>> => n >= 1
  BY <1>1, <1>2
<1>8. n >= 1 => Chunks(s) # <<>>
  BY <1>2, <1>5
<1>9. QED
  BY <1>4, <1>5, <1>6, <1>7, <1>8

(* No item of a sequence is lost between its chunks: the item at place p is *)
(* in chunk (p - 1) \div MaxBatchSize + 1.                                  *)
ChunkItems(cs) == UNION {Elements(cs[k]) : k \in 1 .. Len(cs)}

LEMMA ChunksCover ==
  ASSUME NEW s \in Seq(Items)
  PROVE  Elements(s) \subseteq ChunkItems(Chunks(s))
<1> DEFINE n == (Len(s) + MaxBatchSize - 1) \div MaxBatchSize
<1>1. MaxBatchSize \in Nat \ {0} /\ Len(s) \in Nat
  BY EgressAssumption
<1>2. Chunks(s) = [k \in 1 .. n |-> Chunk(s, k)]
  BY DEF Chunks
<1>3. SUFFICES ASSUME NEW p \in 1 .. Len(s)
               PROVE  s[p] \in ChunkItems(Chunks(s))
  BY DEF Elements
<1> DEFINE q == (p - 1) \div MaxBatchSize
           k == q + 1
<1>4. \A a \in Nat, b \in Nat \ {0} :
        /\ a \div b \in Nat /\ (a \div b) * b \in Nat
        /\ (a \div b) * b <= a /\ a < (a \div b) * b + b
  OBVIOUS
<1>5. p - 1 \in Nat
  OBVIOUS
<1>6. /\ q \in Nat /\ q * MaxBatchSize \in Nat
      /\ q * MaxBatchSize <= p - 1 /\ p - 1 < q * MaxBatchSize + MaxBatchSize
  BY <1>1, <1>4, <1>5
<1> HIDE DEF q
<1>7. k \in Nat \ {0} /\ k - 1 = q /\ k * MaxBatchSize = q * MaxBatchSize + MaxBatchSize
  <2>1. \A a \in Nat, b \in Nat : (a + 1) * b = a * b + b
    OBVIOUS
  <2>2. QED
    BY <1>1, <1>6, <2>1
<1> HIDE DEF k
<1>8. (k - 1) * MaxBatchSize < p /\ p <= k * MaxBatchSize
      /\ (k - 1) * MaxBatchSize < Len(s)
  BY <1>1, <1>6, <1>7
<1>9. s[p] \in Elements(Chunk(s, k))
  BY <1>7, <1>8, ChunksOf
<1>10. n \in Nat /\ k <= n
  <2>1. \A a \in Nat, m \in Nat, b \in Nat \ {0} : m * b <= a => m <= a \div b
    OBVIOUS
  <2>2. Len(s) + MaxBatchSize - 1 \in Nat
    BY <1>1
  <2>3. k * MaxBatchSize <= Len(s) + MaxBatchSize - 1
    BY <1>1, <1>6, <1>7
  <2>4. QED
    BY <1>1, <1>4, <1>7, <2>1, <2>2, <2>3
<1> HIDE DEF n
<1>11. k \in 1 .. n /\ Chunks(s)[k] = Chunk(s, k)
  BY <1>2, <1>7, <1>10
<1>12. Len(Chunks(s)) = n
  <2>1. Chunks(s) \in Seq(Seq(Items)) /\ DOMAIN Chunks(s) = 1 .. n
    BY <1>2, AllChunks
  <2>2. QED
    BY <1>10, <2>1
<1>13. QED
  BY <1>9, <1>11, <1>12 DEF ChunkItems

(* Sorting loses no item either: an order without repetition of as many     *)
(* places as there are takes each of them.                                  *)
LEMMA OrdersAreOnto ==
  ASSUME NEW n \in Nat, NEW f \in [1 .. n -> 1 .. n],
         \A k \in 1 .. n, l \in 1 .. n : f[k] = f[l] => k = l
  PROVE  \A p \in 1 .. n : \E k \in 1 .. n : f[k] = p
<1> DEFINE S == 1 .. n
           T == {f[k] : k \in S}
<1>1. IsFiniteSet(S)
  BY FS_Interval
<1>2. f \in Bijection(S, T)
  BY DEF Bijection, Injection, Surjection, IsInjective
<1>3. Cardinality(T) = Cardinality(S)
  <2>1. ExistsBijection(S, T)
    BY <1>2 DEF ExistsBijection
  <2>2. QED
    BY <1>1, <2>1, FS_Bijection
<1>4. T \in SUBSET S
  OBVIOUS
<1>5. T = S
  BY <1>1, <1>3, <1>4, FS_Subset
<1>6. QED
  BY <1>5

LEMMA SortingLosesNothing ==
  ASSUME NEW s \in Seq(Items), NEW t \in SortedByPriority(s)
  PROVE  Elements(s) \subseteq Elements(t)
<1> DEFINE Spots == 1 .. Len(s)
           Sooner(a, b) == \/ Priority[s[a]] < Priority[s[b]]
                           \/ Priority[s[a]] = Priority[s[b]] /\ a < b
<1>1. PICK order \in [Spots -> Spots] :
        /\ t = [k \in Spots |-> s[order[k]]]
        /\ \A k \in Spots, l \in Spots : k < l => Sooner(order[k], order[l])
  BY DEF SortedByPriority
<1>2. \A a \in Spots : ~Sooner(a, a)
  BY EgressAssumption
<1> HIDE DEF Sooner
<1>3. \A k \in Spots, l \in Spots : order[k] = order[l] => k = l
  BY <1>1, <1>2
<1>4. \A p \in Spots : \E k \in Spots : order[k] = p
  <2>1. Len(s) \in Nat
    OBVIOUS
  <2>2. QED
    BY <1>1, <1>3, <2>1, OrdersAreOnto
<1>5. t \in Seq(Items) /\ Len(t) = Len(s) /\ \A k \in Spots : t[k] = s[order[k]]
  <2>1. \A k \in Spots : s[order[k]] \in Items
    BY <1>1
  <2>2. QED
    BY <1>1, <2>1
<1>6. ASSUME NEW p \in Spots
      PROVE  s[p] \in Elements(t)
  <2>1. PICK k \in Spots : order[k] = p
    BY <1>4
  <2>2. t[k] = s[p] /\ k \in 1 .. Len(t)
    BY <1>5, <2>1
  <2>3. QED
    BY <2>2 DEF Elements
<1>7. QED
  BY <1>6 DEF Elements

LEMMA SortingKeepsItems ==
  ASSUME NEW s \in Seq(Items), NEW t \in SortedByPriority(s)
  PROVE  /\ t \in Seq(Items) /\ Elements(t) \subseteq Elements(s)
         /\ s # <<>> => t # <<>>
<1>1. PICK order \in [1 .. Len(s) -> 1 .. Len(s)] :
        t = [k \in 1 .. Len(s) |-> s[order[k]]]
  BY DEF SortedByPriority
<1>2. \A k \in 1 .. Len(s) : order[k] \in 1 .. Len(s) /\ t[k] = s[order[k]]
  BY <1>1
<1>3. t \in Seq(Items) /\ Len(t) = Len(s)
  BY <1>1, <1>2
<1>4. Elements(t) \subseteq Elements(s)
  BY <1>2, <1>3 DEF Elements
<1>5. s # <<>> => t # <<>>
  BY <1>3
<1>6. QED
  BY <1>3, <1>4, <1>5

-----------------------------------------------------------------------------
(* The steps *)

(* g is f but for c. *)
SameElsewhere(f, g, c) ==
  DOMAIN g = Callers /\ \A d \in Callers \ {c} : g[d] = f[d]

LEMMA ExceptElsewhere ==
  ASSUME NEW f, DOMAIN f = Callers, NEW c \in Callers, NEW x
  PROVE  /\ SameElsewhere(f, [f EXCEPT ![c] = x], c)
         /\ [f EXCEPT ![c] = x][c] = x
         /\ SameElsewhere(f, f, c)
BY DEF SameElsewhere

LEMMA BatchesAreSequences ==
  ASSUME EgressInv, NEW c \in Callers
  PROVE  batch[c] \in Seq(Items)
BY EgressAssumption DEF EgressInv, CallerInv

(* What a step of the batcher leaves for the next one. *)
LEMMA ReleaseKeepsInv ==
  ASSUME EgressInv, NEW c \in Callers, pc[c] \in Locked, Release(c), batch' = batch,
         SameElsewhere(call, call', c), call'[c] = <<>>,
         SameElsewhere(results, results', c), DOMAIN results'[c] \subseteq Items
  PROVE  EgressInv'
<1>1. CallerInv(c) /\ Functions
  BY DEF EgressInv
<1>2. lock = c /\ chunks[c] # <<>> /\ chunks[c] \in Seq(Seq(Items))
      /\ batch[c] # <<>> /\ \A i \in Elements(batch[c]) : EgressAllowed(Request[i])
  BY <1>1 DEF CallerInv, Locked, Admitted
<1>3. /\ pc'[c] = IF Len(chunks[c]) > 1 THEN "waiting"
                  ELSE IF c \in Handlers THEN "repeating" ELSE "returned"
      /\ chunks'[c] = Tail(chunks[c]) /\ rest'[c] = <<>> /\ lock' = Nobody
      /\ SameElsewhere(pc, pc', c) /\ SameElsewhere(chunks, chunks', c)
      /\ SameElsewhere(rest, rest', c)
  BY <1>1 DEF Release, SameElsewhere, Functions
<1>4. /\ Tail(chunks[c]) \in Seq(Seq(Items))
      /\ Len(Tail(chunks[c])) = Len(chunks[c]) - 1
      /\ \A k \in 1 .. Len(Tail(chunks[c])) :
           Tail(chunks[c])[k] = chunks[c][k + 1] /\ k + 1 \in 1 .. Len(chunks[c])
  BY <1>2
<1>5. \A k \in 1 .. Len(chunks'[c]) :
        /\ Len(chunks'[c][k]) \in 1 .. MaxBatchSize
        /\ Elements(chunks'[c][k]) \subseteq Elements(batch[c])
  BY <1>1, <1>3, <1>4 DEF CallerInv
<1>6. ASSUME Len(chunks[c]) > 1
      PROVE  chunks'[c] # <<>>
  <2>1. Len(Tail(chunks[c])) > 0
    BY <1>2, <1>4, <1>6
  <2>2. Tail(chunks[c]) # <<>>
    BY <1>4, <2>1, LongIsNotEmpty
  <2>3. QED
    BY <1>3, <2>2
<1>7. CallerInv(c)'
  BY <1>1, <1>2, <1>3, <1>4, <1>5, <1>6, EmptyHasNoElements
  DEF CallerInv, Places, Locked, Admitted
<1>8. StepOf(c)
  BY <1>1, <1>2, <1>3 DEF StepOf, SameElsewhere, Functions
<1>9. QED
  BY <1>7, <1>8, OneCallerSteps

LEMMA FallBackKeepsInv ==
  ASSUME EgressInv, NEW c \in Callers, pc[c] \in Locked, FallBack(c), batch' = batch,
         SameElsewhere(call, call', c), call'[c] = <<>>
  PROVE  EgressInv'
<1>1. CallerInv(c) /\ Functions
  BY DEF EgressInv
<1>2. lock = c /\ chunks[c] # <<>> /\ chunks[c] \in Seq(Seq(Items))
      /\ batch[c] # <<>> /\ \A i \in Elements(batch[c]) : EgressAllowed(Request[i])
  BY <1>1 DEF CallerInv, Locked, Admitted
<1>3. /\ pc'[c] = "falling" /\ rest'[c] = Head(chunks[c])
      /\ chunks' = chunks /\ results' = results /\ lock' = lock
      /\ SameElsewhere(pc, pc', c) /\ SameElsewhere(rest, rest', c)
  BY <1>1 DEF FallBack, SameElsewhere, Functions
<1>4. Head(chunks[c]) = chunks[c][1] /\ 1 \in 1 .. Len(chunks[c])
      /\ chunks[c][1] \in Seq(Items)
  BY <1>2
<1>5. /\ Len(chunks[c][1]) \in 1 .. MaxBatchSize
      /\ Elements(chunks[c][1]) \subseteq Elements(batch[c])
  BY <1>1, <1>4 DEF CallerInv
<1>6. chunks[c][1] # <<>>
  BY <1>5
<1>7. CallerInv(c)'
  BY <1>1, <1>2, <1>3, <1>4, <1>5, <1>6, EmptyHasNoElements
  DEF CallerInv, Places, Locked, Admitted
<1>8. StepOf(c)
  BY <1>1, <1>3 DEF StepOf, SameElsewhere, Functions
<1>9. QED
  BY <1>7, <1>8, OneCallerSteps

LEMMA OnwardsKeepsInv ==
  ASSUME EgressInv, NEW c \in Callers, pc[c] \in {"falling", "alone"}, Onwards(c),
         batch' = batch, SameElsewhere(call, call', c), call'[c] = <<>>,
         SameElsewhere(results, results', c), DOMAIN results'[c] \subseteq Items
  PROVE  EgressInv'
<1>1. CallerInv(c) /\ Functions
  BY DEF EgressInv
<1>2. CASE Len(rest[c]) > 1
  <2>1. /\ pc'[c] = "falling" /\ rest'[c] = Tail(rest[c])
        /\ chunks' = chunks /\ lock' = lock
        /\ SameElsewhere(pc, pc', c) /\ SameElsewhere(rest, rest', c)
    BY <1>1, <1>2 DEF Onwards, SameElsewhere, Functions
  <2>2. /\ Tail(rest[c]) \in Seq(Items) /\ Tail(rest[c]) # <<>>
        /\ Elements(Tail(rest[c])) \subseteq Elements(batch[c])
    BY <1>1, <1>2, TailHasFewer DEF CallerInv
  <2>3. /\ lock = c /\ chunks[c] # <<>> /\ batch[c] # <<>>
        /\ \A i \in Elements(batch[c]) : EgressAllowed(Request[i])
    BY <1>1 DEF CallerInv, Locked, Admitted
  <2>4. call'[c] \in Seq(Items) /\ Elements(call'[c]) \subseteq Elements(batch[c])
    BY EmptyHasNoElements
  <2>5. CallerInv(c)'
    BY <1>1, <2>1, <2>2, <2>3, <2>4 DEF CallerInv, Places
  <2>6. StepOf(c)
    BY <1>1, <2>1 DEF StepOf, SameElsewhere, Functions
  <2>7. QED
    BY <2>5, <2>6, OneCallerSteps
<1>3. CASE ~(Len(rest[c]) > 1)
  <2>1. Release(c) /\ pc[c] \in Locked
    BY <1>3 DEF Onwards, Locked
  <2>2. QED
    BY <2>1, ReleaseKeepsInv
<1>4. QED
  BY <1>2, <1>3

(* Where a caller has no call in flight. *)
LEMMA NoCall ==
  ASSUME EgressInv, NEW c \in Callers, pc[c] \notin {"calling", "alone", "dropping"}
  PROVE  call[c] = <<>>
BY DEF EgressInv, CallerInv

LEMMA WithResults ==
  ASSUME NEW f, NEW g, DOMAIN f \subseteq Items, DOMAIN g \subseteq Items
  PROVE  DOMAIN With(f, g) \subseteq Items
BY DEF With

LEMMA SubmitKeepsInv ==
  ASSUME EgressInv, NEW c \in Callers, Submit(c)
  PROVE  EgressInv'
<1>1. CallerInv(c) /\ Functions /\ batch[c] \in Seq(Items) /\ call[c] = <<>>
  BY BatchesAreSequences, NoCall DEF EgressInv, Submit
<1>2. PICK sorted \in SortedByPriority(batch[c]) :
        chunks' = [chunks EXCEPT ![c] = Chunks(sorted)]
  BY DEF Submit
<1>3. /\ sorted \in Seq(Items) /\ Elements(sorted) \subseteq Elements(batch[c])
      /\ batch[c] # <<>> => sorted # <<>>
  BY <1>1, SortingKeepsItems
<1>4. /\ Chunks(sorted) \in Seq(Seq(Items))
      /\ batch[c] # <<>> => Chunks(sorted) # <<>>
      /\ \A k \in 1 .. Len(Chunks(sorted)) :
           /\ Len(Chunks(sorted)[k]) \in 1 .. MaxBatchSize
           /\ Elements(Chunks(sorted)[k]) \subseteq Elements(batch[c])
  BY <1>3, AllChunks
<1>5. /\ chunks'[c] = Chunks(sorted)
      /\ pc'[c] = IF batch[c] = <<>> THEN "returned"
                  ELSE IF \A i \in Elements(batch[c]) : EgressAllowed(Request[i])
                       THEN "waiting" ELSE "raised"
      /\ SameElsewhere(pc, pc', c) /\ SameElsewhere(chunks, chunks', c)
      /\ batch' = batch /\ rest' = rest /\ call' = call /\ results' = results
      /\ lock' = lock
  BY <1>1, <1>2 DEF Submit, SameElsewhere, Functions
<1> HIDE DEF Submit
<1>6. CallerInv(c)'
  <2> DEFINE allowed == \A i \in Elements(batch[c]) : EgressAllowed(Request[i])
  <2>1. /\ pc'[c] \in {"returned", "waiting", "raised"}
        /\ pc'[c] = "waiting" => batch[c] # <<>> /\ allowed
    BY <1>5
  <2>2. pc'[c] \in Places /\ (pc'[c] \in Admitted => pc'[c] = "waiting")
        /\ pc'[c] \notin Locked /\ pc'[c] \notin {"falling", "alone"}
    BY <2>1 DEF Places, Admitted, Locked
  <2> HIDE DEF allowed
  <2>3. pc'[c] \in Admitted => batch[c] # <<>> /\ \A i \in Elements(batch[c]) : EgressAllowed(Request[i])
    BY <2>1, <2>2 DEF allowed
  <2>4. pc'[c] \in Locked \cup {"waiting"} => chunks'[c] # <<>>
    BY <1>4, <1>5, <2>1, <2>2
  <2>5. QED
    BY <1>1, <1>4, <1>5, <2>2, <2>3, <2>4 DEF CallerInv
<1>7. StepOf(c)
  BY <1>1, <1>5 DEF StepOf, SameElsewhere, Functions
<1>8. QED
  BY <1>6, <1>7, OneCallerSteps

LEMMA AcquireKeepsInv ==
  ASSUME EgressInv, NEW c \in Callers, Acquire(c)
  PROVE  EgressInv'
<1>1. CallerInv(c) /\ Functions
  BY DEF EgressInv
<1>2. /\ pc[c] = "waiting" /\ lock = Nobody /\ lock' = c /\ pc'[c] = "holding"
      /\ SameElsewhere(pc, pc', c)
      /\ batch' = batch /\ chunks' = chunks /\ rest' = rest /\ call' = call
      /\ results' = results
  BY <1>1 DEF Acquire, SameElsewhere, Functions
<1>3. CallerInv(c)'
  BY <1>1, <1>2 DEF CallerInv, Places, Locked, Admitted
<1>4. StepOf(c)
  BY <1>1, <1>2 DEF StepOf, SameElsewhere, Functions
<1>5. QED
  BY <1>3, <1>4, OneCallerSteps

(* A call goes out with one of the caller's own items first, to the adapter *)
(* it names.                                                                *)
LEMMA CallKeepsInv ==
  ASSUME EgressInv, NEW c \in Callers, pc[c] \in Admitted, NEW items \in Seq(Items),
         items # <<>>, Elements(items) \subseteq Elements(batch[c]), Escalates(items[1]),
         call' = [call EXCEPT ![c] = items],
         NEW to \in {"calling", "alone", "dropping"}, pc' = [pc EXCEPT ![c] = to],
         to \in Locked => pc[c] \in Locked, to = "alone" => pc[c] = "falling",
         UNCHANGED <<batch, chunks, rest, results, lock>>
  PROVE  EgressInv'
<1>1. CallerInv(c) /\ Functions
  BY DEF EgressInv
<1>2. /\ pc'[c] = to /\ call'[c] = items
      /\ SameElsewhere(pc, pc', c) /\ SameElsewhere(call, call', c)
  BY <1>1 DEF SameElsewhere, Functions
<1>3. Named(items[1])
  BY DEF Escalates
<1>4. /\ to \in Places
      /\ batch[c] # <<>> /\ \A i \in Elements(batch[c]) : EgressAllowed(Request[i])
      /\ to \in Locked => lock = c /\ chunks[c] # <<>>
      /\ to # "waiting" /\ to # "falling"
      /\ to = "alone" => rest[c] # <<>>
  BY <1>1 DEF CallerInv, Places, Admitted, Locked
<1>5. CallerInv(c)'
  BY <1>1, <1>2, <1>3, <1>4 DEF CallerInv
<1>6. StepOf(c)
  BY <1>1, <1>2 DEF StepOf, SameElsewhere, Functions
<1>7. QED
  BY <1>5, <1>6, OneCallerSteps

LEMMA HeadOfChunks ==
  ASSUME EgressInv, NEW c \in Callers, pc[c] \in Locked \cup {"waiting"}
  PROVE  /\ Head(chunks[c]) \in Seq(Items) /\ Head(chunks[c]) # <<>>
         /\ Elements(Head(chunks[c])) \subseteq Elements(batch[c])
         /\ Head(chunks[c])[1] \in Items
<1>1. CallerInv(c) /\ chunks[c] # <<>> /\ chunks[c] \in Seq(Seq(Items))
  BY DEF EgressInv, CallerInv
<1>2. /\ Head(chunks[c]) = chunks[c][1] /\ 1 \in 1 .. Len(chunks[c])
      /\ chunks[c][1] \in Seq(Items)
  BY <1>1
<1>3. /\ Len(chunks[c][1]) \in 1 .. MaxBatchSize
      /\ Elements(chunks[c][1]) \subseteq Elements(batch[c])
  BY <1>1, <1>2 DEF CallerInv
<1>4. chunks[c][1] # <<>>
  BY <1>3
<1>5. QED
  BY <1>2, <1>3, <1>4, ElementsOfSeq

LEMMA ResultKeepsItems ==
  ASSUME EgressInv, NEW c \in Callers, NEW i \in Items, NEW status, NEW asked,
         results' = [results EXCEPT ![c] = With(@, Result(i, status, asked))]
  PROVE  SameElsewhere(results, results', c) /\ DOMAIN results'[c] \subseteq Items
<1>1. CallerInv(c) /\ Functions
  BY DEF EgressInv
<1>2. DOMAIN Result(i, status, asked) \subseteq Items
  BY DEF Result
<1>3. DOMAIN With(results[c], Result(i, status, asked)) \subseteq Items
  BY <1>1, <1>2, WithResults DEF CallerInv
<1>4. QED
  BY <1>1, <1>3, ExceptElsewhere DEF Functions

LEMMA CallChunkKeepsInv ==
  ASSUME EgressInv, NEW c \in Callers, CallChunk(c)
  PROVE  EgressInv'
<1> DEFINE chunk == Head(chunks[c])
<1>1. /\ pc[c] = "holding" /\ pc[c] \in Locked /\ pc[c] \in Admitted /\ batch' = batch
      /\ Functions
  BY DEF CallChunk, Locked, Admitted, EgressInv
<1>2. call[c] = <<>>
  BY <1>1, NoCall
<1>3. /\ chunk \in Seq(Items) /\ chunk # <<>> /\ chunk[1] \in Items
      /\ Elements(chunk) \subseteq Elements(batch[c])
  BY <1>1, HeadOfChunks
<1>4. CASE Escalates(chunk[1])
  <2>1. /\ call' = [call EXCEPT ![c] = chunk] /\ pc' = [pc EXCEPT ![c] = "calling"]
        /\ UNCHANGED <<batch, chunks, rest, results, lock>>
    BY <1>4 DEF CallChunk
  <2> HIDE DEF chunk
  <2>2. QED
    BY <1>1, <1>3, <1>4, <2>1, CallKeepsInv
<1>5. CASE ~Escalates(chunk[1])
  <2>1. call' = call /\ SameElsewhere(call, call', c) /\ call'[c] = <<>>
    BY <1>1, <1>2, <1>5, ExceptElsewhere DEF CallChunk, Functions
  <2>2. CASE Len(chunk) > 1
    <3>1. FallBack(c)
      BY <1>5, <2>2 DEF CallChunk
    <3>2. QED
      BY <1>1, <2>1, <3>1, FallBackKeepsInv
  <2>3. CASE ~(Len(chunk) > 1)
    <3>1. /\ Release(c)
          /\ results' = [results EXCEPT ![c] = With(@, Result(chunk[1], "DENIED", {}))]
      BY <1>5, <2>3 DEF CallChunk
    <3>2. SameElsewhere(results, results', c) /\ DOMAIN results'[c] \subseteq Items
      BY <1>3, <3>1, ResultKeepsItems
    <3>3. QED
      BY <1>1, <2>1, <3>1, <3>2, ReleaseKeepsInv
  <2>4. QED
    BY <2>2, <2>3
<1>6. QED
  BY <1>4, <1>5

LEMMA SingleReturnsKeepsInv ==
  ASSUME EgressInv, NEW c \in Callers, SingleReturns(c)
  PROVE  EgressInv'
<1>1. /\ pc[c] = "calling" /\ pc[c] \in Locked /\ batch' = batch /\ Functions
      /\ Len(call[c]) = 1 /\ call[c] \in Seq(Items) /\ Release(c)
      /\ call' = [call EXCEPT ![c] = <<>>]
  BY DEF SingleReturns, Locked, EgressInv, CallerInv
<1>2. /\ SameElsewhere(call, call', c) /\ call'[c] = <<>>
      /\ call[c] # <<>> /\ call[c][1] \in Items
  <2>1. Len(call[c]) > 0 /\ call[c] \in Seq(Items)
    BY <1>1
  <2>2. call[c] # <<>>
    BY <2>1, LongIsNotEmpty
  <2>3. call[c][1] \in Items
    BY <1>1, <2>2, ElementsOfSeq
  <2>4. QED
    BY <1>1, <2>2, <2>3, ExceptElsewhere DEF Functions
<1>3. PICK status \in {"SUCCEEDED", "UNAVAILABLE"} :
        results' = [results EXCEPT ![c] =
          With(@, Result(call[c][1], status, Elements(call[c])))]
  BY DEF SingleReturns
<1>4. SameElsewhere(results, results', c) /\ DOMAIN results'[c] \subseteq Items
  BY <1>2, <1>3, ResultKeepsItems
<1>5. QED
  BY <1>1, <1>2, <1>4, ReleaseKeepsInv

LEMMA BatchReturnsKeepsInv ==
  ASSUME EgressInv, NEW c \in Callers, BatchReturns(c)
  PROVE  EgressInv'
<1>1. /\ pc[c] = "calling" /\ pc[c] \in Locked /\ batch' = batch /\ Functions
      /\ call[c] \in Seq(Items) /\ call' = [call EXCEPT ![c] = <<>>]
      /\ DOMAIN results[c] \subseteq Items
  BY DEF BatchReturns, Locked, EgressInv, CallerInv
<1>2. SameElsewhere(call, call', c) /\ call'[c] = <<>>
  BY <1>1, ExceptElsewhere DEF Functions
<1>3. CASE FallBack(c)
  BY <1>1, <1>2, <1>3, FallBackKeepsInv
<1>4. CASE \E named \in SUBSET Items \ {{}} :
             /\ results' = [results EXCEPT ![c] = With(@, Answers(c, named))]
             /\ Release(c)
  <2>1. PICK named \in SUBSET Items :
          results' = [results EXCEPT ![c] = With(@, Answers(c, named))] /\ Release(c)
    BY <1>4
  <2>2. DOMAIN Answers(c, named) \subseteq Items
    BY <1>1, ElementsOfSeq DEF Answers
  <2>3. DOMAIN With(results[c], Answers(c, named)) \subseteq Items
    BY <1>1, <2>2, WithResults
  <2>4. SameElsewhere(results, results', c) /\ DOMAIN results'[c] \subseteq Items
    BY <1>1, <2>1, <2>3, ExceptElsewhere DEF Functions
  <2>5. QED
    BY <1>1, <1>2, <2>1, <2>4, ReleaseKeepsInv
<1>5. QED
  BY <1>3, <1>4 DEF BatchReturns

LEMMA FirstOfRest ==
  ASSUME EgressInv, NEW c \in Callers, pc[c] \in {"falling", "alone"}
  PROVE  rest[c][1] \in Items /\ rest[c][1] \in Elements(batch[c])
<1>1. /\ rest[c] \in Seq(Items) /\ rest[c] # <<>>
      /\ Elements(rest[c]) \subseteq Elements(batch[c])
  BY DEF EgressInv, CallerInv
<1>2. QED
  BY <1>1, ElementsOfSeq

LEMMA FallbackCallKeepsInv ==
  ASSUME EgressInv, NEW c \in Callers, FallbackCall(c)
  PROVE  EgressInv'
<1> DEFINE item == rest[c][1]
<1>1. /\ pc[c] = "falling" /\ pc[c] \in Admitted /\ pc[c] \in Locked /\ batch' = batch
      /\ Functions
  BY DEF FallbackCall, Admitted, Locked, EgressInv
<1>2. item \in Items /\ item \in Elements(batch[c])
  BY <1>1, FirstOfRest
<1>3. CASE Escalates(item)
  <2>1. /\ call' = [call EXCEPT ![c] = <<item>>] /\ pc' = [pc EXCEPT ![c] = "alone"]
        /\ UNCHANGED <<batch, chunks, rest, results, lock>>
    BY <1>3 DEF FallbackCall
  <2>2. /\ <<item>> \in Seq(Items) /\ <<item>> # <<>> /\ <<item>>[1] = item
        /\ Elements(<<item>>) \subseteq Elements(batch[c])
    BY <1>2, SingleItem
  <2> HIDE DEF item
  <2>3. QED
    BY <1>1, <1>3, <2>1, <2>2, CallKeepsInv
<1>4. CASE ~Escalates(item)
  <2>1. /\ Onwards(c) /\ call' = call
        /\ results' = [results EXCEPT ![c] = With(@, Result(item, "DENIED", {}))]
    BY <1>4 DEF FallbackCall
  <2>2. SameElsewhere(call, call', c) /\ call'[c] = <<>>
    BY <1>1, <2>1, NoCall, ExceptElsewhere DEF Functions
  <2>3. SameElsewhere(results, results', c) /\ DOMAIN results'[c] \subseteq Items
    BY <1>2, <2>1, ResultKeepsItems
  <2>4. QED
    BY <1>1, <2>1, <2>2, <2>3, OnwardsKeepsInv
<1>5. QED
  BY <1>3, <1>4

LEMMA FallbackReturnsKeepsInv ==
  ASSUME EgressInv, NEW c \in Callers, FallbackReturns(c)
  PROVE  EgressInv'
<1>1. /\ pc[c] = "alone" /\ batch' = batch /\ Functions /\ Onwards(c)
      /\ call' = [call EXCEPT ![c] = <<>>]
  BY DEF FallbackReturns, EgressInv
<1>2. SameElsewhere(call, call', c) /\ call'[c] = <<>>
  BY <1>1, ExceptElsewhere DEF Functions
<1>3. PICK status \in {"SUCCEEDED", "UNAVAILABLE"} :
        results' = [results EXCEPT ![c] =
          With(@, Result(rest[c][1], status, Elements(call[c])))]
  BY DEF FallbackReturns
<1>4. SameElsewhere(results, results', c) /\ DOMAIN results'[c] \subseteq Items
  BY <1>1, <1>3, FirstOfRest, ResultKeepsItems
<1>5. QED
  BY <1>1, <1>2, <1>4, OnwardsKeepsInv

(* A caller that ends its work with no call. *)
LEMMA EndKeepsInv ==
  ASSUME EgressInv, NEW c \in Callers, NEW to \in {"returned", "raised"},
         pc' = [pc EXCEPT ![c] = to],
         SameElsewhere(call, call', c), call'[c] = <<>>,
         lock' = lock \/ (lock = c /\ lock' = Nobody),
         UNCHANGED <<batch, chunks, rest, results>>
  PROVE  EgressInv'
<1>1. CallerInv(c) /\ Functions
  BY DEF EgressInv
<1>2. pc'[c] = to /\ SameElsewhere(pc, pc', c)
  BY <1>1 DEF SameElsewhere, Functions
<1>3. /\ to \in Places /\ to \notin Admitted /\ to \notin Locked \cup {"waiting"}
      /\ to \notin {"falling", "alone"}
  BY DEF Places, Admitted, Locked
<1>4. CallerInv(c)'
  BY <1>1, <1>2, <1>3, EmptyHasNoElements DEF CallerInv
<1>5. StepOf(c)
  BY <1>1, <1>2 DEF StepOf, SameElsewhere, Functions
<1>6. QED
  BY <1>4, <1>5, OneCallerSteps

LEMMA RepeatKeepsInv ==
  ASSUME EgressInv, NEW c \in Callers, Repeat(c)
  PROVE  EgressInv'
<1>1. /\ pc[c] = "repeating" /\ pc[c] \in Admitted /\ Functions
      /\ batch[c] \in Seq(Items) /\ batch[c] # <<>> /\ call[c] = <<>>
      /\ UNCHANGED <<batch, chunks, rest, results, lock>>
  BY BatchesAreSequences, NoCall DEF Repeat, Admitted, EgressInv, CallerInv
<1>2. CASE Escalates(batch[c][1])
  <2>1. call' = [call EXCEPT ![c] = batch[c]] /\ pc' = [pc EXCEPT ![c] = "dropping"]
    BY <1>2 DEF Repeat
  <2>2. "dropping" \notin Locked
    BY DEF Locked
  <2>3. QED
    BY <1>1, <1>2, <2>1, <2>2, CallKeepsInv
<1>3. CASE ~Escalates(batch[c][1])
  <2>1. call' = call /\ pc' = [pc EXCEPT ![c] = "returned"]
    BY <1>3 DEF Repeat
  <2>2. SameElsewhere(call, call', c) /\ call'[c] = <<>>
    BY <1>1, <2>1, ExceptElsewhere DEF Functions
  <2>3. QED
    BY <1>1, <2>1, <2>2, EndKeepsInv
<1>4. QED
  BY <1>2, <1>3

LEMMA CallEndsKeepsInv ==
  ASSUME EgressInv, NEW c \in Callers, RepeatReturns(c) \/ Breaks(c)
  PROVE  EgressInv'
<1>1. Functions /\ call' = [call EXCEPT ![c] = <<>>]
  BY DEF EgressInv, RepeatReturns, Breaks
<1>2. SameElsewhere(call, call', c) /\ call'[c] = <<>>
  BY <1>1, ExceptElsewhere DEF Functions
<1>3. CASE RepeatReturns(c)
  BY <1>2, <1>3, EndKeepsInv DEF RepeatReturns
<1>4. CASE Breaks(c)
  BY <1>2, <1>4, EndKeepsInv DEF Breaks
<1>5. QED
  BY <1>3, <1>4

-----------------------------------------------------------------------------
(* What becomes of every item *)

(* The item has the result its caller is to return with. *)
Settled(c, i) ==
  /\ i \in DOMAIN results[c]
  /\ \/ stray
     \/ i \in results[c][i].asked
     \/ results[c][i].status = "DENIED" /\ ~Named(i)

(* The items the caller still has to send. *)
Pending(c) ==
  CASE pc[c] \in {"waiting", "holding", "calling"} -> ChunkItems(chunks[c])
    [] pc[c] \in {"falling", "alone"} ->
         Elements(rest[c]) \cup ChunkItems(Tail(chunks[c]))
    [] OTHER -> {}

(* An item submitted is still to be sent or has its result, and what is in  *)
(* flight is what comes next.                                               *)
ProgressInv(c) ==
  /\ pc[c] \notin {"start", "raised"} =>
       \A i \in Elements(batch[c]) : i \in Pending(c) \/ Settled(c, i)
  /\ pc[c] = "calling" => call[c] = Head(chunks[c])
  /\ pc[c] = "alone" => call[c] = <<rest[c][1]>>

LEMMA HeadAndTail ==
  ASSUME NEW S, NEW s \in Seq(S), s # <<>>
  PROVE  /\ Head(s) = s[1] /\ Len(Tail(s)) = Len(s) - 1 /\ Len(s) \in Nat \ {0}
         /\ \A k \in 1 .. Len(s) :
              k = 1 \/ (k - 1 \in 1 .. Len(Tail(s)) /\ Tail(s)[k - 1] = s[k])
<1>1. Head(s) = s[1] /\ Len(Tail(s)) = Len(s) - 1 /\ Len(s) \in Nat \ {0}
  OBVIOUS
<1>2. \A j \in 1 .. Len(Tail(s)) : Tail(s)[j] = s[j + 1]
  OBVIOUS
<1>3. ASSUME NEW k \in 1 .. Len(s), k # 1
      PROVE  k - 1 \in 1 .. Len(Tail(s)) /\ Tail(s)[k - 1] = s[k]
  <2>1. k - 1 \in 1 .. Len(Tail(s)) /\ (k - 1) + 1 = k
    BY <1>1, <1>3
  <2>2. QED
    BY <1>2, <2>1
<1>4. QED
  BY <1>1, <1>3

LEMMA ChunksToSend ==
  ASSUME NEW cs \in Seq(Seq(Items)), cs # <<>>
  PROVE  /\ ChunkItems(cs) \subseteq Elements(Head(cs)) \cup ChunkItems(Tail(cs))
         /\ ~(Len(cs) > 1) => ChunkItems(Tail(cs)) = {}
<1>1. /\ Head(cs) = cs[1] /\ Len(Tail(cs)) = Len(cs) - 1 /\ Len(cs) \in Nat \ {0}
      /\ \A k \in 1 .. Len(cs) :
           k = 1 \/ (k - 1 \in 1 .. Len(Tail(cs)) /\ Tail(cs)[k - 1] = cs[k])
  BY HeadAndTail
<1>2. ASSUME NEW k \in 1 .. Len(cs), NEW i \in Elements(cs[k])
      PROVE  i \in Elements(Head(cs)) \cup ChunkItems(Tail(cs))
  BY <1>1 DEF ChunkItems
<1>3. ~(Len(cs) > 1) => 1 .. Len(Tail(cs)) = {}
  BY <1>1
<1>4. QED
  BY <1>2, <1>3 DEF ChunkItems

LEMMA ItemsToSend ==
  ASSUME NEW s \in Seq(Items), s # <<>>
  PROVE  /\ Elements(s) \subseteq {s[1]} \cup Elements(Tail(s))
         /\ ~(Len(s) > 1) => Elements(Tail(s)) = {}
<1>1. /\ Len(Tail(s)) = Len(s) - 1 /\ Len(s) \in Nat \ {0}
      /\ \A k \in 1 .. Len(s) :
           k = 1 \/ (k - 1 \in 1 .. Len(Tail(s)) /\ Tail(s)[k - 1] = s[k])
  BY HeadAndTail
<1>2. ASSUME NEW k \in 1 .. Len(s)
      PROVE  s[k] \in {s[1]} \cup Elements(Tail(s))
  BY <1>1 DEF Elements
<1>3. ~(Len(s) > 1) => 1 .. Len(Tail(s)) = {}
  BY <1>1
<1>4. QED
  BY <1>2, <1>3 DEF Elements

(* Results that account for their items settle them, and no other loses its *)
(* own.                                                                     *)
Accounts(g, astray) ==
  \A i \in DOMAIN g : \/ astray
                      \/ i \in g[i].asked
                      \/ g[i].status = "DENIED" /\ ~Named(i)

LEMMA ResultsSettle ==
  ASSUME EgressInv, NEW c \in Callers, NEW g, Accounts(g, stray'), stray => stray',
         results' = [results EXCEPT ![c] = With(@, g)]
  PROVE  /\ \A i \in DOMAIN g : Settled(c, i)'
         /\ \A i : Settled(c, i) => Settled(c, i)'
<1>1. results'[c] = With(results[c], g)
  BY DEF EgressInv, Functions
<1>2. ASSUME NEW i \in DOMAIN g
      PROVE  Settled(c, i)'
  <2>1. i \in DOMAIN results'[c] /\ results'[c][i] = g[i]
    BY <1>1, <1>2 DEF With
  <2>2. QED
    BY <2>1, Zenon DEF Settled, Accounts
<1>3. ASSUME NEW i, Settled(c, i), i \notin DOMAIN g
      PROVE  Settled(c, i)'
  <2>1. i \in DOMAIN results[c]
    BY <1>3 DEF Settled
  <2>2. i \in DOMAIN results'[c] /\ results'[c][i] = results[c][i]
    BY <1>1, <1>3, <2>1 DEF With
  <2>3. QED
    BY <1>3, <2>2, Zenon DEF Settled
<1>4. QED
  BY <1>2, <1>3

LEMMA DenialAccounts ==
  ASSUME EgressInv, NEW c \in Callers, NEW i \in Elements(batch[c]), pc[c] \in Admitted,
         ~Escalates(i), NEW astray
  PROVE  Accounts(Result(i, "DENIED", {}), astray) /\ DOMAIN Result(i, "DENIED", {}) = {i}
<1>1. ~Named(i)
  BY DEF Escalates, EgressInv, CallerInv
<1>2. DOMAIN Result(i, "DENIED", {}) = {i} /\ Result(i, "DENIED", {})[i].status = "DENIED"
  BY DEF Result
<1>3. QED
  BY <1>1, <1>2, Zenon DEF Accounts

LEMMA AnswerAccounts ==
  ASSUME NEW i, NEW status, NEW asked, i \in asked, NEW astray
  PROVE  Accounts(Result(i, status, asked), astray) /\ DOMAIN Result(i, status, asked) = {i}
<1>1. DOMAIN Result(i, status, asked) = {i} /\ Result(i, status, asked)[i].asked = asked
  BY DEF Result
<1>2. QED
  BY <1>1, Zenon DEF Accounts

(* Every step of the batcher hands the items on. *)
LEMMA ReleaseHandsOn ==
  ASSUME EgressInv, NEW c \in Callers, pc[c] \in Locked, Release(c), batch' = batch,
         \A i \in Elements(batch[c]) :
           i \in ChunkItems(Tail(chunks[c])) \/ Settled(c, i)'
  PROVE  ProgressInv(c)'
<1>1. chunks[c] \in Seq(Seq(Items)) /\ chunks[c] # <<>> /\ Functions
  BY DEF EgressInv, CallerInv
<1>2. /\ pc'[c] = IF Len(chunks[c]) > 1 THEN "waiting"
                  ELSE IF c \in Handlers THEN "repeating" ELSE "returned"
      /\ chunks'[c] = Tail(chunks[c])
  BY <1>1 DEF Release, Functions
<1>3. ~(Len(chunks[c]) > 1) => ChunkItems(Tail(chunks[c])) = {}
  BY <1>1, ChunksToSend
<1>4. pc'[c] = "waiting" => ChunkItems(Tail(chunks[c])) \subseteq Pending(c)'
  BY <1>2 DEF Pending, ChunkItems
<1>5. pc'[c] # "calling" /\ pc'[c] # "alone"
  BY <1>2
<1>6. ASSUME NEW i \in Elements(batch[c])
      PROVE  i \in Pending(c)' \/ Settled(c, i)'
  BY <1>2, <1>3, <1>4, <1>6
<1>7. QED
  BY <1>5, <1>6 DEF ProgressInv

LEMMA FallBackHandsOn ==
  ASSUME EgressInv, NEW c \in Callers, pc[c] \in {"holding", "calling"}, FallBack(c),
         batch' = batch, ProgressInv(c)
  PROVE  ProgressInv(c)'
<1>1. chunks[c] \in Seq(Seq(Items)) /\ chunks[c] # <<>> /\ Functions
  BY DEF EgressInv, CallerInv, Locked
<1>2. /\ pc'[c] = "falling" /\ rest'[c] = Head(chunks[c])
      /\ chunks' = chunks /\ results' = results /\ stray' = stray
  BY <1>1 DEF FallBack, Functions
<1>3. Pending(c) = ChunkItems(chunks[c])
  BY DEF Pending
<1>4. Pending(c)' = Elements(Head(chunks[c])) \cup ChunkItems(Tail(chunks[c]))
  BY <1>2 DEF Pending, ChunkItems, Elements
<1>5. Pending(c) \subseteq Pending(c)'
  BY <1>1, <1>3, <1>4, ChunksToSend
<1>6. \A i : Settled(c, i) => Settled(c, i)'
  BY <1>2, Zenon DEF Settled
<1>7. QED
  BY <1>2, <1>5, <1>6 DEF ProgressInv

LEMMA OnwardsHandsOn ==
  ASSUME EgressInv, NEW c \in Callers, pc[c] \in {"falling", "alone"}, Onwards(c),
         batch' = batch, ProgressInv(c),
         \A i \in {rest[c][1]} : Settled(c, i)', \A i : Settled(c, i) => Settled(c, i)'
  PROVE  ProgressInv(c)'
<1>1. rest[c] \in Seq(Items) /\ rest[c] # <<>> /\ Functions
  BY DEF EgressInv, CallerInv
<1>2. Pending(c) = Elements(rest[c]) \cup ChunkItems(Tail(chunks[c]))
  BY DEF Pending
<1>3. /\ Elements(rest[c]) \subseteq {rest[c][1]} \cup Elements(Tail(rest[c]))
      /\ ~(Len(rest[c]) > 1) => Elements(Tail(rest[c])) = {}
  BY <1>1, ItemsToSend
<1>4. \A i \in Elements(batch[c]) :
        \/ i \in Elements(Tail(rest[c])) \cup ChunkItems(Tail(chunks[c]))
        \/ Settled(c, i)'
  BY <1>2, <1>3 DEF ProgressInv
<1>5. CASE Len(rest[c]) > 1
  <2>1. pc'[c] = "falling" /\ rest'[c] = Tail(rest[c]) /\ chunks' = chunks
    BY <1>1, <1>5 DEF Onwards, Functions
  <2>2. Pending(c)' = Elements(Tail(rest[c])) \cup ChunkItems(Tail(chunks[c]))
    BY <2>1 DEF Pending, ChunkItems, Elements
  <2>3. QED
    BY <1>4, <2>1, <2>2 DEF ProgressInv
<1>6. CASE ~(Len(rest[c]) > 1)
  BY <1>3, <1>4, <1>6, ReleaseHandsOn DEF Onwards, Locked
<1>7. QED
  BY <1>5, <1>6

LEMMA SubmitHandsOn ==
  ASSUME EgressInv, NEW c \in Callers, Submit(c)
  PROVE  ProgressInv(c)'
<1>1. batch[c] \in Seq(Items) /\ Functions /\ batch' = batch
  BY BatchesAreSequences DEF EgressInv, Submit
<1>2. PICK sorted \in SortedByPriority(batch[c]) :
        chunks' = [chunks EXCEPT ![c] = Chunks(sorted)]
  BY DEF Submit
<1>3. sorted \in Seq(Items) /\ Elements(batch[c]) \subseteq Elements(sorted)
  BY <1>1, SortingKeepsItems, SortingLosesNothing
<1>4. Elements(batch[c]) \subseteq ChunkItems(Chunks(sorted))
  BY <1>3, ChunksCover
<1>5. /\ pc'[c] \in {"returned", "waiting", "raised"}
      /\ pc'[c] = "returned" => batch[c] = <<>>
      /\ chunks'[c] = Chunks(sorted)
  BY <1>1, <1>2 DEF Submit, Functions
<1>6. pc'[c] = "waiting" => Elements(batch[c]) \subseteq Pending(c)'
  BY <1>4, <1>5 DEF Pending, ChunkItems
<1>7. pc'[c] = "returned" => Elements(batch[c]) = {}
  BY <1>5, EmptyHasNoElements
<1>8. QED
  BY <1>1, <1>5, <1>6, <1>7 DEF ProgressInv

LEMMA AcquireHandsOn ==
  ASSUME EgressInv, NEW c \in Callers, Acquire(c), ProgressInv(c)
  PROVE  ProgressInv(c)'
<1>1. /\ pc[c] = "waiting" /\ pc'[c] = "holding"
      /\ UNCHANGED <<batch, chunks, results, stray>>
  BY DEF Acquire, EgressInv, Functions
<1>2. Pending(c)' = Pending(c)
  BY <1>1 DEF Pending, ChunkItems
<1>3. \A i : Settled(c, i) => Settled(c, i)'
  BY <1>1, Zenon DEF Settled
<1>4. QED
  BY <1>1, <1>2, <1>3 DEF ProgressInv

LEMMA CallChunkHandsOn ==
  ASSUME EgressInv, NEW c \in Callers, CallChunk(c), ProgressInv(c)
  PROVE  ProgressInv(c)'
<1> DEFINE chunk == Head(chunks[c])
<1>1. /\ pc[c] = "holding" /\ pc[c] \in Locked /\ pc[c] \in Admitted /\ batch' = batch
      /\ Functions /\ stray' = stray
  BY DEF CallChunk, FallBack, Locked, Admitted, EgressInv
<1>2. /\ chunk \in Seq(Items) /\ chunk # <<>> /\ chunk[1] \in Items
      /\ Elements(chunk) \subseteq Elements(batch[c])
      /\ chunks[c] \in Seq(Seq(Items)) /\ chunks[c] # <<>>
  BY <1>1, HeadOfChunks DEF EgressInv, CallerInv
<1>3. Pending(c) = ChunkItems(chunks[c])
  BY <1>1 DEF Pending
<1>4. CASE Escalates(chunk[1])
  <2>1. /\ call'[c] = chunk /\ pc'[c] = "calling"
        /\ chunks' = chunks /\ results' = results
    BY <1>1, <1>4 DEF CallChunk, Functions
  <2> HIDE DEF chunk
  <2>2. Pending(c)' = Pending(c)
    BY <1>3, <2>1 DEF Pending, ChunkItems
  <2>3. \A i : Settled(c, i) => Settled(c, i)'
    BY <1>1, <2>1, Zenon DEF Settled
  <2>4. QED
    BY <1>1, <2>1, <2>2, <2>3 DEF ProgressInv, chunk
<1>5. CASE ~Escalates(chunk[1]) /\ Len(chunk) > 1
  <2>1. FallBack(c)
    BY <1>5 DEF CallChunk
  <2>2. QED
    BY <1>1, <2>1, FallBackHandsOn
<1>6. CASE ~Escalates(chunk[1]) /\ ~(Len(chunk) > 1)
  <2> DEFINE denial == Result(chunk[1], "DENIED", {})
  <2>1. Release(c) /\ results' = [results EXCEPT ![c] = With(@, denial)]
    BY <1>6 DEF CallChunk
  <2>2. chunk[1] \in Elements(batch[c])
    BY <1>2, ElementsOfSeq
  <2>3. Accounts(denial, stray') /\ DOMAIN denial = {chunk[1]}
    BY <1>1, <1>6, <2>2, DenialAccounts
  <2>4. Elements(chunk) \subseteq {chunk[1]}
    BY <1>2, <1>6, ItemsToSend
  <2>5. ChunkItems(chunks[c]) \subseteq Elements(chunk) \cup ChunkItems(Tail(chunks[c]))
    BY <1>2, ChunksToSend
  <2> HIDE DEF denial, chunk
  <2>6. (\A i \in {chunk[1]} : Settled(c, i)') /\ \A i : Settled(c, i) => Settled(c, i)'
    BY <1>1, <2>1, <2>3, ResultsSettle
  <2>7. \A i \in Elements(batch[c]) :
          i \in ChunkItems(Tail(chunks[c])) \/ Settled(c, i)'
    BY <1>1, <1>3, <2>4, <2>5, <2>6 DEF ProgressInv
  <2>8. QED
    BY <1>1, <2>1, <2>7, ReleaseHandsOn
<1>7. QED
  BY <1>4, <1>5, <1>6

LEMMA CallReturnsHandsOn ==
  ASSUME EgressInv, NEW c \in Callers, pc[c] = "calling", ProgressInv(c), Release(c),
         batch' = batch, NEW g, Accounts(g, stray'), Elements(call[c]) \subseteq DOMAIN g,
         stray => stray', results' = [results EXCEPT ![c] = With(@, g)]
  PROVE  ProgressInv(c)'
<1>1. /\ chunks[c] \in Seq(Seq(Items)) /\ chunks[c] # <<>> /\ pc[c] \in Locked
  BY DEF EgressInv, CallerInv, Locked
<1>2. call[c] = Head(chunks[c]) /\ Pending(c) = ChunkItems(chunks[c])
  BY DEF ProgressInv, Pending
<1>3. ChunkItems(chunks[c]) \subseteq Elements(call[c]) \cup ChunkItems(Tail(chunks[c]))
  BY <1>1, <1>2, ChunksToSend
<1>4. (\A i \in DOMAIN g : Settled(c, i)') /\ \A i : Settled(c, i) => Settled(c, i)'
  BY ResultsSettle
<1>5. \A i \in Elements(batch[c]) :
        i \in ChunkItems(Tail(chunks[c])) \/ Settled(c, i)'
  BY <1>2, <1>3, <1>4 DEF ProgressInv
<1>6. QED
  BY <1>1, <1>5, ReleaseHandsOn

LEMMA SingleReturnsHandsOn ==
  ASSUME EgressInv, NEW c \in Callers, SingleReturns(c), ProgressInv(c)
  PROVE  ProgressInv(c)'
<1>1. /\ pc[c] = "calling" /\ batch' = batch /\ stray' = stray /\ Release(c)
      /\ Len(call[c]) = 1 /\ call[c] \in Seq(Items)
  BY DEF SingleReturns, EgressInv, CallerInv
<1>2. PICK status \in {"SUCCEEDED", "UNAVAILABLE"} :
        results' = [results EXCEPT ![c] =
          With(@, Result(call[c][1], status, Elements(call[c])))]
  BY DEF SingleReturns
<1>3. call[c][1] \in Elements(call[c]) /\ Elements(call[c]) = {call[c][1]}
  BY <1>1 DEF Elements
<1>4. /\ Accounts(Result(call[c][1], status, Elements(call[c])), stray')
      /\ DOMAIN Result(call[c][1], status, Elements(call[c])) = {call[c][1]}
  BY <1>3, AnswerAccounts
<1>5. QED
  BY <1>1, <1>2, <1>3, <1>4, CallReturnsHandsOn

LEMMA BatchReturnsHandsOn ==
  ASSUME EgressInv, NEW c \in Callers, BatchReturns(c), ProgressInv(c)
  PROVE  ProgressInv(c)'
<1>1. pc[c] = "calling" /\ batch' = batch
  BY DEF BatchReturns
<1>2. CASE FallBack(c)
  BY <1>1, <1>2, FallBackHandsOn
<1>3. CASE ~FallBack(c)
  <2>1. PICK named \in SUBSET Items :
          /\ results' = [results EXCEPT ![c] = With(@, Answers(c, named))]
          /\ stray' = (stray \/ ~(named \subseteq Elements(call[c])))
          /\ Release(c)
    BY <1>3, Zenon DEF BatchReturns
  <2>2. /\ DOMAIN Answers(c, named) = named \cup Elements(call[c])
        /\ \A i \in named \cup Elements(call[c]) :
             Answers(c, named)[i].asked = Elements(call[c])
    BY DEF Answers
  <2>3. stray => stray'
    BY <2>1, Zenon
  <2>4. named \subseteq Elements(call[c]) \/ stray'
    BY <2>1, Zenon
  <2>5. Accounts(Answers(c, named), stray')
    <3>1. CASE stray'
      BY <3>1, Zenon DEF Accounts
    <3>2. CASE named \subseteq Elements(call[c])
      <4>1. \A i \in DOMAIN Answers(c, named) : i \in Answers(c, named)[i].asked
        BY <2>2, <3>2
      <4>2. QED
        BY <4>1, Zenon DEF Accounts
    <3>3. QED
      BY <2>4, <3>1, <3>2
  <2>6. QED
    BY <1>1, <2>1, <2>2, <2>3, <2>5, CallReturnsHandsOn
<1>4. QED
  BY <1>2, <1>3

LEMMA FallbackCallHandsOn ==
  ASSUME EgressInv, NEW c \in Callers, FallbackCall(c), ProgressInv(c)
  PROVE  ProgressInv(c)'
<1> DEFINE item == rest[c][1]
<1>1. /\ pc[c] = "falling" /\ pc[c] \in Admitted /\ batch' = batch /\ stray' = stray
      /\ Functions /\ item \in Elements(batch[c])
  BY FirstOfRest DEF FallbackCall, Admitted, EgressInv
<1>2. CASE Escalates(item)
  <2>1. /\ call'[c] = <<item>> /\ pc'[c] = "alone"
        /\ chunks' = chunks /\ rest' = rest /\ results' = results
    BY <1>1, <1>2 DEF FallbackCall, Functions
  <2>2. Pending(c)' = Pending(c)
    BY <1>1, <2>1 DEF Pending, ChunkItems, Elements
  <2>3. \A i : Settled(c, i) => Settled(c, i)'
    BY <1>1, <2>1, Zenon DEF Settled
  <2>4. QED
    BY <1>1, <2>1, <2>2, <2>3 DEF ProgressInv
<1>3. CASE ~Escalates(item)
  <2>1. Onwards(c) /\ results' = [results EXCEPT ![c] = With(@, Result(item, "DENIED", {}))]
    BY <1>3 DEF FallbackCall
  <2>2. /\ Accounts(Result(item, "DENIED", {}), stray')
        /\ DOMAIN Result(item, "DENIED", {}) = {item}
    BY <1>1, <1>3, DenialAccounts
  <2> HIDE DEF item
  <2>3. (\A i \in {item} : Settled(c, i)') /\ \A i : Settled(c, i) => Settled(c, i)'
    BY <1>1, <2>1, <2>2, ResultsSettle
  <2>4. QED
    BY <1>1, <2>1, <2>3, OnwardsHandsOn DEF item
<1>4. QED
  BY <1>2, <1>3

LEMMA FallbackReturnsHandsOn ==
  ASSUME EgressInv, NEW c \in Callers, FallbackReturns(c), ProgressInv(c)
  PROVE  ProgressInv(c)'
<1> DEFINE item == rest[c][1]
<1>1. /\ pc[c] = "alone" /\ batch' = batch /\ stray' = stray /\ Onwards(c)
      /\ item \in Items /\ call[c] = <<item>>
  BY FirstOfRest DEF FallbackReturns, ProgressInv
<1>2. PICK status \in {"SUCCEEDED", "UNAVAILABLE"} :
        results' = [results EXCEPT ![c] =
          With(@, Result(item, status, Elements(call[c])))]
  BY DEF FallbackReturns
<1>3. item \in Elements(call[c])
  BY <1>1, SingleItem
<1>4. /\ Accounts(Result(item, status, Elements(call[c])), stray')
      /\ DOMAIN Result(item, status, Elements(call[c])) = {item}
  BY <1>3, AnswerAccounts
<1> HIDE DEF item
<1>5. (\A i \in {item} : Settled(c, i)') /\ \A i : Settled(c, i) => Settled(c, i)'
  BY <1>1, <1>2, <1>4, ResultsSettle
<1>6. QED
  BY <1>1, <1>5, OnwardsHandsOn DEF item

(* The handler's repeat touches no result; a call that breaks raises. *)
LEMMA EndHandsOn ==
  ASSUME EgressInv, NEW c \in Callers, Repeat(c) \/ RepeatReturns(c) \/ Breaks(c),
         ProgressInv(c)
  PROVE  ProgressInv(c)'
<1>1. batch' = batch /\ results' = results /\ stray' = stray /\ Functions
  BY DEF Repeat, RepeatReturns, Breaks, EgressInv
<1>2. \A i : Settled(c, i) => Settled(c, i)'
  BY <1>1, Zenon DEF Settled
<1>3. CASE Breaks(c)
  <2>1. pc'[c] = "raised"
    BY <1>1, <1>3 DEF Breaks, Functions
  <2>2. QED
    BY <2>1 DEF ProgressInv
<1>4. CASE Repeat(c) \/ RepeatReturns(c)
  <2>1. pc[c] \in {"repeating", "dropping"} /\ pc'[c] \in {"dropping", "returned"}
    BY <1>1, <1>4 DEF Repeat, RepeatReturns, Functions
  <2>2. Pending(c) = {}
    BY <2>1 DEF Pending
  <2>3. QED
    BY <1>1, <1>2, <2>1, <2>2 DEF ProgressInv
<1>5. QED
  BY <1>3, <1>4

LEMMA OthersUntouched ==
  ASSUME EgressInv, NEW c \in Callers, CallerStep(c), NEW d \in Callers, d # c
  PROVE  /\ pc'[d] = pc[d] /\ batch'[d] = batch[d] /\ chunks'[d] = chunks[d]
         /\ rest'[d] = rest[d] /\ call'[d] = call[d] /\ results'[d] = results[d]
         /\ stray => stray'
<1>1. Functions
  BY DEF EgressInv
<1>2. ASSUME Release(c) \/ Onwards(c)
      PROVE  pc'[d] = pc[d] /\ chunks'[d] = chunks[d] /\ rest'[d] = rest[d]
  BY <1>1, <1>2 DEF Release, Onwards, Functions
<1>3. ASSUME FallBack(c)
      PROVE  /\ pc'[d] = pc[d] /\ chunks'[d] = chunks[d] /\ rest'[d] = rest[d]
             /\ results' = results /\ stray' = stray
  BY <1>1, <1>3 DEF FallBack, Functions
<1>4. CASE Submit(c) \/ Acquire(c) \/ Repeat(c) \/ RepeatReturns(c) \/ Breaks(c)
  BY <1>1, <1>4 DEF Submit, Acquire, Repeat, RepeatReturns, Breaks, Functions
<1>5. CASE CallChunk(c)
  BY <1>1, <1>2, <1>3, <1>5 DEF CallChunk, Functions
<1>6. CASE SingleReturns(c)
  BY <1>1, <1>2, <1>6 DEF SingleReturns, Functions
<1>7. CASE BatchReturns(c)
  <2>1. CASE FallBack(c)
    BY <1>1, <1>3, <1>7, <2>1 DEF BatchReturns, Functions
  <2>2. CASE ~FallBack(c)
    <3>1. PICK named \in SUBSET Items :
            /\ results' = [results EXCEPT ![c] = With(@, Answers(c, named))]
            /\ stray' = (stray \/ ~(named \subseteq Elements(call[c])))
            /\ Release(c)
      BY <1>7, <2>2, Zenon DEF BatchReturns
    <3>2. stray => stray'
      BY <3>1, Zenon
    <3>3. call'[d] = call[d] /\ batch' = batch /\ results'[d] = results[d]
      BY <1>1, <1>7, <3>1 DEF BatchReturns, Functions
    <3>4. QED
      BY <1>2, <3>1, <3>2, <3>3
  <2>3. QED
    BY <2>1, <2>2
<1>8. CASE FallbackCall(c)
  BY <1>1, <1>2, <1>8 DEF FallbackCall, Functions
<1>9. CASE FallbackReturns(c)
  BY <1>1, <1>2, <1>9 DEF FallbackReturns, Functions
<1>10. QED
  BY <1>4, <1>5, <1>6, <1>7, <1>8, <1>9 DEF CallerStep

LEMMA OthersKeepTheirs ==
  ASSUME EgressInv, NEW c \in Callers, CallerStep(c), NEW d \in Callers, d # c,
         ProgressInv(d)
  PROVE  ProgressInv(d)'
<1>1. /\ pc'[d] = pc[d] /\ batch'[d] = batch[d] /\ chunks'[d] = chunks[d]
      /\ rest'[d] = rest[d] /\ call'[d] = call[d] /\ results'[d] = results[d]
      /\ stray => stray'
  BY OthersUntouched
<1>2. Pending(d)' = Pending(d)
  BY <1>1 DEF Pending, ChunkItems, Elements
<1>3. \A i : Settled(d, i) => Settled(d, i)'
  BY <1>1, Zenon DEF Settled
<1>4. QED
  BY <1>1, <1>2, <1>3 DEF ProgressInv

-----------------------------------------------------------------------------
(* What bounds a caller's work *)

(* The lock is held only by a caller that works under it: whoever ends, by  *)
(* an exception too, has given it back.                                     *)
LockIsNotLeft == lock # Nobody => pc[lock] \in Locked

(* Once it has submitted a batch, every step of a caller brings it closer   *)
(* to its end, and no step of another takes it back.                        *)
ForOne == 2 * MaxBatchSize + 4
ForChunks(n) == ForOne * n
Effort(c) ==
  LET n == Len(chunks[c]) IN
  CASE pc[c] = "waiting" -> ForChunks(n) + 2
    [] pc[c] = "holding" -> ForChunks(n) + 1
    [] pc[c] = "calling" -> ForChunks(n)
    [] pc[c] = "falling" -> ForChunks(n - 1) + 2 * Len(rest[c]) + 2
    [] pc[c] = "alone" -> ForChunks(n - 1) + 2 * Len(rest[c]) + 1
    [] pc[c] = "repeating" -> 2
    [] pc[c] = "dropping" -> 1
    [] OTHER -> 0
Mine(c) == <<pc[c], chunks[c], rest[c], call[c], results[c]>>
WorkRunsOut ==
  [][\A c \in Callers : pc[c] # "start" =>
       /\ Effort(c) \in Nat
       /\ Mine(c)' = Mine(c) \/ Effort(c)' < Effort(c)]_vars

LEMMA LockSteps ==
  ASSUME EgressInv, LockIsNotLeft, NEW c \in Callers, CallerStep(c)
  PROVE  LockIsNotLeft'
<1>1. /\ Functions /\ lock \in Callers \cup {Nobody} /\ Nobody \notin Callers
      /\ \A d \in Callers : pc[d] \in Locked => lock = d
      /\ \A d \in Callers \ {c} : pc'[d] = pc[d]
  BY EgressAssumption, OthersUntouched DEF EgressInv, CallerInv
<1>2. CASE lock' = Nobody
  BY <1>2 DEF LockIsNotLeft
<1>3. CASE lock' = lock /\ lock # c
  BY <1>1, <1>3 DEF LockIsNotLeft
<1>4. CASE lock' = c /\ pc'[c] \in Locked
  BY <1>4 DEF LockIsNotLeft
<1>5. pc[c] \notin Locked => lock # c
  BY <1>1 DEF LockIsNotLeft
<1>6. \/ lock' = Nobody
      \/ lock' = lock /\ lock # c
      \/ lock' = c /\ pc'[c] \in Locked
  <2>1. CASE Submit(c) \/ Repeat(c) \/ RepeatReturns(c)
    BY <1>5, <2>1 DEF Submit, Repeat, RepeatReturns, Locked
  <2>2. CASE Acquire(c)
    BY <1>1, <2>2 DEF Acquire, Functions, Locked
  <2>3. CASE CallChunk(c) \/ SingleReturns(c) \/ BatchReturns(c)
    BY <1>1, <2>3 DEF CallChunk, SingleReturns, BatchReturns, FallBack, Release,
                      Functions, Locked
  <2>4. CASE FallbackCall(c) \/ FallbackReturns(c)
    BY <1>1, <2>4 DEF FallbackCall, FallbackReturns, Onwards, Release, Functions, Locked
  <2>5. CASE Breaks(c)
    BY <2>5 DEF Breaks
  <2>6. QED
    BY <2>1, <2>2, <2>3, <2>4, <2>5 DEF CallerStep
<1>7. QED
  BY <1>2, <1>3, <1>4, <1>6

LEMMA ForOneMore ==
  /\ ForOne \in Nat /\ ForOne = 2 * MaxBatchSize + 4 /\ MaxBatchSize \in Nat \ {0}
  /\ \A n \in Nat : ForChunks(n) \in Nat
  /\ \A n \in Nat \ {0} : n - 1 \in Nat /\ ForChunks(n) = ForChunks(n - 1) + ForOne
<1>1. /\ MaxBatchSize \in Nat \ {0} /\ ForOne \in Nat /\ ForOne = 2 * MaxBatchSize + 4
  BY EgressAssumption DEF ForOne
<1> HIDE DEF ForOne
<1>2. \A n \in Nat : ForOne * n \in Nat
  BY <1>1
<1>3. \A n \in Nat \ {0} : ForOne * n = ForOne * (n - 1) + ForOne
  BY <1>1
<1>4. QED
  BY <1>1, <1>2, <1>3 DEF ForChunks

(* What a caller with n chunks left has before it, and once one is done. *)
After(n) == ForChunks(n - 1) + 2

LEMMA LockedEffort ==
  ASSUME EgressInv, NEW c \in Callers, pc[c] \in Locked
  PROVE  /\ Len(chunks[c]) \in Nat \ {0} /\ Effort(c) \in Nat
         /\ After(Len(chunks[c])) \in Nat /\ Effort(c) > After(Len(chunks[c]))
         /\ pc[c] \in {"holding", "calling"} =>
              Effort(c) > After(Len(chunks[c])) + 2 * MaxBatchSize
<1> DEFINE n == Len(chunks[c])
<1>1. n \in Nat \ {0}
  BY DEF EgressInv, CallerInv
<1>2. /\ ForOne \in Nat /\ ForOne = 2 * MaxBatchSize + 4 /\ MaxBatchSize \in Nat \ {0}
      /\ ForChunks(n) = ForChunks(n - 1) + ForOne /\ ForChunks(n - 1) \in Nat
  BY <1>1, ForOneMore
<1>3. CASE pc[c] = "holding"
  <2>1. Effort(c) = ForChunks(n) + 1
    BY <1>3 DEF Effort
  <2>2. QED
    BY <1>1, <1>2, <1>3, <2>1 DEF After
<1>4. CASE pc[c] = "calling"
  <2>1. Effort(c) = ForChunks(n)
    BY <1>4 DEF Effort
  <2>2. QED
    BY <1>1, <1>2, <1>4, <2>1 DEF After
<1>5. CASE pc[c] \in {"falling", "alone"}
  <2>1. Len(rest[c]) \in Nat \ {0}
    BY <1>5 DEF EgressInv, CallerInv
  <2>2. Effort(c) \in {ForChunks(n - 1) + 2 * Len(rest[c]) + 1,
                       ForChunks(n - 1) + 2 * Len(rest[c]) + 2}
    BY <1>5 DEF Effort
  <2>3. After(n) = ForChunks(n - 1) + 2 /\ ForChunks(n - 1) \in Nat
    BY <1>2 DEF After
  <2> HIDE DEF n
  <2>4. Effort(c) \in Nat /\ After(n) \in Nat /\ Effort(c) > After(n)
    BY <2>1, <2>2, <2>3
  <2>5. QED
    BY <1>1, <1>5, <2>4 DEF n
<1>6. QED
  BY <1>3, <1>4, <1>5 DEF Locked

LEMMA EffortTyped ==
  ASSUME EgressInv, NEW c \in Callers
  PROVE  Effort(c) \in Nat
<1>1. CASE pc[c] \in Locked
  BY <1>1, LockedEffort
<1>2. CASE pc[c] = "waiting"
  <2>1. Len(chunks[c]) \in Nat
    BY DEF EgressInv, CallerInv
  <2>2. ForChunks(Len(chunks[c])) \in Nat
    BY <2>1, ForOneMore
  <2>3. QED
    BY <1>2, <2>2 DEF Effort
<1>3. CASE pc[c] \notin Locked \cup {"waiting"}
  BY <1>3 DEF Effort, Locked
<1>4. QED
  BY <1>1, <1>2, <1>3

LEMMA ReleaseSpends ==
  ASSUME EgressInv, NEW c \in Callers, pc[c] \in Locked, Release(c)
  PROVE  Effort(c)' < Effort(c)
<1> DEFINE n == Len(chunks[c])
<1>1. /\ n \in Nat \ {0} /\ Effort(c) \in Nat /\ After(n) \in Nat /\ Effort(c) > After(n)
  BY LockedEffort
<1>2. Functions /\ chunks[c] \in Seq(Seq(Items)) /\ chunks[c] # <<>>
  BY <1>1 DEF EgressInv, CallerInv
<1>3. /\ chunks'[c] = Tail(chunks[c])
      /\ pc'[c] \in {"waiting", "repeating", "returned"}
  BY <1>2 DEF Release, Functions
<1>4. Len(chunks'[c]) = n - 1
  BY <1>2, <1>3
<1>5. /\ pc'[c] = "waiting" => Effort(c)' = After(n)
      /\ pc'[c] = "repeating" => Effort(c)' = 2
      /\ pc'[c] = "returned" => Effort(c)' = 0
  BY <1>4 DEF Effort, After
<1>6. ForChunks(n - 1) \in Nat
  BY <1>1, ForOneMore
<1>7. QED
  BY <1>1, <1>3, <1>5, <1>6 DEF After

LEMMA FallBackSpends ==
  ASSUME EgressInv, NEW c \in Callers, pc[c] \in {"holding", "calling"}, FallBack(c)
  PROVE  Effort(c)' < Effort(c)
<1> DEFINE n == Len(chunks[c])
<1>1. /\ n \in Nat \ {0} /\ Effort(c) \in Nat /\ After(n) \in Nat
      /\ Effort(c) > After(n) + 2 * MaxBatchSize
  BY LockedEffort DEF Locked
<1>2. Functions /\ chunks[c] \in Seq(Seq(Items)) /\ Len(chunks[c][1]) \in 1 .. MaxBatchSize
  <2>1. 1 \in 1 .. n
    BY <1>1
  <2>2. QED
    BY <2>1 DEF EgressInv, CallerInv
<1>3. pc'[c] = "falling" /\ rest'[c] = Head(chunks[c]) /\ chunks' = chunks
  BY <1>2 DEF FallBack, Functions
<1>4. Len(rest'[c]) \in 1 .. MaxBatchSize
  BY <1>1, <1>2, <1>3
<1>5. Effort(c)' = ForChunks(n - 1) + 2 * Len(rest'[c]) + 2
  BY <1>3 DEF Effort
<1>6. ForChunks(n - 1) \in Nat /\ MaxBatchSize \in Nat
  BY <1>1, ForOneMore
<1>7. QED
  BY <1>1, <1>4, <1>5, <1>6 DEF After

LEMMA OnwardsSpends ==
  ASSUME EgressInv, NEW c \in Callers, pc[c] \in {"falling", "alone"}, Onwards(c)
  PROVE  Effort(c)' < Effort(c)
<1>1. CASE ~(Len(rest[c]) > 1)
  BY <1>1, ReleaseSpends DEF Onwards, Locked
<1>2. CASE Len(rest[c]) > 1
  <2> DEFINE n == Len(chunks[c])
  <2>1. Functions /\ rest[c] \in Seq(Items) /\ n \in Nat \ {0}
    BY LockedEffort DEF EgressInv, CallerInv, Locked
  <2>2. pc'[c] = "falling" /\ rest'[c] = Tail(rest[c]) /\ chunks' = chunks
    BY <1>2, <2>1 DEF Onwards, Functions
  <2>3. Len(rest'[c]) = Len(rest[c]) - 1 /\ Len(rest[c]) \in Nat
    BY <1>2, <2>1, <2>2
  <2>4. Effort(c)' = ForChunks(n - 1) + 2 * Len(rest'[c]) + 2
    BY <2>2 DEF Effort
  <2>5. Effort(c) >= ForChunks(n - 1) + 2 * Len(rest[c]) + 1 /\ Effort(c) \in Nat
    <3>1. ForChunks(n - 1) \in Nat
      BY <2>1, ForOneMore
    <3>2. QED
      BY <2>3, <3>1 DEF Effort
  <2>6. ForChunks(n - 1) \in Nat
    BY <2>1, ForOneMore
  <2>7. QED
    BY <2>3, <2>4, <2>5, <2>6
<1>3. QED
  BY <1>1, <1>2

LEMMA StepsSpend ==
  ASSUME EgressInv, NEW c \in Callers, CallerStep(c), pc[c] # "start"
  PROVE  Effort(c)' < Effort(c)
<1>1. Functions
  BY DEF EgressInv
<1>2. CASE Acquire(c)
  <2>1. pc[c] = "waiting" /\ pc'[c] = "holding" /\ chunks' = chunks
    BY <1>1, <1>2 DEF Acquire, Functions
  <2>2. Len(chunks[c]) \in Nat \ {0}
    BY <2>1 DEF EgressInv, CallerInv
  <2>3. ForChunks(Len(chunks[c])) \in Nat
    BY <2>2, ForOneMore
  <2>4. QED
    BY <2>1, <2>3 DEF Effort
<1>3. CASE CallChunk(c)
  <2>1. pc[c] = "holding"
    BY <1>3 DEF CallChunk
  <2>2. CASE FallBack(c) \/ Release(c)
    BY <2>1, <2>2, FallBackSpends, ReleaseSpends DEF Locked
  <2>3. CASE pc'[c] = "calling" /\ chunks' = chunks
    <3>1. Len(chunks[c]) \in Nat \ {0}
      BY <2>1, LockedEffort DEF Locked
    <3>2. ForChunks(Len(chunks[c])) \in Nat
      BY <3>1, ForOneMore
    <3>3. QED
      BY <2>1, <2>3, <3>2 DEF Effort
  <2>4. QED
    BY <1>1, <1>3, <2>2, <2>3 DEF CallChunk, Functions
<1>4. CASE SingleReturns(c)
  BY <1>4, ReleaseSpends DEF SingleReturns, Locked
<1>5. CASE BatchReturns(c)
  BY <1>5, ReleaseSpends, FallBackSpends DEF BatchReturns, Locked
<1>6. CASE FallbackCall(c)
  <2>1. pc[c] = "falling"
    BY <1>6 DEF FallbackCall
  <2>2. CASE Onwards(c)
    BY <2>1, <2>2, OnwardsSpends
  <2>3. CASE pc'[c] = "alone" /\ chunks' = chunks /\ rest' = rest
    <3>1. Len(chunks[c]) \in Nat \ {0} /\ Len(rest[c]) \in Nat
      BY <2>1, LockedEffort DEF Locked, EgressInv, CallerInv
    <3>2. ForChunks(Len(chunks[c]) - 1) \in Nat
      BY <3>1, ForOneMore
    <3>3. QED
      BY <2>1, <2>3, <3>1, <3>2 DEF Effort
  <2>4. QED
    BY <1>1, <1>6, <2>2, <2>3 DEF FallbackCall, Functions
<1>7. CASE FallbackReturns(c)
  BY <1>7, OnwardsSpends DEF FallbackReturns
<1>8. CASE Repeat(c) \/ RepeatReturns(c)
  BY <1>1, <1>8 DEF Repeat, RepeatReturns, Effort, Functions
<1>9. CASE Breaks(c)
  <2>1. pc'[c] = "raised" /\ pc[c] \in {"calling", "alone", "dropping"}
    BY <1>1, <1>9 DEF Breaks, EgressInv, CallerInv, Functions
  <2>2. CASE pc[c] = "dropping"
    BY <2>1, <2>2 DEF Effort
  <2>3. CASE pc[c] # "dropping"
    <3>1. Effort(c) \in Nat /\ After(Len(chunks[c])) \in Nat
          /\ Effort(c) > After(Len(chunks[c]))
      BY <2>1, <2>3, LockedEffort DEF Locked
    <3>2. Effort(c)' = 0
      BY <2>1 DEF Effort
    <3>3. QED
      BY <3>1, <3>2
  <2>4. QED
    BY <2>2, <2>3
<1>10. QED
  BY <1>2, <1>3, <1>4, <1>5, <1>6, <1>7, <1>8, <1>9 DEF CallerStep, Submit

-----------------------------------------------------------------------------
(* The theorems *)

LEMMA EgressStart == Init => EgressInv
<1> SUFFICES ASSUME Init PROVE EgressInv
  OBVIOUS
<1>1. /\ DOMAIN pc = Callers /\ DOMAIN chunks = Callers /\ DOMAIN rest = Callers
      /\ DOMAIN call = Callers /\ DOMAIN results = Callers /\ DOMAIN batch = Callers
  BY DEF Init
<1>2. ASSUME NEW c \in Callers
      PROVE  CallerInv(c)
  <2>1. /\ pc[c] = "start" /\ batch[c] \in Batches /\ chunks[c] = <<>>
        /\ rest[c] = <<>> /\ call[c] = <<>> /\ results[c] = NoResults
    BY DEF Init
  <2>2. DOMAIN NoResults = {}
    BY DEF NoResults
  <2>3. /\ <<>> \in Seq(Seq(Items)) /\ <<>> \in Seq(Items) /\ Len(<<>>) = 0
    OBVIOUS
  <2>4. "start" \in Places /\ "start" \notin Admitted /\ "start" \notin Locked
    BY DEF Places, Admitted, Locked
  <2>5. QED
    BY <2>1, <2>2, <2>3, <2>4, EmptyHasNoElements DEF CallerInv
<1>3. lock \in Callers \cup {Nobody}
  BY DEF Init
<1>4. QED
  BY <1>1, <1>2, <1>3 DEF EgressInv, Functions

(* Callers hold only items of their own batch, all of them allowed, and the *)
(* lock wherever the batcher works for them.                                *)
THEOREM EgressInvariant == Spec => []EgressInv
<1>1. EgressInv /\ [Next]_vars => EgressInv'
  <2> SUFFICES ASSUME EgressInv, [Next]_vars PROVE EgressInv'
    OBVIOUS
  <2>1. ASSUME NEW c \in Callers, CallerStep(c)
        PROVE  EgressInv'
    BY <2>1, SubmitKeepsInv, AcquireKeepsInv, CallChunkKeepsInv,
       SingleReturnsKeepsInv, BatchReturnsKeepsInv, FallbackCallKeepsInv,
       FallbackReturnsKeepsInv, RepeatKeepsInv, CallEndsKeepsInv
    DEF CallerStep
  <2>2. CASE UNCHANGED vars
    BY <2>2 DEF vars, EgressInv, CallerInv, Functions
  <2>3. QED
    BY <2>1, <2>2 DEF Next
<1>2. QED
  BY <1>1, EgressStart, PTL DEF Spec

(* The callers' state is well formed, and no chunk exceeds the batch size.  *)
THEOREM EgressTypeCorrect == Spec => []TypeOK
<1> DEFINE StrayOK == stray \in BOOLEAN
<1>1. Init => StrayOK
  BY DEF Init
<1>2. StrayOK /\ [Next]_vars => StrayOK'
  <2> SUFFICES ASSUME stray \in BOOLEAN, [Next]_vars PROVE stray' \in BOOLEAN
    OBVIOUS
  <2>1. ASSUME NEW c \in Callers, BatchReturns(c)
        PROVE  stray' \in BOOLEAN
    <3>1. CASE FallBack(c)
      BY <3>1 DEF FallBack
    <3>2. CASE ~FallBack(c)
      <4>1. PICK named : stray' = (stray \/ ~(named \subseteq Elements(call[c])))
        BY <2>1, <3>2, Zenon DEF BatchReturns
      <4>2. QED
        BY <4>1, Zenon
    <3>3. QED
      BY <3>1, <3>2
  <2>2. ASSUME NEW c \in Callers, CallChunk(c)
        PROVE  stray' \in BOOLEAN
    BY <2>2 DEF CallChunk, FallBack
  <2>3. ASSUME NEW c \in Callers, CallerStep(c)
        PROVE  stray' \in BOOLEAN
    BY <2>1, <2>2, <2>3
    DEF CallerStep, Submit, Acquire, SingleReturns, FallbackCall, FallbackReturns,
        Repeat, RepeatReturns, Breaks
  <2>4. QED
    BY <2>3 DEF Next, vars
<1>3. EgressInv /\ StrayOK => TypeOK
  <2> SUFFICES ASSUME EgressInv, stray \in BOOLEAN PROVE TypeOK
    OBVIOUS
  <2>1. \A c \in Callers : CallerInv(c)
    BY DEF EgressInv
  <2>2. QED
    BY <2>1 DEF EgressInv, CallerInv, TypeOK
<1> HIDE DEF StrayOK
<1>4. QED
  BY <1>1, <1>2, <1>3, EgressInvariant, PTL DEF Spec

(* The batcher has one call in flight at a time; only the handler's repeat  *)
(* is made beside it.                                                       *)
THEOREM OneCallAtATime == Spec => []SingleFlight
<1>1. EgressInv => SingleFlight
  <2> SUFFICES ASSUME EgressInv, NEW c \in Callers, NEW d \in Callers, call[c] # <<>>
               PROVE  /\ pc[c] # "dropping" => lock = c
                      /\ call[d] # <<>> /\ c # d => "dropping" \in {pc[c], pc[d]}
    BY DEF SingleFlight
  <2>1. \A e \in Callers : call[e] # <<>> => pc[e] = "dropping" \/ lock = e
    BY DEF EgressInv, CallerInv, Locked
  <2>2. QED
    BY <2>1
<1>2. QED
  BY <1>1, EgressInvariant, PTL

(* Nothing leaves that its own egress request forbids. *)
THEOREM ForbiddenStays == Spec => []OnlyAllowedLeave
<1>1. EgressInv => OnlyAllowedLeave
  <2> SUFFICES ASSUME EgressInv, NEW c \in Callers, NEW i \in Elements(call[c])
               PROVE  EgressAllowed(Request[i])
    BY DEF OnlyAllowedLeave
  <2>1. CallerInv(c) /\ call[c] # <<>>
    BY EmptyHasNoElements DEF EgressInv
  <2>2. pc[c] \in Admitted /\ i \in Elements(batch[c])
    BY <2>1 DEF CallerInv, Admitted
  <2>3. QED
    BY <2>1, <2>2 DEF CallerInv
<1>2. QED
  BY <1>1, EgressInvariant, PTL

(* The adapter is called only under a request that names it. *)
THEOREM CallsNameTheAdapter == Spec => []OnlyNamedLeave
<1>1. EgressInv => OnlyNamedLeave
  BY DEF EgressInv, CallerInv, OnlyNamedLeave
<1>2. QED
  BY <1>1, EgressInvariant, PTL

(* A caller that returns has its result for every item, from a call the     *)
(* item was part of or for a denial it earned: through sorting, chunks and  *)
(* fallbacks no item is lost.                                               *)
THEOREM NoItemIsLost == Spec => []EveryItemHasItsResult
<1> DEFINE Progress == \A c \in Callers : ProgressInv(c)
<1>1. Init => Progress
  BY DEF Init, ProgressInv
<1>2. EgressInv /\ Progress /\ [Next]_vars => Progress'
  <2> SUFFICES ASSUME EgressInv, Progress, [Next]_vars, NEW d \in Callers
               PROVE  ProgressInv(d)'
    OBVIOUS
  <2>1. ProgressInv(d)
    OBVIOUS
  <2>2. ASSUME CallerStep(d)
        PROVE  ProgressInv(d)'
    BY <2>1, <2>2, SubmitHandsOn, AcquireHandsOn, CallChunkHandsOn,
       SingleReturnsHandsOn, BatchReturnsHandsOn, FallbackCallHandsOn,
       FallbackReturnsHandsOn, EndHandsOn
    DEF CallerStep
  <2>3. ASSUME NEW c \in Callers, c # d, CallerStep(c)
        PROVE  ProgressInv(d)'
    BY <2>1, <2>3, OthersKeepTheirs
  <2>4. CASE UNCHANGED vars
    <3>1. UNCHANGED <<pc, batch, chunks, rest, call, results, stray>>
      BY <2>4 DEF vars
    <3>2. Pending(d)' = Pending(d)
      BY <3>1 DEF Pending, ChunkItems, Elements
    <3>3. \A i : Settled(d, i) => Settled(d, i)'
      BY <3>1, Zenon DEF Settled
    <3>4. QED
      BY <2>1, <3>1, <3>2, <3>3 DEF ProgressInv
  <2>5. QED
    BY <2>2, <2>3, <2>4 DEF Next
<1>3. Progress => EveryItemHasItsResult
  <2> SUFFICES ASSUME NEW c \in Callers, ProgressInv(c), pc[c] = "returned",
                      NEW i \in Elements(batch[c])
               PROVE  /\ i \in DOMAIN results[c]
                      /\ stray \/ i \in results[c][i].asked
                               \/ (results[c][i].status = "DENIED" /\ ~Named(i))
    BY Zenon DEF EveryItemHasItsResult
  <2>1. Settled(c, i)
    BY DEF ProgressInv, Pending
  <2>2. QED
    BY <2>1, Zenon DEF Settled
<1> HIDE DEF Progress
<1>4. QED
  BY <1>1, <1>2, <1>3, EgressInvariant, PTL DEF Spec

(* No caller ends, with results or with an exception, while it holds the    *)
(* lock of the process: the with-block of _execute_micro_batch.             *)
THEOREM LockIsPassedOn == Spec => []LockIsNotLeft
<1>1. Init => LockIsNotLeft
  BY DEF Init, LockIsNotLeft
<1>2. EgressInv /\ EgressInv' /\ LockIsNotLeft /\ [Next]_vars => LockIsNotLeft'
  <2> SUFFICES ASSUME EgressInv, EgressInv', LockIsNotLeft, [Next]_vars
               PROVE  LockIsNotLeft'
    OBVIOUS
  <2>1. ASSUME NEW c \in Callers, CallerStep(c)
        PROVE  LockIsNotLeft'
    BY <2>1, LockSteps
  <2>2. CASE UNCHANGED vars
    BY <2>2 DEF vars, LockIsNotLeft
  <2>3. QED
    BY <2>1, <2>2 DEF Next
<1>3. QED
  BY <1>1, <1>2, EgressInvariant, PTL DEF Spec

(* A caller takes no more steps than its batch has work for, whatever the   *)
(* provider answers and whichever thread is given the lock: what liveness   *)
(* adds is only that a caller that can take a step does.                    *)
THEOREM EveryStepCounts == Spec => WorkRunsOut
<1> DEFINE Counts == \A c \in Callers : pc[c] # "start" =>
                       /\ Effort(c) \in Nat
                       /\ Mine(c)' = Mine(c) \/ Effort(c)' < Effort(c)
<1>1. EgressInv /\ [Next]_vars => [Counts]_vars
  <2> SUFFICES ASSUME EgressInv, NEW c \in Callers, CallerStep(c), NEW d \in Callers,
                      pc[d] # "start"
               PROVE  /\ Effort(d) \in Nat
                      /\ Mine(d)' = Mine(d) \/ Effort(d)' < Effort(d)
    BY DEF Next
  <2>1. CASE c = d
    BY <2>1, StepsSpend, EffortTyped
  <2>2. CASE c # d
    BY <2>2, OthersUntouched, EffortTyped DEF Mine
  <2>3. QED
    BY <2>1, <2>2
<1> HIDE DEF Counts
<1>2. Spec => [][Counts]_vars
  BY <1>1, EgressInvariant, PTL DEF Spec
<1>3. QED
  BY <1>2 DEF Counts, WorkRunsOut
=============================================================================

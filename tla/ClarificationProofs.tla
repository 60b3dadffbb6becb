------------------------- MODULE ClarificationProofs -------------------------
(* Proofs about a clarification session, for reports of any length, any     *)
(* replies, any clock and any number of failed sends.  What the loops over  *)
(* the fields keep is proved by induction over the length of the list: the  *)
(* least number at which a property fails, in LeastNumber and UpwardsTo.    *)
EXTENDS Clarification, WellFoundedInduction, FiniteSetTheorems, TLAPS

IsSequence(s) == Len(s) \in Nat /\ s = [i \in 1 .. Len(s) |-> s[i]]
Shaped(s) ==
  s = [status |-> s.status, rounds |-> s.rounds, resolved |-> s.resolved]

(* A row of the ledger holds what its round asks, the rounds after the      *)
(* first are on record before the session has them, and while nothing has   *)
(* failed a round on record was received.                                   *)
RowInv(r) ==
  /\ sends[r] \in 0 .. 1
  /\ sends[r] = 1 => OnRecord(r)
  /\ OnRecord(r) /\ faults = 0 => sends[r] = 1
  /\ r <= Len(session.rounds) /\ OnRecord(r)
       => ledger[r].questions = session.rounds[r]
  /\ r \in 2 .. Len(session.rounds) => OnRecord(r)

SessionInv ==
  /\ Shaped(session)
  /\ IsSequence(session.rounds) /\ Len(session.rounds) \in Rounds

ClarificationInv ==
  /\ now \in Nat /\ faults \in Nat
  /\ DOMAIN sends = Rounds
  /\ SessionInv
  /\ \A r \in Rounds : RowInv(r)

-----------------------------------------------------------------------------
(* What is left of a list *)

LEMMA LeastNumber ==
  ASSUME NEW T \in SUBSET Nat, T # {}
  PROVE  \E n \in T : \A m \in T : n <= m
<1>1. PICK n \in T : \A m \in T : ~(<<m, n>> \in OpToRel(<, Nat))
  BY WFMin, NatLessThanWellFounded
<1>2. \A m \in T : ~(m < n)
  BY <1>1, Zenon DEF OpToRel
<1>3. ASSUME NEW m \in T
      PROVE  n <= m
  <2>1. ~(m < n) /\ m \in Nat /\ n \in Nat
    BY <1>2
  <2>2. QED
    BY <2>1
<1>4. QED
  BY <1>3

(* Induction up to n, for a property given as the set of its numbers. *)
LEMMA UpwardsTo ==
  ASSUME NEW n \in Nat, NEW Q, 0 \in Q, \A i \in 1 .. n : i - 1 \in Q => i \in Q
  PROVE  0 .. n \subseteq Q
<1> DEFINE T == {i \in 0 .. n : i \notin Q}
<1>1. SUFFICES ASSUME T # {} PROVE FALSE
  OBVIOUS
<1>2. PICK m \in T : \A i \in T : m <= i
  <2>1. T \in SUBSET Nat
    OBVIOUS
  <2>2. QED
    BY <1>1, <2>1, LeastNumber
<1>3. m \in 1 .. n /\ m - 1 \in 0 .. n
  OBVIOUS
<1>4. m - 1 \notin T
  BY <1>2, <1>3
<1>5. QED
  BY <1>3, <1>4

(* KeptUpTo is the function its equation defines. *)
KeptNext(s, drop, k, i) ==
  IF s[i] \in drop THEN k[i - 1] ELSE Append(k[i - 1], s[i])

LEMMA KeptExists ==
  ASSUME NEW S, NEW s \in Seq(S), NEW drop
  PROVE  \E k \in [0 .. Len(s) -> Seq(S)] :
           k[0] = <<>> /\ \A i \in 1 .. Len(s) : k[i] = KeptNext(s, drop, k, i)
<1> DEFINE Correct(n, k) ==
             k[0] = <<>> /\ \A i \in 1 .. n : k[i] = KeptNext(s, drop, k, i)
           Q == {n \in 0 .. Len(s) : \E k \in [0 .. n -> Seq(S)] : Correct(n, k)}
<1>1. Len(s) \in Nat
  OBVIOUS
<1>2. 0 \in Q
  <2> DEFINE k == [i \in 0 .. 0 |-> <<>>]
  <2>1. 0 .. 0 = {0} /\ 1 .. 0 = {} /\ <<>> \in Seq(S)
    OBVIOUS
  <2>2. k \in [0 .. 0 -> Seq(S)] /\ k[0] = <<>>
    BY <2>1
  <2> HIDE DEF k
  <2>3. Correct(0, k)
    BY <2>1, <2>2
  <2>4. 0 \in 0 .. Len(s)
    BY <1>1
  <2>5. QED
    BY <2>2, <2>3, <2>4
<1>3. ASSUME NEW n \in 1 .. Len(s), n - 1 \in Q
      PROVE  n \in Q
  <2>1. PICK k \in [0 .. (n - 1) -> Seq(S)] : Correct(n - 1, k)
    BY <1>3
  <2> DEFINE g == [i \in 0 .. n |-> IF i = n THEN KeptNext(s, drop, k, n) ELSE k[i]]
  <2>2. n \in Nat \ {0} /\ s[n] \in S /\ k[n - 1] \in Seq(S) /\ n \in 0 .. Len(s)
    OBVIOUS
  <2>3. KeptNext(s, drop, k, n) \in Seq(S)
    BY <2>2 DEF KeptNext
  <2>4. /\ \A i \in 0 .. n : i # n => i \in 0 .. (n - 1) /\ k[i] \in Seq(S)
        /\ \A i \in 1 .. n : i - 1 \in 0 .. (n - 1) /\ i - 1 # n /\ i \in 0 .. n
    BY <2>2
  <2>5. g \in [0 .. n -> Seq(S)]
    BY <2>3, <2>4
  <2>6. /\ \A i \in 0 .. (n - 1) : g[i] = k[i]
        /\ g[n] = KeptNext(s, drop, k, n)
    BY <2>2
  <2> HIDE DEF g
  <2>7. g[0] = <<>>
    BY <2>1, <2>2, <2>6
  <2>8. ASSUME NEW i \in 1 .. n
        PROVE  g[i] = KeptNext(s, drop, g, i)
    <3>1. g[i - 1] = k[i - 1]
      BY <2>4, <2>6
    <3>2. KeptNext(s, drop, g, i) = KeptNext(s, drop, k, i)
      BY <3>1 DEF KeptNext
    <3>3. CASE i = n
      BY <2>6, <3>2, <3>3
    <3>4. CASE i # n
      <4>1. i \in 1 .. (n - 1) /\ i \in 0 .. (n - 1)
        BY <2>2, <3>4
      <4>2. k[i] = KeptNext(s, drop, k, i)
        BY <2>1, <4>1
      <4>3. QED
        BY <2>6, <3>2, <4>1, <4>2
    <3>5. QED
      BY <3>3, <3>4
  <2>9. QED
    BY <2>2, <2>5, <2>7, <2>8
<1> HIDE DEF Q
<1>4. 0 .. Len(s) \subseteq Q
  BY <1>1, <1>2, <1>3, UpwardsTo
<1>5. Len(s) \in Q
  BY <1>1, <1>4
<1>6. QED
  BY <1>5 DEF Q

LEMMA KeptEquation ==
  ASSUME NEW S, NEW s \in Seq(S), NEW drop
  PROVE  /\ KeptUpTo(s, drop)[0] = <<>>
         /\ \A i \in 1 .. Len(s) :
              KeptUpTo(s, drop)[i] = KeptNext(s, drop, KeptUpTo(s, drop), i)
<1> DEFINE F(k) == [i \in 0 .. Len(s) |->
                      IF i = 0 THEN <<>>
                      ELSE IF s[i] \in drop THEN k[i - 1] ELSE Append(k[i - 1], s[i])]
<1>1. PICK k \in [0 .. Len(s) -> Seq(S)] :
        k[0] = <<>> /\ \A i \in 1 .. Len(s) : k[i] = KeptNext(s, drop, k, i)
  BY KeptExists
<1>2. k = F(k)
  <2>1. ASSUME NEW i \in 0 .. Len(s)
        PROVE  k[i] = F(k)[i]
    <3>1. CASE i = 0
      BY <1>1, <3>1
    <3>2. CASE i # 0
      <4>1. i \in 1 .. Len(s)
        BY <3>2
      <4>2. QED
        BY <1>1, <3>2, <4>1 DEF KeptNext
    <3>3. QED
      BY <3>1, <3>2
  <2>2. k = [i \in 0 .. Len(s) |-> k[i]]
    OBVIOUS
  <2>3. QED
    BY <2>1, <2>2
<1>3. KeptUpTo(s, drop) = F(KeptUpTo(s, drop))
  BY <1>2 DEF KeptUpTo
<1>4. Len(s) \in Nat
  OBVIOUS
<1>5. \A i \in 1 .. Len(s) : i \in 0 .. Len(s) /\ i # 0
  OBVIOUS
<1>6. ASSUME NEW h, h = F(h)
      PROVE  h[0] = <<>> /\ \A i \in 1 .. Len(s) : h[i] = KeptNext(s, drop, h, i)
  <2>1. \A i \in 0 .. Len(s) : F(h)[i] =
          IF i = 0 THEN <<>>
          ELSE IF s[i] \in drop THEN h[i - 1] ELSE Append(h[i - 1], s[i])
    OBVIOUS
  <2> HIDE DEF F
  <2>2. \A i \in 0 .. Len(s) : h[i] =
          IF i = 0 THEN <<>>
          ELSE IF s[i] \in drop THEN h[i - 1] ELSE Append(h[i - 1], s[i])
    BY <1>6, <2>1
  <2>3. QED
    BY <1>4, <1>5, <2>2 DEF KeptNext
<1> HIDE DEF F
<1>7. QED
  BY <1>3, <1>6

Distinct(s) == \A i, j \in 1 .. Len(s) : s[i] = s[j] => i = j

LEMMA AppendElements ==
  ASSUME NEW S, NEW s \in Seq(S), NEW e \in S
  PROVE  /\ Append(s, e) \in Seq(S)
         /\ Elements(Append(s, e)) = Elements(s) \cup {e}
         /\ Distinct(s) /\ e \notin Elements(s) => Distinct(Append(s, e))
<1>1. /\ Append(s, e) \in Seq(S) /\ Len(Append(s, e)) = Len(s) + 1 /\ Len(s) \in Nat
      /\ \A i \in 1 .. Len(s) : Append(s, e)[i] = s[i]
      /\ Append(s, e)[Len(s) + 1] = e
  OBVIOUS
<1>2. \A i : i \in 1 .. (Len(s) + 1) <=> i \in 1 .. Len(s) \/ i = Len(s) + 1
  BY <1>1
<1>3. Elements(Append(s, e)) = Elements(s) \cup {e}
  BY <1>1, <1>2 DEF Elements
<1>4. Distinct(s) /\ e \notin Elements(s) => Distinct(Append(s, e))
  BY <1>1, <1>2 DEF Distinct, Elements
<1>5. QED
  BY <1>1, <1>3, <1>4

(* What the loop keeps is what is not dropped, once each. *)
LEMMA KeptKeeps ==
  ASSUME NEW S, NEW s \in Seq(S), Distinct(s), NEW drop
  PROVE  /\ Kept(s, drop) \in Seq(S)
         /\ Elements(Kept(s, drop)) = Elements(s) \ drop
         /\ Distinct(Kept(s, drop))
<1> DEFINE k == KeptUpTo(s, drop)
           First(i) == {s[j] : j \in 1 .. i}
           Q == {i \in 0 .. Len(s) :
                   k[i] \in Seq(S) /\ Elements(k[i]) = First(i) \ drop /\ Distinct(k[i])}
<1>1. /\ k[0] = <<>>
      /\ \A i \in 1 .. Len(s) : k[i] = KeptNext(s, drop, k, i)
  BY KeptEquation
<1> HIDE DEF k
<1>2. Len(s) \in Nat
  OBVIOUS
<1>3. 0 \in Q
  <2>1. <<>> \in Seq(S) /\ Elements(<<>>) = {} /\ First(0) = {} /\ Distinct(<<>>)
    BY DEF Elements, Distinct
  <2>2. 0 \in 0 .. Len(s)
    BY <1>2
  <2> HIDE DEF First
  <2>3. QED
    BY <1>1, <2>1, <2>2
<1>4. ASSUME NEW i \in 1 .. Len(s), i - 1 \in Q
      PROVE  i \in Q
  <2>1. /\ k[i - 1] \in Seq(S) /\ Elements(k[i - 1]) = First(i - 1) \ drop
        /\ Distinct(k[i - 1])
    BY <1>4
  <2>2. s[i] \in S /\ i \in 0 .. Len(s)
    OBVIOUS
  <2>3. First(i) = First(i - 1) \cup {s[i]} /\ s[i] \notin First(i - 1)
    <3>1. \A j : j \in 1 .. i <=> j \in 1 .. (i - 1) \/ j = i
      OBVIOUS
    <3>2. \A j \in 1 .. (i - 1) : j \in 1 .. Len(s) /\ j # i
      OBVIOUS
    <3>3. \A j \in 1 .. (i - 1) : s[j] # s[i]
      BY <3>2 DEF Distinct
    <3>4. QED
      BY <3>1, <3>3
  <2>4. k[i] = KeptNext(s, drop, k, i)
    BY <1>1
  <2> HIDE DEF First
  <2>5. CASE s[i] \in drop
    <3>1. k[i] = k[i - 1]
      BY <2>4, <2>5 DEF KeptNext
    <3>2. QED
      BY <2>1, <2>2, <2>3, <2>5, <3>1
  <2>6. CASE s[i] \notin drop
    <3>1. k[i] = Append(k[i - 1], s[i])
      BY <2>4, <2>6 DEF KeptNext
    <3>2. s[i] \notin Elements(k[i - 1])
      BY <2>1, <2>3
    <3>3. /\ k[i] \in Seq(S) /\ Elements(k[i]) = Elements(k[i - 1]) \cup {s[i]}
          /\ Distinct(k[i])
      BY <2>1, <2>2, <3>1, <3>2, AppendElements
    <3>4. QED
      BY <2>1, <2>2, <2>3, <2>6, <3>3
  <2>7. QED
    BY <2>5, <2>6
<1> HIDE DEF Q
<1>5. Len(s) \in Q
  <2>1. 0 .. Len(s) \subseteq Q
    BY <1>2, <1>3, <1>4, UpwardsTo
  <2>2. QED
    BY <1>2, <2>1
<1>6. QED
  BY <1>5 DEF Q, k, Kept, Elements

-----------------------------------------------------------------------------
(* What a round asks *)

LEMMA FirstTwoOf ==
  ASSUME NEW S, NEW s \in Seq(S)
  PROVE  /\ FirstTwo(s) \in Seq(S) /\ Len(FirstTwo(s)) \in 0 .. 2
         /\ Elements(FirstTwo(s)) \subseteq Elements(s)
         /\ FirstTwo(s) = <<>> => Elements(s) = {}
         /\ Len(s) < 2 => Elements(FirstTwo(s)) = Elements(s)
         /\ Len(s) >= 2 => Elements(FirstTwo(s)) = {s[1], s[2]}
<1> DEFINE n == IF Len(s) < 2 THEN Len(s) ELSE 2
           t == SubSeq(s, 1, n)
<1>1. FirstTwo(s) = t
  BY DEF FirstTwo, UpTo, MAX_QUESTIONS_PER_ROUND
<1>2. Len(s) \in Nat /\ n \in 0 .. 2 /\ n <= Len(s) /\ 1 .. n \subseteq 1 .. Len(s)
  <2>1. Len(s) \in Nat
    OBVIOUS
  <2>2. n \in 0 .. 2 /\ n <= Len(s)
    <3>1. \A l \in Nat : (IF l < 2 THEN l ELSE 2) \in 0 .. 2 /\ (IF l < 2 THEN l ELSE 2) <= l
      OBVIOUS
    <3>2. QED
      BY <2>1, <3>1
  <2> HIDE DEF n
  <2>3. QED
    BY <2>1, <2>2
<1>3. t \in Seq(S) /\ Len(t) = n /\ \A i \in 1 .. n : t[i] = s[i]
  BY <1>2
<1>4. (Len(s) < 2 => n = Len(s)) /\ (Len(s) >= 2 => n = 2)
  OBVIOUS
<1> HIDE DEF n, t
<1>5. Elements(t) \subseteq Elements(s)
  BY <1>2, <1>3 DEF Elements
<1>6. Len(s) < 2 => Elements(t) = Elements(s)
  BY <1>3, <1>4 DEF Elements
<1>7. Len(s) >= 2 => Elements(t) = {s[1], s[2]}
  <2>1. 1 .. 2 = {1, 2}
    OBVIOUS
  <2>2. QED
    BY <1>3, <1>4, <2>1 DEF Elements
<1>8. t = <<>> => Elements(s) = {}
  <2>1. t = <<>> => n = 0
    BY <1>3
  <2>2. Len(s) = 0 => Elements(s) = {}
    BY DEF Elements
  <2>3. QED
    BY <1>2, <1>4, <2>1, <2>2
<1>9. QED
  BY <1>1, <1>2, <1>3, <1>5, <1>6, <1>7, <1>8

LEMMA Prefixed ==
  ASSUME NEW S, NEW s \in Seq(S), Distinct(s), NEW e \in S, e \notin Elements(s)
  PROVE  /\ <<e>> \o s \in Seq(S) /\ Elements(<<e>> \o s) = {e} \cup Elements(s)
         /\ Distinct(<<e>> \o s)
<1>1. /\ <<e>> \o s \in Seq(S) /\ Len(<<e>> \o s) = Len(s) + 1 /\ Len(s) \in Nat
      /\ (<<e>> \o s)[1] = e
      /\ \A i \in 1 .. Len(s) : (<<e>> \o s)[i + 1] = s[i]
  OBVIOUS
<1> DEFINE t == <<e>> \o s
<1> HIDE DEF t
<1>2. /\ t \in Seq(S) /\ Len(t) = Len(s) + 1 /\ Len(s) \in Nat /\ t[1] = e
      /\ \A i \in 1 .. Len(s) : t[i + 1] = s[i]
  BY <1>1 DEF t
<1>3. \A j \in 1 .. Len(t) :
        j = 1 \/ (j - 1 \in 1 .. Len(s) /\ (j - 1) + 1 = j /\ t[j] = s[j - 1])
  BY <1>2
<1>4. \A i \in 1 .. Len(s) : i + 1 \in 1 .. Len(t)
  BY <1>2
<1>5. 1 \in 1 .. Len(t)
  BY <1>2
<1>6. Elements(t) = {e} \cup Elements(s)
  <2>1. \A j \in 1 .. Len(t) : t[j] \in {e} \cup Elements(s)
    BY <1>2, <1>3 DEF Elements
  <2>2. e \in Elements(t)
    BY <1>2, <1>5 DEF Elements
  <2>3. \A i \in 1 .. Len(s) : s[i] \in Elements(t)
    BY <1>2, <1>4 DEF Elements
  <2>4. QED
    BY <2>1, <2>2, <2>3 DEF Elements
<1>7. ASSUME NEW i \in 1 .. Len(t), NEW j \in 1 .. Len(t), t[i] = t[j]
      PROVE  i = j
  <2>1. \A k \in 1 .. Len(t) : t[k] = e => k = 1
    BY <1>3 DEF Elements
  <2>2. CASE i = 1 \/ j = 1
    BY <1>2, <1>7, <2>1, <2>2
  <2>3. CASE i # 1 /\ j # 1
    <3>1. i - 1 = j - 1
      BY <1>3, <1>7, <2>3 DEF Distinct
    <3>2. QED
      BY <3>1
  <2>4. QED
    BY <2>2, <2>3
<1>8. Distinct(t)
  BY <1>7 DEF Distinct
<1>9. QED
  BY <1>2, <1>6, <1>8 DEF t

(* A round asks for fields that are not known yet; new ones, two if there   *)
(* are two, and old ones only when every field that is open has been asked. *)
AsksWell(q, fields, resolved, asked, blocked) ==
  /\ q \in Seq(Fields) /\ Len(q) \in 0 .. 2
  /\ Elements(q) \subseteq Elements(fields) \cup (IF blocked THEN {Image} ELSE {})
  /\ Elements(q) \cap resolved = {}
  /\ q = <<>> => Elements(fields) \subseteq resolved
  /\ \/ Elements(q) \cap asked = {}
     \/ Image \notin Elements(q) /\ Elements(fields) \subseteq resolved \cup asked
  /\ \/ Elements(fields) \subseteq resolved \cup asked \cup Elements(q)
     \/ \E a, b : a # b /\ Elements(q) = {a, b} /\ {a, b} \cap asked = {}

LEMMA QuestionsAsk ==
  ASSUME NEW fields \in Seq(Fields), Distinct(fields), Image \notin Elements(fields),
         NEW resolved, NEW asked, NEW blocked
  PROVE  AsksWell(Questions(fields, resolved, asked, blocked),
                  fields, resolved, asked, blocked)
<1> DEFINE q == Questions(fields, resolved, asked, blocked)
<1> DEFINE asks == blocked /\ Image \notin resolved \cup asked
           fallback == IF asks THEN <<Image>> ELSE <<>>
           unasked == Kept(fields, resolved \cup asked)
           unresolved == Kept(fields, resolved)
           fresh == fallback \o unasked
<1>1. q = IF fresh # <<>> THEN FirstTwo(fresh) ELSE FirstTwo(unresolved)
  BY DEF Questions
<1> HIDE DEF q
<1>2. /\ unasked \in Seq(Fields) /\ Distinct(unasked)
      /\ Elements(unasked) = Elements(fields) \ (resolved \cup asked)
  BY KeptKeeps
<1>3. /\ unresolved \in Seq(Fields)
      /\ Elements(unresolved) = Elements(fields) \ resolved
  BY KeptKeeps
<1> HIDE DEF unasked, unresolved
<1>4. /\ fresh \in Seq(Fields) /\ Distinct(fresh)
      /\ Elements(fresh) = Elements(unasked) \cup (IF asks THEN {Image} ELSE {})
  <2>1. CASE asks
    <3>1. Image \in Fields
      BY Zenon DEF Fields
    <3>2. fallback = <<Image>> /\ Image \notin Elements(unasked)
      BY <1>2, <2>1
    <3>3. QED
      BY <1>2, <2>1, <3>1, <3>2, Prefixed
  <2>2. CASE ~asks
    <3>1. fresh = unasked
      BY <1>2, <2>2
    <3>2. QED
      BY <1>2, <2>2, <3>1
  <2>3. QED
    BY <2>1, <2>2
<1> HIDE DEF fresh, fallback
<1>5. Elements(fresh) \cap (resolved \cup asked) = {}
  BY <1>2, <1>4
<1>6. Elements(fresh) \subseteq Elements(fields) \cup (IF blocked THEN {Image} ELSE {})
  BY <1>2, <1>4
<1>7. CASE fresh # <<>>
  <2>1. q = FirstTwo(fresh)
    BY <1>1, <1>7
  <2>2. /\ q \in Seq(Fields) /\ Len(q) \in 0 .. 2 /\ Elements(q) \subseteq Elements(fresh)
        /\ q = <<>> => Elements(fresh) = {}
        /\ Len(fresh) < 2 => Elements(q) = Elements(fresh)
        /\ Len(fresh) >= 2 => Elements(q) = {fresh[1], fresh[2]}
    BY <1>4, <2>1, FirstTwoOf
  <2>3. q # <<>>
    <3>1. Len(fresh) \in Nat \ {0}
      BY <1>4, <1>7
    <3>2. fresh[1] \in Elements(fresh)
      BY <3>1 DEF Elements
    <3>3. QED
      BY <2>2, <3>2
  <2>4. Len(fresh) < 2 => Elements(fields) \subseteq resolved \cup asked \cup Elements(q)
    BY <1>2, <1>4, <2>2
  <2>5. Len(fresh) >= 2 => fresh[1] # fresh[2]
    BY <1>4 DEF Distinct
  <2>6. Elements(q) \cap (resolved \cup asked) = {}
    BY <1>5, <2>2
  <2>7. Len(fresh) < 2 \/ Len(fresh) >= 2
    BY <1>4
  <2>8. \/ Elements(fields) \subseteq resolved \cup asked \cup Elements(q)
        \/ \E a, b : a # b /\ Elements(q) = {a, b} /\ {a, b} \cap asked = {}
    <3>1. CASE Len(fresh) < 2
      BY <2>4, <3>1
    <3>2. CASE Len(fresh) >= 2
      <4>1. /\ fresh[1] # fresh[2] /\ Elements(q) = {fresh[1], fresh[2]}
            /\ {fresh[1], fresh[2]} \cap asked = {}
        BY <2>2, <2>5, <2>6, <3>2
      <4>2. QED
        BY <4>1
    <3>3. QED
      BY <2>7, <3>1, <3>2
  <2>9. QED
    BY <1>6, <2>2, <2>3, <2>6, <2>8 DEF AsksWell, q
<1>8. CASE fresh = <<>>
  <2>1. q = FirstTwo(unresolved)
    BY <1>1, <1>8
  <2>2. /\ q \in Seq(Fields) /\ Len(q) \in 0 .. 2 /\ Elements(q) \subseteq Elements(unresolved)
        /\ q = <<>> => Elements(unresolved) = {}
    BY <1>3, <2>1, FirstTwoOf
  <2>3. Elements(fields) \subseteq resolved \cup asked
    <3>1. Elements(fresh) = {}
      BY <1>8 DEF Elements
    <3>2. QED
      BY <1>2, <1>4, <3>1
  <2>4. QED
    BY <1>3, <2>2, <2>3 DEF AsksWell, q
<1>9. QED
  BY <1>7, <1>8

-----------------------------------------------------------------------------
LEMMA Appending ==
  ASSUME NEW s, IsSequence(s), NEW q
  PROVE  /\ IsSequence(Append(s, q))
         /\ Len(Append(s, q)) = Len(s) + 1
         /\ Append(s, q)[Len(s) + 1] = q
         /\ \A i \in 1 .. Len(s) : Append(s, q)[i] = s[i]
<1> DEFINE E == {s[i] : i \in 1 .. Len(s)} \cup {q}
<1>1. s \in Seq(E) /\ q \in E
  <2>1. \A i \in 1 .. Len(s) : s[i] \in E
    OBVIOUS
  <2>2. s \in [1 .. Len(s) -> E]
    BY <2>1 DEF IsSequence
  <2>3. QED
    BY <2>2 DEF IsSequence
<1> HIDE DEF E
<1>2. /\ Append(s, q) \in Seq(E)
      /\ Len(Append(s, q)) = Len(s) + 1
      /\ Append(s, q)[Len(s) + 1] = q
      /\ \A i \in 1 .. Len(s) : Append(s, q)[i] = s[i]
  BY <1>1
<1>3. IsSequence(Append(s, q))
  <2>1. \A t \in Seq(E) : t = [i \in 1 .. Len(t) |-> t[i]] /\ Len(t) \in Nat
    OBVIOUS
  <2>2. QED
    BY <1>2, <2>1 DEF IsSequence
<1>4. QED
  BY <1>2, <1>3

LEMMA FirstIsSequence ==
  ASSUME NEW q
  PROVE  IsSequence(<<q>>) /\ Len(<<q>>) = 1 /\ <<q>>[1] = q
BY DEF IsSequence

(* A reply keeps the rounds of the session, or adds one: in time, and below *)
(* the limit.                                                               *)
LEMMA ReplyShapes ==
  ASSUME SessionInv, NEW newly, NEW long
  PROVE  /\ Shaped(AfterReply(newly, long))
         /\ \/ /\ AfterReply(newly, long).rounds = session.rounds
               /\ now > Expiry =>
                    AfterReply(newly, long).status = "UNRESOLVED_EXPIRED"
            \/ /\ ~(now > Expiry) /\ Len(session.rounds) < MAX_ROUNDS
               /\ \E q : AfterReply(newly, long).rounds
                           = Append(session.rounds, q)
<1> DEFINE resolved == Resolved(newly, long)
           remaining == Remaining(resolved)
           questions == Questions(remaining, resolved, Asked(session),
                                  image /\ Image \notin resolved)
<1>1. session = [status |-> session.status, rounds |-> session.rounds,
                 resolved |-> session.resolved]
  BY DEF SessionInv, Shaped
<1>2. CASE now > Expiry
  <2>1. AfterReply(newly, long) = [session EXCEPT !.status = "UNRESOLVED_EXPIRED"]
    BY <1>2 DEF AfterReply
  <2>2. QED
    BY <1>1, <1>2, <2>1 DEF Shaped
<1>3. CASE ~(now > Expiry)
  <2>1. AfterReply(newly, long) = AfterAnswer(resolved)
    BY <1>3 DEF AfterReply
  <2>2. AfterAnswer(resolved) =
          IF remaining = <<>> \/ (~AtLimit /\ questions = <<>>)
            THEN [session EXCEPT !.status = "RESOLVED", !.resolved = resolved]
          ELSE IF AtLimit
            THEN [session EXCEPT !.status = "UNRESOLVED_LIMIT",
                                 !.resolved = resolved]
          ELSE [status |-> "WAITING_REPLY", resolved |-> resolved,
                rounds |-> Append(session.rounds, questions)]
    BY DEF AfterAnswer
  <2> HIDE DEF resolved, remaining, questions
  <2>3. ~AtLimit => Len(session.rounds) < MAX_ROUNDS
    BY DEF AtLimit, SessionInv, Rounds, MAX_ROUNDS
  <2>4. CASE remaining = <<>> \/ (~AtLimit /\ questions = <<>>)
    <3>1. AfterReply(newly, long) =
            [session EXCEPT !.status = "RESOLVED", !.resolved = resolved]
      BY <2>1, <2>2, <2>4
    <3>2. QED
      BY <1>1, <1>3, <3>1 DEF Shaped
  <2>5. CASE ~(remaining = <<>> \/ (~AtLimit /\ questions = <<>>)) /\ AtLimit
    <3>1. AfterReply(newly, long) =
            [session EXCEPT !.status = "UNRESOLVED_LIMIT", !.resolved = resolved]
      BY <2>1, <2>2, <2>5
    <3>2. QED
      BY <1>1, <1>3, <3>1 DEF Shaped
  <2>6. CASE ~(remaining = <<>> \/ (~AtLimit /\ questions = <<>>)) /\ ~AtLimit
    <3>1. AfterReply(newly, long) =
            [status |-> "WAITING_REPLY", resolved |-> resolved,
             rounds |-> Append(session.rounds, questions)]
      BY <2>1, <2>2, <2>6
    <3>2. QED
      BY <1>3, <2>3, <2>6, <3>1 DEF Shaped
  <2>7. QED
    BY <2>4, <2>5, <2>6
<1>4. QED
  BY <1>2, <1>3

-----------------------------------------------------------------------------
(* After a send the round's key is on record with the text that was sent,   *)
(* whether now or before, and nothing else of the ledger has changed.       *)
LEMMA SendRecords ==
  ASSUME ClarificationInv, NEW r \in Rounds, NEW q,
         Delivered(r, q) \/ Failed(r, q)
  PROVE  /\ faults' \in Nat /\ DOMAIN sends' = Rounds
         /\ OnRecord(r)' /\ ledger'[r].questions = q
         /\ \A k \in Rounds : OnRecord(k) => OnRecord(k)' /\ ledger'[k] = ledger[k]
         /\ \A k \in Rounds : k # r => (OnRecord(k)' <=> OnRecord(k))
         /\ \A k \in Rounds :
              /\ sends'[k] \in 0 .. 1
              /\ sends'[k] = 1 => OnRecord(k)'
              /\ OnRecord(k)' /\ faults' = 0 => sends'[k] = 1
<1>1. /\ faults \in Nat /\ DOMAIN sends = Rounds
      /\ \A k \in Rounds : RowInv(k)
  BY DEF ClarificationInv
<1>2. \A k \in Rounds :
        /\ sends[k] \in 0 .. 1
        /\ sends[k] = 1 => OnRecord(k)
        /\ OnRecord(k) /\ faults = 0 => sends[k] = 1
  BY <1>1 DEF RowInv
<1>3. ASSUME NEW status, Recorded(r, q, status)
      PROVE  /\ OnRecord(r)' /\ ledger'[r].questions = q
             /\ \A k \in Rounds : OnRecord(k) => OnRecord(k)' /\ ledger'[k] = ledger[k]
             /\ \A k \in Rounds : k # r => (OnRecord(k)' <=> OnRecord(k))
             /\ sends[r] = 0
  <2>1. DOMAIN ledger' = DOMAIN ledger \cup {r}
    BY <1>3 DEF Recorded
  <2>2. ledger'[r] = [status |-> status, questions |-> q]
    BY <1>3 DEF Recorded
  <2>3. \A k \in DOMAIN ledger : k # r => ledger'[k] = ledger[k]
    BY <1>3 DEF Recorded
  <2>4. ~OnRecord(r)
    BY <1>3 DEF Recorded
  <2>5. QED
    BY <1>2, <2>1, <2>2, <2>3, <2>4 DEF OnRecord
<1>4. CASE Sent(r, q)
  <2>1. Recorded(r, q, "SENT") /\ faults' = faults
        /\ sends' = [sends EXCEPT ![r] = @ + 1]
    BY <1>4 DEF Sent
  <2>2. /\ DOMAIN sends' = Rounds /\ sends'[r] = sends[r] + 1
        /\ \A k \in Rounds : k # r => sends'[k] = sends[k]
    BY <1>1, <2>1
  <2>3. QED
    BY <1>1, <1>2, <1>3, <2>1, <2>2
<1>5. ASSUME NEW status, Recorded(r, q, status), faults' = faults + 1,
             sends' \in {sends, [sends EXCEPT ![r] = @ + 1]}
      PROVE  /\ DOMAIN sends' = Rounds /\ faults' \in Nat /\ faults' # 0
             /\ \A k \in Rounds : sends'[k] \in 0 .. 1
             /\ \A k \in Rounds : sends'[k] = 1 => OnRecord(k)'
  <2>1. /\ DOMAIN sends' = Rounds
        /\ \A k \in Rounds : k # r => sends'[k] = sends[k]
        /\ sends'[r] \in {sends[r], sends[r] + 1}
    BY <1>1, <1>5
  <2>2. sends[r] = 0 /\ OnRecord(r)'
    BY <1>3, <1>5
  <2>3. QED
    BY <1>1, <1>2, <1>3, <1>5, <2>1, <2>2
<1>6. CASE TimedOut(r, q)
  BY <1>3, <1>5, <1>6 DEF TimedOut
<1>7. CASE Failed(r, q)
  BY <1>3, <1>5, <1>7 DEF Failed
<1>8. CASE Replayed(r, q)
  BY <1>1, <1>2, <1>8 DEF Replayed, OnRecord
<1>9. QED
  BY <1>4, <1>6, <1>7, <1>8 DEF Delivered

(* A send of a round of the session, or of the round it is about to open,   *)
(* leaves the rows in order.                                                *)
LEMMA SendKeepsRows ==
  ASSUME ClarificationInv, NEW r \in Rounds, NEW q,
         Delivered(r, q) \/ Failed(r, q),
         r <= Len(session.rounds) => q = session.rounds[r],
         session' = session, now' = now
  PROVE  ClarificationInv'
<1>1. \A k \in Rounds : RowInv(k)'
  BY SendRecords DEF RowInv, ClarificationInv, Rounds
<1>2. QED
  BY <1>1, SendRecords DEF ClarificationInv, SessionInv, Shaped, IsSequence

LEMMA Initially == Init => ClarificationInv
<1> SUFFICES ASSUME Init PROVE ClarificationInv
  OBVIOUS
<1>1. session = [status |-> "WAITING_REPLY", rounds |-> <<FirstRound>>,
                 resolved |-> {}]
  BY DEF Init
<1>2. SessionInv
  BY <1>1, FirstIsSequence DEF SessionInv, Shaped, Rounds, MAX_ROUNDS
<1>3. \A r \in Rounds : sends[r] = 0 /\ ~OnRecord(r)
  BY DEF Init, OnRecord
<1>4. Len(session.rounds) = 1
  BY <1>1, FirstIsSequence
<1>5. \A r \in Rounds : RowInv(r)
  BY <1>3, <1>4 DEF RowInv
<1>6. now = 0 /\ faults = 0 /\ DOMAIN sends = Rounds
  BY DEF Init
<1>7. QED
  BY <1>2, <1>5, <1>6 DEF ClarificationInv

LEMMA ReplySteps ==
  ASSUME ClarificationInv, NEW newly, NEW long, Reply(newly, long)
  PROVE  ClarificationInv'
<1> DEFINE after == AfterReply(newly, long)
<1>1. /\ IF Advances(after)
         THEN Delivered(Len(after.rounds), after.rounds[Len(after.rounds)])
         ELSE UNCHANGED <<ledger, sends, faults>>
      /\ session' = after /\ now' = now
  BY DEF Reply
<1>2. /\ Shaped(after)
      /\ \/ after.rounds = session.rounds
         \/ /\ Len(session.rounds) < MAX_ROUNDS
            /\ \E q : after.rounds = Append(session.rounds, q)
  BY ReplyShapes DEF ClarificationInv
<1>3. /\ IsSequence(session.rounds) /\ Len(session.rounds) \in Rounds
      /\ \A r \in Rounds : RowInv(r)
      /\ now \in Nat /\ faults \in Nat /\ DOMAIN sends = Rounds
  BY DEF ClarificationInv, SessionInv
<1> HIDE DEF after
<1>4. CASE after.rounds = session.rounds
  <2>1. ~Advances(after)
    BY <1>3, <1>4 DEF Advances, Rounds
  <2>2. /\ UNCHANGED <<ledger, sends, faults>>
        /\ session'.rounds = session.rounds /\ Shaped(session')
    BY <1>1, <1>2, <1>4, <2>1
  <2>3. \A r \in Rounds : RowInv(r)'
    BY <1>3, <2>2 DEF RowInv, OnRecord
  <2>4. SessionInv'
    BY <1>3, <2>2 DEF SessionInv
  <2>5. QED
    BY <1>1, <1>3, <2>2, <2>3, <2>4 DEF ClarificationInv
<1>5. ASSUME NEW q, after.rounds = Append(session.rounds, q),
             Len(session.rounds) < MAX_ROUNDS
      PROVE  ClarificationInv'
  <2>2. PICK n \in Rounds : n = Len(session.rounds) + 1
    BY <1>3, <1>5 DEF Rounds, MAX_ROUNDS
  <2>1. /\ IsSequence(after.rounds) /\ Len(after.rounds) = n
        /\ after.rounds[n] = q
        /\ \A i \in 1 .. Len(session.rounds) : after.rounds[i] = session.rounds[i]
    BY <1>3, <1>5, <2>2, Appending
  <2>3. Advances(after)
    BY <1>3, <2>1, <2>2 DEF Advances, Rounds
  <2>4. Delivered(n, q)
    BY <1>1, <2>1, <2>3
  <2>5. /\ session'.rounds = after.rounds /\ Shaped(session')
    BY <1>1, <1>2
  <2>6. SessionInv'
    BY <2>1, <2>2, <2>5 DEF SessionInv
  <2>7. /\ faults' \in Nat /\ DOMAIN sends' = Rounds
        /\ OnRecord(n)' /\ ledger'[n].questions = q
        /\ \A k \in Rounds : OnRecord(k) => OnRecord(k)' /\ ledger'[k] = ledger[k]
        /\ \A k \in Rounds : k # n => (OnRecord(k)' <=> OnRecord(k))
        /\ \A k \in Rounds :
             /\ sends'[k] \in 0 .. 1
             /\ sends'[k] = 1 => OnRecord(k)'
             /\ OnRecord(k)' /\ faults' = 0 => sends'[k] = 1
    BY <2>2, <2>4, SendRecords
  <2>8. ASSUME NEW r \in Rounds
        PROVE  RowInv(r)'
    <3>1. RowInv(r)
      BY <1>3
    <3>2. CASE r = n
      BY <2>1, <2>2, <2>5, <2>7, <3>2 DEF RowInv
    <3>3. CASE r # n
      <4>1. r <= Len(session'.rounds) => r \in 1 .. Len(session.rounds)
        BY <1>3, <2>1, <2>2, <2>5, <3>3 DEF Rounds
      <4>2. r <= Len(session'.rounds) /\ OnRecord(r)'
              => ledger'[r].questions = session'.rounds[r]
        BY <2>1, <2>5, <2>7, <3>1, <3>3, <4>1 DEF RowInv
      <4>3. r \in 2 .. Len(session'.rounds) => OnRecord(r)'
        BY <1>3, <2>1, <2>2, <2>5, <2>7, <3>1, <3>3 DEF RowInv, Rounds
      <4>4. QED
        BY <2>7, <4>2, <4>3 DEF RowInv
    <3>4. QED
      BY <3>2, <3>3
  <2>9. QED
    BY <1>1, <1>3, <2>6, <2>7, <2>8 DEF ClarificationInv
<1>6. QED
  BY <1>2, <1>4, <1>5

LEMMA RaisingSteps ==
  ASSUME ClarificationInv, NEW newly, NEW long, ReplyRaises(newly, long)
  PROVE  ClarificationInv'
<1> DEFINE after == AfterReply(newly, long)
           n == Len(after.rounds)
<1>1. /\ Advances(after)
      /\ \/ Failed(n, after.rounds[n])
         \/ UNCHANGED <<ledger, sends, faults>>
      /\ session' = session /\ now' = now
  BY DEF ReplyRaises
<1>2. /\ IsSequence(session.rounds) /\ Len(session.rounds) \in Rounds
      /\ SessionInv
  BY DEF ClarificationInv, SessionInv
<1>3. \/ after.rounds = session.rounds
      \/ /\ Len(session.rounds) < MAX_ROUNDS
         /\ \E q : after.rounds = Append(session.rounds, q)
  BY <1>2, ReplyShapes
<1> HIDE DEF after
<1>4. n \in Rounds /\ ~(n <= Len(session.rounds))
  <2>1. n > Len(session.rounds)
    BY <1>1 DEF Advances
  <2>2. after.rounds # session.rounds
    BY <1>2, <2>1 DEF Rounds
  <2>3. n = Len(session.rounds) + 1 /\ Len(session.rounds) < MAX_ROUNDS
    BY <1>2, <1>3, <2>2, Appending
  <2>4. QED
    BY <1>2, <2>3 DEF Rounds, MAX_ROUNDS
<1> HIDE DEF n
<1>5. CASE Failed(n, after.rounds[n])
  BY <1>1, <1>4, <1>5, SendKeepsRows
<1>6. CASE UNCHANGED <<ledger, sends, faults>>
  BY <1>1, <1>6 DEF ClarificationInv, SessionInv, Shaped, IsSequence, RowInv, OnRecord
<1>7. QED
  BY <1>1, <1>5, <1>6

(* In every reachable state the ledger agrees with the rounds of the        *)
(* session: the inductive invariant of submit_clarification_reply and the   *)
(* dispatcher.                                                              *)
THEOREM ClarificationInvariant == Spec => []ClarificationInv
<1>1. Init => ClarificationInv
  BY Initially
<1>2. ClarificationInv /\ [Next]_vars => ClarificationInv'
  <2> SUFFICES ASSUME ClarificationInv, [Next]_vars
               PROVE  ClarificationInv'
    OBVIOUS
  <2>1. CASE Dispatch
    <3> DEFINE r == Len(session.rounds)
    <3>1. /\ Delivered(r, session.rounds[r]) \/ Failed(r, session.rounds[r])
          /\ session' = session /\ now' = now
      BY <2>1 DEF Dispatch
    <3>2. r \in Rounds
      BY DEF ClarificationInv, SessionInv
    <3> HIDE DEF r
    <3>3. QED
      BY <3>1, <3>2, SendKeepsRows
  <2>2. CASE \E newly \in SUBSET Open, long \in BOOLEAN :
               Reply(newly, long) \/ ReplyRaises(newly, long)
    BY <2>2, ReplySteps, RaisingSteps
  <2>3. CASE CheckExpiry
    <3>1. /\ session' = [session EXCEPT !.status = "UNRESOLVED_EXPIRED"]
          /\ UNCHANGED <<now, ledger, sends, faults>>
      BY <2>3 DEF CheckExpiry
    <3>2. session = [status |-> session.status, rounds |-> session.rounds,
                     resolved |-> session.resolved]
      BY DEF ClarificationInv, SessionInv, Shaped
    <3>3. session'.rounds = session.rounds /\ Shaped(session')
      BY <3>1, <3>2 DEF Shaped
    <3>4. QED
      BY <3>1, <3>3 DEF ClarificationInv, SessionInv, RowInv, OnRecord
  <2>4. CASE Tick
    BY <2>4 DEF Tick, ClarificationInv, SessionInv, Shaped, IsSequence, RowInv,
                OnRecord
  <2>5. CASE UNCHANGED vars
    BY <2>5 DEF vars, ClarificationInv, SessionInv, Shaped, IsSequence, RowInv,
                OnRecord
  <2>6. QED
    BY <2>1, <2>2, <2>3, <2>4, <2>5 DEF Next
<1>3. QED
  BY <1>1, <1>2, PTL DEF Spec

-----------------------------------------------------------------------------
(* Which fields a session has asked about *)

(* The fields a session has reason to ask about. *)
Askable == Elements(missing) \cup (IF image THEN {Image} ELSE {})

(* Every round so far asked for two fields that none before it asked for,   *)
(* unless everything that is open has been asked.                           *)
Covered ==
  \/ Open \subseteq Asked(session)
  \/ /\ Asked(session) \subseteq Askable
     /\ 2 * Len(session.rounds) <= Cardinality(Asked(session))

RoundsInv ==
  /\ missing \in MissingLists /\ image \in BOOLEAN
  /\ session.resolved \subseteq Fields
  /\ \A r \in 1 .. Len(session.rounds) :
       session.rounds[r] \in Seq(Fields) /\ Len(session.rounds[r]) \in 1 .. 2
  /\ RepeatsComeLast
  /\ Covered

(* A session that ended has nothing open, or what its three rounds left. *)
EndsInv ==
  /\ session.status \in Statuses
  /\ session.status = "RESOLVED" => Open = {}
  /\ session.status = "UNRESOLVED_LIMIT" =>
       Len(session.rounds) = MAX_ROUNDS /\ Open # {}

LEMMA ListsOfFields ==
  ASSUME NEW s \in MissingLists
  PROVE  /\ s \in Seq(Fields) /\ Distinct(s) /\ Elements(s) \subseteq Fields
         /\ Image \notin Elements(s)
         /\ IsFiniteSet(Elements(s)) /\ Cardinality(Elements(s)) <= Len(s)
<1>1. s \in Seq(Elements(s)) /\ Distinct(s) /\ Image \notin Elements(s)
  BY ClarificationAssumption DEF Distinct
<1>2. Elements(s) \subseteq Fields
  BY DEF Fields
<1>3. s \in Seq(Fields)
  <2>1. \A E : s \in Seq(E) => Len(s) \in Nat /\ s \in [1 .. Len(s) -> E]
    OBVIOUS
  <2>2. Len(s) \in Nat /\ s \in [1 .. Len(s) -> Fields]
    BY <1>1, <1>2, <2>1
  <2>3. QED
    BY <2>2
<1>4. IsFiniteSet(Elements(s)) /\ Cardinality(Elements(s)) <= Len(s)
  <2>1. Len(s) \in Nat /\ s \in [1 .. Len(s) -> Elements(s)]
    BY <1>1
  <2>2. \A e \in Elements(s) : \E i \in 1 .. Len(s) : s[i] = e
    BY DEF Elements
  <2>3. s \in Surjection(1 .. Len(s), Elements(s))
    BY <2>1, <2>2 DEF Surjection
  <2>4. IsFiniteSet(1 .. Len(s)) /\ Cardinality(1 .. Len(s)) = Len(s)
    BY <2>1, FS_Interval
  <2>5. QED
    BY <2>3, <2>4, FS_Surjection
<1>5. QED
  BY <1>1, <1>2, <1>3, <1>4

LEMMA AskableIsFinite ==
  ASSUME missing \in MissingLists
  PROVE  /\ IsFiniteSet(Askable) /\ Cardinality(Askable) \in Nat
         /\ Cardinality(Askable) <= Len(missing) + (IF image THEN 1 ELSE 0)
<1>1. /\ IsFiniteSet(Elements(missing)) /\ Cardinality(Elements(missing)) <= Len(missing)
      /\ Image \notin Elements(missing) /\ Len(missing) \in Nat
  BY ListsOfFields
<1>2. Cardinality(Elements(missing)) \in Nat
  BY <1>1, FS_CardinalityType
<1>3. CASE image
  <2>1. Askable = Elements(missing) \cup {Image}
    BY <1>3 DEF Askable
  <2>2. /\ IsFiniteSet(Askable)
        /\ Cardinality(Askable) = Cardinality(Elements(missing)) + 1
    BY <1>1, <2>1, FS_AddElement
  <2>3. QED
    BY <1>1, <1>2, <1>3, <2>2
<1>4. CASE ~image
  <2>1. Askable = Elements(missing)
    BY <1>4 DEF Askable
  <2>2. QED
    BY <1>1, <1>2, <1>4, <2>1
<1>5. QED
  BY <1>3, <1>4

LEMMA TwoMore ==
  ASSUME NEW A, IsFiniteSet(A), NEW a, NEW b, a # b, {a, b} \cap A = {}
  PROVE  Cardinality(A \cup {a, b}) = Cardinality(A) + 2
<1>1. IsFiniteSet(A \cup {a}) /\ Cardinality(A \cup {a}) = Cardinality(A) + 1
  BY FS_AddElement
<1>2. b \notin A \cup {a} /\ A \cup {a, b} = (A \cup {a}) \cup {b}
  OBVIOUS
<1>3. Cardinality(A \cup {a, b}) = (Cardinality(A) + 1) + 1
  BY <1>1, <1>2, FS_AddElement
<1>4. Cardinality(A) \in Nat
  BY FS_CardinalityType
<1>5. QED
  BY <1>3, <1>4

(* A session that learns more, or ends, in the rounds it has. *)
LEMMA SameRoundsKeep ==
  ASSUME RoundsInv, UNCHANGED <<missing, image>>, session'.rounds = session.rounds,
         session.resolved \subseteq session'.resolved, session'.resolved \subseteq Fields
  PROVE  RoundsInv' /\ Open' \subseteq Open
<1>1. Open' \subseteq Open
  BY DEF Open, Elements
<1>2. /\ Asked(session)' = Asked(session) /\ Askable' = Askable
      /\ \A r \in 1 .. Len(session.rounds) : AskedBefore(r)' = AskedBefore(r)
  BY DEF Asked, Askable, AskedBefore, Elements
<1>3. RepeatsComeLast'
  <2>1. SUFFICES ASSUME NEW r \in 1 .. Len(session.rounds)
                 PROVE  /\ Image \notin Elements(session.rounds[r]) \cap AskedBefore(r)
                        /\ Elements(session.rounds[r]) \cap AskedBefore(r) # {} =>
                             Open' \subseteq AskedBefore(r)
    BY <1>2 DEF RepeatsComeLast, Elements
  <2>2. QED
    BY <1>1 DEF RoundsInv, RepeatsComeLast
<1>4. Covered'
  BY <1>1, <1>2 DEF RoundsInv, Covered
<1>5. QED
  BY <1>1, <1>3, <1>4 DEF RoundsInv

(* A session that opens another round. *)
LEMMA NextRoundKeeps ==
  ASSUME RoundsInv, IsSequence(session.rounds), Len(session.rounds) \in Nat,
         UNCHANGED <<missing, image>>, NEW resolved,
         session.resolved \subseteq resolved, resolved \subseteq Fields,
         NEW q, q = Questions(Remaining(resolved), resolved, Asked(session),
                              image /\ Image \notin resolved), q # <<>>,
         session'.resolved = resolved,
         session'.rounds = Append(session.rounds, q)
  PROVE  RoundsInv' /\ Elements(q) \cap resolved = {}
<1> DEFINE asked == Asked(session)
           remaining == Remaining(resolved)
<1>0. PICK n \in Nat : n = Len(session.rounds)
  OBVIOUS
<1>1. /\ remaining \in Seq(Fields) /\ Distinct(remaining)
      /\ Elements(remaining) = Elements(missing) \ resolved
      /\ Image \notin Elements(remaining)
  BY ListsOfFields, KeptKeeps DEF RoundsInv, Remaining
<1> HIDE DEF remaining
<1>2. AsksWell(q, remaining, resolved, asked, image /\ Image \notin resolved)
  BY <1>1, QuestionsAsk DEF remaining
<1>3. Open' = Elements(remaining) /\ Open' \subseteq Open
  BY <1>1 DEF Open, Elements
<1>4. /\ Len(session'.rounds) = n + 1 /\ session'.rounds[n + 1] = q
      /\ \A r \in 1 .. n : session'.rounds[r] = session.rounds[r]
      /\ \A r \in 1 .. (n + 1) : r \in 1 .. n \/ r = n + 1
      /\ n + 1 \in 1 .. (n + 1) /\ 1 .. n \subseteq 1 .. (n + 1)
  BY <1>0, Appending
<1>5. Asked(session)' = asked \cup Elements(q)
  <2>1. asked = UNION {Elements(session.rounds[i]) : i \in 1 .. n}
    BY <1>0 DEF Asked
  <2>2. Asked(session)' = UNION {Elements(session'.rounds[i]) : i \in 1 .. (n + 1)}
    BY <1>4 DEF Asked, Elements
  <2> HIDE DEF asked
  <2>3. \A r \in 1 .. n : Elements(session'.rounds[r]) = Elements(session.rounds[r])
    BY <1>4
  <2>4. Elements(session'.rounds[n + 1]) = Elements(q)
    BY <1>4
  <2>5. QED
    BY <1>4, <2>1, <2>2, <2>3, <2>4
<1>6. /\ \A r \in 1 .. n : AskedBefore(r)' = AskedBefore(r)
      /\ AskedBefore(n + 1)' = asked
  <2>1. ASSUME NEW r \in 1 .. (n + 1)
        PROVE  AskedBefore(r)' = UNION {Elements(session.rounds[i]) : i \in 1 .. (r - 1)}
    <3>1. \A i \in 1 .. (r - 1) :
            Elements(session'.rounds[i]) = Elements(session.rounds[i])
      BY <1>4
    <3>2. AskedBefore(r)' = UNION {Elements(session'.rounds[i]) : i \in 1 .. (r - 1)}
      BY DEF AskedBefore, Elements
    <3>3. QED
      BY <3>1, <3>2
  <2>2. (n + 1) - 1 = n /\ n + 1 \in 1 .. (n + 1)
    OBVIOUS
  <2>3. AskedBefore(n + 1)' = UNION {Elements(session.rounds[i]) : i \in 1 .. n}
    BY <2>1, <2>2
  <2>4. QED
    BY <1>0, <1>4, <2>1, <2>3 DEF AskedBefore, Asked
<1>7. RepeatsComeLast'
  <2>1. SUFFICES ASSUME NEW r \in 1 .. (n + 1)
                 PROVE  /\ Image \notin Elements(session'.rounds[r]) \cap AskedBefore(r)'
                        /\ Elements(session'.rounds[r]) \cap AskedBefore(r)' # {} =>
                             Open' \subseteq AskedBefore(r)'
    BY <1>4 DEF RepeatsComeLast, Elements
  <2>2. CASE r \in 1 .. n
    <3>1. /\ Image \notin Elements(session.rounds[r]) \cap AskedBefore(r)
          /\ Elements(session.rounds[r]) \cap AskedBefore(r) # {} =>
               Open \subseteq AskedBefore(r)
      BY <1>0, <2>2 DEF RoundsInv, RepeatsComeLast
    <3>2. QED
      BY <1>3, <1>4, <1>6, <2>2, <3>1
  <2>3. CASE r = n + 1
    <3>1. session'.rounds[r] = q /\ AskedBefore(r)' = asked
      BY <1>4, <1>6, <2>3
    <3>2. Open' \cap resolved = {}
      BY <1>1, <1>3
    <3>3. QED
      BY <1>2, <1>3, <3>1, <3>2 DEF AsksWell
  <2>4. QED
    BY <1>4, <2>2, <2>3
<1>8. Covered'
  <2>1. CASE Open' \subseteq asked \cup Elements(q)
    BY <1>5, <2>1 DEF Covered
  <2>2. CASE ~(Open' \subseteq asked \cup Elements(q))
    <3>1. asked \subseteq Askable /\ 2 * n <= Cardinality(asked)
      BY <1>0, <1>3, <2>2 DEF RoundsInv, Covered
    <3>2. PICK a, b : a # b /\ Elements(q) = {a, b} /\ {a, b} \cap asked = {}
      BY <1>1, <1>2, <1>3, <2>2 DEF AsksWell
    <3>3. IsFiniteSet(asked) /\ Cardinality(asked) \in Nat
      BY <3>1, AskableIsFinite, FS_Subset, FS_CardinalityType DEF RoundsInv
    <3> HIDE DEF asked
    <3>4. Cardinality(asked \cup Elements(q)) = Cardinality(asked) + 2
      <4>1. Cardinality(asked \cup {a, b}) = Cardinality(asked) + 2
        BY <3>2, <3>3, TwoMore
      <4>2. QED
        BY <3>2, <4>1
    <3>5. Askable' = Askable /\ Elements(q) \subseteq Askable
      <4>1. Askable' = Askable
        BY DEF Askable, Elements
      <4>2. QED
        BY <1>1, <1>2, <4>1 DEF Askable, AsksWell
    <3>6. 2 * (n + 1) <= Cardinality(asked \cup Elements(q))
      BY <3>1, <3>3, <3>4
    <3>7. asked \cup Elements(q) \subseteq Askable'
      BY <3>1, <3>5
    <3>8. QED
      BY <1>4, <1>5, <3>6, <3>7 DEF Covered
  <2>3. QED
    BY <2>1, <2>2
<1>9. \A r \in 1 .. (n + 1) :
        session'.rounds[r] \in Seq(Fields) /\ Len(session'.rounds[r]) \in 1 .. 2
  <2>1. q \in Seq(Fields) /\ Len(q) \in 1 .. 2
    BY <1>2 DEF AsksWell
  <2>2. QED
    BY <1>0, <1>4, <2>1 DEF RoundsInv
<1>10. QED
  BY <1>2, <1>4, <1>7, <1>8, <1>9 DEF RoundsInv, AsksWell

(* What a step adds to the known facts, and does not ask about. *)
Remembers ==
  /\ session.resolved \subseteq session'.resolved
  /\ Len(session'.rounds) > Len(session.rounds) =>
       Elements(session'.rounds[Len(session'.rounds)]) \cap session'.resolved = {}

(* The session a reply leaves, whatever it resolves. *)
LEMMA ReplyKeepsRounds ==
  ASSUME RoundsInv, EndsInv, SessionInv, NEW newly \in SUBSET Open, NEW long \in BOOLEAN,
         session' = AfterReply(newly, long), UNCHANGED <<missing, image>>
  PROVE  RoundsInv' /\ EndsInv' /\ Remembers
<1>0. PICK resolved : resolved = Resolved(newly, long)
  OBVIOUS
<1> DEFINE remaining == Remaining(resolved)
           questions == Questions(remaining, resolved, Asked(session),
                                  image /\ Image \notin resolved)
<1>1. /\ session = [status |-> session.status, rounds |-> session.rounds,
                    resolved |-> session.resolved]
      /\ IsSequence(session.rounds) /\ Len(session.rounds) \in 1 .. 3
  BY DEF SessionInv, Shaped, Rounds, MAX_ROUNDS
<1>2. session.resolved \subseteq resolved /\ resolved \subseteq Fields
  <2>1. Elements(missing) \subseteq Fields
    BY ListsOfFields DEF RoundsInv
  <2>2. newly \subseteq Fields
    BY <2>1 DEF Open
  <2>3. ByImage(long) \subseteq Fields
    <3>1. Image \in Fields
      BY Zenon DEF Fields
    <3>2. QED
      BY <3>1 DEF ByImage
  <2>4. QED
    BY <1>0, <2>2, <2>3 DEF Resolved, RoundsInv
<1>3. /\ remaining \in Seq(Fields) /\ Distinct(remaining)
      /\ Elements(remaining) = Elements(missing) \ resolved
      /\ Image \notin Elements(remaining)
  BY ListsOfFields, KeptKeeps DEF RoundsInv, Remaining
<1>4. AsksWell(questions, remaining, resolved, Asked(session),
               image /\ Image \notin resolved)
  BY <1>3, QuestionsAsk
<1>5. remaining = <<>> <=> Elements(remaining) = {}
  <2>1. remaining = <<>> => Elements(remaining) = {}
    BY DEF Elements
  <2>2. remaining # <<>> => remaining[1] \in Elements(remaining)
    BY <1>3 DEF Elements
  <2>3. QED
    BY <2>1, <2>2
<1>6. AfterReply(newly, long) =
        IF now > Expiry THEN [session EXCEPT !.status = "UNRESOLVED_EXPIRED"]
        ELSE IF remaining = <<>> \/ (~AtLimit /\ questions = <<>>)
          THEN [session EXCEPT !.status = "RESOLVED", !.resolved = resolved]
        ELSE IF AtLimit
          THEN [session EXCEPT !.status = "UNRESOLVED_LIMIT", !.resolved = resolved]
        ELSE [status |-> "WAITING_REPLY", resolved |-> resolved,
              rounds |-> Append(session.rounds, questions)]
  BY <1>0 DEF AfterReply, AfterAnswer
<1> HIDE DEF remaining, questions
<1>7. ASSUME session'.rounds = session.rounds, session'.resolved = resolved
      PROVE  RoundsInv' /\ Remembers /\ Open' = Elements(remaining)
  <2>1. RoundsInv'
    BY <1>2, <1>7, SameRoundsKeep
  <2>2. Remembers
    BY <1>1, <1>2, <1>7 DEF Remembers
  <2>3. Open' = Elements(remaining)
    BY <1>3, <1>7 DEF Open, Elements
  <2>4. QED
    BY <2>1, <2>2, <2>3
<1>8. CASE now > Expiry
  <2>1. session' = [session EXCEPT !.status = "UNRESOLVED_EXPIRED"]
    BY <1>6, <1>8
  <2>2. /\ session'.rounds = session.rounds /\ session'.resolved = session.resolved
        /\ session'.status = "UNRESOLVED_EXPIRED"
    BY <1>1, <2>1
  <2>3. RoundsInv'
    BY <2>2, SameRoundsKeep DEF RoundsInv
  <2>4. QED
    BY <1>1, <2>2, <2>3 DEF EndsInv, Statuses, Remembers
<1>9. CASE ~(now > Expiry) /\ (remaining = <<>> \/ (~AtLimit /\ questions = <<>>))
  <2>1. session' = [session EXCEPT !.status = "RESOLVED", !.resolved = resolved]
    BY <1>6, <1>9
  <2>2. /\ session'.rounds = session.rounds /\ session'.resolved = resolved
        /\ session'.status = "RESOLVED"
    BY <1>1, <2>1
  <2>3. Elements(remaining) = {}
    BY <1>3, <1>4, <1>5, <1>9 DEF AsksWell
  <2>4. QED
    BY <1>7, <2>2, <2>3 DEF EndsInv, Statuses
<1>10. CASE ~(now > Expiry) /\ remaining # <<>> /\ AtLimit
  <2>1. session' = [session EXCEPT !.status = "UNRESOLVED_LIMIT", !.resolved = resolved]
    BY <1>6, <1>10
  <2>2. /\ session'.rounds = session.rounds /\ session'.resolved = resolved
        /\ session'.status = "UNRESOLVED_LIMIT"
    BY <1>1, <2>1
  <2>3. Len(session.rounds) = MAX_ROUNDS
    BY <1>1, <1>10 DEF AtLimit, MAX_ROUNDS
  <2>4. QED
    BY <1>5, <1>7, <1>10, <2>2, <2>3 DEF EndsInv, Statuses
<1>11. CASE ~(now > Expiry) /\ remaining # <<>> /\ ~AtLimit /\ questions # <<>>
  <2>1. session' = [status |-> "WAITING_REPLY", resolved |-> resolved,
                    rounds |-> Append(session.rounds, questions)]
    BY <1>6, <1>11
  <2>2. PICK q : q = questions
    OBVIOUS
  <2>3. /\ session'.rounds = Append(session.rounds, q) /\ session'.resolved = resolved
        /\ session'.status = "WAITING_REPLY"
    BY <2>1, <2>2
  <2>4. RoundsInv' /\ Elements(q) \cap resolved = {}
    BY <1>1, <1>2, <1>11, <2>2, <2>3, NextRoundKeeps DEF questions, remaining
  <2>5. session'.rounds[Len(session'.rounds)] = q
    BY <1>1, <2>3, Appending
  <2>6. QED
    BY <1>2, <2>3, <2>4, <2>5 DEF EndsInv, Statuses, Remembers
<1>12. QED
  BY <1>8, <1>9, <1>10, <1>11

LEMMA RoundsStart == Init => RoundsInv /\ EndsInv
<1> SUFFICES ASSUME Init PROVE RoundsInv /\ EndsInv
  OBVIOUS
<1>1. /\ missing \in MissingLists /\ image \in BOOLEAN
      /\ session = [status |-> "WAITING_REPLY", rounds |-> <<FirstRound>>, resolved |-> {}]
  BY DEF Init
<1>2. /\ session.status = "WAITING_REPLY" /\ session.resolved = {}
      /\ Len(session.rounds) = 1 /\ session.rounds[1] = FirstRound
  BY <1>1
<1> DEFINE q == Questions(missing, {}, {}, image)
<1>3. AsksWell(q, missing, {}, {}, image)
  BY <1>1, ListsOfFields, QuestionsAsk
<1>4. FirstRound = IF q = <<>> THEN <<Location>> ELSE q
  BY DEF FirstRound
<1> HIDE DEF q
<1>5. FirstRound \in Seq(Fields) /\ Len(FirstRound) \in 1 .. 2
  <2>1. CASE q = <<>>
    <3>1. Location \in Fields
      BY Zenon DEF Fields
    <3>2. QED
      BY <1>4, <2>1, <3>1
  <2>2. CASE q # <<>>
    BY <1>3, <1>4, <2>2 DEF AsksWell
  <2>3. QED
    BY <2>1, <2>2
<1>6. Asked(session) = Elements(FirstRound)
  <2>1. 1 .. Len(session.rounds) = {1}
    BY <1>2
  <2>2. QED
    BY <1>2, <2>1 DEF Asked
<1>7. RepeatsComeLast
  <2>1. \A r \in 1 .. Len(session.rounds) : AskedBefore(r) = {}
    <3>1. \A r \in 1 .. Len(session.rounds) : 1 .. (r - 1) = {}
      BY <1>2
    <3>2. QED
      BY <3>1 DEF AskedBefore
  <2>2. QED
    BY <2>1 DEF RepeatsComeLast
<1>8. Open = Elements(missing)
  BY <1>2 DEF Open
<1>9. Covered
  <2>1. CASE Elements(missing) \subseteq Elements(FirstRound)
    BY <1>6, <1>8, <2>1 DEF Covered
  <2>2. CASE ~(Elements(missing) \subseteq Elements(FirstRound))
    <3>1. q # <<>> /\ FirstRound = q
      BY <1>3, <1>4, <2>2 DEF AsksWell
    <3>2. PICK a, b : a # b /\ Elements(q) = {a, b}
      BY <1>3, <2>2, <3>1 DEF AsksWell
    <3>3. IsFiniteSet({}) /\ Cardinality({}) = 0
      BY FS_EmptySet
    <3>4. Cardinality({} \cup {a, b}) = 2
      <4>1. {a, b} \cap {} = {}
        OBVIOUS
      <4>2. Cardinality({} \cup {a, b}) = Cardinality({}) + 2
        BY <3>2, <3>3, <4>1, TwoMore, Zenon
      <4>3. QED
        BY <3>3, <4>2
    <3>5. Cardinality(Elements(q)) = 2
      <4>1. {} \cup {a, b} = {a, b}
        OBVIOUS
      <4>2. QED
        BY <3>2, <3>4, <4>1
    <3>6. Elements(q) \subseteq Askable
      BY <1>3 DEF AsksWell, Askable
    <3>7. QED
      BY <1>2, <1>6, <3>1, <3>5, <3>6 DEF Covered
  <2>3. QED
    BY <2>1, <2>2
<1>10. EndsInv
  BY <1>2 DEF EndsInv, Statuses
<1>11. session.resolved \subseteq Fields
  BY <1>2
<1>12. \A r \in 1 .. Len(session.rounds) :
         session.rounds[r] \in Seq(Fields) /\ Len(session.rounds[r]) \in 1 .. 2
  BY <1>2, <1>5
<1>13. QED
  BY <1>1, <1>7, <1>9, <1>10, <1>11, <1>12 DEF RoundsInv

(* What is asked, what is open and how a session ends hold together in      *)
(* every step, and a step forgets no fact.                                  *)
LEMMA RoundsSteps ==
  ASSUME ClarificationInv, RoundsInv, EndsInv, [Next]_vars
  PROVE  RoundsInv' /\ EndsInv' /\ Remembers
<1>1. SessionInv
  BY DEF ClarificationInv
<1>2. ASSUME session' = session, UNCHANGED <<missing, image>>
      PROVE  RoundsInv' /\ EndsInv' /\ Remembers
  <2>1. RoundsInv'
    BY <1>2, SameRoundsKeep DEF RoundsInv
  <2>2. EndsInv'
    BY <1>2 DEF EndsInv, Open, Elements
  <2>3. Remembers
    BY <1>1, <1>2 DEF Remembers, SessionInv, Rounds
  <2>4. QED
    BY <2>1, <2>2, <2>3
<1>3. CASE Dispatch \/ Tick \/ UNCHANGED vars
  BY <1>2, <1>3 DEF Dispatch, Tick, vars
<1>4. ASSUME NEW newly \in SUBSET Open, NEW long \in BOOLEAN, Reply(newly, long)
      PROVE  RoundsInv' /\ EndsInv' /\ Remembers
  BY <1>1, <1>4, ReplyKeepsRounds DEF Reply
<1>5. ASSUME NEW newly \in SUBSET Open, NEW long \in BOOLEAN, ReplyRaises(newly, long)
      PROVE  RoundsInv' /\ EndsInv' /\ Remembers
  BY <1>2, <1>5 DEF ReplyRaises
<1>6. CASE CheckExpiry
  <2>1. /\ session' = [session EXCEPT !.status = "UNRESOLVED_EXPIRED"]
        /\ UNCHANGED <<missing, image>>
    BY <1>6 DEF CheckExpiry
  <2>2. session = [status |-> session.status, rounds |-> session.rounds,
                   resolved |-> session.resolved]
    BY <1>1 DEF SessionInv, Shaped
  <2>3. /\ session'.rounds = session.rounds /\ session'.resolved = session.resolved
        /\ session'.status = "UNRESOLVED_EXPIRED"
    BY <2>1, <2>2
  <2>4. RoundsInv'
    BY <2>1, <2>3, SameRoundsKeep DEF RoundsInv
  <2>5. QED
    BY <1>1, <2>3, <2>4 DEF EndsInv, Statuses, Remembers, SessionInv, Rounds
<1>7. QED
  BY <1>3, <1>4, <1>5, <1>6 DEF Next

(* The inductive invariant of a session's questions, for reports of any     *)
(* length and replies in any order.                                         *)
THEOREM RoundsInvariant == Spec => [](RoundsInv /\ EndsInv)
<1>1. ClarificationInv /\ RoundsInv /\ EndsInv /\ [Next]_vars => (RoundsInv /\ EndsInv)'
  BY RoundsSteps
<1>2. QED
  BY <1>1, RoundsStart, ClarificationInvariant, PTL DEF Spec

(* A question is repeated only once everything that is still missing has    *)
(* been asked, and the one about the image never: the two passes of         *)
(* generate_round_questions.                                                *)
THEOREM OldQuestionsComeLast == Spec => []RepeatsComeLast
<1>1. RoundsInv => RepeatsComeLast
  BY DEF RoundsInv
<1>2. QED
  BY <1>1, RoundsInvariant, PTL

(* A session ends as resolved with nothing missing, and at its limit with   *)
(* every missing fact asked about whenever six questions are enough: the    *)
(* returns of submit_clarification_reply.                                   *)
THEOREM SessionsEndForTheirReason == Spec => []EndsAreEarned
<1>1. RoundsInv /\ EndsInv => EndsAreEarned
  <2> SUFFICES ASSUME RoundsInv, EndsInv PROVE EndsAreEarned
    OBVIOUS
  <2>1. ASSUME session.status = "UNRESOLVED_LIMIT",
               Len(missing) + (IF image THEN 1 ELSE 0) <= 6
        PROVE  Open \subseteq Asked(session)
    <3>1. CASE Open \subseteq Asked(session)
      BY <3>1
    <3>2. CASE ~(Open \subseteq Asked(session))
      <4>1. /\ Asked(session) \subseteq Askable
            /\ 2 * Len(session.rounds) <= Cardinality(Asked(session))
        BY <3>2 DEF RoundsInv, Covered
      <4>2. 6 <= Cardinality(Asked(session))
        <5>1. Len(session.rounds) = 3
          BY <2>1 DEF EndsInv, MAX_ROUNDS
        <5>2. QED
          BY <4>1, <5>1
      <4>3. /\ IsFiniteSet(Askable) /\ Cardinality(Askable) \in Nat
            /\ Cardinality(Askable) <= Len(missing) + (IF image THEN 1 ELSE 0)
        BY AskableIsFinite DEF RoundsInv
      <4>4. /\ IsFiniteSet(Asked(session))
            /\ Cardinality(Asked(session)) <= Cardinality(Askable)
            /\ Cardinality(Askable) = Cardinality(Asked(session))
                 => Askable = Asked(session)
        BY <4>1, <4>3, FS_Subset
      <4>5. Cardinality(Asked(session)) \in Nat /\ Len(missing) \in Nat
        BY <4>4, FS_CardinalityType, ListsOfFields DEF RoundsInv
      <4>6. Askable = Asked(session)
        BY <2>1, <4>2, <4>3, <4>4, <4>5
      <4>7. QED
        BY <4>6 DEF Askable, Open
    <3>3. QED
      BY <3>1, <3>2
  <2>2. LimitMeansAsked
    BY <2>1 DEF LimitMeansAsked, EndsInv, MAX_ROUNDS, MAX_QUESTIONS_PER_ROUND
  <2>3. QED
    BY <2>2 DEF EndsAreEarned, ResolvedMeansComplete, EndsInv
<1>2. QED
  BY <1>1, RoundsInvariant, PTL

(* What the citizen has made known is not forgotten, and no later round     *)
(* asks about it: all_resolved in submit_clarification_reply.               *)
THEOREM KnownFactsStayKnown == Spec => KnownFactsNotAsked
<1>1. ClarificationInv /\ RoundsInv /\ EndsInv /\ [Next]_vars => [Remembers]_vars
  BY RoundsSteps
<1>2. QED
  BY <1>1, RoundsInvariant, ClarificationInvariant, PTL
  DEF Spec, KnownFactsNotAsked, Remembers

(* The ledger's rows, the clock and the counters. *)
LedgerInv ==
  /\ now \in 0 .. MaxTime /\ faults \in 0 .. MaxFaults
  /\ sends \in [Rounds -> Nat]
  /\ DOMAIN ledger \subseteq Rounds
  /\ \A r \in DOMAIN ledger :
       ledger[r].status \in {"SENT", "DELIVERY_UNKNOWN", "FAILED"}

LEMMA SendKeepsLedger ==
  ASSUME LedgerInv, NEW r \in Rounds, NEW q, Delivered(r, q) \/ Failed(r, q), now' = now
  PROVE  LedgerInv'
<1>1. MaxFaults \in Nat
  BY ClarificationAssumption
<1>2. ASSUME NEW status \in {"SENT", "DELIVERY_UNKNOWN", "FAILED"}, Recorded(r, q, status)
      PROVE  /\ DOMAIN ledger' \subseteq Rounds
             /\ \A k \in DOMAIN ledger' :
                  ledger'[k].status \in {"SENT", "DELIVERY_UNKNOWN", "FAILED"}
  BY <1>2 DEF Recorded, LedgerInv
<1>3. [sends EXCEPT ![r] = @ + 1] \in [Rounds -> Nat]
  BY DEF LedgerInv
<1>4. CASE Sent(r, q)
  BY <1>2, <1>3, <1>4 DEF Sent, LedgerInv
<1>5. CASE TimedOut(r, q) \/ Failed(r, q)
  <2>1. /\ faults < MaxFaults /\ faults' = faults + 1
        /\ Recorded(r, q, "DELIVERY_UNKNOWN") \/ Recorded(r, q, "FAILED")
        /\ sends' \in {sends, [sends EXCEPT ![r] = @ + 1]}
    BY <1>5 DEF TimedOut, Failed
  <2>2. faults' \in 0 .. MaxFaults
    BY <1>1, <2>1 DEF LedgerInv
  <2>3. QED
    BY <1>2, <1>3, <2>1, <2>2 DEF LedgerInv
<1>6. CASE Replayed(r, q)
  BY <1>6 DEF Replayed, LedgerInv
<1>7. QED
  BY <1>4, <1>5, <1>6 DEF Delivered

LEMMA LedgerSteps ==
  ASSUME ClarificationInv, LedgerInv, [Next]_vars
  PROVE  LedgerInv'
<1>1. ASSUME UNCHANGED <<ledger, sends, faults>>, now' = now
      PROVE  LedgerInv'
  BY <1>1 DEF LedgerInv
<1>2. CASE Dispatch
  <2> DEFINE r == Len(session.rounds)
  <2>1. /\ Delivered(r, session.rounds[r]) \/ Failed(r, session.rounds[r])
        /\ now' = now
    BY <1>2 DEF Dispatch
  <2>2. r \in Rounds
    BY DEF ClarificationInv, SessionInv
  <2> HIDE DEF r
  <2>3. QED
    BY <2>1, <2>2, SendKeepsLedger
<1>3. ASSUME NEW newly, NEW long, Advances(AfterReply(newly, long))
      PROVE  Len(AfterReply(newly, long).rounds) \in Rounds
  <2>1. IsSequence(session.rounds) /\ Len(session.rounds) \in 1 .. 3 /\ SessionInv
    BY DEF ClarificationInv, SessionInv, Rounds, MAX_ROUNDS
  <2>2. Len(AfterReply(newly, long).rounds) > Len(session.rounds)
    BY <1>3 DEF Advances
  <2>3. AfterReply(newly, long).rounds # session.rounds
    BY <2>1, <2>2
  <2>4. PICK q : AfterReply(newly, long).rounds = Append(session.rounds, q)
    BY <2>1, <2>3, ReplyShapes
  <2>5. Len(session.rounds) < MAX_ROUNDS
    BY <2>1, <2>3, ReplyShapes
  <2>6. QED
    BY <2>1, <2>4, <2>5, Appending DEF Rounds, MAX_ROUNDS
<1>4. ASSUME NEW newly, NEW long, Reply(newly, long) \/ ReplyRaises(newly, long)
      PROVE  LedgerInv'
  BY <1>1, <1>3, <1>4, SendKeepsLedger DEF Reply, ReplyRaises
<1>5. CASE CheckExpiry \/ UNCHANGED vars
  BY <1>1, <1>5 DEF CheckExpiry, vars
<1>6. CASE Tick
  BY <1>6, ClarificationAssumption DEF Tick, LedgerInv
<1>7. QED
  BY <1>2, <1>4, <1>5, <1>6 DEF Next

(* The session, its rounds and its ledger rows are what their models        *)
(* declare.                                                                 *)
THEOREM ClarificationTypeCorrect == Spec => []TypeOK
<1>1. Init => LedgerInv
  <2> SUFFICES ASSUME Init PROVE LedgerInv
    OBVIOUS
  <2>1. now = 0 /\ faults = 0 /\ sends = [r \in Rounds |-> 0] /\ DOMAIN ledger = {}
    BY DEF Init
  <2>2. QED
    BY <2>1, ClarificationAssumption DEF LedgerInv
<1>2. ClarificationInv /\ LedgerInv /\ [Next]_vars => LedgerInv'
  BY LedgerSteps
<1>3. ClarificationInv /\ LedgerInv /\ RoundsInv /\ EndsInv => TypeOK
  <2> SUFFICES ASSUME ClarificationInv, LedgerInv, RoundsInv, EndsInv PROVE TypeOK
    OBVIOUS
  <2>1. RoundsOK(session.rounds)
    <3>1. \A s \in Seq(Fields) : Elements(s) \subseteq Fields
      BY DEF Elements
    <3>2. QED
      BY <3>1 DEF RoundsOK, RoundsInv, ClarificationInv, SessionInv, MAX_QUESTIONS_PER_ROUND
  <2>2. QED
    BY <2>1 DEF TypeOK, LedgerInv, RoundsInv, EndsInv
<1>4. QED
  BY <1>1, <1>2, <1>3, ClarificationInvariant, RoundsInvariant, PTL DEF Spec

(* Each round reaches the citizen at most once, in the session's own words, *)
(* and without a failed send it does: send_clarification_question under the *)
(* key of conversation and round.                                           *)
THEOREM RoundsAreSentOnce == Spec => []RoundsSentOnce
<1>1. ClarificationInv => RoundsSentOnce
  <2> SUFFICES ASSUME ClarificationInv, NEW r \in Rounds
               PROVE  /\ sends[r] <= 1
                      /\ sends[r] = 1 => OnRecord(r)
                      /\ r <= Len(session.rounds) /\ OnRecord(r)
                           => ledger[r].questions = session.rounds[r]
                      /\ r \in 2 .. Len(session.rounds) /\ faults = 0
                           => sends[r] = 1
    BY DEF RoundsSentOnce
  <2>1. RowInv(r)
    BY DEF ClarificationInv
  <2>2. QED
    BY <2>1 DEF RowInv
<1>2. QED
  BY <1>1, ClarificationInvariant, PTL

(* A reply that comes after expires_at is not taken into account: the first *)
(* test of submit_clarification_reply.                                      *)
THEOREM LateRepliesAreIgnored == Spec => LateRepliesChangeNothing
<1> DEFINE Late == now > Expiry =>
             /\ session'.rounds = session.rounds
             /\ session'.status \in {session.status, "UNRESOLVED_EXPIRED"}
<1>1. ClarificationInv /\ [Next]_vars => [Late]_vars
  <2> SUFFICES ASSUME ClarificationInv, Next, now > Expiry
               PROVE  /\ session'.rounds = session.rounds
                      /\ session'.status \in {session.status, "UNRESOLVED_EXPIRED"}
    OBVIOUS
  <2>1. SessionInv
    BY DEF ClarificationInv
  <2>2. ASSUME NEW newly, NEW long, Reply(newly, long)
        PROVE  /\ session'.rounds = session.rounds
               /\ session'.status = "UNRESOLVED_EXPIRED"
    <3>1. session' = AfterReply(newly, long)
      BY <2>2 DEF Reply
    <3>2. QED
      BY <2>1, <3>1, ReplyShapes
  <2>3. CASE CheckExpiry
    <3>1. session' = [session EXCEPT !.status = "UNRESOLVED_EXPIRED"]
      BY <2>3 DEF CheckExpiry
    <3>2. session = [status |-> session.status, rounds |-> session.rounds,
                     resolved |-> session.resolved]
      BY <2>1 DEF SessionInv, Shaped
    <3>3. QED
      BY <3>1, <3>2
  <2>4. QED
    BY <2>2, <2>3 DEF Next, Dispatch, ReplyRaises, Tick
<1>2. QED
  BY <1>1, ClarificationInvariant, PTL DEF Spec, LateRepliesChangeNothing
=============================================================================

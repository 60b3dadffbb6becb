-------------------------- MODULE SequentialProofs --------------------------
(* Proofs about the pieces of code that run alone, for every text, window,  *)
(* list of spans, ratio, number of families, data set and directory.        *)
EXTENDS Sequential, FiniteSetTheorems, TLAPS

-----------------------------------------------------------------------------
(* Windows *)

(* Where the loop is: a text is uncut while its windows end inside it, and   *)
(* the next window starts so that the last one ends overlap after it.        *)
WindowsShape ==
  /\ total = 0 => loop = "over"
  /\ loop = "on" => start < total
  /\ loop = "on" /\ slices = <<>> => start = 0
  /\ slices # <<>> =>
       IF loop = "over" THEN slices[Len(slices)][2] = total
       ELSE slices[Len(slices)][2] = start + overlap /\ start + overlap < total

(* PhrasesStayWhole, for the runs that start before the next window. *)
PhrasesSoFar ==
  \A i \in Nat, n \in Nat \ {0} :
    (i + n <= total /\ n <= overlap + 1 /\ (loop = "over" \/ i < start)) =>
      \E k \in 1 .. Len(slices) : slices[k][1] <= i /\ i + n <= slices[k][2]

WindowsInv ==
  /\ WindowsTypeOK
  /\ WindowsShape
  /\ PhrasesSoFar
  /\ NoWindowInside

LEMMA WindowsStart == WindowsInit => WindowsInv
<1> SUFFICES ASSUME WindowsInit PROVE WindowsInv
  OBVIOUS
<1> USE WindowsAssumption
<1>1. /\ total \in Nat /\ maxTokens \in Nat \ {0}
      /\ overlap \in 0 .. (maxTokens - 1) /\ start = 0
  BY DEF WindowsInit
<1>2. CASE total = 0
  <2>1. slices = <<<<0, 0>>>> /\ loop = "over"
    BY <1>2 DEF WindowsInit
  <2>2. Len(slices) = 1 /\ slices[1] = <<0, 0>> /\ slices \in Seq(Nat \X Nat)
    BY <2>1
  <2>3. QED
    BY <1>1, <1>2, <2>1, <2>2
    DEF WindowsInv, WindowsTypeOK, WindowsShape, PhrasesSoFar, NoWindowInside
<1>3. CASE total # 0
  <2>1. slices = <<>> /\ loop = "on" /\ Len(slices) = 0 /\ slices \in Seq(Nat \X Nat)
    BY <1>3 DEF WindowsInit
  <2>2. QED
    BY <1>1, <1>3, <2>1
    DEF WindowsInv, WindowsTypeOK, WindowsShape, PhrasesSoFar, NoWindowInside
<1>4. QED
  BY <1>2, <1>3

LEMMA EndInText ==
  ASSUME WindowsInv, loop = "on"
  PROVE  /\ End \in Nat /\ start < End /\ End <= total /\ End <= start + maxTokens
         /\ ~AtEnd(End) => End = start + maxTokens
         /\ Step \in Nat \ {0} /\ Step = maxTokens - overlap
BY DEF WindowsInv, WindowsTypeOK, WindowsShape, End, AtEnd, Step

LEMMA WindowKeepsType ==
  ASSUME WindowsInv, Window
  PROVE  WindowsTypeOK'
<1> USE DEF WindowsInv, WindowsTypeOK
<1>1. loop = "on" /\ slices' = Append(slices, <<start, End>>)
  BY DEF Window
<1>2. End \in Nat /\ start < End /\ End <= total /\ End <= start + maxTokens
      /\ Step \in Nat \ {0}
  BY <1>1, EndInText
<1>3. /\ slices' \in Seq(Nat \X Nat)
      /\ Len(slices') = Len(slices) + 1
      /\ \A k \in 1 .. Len(slices) : slices'[k] = slices[k]
      /\ slices'[Len(slices) + 1] = <<start, End>>
  BY <1>1, <1>2
<1>4. total' = total /\ maxTokens' = maxTokens /\ overlap' = overlap
  BY DEF Window
<1>5. start' \in Nat /\ loop' \in {"on", "over"}
  BY <1>2 DEF Window
<1>6. ASSUME NEW k \in 1 .. Len(slices')
      PROVE  /\ slices'[k][1] <= slices'[k][2] /\ slices'[k][2] <= total
             /\ slices'[k][2] - slices'[k][1] <= maxTokens
  <2>1. CASE k \in 1 .. Len(slices)
    BY <2>1, <1>3
  <2>2. CASE k = Len(slices) + 1
    BY <2>2, <1>2, <1>3
  <2>3. QED
    BY <2>1, <2>2, <1>3
<1>7. QED
  BY <1>3, <1>4, <1>5, <1>6

LEMMA WindowKeepsInv ==
  ASSUME WindowsInv, Window
  PROVE  WindowsInv'
<1>1. /\ loop = "on" /\ start < total /\ slices' = Append(slices, <<start, End>>)
      /\ total' = total /\ maxTokens' = maxTokens /\ overlap' = overlap
  BY DEF Window
<1>2. /\ End \in Nat /\ start < End /\ End <= total
      /\ ~AtEnd(End) => End = start + maxTokens
      /\ Step \in Nat \ {0} /\ Step = maxTokens - overlap
  BY <1>1, EndInText
<1>3. /\ total \in Nat /\ maxTokens \in Nat \ {0} /\ overlap \in 0 .. (maxTokens - 1)
      /\ start \in Nat /\ slices \in Seq(Nat \X Nat)
  BY DEF WindowsInv, WindowsTypeOK
<1>4. /\ Len(slices') = Len(slices) + 1 /\ slices' # <<>>
      /\ \A k \in 1 .. Len(slices) : slices'[k] = slices[k]
      /\ slices'[Len(slices')] = <<start, End>>
      /\ Len(slices) \in Nat
  BY <1>1, <1>2, <1>3
<1>5. IF End >= total THEN loop' = "over" /\ start' = start
                      ELSE start' = start + Step /\ loop' = loop
  BY DEF Window, AtEnd
<1>6. WindowsShape'
  BY <1>1, <1>2, <1>3, <1>4, <1>5 DEF WindowsShape, AtEnd
<1>7. PhrasesSoFar'
  <2> SUFFICES ASSUME NEW i \in Nat, NEW n \in Nat \ {0},
                      i + n <= total, n <= overlap + 1, loop' = "over" \/ i < start'
               PROVE  \E k \in 1 .. Len(slices') :
                        slices'[k][1] <= i /\ i + n <= slices'[k][2]
    BY <1>1 DEF PhrasesSoFar
  <2>1. CASE i < start
    <3>1. PICK k \in 1 .. Len(slices) :
            slices[k][1] <= i /\ i + n <= slices[k][2]
      BY <2>1 DEF WindowsInv, PhrasesSoFar
    <3>2. k \in 1 .. Len(slices') /\ slices'[k] = slices[k]
      BY <1>4
    <3>3. QED
      BY <3>1, <3>2
  <2>2. CASE i >= start
    <3>1. i + n <= End
      BY <2>2, <1>1, <1>2, <1>3, <1>5 DEF AtEnd
    <3>2. Len(slices') \in 1 .. Len(slices')
      BY <1>4
    <3>3. QED
      BY <2>2, <3>1, <3>2, <1>4
  <2>3. QED
    BY <2>1, <2>2, <1>3
<1>8. NoWindowInside'
  <2> SUFFICES ASSUME NEW k \in 1 .. (Len(slices') - 1)
               PROVE  slices'[k][2] < slices'[k + 1][2]
    BY DEF NoWindowInside
  <2>1. CASE k + 1 \in 1 .. Len(slices)
    BY <2>1, <1>4 DEF WindowsInv, NoWindowInside
  <2>2. CASE k = Len(slices)
    <3>1. slices # <<>> /\ slices[k][2] = start + overlap /\ slices[k][2] < total
      BY <2>2, <1>1, <1>3 DEF WindowsInv, WindowsShape
    <3>2. QED
      BY <2>2, <3>1, <1>2, <1>3, <1>4 DEF AtEnd
  <2>3. QED
    BY <2>1, <2>2, <1>4
<1>9. QED
  BY <1>6, <1>7, <1>8, WindowKeepsType DEF WindowsInv

(* The windows of every text, window size and overlap keep their shape.     *)
THEOREM WindowsInvariant == WindowsSpec => []WindowsInv
<1>1. WindowsInit => WindowsInv
  BY WindowsStart
<1>2. WindowsInv /\ [Window]_windowVars => WindowsInv'
  <2>1. ASSUME WindowsInv, UNCHANGED windowVars PROVE WindowsInv'
    BY <2>1 DEF windowVars, WindowsInv, WindowsTypeOK, WindowsShape,
                PhrasesSoFar, NoWindowInside
  <2>2. QED
    BY <2>1, WindowKeepsInv
<1>3. QED
  BY <1>1, <1>2, PTL DEF WindowsSpec

(* Windows are ranges of the text, no longer than allowed. *)
THEOREM WindowsTypeCorrect == WindowsSpec => []WindowsTypeOK
<1>1. WindowsInv => WindowsTypeOK
  BY DEF WindowsInv
<1>2. QED
  BY <1>1, WindowsInvariant, PTL

(* No window lies inside its predecessor: the loop makes progress.          *)
THEOREM WindowsAdvance == WindowsSpec => []NoWindowInside
<1>1. WindowsInv => NoWindowInside
  BY DEF WindowsInv
<1>2. QED
  BY <1>1, WindowsInvariant, PTL

(* Runs of tokens up to one longer than the overlap lie whole in a window.  *)
THEOREM PhrasesAreKept == WindowsSpec => []PhrasesStayWhole
<1>1. ASSUME WindowsInv PROVE PhrasesStayWhole
  <2> SUFFICES ASSUME loop = "over", NEW i \in 0 .. (total - 1),
                      NEW n \in 1 .. (overlap + 1), i + n <= total
               PROVE  \E k \in 1 .. Len(slices) :
                        slices[k][1] <= i /\ i + n <= slices[k][2]
    BY DEF PhrasesStayWhole
  <2>1. total \in Nat /\ overlap \in Nat
    BY <1>1 DEF WindowsInv, WindowsTypeOK
  <2>2. i \in Nat /\ n \in Nat \ {0} /\ n <= overlap + 1
    BY <2>1
  <2>3. PhrasesSoFar
    BY <1>1 DEF WindowsInv
  <2>4. QED
    BY <2>2, <2>3 DEF PhrasesSoFar
<1>2. QED
  BY <1>1, WindowsInvariant, PTL

-----------------------------------------------------------------------------
(* Splits *)

(* Places are handed out below the number of families, and a split that got *)
(* more than the one it is owed was below its share when it got the last.   *)
SplitsInv ==
  /\ size \in Nat
  /\ quotas \in [Names -> Nat \ {0}]
  /\ size >= 3 => Placed(quotas) <= size
  /\ \A s \in Names : quotas[s] = 1 \/ Deficit(size, quotas, s) > -100
  /\ splits # <<>> =>
       /\ size > 0 /\ size <= Placed(quotas)
       /\ splits = [i \in 1 .. size |-> SplitOf(size, quotas, i)]

LEMMA Ratios ==
  /\ Ratio("train") = TrainRatio /\ Ratio("train") \in 1 .. 99
  /\ Ratio("dev") = DevRatio /\ Ratio("dev") \in 0 .. 99
  /\ Ratio("test") = 100 - TrainRatio - DevRatio /\ Ratio("test") \in 1 .. 99
  /\ Ratio("train") + Ratio("dev") + Ratio("test") = 100
BY SplitsAssumption DEF Ratio

(* The deficits of the splits add up to the places not yet handed out. *)
LEMMA DeficitsAddUp ==
  ASSUME NEW k \in Nat, NEW q \in [Names -> Nat]
  PROVE  /\ \A s \in Names : Deficit(k, q, s) \in Int /\ Deficit(k, q, s) >= -100 * q[s]
         /\ Deficit(k, q, "train") >= k - 100 * q["train"]
         /\ Deficit(k, q, "test") >= k - 100 * q["test"]
         /\ Deficit(k, q, "train") + Deficit(k, q, "dev") + Deficit(k, q, "test")
              = 100 * (k - Placed(q))
<1>1. q["train"] \in Nat /\ q["dev"] \in Nat /\ q["test"] \in Nat
  BY DEF Names
<1>2. /\ k * Ratio("train") \in Nat /\ k * Ratio("train") >= k
      /\ k * Ratio("dev") \in Nat
      /\ k * Ratio("test") \in Nat /\ k * Ratio("test") >= k
  <2>1. \A r \in Nat : k * r \in Nat /\ (r >= 1 => k * r >= k)
    OBVIOUS
  <2>2. QED
    BY <2>1, Ratios
<1>3. k * Ratio("train") + k * Ratio("dev") + k * Ratio("test") = 100 * k
  <2>1. \A a, b, c \in Int : a + b + c = 100 => k * a + k * b + k * c = 100 * k
    OBVIOUS
  <2>2. Ratio("train") \in Int /\ Ratio("dev") \in Int /\ Ratio("test") \in Int
    BY Ratios
  <2>3. QED
    BY <2>1, <2>2, Ratios
<1>4. QED
  BY <1>1, <1>2, <1>3 DEF Deficit, Placed, Names

LEMMA AddPlaceKeepsInv ==
  ASSUME SplitsInv, AddPlace
  PROVE  SplitsInv'
<1>1. PICK s \in Best(size, quotas) : quotas' = [quotas EXCEPT ![s] = @ + 1]
  BY DEF AddPlace
<1>2. /\ splits = <<>> /\ size > Placed(quotas)
      /\ size' = size /\ splits' = splits
  BY DEF AddPlace
<1>3. size \in Nat /\ quotas \in [Names -> Nat \ {0}]
  BY DEF SplitsInv
<1>4. s \in Names /\ \A t \in Names : Deficit(size, quotas, s) >= Deficit(size, quotas, t)
  BY <1>1 DEF Best
<1>5. /\ quotas' \in [Names -> Nat \ {0}]
      /\ quotas'[s] = quotas[s] + 1
      /\ \A t \in Names \ {s} : quotas'[t] = quotas[t]
  BY <1>1, <1>3, <1>4
<1>6. Placed(quotas') = Placed(quotas) + 1 /\ Placed(quotas) \in Nat
  BY <1>3, <1>4, <1>5 DEF Placed, Names
<1>7. Deficit(size, quotas, s) > 0
  <2> DEFINE D(t) == Deficit(size, quotas, t)
  <2>1. D("train") + D("dev") + D("test") = 100 * (size - Placed(quotas))
        /\ \A t \in Names : D(t) \in Int
    BY <1>3, DeficitsAddUp
  <2>2. 100 * (size - Placed(quotas)) > 0
    BY <1>2, <1>3, <1>6
  <2>3. D(s) >= D("train") /\ D(s) >= D("dev") /\ D(s) >= D("test") /\ D(s) \in Int
    BY <1>4, <2>1 DEF Names
  <2>4. D("train") \in Int /\ D("dev") \in Int /\ D("test") \in Int
    BY <2>1 DEF Names
  <2> HIDE DEF D
  <2>5. D(s) > 0
    BY <2>1, <2>2, <2>3, <2>4
  <2>6. QED
    BY <2>5 DEF D
<1>8. ASSUME NEW t \in Names
      PROVE  quotas'[t] = 1 \/ Deficit(size, quotas', t) > -100
  <2>0. size * Ratio(t) \in Int
    BY <1>3, Ratios DEF Names
  <2>1. CASE t = s
    <3>1. Deficit(size, quotas', t) = Deficit(size, quotas, s) - 100
      BY <2>0, <2>1, <1>3, <1>4, <1>5 DEF Deficit
    <3>2. Deficit(size, quotas, s) \in Int
      BY <2>0, <2>1, <1>3, <1>4 DEF Deficit
    <3>3. QED
      BY <3>1, <3>2, <1>7
  <2>2. CASE t # s
    <3>1. quotas'[t] = quotas[t]
      BY <2>2, <1>5
    <3>2. Deficit(size, quotas', t) = Deficit(size, quotas, t)
      BY <3>1 DEF Deficit
    <3>3. QED
      BY <3>1, <3>2 DEF SplitsInv
  <2>3. QED
    BY <2>1, <2>2
<1>9. size >= 3 => Placed(quotas') <= size
  BY <1>2, <1>3, <1>6
<1>10. QED
  BY <1>2, <1>3, <1>5, <1>8, <1>9 DEF SplitsInv

(* The quotas hand out the places below the number of families, each to a  *)
(* split that is below its share.                                          *)
THEOREM SplitsInvariant == SplitsSpec => []SplitsInv
<1>1. SplitsInit => SplitsInv
  <2> SUFFICES ASSUME SplitsInit PROVE SplitsInv
    OBVIOUS
  <2>1. size \in Nat /\ splits = <<>> /\ quotas = One
    BY SplitsAssumption DEF SplitsInit
  <2>2. \A s \in Names : quotas[s] = 1
    BY <2>1 DEF One
  <2>3. Placed(quotas) = 3
    BY <2>2 DEF Placed, Names
  <2>4. quotas \in [Names -> Nat \ {0}]
    BY <2>1 DEF One
  <2>5. QED
    BY <2>1, <2>2, <2>3, <2>4 DEF SplitsInv
<1>2. SplitsInv /\ [SplitsNext]_splitVars => SplitsInv'
  <2> SUFFICES ASSUME SplitsInv, [SplitsNext]_splitVars PROVE SplitsInv'
    OBVIOUS
  <2>1. CASE AddPlace
    BY <2>1, AddPlaceKeepsInv
  <2>2. CASE Assign
    BY <2>2 DEF SplitsInv, Assign
  <2>3. CASE UNCHANGED splitVars
    BY <2>3 DEF SplitsInv, splitVars
  <2>4. QED
    BY <2>1, <2>2, <2>3 DEF SplitsNext
<1>3. QED
  BY <1>1, <1>2, PTL DEF SplitsSpec

(* What the slices are once three or more families are assigned. *)
LEMMA Slices ==
  ASSUME SplitsInv, splits # <<>>, size >= 3
  PROVE  /\ Placed(quotas) = size
         /\ In("train") = 1 .. quotas["train"]
         /\ In("dev") = quotas["train"] + 1 .. quotas["train"] + quotas["dev"]
         /\ In("test") = quotas["train"] + quotas["dev"] + 1 .. size
<1>1. /\ size \in Nat /\ Placed(quotas) = size
      /\ splits = [i \in 1 .. size |-> SplitOf(size, quotas, i)]
      /\ quotas["train"] \in Nat \ {0} /\ quotas["dev"] \in Nat \ {0}
      /\ quotas["test"] \in Nat \ {0}
  BY DEF SplitsInv, Placed, Names
<1>2. size = quotas["train"] + quotas["dev"] + quotas["test"]
  BY <1>1 DEF Placed
<1>3. DOMAIN splits = 1 .. size
  BY <1>1
<1>4. \A i \in 1 .. size :
        /\ splits[i] = "train" <=> i <= quotas["train"]
        /\ splits[i] = "dev" <=> quotas["train"] < i /\ i <= quotas["train"] + quotas["dev"]
        /\ splits[i] = "test" <=> quotas["train"] + quotas["dev"] < i
  BY <1>1 DEF SplitOf
<1>5. QED
  BY <1>1, <1>2, <1>3, <1>4 DEF In

(* Each split ends up within its share but for less than two families below *)
(* and one above it.                                                        *)
THEOREM SplitsKeepShares == SplitsSpec => []SharesKept
<1>1. SplitsInv => SharesKept
  <2> SUFFICES ASSUME SplitsInv, splits # <<>>, size >= 3, NEW s \in Names
               PROVE  /\ Cardinality(In(s)) = quotas[s]
                      /\ quotas[s] = 1 \/ Deficit(size, quotas, s) > -100
                      /\ Deficit(size, quotas, s) < 200
    BY DEF SplitsInv, SharesKept
  <2>1. /\ size \in Nat /\ quotas \in [Names -> Nat \ {0}]
        /\ quotas["train"] \in Nat \ {0} /\ quotas["dev"] \in Nat \ {0}
        /\ quotas["test"] \in Nat \ {0}
        /\ size = quotas["train"] + quotas["dev"] + quotas["test"]
    BY Slices DEF SplitsInv, Names, Placed
  <2>2. Cardinality(In(s)) = quotas[s]
    <3>1. CASE s = "train"
      <4>1. In(s) = 1 .. quotas["train"] /\ 1 \in Int /\ quotas["train"] \in Int
        BY <3>1, <2>1, Slices
      <4>2. QED
        BY <3>1, <4>1, <2>1, FS_Interval
    <3>2. CASE s = "dev"
      <4> DEFINE a == quotas["train"] + 1   b == quotas["train"] + quotas["dev"]
      <4>1. In(s) = a .. b /\ a \in Int /\ b \in Int
        BY <3>2, <2>1, Slices
      <4>2. b - a + 1 = quotas["dev"] /\ a <= b
        BY <2>1
      <4> HIDE DEF a, b
      <4>3. QED
        BY <3>2, <4>1, <4>2, FS_Interval
    <3>3. CASE s = "test"
      <4> DEFINE a == quotas["train"] + quotas["dev"] + 1
      <4>1. In(s) = a .. size /\ a \in Int /\ size \in Int
        BY <3>3, <2>1, Slices
      <4>2. size - a + 1 = quotas["test"] /\ a <= size
        BY <2>1
      <4> HIDE DEF a
      <4>3. Cardinality(a .. size) = size - a + 1
        BY <4>1, <4>2, FS_Interval
      <4>4. QED
        BY <3>3, <4>1, <4>2, <4>3
    <3>4. QED
      BY <3>1, <3>2, <3>3 DEF Names
  <2>3. Deficit(size, quotas, s) < 200
    <3> DEFINE D(t) == Deficit(size, quotas, t)
    <3>1. D("train") + D("dev") + D("test") = 100 * (size - Placed(quotas))
          /\ \A t \in Names : D(t) \in Int /\ D(t) >= -100 * quotas[t]
      BY <2>1, DeficitsAddUp
    <3>2. 100 * (size - Placed(quotas)) = 0
      BY <2>1, Slices
    <3>3. D("train") >= size - 100 * quotas["train"] /\ D("test") >= size - 100 * quotas["test"]
      BY <2>1, DeficitsAddUp
    <3>4. D("train") \in Int /\ D("dev") \in Int /\ D("test") \in Int
      BY <3>1 DEF Names
    <3>5. \A t \in Names : quotas[t] = 1 \/ D(t) > -100
      BY DEF SplitsInv
    <3>6. D("dev") >= -100 * quotas["dev"]
      BY <3>1 DEF Names
    <3> HIDE DEF D
    <3>7. D("train") > -100 /\ D("dev") >= -100 /\ D("test") > -100
      <4>1. quotas["train"] = 1 => D("train") > -100
        BY <3>3, <3>4, <2>1
      <4>2. quotas["test"] = 1 => D("test") > -100
        BY <3>3, <3>4, <2>1
      <4>3. quotas["dev"] = 1 => D("dev") >= -100
        BY <3>6
      <4>4. QED
        BY <3>4, <3>5, <4>1, <4>2, <4>3 DEF Names
    <3>8. D("train") < 200 /\ D("dev") < 200 /\ D("test") < 200
      BY <3>1, <3>2, <3>4, <3>7
    <3>9. QED
      BY <3>8 DEF D, Names
  <2>4. QED
    BY <2>2, <2>3 DEF SplitsInv
<1>2. QED
  BY <1>1, SplitsInvariant, PTL

(* Every category of three families or more is in every split. *)
THEOREM SplitsServeAll == SplitsSpec => []EverySplitServed
<1>1. SplitsInv => EverySplitServed
  <2> SUFFICES ASSUME SplitsInv, splits # <<>>
               PROVE  /\ In("train") # {}
                      /\ size >= 2 => In("test") # {}
                      /\ size >= 3 => In("dev") # {}
    BY DEF EverySplitServed
  <2>1. /\ size \in Nat \ {0} /\ DOMAIN splits = 1 .. size
        /\ splits = [i \in 1 .. size |-> SplitOf(size, quotas, i)]
    BY DEF SplitsInv
  <2>2. CASE size < 3
    <3>1. 1 \in 1 .. size /\ splits[1] = "train"
      BY <2>1, <2>2 DEF SplitOf
    <3>2. size = 2 => 2 \in 1 .. size /\ splits[2] = "test"
      BY <2>1 DEF SplitOf
    <3>3. QED
      BY <2>1, <2>2, <3>1, <3>2 DEF In
  <2>3. CASE size >= 3
    <3>1. /\ quotas["train"] \in Nat \ {0} /\ quotas["dev"] \in Nat \ {0}
          /\ quotas["test"] \in Nat \ {0}
          /\ size = quotas["train"] + quotas["dev"] + quotas["test"]
      BY <2>3, Slices DEF SplitsInv, Names, Placed
    <3>2. /\ 1 \in In("train") /\ quotas["train"] + 1 \in In("dev")
          /\ size \in In("test")
      BY <2>3, <3>1, Slices
    <3>3. QED
      BY <3>2
  <2>4. QED
    BY <2>1, <2>2, <2>3
<1>2. QED
  BY <1>1, SplitsInvariant, PTL

-----------------------------------------------------------------------------
(* Spans *)

(* The spans left to fold are sorted by start and start no earlier than the *)
(* merged ones, so a span can only reach back to the last of these.         *)
SpansOrdered ==
  /\ todo \in Seq(Span) /\ merged \in Seq(Span) /\ seen \in Seq(Span)
  /\ \A i, j \in 1 .. Len(todo) : i < j => todo[i].start <= todo[j].start
  /\ \A m \in 1 .. Len(merged), i \in 1 .. Len(todo) :
       merged[m].start <= todo[i].start

SpansInv ==
  /\ SpansOrdered
  /\ MergedCoversSpans
  /\ ApartUnlessInterleaved

LEMMA SpanFields ==
  ASSUME NEW s \in Span
  PROVE  /\ s.start \in Nat /\ s.end \in Nat /\ s.conf \in Nat /\ s.label \in Labels
         /\ s.start < s.end
BY DEF Span

(* The union of two spans of which the second starts no earlier. *)
LEMMA UnionFields ==
  ASSUME NEW a \in Span, NEW b \in Span, a.label = b.label, a.start <= b.start
  PROVE  /\ Union(a, b) \in Span
         /\ Union(a, b).label = a.label /\ Union(a, b).start = a.start
         /\ Union(a, b).end \in {a.end, b.end}
         /\ Within(a, Union(a, b)) /\ a.conf <= Union(a, b).conf
         /\ Within(b, Union(a, b)) /\ b.conf <= Union(a, b).conf
<1> USE SpanFields
<1>1. /\ Union(a, b).label = a.label /\ Union(a, b).start = a.start
      /\ Union(a, b).end = Greatest(a.end, b.end)
      /\ Union(a, b).conf = Greatest(a.conf, b.conf)
      /\ Union(a, b) = [label |-> a.label, start |-> a.start,
                        end |-> Greatest(a.end, b.end),
                        conf |-> Greatest(a.conf, b.conf)]
  BY DEF Union, Least
<1>2. Greatest(a.end, b.end) \in Nat /\ Greatest(a.conf, b.conf) \in Nat
      /\ a.end <= Greatest(a.end, b.end) /\ b.end <= Greatest(a.end, b.end)
      /\ a.conf <= Greatest(a.conf, b.conf) /\ b.conf <= Greatest(a.conf, b.conf)
      /\ Greatest(a.end, b.end) \in {a.end, b.end}
  BY DEF Greatest
<1>3. Union(a, b) \in Span
  BY <1>1, <1>2 DEF Span
<1>4. QED
  BY <1>1, <1>2, <1>3 DEF Within

(* A span of the same label that is not joined starts after a gap. *)
LEMMA NotJoined ==
  ASSUME NEW a \in Span, NEW b \in Span, a.label = b.label, a.start <= b.start,
         ~Joins(a, b)
  PROVE  a.end + 1 < b.start
BY SpanFields DEF Joins, Overlap, Greatest, Least

(* One step of the fold: what it takes, and how the two results grow. *)
LEMMA FoldStep ==
  ASSUME SpansInv, Fold
  PROVE  \E s \in Span :
           /\ s = todo[1] /\ 1 \in 1 .. Len(todo)
           /\ todo' = Tail(todo) /\ seen' = Append(seen, s)
           /\ \/ /\ Len(merged) > 0 /\ Joins(merged[Len(merged)], s)
                 /\ merged' = [merged EXCEPT ![Len(merged)] = Union(merged[Len(merged)], s)]
              \/ /\ Len(merged) > 0 => ~Joins(merged[Len(merged)], s)
                 /\ merged' = Append(merged, s)
<1>1. /\ todo \in Seq(Span) /\ merged \in Seq(Span) /\ todo # <<>>
  BY DEF SpansInv, SpansOrdered, Fold
<1>2. Head(todo) = todo[1] /\ todo[1] \in Span /\ 1 \in 1 .. Len(todo)
  BY <1>1
<1>3. merged # <<>> <=> Len(merged) > 0
  BY <1>1
<1>4. QED
  BY <1>2, <1>3 DEF Fold

(* Both ways the list of merged spans grows, seen alike: its last span is    *)
(* new or larger, the others stay.                                           *)
LEMMA FoldGrows ==
  ASSUME SpansInv, Fold
  PROVE  /\ SpansOrdered'
         /\ seen' = Append(seen, todo[1]) /\ todo[1] \in Span
         /\ \/ /\ Len(merged) > 0 /\ Len(merged') = Len(merged)
               /\ Joins(merged[Len(merged)], todo[1])
               /\ merged'[Len(merged)] = Union(merged[Len(merged)], todo[1])
               /\ \A m \in 1 .. Len(merged) - 1 : merged'[m] = merged[m]
            \/ /\ Len(merged') = Len(merged) + 1
               /\ Len(merged) > 0 => ~Joins(merged[Len(merged)], todo[1])
               /\ merged'[Len(merged) + 1] = todo[1]
               /\ \A m \in 1 .. Len(merged) : merged'[m] = merged[m]
<1>1. PICK s \in Span :
           /\ s = todo[1] /\ 1 \in 1 .. Len(todo)
           /\ todo' = Tail(todo) /\ seen' = Append(seen, s)
           /\ \/ /\ Len(merged) > 0 /\ Joins(merged[Len(merged)], s)
                 /\ merged' = [merged EXCEPT ![Len(merged)] = Union(merged[Len(merged)], s)]
              \/ /\ Len(merged) > 0 => ~Joins(merged[Len(merged)], s)
                 /\ merged' = Append(merged, s)
  BY FoldStep
<1>2. todo \in Seq(Span) /\ merged \in Seq(Span) /\ seen \in Seq(Span)
  BY DEF SpansInv, SpansOrdered
<1>3. \A m \in 1 .. Len(merged) : merged[m] \in Span /\ merged[m].start <= s.start
  BY <1>1, <1>2 DEF SpansInv, SpansOrdered
<1>4. /\ todo' \in Seq(Span) /\ seen' \in Seq(Span)
      /\ Len(todo') = Len(todo) - 1
      /\ \A i \in 1 .. Len(todo') : todo'[i] = todo[i + 1] /\ i + 1 \in 1 .. Len(todo)
      /\ Len(todo) \in Nat
  BY <1>1, <1>2
<1>5. ASSUME NEW i \in 1 .. Len(todo'), NEW j \in 1 .. Len(todo'), i < j
      PROVE  todo'[i].start <= todo'[j].start
  <2>1. /\ i + 1 \in 1 .. Len(todo) /\ j + 1 \in 1 .. Len(todo) /\ i + 1 < j + 1
        /\ todo'[i] = todo[i + 1] /\ todo'[j] = todo[j + 1]
    BY <1>4, <1>5
  <2>2. todo[i + 1].start <= todo[j + 1].start
    BY <2>1 DEF SpansInv, SpansOrdered
  <2>3. QED
    BY <2>1, <2>2
<1>6. \A i \in 1 .. Len(todo') : s.start <= todo'[i].start
  BY <1>1, <1>4 DEF SpansInv, SpansOrdered
<1>7. \A m \in 1 .. Len(merged), i \in 1 .. Len(todo') : merged[m].start <= todo'[i].start
  BY <1>4 DEF SpansInv, SpansOrdered
<1>8. CASE /\ Len(merged) > 0 /\ Joins(merged[Len(merged)], s)
           /\ merged' = [merged EXCEPT ![Len(merged)] = Union(merged[Len(merged)], s)]
  <2> DEFINE l == Len(merged)   u == Union(merged[l], s)
  <2>1. l \in 1 .. l /\ merged[l] \in Span /\ merged[l].label = s.label
    BY <1>2, <1>8 DEF Joins
  <2>2. u \in Span /\ u.start = merged[l].start
    BY <1>3, <2>1, UnionFields
  <2> HIDE DEF u
  <2>3. /\ merged' \in Seq(Span) /\ Len(merged') = Len(merged) /\ merged'[l] = u
        /\ \A m \in 1 .. l - 1 : merged'[m] = merged[m]
    BY <1>2, <1>8, <2>1, <2>2 DEF u
  <2>4. \A m \in 1 .. Len(merged'), i \in 1 .. Len(todo') :
          merged'[m].start <= todo'[i].start
    BY <1>7, <2>1, <2>2, <2>3
  <2>5. SpansOrdered'
    BY <1>4, <1>5, <2>3, <2>4 DEF SpansOrdered
  <2>6. QED
    BY <1>1, <1>8, <2>3, <2>5 DEF u
<1>9. CASE /\ Len(merged) > 0 => ~Joins(merged[Len(merged)], s)
           /\ merged' = Append(merged, s)
  <2>1. /\ merged' \in Seq(Span) /\ Len(merged') = Len(merged) + 1
        /\ merged'[Len(merged) + 1] = s /\ Len(merged) \in Nat
        /\ \A m \in 1 .. Len(merged) : merged'[m] = merged[m]
    BY <1>2, <1>9
  <2>2. \A m \in 1 .. Len(merged'), i \in 1 .. Len(todo') :
          merged'[m].start <= todo'[i].start
    BY <1>6, <1>7, <2>1
  <2>3. SpansOrdered'
    BY <1>4, <1>5, <2>1, <2>2 DEF SpansOrdered
  <2>4. QED
    BY <1>1, <1>9, <2>1, <2>3
<1>10. QED
  BY <1>1, <1>8, <1>9

LEMMA WithinTransitive ==
  ASSUME NEW a \in Span, NEW b \in Span, NEW c \in Span, Within(a, b), Within(b, c)
  PROVE  Within(a, c)
BY SpanFields DEF Within

LEMMA FoldCovers ==
  ASSUME SpansInv, Fold
  PROVE  MergedCoversSpans'
<1> DEFINE s == todo[1]   l == Len(merged)
<1>1. /\ s \in Span /\ seen' = Append(seen, s)
      /\ seen \in Seq(Span) /\ merged \in Seq(Span)
      /\ seen' \in Seq(Span) /\ merged' \in Seq(Span)
      /\ todo \in Seq(Span) /\ 1 \in 1 .. Len(todo)
  BY FoldGrows, FoldStep DEF SpansInv, SpansOrdered
<1>2. /\ Len(seen') = Len(seen) + 1 /\ seen'[Len(seen) + 1] = s
      /\ \A i \in 1 .. Len(seen) : seen'[i] = seen[i]
      /\ Len(seen) \in Nat /\ l \in Nat
  BY <1>1
<1>3. \A i \in 1 .. Len(seen) : \E m \in 1 .. l :
        Within(seen[i], merged[m]) /\ seen[i].conf <= merged[m].conf
  BY DEF SpansInv, MergedCoversSpans
<1>4. \A m \in 1 .. l : \E i, j \in 1 .. Len(seen) :
        /\ seen[i].label = merged[m].label /\ seen[i].start = merged[m].start
        /\ seen[j].label = merged[m].label /\ seen[j].end = merged[m].end
  BY DEF SpansInv, MergedCoversSpans
<1>5. \A m \in 1 .. l : merged[m] \in Span /\ merged[m].start <= s.start
  BY <1>1 DEF SpansInv, SpansOrdered
<1>6. /\ \A i \in 1 .. Len(seen) : seen[i] \in Span
      /\ \A m \in 1 .. Len(merged') : merged'[m] \in Span
  BY <1>1
<1>7. CASE /\ l > 0 /\ Len(merged') = l
           /\ Joins(merged[l], s) /\ merged'[l] = Union(merged[l], s)
           /\ \A m \in 1 .. l - 1 : merged'[m] = merged[m]
  <2> DEFINE u == Union(merged[l], s)
  <2>1. l \in 1 .. l /\ merged[l].label = s.label
    BY <1>2, <1>7 DEF Joins
  <2>2. /\ u \in Span /\ u.label = s.label /\ u.start = merged[l].start
        /\ u.end \in {merged[l].end, s.end}
        /\ Within(merged[l], u) /\ merged[l].conf <= u.conf
        /\ Within(s, u) /\ s.conf <= u.conf
    BY <1>1, <1>5, <2>1, UnionFields
  <2>3. merged'[l] = u
    BY <1>7
  <2> HIDE DEF u, s
  <2>4. ASSUME NEW i \in 1 .. Len(seen')
        PROVE  \E m \in 1 .. Len(merged') :
                 Within(seen'[i], merged'[m]) /\ seen'[i].conf <= merged'[m].conf
    <3>1. CASE i = Len(seen) + 1
      BY <3>1, <1>2, <1>7, <2>1, <2>2, <2>3
    <3>2. CASE i \in 1 .. Len(seen)
      <4>1. PICK m \in 1 .. l : Within(seen[i], merged[m]) /\ seen[i].conf <= merged[m].conf
        BY <3>2, <1>3
      <4>2. CASE m = l
        <5>1. Within(seen[i], u)
          BY <3>2, <4>1, <4>2, <1>5, <1>6, <2>2, WithinTransitive
        <5>2. seen[i].conf <= u.conf
          BY <3>2, <4>1, <4>2, <1>5, <1>6, <2>2, SpanFields
        <5>3. QED
          BY <3>2, <5>1, <5>2, <1>2, <1>7, <2>1, <2>3
      <4>3. CASE m # l
        BY <3>2, <4>1, <4>3, <1>2, <1>7
      <4>4. QED
        BY <4>2, <4>3
    <3>3. QED
      BY <3>1, <3>2, <1>2
  <2>5. ASSUME NEW m \in 1 .. Len(merged')
        PROVE  \E i, j \in 1 .. Len(seen') :
                 /\ seen'[i].label = merged'[m].label /\ seen'[i].start = merged'[m].start
                 /\ seen'[j].label = merged'[m].label /\ seen'[j].end = merged'[m].end
    <3>1. PICK i \in 1 .. Len(seen), j \in 1 .. Len(seen) :
            /\ seen[i].label = merged[m].label /\ seen[i].start = merged[m].start
            /\ seen[j].label = merged[m].label /\ seen[j].end = merged[m].end
      BY <1>4, <1>7
    <3>2. i \in 1 .. Len(seen') /\ j \in 1 .. Len(seen') /\ Len(seen') \in 1 .. Len(seen')
          /\ seen'[i] = seen[i] /\ seen'[j] = seen[j] /\ seen'[Len(seen')] = s
      BY <1>2
    <3>3. CASE m = l
      BY <3>1, <3>2, <3>3, <2>1, <2>2, <2>3
    <3>4. CASE m # l
      BY <3>1, <3>2, <3>4, <1>2, <1>7
    <3>5. QED
      BY <3>3, <3>4
  <2>6. QED
    BY <2>4, <2>5 DEF MergedCoversSpans
<1>8. CASE /\ Len(merged') = l + 1 /\ merged'[l + 1] = s
           /\ \A m \in 1 .. l : merged'[m] = merged[m]
  <2>1. Within(s, s) /\ s.conf <= s.conf
    BY <1>1, SpanFields DEF Within
  <2> HIDE DEF s
  <2>2. ASSUME NEW i \in 1 .. Len(seen')
        PROVE  \E m \in 1 .. Len(merged') :
                 Within(seen'[i], merged'[m]) /\ seen'[i].conf <= merged'[m].conf
    <3>1. CASE i = Len(seen) + 1
      <4>1. l + 1 \in 1 .. Len(merged')
        BY <1>2, <1>8
      <4>2. QED
        BY <3>1, <4>1, <1>2, <1>8, <2>1
    <3>2. CASE i \in 1 .. Len(seen)
      <4>1. PICK m \in 1 .. l : Within(seen[i], merged[m]) /\ seen[i].conf <= merged[m].conf
        BY <3>2, <1>3
      <4>2. m \in 1 .. Len(merged') /\ merged'[m] = merged[m]
        BY <1>2, <1>8
      <4>3. QED
        BY <3>2, <4>1, <4>2, <1>2
    <3>3. QED
      BY <3>1, <3>2, <1>2
  <2>3. ASSUME NEW m \in 1 .. Len(merged')
        PROVE  \E i, j \in 1 .. Len(seen') :
                 /\ seen'[i].label = merged'[m].label /\ seen'[i].start = merged'[m].start
                 /\ seen'[j].label = merged'[m].label /\ seen'[j].end = merged'[m].end
    <3>1. CASE m = l + 1
      <4>1. Len(seen) + 1 \in 1 .. Len(seen')
        BY <1>2
      <4>2. QED
        BY <3>1, <4>1, <1>2, <1>8
    <3>2. CASE m \in 1 .. l
      <4>1. PICK i \in 1 .. Len(seen), j \in 1 .. Len(seen) :
              /\ seen[i].label = merged[m].label /\ seen[i].start = merged[m].start
              /\ seen[j].label = merged[m].label /\ seen[j].end = merged[m].end
        BY <3>2, <1>4
      <4>2. i \in 1 .. Len(seen') /\ j \in 1 .. Len(seen')
            /\ seen'[i] = seen[i] /\ seen'[j] = seen[j] /\ merged'[m] = merged[m]
        BY <3>2, <1>2, <1>8
      <4>3. QED
        BY <4>1, <4>2
    <3>3. QED
      BY <3>1, <3>2, <1>2, <1>8
  <2>4. QED
    BY <2>2, <2>3 DEF MergedCoversSpans
<1>9. QED
  BY <1>7, <1>8, FoldGrows

(* ApartUnlessInterleaved of the spans up to m and n, n the new or larger.  *)
LEMMA FoldKeepsApart ==
  ASSUME SpansInv, Fold
  PROVE  ApartUnlessInterleaved'
<1> DEFINE s == todo[1]   l == Len(merged)
<1>1. /\ s \in Span /\ merged \in Seq(Span) /\ merged' \in Seq(Span) /\ l \in Nat
      /\ todo \in Seq(Span) /\ 1 \in 1 .. Len(todo)
  BY FoldGrows, FoldStep DEF SpansInv, SpansOrdered
<1>2. \A m \in 1 .. l : merged[m] \in Span /\ merged[m].start <= s.start
  BY <1>1 DEF SpansInv, SpansOrdered
<1>3. \A m, n \in 1 .. l :
        (/\ m < n /\ merged[m].label = merged[n].label
         /\ merged[n].start <= merged[m].end + 1)
        => \E k \in m + 1 .. n - 1 : merged[k].label # merged[m].label
  BY DEF SpansInv, ApartUnlessInterleaved
<1> HIDE DEF s
<1>4. CASE /\ l > 0 /\ Len(merged') = l
           /\ Joins(merged[l], s) /\ merged'[l] = Union(merged[l], s)
           /\ \A m \in 1 .. l - 1 : merged'[m] = merged[m]
  <2>1. merged'[l].label = merged[l].label /\ merged'[l].start = merged[l].start
    BY <1>1, <1>2, <1>4, UnionFields DEF Joins
  <2>2. /\ \A m \in 1 .. l : /\ merged'[m].label = merged[m].label
                             /\ merged'[m].start = merged[m].start
        /\ \A m \in 1 .. l - 1 : merged'[m].end = merged[m].end
    BY <1>1, <1>4, <2>1
  <2> SUFFICES ASSUME NEW m \in 1 .. l, NEW n \in 1 .. l, m < n,
                      merged'[m].label = merged'[n].label,
                      merged'[n].start <= merged'[m].end + 1
               PROVE  \E k \in m + 1 .. n - 1 : merged'[k].label # merged'[m].label
    BY <1>4 DEF ApartUnlessInterleaved
  <2>3. PICK k \in m + 1 .. n - 1 : merged[k].label # merged[m].label
    BY <1>1, <1>3, <2>2
  <2>4. QED
    BY <1>1, <2>2, <2>3
<1>5. CASE /\ Len(merged') = l + 1 /\ merged'[l + 1] = s
           /\ l > 0 => ~Joins(merged[l], s)
           /\ \A m \in 1 .. l : merged'[m] = merged[m]
  <2> SUFFICES ASSUME NEW m \in 1 .. l + 1, NEW n \in 1 .. l + 1, m < n,
                      merged'[m].label = merged'[n].label,
                      merged'[n].start <= merged'[m].end + 1,
                      \A k \in m + 1 .. n - 1 : merged'[k].label = merged'[m].label
               PROVE  FALSE
    BY <1>5 DEF ApartUnlessInterleaved
  <2>1. m \in 1 .. l
    BY <1>1
  <2>2. CASE n \in 1 .. l
    <3>1. \A k \in m + 1 .. n - 1 : merged[k].label = merged[m].label
      BY <1>1, <1>5, <2>1, <2>2
    <3>2. QED
      BY <3>1, <1>3, <1>5, <2>1, <2>2
  <2>3. CASE n = l + 1
    <3>1. merged[l] \in Span /\ merged[l].start <= s.start /\ l \in 1 .. l /\ l > 0
      BY <1>1, <1>2, <2>1
    <3>2. merged[l].label = merged[m].label /\ merged[m].label = s.label
      BY <1>1, <1>5, <2>1, <2>3, <3>1
    <3>3. merged[l].end + 1 < s.start
      BY <1>1, <1>5, <3>1, <3>2, NotJoined
    <3>4. s.start <= merged[m].end + 1
      BY <1>5, <2>1, <2>3
    <3>5. m < l
      BY <1>1, <2>1, <3>1, <3>3, <3>4, SpanFields
    <3>6. \A k \in m + 1 .. l - 1 : merged[k].label = merged[m].label
      BY <1>1, <1>5, <2>1, <2>3
    <3>7. ~(merged[l].start <= merged[m].end + 1)
      BY <1>3, <2>1, <3>1, <3>2, <3>5, <3>6
    <3>8. merged[m] \in Span
      BY <1>2, <2>1
    <3>9. QED
      BY <3>1, <3>3, <3>4, <3>7, <3>8, <1>1, SpanFields
  <2>4. QED
    BY <1>1, <2>2, <2>3
<1>6. QED
  BY <1>4, <1>5, FoldGrows DEF s

(* The fold keeps the sorted spans, their cover and their distance.          *)
THEOREM SpansInvariant == SpansSpec => []SpansInv
<1>1. SpansInit => SpansInv
  <2> SUFFICES ASSUME SpansInit PROVE SpansInv
    OBVIOUS
  <2>1. todo \in Seq(Span) /\ Sorted(todo) /\ merged = <<>> /\ seen = <<>>
    BY SpansAssumption DEF SpansInit
  <2>2. \A i \in 1 .. Len(todo) : todo[i].start \in Nat
    BY <2>1, SpanFields
  <2>3. \A i, j \in 1 .. Len(todo) : i < j => todo[i].start <= todo[j].start
    BY <2>1, <2>2 DEF Sorted, Before
  <2>4. Len(merged) = 0 /\ Len(seen) = 0 /\ merged \in Seq(Span) /\ seen \in Seq(Span)
    BY <2>1
  <2>5. QED
    BY <2>1, <2>3, <2>4
    DEF SpansInv, SpansOrdered, MergedCoversSpans, ApartUnlessInterleaved
<1>2. SpansInv /\ [Fold]_spanVars => SpansInv'
  <2>1. ASSUME SpansInv, UNCHANGED spanVars PROVE SpansInv'
    BY <2>1 DEF spanVars, SpansInv, SpansOrdered, MergedCoversSpans,
                ApartUnlessInterleaved
  <2>2. ASSUME SpansInv, Fold PROVE SpansInv'
    BY <2>2, FoldGrows, FoldCovers, FoldKeepsApart DEF SpansInv
  <2>3. QED
    BY <2>1, <2>2
<1>3. QED
  BY <1>1, <1>2, PTL DEF SpansSpec

(* No evidence is lost by merging spans, and none is made up. *)
THEOREM MergingIsFaithful == SpansSpec => []MergedIsFaithful
<1>1. SpansInv => MergedIsFaithful
  BY DEF SpansInv, MergedIsFaithful
<1>2. QED
  BY <1>1, SpansInvariant, PTL

-----------------------------------------------------------------------------
(* Audit *)

TextsApart(a, b) ==
  /\ a.text = b.text => a.text \notin Long
  /\ Phrases[a.text] \cap Phrases[b.text] = {}

(* The first n bubbles, their families left aside, tie no two splits. *)
CleanUpTo(n) ==
  \A i \in 1 .. n :
    /\ ~data[i].flawed
    /\ \A j \in 1 .. n :
         data[i].split # data[j].split => TextsApart(data[i], data[j])

(* What is remembered of the first n bubbles. *)
Remembered(n) ==
  /\ \A s \in Parts, f \in Families :
       f \in familiesOf[s] <=>
         \E i \in 1 .. n : data[i].split = s /\ data[i].family = f
  /\ \A s \in Parts, t \in Texts :
       t \in textsOf[s] <=>
         /\ t \in Long
         /\ \E i \in 1 .. n : data[i].split = s /\ data[i].text = t
  /\ \A i \in 1 .. n : Phrases[data[i].text] \subseteq DOMAIN firstSplit
  /\ \A p \in DOMAIN firstSplit :
       \E i \in 1 .. n : p \in Phrases[data[i].text] /\ data[i].split = firstSplit[p]

(* A phrase that several splits have has been found by the second of them,  *)
(* so while nothing is found the first split is the only one.               *)
OneSplitEach(n) ==
  passed => \A i \in 1 .. n : \A p \in Phrases[data[i].text] :
              firstSplit[p] = data[i].split

AuditInv ==
  /\ data \in Seq(Bubble) /\ read \in 0 .. Len(data) + 1 /\ passed \in BOOLEAN
  /\ familiesOf \in [Parts -> SUBSET Families]
  /\ textsOf \in [Parts -> SUBSET Texts]
  /\ read <= Len(data) => /\ Remembered(read) /\ OneSplitEach(read)
                          /\ passed <=> CleanUpTo(read)
  /\ AuditIsExact

LEMMA BubbleFields ==
  ASSUME NEW b \in Bubble
  PROVE  b.family \in Families /\ b.split \in Parts /\ b.text \in Texts
BY DEF Bubble

(* The next bubble is compared with what is remembered of the others.        *)
LEMMA NextBubble ==
  ASSUME AuditInv, read < Len(data)
  PROVE  LET b == data[read + 1] IN
           CleanUpTo(read + 1) <=>
             CleanUpTo(read) /\ ~b.flawed /\ ~Copied(b) /\ ~Leaked(b)
<1> DEFINE b == data[read + 1]
<1> DEFINE BreaksAt(j) == data[j].split # b.split /\ ~TextsApart(b, data[j])
<1>1. /\ read \in Nat /\ b \in Bubble
      /\ \A i \in 1 .. read : data[i] \in Bubble
      /\ Remembered(read) /\ OneSplitEach(read) /\ (passed <=> CleanUpTo(read))
  BY DEF AuditInv
<1>2. b.family \in Families /\ b.split \in Parts /\ b.text \in Texts
  BY <1>1, BubbleFields
<1>3. Copied(b) <=>
        \E j \in 1 .. read : /\ data[j].split # b.split
                             /\ b.text = data[j].text /\ b.text \in Long
  <2>1. ASSUME NEW j \in 1 .. read, data[j].split # b.split,
               b.text = data[j].text, b.text \in Long
        PROVE  Copied(b)
    <3>1. data[j].split \in Parts
      BY <1>1, BubbleFields
    <3>2. b.text \in textsOf[data[j].split]
      BY <1>1, <1>2, <2>1, <3>1 DEF Remembered
    <3>3. QED
      BY <2>1, <3>1, <3>2 DEF Copied
  <2>2. ASSUME Copied(b)
        PROVE  \E j \in 1 .. read : /\ data[j].split # b.split
                                    /\ b.text = data[j].text /\ b.text \in Long
    BY <1>1, <1>2, <2>2 DEF Copied, Remembered
  <2>3. QED
    BY <2>1, <2>2
<1>4. ASSUME CleanUpTo(read)
      PROVE  Leaked(b) <=>
               \E j \in 1 .. read : /\ data[j].split # b.split
                                    /\ Phrases[b.text] \cap Phrases[data[j].text] # {}
  <2>1. \A i \in 1 .. read : \A p \in Phrases[data[i].text] :
          p \in DOMAIN firstSplit /\ firstSplit[p] = data[i].split
    BY <1>1, <1>4 DEF OneSplitEach, Remembered
  <2>2. \A p \in DOMAIN firstSplit :
          \E i \in 1 .. read : p \in Phrases[data[i].text] /\ data[i].split = firstSplit[p]
    BY <1>1 DEF Remembered
  <2>3. QED
    BY <2>1, <2>2 DEF Leaked
<1>5. CleanUpTo(read + 1) <=>
        CleanUpTo(read) /\ ~b.flawed /\ \A j \in 1 .. read : ~BreaksAt(j)
  <2>1. \A i : i \in 1 .. read + 1 <=> i \in 1 .. read \/ i = read + 1
    BY <1>1
  <2>2. \A i, j \in 1 .. read + 1 :
          TextsApart(data[i], data[j]) <=> TextsApart(data[j], data[i])
    BY DEF TextsApart
  <2>3. QED
    BY <2>1, <2>2 DEF CleanUpTo
<1>6. ASSUME CleanUpTo(read)
      PROVE  (\A j \in 1 .. read : ~BreaksAt(j)) <=> ~Copied(b) /\ ~Leaked(b)
  BY <1>3, <1>4, <1>6 DEF TextsApart
<1>7. QED
  BY <1>5, <1>6

LEMMA ReadBubbleKeepsInv ==
  ASSUME AuditInv, ReadBubble
  PROVE  AuditInv'
<1> DEFINE b == data[read + 1]
<1>1. /\ read < Len(data) /\ read' = read + 1 /\ data' = data
      /\ passed' = (passed /\ ~b.flawed /\ ~Copied(b) /\ ~Leaked(b))
      /\ familiesOf' = [familiesOf EXCEPT ![b.split] = @ \cup {b.family}]
      /\ textsOf' = [textsOf EXCEPT ![b.split] = @ \cup ({b.text} \cap Long)]
      /\ firstSplit' = [p \in DOMAIN firstSplit \cup Phrases[b.text] |->
           IF p \in DOMAIN firstSplit THEN firstSplit[p] ELSE b.split]
  BY DEF ReadBubble
<1>2. /\ read \in Nat /\ Len(data) \in Nat /\ data \in Seq(Bubble) /\ b \in Bubble
      /\ familiesOf \in [Parts -> SUBSET Families]
      /\ textsOf \in [Parts -> SUBSET Texts]
      /\ Remembered(read) /\ OneSplitEach(read) /\ (passed <=> CleanUpTo(read))
  BY <1>1 DEF AuditInv
<1>3. b.family \in Families /\ b.split \in Parts /\ b.text \in Texts
  BY <1>2, BubbleFields
<1>4. \A i : i \in 1 .. read + 1 <=> i \in 1 .. read \/ i = read + 1
  BY <1>2
<1>5. /\ familiesOf' \in [Parts -> SUBSET Families]
      /\ textsOf' \in [Parts -> SUBSET Texts]
  BY <1>1, <1>2, <1>3
<1>6. /\ \A s \in Parts, f \in Families :
           f \in familiesOf'[s] <=> f \in familiesOf[s] \/ (s = b.split /\ f = b.family)
      /\ \A s \in Parts, t \in Texts :
           t \in textsOf'[s] <=>
             t \in textsOf[s] \/ (s = b.split /\ t = b.text /\ t \in Long)
  BY <1>1, <1>2, <1>3
<1>7. /\ DOMAIN firstSplit' = DOMAIN firstSplit \cup Phrases[b.text]
      /\ \A p \in DOMAIN firstSplit : firstSplit'[p] = firstSplit[p]
      /\ \A p \in Phrases[b.text] \ DOMAIN firstSplit : firstSplit'[p] = b.split
  BY <1>1
<1>8. Remembered(read)'
  <2>1. \A s \in Parts, f \in Families :
          f \in familiesOf'[s] <=>
            \E i \in 1 .. read + 1 : data[i].split = s /\ data[i].family = f
    BY <1>2, <1>4, <1>6 DEF Remembered
  <2>2. \A s \in Parts, t \in Texts :
          t \in textsOf'[s] <=>
            /\ t \in Long
            /\ \E i \in 1 .. read + 1 : data[i].split = s /\ data[i].text = t
    BY <1>2, <1>4, <1>6 DEF Remembered
  <2>3. \A i \in 1 .. read + 1 : Phrases[data[i].text] \subseteq DOMAIN firstSplit'
    BY <1>2, <1>4, <1>7 DEF Remembered
  <2>4. \A p \in DOMAIN firstSplit' :
          \E i \in 1 .. read + 1 :
            p \in Phrases[data[i].text] /\ data[i].split = firstSplit'[p]
    BY <1>2, <1>4, <1>7 DEF Remembered
  <2>5. read' = read + 1 /\ data' = data
    BY <1>1
  <2>6. QED
    BY <2>1, <2>2, <2>3, <2>4, <2>5 DEF Remembered
<1>9. OneSplitEach(read)'
  <2> SUFFICES ASSUME passed', NEW i \in 1 .. read + 1, NEW p \in Phrases[data[i].text]
               PROVE  firstSplit'[p] = data[i].split
    BY <1>1 DEF OneSplitEach
  <2>1. passed /\ ~Leaked(b)
    BY <1>1
  <2>2. CASE i \in 1 .. read
    BY <1>2, <1>7, <2>1, <2>2 DEF OneSplitEach, Remembered
  <2>3. CASE i = read + 1
    BY <1>7, <2>1, <2>3 DEF Leaked
  <2>4. QED
    BY <1>4, <2>2, <2>3
<1>10. passed' <=> CleanUpTo(read + 1)
  BY <1>1, <1>2, NextBubble
<1>11. (passed <=> CleanUpTo(read))'
  BY <1>1, <1>10 DEF CleanUpTo
<1>12. AuditIsExact' /\ passed' \in BOOLEAN
  BY <1>1, <1>2 DEF AuditIsExact
<1>13. read' \in 0 .. Len(data') + 1 /\ data' \in Seq(Bubble)
  BY <1>1, <1>2
<1>14. Remembered(read)' /\ OneSplitEach(read)'
  BY <1>8, <1>9
<1>15. QED
  BY <1>5, <1>11, <1>12, <1>13, <1>14 DEF AuditInv

LEMMA ConcludeIsExact ==
  ASSUME AuditInv, Conclude
  PROVE  AuditInv'
<1>1. /\ read = Len(data) /\ read' = read + 1 /\ passed' = (passed /\ ~Overlapping)
      /\ data' = data /\ familiesOf' = familiesOf /\ textsOf' = textsOf
  BY DEF Conclude
<1>2. /\ Len(data) \in Nat /\ data \in Seq(Bubble)
      /\ Remembered(Len(data)) /\ (passed <=> CleanUpTo(Len(data)))
      /\ familiesOf \in [Parts -> SUBSET Families]
      /\ textsOf \in [Parts -> SUBSET Texts]
  BY <1>1 DEF AuditInv
<1>3. \A i \in 1 .. Len(data) : data[i].family \in Families /\ data[i].split \in Parts
  BY <1>2, BubbleFields
<1>4. Overlapping <=>
        \E i, j \in 1 .. Len(data) : /\ data[i].split # data[j].split
                                     /\ data[i].family = data[j].family
  <2>1. ASSUME NEW i \in 1 .. Len(data), NEW j \in 1 .. Len(data),
               data[i].split # data[j].split, data[i].family = data[j].family
        PROVE  Overlapping
    <3>1. /\ data[i].family \in familiesOf[data[i].split]
          /\ data[i].family \in familiesOf[data[j].split]
      BY <1>2, <1>3, <2>1 DEF Remembered
    <3>2. QED
      BY <1>3, <2>1, <3>1 DEF Overlapping
  <2>2. ASSUME Overlapping
        PROVE  \E i, j \in 1 .. Len(data) : /\ data[i].split # data[j].split
                                            /\ data[i].family = data[j].family
    <3>1. PICK s \in Parts, t \in Parts : s # t /\ familiesOf[s] \cap familiesOf[t] # {}
      BY <2>2 DEF Overlapping
    <3>2. PICK f \in Families : f \in familiesOf[s] /\ f \in familiesOf[t]
      BY <1>2, <3>1
    <3>3. QED
      BY <1>2, <3>1, <3>2 DEF Remembered
  <2>3. QED
    BY <2>1, <2>2
<1>5. Separate <=>
        CleanUpTo(Len(data)) /\ \A i, j \in 1 .. Len(data) :
          data[i].split # data[j].split => data[i].family # data[j].family
  BY DEF Separate, CleanUpTo, Apart, TextsApart
<1>6. passed' <=> Separate
  BY <1>1, <1>2, <1>4, <1>5
<1>7. AuditIsExact'
  BY <1>1, <1>6 DEF AuditIsExact, Separate
<1>8. QED
  BY <1>1, <1>2, <1>7 DEF AuditInv

(* The audit, which reads a data set of any length once, passes it exactly  *)
(* if it is separate.                                                       *)
THEOREM AuditFindsAll == AuditSpec => []AuditIsExact
<1>1. AuditInit => AuditInv
  <2> SUFFICES ASSUME AuditInit PROVE AuditInv
    OBVIOUS
  <2>1. /\ data \in Seq(Bubble) /\ read = 0 /\ passed = TRUE /\ Len(data) \in Nat
        /\ familiesOf = [s \in Parts |-> {}] /\ textsOf = [s \in Parts |-> {}]
        /\ DOMAIN firstSplit = {}
    BY AuditAssumption DEF AuditInit
  <2>2. Remembered(read) /\ OneSplitEach(read) /\ CleanUpTo(read)
    BY <2>1 DEF Remembered, OneSplitEach, CleanUpTo
  <2>3. QED
    BY <2>1, <2>2 DEF AuditInv, AuditIsExact
<1>2. AuditInv /\ [AuditNext]_auditVars => AuditInv'
  <2>1. ASSUME AuditInv, UNCHANGED auditVars PROVE AuditInv'
    BY <2>1 DEF auditVars, AuditInv, Remembered, OneSplitEach, CleanUpTo,
                AuditIsExact, Separate
  <2>2. QED
    BY <2>1, ReadBubbleKeepsInv, ConcludeIsExact DEF AuditNext
<1>3. AuditInv => AuditIsExact
  BY DEF AuditInv
<1>4. QED
  BY <1>1, <1>2, <1>3, PTL DEF AuditSpec

-----------------------------------------------------------------------------
(* Policy *)

(* For every input OPA has one result, the one of the evaluator. *)
LEMMA OneResult ==
  ASSUME NEW i
  PROVE  Results(i) = {Evaluate(i)}
<1> USE DEF Results, KeyRule
<1>1. CASE ~ValidAuthority(i)
  <2>1. Results(i) = {WrongRoute}
    BY <1>1
  <2>2. Evaluate(i) = WrongRoute
    BY <1>1 DEF Evaluate, ValidAuthority
  <2>3. QED
    BY <2>1, <2>2
<1>2. CASE ValidAuthority(i) /\ ~ValidEvidence(i)
  <2>1. Results(i) = {NoEvidence}
    BY <1>2
  <2>2. Evaluate(i) = NoEvidence
    BY <1>2 DEF Evaluate, ValidAuthority, ValidEvidence
  <2>3. QED
    BY <2>1, <2>2
<1>3. CASE ValidAuthority(i) /\ ValidEvidence(i) /\ ~ValidIdempotency(i)
  <2>1. Results(i) = {WrongKey}
    BY <1>3
  <2>2. Evaluate(i) = WrongKey
    BY <1>3 DEF Evaluate, ValidAuthority, ValidEvidence, ValidIdempotency
  <2>3. QED
    BY <2>1, <2>2
<1>4. CASE ValidAuthority(i) /\ ValidEvidence(i) /\ ValidIdempotency(i)
  <2>1. Results(i) = {Allow}
    BY <1>4
  <2>2. Evaluate(i) = Allow
    BY <1>4 DEF Evaluate, ValidAuthority, ValidEvidence, ValidIdempotency
  <2>3. QED
    BY <2>1, <2>2
<1>5. QED
  BY <1>1, <1>2, <1>3, <1>4

(* The two gates are one, for every directory and input. *)
THEOREM GatesAgree == PolicySpec => []PoliciesAgree
<1>1. PolicyInit => PoliciesAgree
  BY DEF PolicyInit, PoliciesAgree
<1>2. PoliciesAgree /\ [PolicyNext]_policyVars => PoliciesAgree'
  <2>1. ASSUME Answered PROVE PoliciesAgree'
    <3>1. Results(input) = {Evaluate(input)}
      BY OneResult
    <3>2. verdict' = Evaluate(input) /\ opa' = "answered" /\ input' = input
      BY <2>1, <3>1 DEF Answered
    <3>3. opa' # "unanswered" /\ verdict' = Evaluate(input')
      BY <3>2
    <3>4. QED
      BY <3>3 DEF PoliciesAgree
  <2>2. ASSUME Unanswered PROVE PoliciesAgree'
    BY <2>2 DEF Unanswered, PoliciesAgree, FailClosed, Deny
  <2>3. QED
    BY <2>1, <2>2 DEF PolicyNext, policyVars, PoliciesAgree
<1>3. QED
  BY <1>1, <1>2, PTL DEF PolicySpec
=============================================================================

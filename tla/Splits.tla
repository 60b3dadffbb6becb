-------------------------------- MODULE Splits -------------------------------
(***************************************************************************)
(* build_stratified_family_split_map: the scenario families of a category  *)
(* are ordered by a hash of seed, category and name, and the first are     *)
(* used for training, the next for development, the rest for testing.  Up  *)
(* to two families are placed by hand; otherwise each split gets one and   *)
(* the remaining places go, one at a time, to the split that is furthest   *)
(* below its share.                                                        *)
(*                                                                         *)
(* Ratios are in percent; shares are a hundred times a number of families. *)
(* Floating point decides between equal deficits, so any of them is taken. *)
(***************************************************************************)
EXTENDS Integers, Sequences, FiniteSets

CONSTANTS TrainRatio, DevRatio,
          Sizes          \* bound: how many families a category has

ASSUME SplitsAssumption ==
  /\ TrainRatio \in 1 .. 99 /\ DevRatio \in 0 .. 99 /\ TrainRatio + DevRatio < 100
  /\ Sizes \subseteq Nat

VARIABLES size, quotas, splits   \* of the category under way, the result
splitVars == <<size, quotas, splits>>

Names == {"train", "dev", "test"}
Ratio(s) == CASE s = "train" -> TrainRatio
              [] s = "dev" -> DevRatio
              [] s = "test" -> 100 - TrainRatio - DevRatio
One == [s \in Names |-> 1]
Placed(q) == q["train"] + q["dev"] + q["test"]

(* how far a split is below its share of k families *)
Deficit(k, q, s) == k * Ratio(s) - 100 * q[s]

(* mutant: the largest share first, whatever it already has *)
BiggestRatio(k, q) ==
  {s \in Names : \A t \in Names : Ratio(s) >= Ratio(t)}

Best(k, q) == {s \in Names : \A t \in Names : Deficit(k, q, s) >= Deficit(k, q, t)}

SplitOf(k, q, i) ==
  IF k = 1 THEN "train"
  ELSE IF k = 2 THEN IF i = 1 THEN "train" ELSE "test"
  ELSE IF i <= q["train"] THEN "train"
  ELSE IF i <= q["train"] + q["dev"] THEN "dev" ELSE "test"

SplitsInit ==
  /\ size \in Sizes
  /\ quotas = One
  /\ splits = <<>>

AddPlace ==
  /\ splits = <<>>
  /\ size > Placed(quotas)
  /\ \E s \in Best(size, quotas) : quotas' = [quotas EXCEPT ![s] = @ + 1]
  /\ UNCHANGED <<size, splits>>

(* the split of each family, in the order of the hash *)
Assign ==
  /\ splits = <<>>
  /\ size > 0 /\ size <= Placed(quotas)
  /\ splits' = [i \in 1 .. size |-> SplitOf(size, quotas, i)]
  /\ UNCHANGED <<size, quotas>>

SplitsNext == AddPlace \/ Assign
SplitsSpec == SplitsInit /\ [][SplitsNext]_splitVars

-----------------------------------------------------------------------------
In(s) == {i \in DOMAIN splits : splits[i] = s}

(* Every category is trained on; with two families it is also tested, and   *)
(* with three or more it is in every split.                                 *)
EverySplitServed ==
  splits # <<>> =>
    /\ In("train") # {}
    /\ size >= 2 => In("test") # {}
    /\ size >= 3 => In("dev") # {}

(* The places handed out never exceed the families there are, so that the   *)
(* slices of the order are exactly the quotas, and each split ends up less  *)
(* than one family above its share, the one it is owed in any case apart,   *)
(* and less than two below it.                                              *)
SharesKept ==
  /\ size >= 3 => Placed(quotas) <= size
  /\ splits # <<>> /\ size >= 3 =>
       \A s \in Names :
         /\ Cardinality(In(s)) = quotas[s]
         /\ quotas[s] = 1 \/ Deficit(size, quotas, s) > -100
         /\ Deficit(size, quotas, s) < 200
=============================================================================

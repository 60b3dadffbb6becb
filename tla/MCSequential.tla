---------------------------- MODULE MCSequential -----------------------------
(* Texts of up to nine tokens in windows of up to four; up to three spans   *)
(* of two labels over four characters; up to twelve families; data sets of  *)
(* up to three bubbles in three splits; a directory that lacks one place.   *)
EXTENDS Sequential, SequencesExt

CONSTANTS place, object, famA, famB, jur1, jur2, road, waste, unit1, unit2

SmallSpans ==
  {s \in [label : Labels, start : 0 .. 3, end : 1 .. 4, conf : 1 .. 2] :
     s.start < s.end}
UpToThreeSpans == SeqOf(SmallSpans, 3)

(* two long texts that share a phrase, a short one, and none: the empty     *)
(* bubble that stands for a trajectory without bubbles                      *)
SmallPhrases == [t \in Texts |-> CASE t = "pothole" -> {"p"}
                                   [] t = "pothole again" -> {"p", "q"}
                                   [] t = "ok" -> {"q"}
                                   [] OTHER -> {}]
SmallBubbles == {b \in Bubble : b.flawed => b.text = "ok" /\ b.family = famA}
UpToThreeBubbles == SeqOf(SmallBubbles, 3)

SmallDirectory == <<jur1, road>> :> unit1 @@ <<jur1, waste>> :> unit2
                    @@ <<jur2, road>> :> unit2
=============================================================================

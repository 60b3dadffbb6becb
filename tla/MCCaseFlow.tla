----------------------------- MODULE MCCaseFlow -----------------------------
(* Small instances of CaseFlow for TLC. *)
EXTENDS CaseFlow, TLC

CONSTANTS c1, c2, v1, road, waste, civil

(* Two cases of one conversation; the first gets a second revision. *)
OneConversation == [c \in Cases |-> v1]
SecondRevision == c1 :> 2 @@ c2 :> 1

Plain ==
  [kind |-> "complaint", category |-> road, root |-> NoCategory,
   complete |-> TRUE, covered |-> TRUE, correction |-> FALSE]

(* A complaint, a correction caused by another category, a complaint        *)
(* without its location, a status inquiry and a greeting.                   *)
Corrected == [Plain EXCEPT !.category = waste, !.root = road, !.correction = TRUE]
Unlocated == [Plain EXCEPT !.complete = FALSE, !.correction = TRUE]
Inquiry == [Plain EXCEPT !.kind = "inquiry"]
Greeting == [Plain EXCEPT !.kind = "other"]

AllReadings == {Plain, Corrected, Unlocated, Inquiry, Greeting}
=============================================================================

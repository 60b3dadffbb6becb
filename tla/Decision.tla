------------------------------ MODULE Decision ------------------------------
(***************************************************************************)
(* The pure decision about one revision of a case: what decide makes of    *)
(* the evidence, the conflicts found and the escalations on offer, and     *)
(* how severe a conflict is.  Costs and gains are integers; feasible says  *)
(* of a candidate that policy allows it, that it was not run yet and that  *)
(* the three remaining budgets cover it.                                   *)
(***************************************************************************)
EXTENDS Integers

(* consequence is the consequence weight in tenths. *)
Severity(c) ==
  IF c.type = "AUTHORITY" THEN "HARD"
  ELSE IF \/ c.type = "RISK" /\ c.consequence >= 8
          \/ c.type = "TEXT_IMAGE" /\ c.visual
       THEN "CRITICAL"
  ELSE IF c.type \in {"LOCATION", "ENTITY", "EVIDENCE"} \/ c.routeChanges
       THEN "MATERIAL"
       ELSE "MINOR"

(* Two values that agree are no conflict. *)
Diagnosed(cs) == {Severity(c) : c \in {d \in cs : d.left # d.right}}

ValueOfInformation(candidate) == candidate.gain - candidate.penalty

Feasible(candidates) == {candidate \in candidates : candidate.feasible}

(* sorted by (-value, task_id) *)
Precedes(a, b) ==
  \/ ValueOfInformation(a) > ValueOfInformation(b)
  \/ ValueOfInformation(a) = ValueOfInformation(b) /\ a.task <= b.task

First(candidates) ==
  CHOOSE a \in candidates : \A b \in candidates : Precedes(a, b)

WorthAsking(d) ==
  /\ Feasible(d.candidates) # {}
  /\ ValueOfInformation(First(Feasible(d.candidates))) > d.threshold

Unsettled(d) ==
  \/ d.severities \cap {"MATERIAL", "CRITICAL"} # {}
  \/ ~d.complete
  \/ ~d.covered

Blocked(d) == ~d.allowed \/ "HARD" \in d.severities

Mode(d) ==
  IF ~d.complaint THEN "REJECT_IGNORE"
  ELSE IF Blocked(d) THEN "RE_EVALUATE"
  ELSE IF ~Unsettled(d) THEN "EXECUTE"
  ELSE IF WorthAsking(d) \/ ~d.clarifiable THEN "RE_EVALUATE"
  ELSE "REQUEST_CLARIFICATION"
=============================================================================

------------------------------ MODULE Sequential -----------------------------
(***************************************************************************)
(* The code that runs alone, each piece of it started on one input: the    *)
(* loops that cut a text into windows and fold its entity spans, the split *)
(* of a category's scenario families and the audit of a finished data set, *)
(* the question put to the policy gate.  They share nothing; they are one  *)
(* specification so that one run covers them.                              *)
(***************************************************************************)
EXTENDS Windows, Spans, Splits, Audit, Policy

vars == <<windowVars, spanVars, splitVars, auditVars, policyVars>>

NoText == /\ total = 0 /\ overlap = 0
          /\ maxTokens = CHOOSE n \in WindowSizes : TRUE
NoSpans == todo = <<>>
NoFamilies == size = 0
NoDataSet == data = <<>>
NoQuestion == input = NoInput

Init ==
  /\ \E piece \in {"windows", "spans", "splits", "audit", "policy"} :
       /\ piece # "windows" => NoText
       /\ piece # "spans" => NoSpans
       /\ piece # "splits" => NoFamilies
       /\ piece # "audit" => NoDataSet
       /\ piece # "policy" => NoQuestion
  /\ WindowsInit /\ SpansInit /\ SplitsInit /\ AuditInit /\ PolicyInit

Next ==
  \/ Window /\ UNCHANGED <<spanVars, splitVars, auditVars, policyVars>>
  \/ Fold /\ UNCHANGED <<windowVars, splitVars, auditVars, policyVars>>
  \/ SplitsNext /\ UNCHANGED <<windowVars, spanVars, auditVars, policyVars>>
  \/ AuditNext /\ UNCHANGED <<windowVars, spanVars, splitVars, policyVars>>
  \/ PolicyNext /\ UNCHANGED <<windowVars, spanVars, splitVars, auditVars>>

Spec == Init /\ [][Next]_vars
=============================================================================

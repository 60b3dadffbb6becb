------------------------------ MODULE CaseLog -------------------------------
(***************************************************************************)
(* What conversation assembly promises the rest of the pipeline, without   *)
(* timers, leases or workers: stored messages are linked to cases once and *)
(* for all, and the revisions of a case are an append-only log in which    *)
(* the last entry holds every message linked to the case.                  *)
(***************************************************************************)
EXTENDS Sequences, Naturals

CONSTANTS Messages, CaseIds, NoCase

VARIABLES
  stored,     \* the messages accepted so far
  link,       \* the case of each linked message
  snapshots   \* the message sets of revisions 1, 2, ... of each case

logVars == <<stored, link, snapshots>>

Evidence(k) == {m \in Messages : link[m] = k}

Init ==
  /\ stored = {}
  /\ link = [m \in Messages |-> NoCase]
  /\ snapshots = [k \in CaseIds |-> <<>>]

Store(m) ==
  /\ m \notin stored
  /\ stored' = stored \cup {m}
  /\ UNCHANGED <<link, snapshots>>

(* A batch is assigned to cases.  A message another batch linked meanwhile  *)
(* keeps its case; every case the batch names gets a new revision.          *)
Assign(batch, case) ==
  /\ batch \subseteq stored
  /\ link' = [m \in Messages |-> IF link[m] # NoCase THEN link[m]
                                 ELSE IF m \in batch THEN case[m] ELSE NoCase]
  /\ snapshots' = [k \in CaseIds |-> IF \E m \in batch : case[m] = k
                                     THEN Append(snapshots[k], Evidence(k)')
                                     ELSE snapshots[k]]
  /\ UNCHANGED stored

Next ==
  \/ \E m \in Messages : Store(m)
  \/ \E batch \in SUBSET Messages :
       \E case \in [batch -> CaseIds] : Assign(batch, case)

Spec == Init /\ [][Next]_logVars

=============================================================================

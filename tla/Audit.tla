-------------------------------- MODULE Audit --------------------------------
(***************************************************************************)
(* audit_family_splits: a data set is read once, bubble after bubble, and  *)
(* passes when nothing of one split is found in another.  Of a phrase (a   *)
(* run of six or seven words that are not all common) only the split that  *)
(* had it first is kept.                                                   *)
(*                                                                         *)
(* A bubble carries the family and the split of its trajectory; one of an  *)
(* empty text stands for a trajectory without bubbles.  What is wrong      *)
(* whatever the splits are (an expected action that contradicts the        *)
(* missing fields, a hidden fact or an identifier in the text) is the flag *)
(* "flawed".                                                               *)
(***************************************************************************)
EXTENDS Integers, Sequences

CONSTANTS Families, Parts, Texts,
          Long,        \* the texts of more than twenty characters
          Phrases,     \* the phrases of each text
          DataSets     \* bound: the data sets to audit

Bubble == [family : Families, split : Parts, text : Texts, flawed : BOOLEAN]

ASSUME AuditAssumption ==
  /\ Long \subseteq Texts
  /\ \A data \in DataSets : data \in Seq(Bubble)

VARIABLES data, read, passed,              \* input, how much is read, result
          familiesOf, textsOf, firstSplit  \* what each split was seen to have
auditVars == <<data, read, passed, familiesOf, textsOf, firstSplit>>

AuditInit ==
  /\ data \in DataSets
  /\ read = 0 /\ passed = TRUE
  /\ familiesOf = [s \in Parts |-> {}]
  /\ textsOf = [s \in Parts |-> {}]
  /\ firstSplit = <<>>

(* mutant: a text that a split has twice is taken for a duplicate, too *)
CopiedAnywhere(b) == b.text \in Long /\ \E s \in Parts : b.text \in textsOf[s]

Copied(b) ==
  b.text \in Long /\ \E s \in Parts \ {b.split} : b.text \in textsOf[s]

Leaked(b) ==
  \E p \in Phrases[b.text] \cap DOMAIN firstSplit : firstSplit[p] # b.split

ReadBubble ==
  /\ read < Len(data)
  /\ read' = read + 1
  /\ LET b == data[read + 1] IN
       /\ passed' = (passed /\ ~b.flawed /\ ~Copied(b) /\ ~Leaked(b))
       /\ familiesOf' = [familiesOf EXCEPT ![b.split] = @ \cup {b.family}]
       /\ textsOf' = [textsOf EXCEPT ![b.split] = @ \cup ({b.text} \cap Long)]
       /\ firstSplit' = [p \in DOMAIN firstSplit \cup Phrases[b.text] |->
            IF p \in DOMAIN firstSplit THEN firstSplit[p] ELSE b.split]
  /\ UNCHANGED data

Overlapping ==
  \E s, t \in Parts : s # t /\ familiesOf[s] \cap familiesOf[t] # {}

Conclude ==
  /\ read = Len(data)
  /\ read' = read + 1
  /\ passed' = (passed /\ ~Overlapping)
  /\ UNCHANGED <<data, familiesOf, textsOf, firstSplit>>

AuditNext == ReadBubble \/ Conclude

AuditSpec == AuditInit /\ [][AuditNext]_auditVars
-----------------------------------------------------------------------------
Apart(a, b) ==
  /\ a.family # b.family
  /\ a.text = b.text => a.text \notin Long
  /\ Phrases[a.text] \cap Phrases[b.text] = {}

Separate ==
  \A i \in 1 .. Len(data) :
    /\ ~data[i].flawed
    /\ \A j \in 1 .. Len(data) :
         data[i].split # data[j].split => Apart(data[i], data[j])

(* A data set passes exactly if no two of its bubbles, however far apart    *)
(* and in whatever order, tie two splits together: reading it once, with    *)
(* one split remembered for each phrase, misses nothing and invents nothing.*)
AuditIsExact == read > Len(data) => (passed <=> Separate)
=============================================================================

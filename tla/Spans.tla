-------------------------------- MODULE Spans --------------------------------
(***************************************************************************)
(* merge_overlapping_spans: the entity spans a text yields, sorted by      *)
(* start, length and confidence, are folded from the left; a span is       *)
(* merged into the one before it when they have one label and overlap, or  *)
(* are at most one character apart.                                        *)
(***************************************************************************)
EXTENDS Integers, Sequences

CONSTANTS Labels,
          SpanInputs   \* bound: the lists of spans to merge

(* A span is decoded from at least one token, so it is not empty. *)
Span == {s \in [label : Labels, start : Nat, end : Nat, conf : Nat] :
           s.start < s.end}

ASSUME SpansAssumption == \A input \in SpanInputs : input \in Seq(Span)

VARIABLES todo, merged, seen   \* left to fold, folded so far, their result
spanVars == <<todo, merged, seen>>

Least(a, b) == IF a < b THEN a ELSE b
Greatest(a, b) == IF a > b THEN a ELSE b

(* the sort key: spans with one key keep the order they came in *)
Before(a, b) ==
  \/ a.start < b.start
  \/ a.start = b.start /\ a.end > b.end
  \/ a.start = b.start /\ a.end = b.end /\ a.conf >= b.conf
Sorted(s) == \A i, j \in 1 .. Len(s) : i < j => Before(s[i], s[j])

SpansInit ==
  /\ todo \in {s \in SpanInputs : Sorted(s)}
  /\ merged = <<>> /\ seen = <<>>

Overlap(p, s) == Greatest(p.start, s.start) < Least(p.end, s.end)

(* mutant: only spans that overlap *)
JoinsOverlapping(p, s) == p.label = s.label /\ Overlap(p, s)

Joins(p, s) ==
  p.label = s.label /\ (Overlap(p, s) \/ s.start \in {p.end, p.end + 1})

Union(p, s) ==
  [label |-> p.label, start |-> Least(p.start, s.start),
   end |-> Greatest(p.end, s.end), conf |-> Greatest(p.conf, s.conf)]

Fold ==
  LET span == Head(todo) last == Len(merged) IN
  /\ todo # <<>>
  /\ todo' = Tail(todo)
  /\ seen' = Append(seen, span)
  /\ merged' = IF merged # <<>> /\ Joins(merged[last], span)
               THEN [merged EXCEPT ![last] = Union(@, span)]
               ELSE Append(merged, span)

SpansSpec == SpansInit /\ [][Fold]_spanVars

-----------------------------------------------------------------------------
Within(a, b) == a.label = b.label /\ b.start <= a.start /\ a.end <= b.end

(* No evidence is lost and none is made up: every span lies in a merged one *)
(* of its label that is at least as confident, and every merged span starts *)
(* and ends where spans of its label do.                                    *)
MergedCoversSpans ==
  /\ \A i \in 1 .. Len(seen) : \E m \in 1 .. Len(merged) :
       Within(seen[i], merged[m]) /\ seen[i].conf <= merged[m].conf
  /\ \A m \in 1 .. Len(merged) : \E i, j \in 1 .. Len(seen) :
       /\ seen[i].label = merged[m].label /\ seen[i].start = merged[m].start
       /\ seen[j].label = merged[m].label /\ seen[j].end = merged[m].end

(* Merged spans of one label that could still be joined are kept apart by a *)
(* span of another label between them, so where there is one label no two   *)
(* merged spans overlap or touch.                                           *)
ApartUnlessInterleaved ==
  \A m, n \in 1 .. Len(merged) :
    (/\ m < n /\ merged[m].label = merged[n].label
     /\ merged[n].start <= merged[m].end + 1)
    => \E k \in m + 1 .. n - 1 : merged[k].label # merged[m].label

(* The merged spans are those found: all of them, nothing else, and as few  *)
(* as neighbours of one label allow.                                        *)
MergedIsFaithful == MergedCoversSpans /\ ApartUnlessInterleaved
=============================================================================

------------------------------- MODULE Windows -------------------------------
(***************************************************************************)
(* chunk_text: the loop that cuts a text of total tokens into windows of   *)
(* maxTokens tokens that overlap.  Tokens are numbered from 0 and a window *)
(* <<s, e>> holds the tokens s .. e - 1.                                   *)
(***************************************************************************)
EXTENDS Integers, Sequences

CONSTANTS Totals, WindowSizes   \* bounds: lengths of the text, of a window

ASSUME WindowsAssumption == Totals \subseteq Nat /\ WindowSizes \subseteq Nat \ {0}

VARIABLES total, maxTokens, overlap, start, slices, loop
windowVars == <<total, maxTokens, overlap, start, slices, loop>>

(* A text without tokens is one empty chunk; the loop is not entered. *)
WindowsInit ==
  /\ total \in Totals
  /\ maxTokens \in WindowSizes
  /\ overlap \in 0 .. (maxTokens - 1)
  /\ start = 0
  /\ slices = IF total = 0 THEN <<<<0, 0>>>> ELSE <<>>
  /\ loop = IF total = 0 THEN "over" ELSE "on"

(* mutant: the window starts a token too late *)
StepTooFar == maxTokens - overlap + 1

Step == maxTokens - overlap

AtEnd(end) == end >= total

End == IF start + maxTokens < total THEN start + maxTokens ELSE total

Window ==
  /\ loop = "on" /\ start < total
  /\ slices' = Append(slices, <<start, End>>)
  /\ IF AtEnd(End) THEN loop' = "over" /\ UNCHANGED start
                   ELSE start' = start + Step /\ UNCHANGED loop
  /\ UNCHANGED <<total, maxTokens, overlap>>

WindowsSpec == WindowsInit /\ [][Window]_windowVars

-----------------------------------------------------------------------------
(* The windows are ranges of the text, no longer than allowed.              *)
WindowsTypeOK ==
  /\ total \in Nat /\ maxTokens \in Nat \ {0} /\ overlap \in 0 .. (maxTokens - 1)
  /\ start \in Nat /\ loop \in {"on", "over"}
  /\ slices \in Seq(Nat \X Nat)
  /\ \A k \in 1 .. Len(slices) :
       /\ slices[k][1] <= slices[k][2] /\ slices[k][2] <= total
       /\ slices[k][2] - slices[k][1] <= maxTokens

(* Once the text is cut, every run of tokens that is no longer than the     *)
(* overlap plus one lies whole in some window: a phrase is never split by   *)
(* a window's edge unless it is longer than that.  For runs of one token    *)
(* this says that the windows cover the text.                               *)
PhrasesStayWhole ==
  loop = "over" =>
    \A i \in 0 .. (total - 1), n \in 1 .. (overlap + 1) :
      i + n <= total =>
        \E k \in 1 .. Len(slices) :
          slices[k][1] <= i /\ i + n <= slices[k][2]

(* No window lies inside its predecessor: each ends further into the text,  *)
(* so the loop ends, after at most as many windows as there are tokens.     *)
NoWindowInside ==
  \A k \in 1 .. (Len(slices) - 1) : slices[k][2] < slices[k + 1][2]
=============================================================================

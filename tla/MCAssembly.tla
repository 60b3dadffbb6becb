----------------------------- MODULE MCAssembly -----------------------------
(* Small instances of Assembly for TLC. *)
EXTENDS Assembly, TLC

CONSTANTS c1, c2, k1

(* One conversation, three messages: 2 quotes 1, and carries a case key     *)
(* that would send it elsewhere.                                            *)
OneConversation == {c1}
ThreeMessages == 1 .. 3
AllInC1 == [m \in ThreeMessages |-> c1]
SecondQuotesFirst == [m \in ThreeMessages |-> IF m = 2 THEN 1 ELSE NoMessage]
SecondIsKeyed == [m \in ThreeMessages |-> IF m = 2 THEN k1 ELSE NoKey]

(* Two conversations: 1 and 2 in the first, 3 in the second. *)
TwoConversations == {c1, c2}
ThirdApart == [m \in ThreeMessages |-> IF m = 3 THEN c2 ELSE c1]

WorkerSymmetry == Permutations(Workers)
=============================================================================

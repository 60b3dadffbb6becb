------------------------------ MODULE MCEgress -------------------------------
(* Two threads that submit batches and one handler of the gateway worker;   *)
(* an urgent item, a normal one, one for another model and one that carries *)
(* personal data.                                                           *)
EXTENDS Egress

CONSTANTS urgent, normal, other, personal, t1, t2, h

TheBatches ==
  {<<>>, <<normal>>, <<other>>, <<normal, personal>>,
   <<normal, other, urgent>>, <<other, normal>>}

Allowed == [provider |-> "openai", dataClass |-> "public", pii |-> FALSE,
            mime |-> "none", sensitive |-> TRUE, cost |-> 1, budget |-> 1,
            identity |-> "mini"]
Requests ==
  [i \in {urgent, normal, other, personal} |->
     CASE i = other -> [Allowed EXCEPT !.provider = "local", !.identity = "qwen"]
       [] i = personal -> [Allowed EXCEPT !.pii = TRUE]
       [] OTHER -> Allowed]
Priorities ==
  [i \in {urgent, normal, other, personal} |-> IF i = urgent THEN 0 ELSE 2]
=============================================================================

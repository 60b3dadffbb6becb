--------------------------- MODULE CircuitBreaker ---------------------------
(***************************************************************************)
(* The circuit breaker that every call of the ticket client asks first and *)
(* reports to last.  Each method holds the breaker's lock, so each is one  *)
(* function from the breaker to the breaker.  Time is abstracted to one    *)
(* bit, whether the recovery timeout has run since the last failure; it    *)
(* matters in OPEN only, and is FALSE elsewhere.                           *)
(***************************************************************************)
EXTENDS Naturals

CONSTANT failure_threshold

ASSUME ThresholdAssumption == failure_threshold \in Nat \ {0}

(* failures stops at the threshold: the code only compares it with that. *)
Breaker ==
  [state : {"CLOSED", "OPEN", "HALF_OPEN"},
   failures : 0 .. failure_threshold,
   cooled : BOOLEAN,
   half_open_in_flight : BOOLEAN]

NewBreaker ==
  [state |-> "CLOSED", failures |-> 0, cooled |-> FALSE,
   half_open_in_flight |-> FALSE]

Evaluated(b) ==
  IF b.state = "OPEN" /\ b.cooled
  THEN [b EXCEPT !.state = "HALF_OPEN", !.cooled = FALSE,
                 !.half_open_in_flight = FALSE]
  ELSE b

(* allow_request: its answer, and the breaker it leaves behind. *)
IsProbe(b) ==
  Evaluated(b).state = "HALF_OPEN" /\ ~Evaluated(b).half_open_in_flight

Allows(b) == Evaluated(b).state = "CLOSED" \/ IsProbe(b)

AfterAllow(b) ==
  IF IsProbe(b) THEN [Evaluated(b) EXCEPT !.half_open_in_flight = TRUE]
  ELSE Evaluated(b)

AfterSuccess(b) == NewBreaker

CountedFailures(b) ==
  IF b.failures = failure_threshold THEN b.failures ELSE b.failures + 1

AfterFailureKeepingSlot(b) ==
  LET n == CountedFailures(b)
  IN  [b EXCEPT !.failures = n, !.cooled = FALSE,
                !.state = IF n >= failure_threshold THEN "OPEN" ELSE @]

AfterFailure(b) ==
  LET n == CountedFailures(b)
  IN  IF b.state = "HALF_OPEN"
      THEN [b EXCEPT !.failures = n, !.state = "OPEN", !.cooled = FALSE,
                     !.half_open_in_flight = FALSE]
      ELSE [b EXCEPT !.failures = n, !.cooled = FALSE,
                     !.state = IF n >= failure_threshold THEN "OPEN" ELSE @]

=============================================================================

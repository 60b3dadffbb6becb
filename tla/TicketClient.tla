---------------------------- MODULE TicketClient ----------------------------
(***************************************************************************)
(* ReliableTicketClient over the ticket system and the circuit breaker:    *)
(* callers that share one client create, update, transfer and close        *)
(* tickets.  Each call of the ticket system, of the breaker and of the     *)
(* dead letter queue holds a lock and is one action, and the calls of      *)
(* several threads interleave between them.                                *)
(***************************************************************************)
EXTENDS CircuitBreaker, TicketSimulator, FiniteSets

CONSTANTS
  Threads,       \* the callers
  max_retries,
  NoRequest

ASSUME ClientAssumption ==
  /\ max_retries \in Nat \ {0}
  /\ NoRequest \notin Requests

VARIABLES
  breaker,   \* the circuit breaker
  dlq,       \* the requests quarantined in the dead letter queue
  thread     \* each caller: where its call is

vars == <<operations, tickets, faults, breaker, dlq, thread>>

(* stored and probe record, for the properties, that a send of this call    *)
(* was committed and that it was admitted as the half-open probe and has    *)
(* not failed since.                                                        *)
IdleThread ==
  [pc |-> "idle", request |-> NoRequest, attempt |-> 0,
   stored |-> FALSE, probe |-> FALSE]

Init ==
  /\ SimulatorInit
  /\ breaker = NewBreaker
  /\ dlq = {}
  /\ thread = [t \in Threads |-> IdleThread]

request(t) == thread[t].request
creates(t) == request(t).kind = "create"

Goto(t, pc) == thread' = [thread EXCEPT ![t].pc = pc]

(* A call starts: create_ticket reconciles first, the others ask. *)
Call(t) ==
  /\ thread[t].pc = "idle"
  /\ \E r \in Requests :
       thread' = [thread EXCEPT ![t] =
         [IdleThread EXCEPT
           !.pc = IF r.kind = "create" THEN "lookup" ELSE "ask",
           !.request = r, !.attempt = 1]]
  /\ UNCHANGED <<simulatorVars, breaker, dlq>>

(* The recovery timeout runs out. *)
Cool ==
  /\ breaker.state = "OPEN" /\ ~breaker.cooled
  /\ breaker' = [breaker EXCEPT !.cooled = TRUE]
  /\ UNCHANGED <<simulatorVars, dlq, thread>>

(* allow_request; a denial raises CircuitBreakerOpenError. *)
Ask(t) ==
  /\ thread[t].pc = "ask"
  /\ breaker' = AfterAllow(breaker)
  /\ thread' = [thread EXCEPT
       ![t].pc = IF ~Allows(breaker) THEN "raised"
                 ELSE IF creates(t) /\ thread[t].attempt > 1 THEN "recheck"
                 ELSE "send",
       ![t].probe = IsProbe(breaker)]
  /\ UNCHANGED <<simulatorVars, dlq>>

MatchesAnyway(r) == TRUE

Matches(r) == operations[r.key].payload = r.payload

(* reconcile_create, before the first attempt, before each later one, and   *)
(* after each failure: a stored operation is a receipt, or a conflict.      *)
Reconciles(t) == thread[t].pc \in {"lookup", "recheck", "reconcile"}

FindReceipt(t) ==
  /\ Reconciles(t)
  /\ Known(request(t).key) /\ Matches(request(t))
  /\ Goto(t, IF thread[t].pc = "lookup" THEN "returned" ELSE "succeeded")
  /\ UNCHANGED <<simulatorVars, breaker, dlq>>

FindConflict(t) ==
  /\ Reconciles(t)
  /\ Known(request(t).key) /\ ~Matches(request(t))
  /\ Goto(t, "raised")
  /\ UNCHANGED <<simulatorVars, breaker, dlq>>

RetriesLeft(t) == thread[t].attempt < max_retries

FindNothing(t) ==
  /\ Reconciles(t)
  /\ ~Known(request(t).key)
  /\ thread' = [thread EXCEPT ![t] =
       CASE @.pc = "lookup" -> [@ EXCEPT !.pc = "ask"]
         [] @.pc = "recheck" -> [@ EXCEPT !.pc = "send"]
         [] @.pc = "reconcile" /\ RetriesLeft(t) ->
              [@ EXCEPT !.pc = "ask", !.attempt = @ + 1]
         [] OTHER -> [@ EXCEPT !.pc = "quarantine"]]
  /\ UNCHANGED <<simulatorVars, breaker, dlq>>

(* The call of the ticket system. *)
Send(t) ==
  /\ thread[t].pc = "send"
  /\ \E result \in {"receipt", "conflict", "error", "timeout"} :
       /\ Execute(request(t), result)
       /\ thread' = [thread EXCEPT
            ![t].pc = CASE result = "receipt" -> "succeeded"
                        [] result = "conflict" -> "conflicted"
                        [] OTHER -> "failed",
            ![t].stored = @ \/ tickets' # tickets]
  /\ UNCHANGED <<breaker, dlq>>

(* record_success, then the receipt is returned. *)
Succeed(t) ==
  /\ thread[t].pc = "succeeded"
  /\ breaker' = AfterSuccess(breaker)
  /\ Goto(t, "returned")
  /\ UNCHANGED <<simulatorVars, dlq>>

FailWithoutReconciling(t) ==
  /\ thread[t].pc \in {"failed", "conflicted"}
  /\ breaker' = AfterFailure(breaker)
  /\ thread' = [thread EXCEPT ![t] =
       IF @.pc = "failed" /\ creates(t) /\ RetriesLeft(t)
       THEN [@ EXCEPT !.pc = "ask", !.attempt = @ + 1]
       ELSE [@ EXCEPT !.pc = "raised"]]
  /\ UNCHANGED <<simulatorVars, dlq>>

FailUnlessConflict(t) ==
  /\ thread[t].pc \in {"failed", "conflicted"}
  /\ breaker' = IF thread[t].pc = "failed" THEN AfterFailure(breaker) ELSE breaker
  /\ thread' = [thread EXCEPT
       ![t].pc = IF thread[t].pc = "failed" /\ creates(t) THEN "reconcile" ELSE "raised",
       ![t].probe = FALSE]
  /\ UNCHANGED <<simulatorVars, dlq>>

(* record_failure; create_ticket goes on unless the error is a conflict. *)
Fail(t) ==
  /\ thread[t].pc \in {"failed", "conflicted"}
  /\ breaker' = AfterFailure(breaker)
  /\ thread' = [thread EXCEPT
       ![t].pc = IF thread[t].pc = "failed" /\ creates(t) THEN "reconcile" ELSE "raised",
       ![t].probe = FALSE]
  /\ UNCHANGED <<simulatorVars, dlq>>

(* dlq.enqueue, then MaxRetriesExceededError. *)
Quarantine(t) ==
  /\ thread[t].pc = "quarantine"
  /\ dlq' = dlq \cup {request(t)}
  /\ Goto(t, "raised")
  /\ UNCHANGED <<simulatorVars, breaker>>

(* The caller takes the receipt or the exception. *)
Finish(t) ==
  /\ thread[t].pc \in {"returned", "raised"}
  /\ thread' = [thread EXCEPT ![t] = IdleThread]
  /\ UNCHANGED <<simulatorVars, breaker, dlq>>

CallStep(t) ==
  \/ Ask(t)
  \/ FindReceipt(t)
  \/ FindConflict(t)
  \/ FindNothing(t)
  \/ Send(t)
  \/ Succeed(t)
  \/ Fail(t)
  \/ Quarantine(t)
  \/ Finish(t)

Next == Cool \/ \E t \in Threads : Call(t) \/ CallStep(t)

Spec == Init /\ [][Next]_vars

-----------------------------------------------------------------------------
(* Properties *)

ThreadState ==
  [pc : {"idle", "lookup", "ask", "recheck", "send", "succeeded", "failed",
         "conflicted", "reconcile", "quarantine", "returned", "raised"},
   request : Requests \cup {NoRequest}, attempt : 0 .. max_retries,
   stored : BOOLEAN, probe : BOOLEAN]

(* The type of the state; an operation points at a ticket that exists. *)
TypeOK ==
  /\ breaker \in Breaker
  /\ tickets \in Seq([key : Keys, revision : Nat, closed : BOOLEAN])
  /\ operations \in [Keys -> [payload : Payloads \cup {NoPayload},
                              ticket : 0 .. Len(tickets)]]
  /\ faults \in Nat
  /\ dlq \subseteq Requests
  /\ thread \in [Threads -> ThreadState]

(* Retries, timeouts after the commit and callers that share a key create   *)
(* one ticket per idempotency key.                                          *)
OneTicketPerKey ==
  \A i, j \in 1 .. Len(tickets) : tickets[i].key = tickets[j].key => i = j

OperationsOn(i) == {k \in Keys : operations[k].ticket = i}

(* Each ticket has been changed once by each operation recorded on it, and  *)
(* by nothing else: its revision counts them.  A lost or replayed update,   *)
(* transfer or close would make the two differ.                             *)
OperationsAppliedOnce ==
  \A i \in 1 .. Len(tickets) : tickets[i].revision = Cardinality(OperationsOn(i))

(* A call whose ticket was stored returns its receipt and never raises,     *)
(* whatever timed out: reconciliation finds it before the retries run out.  *)
StoredTicketIsReturned ==
  \A t \in Threads :
    thread[t].pc = "raised" /\ creates(t) => ~thread[t].stored

(* A receipt that is returned is the stored operation of that very request. *)
ReceiptsMatchRequests ==
  \A t \in Threads : thread[t].pc = "returned" =>
    operations[request(t).key].payload = request(t).payload

(* Whatever reports arrive late, the breaker lets calls through exactly     *)
(* while fewer failures than the threshold were reported since the last     *)
(* success, and its half-open slot is taken only when it is half open: a    *)
(* probe that fails gives the slot back.                                    *)
BreakerCountsFailures ==
  /\ breaker.state = "CLOSED" <=> breaker.failures < failure_threshold
  /\ breaker.half_open_in_flight => breaker.state = "HALF_OPEN"

InFlight(t) ==
  thread[t].pc \in {"recheck", "send", "succeeded", "failed", "conflicted"}

(* Another payload was stored under a key that several payloads create: a   *)
(* reconciliation may raise a conflict, which reports to no breaker.        *)
Contested ==
  \E r \in Requests :
    r.kind = "create" /\ Known(r.key) /\ ~Matches(r)

(* The half-open slot is held by a call that will report back, as long as   *)
(* no conflict can end a reconciliation: a slot no caller holds would deny  *)
(* every request from then on, since nothing else gives it back.  (With a   *)
(* conflict the code loses the slot: client.py raises it outside its try.)  *)
ProbeHasCaller ==
  breaker.half_open_in_flight =>
    Contested \/ \E t \in Threads : thread[t].probe /\ InFlight(t)

=============================================================================

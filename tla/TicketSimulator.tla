-------------------------- MODULE TicketSimulator ---------------------------
(***************************************************************************)
(* The ticket system: create, update, transfer and close under an          *)
(* idempotency key.  Each call holds the store's lock, so it is one        *)
(* action, and may fail before it commits or time out after.               *)
(***************************************************************************)
EXTENDS Naturals, Sequences

CONSTANTS
  Keys,          \* idempotency keys
  Payloads,      \* payload hashes
  Requests,      \* the requests that callers make
  NoPayload,
  AnyRevision,   \* no If-Match
  MaxFaults      \* bound: injected faults

Request ==
  [kind : {"create", "update", "transfer", "close"},
   key : Keys, payload : Payloads,
   on : Keys,                               \* the key that made its ticket
   revision : Nat \cup {AnyRevision}]

ASSUME SimulatorAssumption ==
  /\ Requests \subseteq Request
  /\ NoPayload \notin Payloads
  /\ AnyRevision \notin Nat
  /\ MaxFaults \in Nat

VARIABLES
  operations,   \* for each key, its payload hash and the ticket it acted on
  tickets,      \* the tickets, in creation order
  faults        \* bound: faults injected so far

simulatorVars == <<operations, tickets, faults>>

NoOperation == [payload |-> NoPayload, ticket |-> 0]

SimulatorInit ==
  /\ operations = [k \in Keys |-> NoOperation]
  /\ tickets = <<>>
  /\ faults = 0

Known(k) == operations[k] # NoOperation

Fault == faults < MaxFaults /\ faults' = faults + 1

(* What a request does once it is accepted. *)
Target(r) == IF r.kind = "create" THEN Len(tickets) + 1 ELSE operations[r.on].ticket

(* An update or a transfer changes fields that are left out here. *)
Applied(r) ==
  CASE r.kind = "create" ->
         Append(tickets, [key |-> r.key, revision |-> 1, closed |-> FALSE])
    [] r.kind \in {"update", "transfer"} ->
         [tickets EXCEPT ![Target(r)].revision = @ + 1]
    [] r.kind = "close" ->
         [tickets EXCEPT ![Target(r)].revision = @ + 1, ![Target(r)].closed = TRUE]

(* Otherwise TicketNotFoundError, StaleRevisionError (If-Match) or          *)
(* InvalidStateTransitionError.                                             *)
Accepted(r) ==
  \/ r.kind = "create"
  \/ \E i \in DOMAIN tickets :
       /\ i = Target(r)
       /\ r.revision \in {AnyRevision, tickets[i].revision}
       /\ r.kind \in {"transfer", "close"} => ~tickets[i].closed

Store(r) ==
  /\ operations' = [operations EXCEPT
       ![r.key] = [payload |-> r.payload, ticket |-> Target(r)]]
  /\ tickets' = Applied(r)

(* One call, and how it ends for the caller. *)
Replay(r, result) ==
  /\ Known(r.key)
  /\ result = IF operations[r.key].payload = r.payload THEN "receipt" ELSE "conflict"
  /\ UNCHANGED simulatorVars

FailBeforeCommit(r, result) ==
  /\ ~Known(r.key)
  /\ result = "error"
  /\ Fault
  /\ UNCHANGED <<operations, tickets>>

Reject(r, result) ==
  /\ ~Known(r.key)
  /\ ~Accepted(r)
  /\ result = "error"
  /\ UNCHANGED simulatorVars

Commit(r, result) ==
  /\ ~Known(r.key)
  /\ Accepted(r)
  /\ Store(r)
  /\ \/ result = "receipt" /\ UNCHANGED faults
     \/ result = "timeout" /\ Fault

ExecuteAgain(r, result) ==
  \/ FailBeforeCommit(r, result)
  \/ Reject(r, result)
  \/ /\ Accepted(r)
     /\ Store(r)
     /\ \/ result = "receipt" /\ UNCHANGED faults
        \/ result = "timeout" /\ Fault

Execute(r, result) ==
  \/ Replay(r, result)
  \/ FailBeforeCommit(r, result)
  \/ Reject(r, result)
  \/ Commit(r, result)

=============================================================================

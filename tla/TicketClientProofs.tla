------------------------- MODULE TicketClientProofs -------------------------
(* Proofs about the ticket client for every set of callers, requests and    *)
(* keys, every number of faults, and every retry limit and threshold.       *)
EXTENDS TicketClient, FiniteSetTheorems, TLAPS

StoreTypes ==
  /\ tickets \in Seq([key : Keys, revision : Nat, closed : BOOLEAN])
  /\ operations \in [Keys -> [payload : Payloads \cup {NoPayload},
                              ticket : 0 .. Len(tickets)]]
  /\ faults \in Nat

(* The ticket system on its own: each ticket's key is a key that is known,  *)
(* so a create of an unknown key cannot make a second ticket of it.         *)
TicketKeysKnown == \A i \in 1 .. Len(tickets) : Known(tickets[i].key)

CountedOperations ==
  \A i \in 1 .. Len(tickets) : IsFiniteSet(OperationsOn(i))

StoreInv ==
  /\ StoreTypes
  /\ TicketKeysKnown
  /\ OneTicketPerKey
  /\ CountedOperations
  /\ OperationsAppliedOnce

OperationStored(t) == operations[request(t).key].payload = request(t).payload

(* A call whose ticket was stored is past its last send, and the operation  *)
(* it will find is its own.                                                 *)
StoredCall(t) ==
  creates(t) /\ thread[t].stored =>
    /\ thread[t].pc \in {"succeeded", "failed", "reconcile", "returned"}
    /\ OperationStored(t)

CallInv(t) ==
  /\ thread[t].pc # "idle" => thread[t].request \in Requests /\ thread[t].attempt >= 1
  /\ StoredCall(t)
  /\ thread[t].pc \in {"succeeded", "returned"} => OperationStored(t)

(* A breaker as BreakerCountsFailures describes it. *)
SoundBreaker ==
  {b \in Breaker : /\ b.state = "CLOSED" <=> b.failures < failure_threshold
                   /\ b.half_open_in_flight => b.state = "HALF_OPEN"}

ClientInv ==
  /\ StoreInv
  /\ breaker \in SoundBreaker
  /\ dlq \subseteq Requests
  /\ thread \in [Threads -> ThreadState]
  /\ \A t \in Threads : thread[t].pc # "idle" => CallInv(t)

-----------------------------------------------------------------------------
(* The breaker's methods, and the clock, keep it sound. *)
LEMMA BreakerSound ==
  ASSUME NEW b \in SoundBreaker
  PROVE  /\ AfterAllow(b) \in SoundBreaker
         /\ AfterSuccess(b) \in SoundBreaker
         /\ AfterFailure(b) \in SoundBreaker
         /\ b.state = "OPEN" => [b EXCEPT !.cooled = TRUE] \in SoundBreaker
<1>1. Evaluated(b) \in SoundBreaker
  BY DEF Evaluated, Breaker, SoundBreaker
<1>2. AfterAllow(b) \in SoundBreaker
  BY <1>1 DEF AfterAllow, IsProbe, Breaker, SoundBreaker
<1>3. AfterSuccess(b) \in SoundBreaker
  BY ThresholdAssumption DEF AfterSuccess, NewBreaker, Breaker, SoundBreaker
<1>4. /\ CountedFailures(b) \in 0 .. failure_threshold
      /\ b.state # "CLOSED" => CountedFailures(b) = failure_threshold
  BY ThresholdAssumption DEF CountedFailures, Breaker, SoundBreaker
<1>5. AfterFailure(b) \in SoundBreaker
  <2>1. PICK n \in 0 .. failure_threshold :
          /\ n = CountedFailures(b)
          /\ b.state # "CLOSED" => n = failure_threshold
    BY <1>4
  <2>2. b \in Breaker /\ failure_threshold \in Nat
        /\ (b.half_open_in_flight => b.state = "HALF_OPEN")
    BY ThresholdAssumption DEF SoundBreaker
  <2> DEFINE c == AfterFailure(b)
  <2>3. CASE b.state = "HALF_OPEN"
    <3>1. c = [b EXCEPT !.failures = n, !.state = "OPEN",
                        !.cooled = FALSE, !.half_open_in_flight = FALSE]
      BY <2>1, <2>3 DEF AfterFailure
    <3> HIDE DEF c
    <3>2. /\ c \in Breaker /\ c.state = "OPEN" /\ c.failures = n
          /\ c.half_open_in_flight = FALSE
      BY <2>2, <3>1 DEF Breaker
    <3>3. ~(n < failure_threshold)
      BY <2>1, <2>2, <2>3
    <3>4. c.state = "CLOSED" <=> c.failures < failure_threshold
      BY <3>2, <3>3
    <3>5. c.half_open_in_flight => c.state = "HALF_OPEN"
      BY <3>2, Zenon
    <3>6. c \in SoundBreaker
      BY <3>2, <3>4, <3>5, Zenon DEF SoundBreaker
    <3>7. QED
      BY <3>6 DEF c
  <2>4. CASE b.state # "HALF_OPEN"
    <3> DEFINE next == IF n >= failure_threshold THEN "OPEN" ELSE b.state
    <3>1. c = [b EXCEPT !.failures = n, !.cooled = FALSE, !.state = next]
      BY <2>1, <2>4 DEF AfterFailure
    <3>2. b.state \in {"CLOSED", "OPEN"}
      BY <2>2, <2>4 DEF Breaker
    <3>3. next \in {"CLOSED", "OPEN"} /\ (next = "CLOSED" <=> n < failure_threshold)
      BY <2>1, <2>2, <3>2
    <3> HIDE DEF c, next
    <3>4. /\ c \in Breaker /\ c.state = next /\ c.failures = n
          /\ c.half_open_in_flight = b.half_open_in_flight
      BY <2>2, <3>1, <3>3 DEF Breaker
    <3>5. ~b.half_open_in_flight
      BY <2>2, <2>4
    <3>6. c.state = "CLOSED" <=> c.failures < failure_threshold
      BY <3>3, <3>4
    <3>7. c.half_open_in_flight => c.state = "HALF_OPEN"
      BY <3>4, <3>5, Zenon
    <3>8. c \in SoundBreaker
      BY <3>4, <3>6, <3>7, Zenon DEF SoundBreaker
    <3>9. QED
      BY <3>8 DEF c
  <2>5. QED
    BY <2>3, <2>4
<1>6. b.state = "OPEN" => [b EXCEPT !.cooled = TRUE] \in SoundBreaker
  BY DEF Breaker, SoundBreaker
<1>7. QED
  BY <1>2, <1>3, <1>5, <1>6

-----------------------------------------------------------------------------
(* A commit adds one ticket, or changes one, and records one operation on   *)
(* it under a key that had none.                                            *)
Ticket == [key : Keys, revision : Nat, closed : BOOLEAN]

TargetExists(r) ==
  /\ r.kind = "create" => Target(r) = Len(tickets) + 1
  /\ r.kind # "create" => Target(r) \in 1 .. Len(tickets)

OneTicketTouched(r) ==
  /\ tickets' \in Seq(Ticket)
  /\ Target(r) \in 1 .. Len(tickets')
  /\ Len(tickets') \in {Len(tickets), Len(tickets) + 1}
  /\ \A i \in 1 .. Len(tickets') :
       \/ /\ i \in 1 .. Len(tickets)
          /\ tickets'[i].key = tickets[i].key
          /\ i # Target(r) => tickets'[i].revision = tickets[i].revision
          /\ i = Target(r) => tickets'[i].revision = tickets[i].revision + 1
       \/ /\ i = Len(tickets) + 1 /\ i = Target(r)
          /\ tickets'[i].key = r.key
          /\ tickets'[i].revision = 1

OneOperationRecorded(r) ==
  /\ \A k \in Keys : k # r.key => operations'[k] = operations[k]
  /\ operations'[r.key] = [payload |-> r.payload, ticket |-> Target(r)]

LEMMA RequestTypes ==
  ASSUME NEW r \in Requests
  PROVE  /\ r.kind \in {"create", "update", "transfer", "close"}
         /\ r.key \in Keys
         /\ r.payload \in Payloads
         /\ r.payload # NoPayload
BY SimulatorAssumption DEF Request

LEMMA StoreTarget ==
  ASSUME StoreTypes, NEW r \in Requests, Accepted(r)
  PROVE  TargetExists(r)
BY DEF StoreTypes, Accepted, Target, TargetExists

(* A ticket that is appended, and a ticket that is changed in place. *)
LEMMA TicketAdded ==
  ASSUME tickets \in Seq(Ticket), NEW x \in Ticket, tickets' = Append(tickets, x)
  PROVE  /\ tickets' \in Seq(Ticket)
         /\ Len(tickets') = Len(tickets) + 1
         /\ \A i \in 1 .. Len(tickets) : tickets'[i] = tickets[i]
         /\ tickets'[Len(tickets) + 1] = x
OBVIOUS

LEMMA TicketChanged ==
  ASSUME tickets \in Seq(Ticket), NEW n \in 1 .. Len(tickets), NEW x \in Ticket,
         tickets' = [tickets EXCEPT ![n] = x]
  PROVE  /\ tickets' \in Seq(Ticket)
         /\ Len(tickets') = Len(tickets)
         /\ \A i \in 1 .. Len(tickets) : i # n => tickets'[i] = tickets[i]
         /\ tickets'[n] = x
OBVIOUS

LEMMA StoreTickets ==
  ASSUME StoreTypes, NEW r \in Requests, Accepted(r), Store(r)
  PROVE  OneTicketTouched(r)
<1>1. tickets \in Seq(Ticket)
  BY DEF StoreTypes, Ticket
<1>2. TargetExists(r)
  BY StoreTarget
<1>3. CASE r.kind = "create"
  <2> DEFINE x == [key |-> r.key, revision |-> 1, closed |-> FALSE]
  <2>1. tickets' = Append(tickets, x)
    BY <1>3 DEF Store, Applied
  <2>2. x \in Ticket /\ x.key = r.key /\ x.revision = 1
    BY RequestTypes DEF Ticket
  <2>3. Target(r) = Len(tickets) + 1
    BY <1>2, <1>3 DEF TargetExists
  <2> HIDE DEF x
  <2>4. /\ tickets' \in Seq(Ticket)
        /\ Len(tickets') = Len(tickets) + 1
        /\ \A i \in 1 .. Len(tickets) : tickets'[i] = tickets[i]
        /\ tickets'[Len(tickets) + 1] = x
    BY <1>1, <2>1, <2>2
  <2>5. QED
    BY <1>1, <2>2, <2>3, <2>4 DEF OneTicketTouched
<1>4. CASE r.kind # "create"
  <2>1. PICK n \in 1 .. Len(tickets) : n = Target(r)
    BY <1>2, <1>4 DEF TargetExists
  <2>2. tickets[n] \in Ticket
    BY <1>1, <2>1
  <2>3. \/ tickets' = [tickets EXCEPT ![n].revision = @ + 1]
        \/ tickets' = [tickets EXCEPT ![n].revision = @ + 1, ![n].closed = TRUE]
    BY <1>4, <2>1, RequestTypes DEF Store, Applied
  <2>4. PICK x \in Ticket : /\ x.key = tickets[n].key
                            /\ x.revision = tickets[n].revision + 1
                            /\ tickets' = [tickets EXCEPT ![n] = x]
    <3> DEFINE y == [tickets[n] EXCEPT !.revision = @ + 1]
               z == [y EXCEPT !.closed = TRUE]
    <3>1. /\ y \in Ticket
          /\ y.key = tickets[n].key
          /\ y.revision = tickets[n].revision + 1
      BY <2>2 DEF Ticket
    <3>2. /\ z \in Ticket
          /\ z.key = tickets[n].key
          /\ z.revision = tickets[n].revision + 1
      <4> HIDE DEF y
      <4>1. QED
        BY <3>1 DEF Ticket
    <3>3. [tickets EXCEPT ![n].revision = @ + 1] = [tickets EXCEPT ![n] = y]
      BY <1>1, <2>1
    <3>4. [tickets EXCEPT ![n].revision = @ + 1, ![n].closed = TRUE]
            = [tickets EXCEPT ![n] = z]
      BY <1>1, <2>1
    <3>5. QED
      BY <2>3, <3>1, <3>2, <3>3, <3>4
  <2>5. /\ tickets' \in Seq(Ticket)
        /\ Len(tickets') = Len(tickets)
        /\ \A i \in 1 .. Len(tickets) : i # n => tickets'[i] = tickets[i]
        /\ tickets'[n] = x
    BY <1>1, <2>1, <2>4
  <2>6. QED
    BY <1>1, <2>1, <2>4, <2>5 DEF OneTicketTouched
<1>5. QED
  BY <1>3, <1>4

LEMMA StoreOperations ==
  ASSUME StoreTypes, NEW r \in Requests, Accepted(r), Store(r)
  PROVE  /\ OneOperationRecorded(r)
         /\ operations' \in [Keys -> [payload : Payloads \cup {NoPayload},
                                     ticket : 0 .. Len(tickets')]]
<1>1. r.key \in Keys /\ r.payload \in Payloads
  BY RequestTypes
<1>2. OneTicketTouched(r)
  BY StoreTickets
<1>3. Target(r) \in 0 .. Len(tickets') /\ Len(tickets) <= Len(tickets')
  BY <1>2 DEF OneTicketTouched, StoreTypes
<1>4. operations' = [operations EXCEPT
                       ![r.key] = [payload |-> r.payload, ticket |-> Target(r)]]
  BY DEF Store
<1>5. OneOperationRecorded(r)
  BY <1>1, <1>4 DEF OneOperationRecorded, StoreTypes
<1>6. operations' \in [Keys -> [payload : Payloads \cup {NoPayload},
                               ticket : 0 .. Len(tickets')]]
  BY <1>1, <1>3, <1>4 DEF StoreTypes
<1>7. QED
  BY <1>5, <1>6

LEMMA StoreKeepsInv ==
  ASSUME StoreInv, NEW r \in Requests, Accepted(r), ~Known(r.key), Store(r),
         faults' \in Nat
  PROVE  StoreInv'
<1>1. StoreTypes /\ r.key \in Keys /\ r.payload # NoPayload /\ Len(tickets) \in Nat
  BY RequestTypes DEF StoreInv, StoreTypes
<1>2. OneTicketTouched(r)
  BY <1>1, StoreTickets
<1>3. /\ OneOperationRecorded(r)
      /\ operations' \in [Keys -> [payload : Payloads \cup {NoPayload},
                                  ticket : 0 .. Len(tickets')]]
  BY <1>1, StoreOperations
<1>4. operations[r.key] = NoOperation
  BY DEF Known
<1>5. StoreTypes'
  BY <1>2, <1>3 DEF StoreTypes, OneTicketTouched, Ticket
<1>6. \A i \in 1 .. Len(tickets) :
        tickets[i].key \in Keys /\ operations[tickets[i].key] # NoOperation
  <2>1. \A i \in 1 .. Len(tickets) : tickets[i].key \in Keys
    <3>1. tickets \in Seq(Ticket)
      BY <1>1 DEF StoreTypes, Ticket
    <3>2. \A i \in 1 .. Len(tickets) : tickets[i] \in Ticket
      BY <3>1
    <3>3. QED
      BY <3>2 DEF Ticket
  <2>2. \A i \in 1 .. Len(tickets) : operations[tickets[i].key] # NoOperation
    BY DEF StoreInv, TicketKeysKnown, Known
  <2>3. QED
    BY <2>1, <2>2
<1>7. \A k \in Keys : operations[k] # NoOperation => operations'[k] # NoOperation
  BY <1>3, <1>4 DEF OneOperationRecorded
<1>8. operations'[r.key] # NoOperation
  BY <1>1, <1>3 DEF OneOperationRecorded, NoOperation
<1>9. TicketKeysKnown'
  <2>1. \A i \in 1 .. Len(tickets') : operations'[tickets'[i].key] # NoOperation
    BY <1>2, <1>6, <1>7, <1>8 DEF OneTicketTouched
  <2>2. QED
    BY <2>1 DEF TicketKeysKnown, Known, NoOperation
<1>10. OneTicketPerKey'
  <2>1. \A i, j \in 1 .. Len(tickets) : tickets[i].key = tickets[j].key => i = j
    BY DEF StoreInv, OneTicketPerKey
  <2>2. \A i \in 1 .. Len(tickets) : tickets[i].key # r.key
    BY <1>4, <1>6
  <2>3. \A i \in 1 .. Len(tickets') :
          \/ i \in 1 .. Len(tickets) /\ tickets'[i].key = tickets[i].key
          \/ i = Len(tickets) + 1 /\ tickets'[i].key = r.key
    BY <1>2 DEF OneTicketTouched
  <2>4. QED
    BY <2>1, <2>2, <2>3 DEF OneTicketPerKey
<1>11. ASSUME NEW i \in 1 .. Len(tickets')
       PROVE  /\ IsFiniteSet(OperationsOn(i)')
              /\ tickets'[i].revision = Cardinality(OperationsOn(i)')
  <2> DEFINE before == {k \in Keys : operations[k].ticket = i}
             after == {k \in Keys : operations'[k].ticket = i}
  <2>1. i # 0
    BY <1>5 DEF StoreTypes
  <2>2. /\ r.key \notin before
        /\ i = Target(r) => after = before \cup {r.key}
        /\ i # Target(r) => after = before
    BY <1>1, <1>3, <1>4, <2>1 DEF OneOperationRecorded, NoOperation
  <2>3. CASE i \in 1 .. Len(tickets)
    <3>1. /\ IsFiniteSet(before)
          /\ tickets[i].revision = Cardinality(before)
      BY <2>3 DEF StoreInv, CountedOperations, OperationsAppliedOnce, OperationsOn
    <3>2. /\ IsFiniteSet(before \cup {r.key})
          /\ Cardinality(before \cup {r.key}) = Cardinality(before) + 1
      BY <2>2, <3>1, FS_AddElement
    <3>3. /\ i # Target(r) => tickets'[i].revision = tickets[i].revision
          /\ i = Target(r) => tickets'[i].revision = tickets[i].revision + 1
      BY <1>1, <1>2, <2>3 DEF OneTicketTouched
    <3>4. IsFiniteSet(after) /\ tickets'[i].revision = Cardinality(after)
      BY <2>2, <3>1, <3>2, <3>3
    <3>5. QED
      BY <3>4 DEF OperationsOn
  <2>4. CASE i \notin 1 .. Len(tickets)
    <3>1. i = Len(tickets) + 1 /\ i = Target(r) /\ tickets'[i].revision = 1
      BY <1>2, <2>4 DEF OneTicketTouched
    <3>2. before = {}
      BY <1>1, <3>1 DEF StoreTypes
    <3>3. after = {r.key}
      BY <2>2, <3>1, <3>2
    <3>4. IsFiniteSet({r.key}) /\ Cardinality({r.key}) = 1
      BY FS_Singleton
    <3>5. QED
      BY <3>1, <3>3, <3>4 DEF OperationsOn
  <2>5. QED
    BY <2>3, <2>4
<1>12. CountedOperations' /\ OperationsAppliedOnce'
  BY <1>11 DEF CountedOperations, OperationsAppliedOnce
<1>13. QED
  BY <1>5, <1>9, <1>10, <1>12 DEF StoreInv

-----------------------------------------------------------------------------
(* One call of the ticket system, and what the caller may conclude from it. *)
OperationsKept ==
  \A k \in Keys : operations[k] # NoOperation => operations'[k] = operations[k]

LEMMA StoreUnchanged ==
  ASSUME StoreInv, operations' = operations, tickets' = tickets, faults' \in Nat
  PROVE  StoreInv'
<1>1. StoreTypes'
  BY DEF StoreInv, StoreTypes
<1>2. TicketKeysKnown' /\ OneTicketPerKey'
  BY DEF StoreInv, TicketKeysKnown, Known, NoOperation, OneTicketPerKey
<1>3. CountedOperations' /\ OperationsAppliedOnce'
  BY DEF StoreInv, CountedOperations, OperationsAppliedOnce, OperationsOn
<1>4. QED
  BY <1>1, <1>2, <1>3 DEF StoreInv

LEMMA ExecuteKeepsInv ==
  ASSUME StoreInv, NEW r \in Requests, NEW result, Execute(r, result)
  PROVE  /\ StoreInv'
         /\ OperationsKept
         /\ result = "receipt" => operations'[r.key].payload = r.payload
         /\ tickets' # tickets => /\ operations'[r.key].payload = r.payload
                                 /\ result # "conflict"
         /\ operations[r.key].payload = r.payload =>
              result = "receipt" /\ tickets' = tickets
<1>1. /\ r.key \in Keys /\ r.payload \in Payloads /\ r.payload # NoPayload
      /\ StoreTypes /\ faults \in Nat
  BY RequestTypes DEF StoreInv, StoreTypes
<1>2. ~Known(r.key) => operations[r.key].payload # r.payload
  BY <1>1 DEF Known, NoOperation
<1>3. CASE Replay(r, result)
  <2>1. operations' = operations /\ tickets' = tickets /\ faults' = faults
    BY <1>3 DEF Replay, simulatorVars
  <2>2. result = IF operations[r.key].payload = r.payload THEN "receipt" ELSE "conflict"
    BY <1>3 DEF Replay
  <2>3. StoreInv'
    BY <1>1, <2>1, StoreUnchanged
  <2>4. QED
    BY <2>1, <2>2, <2>3 DEF OperationsKept
<1>4. CASE FailBeforeCommit(r, result) \/ Reject(r, result)
  <2>1. /\ operations' = operations /\ tickets' = tickets /\ faults' \in Nat
        /\ ~Known(r.key) /\ result = "error"
    BY <1>1, <1>4 DEF FailBeforeCommit, Reject, Fault, simulatorVars
  <2>2. StoreInv'
    BY <2>1, StoreUnchanged
  <2>3. QED
    BY <1>2, <2>1, <2>2 DEF OperationsKept
<1>5. CASE Commit(r, result)
  <2>1. /\ ~Known(r.key) /\ Accepted(r) /\ Store(r)
        /\ result \in {"receipt", "timeout"} /\ faults' \in Nat
    BY <1>1, <1>5 DEF Commit, Fault
  <2>2. StoreInv'
    BY <2>1, StoreKeepsInv
  <2>3. OneOperationRecorded(r)
    BY <1>1, <2>1, StoreOperations
  <2>4. OperationsKept
    BY <2>1, <2>3 DEF OneOperationRecorded, OperationsKept, Known
  <2>5. operations'[r.key].payload = r.payload
    BY <2>3 DEF OneOperationRecorded
  <2>6. QED
    BY <1>2, <2>1, <2>2, <2>4, <2>5
<1>6. QED
  BY <1>3, <1>4, <1>5 DEF Execute

-----------------------------------------------------------------------------
(* A caller whose own state does not change keeps its invariant, since       *)
(* operations are only added.                                                *)
LEMMA OtherCallKept ==
  ASSUME NEW t \in Threads, thread' \in [Threads -> ThreadState],
         thread'[t] = thread[t], thread[t].pc # "idle" => CallInv(t),
         StoreTypes, OperationsKept
  PROVE  thread'[t].pc # "idle" => CallInv(t)'
<1> SUFFICES ASSUME thread[t].pc # "idle"
             PROVE  CallInv(t)'
  OBVIOUS
<1>1. CallInv(t) /\ thread[t].request \in Requests
  BY DEF CallInv
<1>2. OperationStored(t) => operations[request(t).key] # NoOperation
  BY <1>1, RequestTypes DEF OperationStored, request, NoOperation
<1>3. OperationStored(t) =>
        operations'[thread'[t].request.key].payload = thread'[t].request.payload
  BY <1>1, <1>2, RequestTypes DEF OperationStored, OperationsKept, request
<1>4. QED
  BY <1>1, <1>3 DEF CallInv, StoredCall, OperationStored, creates, request

(* It remains to show, for each action, the caller it moves. *)
OnlyCaller(t) ==
  /\ thread' \in [Threads -> ThreadState]
  /\ \A u \in Threads : u # t => thread'[u] = thread[u]

LEMMA CallerStep ==
  ASSUME ClientInv, NEW t \in Threads, OnlyCaller(t),
         StoreInv', OperationsKept, breaker' \in SoundBreaker, dlq' \subseteq Requests,
         thread'[t].pc # "idle" => CallInv(t)'
  PROVE  ClientInv'
<1>1. thread' \in [Threads -> ThreadState] /\ StoreTypes
  BY DEF OnlyCaller, ClientInv, StoreInv
<1>2. ASSUME NEW u \in Threads
      PROVE  thread'[u].pc # "idle" => CallInv(u)'
  <2>1. CASE u = t
    BY <2>1
  <2>2. CASE u # t
    <3>1. thread'[u] = thread[u] /\ (thread[u].pc # "idle" => CallInv(u))
      BY <2>2 DEF OnlyCaller, ClientInv
    <3>2. QED
      BY <1>1, <3>1, OtherCallKept
  <2>3. QED
    BY <2>1, <2>2
<1>3. QED
  BY <1>1, <1>2 DEF ClientInv

LEMMA SimulatorIdle ==
  ASSUME ClientInv, UNCHANGED simulatorVars
  PROVE  StoreInv' /\ OperationsKept
BY StoreUnchanged DEF ClientInv, StoreInv, StoreTypes, simulatorVars, OperationsKept

(* The invariant of the caller itself, from the fields it has now. *)
LEMMA MovedCaller ==
  ASSUME ClientInv, NEW t \in Threads, NEW x \in ThreadState,
         thread' = [thread EXCEPT ![t] = x], UNCHANGED simulatorVars,
         breaker' \in SoundBreaker, dlq' \subseteq Requests,
         x.pc # "idle" =>
           /\ x.request \in Requests /\ x.attempt >= 1
           /\ x.request.kind = "create" /\ x.stored =>
                /\ x.pc \in {"succeeded", "failed", "reconcile", "returned"}
                /\ operations[x.request.key].payload = x.request.payload
           /\ x.pc \in {"succeeded", "returned"} =>
                operations[x.request.key].payload = x.request.payload
  PROVE  ClientInv'
<1>1. thread \in [Threads -> ThreadState]
  BY DEF ClientInv
<1>2. OnlyCaller(t) /\ thread'[t] = x
  BY <1>1 DEF OnlyCaller
<1>3. StoreInv' /\ OperationsKept
  BY SimulatorIdle
<1>4. operations' = operations
  BY DEF simulatorVars
<1>5. thread'[t].pc # "idle" => CallInv(t)'
  BY <1>2, <1>4 DEF CallInv, StoredCall, OperationStored, creates, request
<1>6. QED
  BY <1>2, <1>3, <1>5, CallerStep

LEMMA InitClientInv == Init => ClientInv
<1> SUFFICES ASSUME Init PROVE ClientInv
  OBVIOUS
<1> USE DEF Init, SimulatorInit
<1>1. Len(tickets) = 0 /\ 1 .. Len(tickets) = {}
  OBVIOUS
<1>2. StoreInv
  BY <1>1 DEF StoreInv, StoreTypes, NoOperation, TicketKeysKnown, OneTicketPerKey,
     CountedOperations, OperationsAppliedOnce
<1>3. breaker \in SoundBreaker
  BY ThresholdAssumption DEF NewBreaker, Breaker, SoundBreaker
<1>4. thread \in [Threads -> ThreadState] /\ \A t \in Threads : thread[t].pc = "idle"
  BY ClientAssumption DEF IdleThread, ThreadState
<1>5. QED
  BY <1>2, <1>3, <1>4 DEF ClientInv

LEMMA CallerFacts ==
  ASSUME ClientInv, NEW t \in Threads
  PROVE  /\ thread \in [Threads -> ThreadState] /\ thread[t] \in ThreadState
         /\ breaker \in SoundBreaker /\ dlq \subseteq Requests /\ StoreInv
         /\ thread[t].pc # "idle" =>
              /\ thread[t].request \in Requests /\ thread[t].attempt >= 1
              /\ thread[t].request.kind = "create" /\ thread[t].stored =>
                   /\ thread[t].pc \in {"succeeded", "failed", "reconcile", "returned"}
                   /\ operations[thread[t].request.key].payload = thread[t].request.payload
              /\ thread[t].pc \in {"succeeded", "returned"} =>
                   operations[thread[t].request.key].payload = thread[t].request.payload
BY DEF ClientInv, CallInv, StoredCall, OperationStored, creates, request

(* The actions that leave the ticket system alone. *)
LEMMA CallKeeps ==
  ASSUME ClientInv, NEW t \in Threads, Call(t) PROVE ClientInv'
<1>1. PICK r \in Requests :
        thread' = [thread EXCEPT ![t] =
          [IdleThread EXCEPT
            !.pc = IF r.kind = "create" THEN "lookup" ELSE "ask",
            !.request = r, !.attempt = 1]]
  BY DEF Call
<1> DEFINE x == [IdleThread EXCEPT
                  !.pc = IF r.kind = "create" THEN "lookup" ELSE "ask",
                  !.request = r, !.attempt = 1]
<1>2. x \in ThreadState /\ x.request \in Requests /\ x.attempt >= 1 /\ ~x.stored
      /\ x.pc \in {"lookup", "ask"}
  <2> DEFINE start == IF r.kind = "create" THEN "lookup" ELSE "ask"
  <2>1. start \in {"lookup", "ask"} /\ 1 \in 0 .. max_retries
    BY ClientAssumption
  <2>2. IdleThread \in ThreadState /\ ~IdleThread.stored
    BY ClientAssumption DEF IdleThread, ThreadState
  <2>3. x = [IdleThread EXCEPT !.pc = start, !.request = r, !.attempt = 1]
    OBVIOUS
  <2> DEFINE y == IdleThread
  <2> HIDE DEF x, start, y
  <2>4. y \in ThreadState /\ ~y.stored /\ r \in Requests
        /\ x = [y EXCEPT !.pc = start, !.request = r, !.attempt = 1]
    BY <2>2, <2>3 DEF y
  <2>5. /\ x \in ThreadState /\ x.request = r /\ x.attempt = 1
        /\ x.stored = y.stored /\ x.pc = start
    BY <2>1, <2>4 DEF ThreadState
  <2>6. QED
    BY <2>1, <2>4, <2>5
<1>3. /\ thread' = [thread EXCEPT ![t] = x] /\ UNCHANGED simulatorVars
      /\ breaker' \in SoundBreaker /\ dlq' \subseteq Requests
  BY <1>1, CallerFacts DEF Call
<1> HIDE DEF x
<1>4. QED
  BY <1>2, <1>3, MovedCaller

LEMMA AskKeeps ==
  ASSUME ClientInv, NEW t \in Threads, Ask(t) PROVE ClientInv'
<1> DEFINE x == [thread[t] EXCEPT
                  !.pc = IF ~Allows(breaker) THEN "raised"
                         ELSE IF creates(t) /\ thread[t].attempt > 1 THEN "recheck"
                         ELSE "send",
                  !.probe = IsProbe(breaker)]
<1>1. thread[t] \in ThreadState /\ thread[t].pc = "ask"
  BY CallerFacts DEF Ask
<1>2. IsProbe(breaker) \in BOOLEAN
  BY DEF IsProbe
<1>3. /\ x \in ThreadState /\ x.request = thread[t].request
      /\ x.attempt = thread[t].attempt /\ x.stored = thread[t].stored
      /\ x.pc \in {"raised", "recheck", "send"}
  BY <1>1, <1>2 DEF ThreadState
<1>4. /\ thread' = [thread EXCEPT ![t] = x] /\ UNCHANGED simulatorVars
      /\ breaker' \in SoundBreaker /\ dlq' \subseteq Requests
  BY CallerFacts, BreakerSound DEF Ask
<1> HIDE DEF x
<1>5. QED
  BY <1>1, <1>3, <1>4, CallerFacts, MovedCaller

(* An action that moves the caller's pc and nothing else of it. *)
LEMMA GotoKeeps ==
  ASSUME ClientInv, NEW t \in Threads, NEW pc, Goto(t, pc), UNCHANGED simulatorVars,
         breaker' \in SoundBreaker, dlq' \subseteq Requests, thread[t].pc # "idle",
         pc \in {"succeeded", "returned", "raised", "failed", "quarantine"},
         thread[t].request.kind = "create" /\ thread[t].stored =>
           pc \in {"succeeded", "returned"},
         pc \in {"succeeded", "returned"} =>
           operations[thread[t].request.key].payload = thread[t].request.payload
  PROVE  ClientInv'
<1> DEFINE x == [thread[t] EXCEPT !.pc = pc]
<1>1. /\ x \in ThreadState /\ x.request = thread[t].request
      /\ x.attempt = thread[t].attempt /\ x.stored = thread[t].stored /\ x.pc = pc
  BY CallerFacts DEF ThreadState
<1>2. thread' = [thread EXCEPT ![t] = x]
  BY CallerFacts DEF Goto
<1> HIDE DEF x
<1>3. QED
  BY <1>1, <1>2, CallerFacts, MovedCaller

LEMMA FindReceiptKeeps ==
  ASSUME ClientInv, NEW t \in Threads, FindReceipt(t) PROVE ClientInv'
<1>1. /\ thread[t].pc # "idle" /\ UNCHANGED simulatorVars
      /\ breaker' \in SoundBreaker /\ dlq' \subseteq Requests
      /\ operations[thread[t].request.key].payload = thread[t].request.payload
  BY CallerFacts DEF FindReceipt, Reconciles, Matches, request
<1>2. PICK pc \in {"returned", "succeeded"} : Goto(t, pc)
  BY DEF FindReceipt
<1>3. QED
  BY <1>1, <1>2, GotoKeeps

LEMMA FindConflictKeeps ==
  ASSUME ClientInv, NEW t \in Threads, FindConflict(t) PROVE ClientInv'
<1>1. /\ thread[t].pc # "idle" /\ UNCHANGED simulatorVars
      /\ breaker' \in SoundBreaker /\ dlq' \subseteq Requests
      /\ operations[thread[t].request.key].payload # thread[t].request.payload
      /\ Goto(t, "raised")
  BY CallerFacts DEF FindConflict, Reconciles, Matches, request
<1>2. ~(thread[t].request.kind = "create" /\ thread[t].stored)
  BY <1>1, CallerFacts
<1>3. QED
  BY <1>1, <1>2, GotoKeeps

LEMMA FindNothingKeeps ==
  ASSUME ClientInv, NEW t \in Threads, FindNothing(t) PROVE ClientInv'
<1> DEFINE h == thread[t]
<1> DEFINE x ==
       CASE h.pc = "lookup" -> [h EXCEPT !.pc = "ask"]
         [] h.pc = "recheck" -> [h EXCEPT !.pc = "send"]
         [] h.pc = "reconcile" /\ RetriesLeft(t) ->
              [h EXCEPT !.pc = "ask", !.attempt = @ + 1]
         [] OTHER -> [h EXCEPT !.pc = "quarantine"]
<1>1. /\ h \in ThreadState /\ h.request \in Requests /\ h.attempt >= 1
      /\ h.pc \in {"lookup", "recheck", "reconcile"}
      /\ operations[h.request.key] = NoOperation
  BY CallerFacts DEF FindNothing, Reconciles, Known, request
<1>2. ~(h.request.kind = "create" /\ h.stored)
  BY <1>1, CallerFacts, RequestTypes DEF NoOperation
<1>3. CASE h.pc = "lookup" \/ h.pc = "recheck" \/ ~RetriesLeft(t)
  <2>1. PICK pc \in {"ask", "send", "quarantine"} : x = [h EXCEPT !.pc = pc]
    BY <1>1, <1>3
  <2>2. x \in ThreadState /\ x.request = h.request /\ x.attempt = h.attempt
        /\ x.stored = h.stored /\ x.pc \in {"ask", "send", "quarantine"}
    <3> HIDE DEF x, h
    <3>1. QED
      BY <1>1, <2>1 DEF ThreadState
  <2>3. QED
    <3>1. thread' = [thread EXCEPT ![t] = x] /\ UNCHANGED simulatorVars
          /\ breaker' \in SoundBreaker /\ dlq' \subseteq Requests
      BY CallerFacts DEF FindNothing
    <3> HIDE DEF x
    <3>2. QED
      BY <1>1, <1>2, <2>2, <3>1, MovedCaller
<1>4. CASE h.pc = "reconcile" /\ RetriesLeft(t)
  <2>1. x = [h EXCEPT !.pc = "ask", !.attempt = @ + 1]
    BY <1>4
  <2>2. h.attempt < max_retries
    BY <1>4 DEF RetriesLeft
  <2>3. x \in ThreadState /\ x.request = h.request /\ x.attempt = h.attempt + 1
        /\ x.stored = h.stored /\ x.pc = "ask" /\ x.attempt >= 1
    <3> HIDE DEF x, h
    <3>1. h.attempt + 1 \in 0 .. max_retries /\ h.attempt + 1 >= 1
      BY <1>1, <2>2, ClientAssumption DEF ThreadState
    <3>2. x = [h EXCEPT !.pc = "ask", !.attempt = h.attempt + 1]
      BY <2>1
    <3>3. QED
      BY <1>1, <3>1, <3>2 DEF ThreadState
  <2>4. thread' = [thread EXCEPT ![t] = x] /\ UNCHANGED simulatorVars
        /\ breaker' \in SoundBreaker /\ dlq' \subseteq Requests
    BY CallerFacts DEF FindNothing
  <2> HIDE DEF x
  <2>5. QED
    BY <1>1, <1>2, <2>3, <2>4, MovedCaller
<1>5. QED
  BY <1>1, <1>3, <1>4

LEMMA SucceedKeeps ==
  ASSUME ClientInv, NEW t \in Threads, Succeed(t) PROVE ClientInv'
<1>1. /\ thread[t].pc = "succeeded" /\ UNCHANGED simulatorVars /\ Goto(t, "returned")
      /\ breaker' \in SoundBreaker /\ dlq' \subseteq Requests
  BY CallerFacts, BreakerSound DEF Succeed
<1>2. QED
  BY <1>1, CallerFacts, GotoKeeps

LEMMA FailKeeps ==
  ASSUME ClientInv, NEW t \in Threads, Fail(t) PROVE ClientInv'
<1> DEFINE next == IF thread[t].pc = "failed" /\ creates(t) THEN "reconcile" ELSE "raised"
           x == [thread[t] EXCEPT !.pc = next, !.probe = FALSE]
<1>1. /\ thread[t] \in ThreadState /\ thread[t].pc \in {"failed", "conflicted"}
      /\ thread' = [thread EXCEPT ![t] = x] /\ UNCHANGED simulatorVars
      /\ breaker' \in SoundBreaker /\ dlq' \subseteq Requests
  BY CallerFacts, BreakerSound DEF Fail
<1>2. /\ next \in {"reconcile", "raised"}
      /\ thread[t].request.kind = "create" /\ thread[t].stored => next = "reconcile"
  BY <1>1, CallerFacts DEF creates, request
<1> HIDE DEF next
<1>3. /\ x \in ThreadState /\ x.request = thread[t].request
      /\ x.attempt = thread[t].attempt /\ x.stored = thread[t].stored /\ x.pc = next
  BY <1>1, <1>2 DEF ThreadState
<1> HIDE DEF x
<1>4. QED
  BY <1>1, <1>2, <1>3, CallerFacts, MovedCaller

LEMMA QuarantineKeeps ==
  ASSUME ClientInv, NEW t \in Threads, Quarantine(t) PROVE ClientInv'
<1>1. /\ thread[t].pc = "quarantine" /\ thread[t].request \in Requests
      /\ UNCHANGED simulatorVars /\ Goto(t, "raised")
      /\ breaker' \in SoundBreaker /\ dlq' \subseteq Requests
  BY CallerFacts DEF Quarantine, request
<1>2. ~(thread[t].request.kind = "create" /\ thread[t].stored)
  BY <1>1, CallerFacts
<1>3. QED
  BY <1>1, <1>2, GotoKeeps

LEMMA FinishKeeps ==
  ASSUME ClientInv, NEW t \in Threads, Finish(t) PROVE ClientInv'
<1>1. /\ thread' = [thread EXCEPT ![t] = IdleThread] /\ UNCHANGED simulatorVars
      /\ breaker' \in SoundBreaker /\ dlq' \subseteq Requests
  BY CallerFacts DEF Finish
<1>2. IdleThread \in ThreadState /\ IdleThread.pc = "idle"
  BY ClientAssumption DEF IdleThread, ThreadState
<1>3. QED
  BY <1>1, <1>2, MovedCaller

LEMMA CoolKeeps ==
  ASSUME ClientInv, Cool PROVE ClientInv'
<1>1. StoreInv' /\ OperationsKept
  BY SimulatorIdle DEF Cool
<1>2. breaker' \in SoundBreaker
  BY BreakerSound DEF Cool, ClientInv
<1>3. thread' = thread /\ dlq' = dlq
  BY DEF Cool
<1>4. \A t \in Threads : thread'[t].pc # "idle" => CallInv(t)'
  <2> TAKE t \in Threads
  <2>1. /\ thread' \in [Threads -> ThreadState] /\ thread'[t] = thread[t]
        /\ (thread[t].pc # "idle" => CallInv(t)) /\ StoreTypes
    BY <1>3 DEF ClientInv, StoreInv
  <2>2. QED
    BY <1>1, <2>1, OtherCallKept
<1>5. QED
  BY <1>1, <1>2, <1>3, <1>4 DEF ClientInv

(* The send itself: what the ticket system answers fixes where the call goes. *)
LEMMA SendKeeps ==
  ASSUME ClientInv, NEW t \in Threads, Send(t) PROVE ClientInv'
<1> DEFINE h == thread[t]
<1>1. PICK result \in {"receipt", "conflict", "error", "timeout"} :
        /\ Execute(request(t), result)
        /\ thread' = [thread EXCEPT
             ![t].pc = CASE result = "receipt" -> "succeeded"
                         [] result = "conflict" -> "conflicted"
                         [] OTHER -> "failed",
             ![t].stored = @ \/ tickets' # tickets]
  BY DEF Send
<1>2. h \in ThreadState /\ h.request \in Requests /\ h.attempt >= 1 /\ h.pc = "send"
      /\ StoreInv /\ thread \in [Threads -> ThreadState]
  BY CallerFacts DEF Send
<1>3. /\ StoreInv' /\ OperationsKept
      /\ result = "receipt" => operations'[h.request.key].payload = h.request.payload
      /\ tickets' # tickets =>
           /\ operations'[h.request.key].payload = h.request.payload
           /\ result # "conflict"
  BY <1>1, <1>2, ExecuteKeepsInv DEF request
<1> DEFINE next == CASE result = "receipt" -> "succeeded"
                     [] result = "conflict" -> "conflicted"
                     [] OTHER -> "failed"
           x == [h EXCEPT !.pc = next, !.stored = h.stored \/ tickets' # tickets]
<1>4. thread' = [thread EXCEPT ![t] = x]
  BY <1>1, <1>2
<1>5. /\ next \in {"succeeded", "conflicted", "failed"}
      /\ next = "succeeded" => result = "receipt"
      /\ next = "conflicted" => result = "conflict"
  OBVIOUS
<1> HIDE DEF next
<1>6. /\ x \in ThreadState /\ x.request = h.request /\ x.attempt = h.attempt
      /\ x.pc = next /\ x.stored = (h.stored \/ tickets' # tickets)
  <2> HIDE DEF h
  <2>1. QED
    BY <1>2, <1>5 DEF ThreadState
<1>7. h.request.kind = "create" => ~h.stored
  BY <1>2, CallerFacts
<1>8. OnlyCaller(t) /\ thread'[t] = x
  <2> HIDE DEF x
  <2>1. QED
    BY <1>2, <1>4, <1>6 DEF OnlyCaller
<1>9. CallInv(t)'
  <2> HIDE DEF x, h
  <2>1. x.request.kind = "create" /\ x.stored =>
          /\ x.pc \in {"succeeded", "failed"}
          /\ operations'[x.request.key].payload = x.request.payload
    BY <1>3, <1>5, <1>6, <1>7
  <2>2. x.pc \in {"succeeded", "returned"} =>
          operations'[x.request.key].payload = x.request.payload
    BY <1>3, <1>5, <1>6
  <2>3. QED
    BY <1>2, <1>6, <1>8, <2>1, <2>2 DEF CallInv, StoredCall, OperationStored, creates, request
<1>10. breaker' \in SoundBreaker /\ dlq' \subseteq Requests
  BY CallerFacts DEF Send
<1>11. QED
  BY <1>3, <1>8, <1>9, <1>10, CallerStep

-----------------------------------------------------------------------------
(* The half-open slot.  Only a create reconciles, so what a reconciliation  *)
(* contradicts is a create whose key another payload took.                  *)
ProbeInv ==
  /\ \A t \in Threads : Reconciles(t) => creates(t)
  /\ ProbeHasCaller

HoldsSlot(t) == thread[t].probe /\ InFlight(t)

LEMMA ContestedStays ==
  ASSUME OperationsKept, Contested
  PROVE  Contested'
<1>1. PICK r \in Requests : r.kind = "create" /\ Known(r.key) /\ ~Matches(r)
  BY DEF Contested
<1>2. operations'[r.key] = operations[r.key]
  BY <1>1, RequestTypes DEF OperationsKept, Known
<1>3. QED
  BY <1>1, <1>2 DEF Contested, Known, Matches

(* What each action still owes once only the caller t moves: the slot stays *)
(* free, is t's, or is that of another caller, who keeps it.                *)
LEMMA SlotStep ==
  ASSUME ProbeInv, NEW t \in Threads, OnlyCaller(t), OperationsKept,
         Reconciles(t)' => creates(t)',
         breaker'.half_open_in_flight =>
           \/ Contested' \/ HoldsSlot(t)'
           \/ breaker.half_open_in_flight /\ ~HoldsSlot(t)
  PROVE  ProbeInv'
<1>1. \A u \in Threads : u # t => thread'[u] = thread[u]
  BY DEF OnlyCaller
<1>2. \A u \in Threads : Reconciles(u)' => creates(u)'
  BY <1>1 DEF ProbeInv, Reconciles, creates, request
<1>3. ASSUME breaker'.half_open_in_flight
      PROVE  Contested' \/ \E u \in Threads : HoldsSlot(u)'
  <2>1. CASE breaker.half_open_in_flight /\ ~HoldsSlot(t)
    <3>1. Contested \/ \E u \in Threads : u # t /\ HoldsSlot(u)
      BY <2>1 DEF ProbeInv, ProbeHasCaller, HoldsSlot
    <3>2. ASSUME NEW u \in Threads, u # t, HoldsSlot(u)
          PROVE  HoldsSlot(u)'
      BY <1>1, <3>2 DEF HoldsSlot, InFlight
    <3>3. QED
      BY <3>1, <3>2, ContestedStays
  <2>2. QED
    BY <1>3, <2>1
<1>4. QED
  BY <1>2, <1>3 DEF ProbeInv, ProbeHasCaller, HoldsSlot

(* allow_request hands the slot out to the caller it admits, and otherwise  *)
(* leaves it as it was or frees it; a report of either kind frees it.       *)
LEMMA SlotOfBreaker ==
  ASSUME NEW b \in SoundBreaker
  PROVE  /\ AfterAllow(b).half_open_in_flight => IsProbe(b) \/ b.half_open_in_flight
         /\ IsProbe(b) => Allows(b)
         /\ ~AfterSuccess(b).half_open_in_flight
         /\ ~AfterFailure(b).half_open_in_flight
<1>1. b \in Breaker /\ (b.half_open_in_flight => b.state = "HALF_OPEN")
  BY DEF SoundBreaker
<1>2. Evaluated(b).half_open_in_flight => b.half_open_in_flight
  BY <1>1 DEF Evaluated, Breaker
<1>3. AfterAllow(b).half_open_in_flight => IsProbe(b) \/ b.half_open_in_flight
  BY <1>2 DEF AfterAllow
<1>4. ~AfterSuccess(b).half_open_in_flight
  BY DEF AfterSuccess, NewBreaker
<1>5. ~AfterFailure(b).half_open_in_flight
  <2>1. CASE b.state = "HALF_OPEN"
    BY <1>1, <2>1 DEF AfterFailure, Breaker
  <2>2. CASE b.state # "HALF_OPEN"
    BY <1>1, <2>2 DEF AfterFailure, Breaker
  <2>3. QED
    BY <2>1, <2>2
<1>6. QED
  BY <1>3, <1>4, <1>5 DEF Allows

LEMMA CallKeepsSlot ==
  ASSUME ClientInv, ClientInv', ProbeInv, NEW t \in Threads, Call(t)
  PROVE  ProbeInv'
<1>1. PICK r \in Requests :
        thread' = [thread EXCEPT ![t] =
          [IdleThread EXCEPT
            !.pc = IF r.kind = "create" THEN "lookup" ELSE "ask",
            !.request = r, !.attempt = 1]]
  BY DEF Call
<1>2. /\ OnlyCaller(t) /\ thread[t].pc = "idle" /\ breaker' = breaker
      /\ thread \in [Threads -> ThreadState]
  BY <1>1, CallerFacts DEF Call, OnlyCaller, ClientInv
<1>3. OperationsKept
  BY SimulatorIdle DEF Call
<1>4. /\ thread'[t].pc = IF r.kind = "create" THEN "lookup" ELSE "ask"
      /\ thread'[t].request = r
  BY <1>1, <1>2 DEF IdleThread
<1>5. Reconciles(t)' => creates(t)'
  BY <1>4 DEF Reconciles, creates, request
<1>6. ~HoldsSlot(t)
  BY <1>2 DEF HoldsSlot, InFlight
<1>7. QED
  BY <1>2, <1>3, <1>5, <1>6, SlotStep

LEMMA AskKeepsSlot ==
  ASSUME ClientInv, ClientInv', ProbeInv, NEW t \in Threads, Ask(t)
  PROVE  ProbeInv'
<1> DEFINE next == IF ~Allows(breaker) THEN "raised"
                   ELSE IF creates(t) /\ thread[t].attempt > 1 THEN "recheck"
                   ELSE "send"
<1>1. /\ thread[t].pc = "ask" /\ breaker' = AfterAllow(breaker)
      /\ thread' = [thread EXCEPT ![t].pc = next, ![t].probe = IsProbe(breaker)]
  BY DEF Ask
<1>2. /\ thread \in [Threads -> ThreadState] /\ thread[t] \in ThreadState
      /\ breaker \in SoundBreaker
  BY CallerFacts
<1>3. OnlyCaller(t)
  BY <1>1, <1>2 DEF OnlyCaller, ClientInv
<1>4. OperationsKept
  BY SimulatorIdle DEF Ask
<1>5. /\ next \in {"raised", "recheck", "send"}
      /\ next = "recheck" => creates(t)
      /\ Allows(breaker) => next \in {"recheck", "send"}
  OBVIOUS
<1> HIDE DEF next
<1>6. /\ thread'[t].pc = next /\ thread'[t].request = thread[t].request
      /\ thread'[t].probe = IsProbe(breaker)
  BY <1>1, <1>2 DEF ThreadState
<1>7. Reconciles(t)' => creates(t)'
  BY <1>5, <1>6 DEF Reconciles, creates, request
<1>8. ~HoldsSlot(t)
  BY <1>1 DEF HoldsSlot, InFlight
<1>9. breaker'.half_open_in_flight => IsProbe(breaker) \/ breaker.half_open_in_flight
  BY <1>1, <1>2, SlotOfBreaker
<1>10. IsProbe(breaker) => HoldsSlot(t)'
  BY <1>2, <1>5, <1>6, SlotOfBreaker DEF HoldsSlot, InFlight
<1>11. QED
  BY <1>3, <1>4, <1>7, <1>8, <1>9, <1>10, SlotStep

(* A caller that only moves on: it keeps the slot if it stays in flight, or *)
(* leaves it behind with a contested key.                                   *)
LEMMA MoveKeepsSlot ==
  ASSUME ClientInv, ClientInv', ProbeInv, NEW t \in Threads, OperationsKept,
         NEW x, thread' = [thread EXCEPT ![t] = x],
         x.request = thread[t].request, x.probe = thread[t].probe,
         breaker' = breaker,
         x.pc \in {"lookup", "recheck", "reconcile"} => Reconciles(t),
         Contested'
           \/ ~InFlight(t)
           \/ x.pc \in {"recheck", "send", "succeeded", "failed", "conflicted"}
  PROVE  ProbeInv'
<1>1. OnlyCaller(t) /\ thread'[t] = x
  BY CallerFacts DEF OnlyCaller, ClientInv
<1>2. Reconciles(t)' => creates(t)'
  BY <1>1 DEF Reconciles, creates, request, ProbeInv
<1>3. HoldsSlot(t) => Contested' \/ HoldsSlot(t)'
  BY <1>1 DEF HoldsSlot, InFlight
<1>4. QED
  BY <1>1, <1>2, <1>3, SlotStep

LEMMA FindKeepsSlot ==
  ASSUME ClientInv, ClientInv', ProbeInv, NEW t \in Threads,
         FindReceipt(t) \/ FindConflict(t)
  PROVE  ProbeInv'
<1>1. /\ thread[t].pc \in {"lookup", "recheck", "reconcile"} /\ breaker' = breaker
      /\ UNCHANGED simulatorVars /\ Known(request(t).key)
  BY DEF FindReceipt, FindConflict, Reconciles
<1>2. PICK to : /\ Goto(t, to)
                /\ to \in {"returned", "succeeded", "raised"}
                /\ thread[t].pc = "recheck" => to = "succeeded" \/ ~Matches(request(t))
  BY DEF FindReceipt, FindConflict
<1> DEFINE x == [thread[t] EXCEPT !.pc = to]
<1>3. /\ x.pc = to /\ x.request = thread[t].request /\ x.probe = thread[t].probe
      /\ thread' = [thread EXCEPT ![t] = x]
  BY <1>2, CallerFacts DEF Goto, ThreadState
<1> HIDE DEF x
<1>4. OperationsKept
  BY <1>1, SimulatorIdle
<1>5. ~Matches(request(t)) => Contested'
  <2>1. request(t) \in Requests /\ request(t).kind = "create"
    BY <1>1, CallerFacts DEF ProbeInv, Reconciles, creates, request
  <2>2. QED
    BY <1>1, <1>4, <2>1, ContestedStays DEF Contested
<1>6. thread[t].pc # "recheck" => ~InFlight(t)
  BY <1>1 DEF InFlight
<1>7. QED
  BY <1>1, <1>2, <1>3, <1>4, <1>5, <1>6, MoveKeepsSlot

LEMMA FindNothingKeepsSlot ==
  ASSUME ClientInv, ClientInv', ProbeInv, NEW t \in Threads, FindNothing(t)
  PROVE  ProbeInv'
<1> DEFINE h == thread[t]
           x == CASE h.pc = "lookup" -> [h EXCEPT !.pc = "ask"]
                  [] h.pc = "recheck" -> [h EXCEPT !.pc = "send"]
                  [] h.pc = "reconcile" /\ RetriesLeft(t) ->
                       [h EXCEPT !.pc = "ask", !.attempt = @ + 1]
                  [] OTHER -> [h EXCEPT !.pc = "quarantine"]
<1>1. /\ h.pc \in {"lookup", "recheck", "reconcile"} /\ h \in ThreadState
      /\ thread' = [thread EXCEPT ![t] = x]
      /\ breaker' = breaker /\ UNCHANGED simulatorVars
  BY CallerFacts DEF FindNothing, Reconciles
<1>2. OperationsKept
  BY <1>1, SimulatorIdle
<1>3. /\ x.request = h.request /\ x.probe = h.probe
      /\ x.pc \in {"ask", "send", "quarantine"}
      /\ h.pc = "recheck" => x.pc = "send"
  <2>1. CASE h.pc = "lookup"
    <3>1. x = [h EXCEPT !.pc = "ask"]
      BY <2>1
    <3> HIDE DEF x, h
    <3>2. QED
      BY <1>1, <2>1, <3>1 DEF ThreadState
  <2>2. CASE h.pc = "recheck"
    <3>1. x = [h EXCEPT !.pc = "send"]
      BY <2>2
    <3> HIDE DEF x, h
    <3>2. QED
      BY <1>1, <2>2, <3>1 DEF ThreadState
  <2>3. CASE h.pc = "reconcile" /\ RetriesLeft(t)
    <3>1. x = [h EXCEPT !.pc = "ask", !.attempt = @ + 1]
      BY <2>3
    <3> HIDE DEF x, h
    <3>2. QED
      BY <1>1, <2>3, <3>1 DEF ThreadState
  <2>4. CASE h.pc = "reconcile" /\ ~RetriesLeft(t)
    <3>1. x = [h EXCEPT !.pc = "quarantine"]
      BY <2>4
    <3> HIDE DEF x, h
    <3>2. QED
      BY <1>1, <2>4, <3>1 DEF ThreadState
  <2>5. QED
    BY <1>1, <2>1, <2>2, <2>3, <2>4
<1>4. h.pc # "recheck" => ~InFlight(t)
  BY <1>1 DEF InFlight
<1> HIDE DEF x
<1>5. QED
  BY <1>1, <1>2, <1>3, <1>4, MoveKeepsSlot

LEMMA SendKeepsSlot ==
  ASSUME ClientInv, ClientInv', ProbeInv, NEW t \in Threads, Send(t)
  PROVE  ProbeInv'
<1>1. PICK to, stored, result :
        /\ Execute(request(t), result)
        /\ to \in {"succeeded", "conflicted", "failed"}
        /\ thread' = [thread EXCEPT ![t].pc = to, ![t].stored = stored]
  <2>1. PICK result \in {"receipt", "conflict", "error", "timeout"} :
          /\ Execute(request(t), result)
          /\ thread' = [thread EXCEPT
               ![t].pc = CASE result = "receipt" -> "succeeded"
                           [] result = "conflict" -> "conflicted"
                           [] OTHER -> "failed",
               ![t].stored = @ \/ tickets' # tickets]
    BY DEF Send
  <2> DEFINE to == CASE result = "receipt" -> "succeeded"
                     [] result = "conflict" -> "conflicted"
                     [] OTHER -> "failed"
             stored == thread[t].stored \/ tickets' # tickets
  <2>2. to \in {"succeeded", "conflicted", "failed"}
    OBVIOUS
  <2>3. thread' = [thread EXCEPT ![t].pc = to, ![t].stored = stored]
    BY <2>1, CallerFacts
  <2>4. QED
    BY <2>1, <2>2, <2>3
<1>2. /\ thread[t] \in ThreadState /\ thread[t].pc = "send"
      /\ thread \in [Threads -> ThreadState]
      /\ breaker' = breaker /\ request(t) \in Requests /\ StoreInv
  BY CallerFacts DEF Send, request
<1>3. OperationsKept
  BY <1>1, <1>2, ExecuteKeepsInv
<1> DEFINE x == [thread[t] EXCEPT !.pc = to, !.stored = stored]
<1>4. /\ thread' = [thread EXCEPT ![t] = x] /\ x.pc = to
      /\ x.request = thread[t].request /\ x.probe = thread[t].probe
  BY <1>1, <1>2 DEF ThreadState
<1> HIDE DEF x
<1>5. QED
  BY <1>1, <1>2, <1>3, <1>4, MoveKeepsSlot

(* Success and failure free the slot; quarantine and the end find none.     *)
LEMMA ReportKeepsSlot ==
  ASSUME ClientInv, ClientInv', ProbeInv, NEW t \in Threads, Succeed(t) \/ Fail(t)
  PROVE  ProbeInv'
<1>1. UNCHANGED simulatorVars /\ ~breaker'.half_open_in_flight
  BY CallerFacts, SlotOfBreaker DEF Succeed, Fail
<1>2. thread[t] \in ThreadState /\ thread \in [Threads -> ThreadState]
  BY CallerFacts
<1>3. OperationsKept
  BY <1>1, SimulatorIdle
<1>4. OnlyCaller(t)
  BY <1>2 DEF Succeed, Fail, Goto, OnlyCaller, ClientInv
<1>5. Reconciles(t)' => creates(t)'
  <2>1. CASE Succeed(t)
    <3>1. thread'[t].pc = "returned"
      BY <1>2, <2>1 DEF Succeed, Goto, ThreadState
    <3>2. QED
      BY <3>1 DEF Reconciles
  <2>2. CASE Fail(t)
    <3> DEFINE next == IF thread[t].pc = "failed" /\ creates(t)
                       THEN "reconcile" ELSE "raised"
    <3>1. thread' = [thread EXCEPT ![t].pc = next, ![t].probe = FALSE]
      BY <2>2 DEF Fail
    <3>2. next = "raised" \/ creates(t)
      OBVIOUS
    <3> HIDE DEF next
    <3>3. thread'[t].pc = next /\ thread'[t].request = thread[t].request
      BY <1>2, <3>1 DEF ThreadState
    <3>4. QED
      BY <3>2, <3>3 DEF Reconciles, creates, request
  <2>3. QED
    BY <2>1, <2>2
<1>6. QED
  BY <1>1, <1>3, <1>4, <1>5, SlotStep

LEMMA EndKeepsSlot ==
  ASSUME ClientInv, ClientInv', ProbeInv, NEW t \in Threads, Quarantine(t) \/ Finish(t)
  PROVE  ProbeInv'
<1>1. /\ UNCHANGED simulatorVars /\ breaker' = breaker
      /\ thread[t].pc \in {"quarantine", "returned", "raised"}
  BY DEF Quarantine, Finish
<1>2. thread[t] \in ThreadState /\ thread \in [Threads -> ThreadState]
  BY CallerFacts
<1>3. OnlyCaller(t) /\ thread'[t].pc \in {"raised", "idle"}
  BY <1>2 DEF Quarantine, Finish, Goto, OnlyCaller, ClientInv, IdleThread, ThreadState
<1>4. OperationsKept
  BY <1>1, SimulatorIdle
<1>5. ~HoldsSlot(t) /\ ~Reconciles(t)'
  BY <1>1, <1>3 DEF HoldsSlot, InFlight, Reconciles
<1>6. QED
  BY <1>1, <1>3, <1>4, <1>5, SlotStep

LEMMA CoolKeepsSlot ==
  ASSUME ClientInv, ProbeInv, Cool
  PROVE  ProbeInv'
<1>1. /\ breaker \in SoundBreaker /\ breaker.state = "OPEN"
      /\ breaker' = [breaker EXCEPT !.cooled = TRUE] /\ thread' = thread
  BY DEF ClientInv, Cool
<1>2. ~breaker'.half_open_in_flight
  BY <1>1 DEF SoundBreaker, Breaker
<1>3. QED
  BY <1>1, <1>2 DEF ProbeInv, ProbeHasCaller, Reconciles, creates, request

-----------------------------------------------------------------------------
(* The invariant of the ticket client holds in every reachable state. *)
THEOREM ClientInvariant == Spec => []ClientInv
<1>1. ClientInv /\ [Next]_vars => ClientInv'
  <2> SUFFICES ASSUME ClientInv, [Next]_vars PROVE ClientInv'
    OBVIOUS
  <2>1. CASE UNCHANGED vars
    <3>1. /\ StoreInv' /\ OperationsKept
          /\ thread' = thread /\ dlq' = dlq /\ breaker' = breaker
      BY <2>1, SimulatorIdle DEF vars, simulatorVars
    <3>2. \A t \in Threads : thread'[t].pc # "idle" => CallInv(t)'
      <4> TAKE t \in Threads
      <4>1. /\ thread' \in [Threads -> ThreadState] /\ thread'[t] = thread[t]
            /\ (thread[t].pc # "idle" => CallInv(t)) /\ StoreTypes
        BY <3>1 DEF ClientInv, StoreInv
      <4>2. QED
        BY <3>1, <4>1, OtherCallKept
    <3>3. QED
      BY <3>1, <3>2 DEF ClientInv
  <2>2. CASE Cool
    BY <2>2, CoolKeeps
  <2>3. ASSUME NEW t \in Threads, Call(t) \/ CallStep(t)
        PROVE  ClientInv'
    BY <2>3, CallKeeps, AskKeeps, FindReceiptKeeps, FindConflictKeeps,
       FindNothingKeeps, SendKeeps, SucceedKeeps, FailKeeps, QuarantineKeeps,
       FinishKeeps DEF CallStep
  <2>4. QED
    BY <2>1, <2>2, <2>3 DEF Next
<1>2. QED
  BY InitClientInv, <1>1, PTL DEF Spec

(* The state keeps its type, and every operation recorded points at a       *)
(* ticket that exists.                                                      *)
THEOREM ClientTypeCorrect == Spec => []TypeOK
<1>1. ClientInv => TypeOK
  BY DEF ClientInv, StoreInv, StoreTypes, SoundBreaker, TypeOK
<1>2. QED
  BY <1>1, ClientInvariant, PTL

(* An idempotency key makes at most one ticket, however many callers use it *)
(* and whatever times out.                                                  *)
THEOREM KeysMakeOneTicket == Spec => []OneTicketPerKey
<1>1. ClientInv => OneTicketPerKey
  BY DEF ClientInv, StoreInv
<1>2. QED
  BY <1>1, ClientInvariant, PTL

(* A ticket's revision counts the operations recorded on it. *)
THEOREM OperationsCounted == Spec => []OperationsAppliedOnce
<1>1. ClientInv => OperationsAppliedOnce
  BY DEF ClientInv, StoreInv
<1>2. QED
  BY <1>1, ClientInvariant, PTL

(* A create call whose ticket was stored does not raise. *)
THEOREM StoredCallsReturn == Spec => []StoredTicketIsReturned
<1>1. ClientInv => StoredTicketIsReturned
  BY DEF ClientInv, CallInv, StoredCall, StoredTicketIsReturned
<1>2. QED
  BY <1>1, ClientInvariant, PTL

(* A receipt that a call returns is that of its own request. *)
THEOREM ReceiptsAreOwn == Spec => []ReceiptsMatchRequests
<1>1. ClientInv => ReceiptsMatchRequests
  BY DEF ClientInv, CallInv, OperationStored, ReceiptsMatchRequests
<1>2. QED
  BY <1>1, ClientInvariant, PTL

(* The breaker is closed exactly while it counts too few failures, and the   *)
(* half-open slot is taken only when it is half open.                        *)
THEOREM BreakerIsSound == Spec => []BreakerCountsFailures
<1>1. ClientInv => BreakerCountsFailures
  BY DEF ClientInv, SoundBreaker, BreakerCountsFailures
<1>2. QED
  BY <1>1, ClientInvariant, PTL

(* The half-open slot is never lost: whoever holds it is still in flight    *)
(* and will report to the breaker, unless a contested key can end its       *)
(* reconciliation with a conflict.                                          *)
THEOREM SlotIsHeld == Spec => []ProbeHasCaller
<1>1. Init => ProbeInv
  BY DEF Init, ProbeInv, ProbeHasCaller, NewBreaker, Reconciles, IdleThread
<1>2. ClientInv /\ ClientInv' /\ ProbeInv /\ [Next]_vars => ProbeInv'
  <2> SUFFICES ASSUME ClientInv, ClientInv', ProbeInv, [Next]_vars PROVE ProbeInv'
    OBVIOUS
  <2>1. CASE UNCHANGED vars
    BY <2>1 DEF vars, ProbeInv, ProbeHasCaller, Reconciles, creates, request,
                InFlight, Contested, Known, Matches
  <2>2. CASE Cool
    BY <2>2, CoolKeepsSlot
  <2>3. ASSUME NEW t \in Threads, Call(t) \/ CallStep(t)
        PROVE  ProbeInv'
    BY <2>3, CallKeepsSlot, AskKeepsSlot, FindKeepsSlot, FindNothingKeepsSlot,
       SendKeepsSlot, ReportKeepsSlot, EndKeepsSlot DEF CallStep
  <2>4. QED
    BY <2>1, <2>2, <2>3 DEF Next
<1>3. ProbeInv => ProbeHasCaller
  BY DEF ProbeInv
<1>4. QED
  BY <1>1, <1>2, <1>3, ClientInvariant, PTL DEF Spec

=============================================================================

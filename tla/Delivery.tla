------------------------------ MODULE Delivery ------------------------------
(***************************************************************************)
(* Delivery of the events of one topic: a business transaction inserts an  *)
(* outbox row, OutboxRelayDaemon processes claim rows under a lease and    *)
(* publish them, and AtomicInboxConsumer processes of one group poll the   *)
(* topic, apply each event in a transaction together with its inbox row,   *)
(* and commit the consumed offset.                                         *)
(*                                                                         *)
(* A relay works in three steps (claim, publish, mark) and a consumer in   *)
(* three (poll, database transaction per record, offset commit); crashes,  *)
(* broker errors, lease expiry and group rebalances fall between them.     *)
(* The topic has one partition (ensure_topics).  Lease time is abstracted: *)
(* a lease is live until LeaseExpires.                                     *)
(***************************************************************************)
EXTENDS Integers, Sequences

CONSTANTS
  Events,          \* outbox rows of the topic, numbered in created_at order
  Parked,          \* those inserted with the far-future lease of ingest
  Unprocessable,   \* those whose handler raises an error on_error accepts
  Relays,          \* OutboxRelayDaemon processes
  Consumers,       \* AtomicInboxConsumer processes of the group
  Redpanda,        \* TRUE: RedpandaEventBroker; FALSE: InMemoryEventBroker
  MaxRecords,      \* max_records of a poll
  NoEvent, NoConsumer,
  MaxFaults        \* bound: crashes, broker errors, rebalances, late relays

ASSUME DeliveryAssumption ==
  /\ Events \subseteq Nat
  /\ Parked \subseteq Events /\ Unprocessable \subseteq Events
  /\ NoEvent \notin Events /\ NoConsumer \notin Consumers
  /\ Redpanda \in BOOLEAN
  /\ MaxRecords \in Nat \ {0} /\ MaxFaults \in Nat

VARIABLES
  outbox,      \* the row of each event
  relay,       \* each relay: what it claimed and how far it got
  log,         \* the records of the topic; record i has offset i - 1
  committed,   \* the committed offset of the group
  owner,       \* the group member that owns the partition
  consumer,    \* each consumer: its batch and where it is in it
  inbox,       \* events with an inbox row of this consumer group
  effects,     \* how many times the handler's writes were committed
  faults       \* bound: faults so far

relayVars == <<outbox, relay>>
consumerVars == <<committed, owner, consumer, inbox, effects>>
vars == <<relayVars, log, consumerVars, faults>>

Min2(a, b) == IF a <= b THEN a ELSE b
Max2(a, b) == IF a >= b THEN a ELSE b

Fault == faults < MaxFaults /\ faults' = faults + 1

IdleRelay == [pc |-> "idle", event |-> NoEvent]

(* The batch is records next .. last; a consumer fetches from position. *)
NewConsumer == [pc |-> "idle", position |-> 0, next |-> 0, last |-> 0]

Init ==
  /\ outbox = [e \in Events |-> "absent"]
  /\ relay = [r \in Relays |-> IdleRelay]
  /\ log = <<>>
  /\ committed = 0
  /\ owner = NoConsumer
  /\ consumer = [c \in Consumers |-> NewConsumer]
  /\ inbox = {}
  /\ effects = [e \in Events |-> 0]
  /\ faults = 0

-----------------------------------------------------------------------------
(* The outbox and its relay *)

(* The business transaction commits its row. *)
Emit(e) ==
  /\ outbox[e] = "absent"
  /\ \A d \in Events : d < e => outbox[d] # "absent"
  /\ outbox' = [outbox EXCEPT ![e] = IF e \in Parked THEN "parked" ELSE "free"]
  /\ UNCHANGED <<relay, log, consumerVars, faults>>

(* Unpublished, with no live lease. *)
Claimable == {e \in Events : outbox[e] = "free"}

Claim(r) ==
  /\ relay[r].pc = "idle"
  /\ \E e \in Claimable :
       /\ \A d \in Claimable : e <= d
       /\ outbox' = [outbox EXCEPT ![e] = "leased"]
       /\ relay' = [relay EXCEPT ![r] = [pc |-> "claimed", event |-> e]]
  /\ UNCHANGED <<log, consumerVars, faults>>

Held(e) == \E r \in Relays : relay[r].event = e

(* The lease of a relay that is gone runs out, or that of a late one. *)
LeaseExpires(e) ==
  /\ outbox[e] = "leased"
  /\ outbox' = [outbox EXCEPT ![e] = "free"]
  /\ IF Held(e) THEN Fault ELSE UNCHANGED faults
  /\ UNCHANGED <<relay, log, consumerVars>>

(* producer.send(...).get(): the producer's own retry may append twice. *)
Publish(r) ==
  /\ relay[r].pc = "claimed"
  /\ relay' = [relay EXCEPT ![r].pc = "sent"]
  /\ \/ log' = Append(log, relay[r].event) /\ UNCHANGED faults
     \/ log' = Append(Append(log, relay[r].event), relay[r].event) /\ Fault
  /\ UNCHANGED <<outbox, consumerVars>>

(* RedpandaBrokerUnavailableError ends the process; the record may or may   *)
(* not have reached the topic.                                              *)
PublishFails(r) ==
  /\ relay[r].pc = "claimed"
  /\ Fault
  /\ relay' = [relay EXCEPT ![r] = [IdleRelay EXCEPT !.pc = "down"]]
  /\ log' \in {log, Append(log, relay[r].event)}
  /\ UNCHANGED <<outbox, consumerVars>>

MarkPublished(r) ==
  /\ relay[r].pc = "sent"
  /\ outbox' = [outbox EXCEPT ![relay[r].event] = "published"]
  /\ relay' = [relay EXCEPT ![r] = IdleRelay]
  /\ UNCHANGED <<log, consumerVars, faults>>

RelayCrash(r) ==
  /\ relay[r].pc # "down"
  /\ Fault
  /\ relay' = [relay EXCEPT ![r] = [IdleRelay EXCEPT !.pc = "down"]]
  /\ UNCHANGED <<outbox, log, consumerVars>>

RelayRestart(r) ==
  /\ relay[r].pc = "down"
  /\ relay' = [relay EXCEPT ![r] = IdleRelay]
  /\ UNCHANGED <<outbox, log, consumerVars, faults>>

(* The operator's reconcile_outbox_leases releases every far-future lease. *)
Reconcile ==
  /\ \E e \in Events : outbox[e] = "parked"
  /\ outbox' = [e \in Events |->
       IF outbox[e] = "parked" THEN "free" ELSE outbox[e]]
  /\ UNCHANGED <<relay, log, consumerVars, faults>>

-----------------------------------------------------------------------------
(* The consumer group *)

Busy(c) == consumer[c].pc \in {"handling", "handled"}

AssignLatest(c) ==
  /\ Redpanda
  /\ consumer[c].pc = "idle" /\ owner # c
  /\ IF owner = NoConsumer THEN UNCHANGED faults ELSE Fault
  /\ owner' = c
  /\ consumer' = [consumer EXCEPT ![c].position = Len(log)]
  /\ UNCHANGED <<relayVars, log, committed, inbox, effects>>

(* The group coordinator gives the partition to c, which fetches from the   *)
(* committed offset; taking it from a live member is a rebalance.           *)
Assign(c) ==
  /\ Redpanda
  /\ consumer[c].pc = "idle" /\ owner # c
  /\ IF owner = NoConsumer THEN UNCHANGED faults ELSE Fault
  /\ owner' = c
  /\ consumer' = [consumer EXCEPT ![c].position = committed]
  /\ UNCHANGED <<relayVars, log, committed, inbox, effects>>

FetchFrom(c) == IF Redpanda THEN consumer[c].position ELSE committed

(* A Kafka fetch may return fewer records than asked for. *)
Poll(c) ==
  /\ consumer[c].pc = "idle"
  /\ Redpanda => owner = c
  /\ \E last \in FetchFrom(c) + 1 .. Min2(FetchFrom(c) + MaxRecords, Len(log)) :
       /\ Redpanda \/ last = Min2(FetchFrom(c) + MaxRecords, Len(log))
       /\ consumer' = [consumer EXCEPT ![c] =
            [pc |-> "handling", position |-> last,
             next |-> FetchFrom(c) + 1, last |-> last]]
  /\ UNCHANGED <<relayVars, log, committed, owner, inbox, effects, faults>>

HandleWithoutInbox(c) ==
  LET e == log[consumer[c].next]
  IN  /\ consumer[c].pc = "handling"
      /\ e \notin Unprocessable
      /\ effects' = [effects EXCEPT ![e] = @ + 1]
      /\ inbox' = inbox \cup {e}
      /\ consumer' = [consumer EXCEPT ![c].pc = "handled"]
      /\ UNCHANGED <<relayVars, log, committed, owner, faults>>

(* One database transaction: insert the inbox row, run the handler; a       *)
(* conflict on the inbox row means a duplicate, skipped without a write.    *)
Handle(c) ==
  LET e == log[consumer[c].next]
  IN  /\ consumer[c].pc = "handling"
      /\ e \notin Unprocessable
      /\ effects' = IF e \in inbox THEN effects ELSE [effects EXCEPT ![e] = @ + 1]
      /\ inbox' = inbox \cup {e}
      /\ consumer' = [consumer EXCEPT ![c].pc = "handled"]
      /\ UNCHANGED <<relayVars, log, committed, owner, faults>>

(* The next record of the batch, or the next poll. *)
Advance(me) ==
  IF me.next = me.last THEN [me EXCEPT !.pc = "idle"]
  ELSE [me EXCEPT !.pc = "handling", !.next = me.next + 1]

(* The handler raises, the transaction rolls back, and on_error swallows    *)
(* the error: no inbox row and no offset commit for this record.            *)
Discard(c) ==
  /\ consumer[c].pc = "handling"
  /\ log[consumer[c].next] \in Unprocessable
  /\ consumer' = [consumer EXCEPT ![c] = Advance(consumer[c])]
  /\ UNCHANGED <<relayVars, log, committed, owner, inbox, effects, faults>>

(* consumer.commit() commits the fetch position, whatever offset it is      *)
(* given; the in-memory broker takes the offset, and never goes back.       *)
CommittedOffset(c) ==
  IF Redpanda THEN consumer[c].position ELSE Max2(committed, consumer[c].next)

OwnsAnyway(c) == TRUE

Owns(c) == Redpanda => owner = c

CommitOffsetEarly(c) ==
  /\ Busy(c)
  /\ Owns(c)
  /\ committed' = CommittedOffset(c)
  /\ consumer' = [consumer EXCEPT ![c] = Advance(consumer[c])]
  /\ UNCHANGED <<relayVars, log, owner, inbox, effects, faults>>

CommitOffset(c) ==
  /\ consumer[c].pc = "handled"
  /\ Owns(c)
  /\ committed' = CommittedOffset(c)
  /\ consumer' = [consumer EXCEPT ![c] = Advance(consumer[c])]
  /\ UNCHANGED <<relayVars, log, owner, inbox, effects, faults>>

(* The process ends, or in memory its call of consume_batch does. *)
Leave(c) ==
  /\ consumer' = [consumer EXCEPT ![c] = [NewConsumer EXCEPT !.pc = "down"]]
  /\ owner' = IF owner = c THEN NoConsumer ELSE owner
  /\ UNCHANGED <<relayVars, log, committed, inbox, effects>>

(* The commit of a member that lost the partition raises. *)
CommitRejected(c) ==
  /\ consumer[c].pc = "handled"
  /\ ~Owns(c)
  /\ Leave(c)
  /\ UNCHANGED faults

(* A handler or broker error that on_error does not accept is re-raised out *)
(* of the batch, or the process crashes.                                    *)
ConsumerFails(c) ==
  /\ consumer[c].pc # "down"
  /\ Fault
  /\ Leave(c)

ConsumerRestart(c) ==
  /\ consumer[c].pc = "down"
  /\ consumer' = [consumer EXCEPT ![c] = NewConsumer]
  /\ UNCHANGED <<relayVars, log, committed, owner, inbox, effects, faults>>

-----------------------------------------------------------------------------
RelayStep(r) ==
  \/ Claim(r)
  \/ Publish(r)
  \/ MarkPublished(r)
  \/ RelayRestart(r)

ConsumerStep(c) ==
  \/ Assign(c)
  \/ Poll(c)
  \/ Handle(c)
  \/ Discard(c)
  \/ CommitOffset(c)
  \/ CommitRejected(c)
  \/ ConsumerRestart(c)

Next ==
  \/ \E e \in Events : Emit(e) \/ LeaseExpires(e)
  \/ \E r \in Relays : RelayStep(r) \/ PublishFails(r) \/ RelayCrash(r)
  \/ Reconcile
  \/ \E c \in Consumers : ConsumerStep(c) \/ ConsumerFails(c)

Spec == Init /\ [][Next]_vars

(* Leases run out, and relays and consumers that can take a step take it;   *)
(* an exited process is started again.  Emissions, faults and the           *)
(* operator's reconciliation are never forced.                              *)
FairSpec ==
  /\ Spec
  /\ \A e \in Events : WF_vars(LeaseExpires(e))
  /\ \A r \in Relays : WF_vars(RelayStep(r))
  /\ \A c \in Consumers : WF_vars(ConsumerStep(c))

-----------------------------------------------------------------------------
(* Properties *)

RelayState ==
  [pc : {"idle", "claimed", "sent", "down"}, event : Events \cup {NoEvent}]

ConsumerState ==
  [pc : {"idle", "handling", "handled", "down"},
   position : Nat, next : Nat, last : Nat]

(* The type of the state; offsets lie within the topic, and a batch within *)
(* what its consumer has fetched.                                          *)
TypeOK ==
  /\ outbox \in [Events -> {"absent", "free", "leased", "parked", "published"}]
  /\ relay \in [Relays -> RelayState]
  /\ log \in Seq(Events)
  /\ committed \in 0 .. Len(log)
  /\ owner \in Consumers \cup {NoConsumer}
  /\ consumer \in [Consumers -> ConsumerState]
  /\ \A c \in Consumers :
       /\ consumer[c].position <= Len(log)
       /\ Busy(c) => /\ 1 <= consumer[c].next
                     /\ consumer[c].next <= consumer[c].last
                     /\ consumer[c].last = consumer[c].position
  /\ inbox \subseteq Events
  /\ effects \in [Events -> Nat]
  /\ faults \in Nat

Sent(e) == \E i \in 1 .. Len(log) : log[i] = e

(* A row is marked published only once its record is in the topic,         *)
(* whichever relay sent it and whichever marks it.                         *)
PublishedWereSent == \A e \in Events : outbox[e] = "published" => Sent(e)

Done(i) == log[i] \in inbox \cup Unprocessable

(* How many records one commit may pass: Redpanda's passes the whole poll. *)
CommitSpan == IF Redpanda THEN MaxRecords ELSE 1

Covered(i) == \E j \in 1 .. i : i - j < CommitSpan /\ Done(j)

(* The committed offset skips only the rest of a poll: each record it       *)
(* passes is done (applied, or swallowed as unprocessable), or fewer than a *)
(* poll's records behind one that is.  With polls of one record, and in     *)
(* memory with any, a restart of the group skips nothing.                   *)
SkipsStayWithinAPoll == \A i \in 1 .. committed : Covered(i)

(* The committed offset never goes back, although members lose the         *)
(* partition with records in hand and commit late.                         *)
CommittedNeverDecreases == [][committed' >= committed]_vars

(* Why these are inductive: what is in the topic or in the inbox has been   *)
(* emitted, a relay that sent its event finds it in the topic, the inbox is *)
(* the record of the effects, and the owner, whose process runs, fetches    *)
(* past what is committed.                                                  *)
RecordsWereEmitted ==
  /\ \A i \in 1 .. Len(log) : outbox[log[i]] # "absent"
  /\ \A r \in Relays : relay[r].pc \in {"claimed", "sent"} =>
       /\ relay[r].event \in Events
       /\ outbox[relay[r].event] # "absent"
       /\ relay[r].pc = "sent" => Sent(relay[r].event)

InboxRecordsEffects ==
  /\ inbox \subseteq Events \ Unprocessable
  /\ \A e \in Events : effects[e] = IF e \in inbox THEN 1 ELSE 0

OwnerIsAhead ==
  /\ owner # NoConsumer => Redpanda
  /\ \A c \in Consumers : owner = c =>
       consumer[c].pc # "down" /\ committed <= consumer[c].position

DeliveryInv ==
  /\ TypeOK
  /\ PublishedWereSent
  /\ RecordsWereEmitted
  /\ InboxRecordsEffects
  /\ OwnerIsAhead

(* Why SkipsStayWithinAPoll is inductive: all that a consumer has left      *)
(* behind in the topic is covered, and the rest of its poll lies within a   *)
(* span of the record it has in hand.                                       *)
Reached(c) == IF Busy(c) THEN consumer[c].next - 1 ELSE consumer[c].position

BatchesAreReached ==
  \A c \in Consumers :
    /\ \A i \in 1 .. Reached(c) : Covered(i)
    /\ consumer[c].pc = "handled" => Done(consumer[c].next)
    /\ Redpanda /\ Busy(c) => consumer[c].last - consumer[c].next < MaxRecords

BatchInv == SkipsStayWithinAPoll /\ BatchesAreReached

(* The promise of EffectOnce, for events the handler can process. *)
Once == INSTANCE EffectOnce WITH
          Processable <- Events \ Unprocessable,
          emitted <- {e \in Events : outbox[e] # "absent"},
          applied <- effects

ImplementsEffectOnce == Once!Spec

Passed(e) == \E i \in 1 .. committed : log[i] = e

(* Every processable event that is not parked is applied, or the group has  *)
(* committed past a record of it: none is left in the outbox or the topic.  *)
EveryEventSettled ==
  \A e \in Events \ Unprocessable :
    outbox[e] \in {"free", "leased", "published"} ~> effects[e] > 0 \/ Passed(e)

(* Every processable event that is not parked is applied, whatever crashed, *)
(* expired, was rejected or was redelivered in between.                     *)
EveryEventApplied ==
  \A e \in Events \ Unprocessable :
    outbox[e] \in {"free", "leased", "published"} ~> effects[e] > 0

=============================================================================

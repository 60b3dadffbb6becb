--------------------------- MODULE DeliveryProofs ---------------------------
(* Proofs about the delivery of events for every set of events, relays and  *)
(* consumers, and for both brokers.                                         *)
EXTENDS Delivery, TLAPS

(* TypeOK and the invariants, split by the side of the topic they are about. *)
RelaySide ==
  /\ outbox \in [Events -> {"absent", "free", "leased", "parked", "published"}]
  /\ relay \in [Relays -> RelayState]
  /\ log \in Seq(Events)
  /\ PublishedWereSent
  /\ RecordsWereEmitted

OffsetsInRange ==
  /\ committed \in 0 .. Len(log)
  /\ consumer \in [Consumers -> ConsumerState]
  /\ \A c \in Consumers :
       /\ consumer[c].position <= Len(log)
       /\ Busy(c) => /\ 1 <= consumer[c].next
                     /\ consumer[c].next <= consumer[c].last
                     /\ consumer[c].last = consumer[c].position

ConsumerSide ==
  /\ OffsetsInRange
  /\ owner \in Consumers \cup {NoConsumer}
  /\ OwnerIsAhead
  /\ effects \in [Events -> Nat]
  /\ InboxRecordsEffects

LEMMA Sides ==
  DeliveryInv <=> RelaySide /\ ConsumerSide /\ faults \in Nat
<1>1. DeliveryInv => RelaySide /\ ConsumerSide /\ faults \in Nat
  BY DEF DeliveryInv, TypeOK, RelaySide, ConsumerSide, OffsetsInRange
<1>2. RelaySide /\ ConsumerSide /\ faults \in Nat => DeliveryInv
  BY DEF DeliveryInv, TypeOK, RelaySide, ConsumerSide, OffsetsInRange,
         InboxRecordsEffects
<1>3. QED
  BY <1>1, <1>2

LEMMA NextSides ==
  ASSUME RelaySide', ConsumerSide', faults' \in Nat
  PROVE  DeliveryInv'
BY DEF DeliveryInv, TypeOK, RelaySide, ConsumerSide, OffsetsInRange,
       InboxRecordsEffects

(* A publication, once or twice, keeps the records that were there. *)
LogGrows ==
  /\ log' \in Seq(Events)
  /\ Len(log) <= Len(log')
  /\ \A i \in 1 .. Len(log) : log'[i] = log[i]

LEMMA PublishedRecords ==
  ASSUME log \in Seq(Events), NEW e \in Events,
         log' \in {log, Append(log, e), Append(Append(log, e), e)}
  PROVE  /\ LogGrows
         /\ \A i \in 1 .. Len(log') : i \in 1 .. Len(log) \/ log'[i] = e
         /\ log' # log => Len(log') >= 1 /\ log'[Len(log')] = e
<1>1. CASE log' = log
  BY <1>1 DEF LogGrows
<1>2. CASE log' = Append(log, e)
  BY <1>2 DEF LogGrows
<1> DEFINE one == Append(log, e)
<1>3. /\ one \in Seq(Events)
      /\ Len(one) = Len(log) + 1
      /\ \A i \in 1 .. Len(log) : one[i] = log[i]
      /\ one[Len(one)] = e
  OBVIOUS
<1>4. CASE log' = Append(one, e)
  <2> HIDE DEF one
  <2>1. /\ log' \in Seq(Events)
        /\ Len(log') = Len(one) + 1
        /\ \A i \in 1 .. Len(one) : log'[i] = one[i]
        /\ log'[Len(log')] = e
    BY <1>3, <1>4
  <2>2. Len(log) \in Nat
    OBVIOUS
  <2>3. QED
    BY <1>3, <2>1, <2>2 DEF LogGrows
<1>5. QED
  BY <1>1, <1>2, <1>4

LEMMA SentStays ==
  ASSUME NEW e, LogGrows, log \in Seq(Events), Sent(e)
  PROVE  Sent(e)'
BY DEF Sent, LogGrows

-----------------------------------------------------------------------------
(* Steps of the relay side leave the consumer side as it is *)

LEMMA ConsumerSideStays ==
  ASSUME ConsumerSide, LogGrows, log \in Seq(Events), UNCHANGED consumerVars
  PROVE  ConsumerSide'
<1>1. OffsetsInRange'
  <2>1. committed' = committed /\ consumer' = consumer
    BY DEF consumerVars
  <2>2. Len(log) \in Nat /\ Len(log') \in Nat
    BY DEF LogGrows
  <2>3. /\ committed' \in 0 .. Len(log')
        /\ consumer' \in [Consumers -> ConsumerState]
    BY <2>1, <2>2 DEF ConsumerSide, OffsetsInRange, LogGrows
  <2>4. ASSUME NEW c \in Consumers
        PROVE  consumer[c].position <= Len(log')
    BY <2>2 DEF ConsumerSide, OffsetsInRange, LogGrows, ConsumerState
  <2>5. QED
    BY <2>1, <2>3, <2>4 DEF ConsumerSide, OffsetsInRange, Busy
<1>2. QED
  BY <1>1 DEF ConsumerSide, consumerVars, OwnerIsAhead, InboxRecordsEffects

(* What an outbox row may turn into while its relay or no relay acts. *)
LEMMA RowChanges ==
  ASSUME RelaySide,
         NEW rows,
         outbox' = rows,
         rows \in [Events -> {"absent", "free", "leased", "parked", "published"}],
         \A e \in Events : outbox[e] # "absent" => rows[e] # "absent",
         \A e \in Events : rows[e] = "published" => Sent(e),
         relay' = relay, log' = log
  PROVE  RelaySide'
<1>1. PublishedWereSent'
  BY DEF PublishedWereSent, Sent
<1>2. RecordsWereEmitted'
  <2>1. \A i \in 1 .. Len(log) : log[i] \in Events
    BY DEF RelaySide
  <2>2. QED
    BY <2>1 DEF RelaySide, RecordsWereEmitted, Sent
<1>3. QED
  BY <1>1, <1>2 DEF RelaySide

LEMMA EmitKeeps ==
  ASSUME RelaySide, NEW e \in Events, Emit(e)
  PROVE  RelaySide'
<1> DEFINE state == IF e \in Parked THEN "parked" ELSE "free"
           rows == [outbox EXCEPT ![e] = state]
<1>1. /\ outbox' = rows
      /\ relay' = relay /\ log' = log
  BY DEF Emit
<1>2. state \in {"parked", "free"}
  OBVIOUS
<1> HIDE DEF state
<1>3. /\ rows \in [Events -> {"absent", "free", "leased", "parked", "published"}]
      /\ \A d \in Events : rows[d] = IF d = e THEN state ELSE outbox[d]
  BY <1>2 DEF RelaySide
<1> HIDE DEF rows
<1>4. /\ \A d \in Events : outbox[d] # "absent" => rows[d] # "absent"
      /\ \A d \in Events : rows[d] = "published" => Sent(d)
  BY <1>2, <1>3 DEF RelaySide, PublishedWereSent
<1>5. QED
  BY <1>1, <1>3, <1>4, RowChanges

LEMMA ExpiryKeeps ==
  ASSUME RelaySide, NEW e \in Events, LeaseExpires(e)
  PROVE  RelaySide'
<1> DEFINE rows == [outbox EXCEPT ![e] = "free"]
<1>1. /\ outbox' = rows
      /\ relay' = relay /\ log' = log
  BY DEF LeaseExpires
<1>2. /\ rows \in [Events -> {"absent", "free", "leased", "parked", "published"}]
      /\ \A d \in Events : rows[d] = IF d = e THEN "free" ELSE outbox[d]
  BY DEF RelaySide
<1> HIDE DEF rows
<1>3. /\ \A d \in Events : outbox[d] # "absent" => rows[d] # "absent"
      /\ \A d \in Events : rows[d] = "published" => Sent(d)
  BY <1>2 DEF RelaySide, PublishedWereSent
<1>4. QED
  BY <1>1, <1>2, <1>3, RowChanges

LEMMA ReconcileKeeps ==
  ASSUME RelaySide, Reconcile
  PROVE  RelaySide'
<1> DEFINE rows == [e \in Events |->
                      IF outbox[e] = "parked" THEN "free" ELSE outbox[e]]
<1>1. /\ outbox' = rows
      /\ relay' = relay /\ log' = log
  BY DEF Reconcile
<1>2. /\ rows \in [Events -> {"absent", "free", "leased", "parked", "published"}]
      /\ \A e \in Events : outbox[e] # "absent" => rows[e] # "absent"
      /\ \A e \in Events : rows[e] = "published" => Sent(e)
  BY DEF RelaySide, PublishedWereSent
<1> HIDE DEF rows
<1>3. QED
  BY <1>1, <1>2, RowChanges

-----------------------------------------------------------------------------
(* Steps of a relay *)

(* A relay moves to state x, and the rows and the topic with it. *)
LEMMA RelayMoves ==
  ASSUME RelaySide,
         NEW r \in Relays, NEW x \in RelayState,
         relay' = [relay EXCEPT ![r] = x],
         outbox' \in [Events -> {"absent", "free", "leased", "parked", "published"}],
         \A e \in Events : outbox[e] # "absent" => outbox'[e] # "absent",
         LogGrows,
         \A i \in 1 .. Len(log') :
           i \in 1 .. Len(log) \/ outbox'[log'[i]] # "absent",
         \A e \in Events : outbox'[e] = "published" => Sent(e) \/ Sent(e)',
         x.pc \in {"claimed", "sent"} =>
           /\ x.event \in Events
           /\ outbox'[x.event] # "absent"
           /\ x.pc = "sent" => Sent(x.event)'
  PROVE  RelaySide'
<1>1. /\ relay' \in [Relays -> RelayState]
      /\ log' \in Seq(Events)
      /\ \A s \in Relays : relay'[s] = IF s = r THEN x ELSE relay[s]
  BY DEF RelaySide, LogGrows
<1>2. \A e : Sent(e) => Sent(e)'
  BY SentStays DEF RelaySide
<1>3. PublishedWereSent'
  BY <1>2 DEF PublishedWereSent
<1>4. \A i \in 1 .. Len(log') : outbox'[log'[i]] # "absent"
  <2>1. ASSUME NEW i \in 1 .. Len(log)
        PROVE  outbox'[log'[i]] # "absent"
    <3>1. log'[i] = log[i] /\ log[i] \in Events
      BY DEF RelaySide, LogGrows
    <3>2. QED
      BY <3>1 DEF RelaySide, RecordsWereEmitted
  <2>2. QED
    BY <2>1
<1>5. ASSUME NEW s \in Relays, relay'[s].pc \in {"claimed", "sent"}
      PROVE  /\ relay'[s].event \in Events
             /\ outbox'[relay'[s].event] # "absent"
             /\ relay'[s].pc = "sent" => Sent(relay[s].event)'
  <2>1. CASE s = r
    <3>1. relay'[s] = x
      BY <1>1, <2>1
    <3>2. PICK e : e = x.event
      OBVIOUS
    <3>3. e \in Events /\ outbox'[e] # "absent" /\ (x.pc = "sent" => Sent(e)')
      BY <1>5, <3>1, <3>2
    <3>4. QED
      BY <3>1, <3>2, <3>3 DEF Sent
  <2>2. CASE s # r
    <3>1. relay'[s] = relay[s]
      BY <1>1, <2>2
    <3>2. PICK e : e = relay[s].event
      OBVIOUS
    <3>3. e \in Events /\ outbox[e] # "absent" /\ (relay[s].pc = "sent" => Sent(e))
      BY <1>5, <3>1, <3>2 DEF RelaySide, RecordsWereEmitted
    <3>4. relay[s].pc = "sent" => Sent(e)'
      BY <1>2, <3>3
    <3>5. relay'[s].event = e
      BY <3>1, <3>2
    <3>6. QED
      BY <3>1, <3>3, <3>4, <3>5 DEF Sent
  <2>3. QED
    BY <2>1, <2>2
<1>6. RecordsWereEmitted'
  BY <1>4, <1>5 DEF RecordsWereEmitted, Sent
<1>7. QED
  BY <1>1, <1>3, <1>6 DEF RelaySide

LEMMA IdleRelays ==
  ASSUME RelaySide
  PROVE  /\ IdleRelay \in RelayState
         /\ [IdleRelay EXCEPT !.pc = "down"] \in RelayState
         /\ IdleRelay.pc = "idle"
         /\ [IdleRelay EXCEPT !.pc = "down"].pc = "down"
BY DEF IdleRelay, RelayState

LEMMA ClaimKeeps ==
  ASSUME RelaySide, NEW r \in Relays, Claim(r)
  PROVE  RelaySide'
<1>1. PICK e \in Events :
        /\ outbox[e] = "free"
        /\ outbox' = [outbox EXCEPT ![e] = "leased"]
        /\ relay' = [relay EXCEPT ![r] = [pc |-> "claimed", event |-> e]]
        /\ log' = log
  BY DEF Claim, Claimable
<1> DEFINE x == [pc |-> "claimed", event |-> e]
<1>2. x \in RelayState /\ x.pc = "claimed" /\ x.event = e
  BY DEF RelayState
<1>3. relay' = [relay EXCEPT ![r] = x]
  BY <1>1
<1> HIDE DEF x
<1>4. /\ outbox' \in [Events -> {"absent", "free", "leased", "parked", "published"}]
      /\ \A d \in Events : outbox'[d] = IF d = e THEN "leased" ELSE outbox[d]
  BY <1>1 DEF RelaySide
<1>5. LogGrows
  BY <1>1 DEF LogGrows, RelaySide
<1>6. \A d \in Events : outbox'[d] = "published" => Sent(d)
  BY <1>4 DEF RelaySide, PublishedWereSent
<1>7. QED
  BY <1>1, <1>2, <1>3, <1>4, <1>5, <1>6, RelayMoves

LEMMA PublishKeeps ==
  ASSUME RelaySide, NEW r \in Relays, Publish(r) \/ PublishFails(r)
  PROVE  RelaySide' /\ LogGrows
<1>1. PICK e \in Events :
        /\ e = relay[r].event
        /\ outbox[e] # "absent"
  BY DEF Publish, PublishFails, RelaySide, RecordsWereEmitted
<1>2. relay[r] \in RelayState /\ relay[r].event = e
  BY <1>1 DEF RelaySide
<1> DEFINE sent == [pc |-> "sent", event |-> e]
           down == [IdleRelay EXCEPT !.pc = "down"]
<1>3. /\ outbox' = outbox
      /\ log' \in {log, Append(log, e), Append(Append(log, e), e)}
      /\ \/ relay' = [relay EXCEPT ![r] = sent] /\ log' # log
         \/ relay' = [relay EXCEPT ![r] = down]
  <2>1. CASE Publish(r)
    <3>1. log \in Seq(Events) /\ Len(log) \in Nat
      BY DEF RelaySide
    <3>2. /\ Len(Append(log, e)) # Len(log)
          /\ Len(Append(Append(log, e), e)) # Len(log)
      BY <1>1, <3>1
    <3>3. [relay[r] EXCEPT !.pc = "sent"] = sent
      BY <1>2 DEF RelayState
    <3>4. relay' = [relay EXCEPT ![r] = sent]
      BY <2>1, <3>3 DEF Publish
    <3>5. QED
      BY <1>1, <2>1, <3>2, <3>4 DEF Publish, consumerVars
  <2>2. CASE PublishFails(r)
    BY <1>1, <2>2 DEF PublishFails
  <2>3. QED
    BY <2>1, <2>2
<1>4. /\ sent \in RelayState /\ sent.pc = "sent" /\ sent.event = e
      /\ down \in RelayState /\ down.pc = "down"
  BY <1>1, IdleRelays DEF RelayState
<1> HIDE DEF sent, down
<1>5. /\ LogGrows
      /\ \A i \in 1 .. Len(log') : i \in 1 .. Len(log) \/ log'[i] = e
      /\ log' # log => Len(log') >= 1 /\ log'[Len(log')] = e
  BY <1>1, <1>3, PublishedRecords DEF RelaySide
<1>6. log' # log => Sent(e)'
  BY <1>5 DEF Sent, LogGrows
<1>7. /\ outbox' \in [Events -> {"absent", "free", "leased", "parked", "published"}]
      /\ \A d \in Events : outbox'[d] = "published" => Sent(d)
      /\ outbox'[e] # "absent"
  BY <1>1, <1>3 DEF RelaySide, PublishedWereSent
<1>8. PICK x \in RelayState :
        /\ relay' = [relay EXCEPT ![r] = x]
        /\ x.pc \in {"claimed", "sent"} => x.event = e /\ Sent(e)'
  BY <1>3, <1>4, <1>6
<1>9. x.pc \in {"claimed", "sent"} =>
        /\ x.event \in Events
        /\ outbox'[x.event] # "absent"
        /\ x.pc = "sent" => Sent(x.event)'
  BY <1>7, <1>8
<1>10. \A i \in 1 .. Len(log') :
         i \in 1 .. Len(log) \/ outbox'[log'[i]] # "absent"
  BY <1>5, <1>7
<1>11. \A d \in Events : outbox[d] # "absent" => outbox'[d] # "absent"
  BY <1>3
<1>12. QED
  BY <1>5, <1>7, <1>8, <1>9, <1>10, <1>11, RelayMoves

LEMMA MarkKeeps ==
  ASSUME RelaySide, NEW r \in Relays, MarkPublished(r)
  PROVE  RelaySide'
<1> DEFINE e == relay[r].event
<1>1. e \in Events /\ Sent(e)
  BY DEF MarkPublished, RelaySide, RecordsWereEmitted
<1>2. /\ outbox' = [outbox EXCEPT ![e] = "published"]
      /\ relay' = [relay EXCEPT ![r] = IdleRelay]
      /\ log' = log
  BY DEF MarkPublished
<1> HIDE DEF e
<1>3. /\ outbox' \in [Events -> {"absent", "free", "leased", "parked", "published"}]
      /\ \A d \in Events : outbox'[d] = IF d = e THEN "published" ELSE outbox[d]
  BY <1>1, <1>2 DEF RelaySide
<1>4. LogGrows
  BY <1>2 DEF LogGrows, RelaySide
<1>5. \A d \in Events : outbox'[d] = "published" => Sent(d)
  BY <1>1, <1>3 DEF RelaySide, PublishedWereSent
<1>6. IdleRelay \in RelayState /\ IdleRelay.pc \notin {"claimed", "sent"}
  BY IdleRelays
<1>7. QED
  BY <1>2, <1>3, <1>4, <1>5, <1>6, RelayMoves

LEMMA RelayStopKeeps ==
  ASSUME RelaySide, NEW r \in Relays, RelayCrash(r) \/ RelayRestart(r)
  PROVE  RelaySide'
<1>1. PICK x \in {IdleRelay, [IdleRelay EXCEPT !.pc = "down"]} :
        relay' = [relay EXCEPT ![r] = x] /\ outbox' = outbox /\ log' = log
  BY DEF RelayCrash, RelayRestart
<1>2. x \in RelayState /\ x.pc \notin {"claimed", "sent"}
  BY <1>1, IdleRelays
<1>3. LogGrows
  BY <1>1 DEF LogGrows, RelaySide
<1>4. /\ outbox' \in [Events -> {"absent", "free", "leased", "parked", "published"}]
      /\ \A d \in Events : outbox'[d] = "published" => Sent(d)
  BY <1>1 DEF RelaySide, PublishedWereSent
<1>5. QED
  BY <1>1, <1>2, <1>3, <1>4, RelayMoves

-----------------------------------------------------------------------------
(* Steps of a consumer *)

InBatch(x) ==
  /\ x.position <= Len(log)
  /\ x.pc \in {"handling", "handled"} =>
       /\ 1 <= x.next
       /\ x.next <= x.last
       /\ x.last = x.position

(* A consumer moves to state x, and the group with it. *)
ConsumerMoves(c, x) ==
  /\ consumer' = [consumer EXCEPT ![c] = x]
  /\ log' = log
  /\ x \in ConsumerState
  /\ InBatch(x)
  /\ committed' \in 0 .. Len(log)
  /\ owner' \in Consumers \cup {NoConsumer}
  /\ owner' # NoConsumer => Redpanda
  /\ owner' = c => x.pc # "down" /\ committed' <= x.position
  /\ owner' # c => (owner' = owner /\ committed' = committed) \/ owner' = NoConsumer
  /\ effects' \in [Events -> Nat]
  /\ InboxRecordsEffects'

LEMMA ConsumerMoveKeeps ==
  ASSUME ConsumerSide, NEW c \in Consumers, NEW x, ConsumerMoves(c, x)
  PROVE  ConsumerSide'
<1>1. /\ consumer' \in [Consumers -> ConsumerState]
      /\ \A d \in Consumers : consumer'[d] = IF d = c THEN x ELSE consumer[d]
  BY DEF ConsumerMoves, ConsumerSide, OffsetsInRange
<1>2. ASSUME NEW d \in Consumers
      PROVE  /\ consumer'[d].position <= Len(log')
             /\ Busy(d)' => /\ 1 <= consumer'[d].next
                            /\ consumer'[d].next <= consumer'[d].last
                            /\ consumer'[d].last = consumer'[d].position
  <2>1. CASE d = c
    BY <1>1, <2>1 DEF ConsumerMoves, InBatch, Busy
  <2>2. CASE d # c
    BY <1>1, <2>2 DEF ConsumerMoves, ConsumerSide, OffsetsInRange, Busy
  <2>3. QED
    BY <2>1, <2>2
<1>3. OffsetsInRange'
  BY <1>1, <1>2 DEF OffsetsInRange, ConsumerMoves
<1>4. ASSUME NEW d \in Consumers, owner' = d
      PROVE  consumer'[d].pc # "down" /\ committed' <= consumer'[d].position
  <2>1. CASE d = c
    BY <1>1, <1>4, <2>1 DEF ConsumerMoves
  <2>2. CASE d # c
    <3>1. d # NoConsumer
      BY DeliveryAssumption
    <3>2. owner = d /\ committed' = committed
      BY <1>4, <2>2, <3>1 DEF ConsumerMoves
    <3>3. QED
      BY <1>1, <2>2, <3>2 DEF ConsumerSide, OwnerIsAhead
  <2>3. QED
    BY <2>1, <2>2
<1>5. OwnerIsAhead'
  BY <1>4 DEF OwnerIsAhead, ConsumerMoves
<1>6. QED
  BY <1>3, <1>5 DEF ConsumerSide, ConsumerMoves

(* What the invariant says of the consumer that is about to move. *)
LEMMA Mover ==
  ASSUME ConsumerSide, log \in Seq(Events), NEW c \in Consumers
  PROVE  /\ consumer[c] \in ConsumerState
         /\ InBatch(consumer[c])
         /\ Busy(c) => consumer[c].next \in 1 .. Len(log)
         /\ Len(log) \in Nat
         /\ committed \in 0 .. Len(log)
         /\ NoConsumer \notin Consumers
<1>1. consumer[c] \in ConsumerState /\ Len(log) \in Nat
  BY DEF ConsumerSide, OffsetsInRange
<1>2. /\ consumer[c].position <= Len(log)
      /\ Busy(c) => /\ 1 <= consumer[c].next
                    /\ consumer[c].next <= consumer[c].last
                    /\ consumer[c].last = consumer[c].position
      /\ committed \in 0 .. Len(log)
  BY DEF ConsumerSide, OffsetsInRange
<1>3. QED
  BY <1>1, <1>2, DeliveryAssumption DEF InBatch, Busy, ConsumerState

LEMMA AssignMoves ==
  ASSUME ConsumerSide, log \in Seq(Events), NEW c \in Consumers, Assign(c)
  PROVE  \E x : ConsumerMoves(c, x)
<1> DEFINE x == [consumer[c] EXCEPT !.position = committed]
<1>1. x \in ConsumerState /\ x.pc = "idle" /\ x.position = committed
  BY Mover DEF Assign, ConsumerState
<1>2. /\ consumer' = [consumer EXCEPT ![c] = x]
      /\ owner' = c /\ Redpanda /\ committed' = committed
      /\ inbox' = inbox /\ effects' = effects /\ log' = log
  BY DEF Assign
<1> HIDE DEF x
<1>3. InBatch(x)
  BY <1>1, Mover DEF InBatch
<1>4. ConsumerMoves(c, x)
  BY <1>1, <1>2, <1>3, Mover
     DEF ConsumerMoves, ConsumerSide, InboxRecordsEffects
<1>5. QED
  BY <1>4

(* The records a poll takes lie between the fetch position and the end. *)
LEMMA PolledBatch ==
  ASSUME ConsumerSide, log \in Seq(Events), NEW c \in Consumers, Poll(c)
  PROVE  \E last \in Nat :
           /\ FetchFrom(c) \in Nat
           /\ FetchFrom(c) + 1 <= last
           /\ last <= FetchFrom(c) + MaxRecords
           /\ last <= Len(log)
           /\ consumer' = [consumer EXCEPT ![c] =
                [pc |-> "handling", position |-> last,
                 next |-> FetchFrom(c) + 1, last |-> last]]
<1>1. FetchFrom(c) \in Nat /\ Len(log) \in Nat /\ MaxRecords \in Nat
  BY Mover, DeliveryAssumption DEF FetchFrom, ConsumerState
<1>2. PICK last \in FetchFrom(c) + 1
                      .. Min2(FetchFrom(c) + MaxRecords, Len(log)) :
        consumer' = [consumer EXCEPT ![c] =
          [pc |-> "handling", position |-> last,
           next |-> FetchFrom(c) + 1, last |-> last]]
  BY DEF Poll
<1>3. /\ Min2(FetchFrom(c) + MaxRecords, Len(log)) \in Nat
      /\ Min2(FetchFrom(c) + MaxRecords, Len(log)) <= FetchFrom(c) + MaxRecords
      /\ Min2(FetchFrom(c) + MaxRecords, Len(log)) <= Len(log)
  BY <1>1 DEF Min2
<1> DEFINE limit == Min2(FetchFrom(c) + MaxRecords, Len(log))
<1>4. /\ last \in Nat
      /\ FetchFrom(c) + 1 <= last
      /\ last <= limit
  <2> HIDE DEF limit
  <2>1. last \in FetchFrom(c) + 1 .. limit /\ limit \in Nat
    BY <1>2, <1>3 DEF limit
  <2>2. QED
    BY <1>1, <2>1
<1>5. last <= FetchFrom(c) + MaxRecords /\ last <= Len(log)
  <2> HIDE DEF limit
  <2>1. limit \in Nat /\ limit <= FetchFrom(c) + MaxRecords /\ limit <= Len(log)
    BY <1>3 DEF limit
  <2>2. QED
    BY <1>1, <1>4, <2>1
<1>6. QED
  BY <1>1, <1>2, <1>4, <1>5

LEMMA PollMoves ==
  ASSUME ConsumerSide, log \in Seq(Events), NEW c \in Consumers, Poll(c)
  PROVE  \E x : ConsumerMoves(c, x)
<1> DEFINE from == FetchFrom(c)
<1>1. PICK last \in Nat :
        /\ from \in Nat
        /\ from + 1 <= last
        /\ last <= Len(log)
        /\ consumer' = [consumer EXCEPT ![c] =
             [pc |-> "handling", position |-> last,
              next |-> from + 1, last |-> last]]
  BY PolledBatch
<1>2. owner = c => committed <= from
  BY Mover DEF FetchFrom, ConsumerSide, OwnerIsAhead
<1> HIDE DEF from
<1> DEFINE x == [pc |-> "handling", position |-> last,
                 next |-> from + 1, last |-> last]
<1>3. /\ x \in ConsumerState
      /\ x.pc = "handling" /\ x.position = last
      /\ x.next = from + 1 /\ x.last = last
  BY <1>1 DEF ConsumerState
<1>4. consumer' = [consumer EXCEPT ![c] = x]
  BY <1>1
<1> HIDE DEF x
<1>5. InBatch(x)
  BY <1>1, <1>3 DEF InBatch
<1>6. owner = c => committed <= x.position
  BY <1>1, <1>2, <1>3, Mover
<1>7. /\ owner' = owner /\ committed' = committed
      /\ inbox' = inbox /\ effects' = effects /\ log' = log
  BY DEF Poll
<1>8. ConsumerMoves(c, x)
  BY <1>3, <1>4, <1>5, <1>6, <1>7, Mover
     DEF ConsumerMoves, ConsumerSide, OwnerIsAhead, InboxRecordsEffects
<1>9. QED
  BY <1>8

LEMMA HandleMoves ==
  ASSUME ConsumerSide, log \in Seq(Events), NEW c \in Consumers, Handle(c)
  PROVE  \E x : ConsumerMoves(c, x)
<1>1. PICK e \in Events : e = log[consumer[c].next]
  <2>1. consumer[c].next \in 1 .. Len(log)
    BY Mover DEF Handle, Busy
  <2>2. QED
    BY <2>1
<1>2. /\ e \notin Unprocessable
      /\ effects' = IF e \in inbox THEN effects ELSE [effects EXCEPT ![e] = @ + 1]
      /\ inbox' = inbox \cup {e}
      /\ consumer[c].pc = "handling"
      /\ consumer' = [consumer EXCEPT ![c].pc = "handled"]
      /\ owner' = owner /\ committed' = committed /\ log' = log
  BY <1>1 DEF Handle
<1> DEFINE x == [consumer[c] EXCEPT !.pc = "handled"]
<1>3. /\ x \in ConsumerState
      /\ x.pc = "handled" /\ x.position = consumer[c].position
      /\ x.next = consumer[c].next /\ x.last = consumer[c].last
  BY Mover DEF ConsumerState
<1>4. consumer' = [consumer EXCEPT ![c] = x]
  BY <1>2
<1> HIDE DEF x
<1>5. InBatch(x)
  BY <1>2, <1>3, Mover DEF InBatch
<1>6. effects' \in [Events -> Nat] /\ InboxRecordsEffects'
  BY <1>1, <1>2 DEF ConsumerSide, InboxRecordsEffects
<1>7. ConsumerMoves(c, x)
  BY <1>2, <1>3, <1>4, <1>5, <1>6, Mover
     DEF ConsumerMoves, ConsumerSide, OwnerIsAhead
<1>8. QED
  BY <1>7

(* Where a consumer goes after a record. *)
LEMMA Advanced ==
  ASSUME NEW me \in ConsumerState, InBatch(me),
         me.pc \in {"handling", "handled"}, Len(log) \in Nat,
         NEW x, x = Advance(me)
  PROVE  /\ x \in ConsumerState
         /\ InBatch(x)
         /\ x.position = me.position
         /\ x.last = me.last
         /\ \/ x.pc = "idle" /\ me.next = me.last
            \/ x.pc = "handling" /\ x.next = me.next + 1 /\ me.next # me.last
<1>1. CASE me.next = me.last
  <2>1. x = [me EXCEPT !.pc = "idle"]
    BY <1>1 DEF Advance
  <2>2. QED
    BY <1>1, <2>1 DEF ConsumerState, InBatch
<1>2. CASE me.next # me.last
  <2>1. x = [me EXCEPT !.pc = "handling", !.next = me.next + 1]
    BY <1>2 DEF Advance
  <2>2. /\ x \in ConsumerState
        /\ x.pc = "handling" /\ x.next = me.next + 1
        /\ x.position = me.position /\ x.last = me.last
    <3> DEFINE n == me.next + 1
    <3>1. n \in Nat
      BY DEF ConsumerState
    <3>2. x = [me EXCEPT !.pc = "handling", !.next = n]
      BY <2>1
    <3> HIDE DEF n
    <3>3. /\ x \in ConsumerState
          /\ x.pc = "handling" /\ x.next = n
          /\ x.position = me.position /\ x.last = me.last
      BY <3>1, <3>2 DEF ConsumerState
    <3>4. QED
      BY <3>3 DEF n
  <2>3. me.next \in Nat /\ me.last \in Nat
    BY DEF ConsumerState
  <2>4. /\ 1 <= me.next /\ me.next <= me.last /\ me.last = me.position
        /\ me.position <= Len(log)
    BY DEF InBatch
  <2>5. 1 <= me.next + 1 /\ me.next + 1 <= me.last
    BY <1>2, <2>3, <2>4
  <2>6. QED
    BY <1>2, <2>2, <2>4, <2>5 DEF InBatch
<1>3. QED
  BY <1>1, <1>2

LEMMA DiscardMoves ==
  ASSUME ConsumerSide, log \in Seq(Events), NEW c \in Consumers, Discard(c)
  PROVE  \E x : ConsumerMoves(c, x)
<1>1. PICK x : x = Advance(consumer[c])
  OBVIOUS
<1>2. /\ consumer[c].pc = "handling"
      /\ consumer' = [consumer EXCEPT ![c] = x]
      /\ owner' = owner /\ committed' = committed
      /\ inbox' = inbox /\ effects' = effects /\ log' = log
  BY <1>1 DEF Discard
<1>3. /\ x \in ConsumerState /\ InBatch(x)
      /\ x.position = consumer[c].position /\ x.pc # "down"
  BY <1>1, <1>2, Mover, Advanced
<1>4. ConsumerMoves(c, x)
  BY <1>2, <1>3, Mover
     DEF ConsumerMoves, ConsumerSide, OwnerIsAhead, InboxRecordsEffects
<1>5. QED
  BY <1>4

LEMMA CommitMoves ==
  ASSUME ConsumerSide, log \in Seq(Events), NEW c \in Consumers, CommitOffset(c)
  PROVE  \E x : ConsumerMoves(c, x)
<1>1. PICK x : x = Advance(consumer[c])
  OBVIOUS
<1>2. /\ consumer[c].pc = "handled"
      /\ Redpanda => owner = c
      /\ committed' = CommittedOffset(c)
      /\ consumer' = [consumer EXCEPT ![c] = x]
      /\ owner' = owner
      /\ inbox' = inbox /\ effects' = effects /\ log' = log
  BY <1>1 DEF CommitOffset, Owns
<1>3. /\ x \in ConsumerState /\ InBatch(x)
      /\ x.position = consumer[c].position /\ x.pc # "down"
  BY <1>1, <1>2, Mover, Advanced
<1>4. /\ consumer[c].position \in 0 .. Len(log)
      /\ consumer[c].next \in 0 .. Len(log)
      /\ committed \in 0 .. Len(log)
  BY <1>2, Mover DEF InBatch, ConsumerState, Busy
<1>5. committed' \in 0 .. Len(log)
  BY <1>2, <1>4 DEF CommittedOffset, Max2
<1>6. owner' # NoConsumer => Redpanda
  BY <1>2 DEF ConsumerSide, OwnerIsAhead
<1>7. owner' = c => committed' <= x.position
  <2>1. ASSUME owner' = c
        PROVE  committed' = x.position
    BY <1>2, <1>3, <1>6, <2>1, Mover DEF CommittedOffset
  <2>2. QED
    BY <1>3, <2>1 DEF ConsumerState
<1>8. owner' # c => owner' = NoConsumer
  BY <1>2, <1>6
<1>9. ConsumerMoves(c, x)
  BY <1>2, <1>3, <1>5, <1>6, <1>7, <1>8
     DEF ConsumerMoves, ConsumerSide, InboxRecordsEffects
<1>10. QED
  BY <1>9

LEMMA LeaveMoves ==
  ASSUME ConsumerSide, log \in Seq(Events), NEW c \in Consumers, Leave(c)
  PROVE  \E x : ConsumerMoves(c, x)
<1> DEFINE x == [NewConsumer EXCEPT !.pc = "down"]
<1>1. x \in ConsumerState /\ InBatch(x) /\ x.pc = "down"
  BY Mover DEF NewConsumer, ConsumerState, InBatch
<1>2. /\ consumer' = [consumer EXCEPT ![c] = x]
      /\ owner' = IF owner = c THEN NoConsumer ELSE owner
      /\ committed' = committed
      /\ inbox' = inbox /\ effects' = effects /\ log' = log
  BY DEF Leave
<1> HIDE DEF x
<1>3. ConsumerMoves(c, x)
  BY <1>1, <1>2, Mover
     DEF ConsumerMoves, ConsumerSide, OwnerIsAhead, InboxRecordsEffects
<1>4. QED
  BY <1>3

LEMMA RestartMoves ==
  ASSUME ConsumerSide, log \in Seq(Events), NEW c \in Consumers,
         ConsumerRestart(c)
  PROVE  \E x : ConsumerMoves(c, x)
<1>1. NewConsumer \in ConsumerState /\ InBatch(NewConsumer)
  BY Mover DEF NewConsumer, ConsumerState, InBatch
<1>2. /\ consumer[c].pc = "down"
      /\ consumer' = [consumer EXCEPT ![c] = NewConsumer]
      /\ owner' = owner /\ committed' = committed
      /\ inbox' = inbox /\ effects' = effects /\ log' = log
  BY DEF ConsumerRestart
<1>3. owner # c
  BY <1>2 DEF ConsumerSide, OwnerIsAhead
<1>4. ConsumerMoves(c, NewConsumer)
  BY <1>1, <1>2, <1>3, Mover
     DEF ConsumerMoves, ConsumerSide, OwnerIsAhead, InboxRecordsEffects
<1>5. QED
  BY <1>4

-----------------------------------------------------------------------------
(* The invariant, type correctness, and the order of commits *)

LEMMA InitDeliveryInv ==
  ASSUME Init
  PROVE  DeliveryInv
<1>1. RelaySide
  BY DEF Init, RelaySide, IdleRelay, RelayState, PublishedWereSent,
         RecordsWereEmitted
<1>2. OffsetsInRange
  BY DEF Init, OffsetsInRange, NewConsumer, ConsumerState, Busy
<1>3. ConsumerSide
  BY <1>2, DeliveryAssumption
     DEF Init, ConsumerSide, OwnerIsAhead, InboxRecordsEffects
<1>4. faults \in Nat
  BY DEF Init
<1>5. QED
  BY <1>1, <1>3, <1>4, Sides

(* Either side of the topic moves, and the other keeps its variables. *)
RelaySideMoves == UNCHANGED consumerVars /\ LogGrows

ConsumerActs(c) ==
  \/ Assign(c) \/ Poll(c) \/ Handle(c) \/ Discard(c) \/ CommitOffset(c)
  \/ Leave(c) \/ ConsumerRestart(c)

LEMMA StepSides ==
  ASSUME RelaySide, ConsumerSide, Next
  PROVE  \/ RelaySide' /\ RelaySideMoves
         \/ \E c \in Consumers : ConsumerActs(c) /\ UNCHANGED <<relayVars, log>>
<1>1. log' = log => LogGrows
  BY DEF LogGrows, RelaySide
<1>2. ASSUME NEW e \in Events, Emit(e) \/ LeaseExpires(e)
      PROVE  RelaySide' /\ RelaySideMoves
  BY <1>1, <1>2, EmitKeeps, ExpiryKeeps DEF RelaySideMoves, Emit, LeaseExpires
<1>3. ASSUME Reconcile
      PROVE  RelaySide' /\ RelaySideMoves
  BY <1>1, <1>3, ReconcileKeeps DEF RelaySideMoves, Reconcile
<1>4. ASSUME NEW r \in Relays,
             Claim(r) \/ MarkPublished(r) \/ RelayCrash(r) \/ RelayRestart(r)
      PROVE  RelaySide' /\ RelaySideMoves
  BY <1>1, <1>4, ClaimKeeps, MarkKeeps, RelayStopKeeps
     DEF RelaySideMoves, Claim, MarkPublished, RelayCrash, RelayRestart
<1>5. ASSUME NEW r \in Relays, Publish(r) \/ PublishFails(r)
      PROVE  RelaySide' /\ RelaySideMoves
  BY <1>5, PublishKeeps DEF RelaySideMoves, Publish, PublishFails
<1>6. ASSUME NEW c \in Consumers, ConsumerStep(c) \/ ConsumerFails(c)
      PROVE  ConsumerActs(c) /\ UNCHANGED <<relayVars, log>>
  <2>1. ConsumerActs(c)
    BY <1>6 DEF ConsumerStep, ConsumerFails, CommitRejected, ConsumerActs
  <2>2. UNCHANGED <<relayVars, log>>
    BY <2>1 DEF ConsumerActs, Assign, Poll, Handle, Discard, CommitOffset,
                Leave, ConsumerRestart
  <2>3. QED
    BY <2>1, <2>2
<1>7. QED
  BY <1>2, <1>3, <1>4, <1>5, <1>6 DEF Next, RelayStep

LEMMA ConsumerActMoves ==
  ASSUME ConsumerSide, log \in Seq(Events), NEW c \in Consumers,
         ConsumerActs(c)
  PROVE  \E x : ConsumerMoves(c, x)
BY AssignMoves, PollMoves, HandleMoves, DiscardMoves, CommitMoves, LeaveMoves,
   RestartMoves DEF ConsumerActs

LEMMA FaultsStayNat ==
  ASSUME faults \in Nat, Next
  PROVE  faults' \in Nat
<1>1. Fault \/ UNCHANGED faults
  BY DEF Next, Emit, LeaseExpires, RelayStep, Claim, Publish, MarkPublished,
         RelayRestart, PublishFails, RelayCrash, Reconcile, ConsumerStep,
         Assign, Poll, Handle, Discard, CommitOffset, CommitRejected,
         ConsumerRestart, ConsumerFails
<1>2. QED
  BY <1>1 DEF Fault

LEMMA StepDeliveryInv ==
  ASSUME DeliveryInv, [Next]_vars
  PROVE  DeliveryInv'
<1>1. RelaySide /\ ConsumerSide /\ faults \in Nat /\ log \in Seq(Events)
  BY Sides DEF RelaySide
<1>2. CASE UNCHANGED vars
  BY <1>2 DEF vars, relayVars, consumerVars, DeliveryInv, TypeOK,
              PublishedWereSent, Sent, RecordsWereEmitted,
              InboxRecordsEffects, OwnerIsAhead, Busy
<1>3. CASE Next
  <2>1. faults' \in Nat
    BY <1>1, <1>3, FaultsStayNat
  <2>2. CASE RelaySide' /\ RelaySideMoves
    <3>1. ConsumerSide'
      BY <1>1, <2>2, ConsumerSideStays DEF RelaySideMoves
    <3>2. QED
      BY <2>1, <2>2, <3>1, NextSides
  <2>3. ASSUME NEW c \in Consumers,
               ConsumerActs(c), UNCHANGED <<relayVars, log>>
        PROVE  DeliveryInv'
    <3>1. ConsumerSide'
      BY <1>1, <2>3, ConsumerActMoves, ConsumerMoveKeeps
    <3>2. RelaySide'
      BY <1>1, <2>3 DEF RelaySide, relayVars, PublishedWereSent, Sent,
                        RecordsWereEmitted
    <3>3. QED
      BY <2>1, <3>1, <3>2, NextSides
  <2>4. QED
    BY <1>1, <1>3, <2>2, <2>3, StepSides
<1>4. QED
  BY <1>2, <1>3

(* The inductive invariant of delivery holds in every reachable state. *)
THEOREM DeliveryInvariant == Spec => []DeliveryInv
<1>1. Init => DeliveryInv
  BY InitDeliveryInv
<1>2. DeliveryInv /\ [Next]_vars => DeliveryInv'
  BY StepDeliveryInv
<1>3. QED
  BY <1>1, <1>2, PTL DEF Spec

(* Every reachable state is well typed, and every offset within the topic. *)
THEOREM DeliveryTypeCorrect == Spec => []TypeOK
<1>1. DeliveryInv => TypeOK
  BY DEF DeliveryInv
<1>2. QED
  BY <1>1, DeliveryInvariant, PTL

(* A published row has its record in the topic, however many relays share   *)
(* it, lose its lease or crash on it.                                       *)
THEOREM PublishedRowsWereSent == Spec => []PublishedWereSent
<1>1. DeliveryInv => PublishedWereSent
  BY DEF DeliveryInv
<1>2. QED
  BY <1>1, DeliveryInvariant, PTL

(* The committed offset never goes back, on either broker. *)
THEOREM OffsetsNeverGoBack == Spec => CommittedNeverDecreases
<1>1. ASSUME DeliveryInv, [Next]_vars
      PROVE  [committed' >= committed]_vars
  <2>1. RelaySide /\ ConsumerSide /\ log \in Seq(Events)
    BY <1>1, Sides DEF RelaySide
  <2>2. committed \in Nat
    BY <2>1 DEF ConsumerSide, OffsetsInRange
  <2>3. ASSUME NEW c \in Consumers, CommitOffset(c)
        PROVE  committed' >= committed
    <3>1. consumer[c].next \in Nat /\ consumer[c].position \in Nat
      BY <2>1, Mover DEF ConsumerState
    <3>2. Redpanda => committed <= consumer[c].position
      BY <2>1, <2>3 DEF CommitOffset, Owns, ConsumerSide, OwnerIsAhead
    <3>3. committed' = CommittedOffset(c)
      BY <2>3 DEF CommitOffset
    <3>4. QED
      BY <2>2, <3>1, <3>2, <3>3 DEF CommittedOffset, Max2
  <2>4. CASE Next
    <3>1. \/ committed' = committed
          \/ \E c \in Consumers : CommitOffset(c)
      BY <2>1, <2>4, StepSides
         DEF RelaySideMoves, consumerVars, ConsumerActs, Assign, Poll, Handle,
             Discard, Leave, ConsumerRestart
    <3>2. QED
      BY <2>2, <2>3, <3>1
  <2>5. QED
    BY <1>1, <2>4
<1>2. QED
  BY <1>1, DeliveryInvariant, PTL DEF Spec, CommittedNeverDecreases

-----------------------------------------------------------------------------
(* What a commit skips stays within a poll *)

LEMMA SpanIsPositive == CommitSpan \in Nat /\ CommitSpan >= 1
BY DeliveryAssumption DEF CommitSpan

LEMMA DoneIsCovered ==
  ASSUME NEW i \in Nat \ {0}, Done(i)
  PROVE  Covered(i)
<1>1. i \in 1 .. i /\ i - i < CommitSpan
  BY SpanIsPositive
<1>2. QED
  BY <1>1 DEF Covered

LEMMA CoveredStays ==
  ASSUME \A j : Done(j) => Done(j)', NEW i, Covered(i)
  PROVE  Covered(i)'
BY DEF Covered

ReachedBy(x) == IF x.pc \in {"handling", "handled"} THEN x.next - 1 ELSE x.position

(* A consumer moves to state x, having left behind only what is covered. *)
BatchMoves(c, x) ==
  /\ consumer' = [consumer EXCEPT ![c] = x]
  /\ x \in ConsumerState
  /\ log' = log
  /\ inbox \subseteq inbox'
  /\ committed' \in Nat
  /\ \A i \in 1 .. committed' : Covered(i)'
  /\ \A i \in 1 .. ReachedBy(x) : Covered(i)'
  /\ x.pc = "handled" => Done(x.next)'
  /\ Redpanda /\ x.pc \in {"handling", "handled"} => x.last - x.next < MaxRecords

LEMMA BatchMoveKeeps ==
  ASSUME ConsumerSide, BatchInv, NEW c \in Consumers, NEW x, BatchMoves(c, x)
  PROVE  BatchInv'
<1>1. \A d \in Consumers : consumer'[d] = IF d = c THEN x ELSE consumer[d]
  BY DEF BatchMoves, ConsumerSide, OffsetsInRange
<1>2. \A i : Done(i) => Done(i)'
  BY DEF BatchMoves, Done
<1>2a. \A i : Covered(i) => Covered(i)'
  BY <1>2, CoveredStays
<1>3. ASSUME NEW d \in Consumers
      PROVE  /\ \A i \in 1 .. Reached(d)' : Covered(i)'
             /\ consumer'[d].pc = "handled" => Done(consumer[d].next)'
             /\ Redpanda /\ Busy(d)' =>
                  consumer'[d].last - consumer'[d].next < MaxRecords
  <2>1. PICK y : y = consumer'[d]
    OBVIOUS
  <2>2. /\ \A i \in 1 .. ReachedBy(y) : Covered(i)'
        /\ y.pc = "handled" => Done(y.next)'
        /\ Redpanda /\ y.pc \in {"handling", "handled"} =>
             y.last - y.next < MaxRecords
    <3>1. CASE d = c
      BY <1>1, <2>1, <3>1 DEF BatchMoves
    <3>2. CASE d # c
      <4>1. y = consumer[d]
        BY <1>1, <2>1, <3>2
      <4>2. /\ \A i \in 1 .. ReachedBy(y) : Covered(i)
            /\ y.pc = "handled" => Done(y.next)
            /\ Redpanda /\ y.pc \in {"handling", "handled"} =>
                 y.last - y.next < MaxRecords
        BY <4>1 DEF BatchInv, BatchesAreReached, Reached, ReachedBy, Busy
      <4>3. QED
        BY <1>2, <1>2a, <4>2
    <3>3. QED
      BY <3>1, <3>2
  <2>3. QED
    BY <2>1, <2>2 DEF Reached, ReachedBy, Busy
<1>4. BatchesAreReached'
  BY <1>3 DEF BatchesAreReached
<1>5. SkipsStayWithinAPoll'
  BY DEF BatchMoves, SkipsStayWithinAPoll
<1>6. QED
  BY <1>4, <1>5 DEF BatchInv

(* What BatchInv says of the consumer that is about to move. *)
LEMMA BatchMover ==
  ASSUME ConsumerSide, BatchInv, log \in Seq(Events), NEW c \in Consumers,
         NEW me, me = consumer[c]
  PROVE  /\ me \in ConsumerState /\ InBatch(me)
         /\ me.next \in Nat /\ me.last \in Nat /\ me.position \in Nat
         /\ committed \in Nat
         /\ \A i \in 1 .. committed : Covered(i)
         /\ \A i \in 1 .. ReachedBy(me) : Covered(i)
         /\ me.pc = "handled" => Done(me.next)
         /\ Redpanda /\ me.pc \in {"handling", "handled"} =>
             me.last - me.next < MaxRecords
<1>1. me \in ConsumerState /\ InBatch(me) /\ committed \in Nat
  BY Mover
<1>2. me.next \in Nat /\ me.last \in Nat /\ me.position \in Nat
  BY <1>1 DEF ConsumerState
<1>3. QED
  BY <1>1, <1>2 DEF BatchInv, BatchesAreReached, Reached, ReachedBy, Busy,
                    SkipsStayWithinAPoll

LEMMA PollBatch ==
  ASSUME ConsumerSide, BatchInv, log \in Seq(Events),
         NEW c \in Consumers, Poll(c)
  PROVE  \E x : BatchMoves(c, x)
<1>1. PICK me : me = consumer[c]
  OBVIOUS
<1>2. PICK from : from = FetchFrom(c)
  OBVIOUS
<1>3. PICK last \in Nat :
        /\ from \in Nat
        /\ from + 1 <= last
        /\ last <= from + MaxRecords
        /\ consumer' = [consumer EXCEPT ![c] =
             [pc |-> "handling", position |-> last,
              next |-> from + 1, last |-> last]]
  BY <1>2, PolledBatch
<1>4. \A i \in 1 .. from : Covered(i)
  <2>1. CASE Redpanda
    <3>1. from = ReachedBy(me)
      BY <1>1, <1>2, <2>1 DEF FetchFrom, ReachedBy, Poll
    <3>2. QED
      BY <1>1, <3>1, BatchMover
  <2>2. CASE ~Redpanda
    <3>1. from = committed
      BY <1>2, <2>2 DEF FetchFrom
    <3>2. QED
      BY <3>1 DEF BatchInv, SkipsStayWithinAPoll
  <2>3. QED
    BY <2>1, <2>2
<1>5. /\ committed' = committed /\ inbox' = inbox /\ log' = log
  BY DEF Poll
<1>6. \A i : Covered(i) => Covered(i)'
  BY <1>5, CoveredStays DEF Done
<1>7. PICK x : x = [pc |-> "handling", position |-> last,
                    next |-> from + 1, last |-> last]
  OBVIOUS
<1>8. /\ x \in ConsumerState /\ x.pc = "handling"
      /\ x.next = from + 1 /\ x.last = last
  BY <1>3, <1>7 DEF ConsumerState
<1>9. ReachedBy(x) = from
  BY <1>3, <1>8 DEF ReachedBy
<1>10. x.last - x.next < MaxRecords
  BY <1>3, <1>8, DeliveryAssumption
<1>11. committed \in Nat /\ \A i \in 1 .. committed : Covered(i)
  BY <1>1, BatchMover
<1>12. BatchMoves(c, x)
  BY <1>3, <1>4, <1>5, <1>6, <1>7, <1>8, <1>9, <1>10, <1>11 DEF BatchMoves
<1>13. QED
  BY <1>12

LEMMA HandleBatch ==
  ASSUME ConsumerSide, BatchInv, log \in Seq(Events),
         NEW c \in Consumers, Handle(c)
  PROVE  \E x : BatchMoves(c, x)
<1>1. PICK me : me = consumer[c]
  OBVIOUS
<1>2. /\ me.pc = "handling"
      /\ consumer' = [consumer EXCEPT ![c] = [me EXCEPT !.pc = "handled"]]
      /\ inbox' = inbox \cup {log[me.next]}
      /\ committed' = committed /\ log' = log
  BY <1>1 DEF Handle
<1>3. PICK x : x = [me EXCEPT !.pc = "handled"]
  OBVIOUS
<1>4. /\ x \in ConsumerState /\ x.pc = "handled"
      /\ x.next = me.next /\ x.last = me.last
  BY <1>1, <1>3, BatchMover DEF ConsumerState
<1>5. ReachedBy(x) = ReachedBy(me)
  BY <1>2, <1>4 DEF ReachedBy
<1>6. (\A i : Covered(i) => Covered(i)') /\ Done(me.next)'
  BY <1>2, CoveredStays DEF Done
<1>7. /\ committed \in Nat
      /\ \A i \in 1 .. committed : Covered(i)
      /\ \A i \in 1 .. ReachedBy(me) : Covered(i)
      /\ Redpanda => me.last - me.next < MaxRecords
  BY <1>1, <1>2, BatchMover
<1>8. BatchMoves(c, x)
  BY <1>2, <1>3, <1>4, <1>5, <1>6, <1>7 DEF BatchMoves
<1>9. QED
  BY <1>8

(* A consumer may go on from a record that is done. *)
LEMMA AdvanceBatch ==
  ASSUME ConsumerSide, BatchInv, log \in Seq(Events), NEW c \in Consumers,
         NEW me, me = consumer[c], me.pc \in {"handling", "handled"},
         NEW x, x = Advance(me), Done(me.next)
  PROVE  /\ x \in ConsumerState
         /\ \A i \in 1 .. ReachedBy(x) : Covered(i)
         /\ x.pc # "handled"
         /\ Redpanda /\ x.pc = "handling" => x.last - x.next < MaxRecords
<1>1. /\ me \in ConsumerState /\ InBatch(me)
      /\ me.next \in Nat /\ me.last \in Nat
      /\ \A i \in 1 .. me.next - 1 : Covered(i)
      /\ Redpanda => me.last - me.next < MaxRecords
  BY BatchMover DEF ReachedBy
<1>2. \A i \in 1 .. me.next : Covered(i)
  <2>1. 1 <= me.next
    BY <1>1 DEF InBatch
  <2>2. Covered(me.next)
    BY <1>1, <2>1, DoneIsCovered
  <2>3. QED
    BY <1>1, <2>2
<1>3. /\ x \in ConsumerState
      /\ x.position = me.position
      /\ \/ x.pc = "idle" /\ me.next = me.last
         \/ /\ x.pc = "handling" /\ me.next # me.last
            /\ x.next = me.next + 1 /\ x.last = me.last
  BY <1>1, Mover, Advanced
<1>4. me.last = me.position
  BY <1>1 DEF InBatch
<1>5. ReachedBy(x) = me.next
  BY <1>1, <1>3, <1>4 DEF ReachedBy
<1>6. QED
  BY <1>1, <1>2, <1>3, <1>5, DeliveryAssumption

LEMMA DiscardBatch ==
  ASSUME ConsumerSide, BatchInv, log \in Seq(Events),
         NEW c \in Consumers, Discard(c)
  PROVE  \E x : BatchMoves(c, x)
<1>1. PICK me : me = consumer[c]
  OBVIOUS
<1>2. PICK x : x = Advance(me)
  OBVIOUS
<1>3. /\ me.pc = "handling"
      /\ Done(me.next)
      /\ consumer' = [consumer EXCEPT ![c] = x]
      /\ inbox' = inbox /\ committed' = committed /\ log' = log
  BY <1>1, <1>2 DEF Discard, Done
<1>4. /\ x \in ConsumerState
      /\ \A i \in 1 .. ReachedBy(x) : Covered(i)
      /\ x.pc # "handled"
      /\ Redpanda /\ x.pc = "handling" => x.last - x.next < MaxRecords
  BY <1>1, <1>2, <1>3, AdvanceBatch
<1>5. \A i : Covered(i) => Covered(i)'
  BY <1>3, CoveredStays DEF Done
<1>6. committed \in Nat /\ \A i \in 1 .. committed : Covered(i)
  BY <1>1, BatchMover
<1>7. BatchMoves(c, x)
  BY <1>3, <1>4, <1>5, <1>6 DEF BatchMoves
<1>8. QED
  BY <1>7

LEMMA CommitBatch ==
  ASSUME ConsumerSide, BatchInv, log \in Seq(Events),
         NEW c \in Consumers, CommitOffset(c)
  PROVE  \E x : BatchMoves(c, x)
<1>1. PICK me : me = consumer[c]
  OBVIOUS
<1>2. PICK x : x = Advance(me)
  OBVIOUS
<1>3. /\ me.pc = "handled"
      /\ consumer' = [consumer EXCEPT ![c] = x]
      /\ inbox' = inbox /\ log' = log
      /\ committed' = CommittedOffset(c)
  BY <1>1, <1>2 DEF CommitOffset
<1>4. /\ me \in ConsumerState /\ InBatch(me)
      /\ me.next \in Nat /\ me.last \in Nat /\ me.position \in Nat
      /\ committed \in Nat
      /\ \A i \in 1 .. committed : Covered(i)
      /\ \A i \in 1 .. me.next - 1 : Covered(i)
      /\ Done(me.next)
      /\ Redpanda => me.last - me.next < MaxRecords
  BY <1>1, <1>3, BatchMover DEF ReachedBy
<1>5. /\ x \in ConsumerState
      /\ \A i \in 1 .. ReachedBy(x) : Covered(i)
      /\ x.pc # "handled"
      /\ Redpanda /\ x.pc = "handling" => x.last - x.next < MaxRecords
  BY <1>1, <1>2, <1>3, <1>4, AdvanceBatch
<1>6. 1 <= me.next /\ (me.pc \in {"handling", "handled"} => me.last = me.position)
  BY <1>3, <1>4 DEF InBatch
<1>7. committed' \in Nat /\ \A i \in 1 .. committed' : Covered(i)
  <2>1. CASE Redpanda
    <3>1. committed' = me.last
      BY <1>1, <1>3, <1>6, <2>1 DEF CommittedOffset
    <3>2. CommitSpan = MaxRecords
      BY <2>1 DEF CommitSpan
    <3>3. ASSUME NEW i \in 1 .. me.last, i >= me.next
          PROVE  Covered(i)
      <4>1. me.next \in 1 .. i /\ i - me.next < CommitSpan
        BY <1>4, <1>6, <2>1, <3>2, <3>3, DeliveryAssumption
      <4>2. QED
        BY <1>4, <4>1 DEF Covered
    <3>4. QED
      BY <1>4, <3>1, <3>3
  <2>2. CASE ~Redpanda
    <3>1. committed' = me.next \/ committed' = committed
      BY <1>1, <1>3, <2>2 DEF CommittedOffset, Max2
    <3>2. Covered(me.next)
      BY <1>4, <1>6, DoneIsCovered
    <3>3. QED
      BY <1>4, <3>1, <3>2
  <2>3. QED
    BY <2>1, <2>2
<1>8. \A i : Covered(i) => Covered(i)'
  BY <1>3, CoveredStays DEF Done
<1>9. BatchMoves(c, x)
  BY <1>3, <1>5, <1>7, <1>8 DEF BatchMoves
<1>10. QED
  BY <1>9

LEMMA GroupBatch ==
  ASSUME ConsumerSide, BatchInv, log \in Seq(Events), NEW c \in Consumers,
         Assign(c) \/ Leave(c) \/ ConsumerRestart(c)
  PROVE  \E x : BatchMoves(c, x)
<1>1. PICK me : me = consumer[c]
  OBVIOUS
<1>2. /\ me \in ConsumerState
      /\ committed \in Nat
      /\ \A i \in 1 .. committed : Covered(i)
  BY <1>1, BatchMover
<1>3. /\ inbox' = inbox /\ committed' = committed /\ log' = log
  BY DEF Assign, Leave, ConsumerRestart
<1>4. \E x : /\ consumer' = [consumer EXCEPT ![c] = x]
             /\ x \in ConsumerState
             /\ x.pc \in {"idle", "down"}
             /\ x.position = 0 \/ x.position = committed
  <2>1. CASE Assign(c)
    <3>1. /\ me.pc = "idle"
          /\ consumer' = [consumer EXCEPT ![c] =
               [me EXCEPT !.position = committed]]
      BY <1>1, <2>1 DEF Assign
    <3>2. PICK x : x = [me EXCEPT !.position = committed]
      OBVIOUS
    <3>3. x \in ConsumerState /\ x.pc = "idle" /\ x.position = committed
      BY <1>2, <3>1, <3>2 DEF ConsumerState
    <3>4. QED
      BY <3>1, <3>2, <3>3
  <2>2. CASE Leave(c)
    <3>1. PICK x : x = [NewConsumer EXCEPT !.pc = "down"]
      OBVIOUS
    <3>2. x \in ConsumerState /\ x.pc = "down" /\ x.position = 0
      BY <3>1 DEF NewConsumer, ConsumerState
    <3>3. QED
      BY <2>2, <3>1, <3>2 DEF Leave
  <2>3. CASE ConsumerRestart(c)
    <3>1. PICK x : x = NewConsumer
      OBVIOUS
    <3>2. x \in ConsumerState /\ x.pc = "idle" /\ x.position = 0
      BY <3>1 DEF NewConsumer, ConsumerState
    <3>3. QED
      BY <2>3, <3>1, <3>2 DEF ConsumerRestart
  <2>4. QED
    BY <2>1, <2>2, <2>3
<1>5. PICK x : /\ consumer' = [consumer EXCEPT ![c] = x]
               /\ x \in ConsumerState
               /\ x.pc \in {"idle", "down"}
               /\ x.position = 0 \/ x.position = committed
  BY <1>4
<1>6. \A i \in 1 .. ReachedBy(x) : Covered(i)
  BY <1>2, <1>5 DEF ReachedBy
<1>7. \A i : Covered(i) => Covered(i)'
  BY <1>3, CoveredStays DEF Done
<1>8. BatchMoves(c, x)
  BY <1>2, <1>3, <1>5, <1>6, <1>7 DEF BatchMoves
<1>9. QED
  BY <1>8

LEMMA RelaySideBatch ==
  ASSUME ConsumerSide, BatchInv, log \in Seq(Events), RelaySideMoves
  PROVE  BatchInv'
<1>1. /\ consumer' = consumer /\ inbox' = inbox /\ committed' = committed
      /\ LogGrows
  BY DEF RelaySideMoves, consumerVars
<1>2. \A i \in 1 .. Len(log) : Done(i) => Done(i)'
  BY <1>1 DEF Done, LogGrows
<1>3. committed \in 0 .. Len(log) /\ Len(log) \in Nat
  BY DEF ConsumerSide, OffsetsInRange
<1>3a. \A i \in 1 .. Len(log) : Covered(i) => Covered(i)'
  BY <1>2, <1>3 DEF Covered
<1>4. SkipsStayWithinAPoll'
  BY <1>1, <1>3, <1>3a DEF BatchInv, SkipsStayWithinAPoll
<1>5. ASSUME NEW d \in Consumers
      PROVE  /\ \A i \in 1 .. Reached(d)' : Covered(i)'
             /\ consumer'[d].pc = "handled" => Done(consumer[d].next)'
             /\ Redpanda /\ Busy(d)' =>
                  consumer'[d].last - consumer'[d].next < MaxRecords
  <2>1. PICK y : y = consumer[d] /\ y = consumer'[d]
    BY <1>1
  <2>2. /\ y \in ConsumerState /\ InBatch(y)
        /\ y.next \in Nat /\ y.last \in Nat /\ y.position \in Nat
        /\ \A i \in 1 .. ReachedBy(y) : Covered(i)
        /\ y.pc = "handled" => Done(y.next)
        /\ Redpanda /\ y.pc \in {"handling", "handled"} =>
             y.last - y.next < MaxRecords
    BY <2>1, BatchMover
  <2>3. ReachedBy(y) <= Len(log) /\ ReachedBy(y) \in Int
    BY <1>3, <2>2 DEF ReachedBy, InBatch
  <2>4. \A i \in 1 .. ReachedBy(y) : Covered(i)'
    BY <1>3, <1>3a, <2>2, <2>3
  <2>5. y.pc = "handled" => Done(y.next)'
    <3>1. y.pc = "handled" => y.next \in 1 .. Len(log)
      BY <1>3, <2>2 DEF InBatch
    <3>2. QED
      BY <1>2, <2>2, <3>1
  <2>6. QED
    BY <2>1, <2>2, <2>4, <2>5 DEF Reached, ReachedBy, Busy
<1>6. BatchesAreReached'
  BY <1>5 DEF BatchesAreReached
<1>7. QED
  BY <1>4, <1>6 DEF BatchInv

LEMMA StepBatchInv ==
  ASSUME DeliveryInv, BatchInv, [Next]_vars
  PROVE  BatchInv'
<1>1. RelaySide /\ ConsumerSide /\ log \in Seq(Events)
  BY Sides DEF RelaySide
<1>2. CASE UNCHANGED vars
  BY <1>2 DEF vars, consumerVars, BatchInv, SkipsStayWithinAPoll,
              BatchesAreReached, Reached, Busy, Covered, Done
<1>3. CASE Next
  <2>1. CASE RelaySideMoves
    BY <1>1, <2>1, RelaySideBatch
  <2>2. ASSUME NEW c \in Consumers, ConsumerActs(c)
        PROVE  BatchInv'
    <3>1. \E x : BatchMoves(c, x)
      BY <1>1, <2>2, PollBatch, HandleBatch, DiscardBatch, CommitBatch,
         GroupBatch DEF ConsumerActs
    <3>2. QED
      BY <1>1, <3>1, BatchMoveKeeps
  <2>3. QED
    BY <1>1, <1>3, <2>1, <2>2, StepSides
<1>4. QED
  BY <1>2, <1>3

(* Whatever the size of a poll, and for both brokers, the committed offset  *)
(* passes only records that are done or lie fewer than a poll's records     *)
(* behind one that is; with polls of one record, or in memory, it passes    *)
(* only records that are done.                                              *)
THEOREM CommitsSkipLessThanAPoll == Spec => []SkipsStayWithinAPoll
<1>1. Init => BatchInv
  BY DEF Init, NewConsumer, BatchInv, SkipsStayWithinAPoll, BatchesAreReached,
         Reached, Busy
<1>2. DeliveryInv /\ BatchInv /\ [Next]_vars => BatchInv'
  BY StepBatchInv
<1>3. BatchInv => SkipsStayWithinAPoll
  BY DEF BatchInv
<1>4. QED
  BY <1>1, <1>2, <1>3, DeliveryInvariant, PTL DEF Spec

-----------------------------------------------------------------------------
(* Delivery implements EffectOnce *)

(* Whatever is sent twice, redelivered, rebalanced or crashed on, the       *)
(* effect of an event is applied at most once, after it was emitted.        *)
THEOREM DeliveryAppliesOnce == Spec => ImplementsEffectOnce
<1>1. Init => Once!Init
  BY DEF Init, Once!Init
<1>2. ASSUME DeliveryInv, [Next]_vars
      PROVE  [Once!Next]_(Once!onceVars)
  <2>1. /\ RelaySide /\ ConsumerSide /\ log \in Seq(Events)
        /\ outbox \in [Events -> {"absent", "free", "leased", "parked",
                                  "published"}]
    BY <1>2, Sides DEF RelaySide
  <2>2. CASE UNCHANGED vars
    BY <2>2 DEF vars, relayVars, consumerVars, Once!onceVars
  <2>3. ASSUME NEW e \in Events, Emit(e)
        PROVE  Once!Emit(e)
    BY <2>1, <2>3 DEF Emit, consumerVars, Once!Emit
  <2>4. ASSUME NEW c \in Consumers, Handle(c)
        PROVE  Once!Next \/ UNCHANGED Once!onceVars
    <3>1. consumer[c].next \in 1 .. Len(log)
      BY <2>1, <2>4, Mover DEF Handle, Busy
    <3>2. PICK e \in Events : e = log[consumer[c].next] /\ outbox[e] # "absent"
      BY <2>1, <3>1 DEF RelaySide, RecordsWereEmitted
    <3>3. /\ e \notin Unprocessable
          /\ effects' = IF e \in inbox THEN effects
                        ELSE [effects EXCEPT ![e] = @ + 1]
          /\ outbox' = outbox
      BY <2>4, <3>2 DEF Handle, relayVars
    <3>4. CASE e \in inbox
      BY <3>3, <3>4 DEF Once!onceVars
    <3>5. CASE e \notin inbox
      <4>1. effects[e] = 0
        BY <2>1, <3>5 DEF ConsumerSide, InboxRecordsEffects
      <4>2. effects' = [effects EXCEPT ![e] = 1]
        BY <3>3, <3>5, <4>1
      <4>3. Once!Apply(e)
        BY <3>2, <3>3, <4>1, <4>2 DEF Once!Apply
      <4>4. QED
        BY <4>3 DEF Once!Next
    <3>6. QED
      BY <3>4, <3>5
  <2>5. ASSUME UNCHANGED effects,
               \A e \in Events : outbox[e] = "absent" <=> outbox'[e] = "absent"
        PROVE  UNCHANGED Once!onceVars
    BY <2>5 DEF Once!onceVars
  <2>6. CASE Next
    <3>1. ASSUME NEW e \in Events, LeaseExpires(e)
          PROVE  UNCHANGED Once!onceVars
      BY <2>1, <2>5, <3>1 DEF LeaseExpires, consumerVars
    <3>2. ASSUME Reconcile
          PROVE  UNCHANGED Once!onceVars
      BY <2>1, <2>5, <3>2 DEF Reconcile, consumerVars
    <3>3. ASSUME NEW r \in Relays, RelayStep(r) \/ PublishFails(r) \/ RelayCrash(r)
          PROVE  UNCHANGED Once!onceVars
      <4>1. CASE Claim(r)
        BY <2>1, <2>5, <4>1 DEF Claim, Claimable, consumerVars
      <4>2. CASE MarkPublished(r)
        <5>1. outbox[relay[r].event] # "absent" /\ relay[r].event \in Events
          BY <2>1, <4>2 DEF MarkPublished, RelaySide, RecordsWereEmitted
        <5>2. QED
          BY <2>1, <2>5, <4>2, <5>1 DEF MarkPublished, consumerVars
      <4>3. CASE ~Claim(r) /\ ~MarkPublished(r)
        BY <2>5, <3>3, <4>3
           DEF RelayStep, Publish, PublishFails, RelayCrash, RelayRestart,
               consumerVars
      <4>4. QED
        BY <4>1, <4>2, <4>3
    <3>4. ASSUME NEW c \in Consumers, ConsumerStep(c) \/ ConsumerFails(c)
          PROVE  Once!Next \/ UNCHANGED Once!onceVars
      <4>1. CASE Handle(c)
        BY <2>4, <4>1
      <4>2. CASE ~Handle(c)
        BY <2>5, <3>4, <4>2
           DEF ConsumerStep, ConsumerFails, CommitRejected, Assign, Poll,
               Discard, CommitOffset, Leave, ConsumerRestart, relayVars
      <4>3. QED
        BY <4>1, <4>2
    <3>5. QED
      BY <2>3, <2>6, <3>1, <3>2, <3>3, <3>4 DEF Next, Once!Next
  <2>7. QED
    BY <1>2, <2>2, <2>6
<1>3. QED
  BY <1>1, <1>2, DeliveryInvariant, PTL DEF Spec, ImplementsEffectOnce, Once!Spec

=============================================================================

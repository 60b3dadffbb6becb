\* Redpanda, two records per poll: two relays, a group of two consumers.
SPECIFICATION FairSpec
CONSTANTS
  Events <- TwoEvents
  Parked <- SecondEvent
  Unprocessable <- FirstEvent
  Relays = {r1, r2}
  Consumers = {c1, c2}
  Redpanda = TRUE
  MaxRecords = 2
  NoEvent = NoEvent
  NoConsumer = NoConsumer
  MaxFaults = 3
INVARIANTS DeliveryInv 
PROPERTIES EveryEventSettled CommittedNeverDecreases ImplementsEffectOnce
\* Once every event is relayed and handled only empty polls are left.
CHECK_DEADLOCK FALSE

\* The finding of a record lost behind a batch commit.
SPECIFICATION FairSpec
CONSTANTS
  Events <- TwoEvents
  Parked <- NoEvents
  Unprocessable <- NoEvents
  Relays = {r1}
  Consumers = {c1}
  Redpanda = TRUE
  MaxRecords = 2
  NoEvent = NoEvent
  NoConsumer = NoConsumer
  MaxFaults = 1
PROPERTIES EveryEventApplied
\* Once every event is relayed and handled only empty polls are left.
CHECK_DEADLOCK FALSE

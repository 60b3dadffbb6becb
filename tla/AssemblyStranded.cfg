\* The finding of a message passed over by a pass that sampled its time before
\* the message was received.
SPECIFICATION FairSpec
CONSTANTS
  c1 = c1
  c2 = c2
  k1 = k1
  CaseKeys = {k1}
  Quote <- SecondQuotesFirst
  CaseKeyOf <- SecondIsKeyed
  NoConversation = NoConversation
  NoKey = NoKey
  NoCase = NoCase
  Messages <- ThreeMessages
  Conversations <- OneConversation
  ConversationOf <- AllInC1
  Workers = {w1}
  QUIET_WINDOW = 1
  BURST_LIMIT = 2
  ASSEMBLY_LEASE = 1
  ASSOCIATION_HORIZON = 2
  MaxTime = 5
  LastIngest = 3
  LastFault = 0
  MaxDelay = 0
PROPERTIES EveryMessageAssembled

\* One worker, as the supervisor starts it, and two conversations.
SPECIFICATION FairSpec
CONSTANTS
  c1 = c1
  c2 = c2
  k1 = k1
  CaseKeys = {k1}
  Quote <- SecondQuotesFirst
  CaseKeyOf <- SecondIsKeyed
  NoConversation = NoConversation
  NoKey = NoKey
  NoCase = NoCase
  Messages <- ThreeMessages
  Conversations <- TwoConversations
  ConversationOf <- ThirdApart
  Workers = {w1}
  QUIET_WINDOW = 1
  BURST_LIMIT = 2
  ASSEMBLY_LEASE = 1
  ASSOCIATION_HORIZON = 2
  MaxTime = 4
  LastIngest = 3
  LastFault = 2
  MaxDelay = 1
INVARIANTS SnapshotsComplete RevisionsAddEvidence
PROPERTIES EveryTimerFires QuotedReplyJoinsCase ImplementsCaseLog

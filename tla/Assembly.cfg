\* Two workers on one conversation: claims, ingests, lease expiry, crashes.
SPECIFICATION Spec
CONSTANTS
  c1 = c1
  c2 = c2
  k1 = k1
  CaseKeys = {k1}
  Quote <- SecondQuotesFirst
  CaseKeyOf <- SecondIsKeyed
  NoConversation = NoConversation
  NoKey = NoKey
  NoCase = NoCase
  Messages <- ThreeMessages
  Conversations <- OneConversation
  ConversationOf <- AllInC1
  Workers = {w1, w2}
  QUIET_WINDOW = 1
  BURST_LIMIT = 2
  ASSEMBLY_LEASE = 1
  ASSOCIATION_HORIZON = 2
  MaxTime = 4
  LastIngest = 2
  LastFault = 1
  MaxDelay = 1
SYMMETRY WorkerSymmetry
INVARIANTS AssemblyInv AnnouncedRevisionsExist
PROPERTIES LinksAreFinal

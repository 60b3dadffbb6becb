CONSTANTS
  c1 = c1
  c2 = c2
  v1 = v1
  road = road
  waste = waste
  civil = civil
  Cases = {c1, c2}
  Conversations = {v1}
  ConversationOf <- OneConversation
  LastRevision <- SecondRevision
  Readings <- AllReadings
  Categories = {road, waste, civil}
  CivilAdmin = civil
  NoCategory = NoCategory
  NoCase = NoCase
  NoRow = NoRow
  NoJob = NoJob
  NoEntry = NoEntry
  MaxFaults = 1
SPECIFICATION FairSpec
PROPERTY EveryMessageHandled
CHECK_DEADLOCK FALSE

SPECIFICATION Spec
CONSTANTS
  place = place
  object = object
  famA = famA
  famB = famB
  jur1 = jur1
  jur2 = jur2
  road = road
  waste = waste
  unit1 = unit1
  unit2 = unit2
  Totals = {0, 1, 2, 3, 4, 5, 6, 7, 8, 9}
  WindowSizes = {1, 2, 3, 4}
  Labels = {place, object}
  SpanInputs <- UpToThreeSpans
  TrainRatio = 70
  DevRatio = 15
  Sizes = {0, 1, 2, 3, 4, 5, 6, 7, 8, 9, 10, 11, 12}
  Families = {famA, famB}
  Parts = {"train", "dev", "test"}
  Texts = {"pothole", "pothole again", "ok", ""}
  Long = {"pothole", "pothole again"}
  Phrases <- SmallPhrases
  DataSets <- UpToThreeBubbles
  Jurisdictions = {jur1, jur2}
  Categories = {road, waste}
  Units = {unit1, unit2}
  Directory <- SmallDirectory
  NoInput = NoInput
INVARIANTS PhrasesStayWhole MergedIsFaithful SharesKept AuditIsExact PoliciesAgree
\* Each piece ends.
CHECK_DEADLOCK FALSE

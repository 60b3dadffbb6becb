SPECIFICATION Spec
CONSTANTS
  location = location
  image_fallback = image_fallback
  time = time
  issue = issue
  alamat = alamat
  waktu = waktu
  kelurahan = kelurahan
  Location = location
  Image = image_fallback
  MissingLists <- Lists
  Expiry = 1
  MaxTime = 2
  MaxFaults = 1
INVARIANTS TypeOK EndsAreEarned RepeatsComeLast RoundsSentOnce
PROPERTIES LateRepliesChangeNothing KnownFactsNotAsked

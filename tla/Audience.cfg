SPECIFICATION FairSpec
CONSTANTS
  a1 = a1
  a2 = a2
  a3 = a3
  w1 = w1
  w2 = w2
  w3 = w3
  NoWorker = NoWorker
  Addresses = {a1, a2}
  NoAddress = NoAddress
  Known <- OnePerson
  MaxRecipient = 1
  Audience <- TwoPeople
  MaxRow = 3
  Workers = {w1, w2}
  Sqlite = FALSE
  Sessions = {1}
  Ops = {"send", "pause", "resume", "audience", "remove"}
  Lists <- OneOrTwo
  MaxRequests = 3
  BatchSize = 2
  MaxDown = 1
  MaxDbErrors = 0
  MaxLostReplies = 0
  MaxOverruns = 0
INVARIANTS
  TypeOK
  SentWasDelivered
PROPERTIES
  QueueDrains
CHECK_DEADLOCK FALSE

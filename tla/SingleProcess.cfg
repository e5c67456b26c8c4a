SPECIFICATION Spec
CONSTANTS
  a1 = a1
  a2 = a2
  a3 = a3
  w1 = w1
  w2 = w2
  w3 = w3
  NoWorker = NoWorker
  Addresses = {a1, a2}
  NoAddress = NoAddress
  Known <- OnePerson
  MaxRecipient = 2
  Audience <- TwoPeople
  MaxRow = 2
  Workers = {w1, w2}
  Sqlite = TRUE
  Sessions = {1, 2}
  Ops = {"send", "pause", "resume", "cancel", "retry", "delete", "import",
         "forget", "unsubscribe"}
  Lists = {}
  MaxRequests = 3
  BatchSize = 2
  MaxDown = 1
  MaxDbErrors = 0
  MaxLostReplies = 1
  MaxOverruns = 0
INVARIANTS
  ResendsAccountedFor
  StopsBetweenMessages
  UnsubscribeHolds
CHECK_DEADLOCK FALSE
SYMMETRY Processes

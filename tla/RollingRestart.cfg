SPECIFICATION Spec
CONSTANTS
  a1 = a1
  a2 = a2
  a3 = a3
  w1 = w1
  w2 = w2
  w3 = w3
  NoWorker = NoWorker
  Addresses = {a1, a2}
  NoAddress = NoAddress
  Known <- NoOne
  MaxRecipient = 0
  Audience <- TwoPeople
  MaxRow = 2
  Workers = {w1, w2}
  Sqlite = FALSE
  Sessions = {1}
  Ops = {"send", "retry"}
  Lists = {}
  MaxRequests = 3
  BatchSize = 2
  MaxDown = 1
  MaxDbErrors = 1
  MaxLostReplies = 0
  MaxOverruns = 1
INVARIANTS
  ResendsAccountedFor
  CopiesPerOrder
CHECK_DEADLOCK FALSE
SYMMETRY Processes

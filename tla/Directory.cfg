SPECIFICATION Spec
CONSTANTS
  w1 = w1
  w2 = w2
  p1 = p1
  t1 = t1
  s1 = s1
  s2 = s2
  Nobody = Nobody
  Databases = {"sqlite", "postgresql"}
  Lists = {1}
  People = {p1}
  Filters = {"f"}
  Instances = {w1, w2}
  Sessions = {s1, s2}
  Tokens = {t1}
  MaxProviders = 2
  Ops = {"create_provider", "update_provider", "delete_provider", "search", "finish", "cancel", "create_list", "delete_list", "toggle_sync", "members", "sync"}
  Forms <- SomeForms
  MaxRequests = 4
  Poisoned = {}
  Refusable = {1}
  Stoppable = {w1, w2}
INVARIANTS
  TypeOK
  ListsKeepTheirDirectory
PROPERTIES
  OneSyncPerInterval
  SwitchedOffStaysOff
  EmptyAnswersChangeNobody
  DraftEndsOnce
CHECK_DEADLOCK FALSE
SYMMETRY Symmetric

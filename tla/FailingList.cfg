SPECIFICATION FairSpec
CONSTANTS
  w1 = w1
  w2 = w2
  p1 = p1
  t1 = t1
  s1 = s1
  s2 = s2
  Nobody = Nobody
  Databases = {"postgresql"}
  Lists = {1, 2}
  People = {p1}
  Filters = {"f", "g"}
  Instances = {w1}
  Sessions = {s1}
  Tokens = {t1}
  MaxProviders = 1
  Ops = {}
  Forms <- SomeForms
  MaxRequests = 0
  Refusable = {1}
  Poisoned = {1}
  Stoppable = {}
PROPERTIES
  OthersGetTheirPass
CHECK_DEADLOCK FALSE

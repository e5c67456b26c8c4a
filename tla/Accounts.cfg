SPECIFICATION Spec
CONSTANTS
  s1 = s1
  s2 = s2
  NoSession = NoSession
  Databases = {"sqlite", "postgresql"}
  Starts = {"fresh", "running", "upgraded"}
  Words = {"ann", "Ann", "bob"}
  lower <- Folded
  NonAscii = {"Ann"}
  Typed = {"ann", "bob"}
  Claimed = {"ann", "Ann"}
  MaxNumber = 2
  MaxUsers = 4
  MaxProviders = 2
  Sessions = {s1, s2}
  Ops = {"setup", "create", "update", "delete", "form", "save", "remove", "set-password", "reset-initial-admin", "promote", "create-admin", "disable-ldap-login", "disable-sso", "login", "callback"}
  MaxRequests = 3
INVARIANTS
  TypeOK
  GuaranteedWayIn
  NobodyElsesAccount
  FormIsThere
PROPERTIES
  InitialAdminKeepsAccess
  RetriesHaveACause
CHECK_DEADLOCK FALSE
SYMMETRY Symmetric

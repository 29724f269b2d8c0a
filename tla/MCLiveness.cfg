SPECIFICATION LiveSpec
CONSTANTS
  Users = {u1}
  NoUser = NoUser
  Workers = {r1, r2}
  MaxSessions = 1
  MaxTokens = 2
  MaxTime = 6
  MaxPw = 1
  AccessLife = 1
  RefreshLife = 2
  SessionLife = 3
  Retention = 4
  Ops = {"login", "refresh", "access", "logout", "logoutAll", "terminate", "terminateAll", "changePassword", "admin", "cleanup", "crash"}
PROPERTIES
  RequestsEnd
CHECK_DEADLOCK FALSE

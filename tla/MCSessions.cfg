SPECIFICATION SessionsSpec
CONSTANTS
  Users = {u1, u2}
  NoUser = NoUser
  Workers = {r1, r2}
  MaxSessions = 2
  MaxTokens = 3
  MaxTime = 6
  MaxPw = 1
  AccessLife = 1
  RefreshLife = 2
  SessionLife = 3
  Retention = 4
  Ops = {"login", "refresh", "access", "logout", "logoutAll", "terminate", "terminateAll", "changePassword", "admin", "cleanup", "crash"}
SYMMETRY Symmetry
CHECK_DEADLOCK FALSE
INVARIANTS
    NoLateGrant
    RotationInTurn
    OldPasswordSessionsClosedInTurn
PROPERTIES
    ClosesAllOfOwn
    ImplementsPromise

SPECIFICATION TokensSpec
CONSTANTS
  Users = {u1}
  NoUser = NoUser
  Workers = {r1, r2}
  MaxSessions = 1
  MaxTokens = 3
  MaxTime = 2
  MaxPw = 0
  AccessLife = 1
  RefreshLife = 2
  SessionLife = 3
  Retention = 4
  Ops = {"login", "refresh"}
SYMMETRY Symmetry
PROPERTIES
  ReplayRevokesAll
CHECK_DEADLOCK FALSE

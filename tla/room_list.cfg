SPECIFICATION Spec
CONSTANTS
  h = h
  a = a
  t = t
  u = u
  None = None
  Participant = {h, a}
  Spectator = {}
  Player <- MCPlayer
  Founders = {h}
  Founder = h
  Resume = {}
  Request = {}
  Task = {t, u}
  Public = TRUE
  Rpc = {"initialize"}
  Faults = {"d1", "restart"}
  MaxPlayers = 2
  MaxSpectators = 1
  MinimumPlayers = 2
  RequireReady = FALSE
  Grace = 1
  Retention = 1
  CommandRetention = 1
  RetryDelay = 1
  MaxLate = 1
  HistoryLimit = 2
  MaxTime = 1
  MaxGeneration = 2
  MaxRevision = 1
INVARIANTS ListCurrent
PROPERTIES ListNeverBack
SYMMETRY Alike
CHECK_DEADLOCK FALSE

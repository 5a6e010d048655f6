SPECIFICATION Spec
CONSTANTS
  h = h
  a = a
  s = s
  b = b
  q = q
  r = r
  None = None
  Participant = {h, a, b, s}
  Spectator = {s}
  Player <- MCPlayer
  Founders = {h}
  Founder = h
  Resume = {}
  Request = {q, r}
  Task = {}
  Public = FALSE
  Rpc = {"transition", "schedule"}
  Faults = {}
  MaxPlayers = 3
  MaxSpectators = 1
  MinimumPlayers = 2
  RequireReady = TRUE
  Grace = 1
  Retention = 1
  CommandRetention = 2
  RetryDelay = 1
  MaxLate = 1
  HistoryLimit = 2
  MaxTime = 2
  MaxGeneration = 2
  MaxRevision = 3
INVARIANTS DutiesScheduled
PROPERTIES LobbyPromise
SYMMETRY Alike
CHECK_DEADLOCK FALSE

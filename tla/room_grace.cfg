SPECIFICATION FairSpec
CONSTANTS
  h = h
  a = a
  c = c
  d = d
  r = r
  None = None
  Participant = {h, a}
  Spectator = {}
  Player <- MCPlayer
  Founders = {h}
  Founder = h
  Resume = {c, d}
  Request = {}
  Task = {}
  Public = FALSE
  Rpc = {"disconnect"}
  Faults = {}
  MaxPlayers = 2
  MaxSpectators = 1
  MinimumPlayers = 2
  RequireReady = TRUE
  Grace = 1
  Retention = 1
  CommandRetention = 1
  RetryDelay = 1
  MaxLate = 1
  HistoryLimit = 2
  MaxTime = 2
  MaxGeneration = 2
  MaxRevision = 1
INVARIANTS AlarmCovers
PROPERTIES ConnectedStays TimeIsKept
CHECK_DEADLOCK FALSE

CONSTANTS
  v1 = v1
  v2 = v2
  Waiter = {v1, v2}
  MaxAttempts = 2
  MaxDrops = 2
  MaxFailures = 1
  Faults = {"abort", "dispose", "release", "refusal"}
SPECIFICATION FairSpec
INVARIANTS ToldOnce QuietTicketIsCurrent AbandonedIsCancelled
PROPERTIES TicketForward WaitersSettle
CHECK_DEADLOCK FALSE

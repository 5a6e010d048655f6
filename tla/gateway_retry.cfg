SPECIFICATION Spec
CONSTANTS
  h = h  p = p
  k1 = k1  k2 = k2
  j = j
  c1 = c1  c2 = c2
  w1 = w1  w2 = w2
  public = public  invitation = invitation
  None = None
  Room = {k1, k2}
  Player = {h, p}
  Founder = h
  Request = {j}
  Code = {c1, c2}
  Method = {public, invitation}
  Invitation = invitation
  Worker = {w1, w2}
  MaxPlayers = 2
  MaxCalls = 3
  Faults = {"die", "expire", "delete", "collide", "remove"}
INVARIANTS OneOutcome RefusedForCause EveryoneKnows
SYMMETRY Alike
CHECK_DEADLOCK FALSE

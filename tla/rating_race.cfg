SPECIFICATION Spec
CONSTANTS
  a = a  b = b  c = c
  m = m  n = n  t = t
  q = q  r = r  s = s 
  k1 = k1  k2 = k2  k3 = k3
  None = None
  Match = {m, n, t}
  Result = {q, r, s}
  Player = {a, b, c}
  Claim = {"won", "lost"}
  Algorithm = {"elo", "glicko-2"}
  Submission = {1, 2, 3, 4}
  Input <- MCInput
  Call = {k1, k2, k3}
  MaxRetries = 1
  Faults = {"d1"}
  MaxLate = 1
INVARIANTS RatingsFollowHistory AnswersTrue 
PROPERTIES ExactlyOnce
SYMMETRY Alike
CHECK_DEADLOCK FALSE

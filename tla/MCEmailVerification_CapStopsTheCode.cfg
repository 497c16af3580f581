SPECIFICATION Spec
CONSTANTS
  u1 = u1
  s1 = s1
  s2 = s2
  c1 = c1
  c2 = c2
  r1 = r1
  r2 = r2
  Users <- OneUser
  SessionIds <- TwoSessions
  Codes <- TwoCodes
  Requests <- OneRequest
  RefreshTTL = 0
  CodeTTL = 2
  ResendCooldown = 1
  MaxAttempts = 2
  Null = Null
SYMMETRY Symmetry
INVARIANTS
  CapStopsTheCode

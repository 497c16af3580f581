SPECIFICATION AuthSpec
CONSTANTS
  u1 = u1
  s1 = s1
  s2 = s2
  s3 = s3
  c1 = c1
  c2 = c2
  r1 = r1
  r2 = r2
  Users <- OneUser
  SessionIds <- ThreeSessions
  Codes <- OneCode
  Requests <- TwoRequests
  RefreshTTL = 0
  CodeTTL = 1
  ResendCooldown = 1
  MaxAttempts = 2
  Null = Null
SYMMETRY Symmetry
INVARIANTS
  OnlyVerifiedHoldSessions
  NoStrayRevocation
  RotationKillsParent
  CondemnedStayRevoked
  SurvivorsRacedTheEnd
  InvalidAnswersBelowCap

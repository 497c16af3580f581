SPECIFICATION Spec
CONSTANTS
  u1 = u1
  s1 = s1
  s2 = s2
  s3 = s3
  r1 = r1
  r2 = r2
  Users <- OneUser
  SessionIds <- ThreeSessions
  Codes <- NoCodes
  RefreshTTL = 1
  CodeTTL = 0
  Null = Null
  Requests <- TwoRequests
SYMMETRY Symmetry
INVARIANTS
  NoLiveDescendantOfCondemned

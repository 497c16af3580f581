SPECIFICATION FairSpec
CONSTANTS
  u1 = u1
  s1 = s1
  s2 = s2
  s3 = s3
  c1 = c1
  c2 = c2
  r1 = r1
  r2 = r2
  Users <- OneUser
  SessionIds <- TwoSessions
  Codes <- TwoCodes
  Requests <- OneRequest
  RefreshTTL = 1
  CodeTTL = 3
  ResendCooldown = 2
  MaxAttempts = 2
  Null = Null
INVARIANTS
  AuthTypeOK
  NoLiveDescendantOfCondemned
  CodeIsSingleUse
  OneActiveCode
PROPERTIES
  KeepsPromise
  CooldownSpacesCodes
  EventuallyVerified

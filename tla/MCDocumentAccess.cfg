SPECIFICATION Spec
CONSTANTS
  u1 = u1
  u2 = u2
  d1 = d1
  r1 = r1
  r2 = r2
  r3 = r3
  Users <- TwoUsers
  Documents <- OneDocument
  Requests <- ThreeRequests
  Null = Null
SYMMETRY Symmetry
INVARIANTS
  TypeOK
  ServedReadsHadAccess
  StrangersLearnNothing
  AccessIsHonoured
  SharesAreOfVerifiedOthers
PROPERTIES
  KeepsPolicy

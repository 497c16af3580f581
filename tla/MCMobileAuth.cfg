SPECIFICATION FairSpec
CONSTANTS
  u1 = u1
  p1 = p1
  p2 = p2
  t1 = t1
  t2 = t2
  Users <- OneUser
  Pairs <- TwoPairs
  Tasks <- TwoTasks
  NoUser = NoUser
  Null = Null
INVARIANTS
  TypeOK
  RefreshTokenIsUsable
PROPERTIES
  EveryCallEnds

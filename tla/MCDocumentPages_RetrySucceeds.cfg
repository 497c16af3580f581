SPECIFICATION FairSpec
CONSTANTS
  i1 = i1
  r1 = r1
  Images <- OneImage
  Requests <- OneRequest
  PageLimit = 2
  Modes <- PhotoMode
  Empty = Empty
  Null = Null
PROPERTIES
  RetrySucceeds
CHECK_DEADLOCK FALSE

SPECIFICATION ReadingSpec
CONSTANTS
  i1 = i1
  r1 = r1
  q1 = q1
  Images <- OneImage
  Requests <- OneRequest
  Readers <- OneReader
  PageLimit = 2
  Modes <- BothModes
  Scopes <- EveryScope
  Blank <- NoText
  OutputLimit = 1
  Empty = Empty
  Null = Null
SYMMETRY Symmetry
INVARIANTS
  ReadingTypeOK
  DetailShowsCountedPages
  LinksLeadToFiles
  OutputsHoldTheText
CHECK_DEADLOCK FALSE

SPECIFICATION ImageSpec
CONSTANTS
  i1 = i1
  i2 = i2
  r1 = r1
  r2 = r2
  Images <- TwoImages
  Requests <- TwoRequests
  PageLimit = 2
  Modes <- BothModes
  Empty = Empty
  Null = Null
SYMMETRY Symmetry
INVARIANTS
  TypeOK
  NumbersHaveNoGap
  CountedPagesAreDone
  RowsHaveFiles
  PagesShowTheirPhotograph
PROPERTIES
  KeepsNumbering
CHECK_DEADLOCK FALSE

SPECIFICATION CaptureSpec
CONSTANTS
  i1 = i1
  i2 = i2
  r1 = r1
  r2 = r2
  nobody = nobody
  foreign = foreign
  Photos <- TwoPhotos
  Uploads <- TwoUploads
  Nobody = nobody
  Foreign = foreign
  Last = 3
  TileLimit = 2
INVARIANTS
  CaptureTypeOK
  DoneTilesAreStored
  RetriesStoreOnce
PROPERTIES
  EveryTileSettles
CHECK_DEADLOCK FALSE

SPECIFICATION SysFairSpec
CONSTANTS
  Uploads = {1, 2}
  Names <- MCNames
  Ext <- MCExt
  Size <- MCSize
  Conns = {1, 2, 3, 4}
  NoFile = NoFile
  Nobody = Nobody
  MaxLive = 1
  MayRefuse = TRUE
  Dir = Dir
  OnDisk <- MCDisk
  Absent = Absent
  Hole = Hole
  Unstorable = {}
  Sends <- NoSends
  MayCrash = FALSE
CHECK_DEADLOCK FALSE
INVARIANTS
  StoredOrHeld
  ClientSendsAndCloses
PROPERTIES
  UploadCompletes

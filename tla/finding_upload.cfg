SPECIFICATION SysSpec
CONSTANTS
  Uploads = {1}
  Names <- MCNames
  Ext <- MCExt
  Size <- MCSize
  Conns = {1, 2}
  NoFile = NoFile
  Nobody = Nobody
  MaxLive = 1
  MayRefuse = FALSE
  Dir = Dir
  OnDisk <- MCDisk
  Absent = Absent
  Hole = Hole
  Unstorable = {}
  Sends <- NoSends
  MayCrash = FALSE
CHECK_DEADLOCK FALSE
INVARIANTS
  FileUploaded

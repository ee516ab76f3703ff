SPECIFICATION FairSpec
CONSTANTS
  c1 = c1
  c2 = c2
  Conns = {c1, c2}
  Names <- MCNames
  Ext <- MCExt
  Dir = Dir
  OnDisk <- MCDisk
  Absent = Absent
  Hole = Hole
  Unstorable = {"new.png"}
  Sends <- MixedSends
  MayCrash = TRUE
CHECK_DEADLOCK FALSE
INVARIANTS
  UploadAccounted
  PagesFramed
  SoleBrowserLogged
PROPERTIES
  RequestsEnd

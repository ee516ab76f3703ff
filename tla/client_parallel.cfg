SPECIFICATION FairSpec
CONSTANTS
  Uploads = {1, 2}
  Names <- MCNames
  Ext <- MCExt
  Size <- MCSize
  Conns = {1, 2, 3, 4}
  NoFile = NoFile
  Nobody = Nobody
  MaxLive = 2
  MayRefuse = TRUE
CHECK_DEADLOCK FALSE
PROPERTIES
  UploadsEnd

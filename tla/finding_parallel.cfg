SPECIFICATION Spec
CONSTANTS
  Uploads = {1, 2}
  Names <- TwoNames
  Ext <- MCExt
  Size <- MCSize
  Conns = {1, 2, 3, 4}
  NoFile = NoFile
  Nobody = Nobody
  MaxLive = 2
  MayRefuse = FALSE
CHECK_DEADLOCK FALSE
INVARIANTS
  UploadSent

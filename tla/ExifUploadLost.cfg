SPECIFICATION Spec
CONSTANTS
  p1 = p1
  f1 = f1
  f2 = f2
  NoKey = NoKey
  None = None
  Jobs = {1, 2, 3}
  Pictures <- MCPictures
  Writable <- MCPictures
  Readable <- MCPictures
  Corrupt = {}
  Kinds <- MCKinds
  IdemKeys = {1, 2}
  Fields = {f1}
  Ops = {"edit", "overwrite"}
  MaxRetries = 2
  MaxClaims = 3
  MaxWrites = 2
  MaxCalls = 1
PROPERTY UploadSurvives
\* The bounds run out.
CHECK_DEADLOCK FALSE

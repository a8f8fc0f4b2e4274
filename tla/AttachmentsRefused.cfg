\* Graph may refuse a chunk, and a file may change during the upload.
SPECIFICATION Spec
CONSTANTS
  File = {f, g}
  Threshold = 1
  Chunk = 2
  MaxSize = 5
  MaxEdits = 1
  MaxFaults = 2
INVARIANT SuccessAttachesAll
CHECK_DEADLOCK FALSE

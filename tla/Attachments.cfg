\* Two files of up to three chunks, one edit, two faults.
SPECIFICATION Spec
CONSTANTS
  File = {f, g}
  Threshold = 1
  Chunk = 2
  MaxSize = 5
  MaxEdits = 1
  MaxFaults = 2
INVARIANT SuccessIsComplete
PROPERTIES SentLast CallEnds
CHECK_DEADLOCK FALSE

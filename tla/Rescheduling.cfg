\* Four days, two of them in another month, and eight patterns of five kinds.
SPECIFICATION Spec
CONSTANTS
  Day <- MCDay
  Asked <- MCAsked
  Offset = {0, 1}
  Window <- MCWindow
INVARIANTS MovesByDays MovesByDates EchoAsksForSameDays StartsOnItsDay
CHECK_DEADLOCK FALSE

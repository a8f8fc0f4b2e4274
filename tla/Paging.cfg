\* Five entries in two places, pages of one or two, three changes.
SPECIFICATION Spec
CONSTANTS
  Tool = {"list_inbox", "list_events"}
  Item = {i1, i2, i3, i4, i5}
  Place = {p1, p2}
  MaxCount = 2
  MaxEdits = 3
INVARIANTS TypeOK OneCalendar MissesAtMostTheRemoved RepeatsAtMostTheInserted
PROPERTIES EndIsReached
CHECK_DEADLOCK FALSE

\* One search, nothing changes.
SPECIFICATION Spec
CONSTANTS
  Tool = {"search_mail"}
  Item = {i1, i2, i3}
  Place = {p1, p2}
  MaxCount = 2
  MaxEdits = 0
PROPERTIES EndIsReached
CHECK_DEADLOCK FALSE

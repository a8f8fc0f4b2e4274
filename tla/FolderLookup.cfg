\* Four folders, two changes of the tree.
SPECIFICATION Spec
CONSTANTS
  Folder = {f1, f2, f3, f4}
  MaxEdits = 2
INVARIANTS TypeOK NothingStandingIsOverlooked TreeAtRestIsSearched
PROPERTIES CallEnds
CHECK_DEADLOCK FALSE

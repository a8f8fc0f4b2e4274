\* Three items, pages of up to two rows and a cap of two, which a page of one row
\* and one of two exceed; four changes, two faults.
SPECIFICATION Spec
CONSTANTS
  Item = {a, b, c}
  PageSize = 2
  CapMultiplier = 1
  MaxRetries = 1
  MaxClock = 4
  MaxFaults = 2
INVARIANTS NoLostChange RoundComplete
PROPERTIES FollowsFeed EventuallyInSync

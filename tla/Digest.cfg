\* Three messages, two of them old, and one contact; a tool stops after one row
\* and a drain after two pulls: a snapshot of the whole mailbox takes two digests.
SPECIFICATION MCSpec
CONSTANTS
  m1 = m1
  m2 = m2
  m3 = m3
  c1 = c1
  Resource = {"mail", "contacts"}
  ItemsOf <- MCItemsOf
  Old = {m2, m3}
  PageSize = 1
  Cap = 1
  MaxInternalPages = 2
  MaxClock = 4
  MaxFaults = 2
INVARIANTS NoSilentLoss NothingRecentIsLost
PROPERTIES HistoryNotCounted NoSilentRewind EventuallyCaughtUp

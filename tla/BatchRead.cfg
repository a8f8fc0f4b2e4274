\* Three reads, two retries, Retry-After of 1 or 5 seconds or none.
SPECIFICATION BatchSpec
CONSTANTS
  Request = {r1, r2, r3}
  MaxRetries = 2
  Backoff = 2
  RetryAfter = {1, 5}
  MaxRefusals = 3
INVARIANTS ReportsLastAnswer RetryAfterHonoured GivesUpLast
SYMMETRY Symmetry
CHECK_DEADLOCK FALSE

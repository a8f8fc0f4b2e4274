\* One call, three edits by other clients, the PATCH sent twice at most.
SPECIFICATION UpdateSpec
CONSTANTS
  Zone = {utc, pacific, eastern}
  UTC = utc
  Iana = {utc, eastern}
  Custom = custom
  Recurrence = {p, q}
  Occurrence = {o}
  MaxEdits = 3
  MaxSends = 2
INVARIANT ZoneChangeIsSendable
PROPERTIES SeriesKeepsOccurrences SeriesChangedAsAsked
CHECK_DEADLOCK FALSE

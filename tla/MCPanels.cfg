\* Directories of up to 6 entries in a window of 2 rows.
SPECIFICATION Spec
CONSTANTS
  Listings <- MCListings
  VisRows = 2
  PathMax = 2
  BufSize = 4
  Prefill = 2
  Ticks = 2
INVARIANTS TypeOK CursorInList FocusedIsVisible
PROPERTIES ArrowShowsCursor
CHECK_DEADLOCK FALSE

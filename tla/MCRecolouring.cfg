\* Texts of up to 3 rows, blank or not.
SPECIFICATION Spec
CONSTANTS
  blank = blank
  toggle = toggle
  word = word
  Text <- MCText
  Blank <- blank
  Length <- MCLength
  After <- MCAfter
  Files <- MCFiles
  Pasted <- MCPasted
  FirstSlots = 2
  MaxRows = 3
INVARIANTS TypeOK SyncOneOwner
PROPERTIES LineRepaintRestores

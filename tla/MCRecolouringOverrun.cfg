\* Rows may be longer than the row whose colours they inherit.
SPECIFICATION Spec
CONSTANTS
  blank = blank
  toggle = toggle
  word = word
  Text <- MCAllText
  Blank <- blank
  Length <- MCLength
  After <- MCAfter
  Files <- MCFiles
  Pasted <- MCPasted
  FirstSlots = 2
  MaxRows = 3
PROPERTIES OneColourPerCharacter

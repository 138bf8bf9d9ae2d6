\* A ring that one turn can just fill.
SPECIFICATION Spec
CONSTANTS
  KeyEvent <- MCKey
  MouseEvent <- MCMouse
  SerialEvent <- MCSerial
  Size = 5
  MaxPackets = 2
CHECK_DEADLOCK FALSE
INVARIANT TypeOK
PROPERTIES Lossless QuitEnds TurnEnds

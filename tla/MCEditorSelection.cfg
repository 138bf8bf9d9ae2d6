\* Texts of at most 3 symbols, so up to 4 rows, in windows of 2 rows.
SPECIFICATION Spec
CONSTANTS
  a = a
  sp = sp
  nl = nl
  Nothing = Nothing
  Char <- MCChar
  Space <- sp
  Newline <- nl
  Files <- MCFiles
  Viewports <- MCViewports
  WheelSteps <- MCWheelSteps
  MaxText = 3
  MaxClip = 2
INVARIANT ActiveSelectionNonEmpty


\* The sessions of MCSessions after :sync, each command given while at most one
\* packet to the other side is under way.
SPECIFICATION Spec
CONSTANTS
  author = author
  reader = reader
  a = a
  sp = sp
  nl = nl
  Peers <- MCPeers
  Author = author
  Char <- MCChar
  Space = sp
  Newline = nl
  Files <- MCFiles
  Clips <- MCClips
  Viewport <- MCViewport
  MaxText = 6
  Sessions <- MCSessions
  MaxInFlight = 1
CHECK_DEADLOCK FALSE
INVARIANTS TypeOK Converged
PROPERTIES  KeepsLine

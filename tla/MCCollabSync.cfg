\* The packets of :sync alone.
SPECIFICATION Spec
CONSTANTS
  author = author
  reader = reader
  a = a
  sp = sp
  nl = nl
  Peers <- MCPeers
  Author = author
  Char <- MCChar
  Space = sp
  Newline = nl
  Files <- MCFiles
  Clips <- MCClips
  Viewport <- MCViewport
  MaxText = 6
  Sessions <- MCAuthoring
  MaxInFlight = 1
CHECK_DEADLOCK FALSE
INVARIANT SyncPlacesRemoteCursor

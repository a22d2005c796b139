SPECIFICATION SessionsSpec
CONSTANTS
  p1 = p1
  c1 = c1
  c2 = c2
  Peers <- MCPeers
  Clients <- MCPeers
  Channels <- MCChannels
  Shell = c1
  Chars <- MCChars
  NL = "nl"
  Blank = " "
  MaxChunk = 2
  MaxChars = 4
  MaxKeys = 1
  Names <- MCNames
  Passwords <- MCBytes
  MaxItems = 1
CHECK_DEADLOCK FALSE
INVARIANT
  PathsRecorded

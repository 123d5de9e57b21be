SPECIFICATION RepliesSpec

CONSTANTS
  Codes <- MCCodes
  TextChars <- MCTextChars
  BufLen = 10
  MaxSize = 20
  MaxByte = 20
  Parts = 2
  MaxText = 7
  MaxInner = 5
  MaxTorn = 3

INVARIANTS
  RepliesTypeOK
  ReadsWholeReply
  SizeIsAsWritten
  PortIsAsWritten

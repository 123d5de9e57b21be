SPECIFICATION RepliesSpec

CONSTANTS
  Codes <- MCCodes
  TextChars <- MCTextChars
  BufLen = 10
  MaxSize = 20
  MaxByte = 20
  Parts = 2
  MaxText = 3
  MaxInner = 4
  MaxTorn = 3

INVARIANT
  DrainKeepsInStep

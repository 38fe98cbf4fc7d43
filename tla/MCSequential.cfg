SPECIFICATION SeqSpec
\* A limit that MinChunk reaches by doubling only past it, and appends on both
\* sides of every boundary.
CONSTANTS
  BufMax = 13
  BufChunk = 2
  BufSizes = {1, 3, 4, 14}
  BufGiven = 19
  ReqMax = 9
  ReqChunk = 4
  ReqHeaders = {5, 8, 9}
  ReqLengths <- MCLengths
  ReqExtra = 1
  MaxMethod = 3
  MaxPath = 3
  MaxHeaders = 2
  MaxLines = 4
  MaxDigits = 2
  LinesSent = 3
  Pieces = {1, 8}
  Starts <- MCStarts
  HeaderLines <- MCHeaderLines
  CmdForms <- MCForms
  CmdCommands <- MCCommands
  CmdCode <- MCCode
INVARIANT WithinBounds
INVARIANT TruncatedIsHonest
INVARIANT ParserMatchesGrammar
INVARIANT PointersHold
INVARIANT RightVerdict
INVARIANT WordsReadBack
PROPERTY CallsEnd
PROPERTY PiecesDoNotMatter
PROPERTY ConnectionEnds
PROPERTY SentAgain
\* A request that is wrong, and a command that was pasted, end a behaviour.
CHECK_DEADLOCK FALSE

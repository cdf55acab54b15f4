SPECIFICATION PathSpec
CONSTANTS
  a = a
  b = b
  Token <- MCToken
  Bad = Bad
  NLayers = 4
  Interval = 2
  NPrev = 2
  Wanted <- MCWanted
  MaxSeq = 4
  Pieces <- ReplyTokens
  MaxReply = 5
  Setups <- SomeSetups
  ThinkOpen <- MCThinkOpen
  ThinkClose <- MCThinkClose
  ToolOpen <- MCToolOpen
  ToolClose <- MCToolClose
  Lead = "m"
  Cont = "w"
  Replacement = "?"
  Blank <- MCBlank
  Newline = "n"
  Fn = "f"
  WritesRecover = FALSE
  Kind <- CharKind
  Lower <- CharLower
  Utf8 <- CharUtf8
  Encodings <- TextEncodings
  LogitRows <- SmallRows
  Exp <- PowersOfTwo
  Configs <- CutConfigs
  Draws = 4
PROPERTIES
  GoneReaderStops
INVARIANTS
  CachesSound
  HiddenRight
  TapsRight
  StreamFaithful
  CutsAsTheRegex
  DrawIsAllowed

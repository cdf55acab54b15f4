SPECIFICATION RsSpec
CONSTANTS
  Pieces <- ReplyTokens
  MaxReply = 5
  Setups <- SomeSetups
  ThinkOpen <- MCThinkOpen
  ThinkClose <- MCThinkClose
  ToolOpen <- MCToolOpen
  ToolClose <- MCToolClose
  Lead = "m"
  Cont = "w"
  Replacement = "?"
  Blank <- MCBlank
  Newline = "n"
  Fn = "f"
  WritesRecover = TRUE
PROPERTY
  GoneReaderStops
CHECK_DEADLOCK FALSE

SPECIFICATION RsSpec
CONSTANTS
  Pieces <- ReplyTokens
  MaxReply = 3
  Setups <- ChatSetups
  ThinkOpen <- MCThinkOpen
  ThinkClose <- MCThinkClose
  ToolOpen <- MCToolOpen
  ToolClose <- MCToolClose
  Lead = "m"
  Cont = "w"
  Replacement = "?"
  Blank <- MCBlank
  Newline = "n"
  Fn = "f"
  WritesRecover = FALSE
INVARIANT
  UnterminatedStaysReasoning
CHECK_DEADLOCK FALSE

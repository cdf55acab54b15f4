SPECIFICATION RsSpec
CONSTANTS
  Pieces <- Characters
  MaxReply = 5
  Setups <- ChatSetups
  ThinkOpen <- MCThinkOpen
  ThinkClose <- MCThinkClose
  ToolOpen <- MCToolOpen
  ToolClose <- MCToolClose
  Lead = "m"
  Cont = "w"
  Replacement = "?"
  Blank <- MCBlank
  Newline = "n"
  Fn = "f"
  WritesRecover = FALSE
INVARIANT
  NeverPanics
CHECK_DEADLOCK FALSE

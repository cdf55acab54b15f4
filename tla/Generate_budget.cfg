\* max_tokens reached among the accepted drafts.
SPECIFICATION Spec
CONSTANTS
  A = a
  E = e
  P = p
  G = g
  Token <- MCTokens
  Stop <- MCStop
  Prompt <- P
  Garbage <- G
  MaxPrompt = 1
  MaxTokens = 3
  BlockSize = 2
  NCtx = 9
  MaxRequests = 1
  Modes <- MCWhole
INVARIANTS
  BudgetIsLength

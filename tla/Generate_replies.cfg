\* Every block convention, context overruns, a bad n_draft and a broken sidecar; two
\* requests in a row on one engine, some of them failing, prompts up to and past the
\* draft context; refinement of GreedyDecode with its fairness.
SPECIFICATION MCSpec
CONSTANTS
  A = a
  E = e
  P = p
  G = g
  Token <- MCTokens
  Stop <- MCStop
  Prompt <- P
  Garbage <- G
  MaxPrompt = 7
  MaxTokens = 3
  BlockSize = 2
  NCtx = 6
  MaxRequests = 2
  Modes <- MCModes
INVARIANTS
  TokenIdentity
  LoopInvariant
  CachesHoldTheReply
  DraftContext
  EndsWhereContextSuffices
PROPERTIES
  GreedySpec
  RepliesEnd

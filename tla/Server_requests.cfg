SPECIFICATION RequestSpec
CONSTANTS
  Conns = {c1, c2}
  Requests <- EveryPath
  MaxPieces = 2
  None = None
  Char <- BpeChar
  Words <- BpeWords
  Tables <- BpeTables
  Ascii = {"a"}
  Unlisted <- BpeUnlisted
  Documents <- JsonDocuments
  Named <- JsonNamed
  Control <- JsonControl
  Vocab = {"go", "stop"}
  StopIds = {"stop"}
  PromptTok = "prompt"
  WrongTok = "wrong"
  PromptLens = {0, 1, 2}
  Predicts = {0, 1, 2, 3}
  MaxPredict = 3
  MaxDraft = 2
INVARIANTS
  Isolated
  Answered
  QueueSound
  EncodesTheWord
  JsonFaithful
PROPERTIES
  PoisonSilences
  EveryoneServed
  FollowsTheRule
  ChatKeepsPromise

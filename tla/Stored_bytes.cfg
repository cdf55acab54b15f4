SPECIFICATION FilesSpec
CONSTANTS
  Rows <- MCRows
  Columns = {1, 2}
  Cores <- MCCores
  MinParallel = 3
  Lengths <- RowLengths
  BitWidths = {1, 2, 3, 4, 5, 6, 7, 8}
  DeviceRows <- PackedOnDevice
  Patterns <- RowPatterns
  Align = 32
  MaxTensors = 3
  Tensors <- FileTensors
  Metas <- FileMetas
  StrLen <- FileStrLen
  Models <- LkModels
  Originals <- LkOriginals
  References <- LkReferences
  Losses = {0, 23, 1000}
  AskedTokens = {2, 3}
  MaxVec = 20
  Quant = 4
INVARIANTS
  SlicesDisjoint
  RowsRight
  StoresTheRow
  CopiesTheTensors
  AcceptedIsComplete
  VerifiedServes
  DraftFindsOriginal
PROPERTIES
  Returns

SPECIFICATION DeviceSpec
CONSTANTS
  a = a
  b = b
  Token <- MCToken
  Bad = Bad
  NLayers = 3
  Interval = 2
  NPrev = 2
  NCtx = 3
  Widths <- MCWidths
  MaxSets = 5
  Local = 2
  Block = 2
  ParamsMax = 2
  Tensors = {"wa", "wb"}
  Shape <- TensorShape
  HostCalls <- GpuCalls
  Lanes = 4
  MaxRow = 6
  Columns = 2
  Programs <- SoundPrograms
INVARIANTS
  RecordsWhole
  EqualsTokenLoop
  BuffersSound
  AnswersThisCall
  ReducesTheRow
PROPERTIES
  CallsReturn
  VkCallsReturn
  WorkgroupEnds

SPECIFICATION GgufSpec
CONSTANTS
  Align = 32
  MaxTensors = 3
  Tensors <- FileTensors
  Metas <- FileMetas
  StrLen <- FileStrLen
INVARIANT
  WrittenIsAccepted
CHECK_DEADLOCK FALSE

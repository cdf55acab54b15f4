SPECIFICATION WgSpec
CONSTANTS
  Lanes = 4
  MaxRow = 6
  Columns = 2
  Programs <- SoftmaxPrograms
INVARIANT
  SoftmaxOfTheRow
CHECK_DEADLOCK FALSE

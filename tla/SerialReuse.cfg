CONSTANTS
  InBytes = 2
  OutBytes = 2
  InBeats = 2
  OutBeats = 2
  RxDepth = 9
  TxDepth = 8
  NoByte = none
  Count = 4
  Reuses = TRUE
SPECIFICATION SessionSpec
INVARIANT AnswersItsInputs

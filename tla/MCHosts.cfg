SPECIFICATION HostsSpec
CONSTANTS
  Nodes <- OneLayer
  Models = {m0, m1}
  Compiled = m0
  Data = {m0, m1}
  Image <- FlatImages
  Versions = 2
  NoOne = none
  Runner = runner
  Loader = loader
  InBytes = 2
  OutBytes = 2
  InBeats = 2
  OutBeats = 2
  RxDepth = 9
  TxDepth = 8
  NoByte = none
  Count = 4
  Reuses = FALSE
INVARIANTS
  AnswersItsRequest
  AnswersFromModelInForce
  LoadedIsInForce
  NeverOverflows
  AnswersItsInputs
  NothingLeft
PROPERTIES
  KriaGoesOn
  CallsEnd

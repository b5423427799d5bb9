SPECIFICATION Spec
CONSTANTS
  QuantizedBits = 4
  ActBits = 4
  WeightBits = 4
  MultBits = 8
  BiasBits = 16
  TinyInverse = 64
  FeatureChain = {"gemm", "add", "from", "mul", "relu", "swap", "twice", "clip", "same", "qdq"}
  MapChain = {"pixel", "conv", "pool", "norm", "mapmul", "turn"}
  Models <- MCModels
  ShallowDepth = 4
  SpendInverse = 1024
  BankWords = 12
  StreamSettings <- MCStreamSettings
  FixedSettings <- MCFixedSettings
INVARIANTS MeaningKept EachUnitRounds SameCodes StreamsMeet ArrivesTogether BudgetKept BottleneckIsLeast WordsHold
CHECK_DEADLOCK FALSE

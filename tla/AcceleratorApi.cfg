SPECIFICATION Spec
CONSTANTS
  Calls <- SomeCalls
  Choices = {"auto", "narrow", "folded", "constant"}
  Models = {"own", "retrained"}
  Dirs = {"hardcaml", "sv", "fixed", "spare"}
  EnvHdl = None
  Generator = "builds"
  MaxRevision = 2
  None = None
INVARIANTS BoardAnswersAsReference SimulationAgrees CurrentLayers LoadedAllOrNothing
CHECK_DEADLOCK FALSE

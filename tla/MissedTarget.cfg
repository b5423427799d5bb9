SPECIFICATION Spec
CONSTANTS
  Calls <- MissingCalls
  Choices = {"auto", "narrow", "folded", "constant"}
  Models = {"own", "retrained"}
  Dirs = {"hardcaml", "sv", "fixed", "spare"}
  EnvHdl = None
  Generator = "builds"
  MaxRevision = 1
  None = None
INVARIANT BoardAnswersAlways
CHECK_DEADLOCK FALSE

SPECIFICATION LivenessSpec
CONSTANTS
  Size = 4
  Programs <- MCPrograms
INVARIANTS
  LivenessTypeOK
  GraphMatchesFlow
  NothingForgotten
  NeverInvented
PROPERTY AnalysisTerminates

SPECIFICATION Spec
CONSTANTS
  ByteBits = 8
  WordBytes = 2
  ImmBits = 6
  ShiftBits = 4
  MaxErrors = 2
  Inputs = {0, 1}
  LancePrograms <- MCPrograms
  AssemblyFiles <- MCFiles
INVARIANTS
  LabelsSound
  ProgramsGetThrough
  LocalLabelsNearest
  ReferencesResolve
  ImageMatchesLayout
PROPERTIES
  FollowsTheProgram
  ToolchainTerminates

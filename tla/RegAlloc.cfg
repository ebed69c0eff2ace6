SPECIFICATION RegAllocSpec
CONSTANTS
  First = {"three", "two", "read2"}
  Inner = {"read1", "add", "print2", "set", "lost"}
  Final = {"print1", "print2", "sum", "used"}
  Temps = {0, 1, 2, 3, 4, 5, 6, 7, 8, 9, 10, 11, 12, 13, 14, 15}
  GpRegs <- MCGpRegs
  Programs <- MCPrograms
INVARIANTS
  IntervalsCover
  ScanInputWellFormed
  NoInterference
  SharedOnlyFromSourceToDest
  CallOperandsPlaced
  SurvivesCalls
PROPERTY AllocationTerminates

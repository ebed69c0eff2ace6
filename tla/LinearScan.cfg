CONSTANTS
  Temps <- MCTemps
  Regs <- MCRegs
  Inputs <- MCStarts
  MaxStart = 2
  MaxPoint = 3
  N = 4
SPECIFICATION Spec
INVARIANTS
  TypeOK
  NoSharedRegister
  RespectsConstraints
  RegistersConserved
  ActiveSorted
PROPERTIES
  SpillsOnlyUnderPressure
  AllDecided

SPECIFICATION Spec
CONSTANTS
  ByteBits = 8
  WordBytes = 1
  ImmBits = 5
  ShiftBits = 3
  PC <- MCPC
  Words <- MCWords
  RegisterFiles <- Pairs
  NegativeSltiu = TRUE
PROPERTY ComputesAsRiscV

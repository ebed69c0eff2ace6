SPECIFICATION Spec
CONSTANTS
  ByteBits = 8
  WordBytes = 1
  ImmBits = 5
  ShiftBits = 3
  FirstRegister = 3
  Sources <- MCSources
  RegisterFiles <- MCRegisterFiles
INVARIANTS
  Printable
  MeansTheSame

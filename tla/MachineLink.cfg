SPECIFICATION Spec
CONSTANTS
  ByteBits = 4
  WordBytes = 2
  Registers = {0, 1, 2, 10, 17}
  Inputs = {0, 9}
  StackTop = 64
  PageSize = 8
  DebugModes = {FALSE, TRUE}
  BreakAddresses = {16, 22}
  MaxBreakpoints = 2
  LinkFromLink = TRUE
  Decode <- MCDecode
  Programs <- MCPrograms
PROPERTY Implements

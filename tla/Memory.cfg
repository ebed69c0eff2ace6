SPECIFICATION Spec
CONSTANTS
  ByteBits = 2
  WordBytes = 2
  Ranges <- MCRanges
  Addresses <- MCAddresses
  Values <- MCValues
INVARIANT
  ListInOrder
PROPERTY Implements

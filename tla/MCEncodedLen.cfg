CONSTANTS
  WordBits = 16
  IntBits = 8
  Families <- MCFamilies
SPECIFICATION WireSpec
INVARIANTS
  EncodedLenExact

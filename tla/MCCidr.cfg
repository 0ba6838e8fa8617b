CONSTANTS
  Families <- McFamilies
  BitsOf <- McBitsOf
  SizeBits = 4
SPECIFICATION Spec
INVARIANTS
  TypeOK
  RangeAgrees
  IteratorCovers

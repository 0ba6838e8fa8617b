CONSTANTS
  Families <- McFamilies
  BitsOf <- McBitsOf
  SizeBits = 4
SPECIFICATION Spec
INVARIANT LengthAsAsked

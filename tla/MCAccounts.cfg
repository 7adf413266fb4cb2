CONSTANTS
  s1 = s1  s2 = s2
  p1 = p1  p2 = p2
  k1 = k1  k2 = k2
  None = None  Blank = Blank  Broken = Broken
  Sessions <- MCSessions
  Names <- MCNames
  LowerOf <- MCLowerOf
  Passwords <- MCPasswords
  Keys <- MCKeys
  FirstFiles <- MCFirstFiles
  MaxCalls = 3
CHECK_DEADLOCK FALSE
SPECIFICATION Spec
SYMMETRY MCSymmetry
INVARIANTS
  NamesUnique
  WholeUnlessShared
PROPERTIES
  QuietCallIsExact

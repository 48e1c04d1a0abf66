CONSTANTS
  t1 = t1
  t2 = t2
  d1 = d1
  d2 = d2
  o1 = o1
  o2 = o2
  n1 = n1
  h1 = h1
  NULL = NULL
  Threads <- MCThreads
  Dirs <- MCDirs
  Objs <- MCObjs
  Names <- MCNames
  HmNames <- MCHmNames
  MaxOps = 2
  LostReply = TRUE
SYMMETRY MCSymmetry
SPECIFICATION Spec
INVARIANT StrippedNameFreedOnce

CONSTANTS
  t1 = t1  t2 = t2  m1 = m1  m2 = m2  k1 = k1  k2 = k2
  e1 = e1  e2 = e2  h1 = h1  h2 = h2  h3 = h3
  NULL = NULL
  Threads <- MCThreads
  Mnodes <- MCMnodes
  Keys <- MCKeys1
  Entries <- MCEntries
  Handles <- MCHandles
  Chains <- MCChains
  Hash <- MCHash
  NBlocks = 2
  ErrTimeout = 0
  MaxTime = 2
  MaxOps = 3
  AllocMayFail = TRUE
SPECIFICATION Spec
SYMMETRY Symmetry
INVARIANT CheckUsesCompleteEacl

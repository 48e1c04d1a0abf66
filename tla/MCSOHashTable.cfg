CONSTANTS
  t1 = t1  t2 = t2
  a1 = a1  a2 = a2  a3 = a3  a4 = a4  a5 = a5  a6 = a6  a7 = a7  a8 = a8
  r0 = r0  r1 = r1
  Threads <- MCThreads
  Recs <- MCRecs
  Addrs <- MCAddrs
  HeadAddr = head
  Rec0 = r0
  NULL = NULL
  W = 4
  NumSegs = 2
  SegSz = 2
  Workload <- MainWorkload
  AllocPick <- FirstFree
  AllocMayFail = TRUE
SPECIFICATION Spec
INVARIANTS TypeOK SplitOrderFindable 
PROPERTIES NoNodeLost

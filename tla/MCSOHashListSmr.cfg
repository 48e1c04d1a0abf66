CONSTANTS
  t1 = t1  t2 = t2
  a1 = a1  a2 = a2  a3 = a3  a4 = a4  a5 = a5  a6 = a6  a7 = a7
  r0 = r0  r1 = r1
  Threads <- MCThreads
  Recs <- MCRecs
  HeadAddr = head
  Rec0 = r0
  NULL = NULL
  Addrs <- SmrAddrs
  Keys <- MCKeys
  Workload <- SmrWorkload
  AllocPick <- FirstFree
  AllocMayFail = FALSE
SPECIFICATION LinSpec
INVARIANT HazardDeref
PROPERTY Linearizable

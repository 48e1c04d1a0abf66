CONSTANTS
  t1 = t1  t2 = t2  i1 = i1  i2 = i2  d1 = d1  d2 = d2  d3 = d3  s1 = s1  s2 = s2
  NULL = NULL  NotMvfs = NotMvfs
  Threads <- MCThreads
  Inodes <- MCInodes
  Dentries <- MCDentries
  Sbs <- MCSbs
  InoSb <- MCInoSb
  FidLen <- MCFidLen
  Parent <- MCParent
  SbHash <- MCSbHash
  MountList <- MCMountList
  SetviewAlias <- MCSetviewAlias
  FhWords <- MCFhWords
  LINUX_VERSION_CODE <- MCVersion
  VNODE_NFS_FH_TYPE_RESERVED = 0
  VNODE_NFS_FH_TYPE_ERROR = 255
SPECIFICATION Spec
INVARIANTS TypeOK RefcountExact OneAnonAlias FhRoundTrip DecodeReadsInBounds
PROPERTIES RequestsComplete

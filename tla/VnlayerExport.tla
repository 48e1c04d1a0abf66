--------------------------- MODULE VnlayerExport ---------------------------
(***************************************************************************)
(* The NFS export operations of the MVFS vnode layer                       *)
(* (src/mvfs_linux_sops.c, with the FID macros of src/mvfs_linux_only.h):  *)
(* vnlayer_inode_to_fh packs the child and parent FIDs and a hash of the  *)
(* super block into a file handle; vnlayer_fh_to_dentry/_to_parent         *)
(* (vnlayer_decode_fh, vnlayer_unpack_fh, vnlayer_eval_mount,              *)
(* vnlayer_get_dentry) turn a handle an NFS client returns into a dentry;  *)
(* vnlayer_get_parent looks up "..", and both end in vnlayer_find_dentry,  *)
(* which adds an anonymous dentry to an inode under i_lock (dcache_lock    *)
(* before 2.6.38) unless a vnode_dentry_ops alias exists.                  *)
(*                                                                         *)
(* Threads are nfsd threads.  A handle is a function from byte offsets to  *)
(* byte contents: <<"fid", i, k>> is byte k of inode i's FID, <<"ff",0,0>> *)
(* a byte of the fabricated parent, <<"hash", h, k>> byte k of the         *)
(* super-block hash h, <<"zero",0,0>> a byte BZERO cleared.                *)
(* VOP_FID, VFS_VGET and VOP_LOOKUP("..") are outside the repository:      *)
(* VOP_FID gives inode i a FID of FidLen[i] bytes, VFS_VGET returns a held *)
(* vnode for a FID of an inode of that super block and ESTALE otherwise,   *)
(* VOP_LOOKUP("..") returns Parent[i] held.                                *)
(***************************************************************************)
EXTENDS Integers, Sequences, FiniteSets, SequencesExt, Functions

CONSTANTS Threads, Inodes, Dentries, Sbs,
          InoSb,        \* the super block of each inode
          FidLen,       \* VOP_FID's fid_len, in bytes
          Parent,       \* VOP_LOOKUP(".."): an inode or NotMvfs
          NotMvfs,      \* a ".." outside MVFS
          SbHash,       \* MDKI_FID_CALC_HASH of each super block
          MountList,    \* the VOB mount list mvfs_find_mount walks
          SetviewAlias, \* Init: dentries with vnode_setview_dentry_ops
          FhWords,      \* the handle sizes nfsd offers, in __u32 words
          LINUX_VERSION_CODE,
          VNODE_NFS_FH_TYPE_RESERVED, VNODE_NFS_FH_TYPE_ERROR,
          NULL

KERNEL_VERSION(a, b, c) == a * 65536 + b * 256 + c

\* MDKI_FID_EXTRA_SIZE and MDKI_FID_LEN_WITH_HASH (2.6.24 and later).
MDKI_FID_EXTRA_SIZE == IF LINUX_VERSION_CODE >= KERNEL_VERSION(2,6,24) THEN 4 ELSE 0
MDKI_FID_LEN_WITH_HASH(fidlen) == MDKI_FID_EXTRA_SIZE + fidlen * 2

\* find_dentry takes the global dcache_lock before 2.6.38, i_lock after.
DcacheLock == "dcache_lock"
LockOf(i) == IF LINUX_VERSION_CODE < KERNEL_VERSION(2,6,38) THEN DcacheLock ELSE i
Locks == {DcacheLock} \cup Inodes

\* MDKI_LOCK_SB is lock_super before 3.8 and nothing after.
SbLocking == LINUX_VERSION_CODE < KERNEL_VERSION(3,8,0)

ZERO == <<"zero", 0, 0>>
FF   == <<"ff", 0, 0>>
OOB  == <<"oob", 0, 0>>

roundup(x, y) == ((x + y - 1) \div y) * y

Errors == {"EINVAL", "ENOMEM", "ESTALE"}

(***************************************************************************)
(* vnlayer_inode_to_fh(inode, fh, lenp, parent): the handle, or            *)
(* VNODE_NFS_FH_TYPE_ERROR with *lenp = 0.  Before 3.5 it is               *)
(* vnlayer_dentry_to_fh and the parent is d_parent's inode, never NULL.    *)
(***************************************************************************)
vnlayer_inode_to_fh(inode, cap, parent) ==
  LET fidlen == FidLen[inode]
      type   == 2 * fidlen
      mylen  == roundup(type + MDKI_FID_EXTRA_SIZE, 4)
      sethash == LINUX_VERSION_CODE >= KERNEL_VERSION(2,6,27)
      byte(k) == CASE k < fidlen -> <<"fid", inode, k>>
                   [] k < type   -> IF parent = NULL THEN FF ELSE <<"fid", parent, k - fidlen>>
                   [] sethash /\ k < type + 4 -> <<"hash", SbHash[InoSb[inode]], k - type>>
                   [] OTHER -> ZERO
  IN  IF \/ parent # NULL /\ FidLen[parent] # fidlen
         \/ mylen = VNODE_NFS_FH_TYPE_RESERVED \/ mylen >= VNODE_NFS_FH_TYPE_ERROR
         \/ cap * 4 < mylen
      THEN [type |-> VNODE_NFS_FH_TYPE_ERROR, len |-> 0]
      ELSE [type |-> type, len |-> mylen \div 4,
            fh |-> [k \in 0..(mylen - 1) |-> byte(k)],
            ino |-> inode, par |-> parent]

\* The handles nfsd hands back: as issued, one word short, or with an odd
\* type (a damaged or fabricated handle).
Received(h) ==
  { [fh |-> h.fh, len |-> h.len, type |-> h.type, intact |-> TRUE],
    [fh |-> Restrict(h.fh, 0..((h.len - 1) * 4 - 1)), len |-> h.len - 1,
     type |-> h.type, intact |-> FALSE],
    [fh |-> h.fh, len |-> h.len, type |-> h.type + 1, intact |-> FALSE] }

ReadByte(fh, k) == IF k \in DOMAIN fh THEN fh[k] ELSE OOB

\* The FID BCOPY'd from fidlen bytes at off: the inode whose FID it is, or
\* NULL for bytes that are no inode's FID.
ReadFid(fh, off, fidlen) ==
  IF \E i \in Inodes : FidLen[i] = fidlen /\ \A k \in 0..(fidlen - 1) : ReadByte(fh, off + k) = <<"fid", i, k>>
  THEN CHOOSE i \in Inodes : \A k \in 0..(fidlen - 1) : ReadByte(fh, off + k) = <<"fid", i, k>>
  ELSE NULL

\* MDKI_FID_SB_HASH(fh, fidlen): the u32 at byte fidlen * 2.
MDKI_FID_SB_HASH(fh, fidlen) ==
  LET b(k) == ReadByte(fh, fidlen * 2 + k)
      isHash(h) == \A k \in 0..3 : b(k) = <<"hash", h, k>>
  IN  CASE \A k \in 0..3 : b(k) = ZERO -> 0
        [] \E s \in Sbs : isHash(SbHash[s]) -> CHOOSE h \in {SbHash[s] : s \in Sbs} : isHash(h)
        [] OTHER -> -1   \* bytes that are no mount's hash

\* Mutant of FhTooSmall: the check leaves out the hash.
FhTooSmallNoHash(rx, fidlen) == rx.len * 4 < fidlen * 2

\* vnlayer_decode_fh's "FH too small to be a MVFS FH" test.
FhTooSmall(rx, fidlen) == rx.len * 4 < MDKI_FID_LEN_WITH_HASH(fidlen)

\* vnlayer_unpack_fh's -EINVAL: fewer than fhtype bytes, or an odd fhtype.
UnpackRejects(rx) == rx.len * 4 < rx.type \/ rx.type % 2 # 0

\* Mutant of UnpackOffset: the parent is copied from byte fhtype.
UnpackOffsetType(is_parent, fidlen) == IF is_parent THEN fidlen * 2 ELSE 0

\* vnlayer_unpack_fh copies the object from byte 0, the parent from fidlen.
UnpackOffset(is_parent, fidlen) == IF is_parent THEN fidlen ELSE 0

\* The byte offsets vnlayer_unpack_fh and MDKI_FID_SB_HASH read.
UnpackReads(off, fidlen) == (off..(off + fidlen - 1)) \cup ((fidlen * 2)..(fidlen * 2 + 3))

\* mvfs_find_mount(vnlayer_eval_mount, &hash): the first mount whose
\* super block hashes to hash, or NULL.
vnlayer_eval_mount(hash) ==
  LET k == SelectInSeq(MountList, LAMBDA s : SbHash[s] = hash)
  IN  IF k = 0 THEN NULL ELSE MountList[k]

VARIABLES icount,   \* i_count of each inode
          dalloc,   \* the dentry is allocated
          dinode,   \* d_inode, or NULL
          dops,     \* d_op: "vnode" or "setview"
          dcount,   \* d_count
          lock,     \* owner of each i_lock and of dcache_lock, or NULL
          sblock,   \* owner of each super block's lock_super, or NULL
          pc, lc    \* nfsd thread program counter and locals

vars == <<icount, dalloc, dinode, dops, dcount, lock, sblock, pc, lc>>

LcInit == [h |-> NULL, rx |-> NULL, op |-> NULL, want |-> NULL, reads |-> {},
           fid |-> NULL, sb |-> NULL, vp |-> NULL, dnew |-> NULL, dp |-> NULL,
           held |-> NULL]

\* The dentries attached to inode i.
Aliases(i) == {d \in Dentries : dalloc[d] /\ dinode[d] = i}

Init ==
  /\ dalloc = [d \in Dentries |-> d \in DOMAIN SetviewAlias]
  /\ dinode = [d \in Dentries |-> IF d \in DOMAIN SetviewAlias THEN SetviewAlias[d] ELSE NULL]
  /\ dops   = [d \in Dentries |-> IF d \in DOMAIN SetviewAlias THEN "setview" ELSE NULL]
  /\ dcount = [d \in Dentries |-> 0]
  /\ icount = [i \in Inodes |-> Cardinality({d \in DOMAIN SetviewAlias : SetviewAlias[d] = i})]
  /\ lock   = [l \in Locks |-> NULL]
  /\ sblock = [s \in Sbs |-> NULL]
  /\ pc     = [t \in Threads |-> "idle"]
  /\ lc     = [t \in Threads |-> LcInit]

Goto(t, where, l) == pc' = [pc EXCEPT ![t] = where] /\ lc' = [lc EXCEPT ![t] = l]

(***************************************************************************)
(* export_ops.encode_fh: nfsd asks for the handle of inode i (and its      *)
(* parent, or NULL from 3.5 on) in a buffer of cap words; nfsd fails the  *)
(* request when the type is VNODE_NFS_FH_TYPE_ERROR.                       *)
(***************************************************************************)
EncodeFh(t) ==
  /\ pc[t] = "idle"
  /\ \E i \in Inodes, cap \in FhWords :
     \E parent \in ({Parent[i]} \cap Inodes)
                   \cup (IF LINUX_VERSION_CODE >= KERNEL_VERSION(3,5,0) THEN {NULL} ELSE {}) :
       LET h == vnlayer_inode_to_fh(i, cap, parent)
       IN  IF h.type = VNODE_NFS_FH_TYPE_ERROR
           THEN Goto(t, "ret", [LcInit EXCEPT !.h = h, !.dp = "ESTALE"])
           ELSE Goto(t, "encoded", [LcInit EXCEPT !.h = h])
  /\ UNCHANGED <<icount, dalloc, dinode, dops, dcount, lock, sblock>>

(***************************************************************************)
(* export_ops.fh_to_dentry / fh_to_parent (vnlayer_decode_fh with          *)
(* is_parent FALSE / TRUE) for a handle a client sends back; this step is  *)
(* everything up to mvfs_find_mount: the fidlen and length checks,         *)
(* KMEM_ALLOC, vnlayer_unpack_fh and MDKI_FID_SB_HASH.  want is the inode  *)
(* an intact handle names.                                                 *)
(***************************************************************************)
vnlayer_decode_fh(t) ==
  /\ pc[t] = "encoded"
  /\ \E rx \in Received(lc[t].h), is_parent \in BOOLEAN, allocOk \in BOOLEAN :
       LET fidlen == rx.type \div 2
           off    == UnpackOffset(is_parent, fidlen)
           want   == IF ~rx.intact THEN NULL ELSE IF is_parent THEN lc[t].h.par ELSE lc[t].h.ino
           l      == [lc[t] EXCEPT !.rx = rx, !.want = want,
                        !.op = IF is_parent THEN "fh_to_parent" ELSE "fh_to_dentry"]
       IN  CASE fidlen = 0 -> Goto(t, "ret", [l EXCEPT !.dp = "EINVAL"])
             [] FhTooSmall(rx, fidlen) ->
                  Goto(t, "ret", [l EXCEPT !.dp = "EINVAL"])
             [] ~allocOk -> Goto(t, "ret", [l EXCEPT !.dp = "ENOMEM"])
             [] UnpackRejects(rx) ->
                  Goto(t, "ret", [l EXCEPT !.dp = "EINVAL"])
             [] OTHER ->
                  Goto(t, "find_mount",
                       [l EXCEPT !.fid = ReadFid(rx.fh, off, fidlen),
                                 !.reads = UnpackReads(off, fidlen),
                                 !.sb = MDKI_FID_SB_HASH(rx.fh, fidlen)])
  /\ UNCHANGED <<icount, dalloc, dinode, dops, dcount, lock, sblock>>

\* mvfs_find_mount with vnlayer_eval_mount: on a match it takes lock_super
\* (before 3.8); no match is EINVAL.  lc.sb holds the hash until here.
FindMount(t) ==
  /\ pc[t] = "find_mount"
  /\ LET sb == vnlayer_eval_mount(lc[t].sb)
     IN  IF sb = NULL
         THEN /\ Goto(t, "ret", [lc[t] EXCEPT !.sb = NULL, !.dp = "EINVAL"])
              /\ UNCHANGED sblock
         ELSE /\ ~SbLocking \/ sblock[sb] = NULL
              /\ sblock' = IF SbLocking THEN [sblock EXCEPT ![sb] = t] ELSE sblock
              /\ Goto(t, "vget", [lc[t] EXCEPT !.sb = sb])
  /\ UNCHANGED <<icount, dalloc, dinode, dops, dcount, lock>>

\* vnlayer_get_dentry: VFS_VGET returns the vnode held, or fails.
VfsVget(t) ==
  /\ pc[t] = "vget"
  /\ LET f == lc[t].fid
     IN  IF f # NULL /\ InoSb[f] = lc[t].sb
         THEN /\ icount' = [icount EXCEPT ![f] = @ + 1]
              /\ Goto(t, "d_alloc", [lc[t] EXCEPT !.vp = f])
         ELSE /\ Goto(t, "unlock_sb", [lc[t] EXCEPT !.dp = "ESTALE"])
              /\ UNCHANGED icount
  /\ UNCHANGED <<dalloc, dinode, dops, dcount, lock, sblock>>

(***************************************************************************)
(* vnlayer_find_dentry(vp), one step per region of the code.               *)
(***************************************************************************)
\* d_alloc_pseudo outside the lock; NULL is ENOMEM.
FdAlloc(t) ==
  /\ pc[t] = "d_alloc"
  /\ IF \E d \in Dentries : ~dalloc[d]
     THEN \E d \in {x \in Dentries : ~dalloc[x]} :
            /\ dalloc' = [dalloc EXCEPT ![d] = TRUE]
            /\ dcount' = [dcount EXCEPT ![d] = 1]
            /\ Goto(t, "lock", [lc[t] EXCEPT !.dnew = d])
     ELSE /\ Goto(t, "rele", [lc[t] EXCEPT !.dp = "ENOMEM"])
          /\ UNCHANGED <<dalloc, dcount>>
  /\ UNCHANGED <<icount, dinode, dops, lock, sblock>>

\* Mutant of FdLock: the spin lock does not wait for its owner.
FdLockNoWait(t) ==
  /\ pc[t] = "lock"
  /\ lock' = [lock EXCEPT ![LockOf(lc[t].vp)] = t]
  /\ Goto(t, "lookup", lc[t])
  /\ UNCHANGED <<icount, dalloc, dinode, dops, dcount, sblock>>

\* spin_lock(&ip->i_lock), or spin_lock(&dcache_lock) before 2.6.38.
FdLock(t) ==
  /\ pc[t] = "lock"
  /\ lock[LockOf(lc[t].vp)] = NULL
  /\ lock' = [lock EXCEPT ![LockOf(lc[t].vp)] = t]
  /\ Goto(t, "lookup", lc[t])
  /\ UNCHANGED <<icount, dalloc, dinode, dops, dcount, sblock>>

\* vnlayer_inode2dentry_internal_no_lock(ip, NULL, NULL, &vnode_dentry_ops):
\* an alias with vnode_dentry_ops, taken with a reference.
FdLookup(t) ==
  /\ pc[t] = "lookup"
  /\ LET found == {d \in Aliases(lc[t].vp) : dops[d] = "vnode"}
     IN  IF found # {}
         THEN \E d \in found :
                /\ dcount' = [dcount EXCEPT ![d] = @ + 1]
                /\ Goto(t, "unlock", [lc[t] EXCEPT !.dp = d])
         ELSE /\ Goto(t, "add", lc[t])
              /\ UNCHANGED dcount
  /\ UNCHANGED <<icount, dalloc, dinode, dops, lock, sblock>>

\* Mutant of FdAdd: the new dentry takes no inode reference.
FdAddNoHold(t) ==
  /\ pc[t] = "add"
  /\ dinode' = [dinode EXCEPT ![lc[t].dnew] = lc[t].vp]
  /\ dops'   = [dops EXCEPT ![lc[t].dnew] = "vnode"]
  /\ Goto(t, "unlock", [lc[t] EXCEPT !.dp = lc[t].dnew, !.dnew = NULL])
  /\ UNCHANGED <<icount, dalloc, dcount, lock, sblock>>

\* No alias: ihold(ip) (VN_HOLD before 2.6.38), attach dnew with
\* vnode_dentry_ops to i_dentry and s_anon, and keep it as the result.
FdAdd(t) ==
  /\ pc[t] = "add"
  /\ icount' = [icount EXCEPT ![lc[t].vp] = @ + 1]
  /\ dinode' = [dinode EXCEPT ![lc[t].dnew] = lc[t].vp]
  /\ dops'   = [dops EXCEPT ![lc[t].dnew] = "vnode"]
  /\ Goto(t, "unlock", [lc[t] EXCEPT !.dp = lc[t].dnew, !.dnew = NULL])
  /\ UNCHANGED <<dalloc, dcount, lock, sblock>>

\* Mutant of FdUnlock: the lock is never released.
FdUnlockKeep(t) ==
  /\ pc[t] = "unlock"
  /\ Goto(t, "dput", lc[t])
  /\ UNCHANGED <<icount, dalloc, dinode, dops, dcount, lock, sblock>>

FdUnlock(t) ==
  /\ pc[t] = "unlock"
  /\ lock' = [lock EXCEPT ![LockOf(lc[t].vp)] = NULL]
  /\ Goto(t, "dput", lc[t])
  /\ UNCHANGED <<icount, dalloc, dinode, dops, dcount, sblock>>

\* dput(dnew) when it was not used: its only reference goes, and a dentry
\* with no inode is freed.
FdDput(t) ==
  /\ pc[t] = "dput"
  /\ LET d == lc[t].dnew
     IN  IF d # NULL
         THEN /\ dalloc' = [dalloc EXCEPT ![d] = FALSE]
              /\ dcount' = [dcount EXCEPT ![d] = 0]
         ELSE UNCHANGED <<dalloc, dcount>>
  /\ Goto(t, "rele", [lc[t] EXCEPT !.dnew = NULL])
  /\ UNCHANGED <<icount, dinode, dops, lock, sblock>>

\* VN_RELE(vp) in vnlayer_get_dentry and vnlayer_get_parent.
VnRele(t) ==
  /\ pc[t] = "rele"
  /\ icount' = [icount EXCEPT ![lc[t].vp] = @ - 1]
  /\ Goto(t, IF lc[t].op = "get_parent" THEN "ret" ELSE "unlock_sb",
          [lc[t] EXCEPT !.vp = NULL])
  /\ UNCHANGED <<dalloc, dinode, dops, dcount, lock, sblock>>

\* MDKI_UNLOCK_SB(realsb) after vnlayer_get_dentry.
UnlockSb(t) ==
  /\ pc[t] = "unlock_sb"
  /\ sblock' = IF SbLocking THEN [sblock EXCEPT ![lc[t].sb] = NULL] ELSE sblock
  /\ Goto(t, "ret", lc[t])
  /\ UNCHANGED <<icount, dalloc, dinode, dops, dcount, lock>>

(***************************************************************************)
(* vnlayer_get_parent(child) on the dentry nfsd holds: VOP_LOOKUP("..")    *)
(* returns the parent held; outside MVFS it is ESTALE, else                *)
(* vnlayer_find_dentry and VN_RELE.                                        *)
(***************************************************************************)
vnlayer_get_parent(t) ==
  /\ pc[t] = "holding"
  /\ LET p == Parent[dinode[lc[t].held]]
     IN  IF p = NotMvfs
         THEN /\ Goto(t, "ret", [lc[t] EXCEPT !.op = "get_parent", !.dp = "ESTALE"])
              /\ UNCHANGED icount
         ELSE /\ icount' = [icount EXCEPT ![p] = @ + 1]
              /\ Goto(t, "d_alloc", [lc[t] EXCEPT !.op = "get_parent", !.vp = p,
                                                  !.want = p, !.dp = NULL])
  /\ UNCHANGED <<dalloc, dinode, dops, dcount, lock, sblock>>

\* nfsd takes the result: it keeps a dentry (dropping the child it asked
\* the parent of) or fails the request.
NfsdResult(t) ==
  /\ pc[t] = "ret"
  /\ LET old == lc[t].held
         new == lc[t].dp
     IN  /\ dcount' = IF old # NULL THEN [dcount EXCEPT ![old] = @ - 1] ELSE dcount
         /\ IF new \in Dentries
            THEN Goto(t, "holding", [LcInit EXCEPT !.held = new])
            ELSE Goto(t, "idle", LcInit)
  /\ UNCHANGED <<icount, dalloc, dinode, dops, lock, sblock>>

\* nfsd is done with the dentry: dput.
NfsdPut(t) ==
  /\ pc[t] = "holding"
  /\ dcount' = [dcount EXCEPT ![lc[t].held] = @ - 1]
  /\ Goto(t, "idle", LcInit)
  /\ UNCHANGED <<icount, dalloc, dinode, dops, lock, sblock>>

\* The dcache frees an unused dentry (it takes i_lock to unhash it) and
\* the dentry's inode reference goes with it.
PruneDentry(d) ==
  /\ dalloc[d] /\ dinode[d] # NULL /\ dcount[d] = 0
  /\ lock[LockOf(dinode[d])] = NULL
  /\ dalloc' = [dalloc EXCEPT ![d] = FALSE]
  /\ dinode' = [dinode EXCEPT ![d] = NULL]
  /\ dops'   = [dops EXCEPT ![d] = NULL]
  /\ icount' = [icount EXCEPT ![dinode[d]] = @ - 1]
  /\ UNCHANGED <<dcount, lock, sblock, pc, lc>>

Thread(t) ==
  \/ EncodeFh(t)
  \/ vnlayer_decode_fh(t) \/ FindMount(t) \/ VfsVget(t)
  \/ FdAlloc(t) \/ FdLock(t) \/ FdLookup(t) \/ FdAdd(t) \/ FdUnlock(t) \/ FdDput(t)
  \/ VnRele(t) \/ UnlockSb(t)
  \/ vnlayer_get_parent(t) \/ NfsdResult(t) \/ NfsdPut(t)

Next == (\E t \in Threads : Thread(t)) \/ (\E d \in Dentries : PruneDentry(d))

\* nfsd threads are scheduled (weak fairness); spin locks are ticket locks
\* and lock_super a semaphore with a wait queue (strong fairness to take them).
Fairness(t) ==
  /\ WF_vars(Thread(t))
  /\ SF_vars(FdLock(t))
  /\ IF SbLocking THEN SF_vars(FindMount(t)) ELSE TRUE

Spec == Init /\ [][Next]_vars /\ \A t \in Threads : Fairness(t)

-----------------------------------------------------------------------------
Pcs == {"idle", "encoded", "find_mount", "vget", "d_alloc", "lock",
        "lookup", "add", "unlock", "dput", "rele", "unlock_sb", "ret", "holding"}

TypeOK ==
  /\ icount \in [Inodes -> Nat]
  /\ dalloc \in [Dentries -> BOOLEAN]
  /\ dinode \in [Dentries -> Inodes \cup {NULL}]
  /\ dops \in [Dentries -> {"vnode", "setview", NULL}]
  /\ dcount \in [Dentries -> Nat]
  /\ lock \in [Locks -> Threads \cup {NULL}]
  /\ sblock \in [Sbs -> Threads \cup {NULL}]
  /\ pc \in [Threads -> Pcs]
  /\ \A t \in Threads : lc[t].dp \in Dentries \cup Errors \cup {NULL}

\* The references a thread holds on dentry d: the unused dnew, the result
\* dp, and the dentry it holds between requests.
DRefs(t, d) == (IF lc[t].dnew = d THEN 1 ELSE 0) + (IF lc[t].dp = d THEN 1 ELSE 0)
               + (IF lc[t].held = d THEN 1 ELSE 0)

\* Reference counts are exact: an inode's i_count is its attached dentries
\* plus the vnodes VFS_VGET / VOP_LOOKUP returned that are not yet
\* VN_RELE'd, and a dentry's d_count is the references threads hold
\* (vnlayer_find_dentry's ihold, d_alloc and the alias lookup's dget).
RefcountExact ==
  /\ \A i \in Inodes :
       icount[i] = Cardinality(Aliases(i)) + Cardinality({t \in Threads : lc[t].vp = i})
  /\ \A d \in Dentries : dcount[d] = MapThenSumSet(LAMBDA t : DRefs(t, d), Threads)

\* vnlayer_find_dentry never gives an inode a second vnode_dentry_ops
\* dentry: the alias test and the d_alias insert are one critical section.
OneAnonAlias ==
  \A i \in Inodes : Cardinality({d \in Aliases(i) : dops[d] = "vnode"}) <= 1

\* A handle vnlayer_inode_to_fh issued decodes back (fh_to_dentry to the
\* inode, fh_to_parent to the parent, get_parent to ".."), to a dentry with
\* vnode_dentry_ops, unless memory ran out; a damaged handle is refused.
FhRoundTrip ==
  \A t \in Threads : pc[t] = "ret" =>
    /\ lc[t].want \in Inodes =>
         \/ lc[t].dp = "ENOMEM"
         \/ lc[t].dp \in Dentries /\ dinode[lc[t].dp] = lc[t].want /\ dops[lc[t].dp] = "vnode"
    /\ lc[t].rx # NULL /\ ~lc[t].rx.intact => lc[t].dp \in Errors

\* vnlayer_decode_fh and vnlayer_unpack_fh read only the len * 4 bytes the
\* client sent, the super-block hash included.
DecodeReadsInBounds ==
  \A t \in Threads : lc[t].rx # NULL => lc[t].reads \subseteq 0..(lc[t].rx.len * 4 - 1)

\* Every request an nfsd thread starts ends: no lock is left held and no
\* thread waits forever on i_lock, dcache_lock or lock_super.
RequestsComplete == \A t \in Threads : pc[t] # "idle" ~> pc[t] = "idle"
====

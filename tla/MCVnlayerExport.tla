-------------------------- MODULE MCVnlayerExport --------------------------
(***************************************************************************)
(* VnlayerExport for TLC: two nfsd threads, a child inode i2 whose ".."    *)
(* is i1, the VOB root i1 whose ".." leaves MVFS, both on super block s1;  *)
(* a second mount s2 is first on the mount list, so the hash lookup must   *)
(* skip it.  d1 is a vnode_setview_dentry_ops alias of i2 that            *)
(* vnlayer_find_dentry must not return.  Handles of 5 words are too small  *)
(* for two 10-byte FIDs and the hash, 6 words fit (the NFS v2 case).       *)
(***************************************************************************)
EXTENDS VnlayerExport, TLC

CONSTANTS t1, t2, i1, i2, d1, d2, d3, s1, s2

MCThreads == {t1, t2}
MCInodes  == {i1, i2}
MCDentries == {d1, d2, d3}
MCSbs     == {s1, s2}
MCInoSb   == [i \in MCInodes |-> s1]
MCFidLen  == [i \in MCInodes |-> 10]
MCParent  == (i1 :> NotMvfs) @@ (i2 :> i1)
MCSbHash  == (s1 :> 7) @@ (s2 :> 9)
MCMountList == <<s2, s1>>
MCSetviewAlias == d1 :> i2
MCFhWords == {5, 6}
\* RHEL 7's 3.10: i_lock, no lock_super, a NULL parent possible.
MCVersion == KERNEL_VERSION(3, 10, 0)
\* RHEL 6's 2.6.32: dcache_lock, lock_super, the parent always given.
MCVersion32 == KERNEL_VERSION(2, 6, 32)
\* 2.6.25: the hash is read but not written.
MCVersion26 == KERNEL_VERSION(2, 6, 25)

MCSymmetry == Permutations(MCThreads)
=============================================================================

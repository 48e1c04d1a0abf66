---------------------------- MODULE MCEaclCache ----------------------------
(* Model-checking instance of EaclCache: two threads, two mnodes that     *)
(* share one rolemap, two entry addresses, three EACL handles, one chain; *)
(* and the AclCheck decisions, which are constant facts, checked in the    *)
(* initial state.                                                           *)
EXTENDS EaclCache, AclCheck, TLC

CONSTANTS t1, t2, m1, m2, k1, k2, e1, e2, h1, h2, h3

MCThreads  == {t1, t2}
MCMnodes   == {m1, m2}
MCKeys1    == {k1}
MCKeys2    == {k1, k2}
MCEntries  == {e1, e2}
MCHandles  == {h1, h2, h3}
MCChains   == {0}
\* With one chain every key hashes to the same lock, as with a collision.
MCHash(k)  == 0
\* Threads, mnodes, entry and handle addresses are interchangeable: no
\* definition chooses among them or orders them.
Symmetry == Permutations(MCThreads) \cup Permutations(MCMnodes)
            \cup Permutations(MCEntries) \cup Permutations(MCHandles)
\* The initial state: no call made, no time passed.  Only Init is one.
AtStart == now = 0 /\ opsLeft = [t \in Threads |-> MaxOps]

\* tbs_sid_acl_check_permission_creds grants a non-empty request exactly
\* when it is within the union of the permissions of the applicable ACEs
\* (AclCheck's PermissionMatchesReference), checked once.
PermissionCorrect == AtStart => PermissionMatchesReference

\* mvfs_chkaccess_modebits grants exactly the bits of the caller's class
\* (AclCheck's ModebitsMatchesReference), checked once.
ModebitsCorrect == AtStart => ModebitsMatchesReference
=============================================================================

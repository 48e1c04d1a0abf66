----------------------------- MODULE EaclCache -----------------------------
(***************************************************************************)
(* The effective-ACL cache of src/mvfs_acl.c: the EACL hash table whose   *)
(* entries are shared, reference-counted handles cached in mnodes         *)
(* (mn_vob.mn_aclh), the chain locks of its lock pool, the multi-block    *)
(* EACL fetch of mvfs_eaclhash_update_eaclh with its one ESTALE restart,  *)
(* the validation against the mnode's eacl_mtime and the error timeout,   *)
(* mvfs_acl_inval_oid, and the access check of mvfs_chkaccess_acl.         *)
(*                                                                         *)
(* A thread holds an mnode lock for the whole of mvfs_acl_cache and of    *)
(* mvfs_chkaccess_acl, and a chain lock for each hash-table section.  A   *)
(* section under a chain lock is one step, except the EACL fetch, which   *)
(* is one step per RPC: mvfs_chkaccess_acl reads eah_eaclh after it has   *)
(* dropped the chain lock, so what an update leaves in eah_eaclh between  *)
(* two RPCs can be seen.                                                   *)
(***************************************************************************)
EXTENDS Integers, FiniteSets

CONSTANTS
  Threads,     \* kernel threads
  Mnodes,      \* VOB mnodes
  Keys,        \* rolemap OIDs (replica and view type fixed)
  Entries,     \* addresses KMEM_ALLOC can return for an entry
  Handles,     \* addresses the XDR layer can return for an EACL
  NULL,        \* NULL pointer, and the null rolemap OID
  Chains,      \* hash values 0..mvfs_eaclhash_size-1
  Hash(_),     \* MVFS_EACLHASH: key -> chain
  NBlocks,     \* RPC blocks an EACL spans
  ErrTimeout,  \* mvfs_eacl_err_timeout, in clock ticks
  MaxTime,     \* bound: last value of the clock
  MaxOps,      \* bound: operations per thread
  AllocMayFail \* KMEM_ALLOC of an entry may fail while memory is left

ASSUME NULL \notin Mnodes \cup Keys \cup Entries \cup Handles
ASSUME \A k \in Keys : Hash(k) \in Chains
ASSUME NBlocks \in Nat \ {0} /\ ErrTimeout \in Nat /\ MaxTime \in Nat

VARIABLES
  role,    \* role[m]: mn_vob.attr.rolemap_oid
  mtime,   \* mtime[m]: mn_vob.attr.eacl_mtime
  aclh,    \* aclh[m]: mn_vob.mn_aclh
  mlock,   \* mlock[m]: the thread holding the mnode lock, or NULL
  alive,   \* entries allocated and not yet freed
  hashed,  \* entries linked on their chain
  ekey,    \* ekey[e]: eah_key
  refcnt,  \* refcnt[e]: eah_refcnt
  lut,     \* lut[e]: eah_eacl_lut
  eaclh,   \* eaclh[e]: eah_eaclh
  hst,     \* hst[h]: "free", "partial" (being accumulated) or "complete"
  hver,    \* hver[h]: the EACL mtime of the server's EACL h holds
  clk,     \* clk[c]: the thread holding the lock of chain c, or NULL
  emtime,  \* emtime[k]: the view server's current EACL mtime of k
  now,     \* MDKI_CTIME()
  pc, lc, opsLeft

mnodeVars  == <<role, mtime, aclh, mlock>>
entryVars  == <<alive, hashed, ekey, refcnt, lut, eaclh>>
handleVars == <<hst, hver>>
serverVars == <<emtime, now>>
vars == <<mnodeVars, entryVars, handleVars, clk, serverVars, pc, lc, opsLeft>>

Labels == {"idle", "c_get", "r_dec", "r_free", "c_set", "u_rpc",
           "c_unlock", "k_val", "k_test", "k_use", "k_eval", "x_done", "i_chain"}

\* Locals of the operation a thread is in.
Local0 == [op |-> "none", m |-> NULL, k |-> NULL, ep |-> NULL, rel |-> NULL,
           relMn |-> FALSE, ret |-> "idle", new |-> FALSE, blk |-> 0,
           restarted |-> FALSE, rd |-> NULL, rdVer |-> 0, todo |-> {}]

Init ==
  /\ role   = [m \in Mnodes |-> NULL]
  /\ mtime  = [m \in Mnodes |-> 0]
  /\ aclh   = [m \in Mnodes |-> NULL]
  /\ mlock  = [m \in Mnodes |-> NULL]
  /\ alive  = {}
  /\ hashed = {}
  /\ ekey   = [e \in Entries |-> NULL]
  /\ refcnt = [e \in Entries |-> 0]
  /\ lut    = [e \in Entries |-> 0]
  /\ eaclh  = [e \in Entries |-> NULL]
  /\ hst    = [h \in Handles |-> "free"]
  /\ hver   = [h \in Handles |-> 0]
  /\ clk    = [c \in Chains |-> NULL]
  /\ emtime = [k \in Keys |-> 0]
  /\ now    = 0
  /\ pc     = [t \in Threads |-> "idle"]
  /\ lc     = [t \in Threads |-> Local0]
  /\ opsLeft = [t \in Threads |-> MaxOps]

Goto(t, l)  == pc' = [pc EXCEPT ![t] = l]
ChainOf(e)  == Hash(ekey[e])

Done(t) == /\ pc' = [pc EXCEPT ![t] = "idle"] /\ lc' = [lc EXCEPT ![t] = Local0]

-----------------------------------------------------------------------------
(* The hash-table helpers, each under the chain lock.                      *)

\* tbs_sid_acl_free of eah_eaclh, if there is one (the handle is NULLed).
FreeEacl(e) ==
  hst' = IF eaclh[e] = NULL THEN hst ELSE [hst EXCEPT ![eaclh[e]] = "free"]

\* Mutant: the chain walk compares the wrong key field and never matches.
FindEntryNone(k) == {}
\* mvfs_eaclhash_find_entry: the entries on k's chain whose key is k.
FindEntry(k) == {e \in hashed : ekey[e] = k}

\* Mutant: only the error-timeout retry, not the eacl_mtime comparison.
NeedsUpdateErrOnly(e, m) == eaclh[e] = NULL /\ lut[e] + ErrTimeout < now
\* The test of mvfs_eaclhash_validate_eaclh: the mnode's eacl_mtime is newer
\* than the entry's, or the last fetch failed and the error timeout passed.
NeedsUpdate(e, m) ==
  \/ mtime[m] > lut[e]
  \/ eaclh[e] = NULL /\ lut[e] + ErrTimeout < now

\* mvfs_eaclhash_update_eaclh up to its first RPC: free the current EACL
\* and reset the cursor.  The chain lock is held until the fetch ends.
StartUpdate(t, e, c, l) ==
  /\ clk'   = [clk EXCEPT ![c] = t]
  /\ FreeEacl(e)
  /\ eaclh' = [eaclh EXCEPT ![e] = NULL]
  /\ pc'    = [pc EXCEPT ![t] = "u_rpc"]
  /\ lc'    = [lc EXCEPT ![t] = [l EXCEPT !.blk = 0, !.restarted = FALSE]]

\* Mutant: mvfs_acl_cache without the release of the extra hold when the
\* entry is the one the mnode already has.
GetReturnLeak(t, e) ==
  LET m == lc[t].m  diff == aclh[m] # e IN
  /\ pc' = [pc EXCEPT ![t] = "r_dec"]
  /\ lc' = [lc EXCEPT ![t] = [@ EXCEPT !.ep = e, !.new = FALSE, !.relMn = diff,
                                       !.rel = IF diff THEN aclh[m] ELSE NULL,
                                       !.ret = IF diff THEN "c_set" ELSE "c_unlock"]]

\* The tail of mvfs_acl_cache after mvfs_eaclhash_get returned e (mnode
\* locked): a different entry means the mnode's old one is released and e
\* stored; the same one means the new hold on it is released.
GetReturn(t, e) ==
  LET m == lc[t].m  diff == aclh[m] # e IN
  /\ pc' = [pc EXCEPT ![t] = "r_dec"]
  /\ lc' = [lc EXCEPT ![t] = [@ EXCEPT !.ep = e, !.new = FALSE, !.relMn = diff,
                                       !.rel = IF diff THEN aclh[m] ELSE e,
                                       !.ret = IF diff THEN "c_set" ELSE "c_unlock"]]

\* The end of the fetch: drop the chain lock and return to the caller,
\* linking a new entry on its chain first (mvfs_eaclhash_add_entry).
UpdateDone(t) ==
  LET e == lc[t].ep IN
  /\ clk' = [clk EXCEPT ![ChainOf(e)] = NULL]
  /\ hashed' = IF lc[t].new THEN hashed \cup {e} ELSE hashed
  /\ IF lc[t].op = "cache" THEN GetReturn(t, e)
     ELSE /\ pc' = [pc EXCEPT ![t] = "k_test"]
          /\ UNCHANGED lc

-----------------------------------------------------------------------------
(* mvfs_acl_cache and mvfs_eaclhash_get.                                   *)

\* mvfs_acl_cache, entered with the mnode locked and a fresh vstat whose
\* rolemap is k (NULL: no ACL, the handle is released).
CacheStart(t, m, k) ==
  /\ pc[t] = "idle" /\ opsLeft[t] > 0 /\ mlock[m] = NULL
  /\ mlock'   = [mlock EXCEPT ![m] = t]
  /\ role'    = [role EXCEPT ![m] = k]
  /\ mtime'   = [mtime EXCEPT ![m] = IF k = NULL THEN 0 ELSE emtime[k]]
  /\ opsLeft' = [opsLeft EXCEPT ![t] = @ - 1]
  /\ IF k = NULL
     THEN /\ pc' = [pc EXCEPT ![t] = "r_dec"]
          /\ lc' = [lc EXCEPT ![t] = [Local0 EXCEPT !.op = "cache", !.m = m,
                      !.rel = aclh[m], !.relMn = TRUE, !.ret = "c_unlock"]]
     ELSE /\ pc' = [pc EXCEPT ![t] = "c_get"]
          /\ lc' = [lc EXCEPT ![t] = [Local0 EXCEPT !.op = "cache", !.m = m, !.k = k]]
  /\ UNCHANGED <<aclh, entryVars, handleVars, clk, serverVars>>

\* mvfs_eaclhash_get under the chain lock: a hit is held and validated; a
\* miss allocates an entry with refcnt 1, a zero lut and a NULL EACL and
\* fetches its EACL; a failed allocation returns NULL.
CGet(t) ==
  LET m == lc[t].m  k == lc[t].k  c == Hash(k)
      found == FindEntry(k) IN
  /\ pc[t] = "c_get" /\ clk[c] = NULL
  /\ \/ \E e \in found :
          /\ refcnt' = [refcnt EXCEPT ![e] = @ + 1]
          /\ IF NeedsUpdate(e, m)
             THEN /\ StartUpdate(t, e, c, [lc[t] EXCEPT !.ep = e])
                  /\ UNCHANGED <<lut, hver>>
             ELSE /\ GetReturn(t, e)
                  /\ UNCHANGED <<clk, lut, eaclh, handleVars>>
          /\ UNCHANGED <<alive, hashed, ekey>>
     \/ \E e \in Entries \ alive :
          /\ found = {}
          /\ alive'  = alive \cup {e}
          /\ ekey'   = [ekey EXCEPT ![e] = k]
          /\ refcnt' = [refcnt EXCEPT ![e] = 1]
          /\ lut'    = [lut EXCEPT ![e] = 0]
          /\ eaclh'  = [eaclh EXCEPT ![e] = NULL]
          /\ clk'    = [clk EXCEPT ![c] = t]
          /\ pc'     = [pc EXCEPT ![t] = "u_rpc"]
          /\ lc'     = [lc EXCEPT ![t] = [@ EXCEPT !.ep = e, !.new = TRUE,
                                                   !.blk = 0, !.restarted = FALSE]]
          /\ UNCHANGED <<hashed, handleVars>>
     \/ /\ found = {}
        /\ AllocMayFail \/ Entries \subseteq alive
        /\ GetReturn(t, NULL)
        /\ UNCHANGED <<clk, entryVars, handleVars>>
  /\ UNCHANGED <<mnodeVars, serverVars, opsLeft>>

-----------------------------------------------------------------------------
(* The EACL fetch of mvfs_eaclhash_update_eaclh, one mvfs_clnt_get_eacl_mnp *)
(* per step, the chain lock held throughout.                               *)

\* An RPC returns block blk of the server's current EACL of the entry's
\* key.  The first block allocates the handle; each one sets the lut to
\* the EACL mtime; the last one ends the fetch.
RpcOk(t) ==
  LET e == lc[t].ep  k == ekey[e]  h == eaclh[e]  last == lc[t].blk = NBlocks - 1
      st == IF last THEN "complete" ELSE "partial" IN
  /\ \/ \E h2 \in Handles :
          /\ h = NULL /\ hst[h2] = "free"
          /\ hst'   = [hst EXCEPT ![h2] = st]
          /\ hver'  = [hver EXCEPT ![h2] = emtime[k]]
          /\ eaclh' = [eaclh EXCEPT ![e] = h2]
     \/ /\ h # NULL /\ hver[h] = emtime[k]
        /\ hst' = [hst EXCEPT ![h] = st]
        /\ UNCHANGED <<eaclh, hver>>
  /\ lut' = [lut EXCEPT ![e] = emtime[k]]
  /\ IF last THEN UpdateDone(t)
     ELSE /\ lc' = [lc EXCEPT ![t].blk = @ + 1]
          /\ UNCHANGED <<clk, hashed, pc>>

\* A failed RPC (an RPC error, a bad status, or an ESTALE after the one
\* restart) sets the handle NULL and the lut to the current time, and the
\* fetch ends.  An ESTALE (the server's EACL changed since the scan began)
\* before the restart does the same and then rescans from block 0.  The
\* RPC NULLs ep->eah_eaclh before the caller's tbs_sid_acl_free tests it
\* (mvfs_acl.c lines 1119 and 1175), so the EACL accumulated so far is
\* never freed: its handle stays allocated.
RpcFail(t) ==
  LET e == lc[t].ep  h == eaclh[e]
      stale == h # NULL /\ hver[h] # emtime[ekey[e]] IN
  /\ eaclh' = [eaclh EXCEPT ![e] = NULL]
  /\ lut'   = [lut EXCEPT ![e] = now]
  /\ IF stale /\ ~lc[t].restarted
     THEN /\ lc' = [lc EXCEPT ![t] = [@ EXCEPT !.blk = 0, !.restarted = TRUE]]
          /\ UNCHANGED <<clk, hashed, pc>>
     ELSE UpdateDone(t)
  /\ UNCHANGED <<hst, hver>>

URpc(t) ==
  /\ pc[t] = "u_rpc"
  /\ RpcOk(t) \/ RpcFail(t)
  /\ UNCHANGED <<mnodeVars, alive, ekey, refcnt, serverVars, opsLeft>>

-----------------------------------------------------------------------------
(* mvfs_eaclhash_release, and the caller's code after it.                   *)

\* What the caller does once the release is over, given the mnode handles
\* after *epp = NULL: mvfs_acl_cache stores its new entry and unlocks; the
\* mnode cleanup leaves an mnode with no attributes.
AfterRelease(t, a) ==
  LET m == lc[t].m IN
  /\ aclh'  = IF lc[t].ret = "c_set" THEN [a EXCEPT ![m] = lc[t].ep] ELSE a
  /\ mlock' = [mlock EXCEPT ![m] = NULL]
  /\ role'  = IF lc[t].ret = "x_done" THEN [role EXCEPT ![m] = NULL] ELSE role
  /\ mtime' = IF lc[t].ret = "x_done" THEN [mtime EXCEPT ![m] = 0] ELSE mtime
  /\ Done(t)

\* Mutant: mvfs_eaclhash_release without mvfs_eaclhash_remove_entry.
RDecNoRemove(t) ==
  LET e == lc[t].rel  m == lc[t].m
      nulled == IF lc[t].relMn THEN [aclh EXCEPT ![m] = NULL] ELSE aclh IN
  /\ pc[t] = "r_dec"
  /\ IF e = NULL
     THEN /\ AfterRelease(t, aclh)
          /\ UNCHANGED <<hashed, refcnt>>
     ELSE /\ clk[ChainOf(e)] = NULL
          /\ refcnt' = [refcnt EXCEPT ![e] = @ - 1]
          /\ IF refcnt[e] = 1
             THEN /\ hashed' = hashed
                  /\ aclh' = nulled
                  /\ Goto(t, "r_free")
                  /\ UNCHANGED <<lc, mlock, role, mtime>>
             ELSE /\ AfterRelease(t, nulled)
                  /\ UNCHANGED hashed
  /\ UNCHANGED <<alive, ekey, lut, eaclh, handleVars, clk, serverVars, opsLeft>>

\* Under the chain lock: drop one reference and, at zero, unlink the entry
\* (mvfs_eaclhash_remove_entry); then NULL the caller's pointer.
RDec(t) ==
  LET e == lc[t].rel  m == lc[t].m
      nulled == IF lc[t].relMn THEN [aclh EXCEPT ![m] = NULL] ELSE aclh IN
  /\ pc[t] = "r_dec"
  /\ IF e = NULL
     THEN /\ AfterRelease(t, aclh)
          /\ UNCHANGED <<hashed, refcnt>>
     ELSE /\ clk[ChainOf(e)] = NULL
          /\ refcnt' = [refcnt EXCEPT ![e] = @ - 1]
          /\ IF refcnt[e] = 1
             THEN /\ hashed' = hashed \ {e}
                  /\ aclh' = nulled
                  /\ Goto(t, "r_free")
                  /\ UNCHANGED <<lc, mlock, role, mtime>>
             ELSE /\ AfterRelease(t, nulled)
                  /\ UNCHANGED hashed
  /\ UNCHANGED <<alive, ekey, lut, eaclh, handleVars, clk, serverVars, opsLeft>>

\* mvfs_eaclhash_free_entry, outside the lock: free the EACL and the entry.
RFree(t) ==
  LET e == lc[t].rel IN
  /\ pc[t] = "r_free"
  /\ FreeEacl(e)
  /\ alive' = alive \ {e}
  /\ eaclh' = [eaclh EXCEPT ![e] = NULL]
  /\ AfterRelease(t, aclh)
  /\ UNCHANGED <<hashed, ekey, refcnt, lut, hver, clk, serverVars, opsLeft>>

\* mvfs_acl_uncache: the mnode cleanup, the only user of the mnode,
\* releases its handle.
Uncache(t, m) ==
  /\ pc[t] = "idle" /\ opsLeft[t] > 0 /\ mlock[m] = NULL
  /\ mlock'   = [mlock EXCEPT ![m] = t]
  /\ opsLeft' = [opsLeft EXCEPT ![t] = @ - 1]
  /\ pc'      = [pc EXCEPT ![t] = "r_dec"]
  /\ lc'      = [lc EXCEPT ![t] = [Local0 EXCEPT !.op = "uncache", !.m = m,
                   !.rel = aclh[m], !.relMn = TRUE, !.ret = "x_done"]]
  /\ UNCHANGED <<role, mtime, aclh, entryVars, handleVars, clk, serverVars>>

-----------------------------------------------------------------------------
(* mvfs_chkaccess_acl for a non-root caller, the mnode not locked by it.   *)

\* Lock the mnode.  With a NULL rolemap the mode bits decide; with no
\* handle access is denied; either way the mnode is unlocked at once.
CheckStart(t, m) ==
  /\ pc[t] = "idle" /\ opsLeft[t] > 0 /\ mlock[m] = NULL
  /\ opsLeft' = [opsLeft EXCEPT ![t] = @ - 1]
  /\ IF role[m] = NULL \/ aclh[m] = NULL
     THEN UNCHANGED <<mlock, pc, lc>>
     ELSE /\ mlock' = [mlock EXCEPT ![m] = t]
          /\ pc' = [pc EXCEPT ![t] = "k_val"]
          /\ lc' = [lc EXCEPT ![t] = [Local0 EXCEPT !.op = "check", !.m = m,
                                                    !.ep = aclh[m]]]
  /\ UNCHANGED <<role, mtime, aclh, entryVars, handleVars, clk, serverVars>>

\* mvfs_eaclhash_validate: under the chain lock, refetch if needed.
KVal(t) ==
  LET e == lc[t].ep  c == ChainOf(e) IN
  /\ pc[t] = "k_val" /\ clk[c] = NULL
  /\ IF NeedsUpdate(e, lc[t].m)
     THEN StartUpdate(t, e, c, lc[t])
     ELSE UNCHANGED <<clk, eaclh, hst, lc>> /\ Goto(t, "k_test")
  /\ UNCHANGED <<mnodeVars, alive, hashed, ekey, refcnt, lut, hver, serverVars, opsLeft>>

\* The first read of ep->eah_eaclh, without the chain lock: NULL denies.
\* Otherwise the requested mode is mapped to EACL rights, and a write to a
\* file, or an execute the mode bits refuse, is denied without the EACL.
KTest(t) ==
  /\ pc[t] = "k_test"
  /\ \/ /\ mlock' = [mlock EXCEPT ![lc[t].m] = NULL]
        /\ Done(t)
     \/ /\ eaclh[lc[t].ep] # NULL
        /\ Goto(t, "k_use")
        /\ UNCHANGED <<mlock, lc>>
  /\ UNCHANGED <<role, mtime, aclh, entryVars, handleVars, clk, serverVars, opsLeft>>

\* The second read, the handle passed to
\* tbs_sid_acl_check_permission_creds, which then walks that EACL.
KUse(t) ==
  LET h == eaclh[lc[t].ep] IN
  /\ pc[t] = "k_use"
  /\ lc' = [lc EXCEPT ![t] = [@ EXCEPT !.rd = h,
                                       !.rdVer = IF h = NULL THEN 0 ELSE hver[h]]]
  /\ Goto(t, "k_eval")
  /\ UNCHANGED <<mnodeVars, entryVars, handleVars, clk, serverVars, opsLeft>>

\* The permission check returns and the mnode is unlocked.
KEval(t) ==
  /\ pc[t] = "k_eval"
  /\ mlock' = [mlock EXCEPT ![lc[t].m] = NULL]
  /\ Done(t)
  /\ UNCHANGED <<role, mtime, aclh, entryVars, handleVars, clk, serverVars, opsLeft>>

-----------------------------------------------------------------------------
(* mvfs_acl_inval_oid(VOB_MTYPE_ROLEMAP, k): each chain in turn, under its *)
(* lock, has the lut of its entries for k zeroed.                           *)

InvalStart(t, k) ==
  /\ pc[t] = "idle" /\ opsLeft[t] > 0
  /\ opsLeft' = [opsLeft EXCEPT ![t] = @ - 1]
  /\ pc' = [pc EXCEPT ![t] = "i_chain"]
  /\ lc' = [lc EXCEPT ![t] = [Local0 EXCEPT !.op = "inval", !.k = k, !.todo = Chains]]
  /\ UNCHANGED <<mnodeVars, entryVars, handleVars, clk, serverVars>>

IChain(t) ==
  LET c == CHOOSE x \in lc[t].todo : TRUE  k == lc[t].k IN
  /\ pc[t] = "i_chain" /\ clk[c] = NULL
  /\ lut' = [e \in Entries |->
               IF e \in hashed /\ ChainOf(e) = c /\ ekey[e] = k THEN 0 ELSE lut[e]]
  /\ IF lc[t].todo = {c} THEN Done(t)
     ELSE /\ lc' = [lc EXCEPT ![t].todo = @ \ {c}]
          /\ UNCHANGED pc
  /\ UNCHANGED <<mnodeVars, alive, hashed, ekey, refcnt, eaclh, handleVars, clk,
                 serverVars, opsLeft>>

-----------------------------------------------------------------------------
(* The view server and the clock.                                          *)

\* The EACL of rolemap k changes on the server, at a new time.
EaclChange(k) ==
  /\ now < MaxTime
  /\ now' = now + 1
  /\ emtime' = [emtime EXCEPT ![k] = now + 1]
  /\ UNCHANGED <<mnodeVars, entryVars, handleVars, clk, pc, lc, opsLeft>>

Tick ==
  /\ now < MaxTime
  /\ now' = now + 1
  /\ UNCHANGED <<emtime, mnodeVars, entryVars, handleVars, clk, pc, lc, opsLeft>>

Step(t) ==
  \/ \E m \in Mnodes, k \in Keys \cup {NULL} : CacheStart(t, m, k)
  \/ CGet(t) \/ URpc(t) \/ RDec(t) \/ RFree(t)
  \/ \E m \in Mnodes : Uncache(t, m) \/ CheckStart(t, m)
  \/ KVal(t) \/ KTest(t) \/ KUse(t) \/ KEval(t)
  \/ \E k \in Keys : InvalStart(t, k)
  \/ IChain(t)

\* Every thread has made its calls; the system may stop here.
Finished ==
  /\ \A t \in Threads : pc[t] = "idle" /\ opsLeft[t] = 0
  /\ UNCHANGED vars

Next == (\E t \in Threads : Step(t)) \/ (\E k \in Keys : EaclChange(k)) \/ Tick \/ Finished

Spec == Init /\ [][Next]_vars

-----------------------------------------------------------------------------
(* Properties.                                                             *)

TypeOK ==
  /\ role \in [Mnodes -> Keys \cup {NULL}]
  /\ mtime \in [Mnodes -> 0..MaxTime]
  /\ aclh \in [Mnodes -> Entries \cup {NULL}]
  /\ mlock \in [Mnodes -> Threads \cup {NULL}]
  /\ hashed \subseteq alive /\ alive \subseteq Entries
  /\ refcnt \in [Entries -> Nat]
  /\ lut \in [Entries -> 0..MaxTime]
  /\ eaclh \in [Entries -> Handles \cup {NULL}]
  /\ hst \in [Handles -> {"free", "partial", "complete"}]
  /\ clk \in [Chains -> Threads \cup {NULL}]
  /\ pc \in [Threads -> Labels]

\* The references a thread holds from mvfs_eaclhash_get until it stores
\* the entry in its mnode or releases it.
Holds(t, e) == lc[t].op = "cache" /\ lc[t].ep = e /\ pc[t] # "c_get"

\* An entry's eah_refcnt is exactly the number of mnodes whose mn_aclh
\* names it plus the holds of threads inside mvfs_acl_cache; no mnode
\* names a freed entry; and an entry is on its chain exactly while it is
\* referenced (a new one from its allocation in mvfs_eaclhash_get until
\* it is added after the fetch).  mvfs_acl_cache's compare-and-release
\* and mvfs_eaclhash_release's unlink-then-free must keep this.
RefcountExact ==
  /\ \A m \in Mnodes : aclh[m] \in alive \cup {NULL}
  /\ \A e \in alive :
       /\ refcnt[e] = Cardinality({m \in Mnodes : aclh[m] = e})
                      + Cardinality({t \in Threads : Holds(t, e)})
       /\ (refcnt[e] > 0) = (e \in hashed \/ \E t \in Threads : lc[t].new /\ lc[t].ep = e)

\* No two entries on the hash chains have the same key: find, allocate,
\* fetch and add all happen under one chain lock in mvfs_eaclhash_get.
OneEntryPerKey ==
  \A e1, e2 \in hashed : ekey[e1] = ekey[e2] => e1 = e2

\* The EACL mvfs_chkaccess_acl hands to the permission check is at least
\* as new as the eacl_mtime of the mnode's vstat: the validation refetches
\* when the entry's lut is older.
CheckFresh ==
  \A t \in Threads : pc[t] = "k_eval" /\ lc[t].rd # NULL =>
    lc[t].rdVer >= mtime[lc[t].m]

\* The EACL handle the permission check walks is the entry's current,
\* completely fetched EACL until the check returns: not NULL, not a
\* partially accumulated one, not one another thread's refetch freed.
CheckUsesCompleteEacl ==
  \A t \in Threads : pc[t] = "k_eval" =>
    /\ lc[t].rd # NULL
    /\ lc[t].rd = eaclh[lc[t].ep]
    /\ hst[lc[t].rd] = "complete"

\* No EACL storage is lost: every handle allocated by the XDR decoding of
\* a VIEW_EACL_ROLEMAP reply is held by a live cache entry, so that
\* mvfs_eaclhash_free_entry or the refetch of mvfs_eaclhash_update_eaclh
\* eventually frees it, including after an RPC that fails part-way.
EaclNotLeaked ==
  \A h \in Handles : hst[h] # "free" => \E e \in alive : eaclh[e] = h
====

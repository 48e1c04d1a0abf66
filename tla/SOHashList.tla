----------------------------- MODULE SOHashList -----------------------------
(***************************************************************************)
(* The lock-free ordered list of src/mvfs_sohash_table.c, with its         *)
(* hazard-pointer registry and its safe memory reclamation (retire/scan). *)
(*                                                                         *)
(* Threads call the three list-level operations on the list hanging off   *)
(* bucket 0 (the slot hashtable[0][0], which holds the sentinel created    *)
(* by sohash_init_hashtable):                                              *)
(*   insert  = sohash_insert_entry -> sohash_list_insert                   *)
(*   delete  = sohash_delete_entry -> sohash_list_delete                   *)
(*   find    = sohash_find_entry   -> sohash_list_find                     *)
(* each bracketed by sohash_hp_get / sohash_hp_release.  Every step of a   *)
(* thread is one access to shared memory (a read, a write or a CAS), so   *)
(* the interleavings are those of the kernel threads running the code.    *)
(*                                                                         *)
(* Memory: a node is an address; the allocator (sohash_alloc_node) may    *)
(* return any free address, so addresses are reused after                 *)
(* sohash_free_node and the ABA cases the hazard pointers exist for are   *)
(* reachable.  A pointer value is <<address, delete bit>>.                 *)
(***************************************************************************)
EXTENDS Integers, Sequences, FiniteSets, SOHashKeys

CONSTANTS
  Threads,   \* kernel threads operating on the table
  Addrs,     \* addresses sohash_alloc_node can return
  Recs,      \* addresses KMEM_ALLOC can return for a sohash_hazard_ref_t
  Keys,      \* reverse split-ordered keys of regular nodes (all > 0)
  HeadAddr,  \* the bucket-0 sentinel allocated by sohash_init_hashtable
  Rec0,      \* the hazard record allocated by sohash_init_hashtable
  NULL,
  Workload,  \* bound: Workload[t][i] is the set of <<operation, key>> pairs
             \* thread t may call as its i-th operation
  AllocPick(_), \* AllocPick(free): the addresses sohash_alloc_node may
                \* return when free ones are left (all of them, or fewer
                \* for a run that fixes the allocator's order)
  AllocMayFail \* KMEM_ALLOC may fail while memory is left (else only
               \* when Addrs or Recs is used up)

ASSUME HeadAddr \notin Addrs /\ NULL \notin Addrs \cup Recs
ASSUME Rec0 \in Recs /\ Keys \subseteq Nat \ {0}

AllAddrs == Addrs \cup {HeadAddr}
Slot     == "slot"            \* the location hashtable[0][0]
Free     == "FREE"            \* SOHASH_HP_FREE
InUse    == "INUSE"           \* SOHASH_HP_INUSE
HPSlots  == 0..2              \* hazard_ptrs[3]
SentinelKey0 == 0             \* sohash_sentinelkey(0)

(* Pointer values: an address (or NULL) and the delete bit. *)
Ptr(a)        == <<a, FALSE>>
Marked(p)     == <<p[1], TRUE>>  \* SOHASH_SET_DELETE_BIT
IsMarked(p)   == p[2]            \* SOHASH_IS_DELETE_BIT_SET
Unmark(p)     == p[1]            \* SOHASH_UNSET_DELETE_BIT
NullP         == Ptr(NULL)
PtrVals       == (AllAddrs \cup {NULL}) \X BOOLEAN

VARIABLES
  nextp,      \* nextp[a]: hashentry_next of node a
  key,        \* key[a]: reverse_so_key of node a (0 once BZEROed)
  allocated,  \* addresses currently allocated to nodes
  hpHead,     \* hashd->hp_head
  hpNext,     \* hp_next of each hazard record
  hpState,    \* hp_state of each hazard record
  hps,        \* hprec.hazard_ptrs[0..2] of each record
  rlist,      \* hprec.rlist: head of the record's retired chain
  rcount,     \* hprec.rcount
  hpTotal,    \* hashd->hazard_ptrs_total
  recAlloc,   \* hazard records allocated so far
  pc,         \* program counter of each thread
  lc,         \* locals of each thread (see Locals)
  opsLeft,    \* operations each thread may still start
  count       \* hashd->sohash_regularkey_count

memVars == <<nextp, key, allocated>>
regVars == <<hpHead, hpNext, hpState, hps, rlist, rcount, hpTotal, recAlloc>>
vars    == <<memVars, regVars, pc, lc, opsLeft, count>>

(* A thread's locals: the operation, myhp, new_entry of the insert, the   *)
(* prev/cur/next snapshot of sohash_list_find, cur_reverse_key, the       *)
(* cursors of sohash_hp_get and sohash_hprec_scan, plist and hptr_total.  *)
Locals ==
  [kind : {"insert", "delete", "find"}, key : Keys,
   hp : Recs \cup {NULL}, node : AllAddrs \cup {NULL},
   prev : AllAddrs \cup {Slot}, cur : AllAddrs \cup {NULL}, nxt : PtrVals,
   ckey : Nat, walk : Recs \cup {NULL}, scanAt : Recs \cup {NULL},
   plist : Seq(Nat), ptotal : Nat,
   res : {"none", "OK", "EEXIST", "ENOENT", "ENOMEM", "FOUND", "NOTFOUND"}]

-----------------------------------------------------------------------------
(* Reading the list. *)

\* *prev: the content of the location prev designates
Deref(p) == IF p = Slot THEN Ptr(HeadAddr) ELSE nextp[p]

\* Nodes met following next pointers (ignoring delete bits) from a,
\* at most n of them.
RECURSIVE ChainFrom(_, _)
ChainFrom(a, n) ==
  IF a = NULL \/ n = 0 THEN <<>>
  ELSE <<a>> \o ChainFrom(Unmark(nextp[a]), n - 1)

Bound     == Cardinality(AllAddrs) + 1
ListNodes == ChainFrom(HeadAddr, Bound)
Reachable == {ListNodes[i] : i \in DOMAIN ListNodes}

\* The retired chain of record r, as sohash_flush_hp_list walks it.
RetiredChain(r) == ChainFrom(rlist[r], Bound)

-----------------------------------------------------------------------------
Init ==
  /\ nextp     = [a \in AllAddrs |-> NullP]
  /\ key       = [a \in AllAddrs |-> IF a = HeadAddr THEN SentinelKey0 ELSE 0]
  /\ allocated = {HeadAddr}
  /\ hpHead    = Rec0
  /\ hpNext    = [r \in Recs |-> NULL]
  /\ hpState   = [r \in Recs |-> Free]
  /\ hps       = [r \in Recs |-> [i \in HPSlots |-> NullP]]
  /\ rlist     = [r \in Recs |-> NULL]
  /\ rcount    = [r \in Recs |-> 0]
  /\ hpTotal   = 3
  /\ recAlloc  = {Rec0}
  /\ pc        = [t \in Threads |-> "idle"]
  /\ lc        = [t \in Threads |->
                   [kind |-> "find", key |-> CHOOSE k \in Keys : TRUE,
                    hp |-> NULL, node |-> NULL, prev |-> Slot, cur |-> NULL,
                    nxt |-> NullP, ckey |-> 0, walk |-> NULL,
                    scanAt |-> NULL, plist |-> <<>>, ptotal |-> 0,
                    res |-> "none"]]
  /\ opsLeft   = [t \in Threads |-> Len(Workload[t])]
  /\ count     = 0

Goto(t, l) == pc' = [pc EXCEPT ![t] = l]

-----------------------------------------------------------------------------
(* sohash_hp_get / sohash_hp_release (lines 1051-1140).                    *)

\* Where the caller goes once sohash_hp_get has given it a record.
AfterHpGet(t) == IF lc[t].kind = "insert" THEN "alloc_node" ELSE "find_try"

\* An operation begins: sohash_insert_entry / _find_entry / _delete_entry
\* call sohash_hp_get, which starts walking the registry at hp_head.
Start(t, kind, k) ==
  /\ pc[t] = "idle" /\ opsLeft[t] > 0
  /\ lc' = [lc EXCEPT ![t].kind = kind, ![t].key = k, ![t].res = "none",
                      ![t].walk = hpHead]
  /\ opsLeft' = [opsLeft EXCEPT ![t] = @ - 1]
  /\ Goto(t, "hp_get")
  /\ UNCHANGED <<memVars, regVars, count>>

\* One record of the walk: an INUSE record is skipped, a FREE one is
\* claimed by CAS(hp_state, FREE, INUSE); a failed CAS also moves on.
HpGetVisit(t) ==
  /\ pc[t] = "hp_get" /\ lc[t].walk # NULL
  /\ LET r == lc[t].walk IN
       IF hpState[r] = Free
       THEN /\ hpState' = [hpState EXCEPT ![r] = InUse]
            /\ lc' = [lc EXCEPT ![t].hp = r]
            /\ Goto(t, AfterHpGet(t))
       ELSE /\ lc' = [lc EXCEPT ![t].walk = hpNext[r]]
            /\ UNCHANGED <<hpState, pc>>
  /\ UNCHANGED <<memVars, hpHead, hpNext, hps, rlist, rcount, hpTotal,
                 recAlloc, opsLeft, count>>

\* No free record met: allocate one, BZERO it, mark it INUSE and push it
\* on hp_head with a CAS loop.  hazard_ptrs_total is raised afterwards.
HpGetAlloc(t) ==
  /\ pc[t] = "hp_get" /\ lc[t].walk = NULL
  /\ \E r \in Recs \ recAlloc :
       /\ recAlloc' = recAlloc \cup {r}
       /\ hpState'  = [hpState EXCEPT ![r] = InUse]
       /\ hps'      = [hps EXCEPT ![r] = [i \in HPSlots |-> NullP]]
       /\ rlist'    = [rlist EXCEPT ![r] = NULL]
       /\ rcount'   = [rcount EXCEPT ![r] = 0]
       /\ hpNext'   = [hpNext EXCEPT ![r] = hpHead]
       /\ hpHead'   = r
       /\ lc'       = [lc EXCEPT ![t].hp = r]
  /\ Goto(t, "hp_count")
  /\ UNCHANGED <<memVars, hpTotal, opsLeft, count>>

\* KMEM_ALLOC of the record fails (it may under memory pressure, and must
\* once Recs is used up): the caller returns ENOMEM at once (an insert
\* frees the caller's data; nothing of the table changes).
HpGetNoMem(t) ==
  /\ pc[t] = "hp_get" /\ lc[t].walk = NULL
  /\ AllocMayFail \/ recAlloc = Recs
  /\ lc' = [lc EXCEPT ![t].res = "ENOMEM"]
  /\ Goto(t, "idle")
  /\ UNCHANGED <<memVars, regVars, opsLeft, count>>
\* Mutant: hazard_ptrs_total raised by one per record instead of three.
HpGetCountByOne(t) ==
  /\ pc[t] = "hp_count"
  /\ hpTotal' = hpTotal + 1
  /\ Goto(t, AfterHpGet(t))
  /\ UNCHANGED <<memVars, hpHead, hpNext, hpState, hps, rlist, rcount,
                 recAlloc, lc, opsLeft, count>>


\* The CAS loop adding 3 to hazard_ptrs_total.
HpGetCount(t) ==
  /\ pc[t] = "hp_count"
  /\ hpTotal' = hpTotal + 3
  /\ Goto(t, AfterHpGet(t))
  /\ UNCHANGED <<memVars, hpHead, hpNext, hpState, hps, rlist, rcount,
                 recAlloc, lc, opsLeft, count>>

\* sohash_hp_release: clear the three slots, then mark the record FREE.
Release(t) ==
  /\ pc[t] = "release"
  /\ hps'     = [hps EXCEPT ![lc[t].hp] = [i \in HPSlots |-> NullP]]
  /\ hpState' = [hpState EXCEPT ![lc[t].hp] = Free]
  /\ lc'      = [lc EXCEPT ![t].hp = NULL]
  /\ Goto(t, "idle")
  /\ UNCHANGED <<memVars, hpHead, hpNext, rlist, rcount, hpTotal, recAlloc,
                 opsLeft, count>>

-----------------------------------------------------------------------------
(* sohash_list_find (lines 1247-1342).  The thread's own record holds the *)
(* hazard pointers hp0 (next), hp1 (cur) and hp2 (the node left behind).  *)

SetHp(t, i, v) == hps' = [hps EXCEPT ![lc[t].hp][i] = v]

\* Where sohash_list_find returns to, per calling operation: list_insert
\* stops on EEXIST or tries its CAS; list_delete tries to mark the node
\* or reports ENOENT; sohash_find_entry releases its record.
FoundLabel(t, found) ==
  CASE lc[t].kind = "insert" -> IF found THEN "list_exit" ELSE "ins_cas"
    [] lc[t].kind = "delete" -> IF found THEN "del_mark" ELSE "list_exit"
    [] lc[t].kind = "find"   -> "release"
FoundRes(t, found) ==
  CASE lc[t].kind = "insert" -> IF found THEN "EEXIST" ELSE "none"
    [] lc[t].kind = "delete" -> IF found THEN "none" ELSE "ENOENT"
    [] lc[t].kind = "find"   -> IF found THEN "FOUND" ELSE "NOTFOUND"

\* try_again: prev = head; cur = *prev.
FindTry(t) ==
  /\ pc[t] = "find_try"
  /\ lc' = [lc EXCEPT ![t].prev = Slot, ![t].cur = Unmark(Deref(Slot))]
  /\ Goto(t, "find_hp1")
  /\ UNCHANGED <<memVars, regVars, opsLeft, count>>

\* *hp1 = cur
FindHp1(t) ==
  /\ pc[t] = "find_hp1"
  /\ SetHp(t, 1, Ptr(lc[t].cur))
  /\ Goto(t, "find_val1")
  /\ UNCHANGED <<memVars, hpHead, hpNext, hpState, rlist, rcount, hpTotal,
                 recAlloc, lc, opsLeft, count>>

\* if (*prev != cur) goto try_again
FindVal1(t) ==
  /\ pc[t] = "find_val1"
  /\ Goto(t, IF Deref(lc[t].prev) = Ptr(lc[t].cur) THEN "find_loop"
                                                    ELSE "find_try")
  /\ UNCHANGED <<memVars, regVars, lc, opsLeft, count>>

\* Loop head: cur == NULL ends the search; else next = cur->hashentry_next.
FindLoop(t) ==
  /\ pc[t] = "find_loop"
  /\ IF lc[t].cur = NULL
     THEN /\ lc' = [lc EXCEPT ![t].res = FoundRes(t, FALSE)]
          /\ Goto(t, FoundLabel(t, FALSE))
     ELSE /\ lc' = [lc EXCEPT ![t].nxt = nextp[lc[t].cur]]
          /\ Goto(t, "find_hp0")
  /\ UNCHANGED <<memVars, regVars, opsLeft, count>>

\* *hp0 = next
FindHp0(t) ==
  /\ pc[t] = "find_hp0"
  /\ SetHp(t, 0, lc[t].nxt)
  /\ Goto(t, "find_val2")
  /\ UNCHANGED <<memVars, hpHead, hpNext, hpState, rlist, rcount, hpTotal,
                 recAlloc, lc, opsLeft, count>>

\* if (cur->hashentry_next != next) goto try_again;
\* cur_reverse_key = cur->reverse_so_key
FindVal2(t) ==
  /\ pc[t] = "find_val2"
  /\ IF nextp[lc[t].cur] # lc[t].nxt
     THEN /\ Goto(t, "find_try") /\ UNCHANGED lc
     ELSE /\ lc' = [lc EXCEPT ![t].ckey = key[lc[t].cur]]
          /\ Goto(t, "find_val3")
  /\ UNCHANGED <<memVars, regVars, opsLeft, count>>
\* Mutant: the search never stops at a greater key, so an insert links
\* its node at the end of the list.
FindVal3NoEarlyStop(t) ==
  /\ pc[t] = "find_val3"
  /\ LET l == lc[t] IN
     CASE Deref(l.prev) # Ptr(l.cur) \/ IsMarked(l.nxt) ->
            Goto(t, "find_try") /\ UNCHANGED lc
       [] l.ckey = l.key ->
            /\ lc' = [lc EXCEPT ![t].res = FoundRes(t, TRUE)]
            /\ Goto(t, FoundLabel(t, TRUE))
       [] OTHER ->
            /\ lc' = [lc EXCEPT ![t].prev = l.cur]
            /\ Goto(t, "find_adv")
  /\ UNCHANGED <<memVars, regVars, opsLeft, count>>


\* Mutant: a node whose next is marked is taken as deleted (not found)
\* instead of restarting the search.
FindVal3MarkedAbsent(t) ==
  /\ pc[t] = "find_val3"
  /\ LET l == lc[t] IN
     CASE Deref(l.prev) # Ptr(l.cur) -> Goto(t, "find_try") /\ UNCHANGED lc
       [] IsMarked(l.nxt) \/ l.ckey > l.key ->
            /\ lc' = [lc EXCEPT ![t].res = FoundRes(t, FALSE)]
            /\ Goto(t, FoundLabel(t, FALSE))
       [] l.ckey = l.key ->
            /\ lc' = [lc EXCEPT ![t].res = FoundRes(t, TRUE)]
            /\ Goto(t, FoundLabel(t, TRUE))
       [] OTHER ->
            /\ lc' = [lc EXCEPT ![t].prev = l.cur]
            /\ Goto(t, "find_adv")
  /\ UNCHANGED <<memVars, regVars, opsLeft, count>>

\* if (*prev != cur) or next is marked: try_again.  Otherwise compare the
\* key: equal is found (unique keys), greater is not found, smaller
\* advances prev to &cur->hashentry_next.
FindVal3(t) ==
  /\ pc[t] = "find_val3"
  /\ LET l == lc[t] IN
     CASE Deref(l.prev) # Ptr(l.cur) \/ IsMarked(l.nxt) ->
            Goto(t, "find_try") /\ UNCHANGED lc
       [] l.ckey = l.key ->
            /\ lc' = [lc EXCEPT ![t].res = FoundRes(t, TRUE)]
            /\ Goto(t, FoundLabel(t, TRUE))
       [] l.ckey > l.key ->
            /\ lc' = [lc EXCEPT ![t].res = FoundRes(t, FALSE)]
            /\ Goto(t, FoundLabel(t, FALSE))
       [] OTHER ->
            /\ lc' = [lc EXCEPT ![t].prev = l.cur]
            /\ Goto(t, "find_adv")
  /\ UNCHANGED <<memVars, regVars, opsLeft, count>>

\* *hp2 = cur; cur = next; *hp1 = next.
FindAdv(t) ==
  /\ pc[t] = "find_adv"
  /\ hps' = [hps EXCEPT ![lc[t].hp][2] = Ptr(lc[t].cur),
                        ![lc[t].hp][1] = lc[t].nxt]
  /\ lc' = [lc EXCEPT ![t].cur = Unmark(lc[t].nxt)]
  /\ Goto(t, "find_loop")
  /\ UNCHANGED <<memVars, hpHead, hpNext, hpState, rlist, rcount, hpTotal,
                 recAlloc, opsLeft, count>>

-----------------------------------------------------------------------------
(* sohash_insert_entry (lines 618-738) and sohash_list_insert (1188-1244). *)

\* new_entry = sohash_alloc_node(), initialised with the regular key; on
\* allocation failure (possible at any time, certain once Addrs is used
\* up) the data is freed and the record released (ENOMEM).
AllocNode(t) ==
  /\ pc[t] = "alloc_node"
  /\ \/ \E a \in AllocPick(AllAddrs \ allocated) :
          /\ allocated' = allocated \cup {a}
          /\ key'   = [key EXCEPT ![a] = lc[t].key]
          /\ nextp' = [nextp EXCEPT ![a] = NullP]
          /\ lc'    = [lc EXCEPT ![t].node = a]
          /\ Goto(t, "find_try")
     \/ /\ AllocMayFail \/ allocated = AllAddrs
        /\ lc' = [lc EXCEPT ![t].res = "ENOMEM"]
        /\ Goto(t, "release")
        /\ UNCHANGED memVars
  /\ UNCHANGED <<regVars, opsLeft, count>>

\* node->hashentry_next = cur; CAS(*prev, cur, node).  Failure retries
\* the whole sohash_list_find.
InsCas(t) ==
  /\ pc[t] = "ins_cas"
  /\ LET l == lc[t] IN
     IF Deref(l.prev) = Ptr(l.cur)
     THEN /\ nextp' = [nextp EXCEPT ![l.node] = Ptr(l.cur),
                                    ![l.prev] = Ptr(l.node)]
          /\ lc' = [lc EXCEPT ![t].res = "OK"]
          /\ Goto(t, "list_exit")
     ELSE /\ nextp' = [nextp EXCEPT ![l.node] = Ptr(l.cur)]
          /\ Goto(t, "find_try")
          /\ UNCHANGED <<lc>>
  /\ UNCHANGED <<key, allocated, regVars, opsLeft, count>>

\* Exit of sohash_list_insert / sohash_list_delete: hp0..hp2 = NULL; the
\* caller then counts a success or frees a node that was not inserted.
ListExit(t) ==
  /\ pc[t] = "list_exit"
  /\ hps' = [hps EXCEPT ![lc[t].hp] = [i \in HPSlots |-> NullP]]
  /\ Goto(t, CASE lc[t].kind = "insert" /\ lc[t].res = "OK" -> "ins_count"
               [] lc[t].kind = "insert"                     -> "ins_failed"
               [] lc[t].res = "OK"                          -> "del_count"
               [] OTHER                                     -> "release")
  /\ UNCHANGED <<memVars, hpHead, hpNext, hpState, rlist, rcount, hpTotal,
                 recAlloc, lc, opsLeft, count>>

\* sohash_insert_entry after a successful sohash_list_insert:
\* MDKI_ATOMIC_INCR_UINT32(&sohash_regularkey_count).  (The resize CAS on
\* sohash_current_size that follows is table state, see SOHashTable.)
InsCount(t) ==
  /\ pc[t] = "ins_count"
  /\ count' = count + 1
  /\ Goto(t, "release")
  /\ UNCHANGED <<memVars, regVars, lc, opsLeft>>
\* sohash_delete_entry_subr after a successful sohash_list_delete: a zero
\* sohash_regularkey_count is MDKI_PANIC, else it is decremented.
DelCount(t) ==
  /\ pc[t] = "del_count"
  /\ IF count = 0 THEN Goto(t, "panic_count") /\ UNCHANGED count
                   ELSE count' = count - 1 /\ Goto(t, "release")
  /\ UNCHANGED <<memVars, regVars, lc, opsLeft>>

\* sohash_list_insert failed: sohash_free_node(new_entry) frees the node
\* and the caller's data; then ASSERT(error != EEXIST); goto cleanup.
InsFailed(t) ==
  /\ pc[t] = "ins_failed"
  /\ allocated' = allocated \ {lc[t].node}
  /\ key'   = [key EXCEPT ![lc[t].node] = 0]
  /\ nextp' = [nextp EXCEPT ![lc[t].node] = NullP]
  /\ Goto(t, "release")
  /\ UNCHANGED <<regVars, lc, opsLeft, count>>

-----------------------------------------------------------------------------
(* sohash_list_delete (lines 1344-1407).                                   *)

DelMark(t) ==
  /\ pc[t] = "del_mark"
  /\ LET l == lc[t] IN
     IF nextp[l.cur] = l.nxt
     THEN nextp' = [nextp EXCEPT ![l.cur] = Marked(l.nxt)]
          /\ Goto(t, "del_unlink")
     ELSE Goto(t, "find_try") /\ UNCHANGED nextp
  /\ UNCHANGED <<key, allocated, regVars, lc, opsLeft, count>>

\* CAS(prev, cur, next): success retires the node, failure rolls back.
DelUnlink(t) ==
  /\ pc[t] = "del_unlink"
  /\ LET l == lc[t] IN
     IF Deref(l.prev) = Ptr(l.cur)
     THEN /\ nextp' = [nextp EXCEPT ![l.prev] = l.nxt]
          /\ Goto(t, "retire")
     ELSE Goto(t, "del_rollback") /\ UNCHANGED nextp
  /\ UNCHANGED <<key, allocated, regVars, lc, opsLeft, count>>
\* CAS(&cur->hashentry_next, next | 1, next): success retries, failure
\* is MDKI_PANIC("Unsetting delete bit failed").
DelRollback(t) ==
  /\ pc[t] = "del_rollback"
  /\ LET l == lc[t] IN
     IF nextp[l.cur] = Marked(l.nxt)
     THEN nextp' = [nextp EXCEPT ![l.cur] = l.nxt] /\ Goto(t, "find_try")
     ELSE Goto(t, "panic_unset") /\ UNCHANGED nextp
  /\ UNCHANGED <<key, allocated, regVars, lc, opsLeft, count>>

-----------------------------------------------------------------------------
(* Safe memory reclamation: sohash_retire_node (1447-1507) and            *)
(* sohash_hprec_scan (1509-1614).                                          *)

\* The node goes on the head of the record's retired chain through its
\* own hashentry_next; hp_head is read; if rcount >= hazard_ptrs_total a
\* scan starts, reading hazard_ptrs_total again to size plist; failing to
\* allocate plist is MDKI_PANIC.
Retire(t) ==
  /\ pc[t] = "retire"
  /\ LET l == lc[t]
         r == l.hp
     IN /\ nextp'  = [nextp EXCEPT ![l.cur] = Ptr(rlist[r])]
        /\ rlist'  = [rlist EXCEPT ![r] = l.cur]
        /\ rcount' = [rcount EXCEPT ![r] = @ + 1]
        /\ IF rcount[r] + 1 >= hpTotal
           THEN /\ lc' = [lc EXCEPT ![t].scanAt = hpHead,
                                    ![t].ptotal = hpTotal,
                                    ![t].plist = <<>>]
                /\ \/ Goto(t, "scan_collect")
                   \/ AllocMayFail /\ Goto(t, "panic_plist")
           ELSE /\ lc' = [lc EXCEPT ![t].res = "OK"]
                /\ Goto(t, "list_exit")
  /\ UNCHANGED <<key, allocated, hpHead, hpNext, hpState, hps, hpTotal,
                 recAlloc, opsLeft, count>>
\* Mutant: the scan loop stops after the first slot (i < 1).
HazardsOfFirstSlot(r) == SelectSeq(<<hps[r][0]>>, LAMBDA p : p # NullP)


\* The non-NULL hazard pointers of record r, in slot order.
HazardsOf(r) == SelectSeq(<<hps[r][0], hps[r][1], hps[r][2]>>,
                          LAMBDA p : p # NullP)

\* Stage 1, one record per step: every non-NULL hazard pointer, delete
\* bit stripped, is dereferenced and its reverse_so_key appended to plist
\* (at plist_idx, with no check against hptr_total).  A slot holding
\* NULL|1 becomes NULL once unmarked: the read faults and the thread
\* stops ("oops").  A freed node is read as it is (key 0 after BZERO, or
\* the key of whatever node now occupies the address).
ScanCollect(t) ==
  /\ pc[t] = "scan_collect" /\ lc[t].scanAt # NULL
  /\ LET r   == lc[t].scanAt
         set == HazardsOf(r)
     IN IF \E i \in DOMAIN set : Unmark(set[i]) = NULL
        THEN Goto(t, "oops") /\ UNCHANGED lc
        ELSE /\ lc' = [lc EXCEPT
                   ![t].plist  = @ \o [i \in DOMAIN set |-> key[Unmark(set[i])]],
                   ![t].scanAt = hpNext[r]]
             /\ UNCHANGED pc
  /\ UNCHANGED <<memVars, regVars, opsLeft, count>>

\* The keys sohash_sort_arr and sohash_search_arr see: the first
\* hptr_total entries of plist, the BZEROed ones counting as key 0.
PlistKeys(l) ==
  {l.plist[i] : i \in 1..(IF Len(l.plist) < l.ptotal THEN Len(l.plist)
                                                     ELSE l.ptotal)} \cup
  (IF Len(l.plist) < l.ptotal THEN {0} ELSE {})

\* Stage 2: the retired chain is detached (rcount = 0, rlist = NULL) and
\* walked; a node whose key is in plist is pushed back on rlist, any
\* other is freed by sohash_free_node (data freed, node zeroed).
ScanFree(t) ==
  /\ pc[t] = "scan_collect" /\ lc[t].scanAt = NULL
  /\ LET l     == lc[t]
         r     == l.hp
         chain == RetiredChain(r)
         kept  == SelectSeq(chain, LAMBDA a : key[a] \in PlistKeys(l))
         keptS == {kept[i] : i \in DOMAIN kept}
         freed == {chain[i] : i \in DOMAIN chain} \ keptS
         pos(a) == CHOOSE i \in DOMAIN kept : kept[i] = a
     IN /\ nextp' = [a \in AllAddrs |->
                       CASE a \in freed -> NullP
                         [] a \in keptS -> IF pos(a) = 1 THEN NullP
                                           ELSE Ptr(kept[pos(a) - 1])
                         [] OTHER -> nextp[a]]
        /\ key' = [a \in AllAddrs |-> IF a \in freed THEN 0 ELSE key[a]]
        /\ allocated' = allocated \ freed
        /\ rlist'  = [rlist EXCEPT ![r] = IF kept = <<>> THEN NULL
                                          ELSE kept[Len(kept)]]
        /\ rcount' = [rcount EXCEPT ![r] = Len(kept)]
        /\ lc' = [lc EXCEPT ![t].res = "OK"]
        /\ Goto(t, "list_exit")
  /\ UNCHANGED <<hpHead, hpNext, hpState, hps, hpTotal, recAlloc, opsLeft, count>>

-----------------------------------------------------------------------------
Ops == {"insert", "delete", "find"}

ASSUME \A t \in Threads : Workload[t] \in Seq(SUBSET (Ops \X Keys))
ASSUME AllocMayFail \in BOOLEAN
ASSUME \A F \in SUBSET Addrs : F # {} => AllocPick(F) # {} /\ AllocPick(F) \subseteq F

\* The calls thread t may make next.
NextCalls(t) ==
  IF opsLeft[t] = 0 THEN {}
  ELSE Workload[t][Len(Workload[t]) - opsLeft[t] + 1]

\* Every thread has used up its operations: the system may stop here.
Finished ==
  /\ \A t \in Threads : pc[t] = "idle" /\ opsLeft[t] = 0
  /\ UNCHANGED vars

Step(t) ==
  \/ \E w \in NextCalls(t) : Start(t, w[1], w[2])
  \/ HpGetVisit(t) \/ HpGetAlloc(t) \/ HpGetNoMem(t) \/ HpGetCount(t)
  \/ FindTry(t) \/ FindHp1(t) \/ FindVal1(t) \/ FindLoop(t)
  \/ FindHp0(t) \/ FindVal2(t) \/ FindVal3(t) \/ FindAdv(t)
  \/ AllocNode(t) \/ InsCas(t) \/ ListExit(t) \/ InsCount(t) \/ InsFailed(t)
  \/ DelMark(t) \/ DelUnlink(t) \/ DelRollback(t) \/ DelCount(t)
  \/ Retire(t) \/ ScanCollect(t) \/ ScanFree(t)
  \/ Release(t)

\* MDKI_PANIC and a fault in the kernel stop the machine.
PanicLabels == {"panic_unset", "panic_count", "panic_plist", "oops"}
Halted ==
  /\ \E t \in Threads : pc[t] \in PanicLabels
  /\ UNCHANGED vars

Next == (\E t \in Threads : Step(t)) \/ Finished \/ Halted

Spec == Init /\ [][Next]_vars

\* A kernel thread that is running keeps being scheduled.
Fairness == \A t \in Threads : WF_vars(Step(t))

FairSpec == Spec /\ Fairness

-----------------------------------------------------------------------------
(* Properties *)

TypeOK ==
  /\ nextp \in [AllAddrs -> PtrVals]
  /\ key \in [AllAddrs -> Nat]
  /\ allocated \subseteq AllAddrs /\ HeadAddr \in allocated
  /\ hpHead \in Recs
  /\ hpState \in [Recs -> {Free, InUse}]
  /\ hps \in [Recs -> [HPSlots -> PtrVals]]
  /\ rlist \in [Recs -> AllAddrs \cup {NULL}]
  /\ rcount \in [Recs -> Nat]
  /\ hpTotal = 3 * Cardinality(recAlloc) \/ hpTotal = 3 * Cardinality(recAlloc) - 3
  /\ lc \in [Threads -> Locals]
  /\ \A t \in Threads : opsLeft[t] \in 0..Len(Workload[t])
  /\ count \in Nat

\* The bucket list stays a NULL-terminated chain whose reverse keys
\* strictly increase from the sentinel: sohash_list_find's early
\* "cur_reverse_key > sohash_reverse_key" return and its unique-key
\* EEXIST depend on it, under concurrent inserts and deletes.
ListSorted ==
  /\ Len(ListNodes) < Bound
  /\ \A i \in 1..(Len(ListNodes) - 1) :
        key[ListNodes[i]] < key[ListNodes[i + 1]]

\* The hazard pointers protect every node a thread dereferences: when
\* sohash_list_find reads cur->hashentry_next or cur->reverse_so_key,
\* and when sohash_list_delete CASes cur->hashentry_next, cur has not
\* been freed by another thread's sohash_hprec_scan.
HazardDeref ==
  \A t \in Threads :
     \/ pc[t] \in {"find_val2", "del_mark", "del_rollback"}
        /\ lc[t].cur \notin allocated
     \/ pc[t] = "find_loop" /\ lc[t].cur \notin allocated \cup {NULL}
     => FALSE

ScanNoNullDeref == \A t \in Threads : pc[t] # "oops"

\* sohash_delete_entry_subr never finds sohash_regularkey_count zero after
\* its sohash_list_delete succeeded (the MDKI_PANIC of line 887).
DeleteCountNonZero == \A t \in Threads : pc[t] # "panic_count"

\* sohash_hprec_scan writes at most hptr_total keys into plist, the
\* array it allocated from the hazard_ptrs_total it read: a record
\* linked by sohash_hp_get before hazard_ptrs_total is raised must not
\* make it write past the end.
ScanBufferInBounds ==
  \A t \in Threads : pc[t] = "scan_collect" => Len(lc[t].plist) <= lc[t].ptotal

\* sohash_insert_entry: "ASSERT(error != EEXIST)" after a failed
\* sohash_list_insert (line 697) holds whenever an insert fails.
InsertFailNotEexist ==
  \A t \in Threads : pc[t] = "ins_failed" => lc[t].res # "EEXIST"
-----------------------------------------------------------------------------
\* The plist array of sohash_hprec_scan: KMEM_ALLOC'd for hptr_total
\* keys, BZEROed, and filled from index 0 with the keys collected.
PlistArray(keys, total) ==
  [i \in 0..(total - 1) |-> IF i < Len(keys) THEN keys[i + 1] ELSE 0]

(***************************************************************************)
(* Stage 2 of sohash_hprec_scan keeps a retired node exactly when its key *)
(* is among the hptr_total first keys stage 1 collected, or is 0 while a *)
(* slot was left zeroed: sohash_sort_arr of the plist array followed by *)
(* sohash_search_arr(plist, key, 0, hptr_total - 1) finds a key exactly  *)
(* when PlistKeys, the model's ScanFree test, holds it, for every plist  *)
(* a scan builds and whatever the sort's out-of-bounds read of arr[-1]   *)
(* returns.  Checked when stage 1 has collected every record's keys.     *)
(***************************************************************************)
PlistSearchMatches ==
  \A t \in Threads :
    pc[t] = "scan_collect" /\ lc[t].scanAt = NULL =>
      LET total  == lc[t].ptotal
          plist  == PlistArray(lc[t].plist, total)
      IN  \A below \in {0} \cup Keys, k \in {0} \cup Keys :
            (sohash_search_arr(sohash_sort_arr(plist, total, below), k, 0, total - 1)
               = SOHASH_FOUND) <=> k \in PlistKeys(lc[t])
=============================================================================

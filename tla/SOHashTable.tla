---------------------------- MODULE SOHashTable ----------------------------
(***************************************************************************)
(* The table level of src/mvfs_sohash_table.c: the two-level segment      *)
(* array of bucket slots, the recursive lazy bucket initialisation, the   *)
(* resize of sohash_current_size, the regular and sentinel key counts,    *)
(* the ACTIVE/FLUSH life cycle and sohash_cleanup_hashtable, and the      *)
(* hazard records an operation holds from sohash_hp_get to                *)
(* sohash_hp_release.                                                      *)
(*                                                                         *)
(* The list itself is the one of SOHashList, but here each call of        *)
(* sohash_list_insert / _find / _delete is one atomic step that walks the *)
(* real next pointers from the real head location (a bucket slot, a node, *)
(* or the caller's local variable), so what a call does to the list, and  *)
(* where it writes, follows the code; the interleavings inside those      *)
(* calls are SOHashList's subject.  Keys are W-bit integers and go        *)
(* through the code's own bit reversal.                                    *)
(***************************************************************************)
EXTENDS Integers, Sequences, FiniteSets, Bitwise

CONSTANTS
  Threads,      \* kernel threads calling the table
  Addrs,        \* addresses sohash_alloc_node can return
  Recs,         \* addresses KMEM_ALLOC can return for a hazard record
  HeadAddr,     \* the bucket-0 sentinel allocated by sohash_init_hashtable
  Rec0,         \* the hazard record allocated by sohash_init_hashtable
  NULL,
  W,            \* bits of SOHASH_KEY_T (32 in the build)
  NumSegs,      \* hashd->sohash_num_segments
  SegSz,        \* hashd->sohash_segment_sz
  Workload,     \* bound: Workload[t][i] is the set of <<call, key>> pairs
                \* thread t may make as its i-th call
  AllocPick(_), \* the addresses sohash_alloc_node may return from a set
                \* of free ones
  AllocMayFail  \* KMEM_ALLOC may fail while memory is left

ASSUME HeadAddr \notin Addrs /\ NULL \notin Addrs \cup Recs /\ Rec0 \in Recs
ASSUME W \in Nat \ {0} /\ NumSegs \in Nat \ {0} /\ SegSz \in Nat \ {0}

AllAddrs == Addrs \cup {HeadAddr}
Buckets  == 0..(NumSegs * SegSz - 1)   \* the slots hashtable[s][b]
MaxLoad  == 1                          \* SOHASH_MAX_LOAD
Calls    == {"insert", "find", "delete", "cleanup"}

-----------------------------------------------------------------------------
(* Key arithmetic (lines 1777-1849), at width W.                           *)

\* sohash_reverse_bit: shift the input's bits out at the bottom and into
\* the output at the bottom, W times.
RECURSIVE ReverseLoop(_, _, _)
ReverseLoop(in, out, i) ==
  IF i = W THEN out
  ELSE ReverseLoop(in \div 2, (out * 2 + (in % 2)) % 2^W, i + 1)
ReverseBit(x) == ReverseLoop(x, 0, 0)

MsbMask        == 2^(W - 1)                    \* SOKEY_MASK_SET_MSB
RegularKey(k)  == ReverseBit(k | MsbMask)      \* sohash_regularkey
\* Mutant: the sentinel key built as a regular one, with the MSB set.
SentinelKeyMsb(h) == ReverseBit(h | MsbMask)
SentinelKey(h) == ReverseBit(h)                \* sohash_sentinelkey

\* unsetmsb: find the highest set bit from the top down and clear it.
RECURSIVE HighBit(_, _)
HighBit(x, mask) == IF (x & mask) # 0 THEN mask ELSE HighBit(x, mask \div 2)
UnsetMsb(x) == IF x = 0 THEN 0 ELSE x - HighBit(x, MsbMask)

-----------------------------------------------------------------------------
(* Pointers and locations.                                                 *)

Ptr(a)      == <<a, FALSE>>
Marked(p)   == <<p[1], TRUE>>      \* SOHASH_SET_DELETE_BIT
IsMarked(p) == p[2]
Unmark(p)   == p[1]
NullP       == Ptr(NULL)

\* A location a list call reads as *prev and may CAS: a bucket slot, the
\* hashentry_next of a node, or the caller's local sentinel_node.
SlotLoc(b)  == <<"slot", b>>
NodeLoc(a)  == <<"node", a>>
LocalLoc    == <<"local", NULL>>

VARIABLES
  hstate,     \* hashd->hash_state, or "FREED" once hashd is freed
  size,       \* hashd->sohash_current_size
  count,      \* hashd->sohash_regularkey_count
  scount,     \* hashd->sohash_sentinelkey_count
  segs,       \* segs[s]: hashtable[s] is allocated
  slot,       \* slot[b]: the bucket head hashtable[b \div SegSz][b % SegSz]
  nextp,      \* hashentry_next of each node
  key,        \* reverse_so_key of each node
  sokey,      \* so_key of each node
  kind,       \* entry_type of each node
  allocated,  \* nodes allocated and not freed
  recState,   \* hp_state of each hazard record
  recAlloc,   \* hazard records on the hp_head list
  rlist,      \* hprec.rlist of each record, newest first
  pc, lc, opsLeft

tableVars == <<hstate, size, count, scount, segs, slot>>
nodeVars  == <<nextp, key, sokey, kind, allocated>>
recVars   == <<recState, recAlloc, rlist>>
vars      == <<tableVars, nodeVars, recVars, pc, lc, opsLeft>>

\* *loc as thread t sees it
ValAt(t, l) ==
  CASE l[1] = "slot" -> Ptr(slot[l[2]])
    [] l[1] = "node" -> nextp[l[2]]
    [] OTHER         -> Ptr(lc[t].sent)

Bound == Cardinality(AllAddrs) + 1

\* sohash_list_find run without interference from prev: at each node the
\* next pointer is read; a marked one restarts the search from the head,
\* which without interference never ends ("spin"); an equal key is found,
\* a greater one ends the search.  A freed node dereferenced is "uaf".
RECURSIVE Walk(_, _, _, _)
Walk(prev, cur, target, fuel) ==
  LET stop(res) == [res |-> res, prev |-> prev, cur |-> cur,
                    nxt |-> IF cur \in allocated THEN nextp[cur] ELSE NullP]
  IN  IF cur = NULL THEN stop("notfound")
      ELSE IF cur \notin allocated THEN stop("uaf")
      ELSE IF fuel = 0 \/ IsMarked(nextp[cur]) THEN stop("spin")
      ELSE IF key[cur] = target THEN stop("found")
      ELSE IF key[cur] > target THEN stop("notfound")
      ELSE Walk(NodeLoc(cur), Unmark(nextp[cur]), target, fuel - 1)

Find(t, head, target) == Walk(head, Unmark(ValAt(t, head)), target, Bound)

\* The nodes reachable from bucket 0 and their keys.
RECURSIVE ChainFrom(_, _)
ChainFrom(a, n) ==
  IF a = NULL \/ n = 0 \/ a \notin allocated THEN <<>>
  ELSE <<a>> \o ChainFrom(Unmark(nextp[a]), n - 1)
ListNodes == ChainFrom(slot[0], Bound)
Reachable == {ListNodes[i] : i \in DOMAIN ListNodes}

RHead(r) == IF rlist[r] = <<>> THEN NULL ELSE Head(rlist[r])
Retired  == UNION {{rlist[r][i] : i \in DOMAIN rlist[r]} : r \in Recs}

-----------------------------------------------------------------------------
\* mvfs_sohash_table.h: the defaults and minimums of the init arguments.
SOHASH_SET_SEG_DEFAULT   == -1
SOHASH_DEFAULT_SEG_COUNT == 511
SOHASH_DEFAULT_SEG_SZ    == 511
SOHASH_MIN_SEG_COUNT     == 1
SOHASH_MIN_SEG_SZ        == 251

\* The sohash_init_args_t values the argument checks tell apart: the
\* callbacks present as required or not, and a segment count and size
\* that are the default, below the minimum, at it, or above it.
SegArgs  == {SOHASH_SET_SEG_DEFAULT, 0, SOHASH_MIN_SEG_COUNT, 1024}
SzArgs   == {SOHASH_SET_SEG_DEFAULT, 250, SOHASH_MIN_SEG_SZ, 1024}
InitArgs == [callbacks_ok : BOOLEAN, num_segments : SegArgs, segment_sz : SzArgs]

\* The argument checks of sohash_init_hashtable (lines 224-271): NULL, or
\* the num_segments and segment_sz the descriptor is built with.  Both
\* locals start at 0 and are assigned only in the default branches.
InitSizes(args) ==
  IF \/ ~args.callbacks_ok
     \/ args.num_segments # SOHASH_SET_SEG_DEFAULT /\ args.num_segments < SOHASH_MIN_SEG_COUNT
     \/ args.segment_sz # SOHASH_SET_SEG_DEFAULT /\ args.segment_sz < SOHASH_MIN_SEG_SZ
  THEN NULL
  ELSE [num_segments |-> IF args.num_segments = SOHASH_SET_SEG_DEFAULT
                         THEN SOHASH_DEFAULT_SEG_COUNT ELSE 0,
        segment_sz   |-> IF args.segment_sz = SOHASH_SET_SEG_DEFAULT
                         THEN SOHASH_DEFAULT_SEG_SZ ELSE 0]

-----------------------------------------------------------------------------
(* The descriptor after a successful sohash_init_hashtable (lines         *)
(* 281-380): segment 0 allocated, bucket 0 holding the key-0 sentinel,    *)
(* one FREE hazard record, size 2, counts 1 and 0, state ACTIVE.          *)
Init ==
  /\ hstate    = "ACTIVE"
  /\ size      = 2
  /\ count     = 0
  /\ scount    = 1
  /\ segs      = [s \in 0..(NumSegs - 1) |-> s = 0]
  /\ slot      = [b \in Buckets |-> IF b = 0 THEN HeadAddr ELSE NULL]
  /\ nextp     = [a \in AllAddrs |-> NullP]
  /\ key       = [a \in AllAddrs |-> 0]
  /\ sokey     = [a \in AllAddrs |-> 0]
  /\ kind      = [a \in AllAddrs |-> IF a = HeadAddr THEN "sentinel" ELSE "none"]
  /\ allocated = {HeadAddr}
  /\ recState  = [r \in Recs |-> "FREE"]
  /\ recAlloc  = {Rec0}
  /\ rlist     = [r \in Recs |-> <<>>]
  /\ pc        = [t \in Threads |-> "idle"]
  /\ lc        = [t \in Threads |->
                   [op |-> "find", k |-> 0, rec |-> NULL, h |-> 0,
                    node |-> NULL, stack |-> <<>>, sent |-> NULL, s |-> 0,
                    seg |-> 0, bi |-> 0, head |-> NULL, fin |-> FALSE]]
  /\ opsLeft   = [t \in Threads |-> Len(Workload[t])]


Goto(t, l) == pc' = [pc EXCEPT ![t] = l]
SetLc(t, f) == lc' = [lc EXCEPT ![t] = f]

\* A panic or a fault stops the machine.
FaultLabels == {"panic", "fault_oob", "fault_uaf"}
Stopped     == \E u \in Threads : pc[u] \in FaultLabels
At(t, l)    == pc[t] = l /\ ~Stopped

\* sohash_get_bucket (lines 1851-1891): hashindex / segment_sz beyond the
\* segment array reads past hashtable[] ("oob").
SegOf(h)    == h \div SegSz
BucketIs(h) ==
  IF SegOf(h) >= NumSegs THEN "oob"
  ELSE IF ~segs[SegOf(h)] \/ slot[h] = NULL THEN "uninit" ELSE "init"

\* The writes of a successful CAS of *prev to the pointer p.
SlotAfter(l, p)       == IF l[1] = "slot" THEN [slot EXCEPT ![l[2]] = Unmark(p)] ELSE slot
NextAfter(base, l, p) == IF l[1] = "node" THEN [base EXCEPT ![l[2]] = p] ELSE base

\* sohash_alloc_node: a BZEROed node given its key fields.
NewNode(a, rk, sk, kd) ==
  /\ nextp'     = [nextp EXCEPT ![a] = NullP]
  /\ key'       = [key EXCEPT ![a] = rk]
  /\ sokey'     = [sokey EXCEPT ![a] = sk]
  /\ kind'      = [kind EXCEPT ![a] = kd]
  /\ allocated' = allocated \cup {a}
FreeAddrs == Addrs \ allocated
NoMem(F)  == AllocMayFail \/ F = {}

-----------------------------------------------------------------------------
(* Entry points and hazard records.                                        *)

\* sohash_insert_entry / _find_entry / _delete_entry (lines 619, 741,
\* 799) and sohash_cleanup_hashtable (line 425) are called; no caller
\* calls the table once its cleanup has returned.
Start(t, op, k) ==
  /\ At(t, "idle") /\ opsLeft[t] > 0 /\ hstate # "FREED"
  /\ SetLc(t, [lc[t] EXCEPT !.op = op, !.k = k, !.rec = NULL, !.node = NULL,
                            !.stack = <<>>, !.sent = NULL, !.fin = FALSE])
  /\ opsLeft' = [opsLeft EXCEPT ![t] = @ - 1]
  /\ Goto(t, IF op = "cleanup" THEN "c_state" ELSE "state")
  /\ UNCHANGED <<tableVars, nodeVars, recVars>>

\* The hash_state test: anything but ACTIVE returns EBUSY (or NULL).
CheckState(t) ==
  /\ At(t, "state")
  /\ Goto(t, IF hstate = "ACTIVE" THEN "hp_get" ELSE "idle")
  /\ UNCHANGED <<tableVars, nodeVars, recVars, lc, opsLeft>>

HpGetting(t) == At(t, "hp_get") \/ At(t, "c_hp_get")
AfterHpGet(t) ==
  IF lc[t].op = "cleanup" THEN "c_loop" ELSE "size"

\* sohash_hp_get (lines 1052-1125): claim a FREE record of the hp_head
\* list, or allocate one when all are INUSE.
HpGetFree(t) ==
  /\ HpGetting(t)
  /\ \E r \in recAlloc :
       /\ recState[r] = "FREE"
       /\ recState' = [recState EXCEPT ![r] = "INUSE"]
       /\ SetLc(t, [lc[t] EXCEPT !.rec = r, !.seg = 0])
  /\ Goto(t, AfterHpGet(t))
  /\ UNCHANGED <<tableVars, nodeVars, recAlloc, rlist, opsLeft>>

HpGetNew(t) ==
  /\ HpGetting(t)
  /\ \A r \in recAlloc : recState[r] = "INUSE"
  /\ \E r \in Recs \ recAlloc :
       /\ recAlloc' = recAlloc \cup {r}
       /\ recState' = [recState EXCEPT ![r] = "INUSE"]
       /\ rlist'    = [rlist EXCEPT ![r] = <<>>]
       /\ SetLc(t, [lc[t] EXCEPT !.rec = r, !.seg = 0])
  /\ Goto(t, AfterHpGet(t))
  /\ UNCHANGED <<tableVars, nodeVars, opsLeft>>

\* The record allocation fails: the call returns ENOMEM (a cleanup
\* returns it leaving the table in FLUSH).
HpGetNoMem(t) ==
  /\ HpGetting(t)
  /\ \A r \in recAlloc : recState[r] = "INUSE"
  /\ NoMem(Recs \ recAlloc)
  /\ Goto(t, "idle")
  /\ UNCHANGED <<tableVars, nodeVars, recVars, lc, opsLeft>>

\* sohash_hp_release (lines 1127-1140).
Release(t) ==
  /\ At(t, "release")
  /\ recState' = [recState EXCEPT ![lc[t].rec] = "FREE"]
  /\ Goto(t, "idle")
  /\ UNCHANGED <<tableVars, nodeVars, recAlloc, rlist, lc, opsLeft>>

-----------------------------------------------------------------------------
(* Addressing: hashindex, the new node, the bucket.                        *)

\* hashindex = sohash_key % sohash_current_size
ReadSize(t) ==
  /\ At(t, "size")
  /\ SetLc(t, [lc[t] EXCEPT !.h = lc[t].k % size])
  /\ Goto(t, IF lc[t].op = "insert" THEN "alloc" ELSE "get_bucket")
  /\ UNCHANGED <<tableVars, nodeVars, recVars, opsLeft>>

\* The insert's node, keyed sohash_regularkey(sohash_key) (lines 655-668).
AllocNode(t) ==
  /\ At(t, "alloc")
  /\ \E a \in AllocPick(FreeAddrs) :
       /\ NewNode(a, RegularKey(lc[t].k), lc[t].k, "regular")
       /\ SetLc(t, [lc[t] EXCEPT !.node = a])
  /\ Goto(t, "get_bucket")
  /\ UNCHANGED <<tableVars, recVars, opsLeft>>

AllocNodeNoMem(t) ==
  /\ At(t, "alloc") /\ NoMem(FreeAddrs)
  /\ Goto(t, "release")
  /\ UNCHANGED <<tableVars, nodeVars, recVars, lc, opsLeft>>

\* sohash_get_bucket; an uninitialised bucket is initialised first.
GetBucket(t) ==
  /\ At(t, "get_bucket")
  /\ CASE BucketIs(lc[t].h) = "oob"  -> Goto(t, "fault_oob") /\ UNCHANGED lc
       [] BucketIs(lc[t].h) = "init" -> Goto(t, "list") /\ UNCHANGED lc
       [] OTHER -> /\ SetLc(t, [lc[t] EXCEPT !.stack =
                                  <<[h |-> lc[t].h, ok |-> FALSE, sent |-> NULL]>>])
                   /\ Goto(t, "ib_state")
  /\ UNCHANGED <<tableVars, nodeVars, recVars, opsLeft>>


-----------------------------------------------------------------------------
(* sohash_initialize_bucket (lines 895-1045) and sohash_set_bucket        *)
(* (lines 1893-2003).  lc.stack holds one frame per level of the          *)
(* recursion, the innermost first: the hashindex, the sentinel and        *)
(* insert_success.                                                         *)

Top(t)    == Head(lc[t].stack)
Parent(t) == UnsetMsb(Top(t).h)       \* SOHASH_GETPARENT_BUCKET
SetTop(t, f) == SetLc(t, [lc[t] EXCEPT !.stack = <<f>> \o Tail(@)])

\* SOHASH_RETVAL_FAILURE unwinds every level.  The insert frees its node
\* and releases its record (EFAULT); the find releases its record and
\* returns NULL; the delete returns EFAULT without sohash_hp_release.
InitFailed(t) ==
  /\ SetLc(t, [lc[t] EXCEPT !.stack = <<>>])
  /\ allocated' = IF lc[t].op = "insert" THEN allocated \ {lc[t].node}
                  ELSE allocated
  /\ Goto(t, IF lc[t].op = "delete" THEN "idle" ELSE "release")

\* SOHASH_RETVAL_SUCCESS: the caller level resumes after its parent
\* bucket is set up, or the operation goes on to the list.
InitDone(t) ==
  IF Len(lc[t].stack) = 1
  THEN SetLc(t, [lc[t] EXCEPT !.stack = <<>>]) /\ Goto(t, "list")
  ELSE SetLc(t, [lc[t] EXCEPT !.stack = Tail(@)]) /\ Goto(t, "ib_alloc")

\* A FLUSH in progress: no bucket is initialised.
IbState(t) ==
  /\ At(t, "ib_state")
  /\ IF hstate = "FLUSH"
     THEN InitFailed(t)
     ELSE Goto(t, "ib_get") /\ UNCHANGED <<lc, allocated>>
  /\ UNCHANGED <<tableVars, nextp, key, sokey, kind, recVars, opsLeft>>

\* Already initialised by a racing thread: success.  Bucket 0
\* uninitialised: MDKI_PANIC.
IbGet(t) ==
  /\ At(t, "ib_get")
  /\ CASE BucketIs(Top(t).h) = "oob"  -> Goto(t, "fault_oob") /\ UNCHANGED lc
       [] BucketIs(Top(t).h) = "init" -> InitDone(t)
       [] Top(t).h = 0                -> Goto(t, "panic") /\ UNCHANGED lc
       [] OTHER                       -> Goto(t, "ib_parent") /\ UNCHANGED lc
  /\ UNCHANGED <<tableVars, nodeVars, recVars, opsLeft>>

IbParent(t) ==
  /\ At(t, "ib_parent")
  /\ CASE BucketIs(Parent(t)) = "oob"  -> Goto(t, "fault_oob") /\ UNCHANGED lc
       [] BucketIs(Parent(t)) = "init" -> Goto(t, "ib_alloc") /\ UNCHANGED lc
       [] OTHER -> /\ SetLc(t, [lc[t] EXCEPT !.stack =
                          <<[h |-> Parent(t), ok |-> FALSE, sent |-> NULL]>> \o @])
                   /\ Goto(t, "ib_state")
  /\ UNCHANGED <<tableVars, nodeVars, recVars, opsLeft>>

\* The sentinel: key sohash_sentinelkey(hashindex), no data.
IbAlloc(t) ==
  /\ At(t, "ib_alloc")
  /\ \E a \in AllocPick(FreeAddrs) :
       /\ NewNode(a, SentinelKey(Top(t).h), Top(t).h, "sentinel")
       /\ SetTop(t, [Top(t) EXCEPT !.sent = a])
  /\ Goto(t, "ib_insert")
  /\ UNCHANGED <<tableVars, recVars, opsLeft>>

IbAllocNoMem(t) ==
  /\ At(t, "ib_alloc") /\ NoMem(FreeAddrs)
  /\ InitFailed(t)
  /\ UNCHANGED <<tableVars, nextp, key, sokey, kind, recVars, opsLeft>>

\* Mutant: the sentinel is linked without first taking myhp->cur as its
\* hashentry_next.
IbInsertNoNext(t) ==
  /\ At(t, "ib_insert")
  /\ LET f == Top(t)
         w == Find(t, SlotLoc(Parent(t)), key[f.sent])
     IN CASE w.res = "found" ->
               /\ allocated' = allocated \ {f.sent}
               /\ SetTop(t, [f EXCEPT !.sent = w.cur, !.ok = FALSE])
               /\ Goto(t, "ib_seg")
               /\ UNCHANGED <<slot, nextp>>
          [] w.res = "notfound" ->
               /\ nextp' = NextAfter(nextp, w.prev, Ptr(f.sent))
               /\ slot'  = SlotAfter(w.prev, Ptr(f.sent))
               /\ SetTop(t, [f EXCEPT !.ok = TRUE])
               /\ Goto(t, "ib_seg")
               /\ UNCHANGED allocated
          [] OTHER -> /\ Goto(t, IF w.res = "spin" THEN "spin" ELSE "fault_uaf")
                      /\ UNCHANGED <<slot, nextp, allocated, lc>>
  /\ UNCHANGED <<hstate, size, count, scount, segs, key, sokey, kind,
                 recVars, opsLeft>>

\* sohash_list_insert of the sentinel from the parent bucket.  EEXIST:
\* another thread inserted it; ours is freed and the one found (myhp->cur)
\* is adopted with insert_success FALSE.
IbInsert(t) ==
  /\ At(t, "ib_insert")
  /\ LET f == Top(t)
         w == Find(t, SlotLoc(Parent(t)), key[f.sent])
     IN CASE w.res = "found" ->
               /\ allocated' = allocated \ {f.sent}
               /\ SetTop(t, [f EXCEPT !.sent = w.cur, !.ok = FALSE])
               /\ Goto(t, "ib_seg")
               /\ UNCHANGED <<slot, nextp>>
          [] w.res = "notfound" ->
               /\ nextp' = NextAfter([nextp EXCEPT ![f.sent] = Ptr(w.cur)],
                                     w.prev, Ptr(f.sent))
               /\ slot'  = SlotAfter(w.prev, Ptr(f.sent))
               /\ SetTop(t, [f EXCEPT !.ok = TRUE])
               /\ Goto(t, "ib_seg")
               /\ UNCHANGED allocated
          [] OTHER -> /\ Goto(t, IF w.res = "spin" THEN "spin" ELSE "fault_uaf")
                      /\ UNCHANGED <<slot, nextp, allocated, lc>>
  /\ UNCHANGED <<hstate, size, count, scount, segs, key, sokey, kind,
                 recVars, opsLeft>>

\* sohash_set_bucket, first half: the segment is allocated, BZEROed and
\* CASed in from NULL (a loser frees its copy).
IbSeg(t) ==
  /\ At(t, "ib_seg")
  /\ LET sg == SegOf(Top(t).h) IN
       /\ segs' = [segs EXCEPT ![sg] = TRUE]
       /\ slot' = IF segs[sg] THEN slot
                  ELSE [b \in Buckets |-> IF SegOf(b) = sg THEN NULL ELSE slot[b]]
  /\ Goto(t, "ib_slot")
  /\ UNCHANGED <<hstate, size, count, scount, nodeVars, recVars, lc, opsLeft>>

IbSegNoMem(t) ==
  /\ At(t, "ib_seg") /\ ~segs[SegOf(Top(t).h)] /\ AllocMayFail
  /\ InitFailed(t)
  /\ UNCHANGED <<tableVars, nextp, key, sokey, kind, recVars, opsLeft>>

\* Second half: CAS(slot, UNINITIALIZED, sentinel).
IbSlot(t) ==
  /\ At(t, "ib_slot")
  /\ slot' = IF slot[Top(t).h] = NULL THEN [slot EXCEPT ![Top(t).h] = Top(t).sent]
             ELSE slot
  /\ Goto(t, "ib_count")
  /\ UNCHANGED <<hstate, size, count, scount, segs, nodeVars, recVars, lc, opsLeft>>

\* Only the thread whose list insert succeeded (insert_success) counts the
\* sentinel, after the slot CAS.
IbCount(t) ==
  /\ At(t, "ib_count")
  /\ scount' = IF Top(t).ok THEN scount + 1 ELSE scount
  /\ InitDone(t)
  /\ UNCHANGED <<hstate, size, count, segs, slot, nodeVars, recVars, opsLeft>>


-----------------------------------------------------------------------------
(* The list calls of the entry points, on the bucket location              *)
(* &hashtable[s][b] (bucket), read when the call runs.                     *)

Fault(t, w) ==
  /\ Goto(t, IF w.res = "spin" THEN "spin" ELSE "fault_uaf")
  /\ UNCHANGED <<tableVars, nodeVars, recVars, lc, opsLeft>>

\* sohash_list_delete once the node is found, and sohash_retire_node: the
\* next pointer is marked, *prev is CASed to the successor, and the node
\* is pushed on the record's rlist through its hashentry_next (lines
\* 1370-1379, 1463-1466).  The scan that may follow is SOHashList's.
Unlink(t, w) ==
  /\ nextp'  = [NextAfter(nextp, w.prev, Ptr(Unmark(w.nxt)))
                 EXCEPT ![w.cur] = Ptr(RHead(lc[t].rec))]
  /\ rlist'  = [rlist EXCEPT ![lc[t].rec] = <<w.cur>> \o @]

\* sohash_list_insert of the new node (lines 676-699): EEXIST frees it.
InsList(t) ==
  /\ At(t, "list") /\ lc[t].op = "insert"
  /\ LET a == lc[t].node
         w == Find(t, SlotLoc(lc[t].h), key[a])
     IN CASE w.res = "found" ->
               /\ allocated' = allocated \ {a}
               /\ Goto(t, "release")
               /\ UNCHANGED <<tableVars, nextp, key, sokey, kind, recVars,
                              lc, opsLeft>>
          [] w.res = "notfound" ->
               /\ nextp' = NextAfter([nextp EXCEPT ![a] = Ptr(w.cur)],
                                     w.prev, Ptr(a))
               /\ slot'  = SlotAfter(w.prev, Ptr(a))
               /\ Goto(t, "ins_count")
               /\ UNCHANGED <<hstate, size, count, scount, segs, key, sokey,
                              kind, allocated, recVars, lc, opsLeft>>
          [] OTHER -> Fault(t, w)

\* MDKI_ATOMIC_INCR_UINT32(&sohash_regularkey_count)
InsCount(t) ==
  /\ At(t, "ins_count")
  /\ count' = count + 1
  /\ Goto(t, "ins_load")
  /\ UNCHANGED <<hstate, size, scount, segs, slot, nodeVars, recVars, lc, opsLeft>>

\* sohash_size is read, then the count: a load above SOHASH_MAX_LOAD
\* tries to double the size.
InsLoad(t) ==
  /\ At(t, "ins_load")
  /\ SetLc(t, [lc[t] EXCEPT !.s = size])
  /\ Goto(t, IF count \div size > MaxLoad THEN "ins_cas" ELSE "release")
  /\ UNCHANGED <<tableVars, nodeVars, recVars, opsLeft>>

\* CAS(sohash_current_size, sohash_size, sohash_size * 2); losing is fine.
InsCas(t) ==
  /\ At(t, "ins_cas")
  /\ size' = IF size = lc[t].s THEN 2 * lc[t].s ELSE size
  /\ Goto(t, "release")
  /\ UNCHANGED <<hstate, count, scount, segs, slot, nodeVars, recVars, lc, opsLeft>>

\* sohash_find_entry: sohash_list_find from the bucket (lines 777-778).
FindList(t) ==
  /\ At(t, "list") /\ lc[t].op = "find"
  /\ LET w == Find(t, SlotLoc(lc[t].h), RegularKey(lc[t].k)) IN
       IF w.res \in {"found", "notfound"}
       THEN Goto(t, "release") /\ UNCHANGED <<tableVars, nodeVars, recVars, lc, opsLeft>>
       ELSE Fault(t, w)

\* sohash_delete_entry -> sohash_delete_entry_subr -> sohash_list_delete.
DelList(t) ==
  /\ At(t, "list") /\ lc[t].op = "delete"
  /\ LET w == Find(t, SlotLoc(lc[t].h), RegularKey(lc[t].k)) IN
       CASE w.res = "notfound" ->
              Goto(t, "release") /\ UNCHANGED <<tableVars, nodeVars, recVars, lc, opsLeft>>
         [] w.res = "found" ->
              /\ Unlink(t, w)
              /\ slot' = SlotAfter(w.prev, w.nxt)
              /\ Goto(t, "del_count")
              /\ UNCHANGED <<hstate, size, count, scount, segs, key, sokey, kind,
                             allocated, recState, recAlloc, lc, opsLeft>>
         [] OTHER -> Fault(t, w)

\* Mutant: the count decremented without the zero check.
DelCountNoCheck(t) ==
  /\ \/ At(t, "del_count")
     \/ At(t, "c_bcnt")
  /\ count' = count - 1
  /\ Goto(t, IF pc[t] = "del_count" THEN "release" ELSE "c_bnode")
  /\ UNCHANGED <<hstate, size, scount, segs, slot, nodeVars, recVars, lc, opsLeft>>

\* sohash_delete_entry_subr: a zero count panics, else it is decremented.
DelCount(t) ==
  /\ \/ At(t, "del_count")
     \/ At(t, "c_bcnt")
  /\ IF count = 0
     THEN Goto(t, "panic") /\ UNCHANGED count
     ELSE /\ count' = count - 1
          /\ Goto(t, IF pc[t] = "del_count" THEN "release" ELSE "c_bnode")
  /\ UNCHANGED <<hstate, size, scount, segs, slot, nodeVars, recVars, lc, opsLeft>>


-----------------------------------------------------------------------------
(* sohash_cleanup_hashtable (lines 425-617).  lc.seg and lc.bi are the    *)
(* loop indices, lc.h the bucket being emptied, lc.head its bucket_head,  *)
(* lc.fin marks the final cleanup of bucket 0.                            *)

\* ACTIVE -> FLUSH by CAS; a FLUSH already in progress returns EBUSY.
CState(t) ==
  /\ At(t, "c_state")
  /\ IF hstate = "ACTIVE"
     THEN hstate' = "FLUSH" /\ Goto(t, "c_hp_get")
     ELSE Goto(t, "idle") /\ UNCHANGED hstate
  /\ UNCHANGED <<size, count, scount, segs, slot, nodeVars, recVars, lc, opsLeft>>

\* retry_loop: while (segment_index <= num_segments &&
\* sentinelkey_count > 1); hashtable[num_segments] is one past the array.
CLoopSeg(t) ==
  /\ At(t, "c_loop")
  /\ lc[t].seg <= NumSegs /\ scount > 1
  /\ CASE lc[t].seg = NumSegs -> Goto(t, "fault_oob") /\ UNCHANGED lc
       [] segs[lc[t].seg]     -> /\ SetLc(t, [lc[t] EXCEPT !.bi = 0])
                                 /\ Goto(t, "c_bucket")
       [] OTHER               -> /\ SetLc(t, [lc[t] EXCEPT !.seg = @ + 1])
                                 /\ UNCHANGED pc
  /\ UNCHANGED <<tableVars, nodeVars, recVars, opsLeft>>

\* The loop is left: sohash_cleanup_bucket(hashd, 0, 0, myhp).
CLoopDone(t) ==
  /\ At(t, "c_loop")
  /\ ~(lc[t].seg <= NumSegs /\ scount > 1)
  /\ SetLc(t, [lc[t] EXCEPT !.h = 0, !.head = slot[0], !.fin = TRUE])
  /\ Goto(t, IF slot[0] = NULL THEN "c_check" ELSE "c_bnode")
  /\ UNCHANGED <<tableVars, nodeVars, recVars, opsLeft>>

CurBucket(t) == lc[t].seg * SegSz + lc[t].bi

\* The bucket loop of one segment: bucket 0 of segment 0 and empty
\* buckets are passed over; an initialised one is emptied.
CBucketNext(t) ==
  /\ At(t, "c_bucket") /\ lc[t].bi < SegSz
  /\ CurBucket(t) = 0 \/ slot[CurBucket(t)] = NULL
  /\ SetLc(t, [lc[t] EXCEPT !.bi = @ + 1])
  /\ UNCHANGED <<tableVars, nodeVars, recVars, pc, opsLeft>>

CBucketClean(t) ==
  /\ At(t, "c_bucket") /\ lc[t].bi < SegSz
  /\ CurBucket(t) # 0 /\ slot[CurBucket(t)] # NULL
  /\ SetLc(t, [lc[t] EXCEPT !.h = CurBucket(t), !.head = slot[CurBucket(t)],
                            !.fin = FALSE])
  /\ Goto(t, "c_bnode")
  /\ UNCHANGED <<tableVars, nodeVars, recVars, opsLeft>>

\* End of a segment: any but segment 0 is CASed to NULL and freed.
CBucketEnd(t) ==
  /\ At(t, "c_bucket") /\ lc[t].bi = SegSz
  /\ segs' = IF lc[t].seg # 0 THEN [segs EXCEPT ![lc[t].seg] = FALSE] ELSE segs
  /\ SetLc(t, [lc[t] EXCEPT !.seg = @ + 1])
  /\ Goto(t, "c_loop")
  /\ UNCHANGED <<hstate, size, count, scount, slot, nodeVars, recVars, opsLeft>>

\* sohash_cleanup_bucket (lines 1410-1441): while the node after
\* bucket_head is a regular node, delete it from the bucket.
AfterBucket(t) == IF lc[t].fin THEN "c_check" ELSE "c_unset"
CBNode(t) ==
  /\ At(t, "c_bnode")
  /\ LET n == Unmark(nextp[lc[t].head]) IN
       CASE lc[t].head \notin allocated -> Goto(t, "fault_uaf") /\ UNCHANGED lc
         [] n = NULL                    -> Goto(t, AfterBucket(t)) /\ UNCHANGED lc
         [] n \notin allocated          -> Goto(t, "fault_uaf") /\ UNCHANGED lc
         [] kind[n] # "regular"         -> Goto(t, AfterBucket(t)) /\ UNCHANGED lc
         [] OTHER -> SetLc(t, [lc[t] EXCEPT !.node = n]) /\ Goto(t, "c_bdel")
  /\ UNCHANGED <<tableVars, nodeVars, recVars, opsLeft>>

\* sohash_delete_entry_subr(node->reverse_so_key) on the bucket; a
\* failure ends sohash_cleanup_bucket (its result is not looked at).
CBDel(t) ==
  /\ At(t, "c_bdel")
  /\ LET w == Find(t, SlotLoc(lc[t].h), key[lc[t].node]) IN
       CASE w.res = "notfound" ->
              Goto(t, AfterBucket(t)) /\ UNCHANGED <<tableVars, nodeVars, recVars, lc, opsLeft>>
         [] w.res = "found" ->
              /\ Unlink(t, w)
              /\ slot' = SlotAfter(w.prev, w.nxt)
              /\ Goto(t, "c_bcnt")
              /\ UNCHANGED <<hstate, size, count, scount, segs, key, sokey, kind,
                             allocated, recState, recAlloc, lc, opsLeft>>
         [] OTHER -> Fault(t, w)

\* The bucket is CASed from its sentinel to UNINITIALIZED.
CUnset(t) ==
  /\ At(t, "c_unset")
  /\ SetLc(t, [lc[t] EXCEPT !.sent = slot[lc[t].h]])
  /\ slot' = [slot EXCEPT ![lc[t].h] = NULL]
  /\ Goto(t, "c_sdel")
  /\ UNCHANGED <<hstate, size, count, scount, segs, nodeVars, recVars, opsLeft>>

\* sohash_list_delete(hashd, &sentinel_node, ...): the list is entered at
\* the local variable sentinel_node, so *prev is that variable.  A failure
\* returns SOHASH_RETVAL_FAILURE from the cleanup.
CSDel(t) ==
  /\ At(t, "c_sdel")
  /\ LET w == Find(t, LocalLoc, key[lc[t].sent]) IN
       CASE w.res = "found" ->
              /\ Unlink(t, w)
              /\ slot' = SlotAfter(w.prev, w.nxt)
              /\ SetLc(t, [lc[t] EXCEPT !.sent = IF w.prev = LocalLoc
                                                 THEN Unmark(w.nxt) ELSE @])
              /\ Goto(t, "c_sdec")
              /\ UNCHANGED <<hstate, size, count, scount, segs, key, sokey, kind,
                             allocated, recState, recAlloc, opsLeft>>
         [] w.res = "notfound" ->
              Goto(t, "idle") /\ UNCHANGED <<tableVars, nodeVars, recVars, lc, opsLeft>>
         [] OTHER -> Fault(t, w)

\* MDKI_ATOMIC_DECR_UINT32(&sohash_sentinelkey_count), next bucket.
CSDec(t) ==
  /\ At(t, "c_sdec")
  /\ scount' = scount - 1
  /\ SetLc(t, [lc[t] EXCEPT !.bi = @ + 1])
  /\ Goto(t, "c_bucket")
  /\ UNCHANGED <<hstate, size, count, segs, slot, nodeVars, recVars, opsLeft>>

\* Regular keys left or buckets re-initialised: goto retry_loop.
CCheck(t) ==
  /\ At(t, "c_check")
  /\ IF count # 0 \/ scount > 1
     THEN SetLc(t, [lc[t] EXCEPT !.seg = 0]) /\ Goto(t, "c_loop")
     ELSE Goto(t, "c_s0") /\ UNCHANGED lc
  /\ UNCHANGED <<tableVars, nodeVars, recVars, opsLeft>>

\* Step 2: bucket 0 is CASed to UNINITIALIZED, the count decremented and
\* the first sentinel freed.
CS0(t) ==
  /\ At(t, "c_s0")
  /\ slot'      = [slot EXCEPT ![0] = NULL]
  /\ scount'    = scount - 1
  /\ allocated' = allocated \ {slot[0]}
  /\ Goto(t, "c_free")
  /\ UNCHANGED <<hstate, size, count, segs, nextp, key, sokey, kind, recVars,
                 lc, opsLeft>>

\* Steps 3-5: segment 0 and hashtable are freed, the record released,
\* sohash_flush_hp_list frees every record and every node of every rlist
\* (lines 1143-1181), and hashd is freed.
CFree(t) ==
  /\ At(t, "c_free")
  /\ segs'      = [s \in DOMAIN segs |-> FALSE]
  /\ allocated' = allocated \ Retired
  /\ recState'  = [r \in Recs |-> "FREE"]
  /\ recAlloc'  = {}
  /\ rlist'     = [r \in Recs |-> <<>>]
  /\ hstate'    = "FREED"
  /\ Goto(t, "idle")
  /\ UNCHANGED <<size, count, scount, slot, nextp, key, sokey, kind, lc, opsLeft>>

\* A thread in the middle of a call when hashd has been freed reads it.
UseAfterFree(t) ==
  /\ hstate = "FREED" /\ ~Stopped
  /\ pc[t] \notin {"idle", "spin"}
  /\ Goto(t, "fault_uaf")
  /\ UNCHANGED <<tableVars, nodeVars, recVars, lc, opsLeft>>

-----------------------------------------------------------------------------
NextCalls(t) ==
  IF opsLeft[t] = 0 THEN {} ELSE Workload[t][Len(Workload[t]) - opsLeft[t] + 1]

Step(t) ==
  \/ \E c \in NextCalls(t) : Start(t, c[1], c[2])
  \/ CheckState(t) \/ HpGetFree(t) \/ HpGetNew(t) \/ HpGetNoMem(t)
  \/ Release(t) \/ ReadSize(t) \/ AllocNode(t) \/ AllocNodeNoMem(t)
  \/ GetBucket(t)
  \/ IbState(t) \/ IbGet(t) \/ IbParent(t) \/ IbAlloc(t) \/ IbAllocNoMem(t)
  \/ IbInsert(t) \/ IbSeg(t) \/ IbSegNoMem(t) \/ IbSlot(t) \/ IbCount(t)
  \/ InsList(t) \/ InsCount(t) \/ InsLoad(t) \/ InsCas(t)
  \/ FindList(t) \/ DelList(t) \/ DelCount(t)
  \/ CState(t) \/ CLoopSeg(t) \/ CLoopDone(t) \/ CBucketNext(t)
  \/ CBucketClean(t) \/ CBucketEnd(t) \/ CBNode(t) \/ CBDel(t) \/ CUnset(t)
  \/ CSDel(t) \/ CSDec(t) \/ CCheck(t) \/ CS0(t) \/ CFree(t)
  \/ UseAfterFree(t)

\* Every thread has made its calls (or the table is gone); a thread at
\* "spin" loops forever in sohash_list_find without changing anything.
Finished ==
  /\ \A t \in Threads : pc[t] \in {"idle", "spin"}
                        /\ (opsLeft[t] = 0 \/ hstate = "FREED")
  /\ UNCHANGED vars

\* A panic or fault halts the machine.
Halted == Stopped /\ UNCHANGED vars

Next == (\E t \in Threads : Step(t)) \/ Finished \/ Halted

Spec == Init /\ [][Next]_vars

\* The kernel keeps scheduling every runnable thread.
Fairness == \A t \in Threads : WF_vars(Step(t))
FairSpec == Spec /\ Fairness


-----------------------------------------------------------------------------
(* Properties.                                                             *)

Labels == {"idle", "state", "hp_get", "size", "alloc", "get_bucket",
           "ib_state", "ib_get", "ib_parent", "ib_alloc", "ib_insert",
           "ib_seg", "ib_slot", "ib_count", "list", "ins_count", "ins_load", "ins_cas",
           "del_count", "release", "c_state", "c_hp_get", "c_loop",
           "c_bucket", "c_bnode", "c_bdel", "c_bcnt", "c_unset", "c_sdel",
           "c_sdec", "c_check", "c_s0", "c_free", "spin"} \cup FaultLabels
Nodes == AllAddrs \cup {NULL}
Frame == [h : Nat, ok : BOOLEAN, sent : Nodes]

TypeOK ==
  /\ hstate \in {"ACTIVE", "FLUSH", "FREED"}
  /\ size \in {2^j : j \in 1..(W + 2)}
  /\ count \in Nat /\ scount \in Int
  /\ segs \in [0..(NumSegs - 1) -> BOOLEAN]
  /\ slot \in [Buckets -> Nodes]
  /\ nextp \in [AllAddrs -> Nodes \X BOOLEAN]
  /\ key \in [AllAddrs -> 0..(2^W - 1)]
  /\ kind \in [AllAddrs -> {"none", "regular", "sentinel"}]
  /\ allocated \subseteq AllAddrs
  /\ recState \in [Recs -> {"FREE", "INUSE"}] /\ recAlloc \subseteq Recs
  /\ rlist \in [Recs -> Seq(AllAddrs)]
  /\ pc \in [Threads -> Labels]
  /\ \A t \in Threads : lc[t].op \in Calls /\ lc[t].stack \in Seq(Frame)
  /\ \A t \in Threads : opsLeft[t] \in 0..Len(Workload[t])

\* sohash_list_find from bucket b, as a search from a bucket slot sees it.
SlotFind(b, target) == Walk(SlotLoc(b), slot[b], target, Bound)
Sizes == {2^j : j \in 1..W}

\* Split ordering (sohash_regularkey, sohash_sentinelkey, the recursive
\* bucket initialisation): while the table is ACTIVE, a regular node in
\* the list is found by a search from every initialised bucket it hashes
\* to under the current size or any smaller one, so a find that computed
\* its hashindex from a stale size still finds it.
SplitOrderFindable ==
  hstate = "ACTIVE" =>
    \A a \in Reachable, s \in Sizes, b \in Buckets :
      /\ kind[a] = "regular" /\ s <= size /\ b = sokey[a] % s
      /\ BucketIs(b) = "init"
      => LET w == SlotFind(b, key[a]) IN w.res = "found" /\ w.cur = a

NoNodeLost ==
  [][hstate' = "ACTIVE" =>
       \A a \in Reachable :
         kind[a] = "regular" =>
           \/ a \in Reachable'
           \/ \E t \in Threads : /\ pc[t] = "list" /\ lc[t].op = "delete"
                               /\ RegularKey(lc[t].k) = key[a]]_vars

\* Sentinels inserted by a thread that has not yet reached its
\* sohash_set_bucket count.
PendingSentinels ==
  {Top(t).h : t \in {u \in Threads : pc[u] \in {"ib_seg", "ib_slot", "ib_count"}
                                     /\ lc[u].stack # <<>> /\ Top(u).ok}}

\* sohash_sentinelkey_count, which the cleanup loop uses as the number of
\* initialised buckets, counts each bucket once however many threads race
\* to initialise it: while ACTIVE, adding the sentinels whose inserting
\* thread is yet to count them gives the initialised buckets together
\* with those sentinels' buckets.
SentinelCountMatches ==
  hstate = "ACTIVE" =>
    scount + Cardinality(PendingSentinels)
      = Cardinality({b \in Buckets : BucketIs(b) = "init"} \cup PendingSentinels)

\* sohash_cleanup_hashtable returns: its retry loop, which re-walks the
\* buckets while regular keys or extra sentinels remain, ends.
CleanupTerminates ==
  \A t \in Threads : [](pc[t] = "c_state" => <>(pc[t] = "idle"))

\* Every INUSE hazard record is held by a call in progress: no return path
\* of an entry point keeps its record.
RecordsReleased ==
  \A r \in recAlloc :
    recState[r] = "INUSE" => \E t \in Threads : lc[t].rec = r /\ pc[t] # "idle"

(***************************************************************************)
(* sohash_init_hashtable builds the table with the segment count and     *)
(* size its caller asked for, or the defaults for SOHASH_SET_SEG_DEFAULT, *)
(* as mvfs_sohash_table.h documents sohash_init_args_t: arguments the    *)
(* checks accept never leave num_segments or segment_sz 0.                *)
(***************************************************************************)
InitUsesRequestedSizes ==
  \A args \in InitArgs :
    InitSizes(args) # NULL =>
      /\ InitSizes(args).num_segments =
           IF args.num_segments = SOHASH_SET_SEG_DEFAULT
           THEN SOHASH_DEFAULT_SEG_COUNT ELSE args.num_segments
      /\ InitSizes(args).segment_sz =
           IF args.segment_sz = SOHASH_SET_SEG_DEFAULT
           THEN SOHASH_DEFAULT_SEG_SZ ELSE args.segment_sz

\* No thread reads past the segment array or through freed memory.
NoFault == \A t \in Threads : pc[t] \notin {"fault_oob", "fault_uaf"}

====

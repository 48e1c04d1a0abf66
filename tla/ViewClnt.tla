------------------------------ MODULE ViewClnt ------------------------------
(***************************************************************************)
(* The MVFS client side of the view RPCs that read and change directories *)
(* (src/mvfs_clnt.c): lookup, create, mkdir, symlink, link, remove, rmdir, *)
(* rename, readdir, getattr and setattr, with the client caches they keep *)
(* in step with the view: the name cache (mfs_dncadd / mfs_dncremove),    *)
(* the attribute cache (mvfs_attrcache / MFS_ATTRINVAL) and the readdir   *)
(* cache (mvfs_rddir_cache_enter_mnlocked / _flush).                       *)
(*                                                                         *)
(* Each call is a few steps of its thread: the entry checks and the heap  *)
(* allocations of the request and reply, the MLOCK of the directory (and  *)
(* the name cache removals made before the call), the view RPC, and the  *)
(* cache updates made with the result before MUNLOCK.  The view server   *)
(* handles one RPC at a time (mvfs_clnt.c line 824), so an RPC is one     *)
(* atomic step on the view's namespace.  An RPC may time out: the request *)
(* may then have been carried out or not, and the client only sees an    *)
(* error.                                                                  *)
(***************************************************************************)
EXTENDS Integers, FiniteSets

CONSTANTS
  Threads,
  Dirs,        \* directory objects the threads work in
  Objs,        \* other objects (files, symlinks, subdirectories)
  Names,       \* leaf names
  HmNames,     \* names mfs_hmname recognises (history-mode suffix)
  NULL,
  MaxOps,      \* bound: calls per thread
  LostReply    \* an RPC may time out after the view carried it out

ASSUME HmNames \subseteq Names /\ Dirs \cap Objs = {}

Nodes  == Dirs \cup Objs          \* mnodes that can be locked
NoEnt  == "noent"                 \* a cached "name not found"
None   == "none"                  \* no name cache entry
Empty  == -1                      \* no readdir block cached

VARIABLES
  srv,      \* srv[d][n]: the object the view binds n to in d, or NULL
  kind,     \* kind[o]: "file" or "dir" (set when the view creates o)
  srvMt,    \* srvMt[x]: the view's modification time of x
  dnc,      \* dnc[d][n]: the name cache entry for n in d
  attr,     \* attr[x]: the mnode's cached attributes [valid, mt]
  rdc,      \* rdc[d]: mtime of the directory when its cached block was read
  dirEof,   \* mn_vob.dir_eof
  mlock,    \* mlock[x]: the thread holding MLOCK on x, or NULL
  dying,    \* objects whose vnode is being deleted (VNGET fails ENOENT)
  heap,     \* heap[t]: request/reply buffers thread t holds
  pc, lc, opsLeft

vars == <<srv, kind, srvMt, dnc, attr, rdc, dirEof, mlock, dying, heap,
          pc, lc, opsLeft>>

Ops == {"lookup", "create", "mkdir", "symlink", "link", "remove", "rmdir",
        "rename", "readdir", "getattr", "setattr", "rebind"}

\* The heap buffers each call allocates on entry: HEAP_ALLOC_RPC_ARGS
\* (request and reply), HEAP_ALLOC_RPC_ARGS_AND_VARS for lookup.
Bufs(op) == IF op = "lookup" THEN 3 ELSE 2

Bound == {o \in Objs : \E d \in Dirs, n \in Names : srv[d][n] = o}

\* Objects the view can hand out for a new name.
FreeObjs == Objs \ (Bound \cup dying)

\* Mutants of LockSet: mfs_clnt_readdir without its MLOCK (as when
\* mvfs_rdcenabled is off), and mfs_clnt_getattr without its MLOCK.
LockSetRddirUnlocked(l) ==
  CASE l.op = "rename"  -> {l.d, l.d2}
    [] l.op = "readdir" -> {}
    [] l.op = "getattr" -> {l.x}
    [] l.op = "setattr" -> {l.o}
    [] OTHER            -> {l.d}

LockSetGetattrUnlocked(l) ==
  CASE l.op = "rename"  -> {l.d, l.d2}
    [] l.op = "getattr" -> {}
    [] l.op = "setattr" -> {l.o}
    [] OTHER            -> {l.d}

\* The directories an operation locks (MLOCK, or MLOCK2 for a rename).
LockSet(l) ==
  CASE l.op = "rename"  -> {l.d, l.d2}
    [] l.op = "getattr" -> {l.x}
    [] l.op = "setattr" -> {l.o}
    [] OTHER            -> {l.d}

\* A thread's locals between calls.
IdleLc == [op |-> "getattr", d |-> NULL, n |-> NULL, d2 |-> NULL, n2 |-> NULL,
           x |-> NULL, o |-> NULL, opt |-> FALSE, mask |-> "none",
           v |-> 0, st |-> "OK", buf |-> "none"]

Init ==
  /\ srv    = [d \in Dirs |-> [n \in Names |-> NULL]]
  /\ kind   = [o \in Objs |-> "file"]
  /\ srvMt  = [x \in Nodes |-> 0]
  /\ dnc    = [d \in Dirs |-> [n \in Names |-> None]]
  /\ attr   = [x \in Nodes |-> [valid |-> FALSE, mt |-> 0]]
  /\ rdc    = [d \in Dirs |-> Empty]
  /\ dirEof = [d \in Dirs |-> FALSE]
  /\ mlock  = [x \in Nodes |-> NULL]
  /\ dying  = {}
  /\ heap   = [t \in Threads |-> 0]
  /\ pc     = [t \in Threads |-> "idle"]
  /\ lc     = [t \in Threads |-> IdleLc]
  /\ opsLeft = [t \in Threads |-> MaxOps]

(***************************************************************************)
(* The calls a thread can make, with their arguments.  link and setattr   *)
(* take a vnode the caller holds, so an object the view binds; getattr   *)
(* takes a directory or such an object.  opt is remove's "sleep", the   *)
(* MVFS_SATTR_ATIME_EROFS_OK bit of setattr, a readdir at the offset    *)
(* where the last one ended, and a history-mode link text of symlink.   *)
(***************************************************************************)
Calls ==
  LET base == IdleLc
      files == {o \in Bound : kind[o] = "file"}
  IN  {[base EXCEPT !.op = op, !.d = d, !.n = n] :
          op \in {"lookup", "create", "mkdir", "rmdir"}, d \in Dirs, n \in Names}
      \cup {[base EXCEPT !.op = "remove", !.d = d, !.n = n, !.opt = b] :
               d \in Dirs, n \in Names, b \in BOOLEAN}
      \cup {[base EXCEPT !.op = "symlink", !.d = d, !.n = n, !.opt = b] :
               d \in Dirs, n \in Names \ HmNames, b \in BOOLEAN}
      \cup {[base EXCEPT !.op = "link", !.o = o, !.d = d, !.n = n] :
               o \in files, d \in Dirs, n \in Names}
      \cup {[base EXCEPT !.op = "rename", !.d = d, !.n = n, !.d2 = d2, !.n2 = n2] :
               d \in Dirs, n \in Names \ HmNames, d2 \in Dirs, n2 \in Names}
      \cup {[base EXCEPT !.op = "rebind", !.d = d] : d \in Dirs}
      \cup {[base EXCEPT !.op = "readdir", !.d = d, !.opt = b] :
               d \in Dirs, b \in BOOLEAN}
      \cup {[base EXCEPT !.x = x] : x \in Dirs \cup Bound}
      \cup {[base EXCEPT !.op = "setattr", !.o = o, !.mask = m, !.opt = b] :
               o \in files, m \in {"none", "atime", "other"}, b \in BOOLEAN}

\* The name whose history-mode form makes a call fail with EROFS
\* (mfs_hmname): the target name, and for symlink the link text.
HmRefused(l) ==
  \/ l.op \in {"create", "mkdir", "remove", "rmdir"} /\ l.n \in HmNames
  \/ l.op \in {"link", "rename"} /\ (IF l.op = "link" THEN l.n ELSE l.n2) \in HmNames
  \/ l.op = "symlink" /\ l.opt

\* Return res to the caller (the model keeps no result: no property
\* needs it).
Return(t, res, h) ==
  /\ pc' = [pc EXCEPT ![t] = "idle"]
  /\ lc' = [lc EXCEPT ![t] = IdleLc]
  /\ heap' = [heap EXCEPT ![t] = h]

(***************************************************************************)
(* Entry of mfs_clnt_<op>: HEAP_ALLOC_RPC_ARGS (ENOMEM if either buffer   *)
(* cannot be had, freeing the first), the history-mode name check, and   *)
(* for create the KMEM_ALLOC of the reply text.  mfs_clnt_getattr and   *)
(* mvfs_clnt_setattr_locked take the mnode lock first.  A history-mode   *)
(* lookup gets the stripped name in a buffer mfs_hmname allocates.        *)
(***************************************************************************)
Call(t) ==
  /\ pc[t] = "idle" /\ opsLeft[t] > 0
  /\ opsLeft' = [opsLeft EXCEPT ![t] = @ - 1]
  /\ \E l \in Calls :
       IF l.op \in {"getattr", "setattr"}
       THEN /\ pc' = [pc EXCEPT ![t] = "lock"]
            /\ lc' = [lc EXCEPT ![t] = l]
            /\ UNCHANGED heap
       ELSE \/ Return(t, "ENOMEM", heap[t])
            \/ /\ HmRefused(l)
               /\ Return(t, "EROFS", heap[t])
            \/ /\ ~HmRefused(l)
               /\ \/ l.op = "create" /\ Return(t, "ENOMEM", heap[t])
                  \/ /\ pc' = [pc EXCEPT ![t] = IF l.op = "rebind" THEN "rpc" ELSE "lock"]
                     /\ lc' = [lc EXCEPT ![t] =
                              [l EXCEPT !.buf = IF l.op = "lookup" /\ l.n \in HmNames
                                                THEN "alloc" ELSE "none"]]
                     /\ heap' = [heap EXCEPT ![t] = @ + Bufs(l.op)
                                                      + (IF l.op = "create" THEN 1 ELSE 0)]
  /\ UNCHANGED <<srv, kind, srvMt, dnc, attr, rdc, dirEof, mlock, dying>>

Take(l, t)  == [x \in Nodes |-> IF x \in LockSet(l) THEN t ELSE mlock[x]]
Unlock(l)   == [x \in Nodes |-> IF x \in LockSet(l) THEN NULL ELSE mlock[x]]
\* Mutant of Free: one HEAP_FREE too many.
FreeOneMore(t, k) == heap[t] - k - 1

Free(t, k)  == heap[t] - k

\* Mutant of DncDrop: mfs_clnt_remove without its mfs_dncremove.
DncDropKeepRemoved(l) ==
  CASE l.op \in {"rmdir", "symlink"} -> [dnc EXCEPT ![l.d][l.n] = None]
    [] l.op = "rename" -> [dnc EXCEPT ![l.d][l.n] = None, ![l.d2][l.n2] = None]
    [] OTHER -> dnc

\* mfs_dncremove of the names an operation drops before its RPC: remove,
\* rmdir and symlink drop the name, rename both names.
DncDrop(l) ==
  CASE l.op \in {"remove", "rmdir", "symlink"} ->
         [dnc EXCEPT ![l.d][l.n] = None]
    [] l.op = "rename" ->
         [dnc EXCEPT ![l.d][l.n] = None, ![l.d2][l.n2] = None]
    [] OTHER -> dnc

Goto(t, p) == pc' = [pc EXCEPT ![t] = p]

(***************************************************************************)
(* MLOCK (MLOCK2 for a rename of two directories, taking both in its     *)
(* fixed order) and what each operation does holding it before its RPC:  *)
(* the name cache removals; mfs_clnt_remove's MLOCK_NOWAIT failing with  *)
(* EAGAIN; HEAP_ALLOC_RPC_ARGS of mfs_clnt_getattr_mnp and of            *)
(* mvfs_clnt_setattr_locked; setattr's "nothing to update" return;     *)
(* readdir's return at the directory's recorded end and its KMEM_ALLOC   *)
(* of the entry buffer.                                                    *)
(***************************************************************************)
Lock(t) ==
  LET l == lc[t] IN
  /\ pc[t] = "lock"
  /\ IF l.op = "remove" /\ ~l.opt /\ mlock[l.d] # NULL
     THEN /\ Return(t, "EAGAIN", Free(t, 2))
          /\ UNCHANGED <<dnc, mlock>>
     ELSE
     /\ \A x \in LockSet(l) : mlock[x] = NULL
     /\ CASE l.op \in {"getattr", "setattr"} ->
               \/ /\ Return(t, "ENOMEM", heap[t])
                  /\ UNCHANGED <<dnc, mlock>>
               \/ /\ l.op = "setattr" /\ l.mask = "none"
                  /\ Return(t, "OK", heap[t])
                  /\ UNCHANGED <<dnc, mlock>>
               \/ /\ l.op = "getattr" \/ l.mask # "none"
                  /\ Goto(t, "rpc")
                  /\ mlock' = Take(l, t)
                  /\ heap' = [heap EXCEPT ![t] = @ + 2]
                  /\ UNCHANGED <<lc, dnc>>
          [] l.op = "readdir" ->
               \/ /\ l.opt /\ dirEof[l.d]
                  /\ Return(t, "OK", Free(t, 2))
                  /\ UNCHANGED <<dnc, mlock>>
               \/ /\ ~(l.opt /\ dirEof[l.d])
                  /\ Return(t, "ENOMEM", Free(t, 2))
                  /\ UNCHANGED <<dnc, mlock>>
               \/ /\ ~(l.opt /\ dirEof[l.d])
                  /\ Goto(t, "rpc")
                  /\ mlock' = Take(l, t)
                  /\ UNCHANGED <<lc, heap, dnc>>
          [] OTHER ->
               /\ Goto(t, "rpc")
               /\ mlock' = Take(l, t)
               /\ dnc' = DncDrop(l)
               /\ UNCHANGED <<lc, heap>>
  /\ UNCHANGED <<srv, kind, srvMt, attr, rdc, dirEof, dying, opsLeft>>

(***************************************************************************)
(* The view's side of an RPC, carried out atomically: the reply status,   *)
(* the object it names and the view's new state.  "new" is the object a  *)
(* create, mkdir or symlink gets.                                         *)
(***************************************************************************)
Bump(m, xs) == [x \in Nodes |-> IF x \in xs THEN m[x] + 1 ELSE m[x]]

Reply(st, o) == [st |-> st, o |-> o, srv |-> srv, kind |-> kind, mt |-> srvMt]

Serve(l, new) ==
  LET cur == srv[l.d][l.n] IN
  CASE l.op = "lookup" ->
         Reply(IF cur = NULL THEN "ENOENT" ELSE "OK", cur)
    [] l.op \in {"create", "mkdir", "symlink"} ->
         IF cur # NULL THEN Reply("EEXIST", NULL)
         ELSE IF new = NULL THEN Reply("ENOSPC", NULL)
         ELSE [st |-> "OK", o |-> new,
               srv |-> [srv EXCEPT ![l.d][l.n] = new],
               kind |-> [kind EXCEPT ![new] = IF l.op = "mkdir" THEN "dir" ELSE "file"],
               mt |-> Bump(srvMt, {l.d})]
    [] l.op = "link" ->
         IF cur # NULL THEN Reply("EEXIST", NULL)
         ELSE IF l.o \notin Bound THEN Reply("ENOENT", NULL)
         ELSE [Reply("OK", l.o) EXCEPT !.srv = [srv EXCEPT ![l.d][l.n] = l.o],
                                       !.mt = Bump(srvMt, {l.d, l.o})]
    [] l.op \in {"remove", "rmdir"} ->
         IF cur = NULL THEN Reply("ENOENT", NULL)
         ELSE IF kind[cur] # (IF l.op = "remove" THEN "file" ELSE "dir")
         THEN Reply(IF l.op = "remove" THEN "EISDIR" ELSE "ENOTDIR", NULL)
         ELSE [Reply("OK", NULL) EXCEPT !.srv = [srv EXCEPT ![l.d][l.n] = NULL],
                                        !.mt = Bump(srvMt, {l.d})]
    [] l.op = "rename" ->
         LET tgt == srv[l.d2][l.n2] IN
         IF cur = NULL THEN Reply("ENOENT", NULL)
         ELSE IF tgt # NULL /\ kind[tgt] # kind[cur] THEN Reply("EISDIR", NULL)
         ELSE IF <<l.d, l.n>> = <<l.d2, l.n2>> THEN Reply("OK", NULL)
         ELSE [Reply("OK", NULL) EXCEPT
                 !.srv = [srv EXCEPT ![l.d][l.n] = NULL, ![l.d2][l.n2] = cur],
                 !.mt = Bump(srvMt, {l.d, l.d2})]
    [] OTHER -> Reply("OK", NULL)      \* getattr, readdir

\* The time stamp the reply carries: the directory's (dir_mod.dvstat, the
\* target directory for link and rename), or the object's for getattr
\* and setattr.
ReplyMt(l, m) ==
  CASE l.op \in {"link", "rename"} -> m[IF l.op = "link" THEN l.d ELSE l.d2]
    [] l.op = "getattr"            -> m[l.x]
    [] l.op = "setattr"            -> m[l.o]
    [] OTHER                       -> m[l.d]

\* The object the view would give a new name.
NewObj(l) ==
  IF l.op \in {"create", "mkdir", "symlink"} /\ FreeObjs # {}
  THEN FreeObjs ELSE {NULL}

Modifies(l) == l.op \notin {"lookup", "readdir", "getattr", "rebind"}

\* A history-mode lookup frees the stripped name after every RPC
\* (STRFREE(rap->name)); "double" records a free of a freed buffer.
AfterStrfree(l) ==
  IF l.buf = "none" THEN "none" ELSE IF l.buf = "alloc" THEN "freed" ELSE "double"

(***************************************************************************)
(* MVFS_VWCALL and mfs_geterrno: the view answers; or, when replies can  *)
(* be lost, carries the request out and the client times out; or the     *)
(* call fails before the view sees it (a timeout, or ENOMEM for the     *)
(* downrev reply).  A history-mode lookup is answered in the view's      *)
(* history namespace, which the model leaves open: any object the view  *)
(* knows, or ENOENT.  setattr may be refused with EROFS by a read-only  *)
(* view.                                                                   *)
(***************************************************************************)
Rpc(t) ==
  LET l == lc[t] IN
  /\ pc[t] = "rpc"
  /\ \E new \in NewObj(l) :
     LET r == IF l.op = "setattr" THEN [Reply("OK", NULL) EXCEPT !.mt = Bump(srvMt, {l.o})]
              ELSE Serve(l, new)
         Answer(st, o, applied) ==
           /\ lc' = [lc EXCEPT ![t].st = st, ![t].o = IF l.op \in {"link", "setattr"} THEN l.o ELSE o,
                               ![t].v = ReplyMt(l, IF applied THEN r.mt ELSE srvMt),
                               ![t].buf = AfterStrfree(l)]
           /\ IF applied THEN srv' = r.srv /\ kind' = r.kind /\ srvMt' = r.mt
              ELSE UNCHANGED <<srv, kind, srvMt>>
     IN  \/ /\ l.op = "lookup" /\ l.n \in HmNames
            /\ \E o \in Bound \cup {NULL} :
                 Answer(IF o = NULL THEN "ENOENT" ELSE "OK", o, FALSE)
         \/ /\ ~(l.op = "lookup" /\ l.n \in HmNames) /\ l.op # "setattr"
            /\ Answer(r.st, r.o, TRUE)
         \/ /\ l.op = "setattr"
            /\ \/ Answer("OK", NULL, TRUE)
               \/ Answer("EROFS", NULL, FALSE)
         \/ /\ LostReply /\ Modifies(l) /\ r.st = "OK"
            /\ Answer("ETIMEDOUT", NULL, TRUE)
         \/ Answer("ETIMEDOUT", NULL, FALSE)
  /\ Goto(t, "post")
  /\ UNCHANGED <<dnc, attr, rdc, dirEof, mlock, dying, heap, opsLeft>>

(***************************************************************************)
(* The attribute cache.  MFS_ATTRINVAL drops an mnode's attributes;      *)
(* mvfs_attrcache stores the ones a reply carries and, when a            *)
(* directory's time stamp changed, flushes its readdir cache through     *)
(* mfs_ac_modevents (the comment above MVFS_CLNT_RDDIR_CACHE_CHECK).      *)
(* MVFS_CLNT_RDDIR_CACHE_CHECK flushes it in any case.                    *)
(***************************************************************************)
AttrInval(a, x) == [a EXCEPT ![x].valid = FALSE]

AttrCache(a, x, m) == [a EXCEPT ![x] = [valid |-> TRUE, mt |-> m]]

ModEvents(r, a, x, m) ==
  IF x \in Dirs /\ m # a[x].mt THEN [r EXCEPT ![x] = Empty] ELSE r

RddirCheck(r, d) == [r EXCEPT ![d] = Empty]

\* The end of a call: MUNLOCK, HEAP_FREE of its buffers, return res.
Done(t, res, k) ==
  /\ mlock' = Unlock(lc[t])
  /\ Return(t, res, Free(t, k))

(***************************************************************************)
(* mfs_clnt_lookup after the RPC.  A found object gets a vnode           *)
(* (mvfs_makevobnode); if that vnode is being deleted the lookup unlocks *)
(* the directory and starts again at "retry", where it locks it and     *)
(* calls the view again.  Otherwise the name cache gets the object, or   *)
(* "not found" after ENOENT.                                              *)
(***************************************************************************)
PostLookup(t) ==
  LET l == lc[t] IN
  /\ pc[t] = "post" /\ l.op = "lookup"
  /\ IF l.st = "OK" /\ l.o \in dying
     THEN /\ Goto(t, "lock")
          /\ mlock' = Unlock(l)
          /\ UNCHANGED <<dnc, lc, heap>>
     ELSE /\ dnc' = CASE l.st = "OK"     -> [dnc EXCEPT ![l.d][l.n] = l.o]
                      [] l.st = "ENOENT" -> [dnc EXCEPT ![l.d][l.n] = NoEnt]
                      [] OTHER           -> dnc
          /\ Done(t, l.st, 3)
  /\ UNCHANGED <<attr, rdc, dirEof>>

(***************************************************************************)
(* mfs_clnt_create, mfs_clnt_mkdir and mfs_clnt_symlink after the RPC:   *)
(* MFS_ATTRINVAL of the directory whatever the outcome; on success the   *)
(* directory's new attributes, the readdir cache check, a vnode for the  *)
(* new object and its name cache entry.  create frees its reply text.    *)
(***************************************************************************)
PostCreate(t) ==
  LET l == lc[t]
      a0 == AttrInval(attr, l.d)
  IN
  /\ pc[t] = "post" /\ l.op \in {"create", "mkdir", "symlink"}
  /\ IF l.st = "OK"
     THEN /\ attr' = AttrCache(a0, l.d, l.v)
          /\ rdc' = RddirCheck(ModEvents(rdc, a0, l.d, l.v), l.d)
          /\ dnc' = [dnc EXCEPT ![l.d][l.n] = l.o]
     ELSE /\ attr' = a0
          /\ UNCHANGED <<rdc, dnc>>
  /\ Done(t, l.st, IF l.op = "create" THEN 3 ELSE 2)
  /\ UNCHANGED dirEof

(***************************************************************************)
(* mfs_clnt_link after the RPC: MFS_ATTRINVAL of the linked object (its  *)
(* link count changed) whatever the outcome; on success the target       *)
(* directory's attributes, its readdir cache check and the new name.     *)
(***************************************************************************)
PostLink(t) ==
  LET l == lc[t]
      a0 == AttrInval(attr, l.o)
  IN
  /\ pc[t] = "post" /\ l.op = "link"
  /\ IF l.st = "OK"
     THEN /\ attr' = AttrCache(a0, l.d, l.v)
          /\ rdc' = RddirCheck(ModEvents(rdc, a0, l.d, l.v), l.d)
          /\ dnc' = [dnc EXCEPT ![l.d][l.n] = l.o]
     ELSE /\ attr' = a0
          /\ UNCHANGED <<rdc, dnc>>
  /\ Done(t, l.st, 2)
  /\ UNCHANGED dirEof

(***************************************************************************)
(* mfs_clnt_remove and mfs_clnt_rmdir after the RPC: on success the      *)
(* directory's attributes and the readdir cache check; on failure only   *)
(* MFS_CHK_STALE (the directory's attributes are left as they were).     *)
(***************************************************************************)
PostRemove(t) ==
  LET l == lc[t] IN
  /\ pc[t] = "post" /\ l.op \in {"remove", "rmdir"}
  /\ IF l.st = "OK"
     THEN /\ attr' = AttrCache(attr, l.d, l.v)
          /\ rdc' = RddirCheck(ModEvents(rdc, attr, l.d, l.v), l.d)
     ELSE UNCHANGED <<attr, rdc>>
  /\ Done(t, l.st, 2)
  /\ UNCHANGED <<dnc, dirEof>>

(***************************************************************************)
(* mfs_clnt_rename after the RPC: MFS_ATTRINVAL of the source directory  *)
(* whatever the outcome; on success the target directory's attributes,  *)
(* its readdir cache check, and a flush of the source directory's       *)
(* readdir cache when it is another directory.                           *)
(***************************************************************************)
PostRename(t) ==
  LET l == lc[t]
      a0 == AttrInval(attr, l.d)
      r0 == RddirCheck(ModEvents(rdc, a0, l.d2, l.v), l.d2)
  IN
  /\ pc[t] = "post" /\ l.op = "rename"
  /\ IF l.st = "OK"
     THEN /\ attr' = AttrCache(a0, l.d2, l.v)
          /\ rdc' = IF l.d # l.d2 THEN RddirCheck(r0, l.d) ELSE r0
     ELSE /\ attr' = a0
          /\ UNCHANGED rdc
  /\ Done(t, l.st, 2)
  /\ UNCHANGED <<dnc, dirEof>>

(***************************************************************************)
(* mfs_clnt_readdir after the RPC.  A read from the start caches the     *)
(* directory's first block (mvfs_rddir_cache_enter_mnlocked) and, as the *)
(* view returns the whole directory with eof, records the end offset     *)
(* (dir_eof, rddir_off).  A read from that end returns no entries.  On   *)
(* failure the entry buffer is freed.                                     *)
(***************************************************************************)
PostReaddir(t) ==
  LET l == lc[t] IN
  /\ pc[t] = "post" /\ l.op = "readdir"
  /\ IF l.st = "OK"
     THEN /\ rdc' = IF l.opt THEN rdc ELSE [rdc EXCEPT ![l.d] = l.v]
          /\ dirEof' = [dirEof EXCEPT ![l.d] = TRUE]
     ELSE UNCHANGED <<rdc, dirEof>>
  /\ Done(t, l.st, 2)
  /\ UNCHANGED <<dnc, attr>>

\* mfs_clnt_getattr_mnp after the RPC, and mfs_clnt_getattr's MUNLOCK.
PostGetattr(t) ==
  LET l == lc[t] IN
  /\ pc[t] = "post" /\ l.op = "getattr"
  /\ IF l.st = "OK"
     THEN /\ attr' = AttrCache(attr, l.x, l.v)
          /\ rdc' = ModEvents(rdc, attr, l.x, l.v)
     ELSE UNCHANGED <<attr, rdc>>
  /\ Done(t, l.st, 2)
  /\ UNCHANGED <<dnc, dirEof>>

(***************************************************************************)
(* mvfs_clnt_setattr_locked after the RPC, then the caller's MUNLOCK.    *)
(* When the view refuses an atime-only update with EROFS and the caller  *)
(* passed MVFS_SATTR_ATIME_EROFS_OK, it returns 0 at once, before the   *)
(* HEAP_FREEs at "done".                                                  *)
(***************************************************************************)
PostSetattr(t) ==
  LET l == lc[t] IN
  /\ pc[t] = "post" /\ l.op = "setattr"
  /\ IF l.st = "EROFS" /\ l.opt /\ l.mask = "atime"
     THEN /\ Done(t, "OK", 0)
          /\ UNCHANGED attr
     ELSE /\ attr' = IF l.st = "OK" THEN AttrCache(attr, l.o, l.v) ELSE attr
          /\ Done(t, l.st, 2)
  /\ UNCHANGED <<dnc, rdc, dirEof>>

(***************************************************************************)
(* mfs_clnt_rebind_dir after its VIEW_REVALIDATE RPC, made without the  *)
(* directory lock: when the view names the same directory (the model     *)
(* keeps the view's choice of directory versions fixed), it takes MLOCK, *)
(* caches the attributes the reply carries and unlocks.                  *)
(***************************************************************************)
PostRebind(t) ==
  LET l == lc[t] IN
  /\ pc[t] = "post" /\ l.op = "rebind"
  /\ IF l.st = "OK"
     THEN /\ mlock[l.d] = NULL
          /\ attr' = AttrCache(attr, l.d, l.v)
          /\ rdc' = ModEvents(rdc, attr, l.d, l.v)
          /\ Done(t, "OK", 2)
     ELSE /\ Return(t, l.st, Free(t, 2))
          /\ UNCHANGED <<attr, rdc, mlock>>
  /\ UNCHANGED <<dnc, dirEof>>

Post(t) ==
  /\ \/ PostLookup(t) \/ PostCreate(t) \/ PostLink(t) \/ PostRemove(t)
     \/ PostRename(t) \/ PostReaddir(t) \/ PostGetattr(t) \/ PostSetattr(t)
     \/ PostRebind(t)
  /\ UNCHANGED <<srv, kind, srvMt, dying, opsLeft>>

(***************************************************************************)
(* The rest of the kernel: a vnode nobody holds (no name cache entry, no *)
(* caller) may start being deleted, and its deletion later completes.   *)
(* While it is being deleted, mvfs_makevobnode fails with ENOENT.        *)
(***************************************************************************)
Held == {dnc[d][n] : d \in Dirs, n \in Names} \cup {lc[t].o : t \in Threads}

StartEvict ==
  /\ \E o \in Bound \ (Held \cup dying) : dying' = dying \cup {o}
  /\ UNCHANGED <<srv, kind, srvMt, dnc, attr, rdc, dirEof, mlock, heap, pc, lc, opsLeft>>

FinishEvict ==
  /\ \E o \in dying : dying' = dying \ {o}
  /\ UNCHANGED <<srv, kind, srvMt, dnc, attr, rdc, dirEof, mlock, heap, pc, lc, opsLeft>>

Finished == \A t \in Threads : pc[t] = "idle" /\ opsLeft[t] = 0

Next ==
  \/ \E t \in Threads : Call(t) \/ Lock(t) \/ Rpc(t) \/ Post(t)
  \/ StartEvict \/ FinishEvict
  \/ Finished /\ UNCHANGED vars

Spec == Init /\ [][Next]_vars

-----------------------------------------------------------------------------
Entry == Objs \cup {NoEnt, None}

TypeOK ==
  /\ srv \in [Dirs -> [Names -> Objs \cup {NULL}]]
  /\ dnc \in [Dirs -> [Names -> Entry]]
  /\ attr \in [Nodes -> [valid : BOOLEAN, mt : Nat]]
  /\ rdc \in [Dirs -> {Empty} \cup Nat]
  /\ mlock \in [Nodes -> Threads \cup {NULL}]
  /\ dying \subseteq Objs
  /\ heap \in [Threads -> Nat]
  /\ pc \in [Threads -> {"idle", "lock", "rpc", "post"}]
  /\ lc \in [Threads -> [op : Ops, d : Dirs \cup {NULL}, n : Names \cup {NULL},
                         d2 : Dirs \cup {NULL}, n2 : Names \cup {NULL},
                         x : Nodes \cup {NULL}, o : Objs \cup {NULL},
                         opt : BOOLEAN, mask : {"none", "atime", "other"},
                         v : Nat, st : STRING,
                         buf : {"none", "alloc", "freed", "double"}]]

(***************************************************************************)
(* A name cache entry that names an object is never stale: whenever the  *)
(* cache says n in d is object o, the view binds n in d to o.  This rests *)
(* on remove, rmdir, symlink and rename dropping their names from the    *)
(* cache before the RPC (so a lost reply cannot leave one behind), on    *)
(* lookup and the creating calls holding the directory lock from the RPC *)
(* to mfs_dncadd, and on every change of a directory being made under   *)
(* its lock.  History-mode names are left out: they name elements the   *)
(* view's selection does not bind.                                        *)
(***************************************************************************)
PositiveEntriesCurrent ==
  \A d \in Dirs, n \in Names \ HmNames :
    dnc[d][n] \in Objs => srv[d][n] = dnc[d][n]

(***************************************************************************)
(* Whenever a directory's cached attributes are valid and current, its   *)
(* cached readdir block is current too: it was read at the directory's   *)
(* present time stamp.  readdir holds the directory lock from its RPC to *)
(* mvfs_rddir_cache_enter_mnlocked (mfs_clnt_readdir's comment: so as    *)
(* not to race a create or remove and cache stale entries), and every   *)
(* change of the directory flushes the block or leaves its attributes    *)
(* invalid or behind the view's.                                           *)
(***************************************************************************)
RddirCurrent ==
  \A d \in Dirs :
    rdc[d] # Empty /\ attr[d].valid /\ attr[d].mt = srvMt[d] => rdc[d] = srvMt[d]

\* A step stores no attributes older than the ones an mnode had.
NoRegress == \A x \in Nodes : attr'[x].valid => attr'[x].mt >= attr[x].mt

(***************************************************************************)
(* A getattr never puts back older attributes: mfs_clnt_getattr holds    *)
(* the mnode lock from before its RPC to mvfs_attrcache, so that (its   *)
(* comment) a directory operation cannot cache newer attributes in      *)
(* between which the getattr would then overwrite with older ones.       *)
(***************************************************************************)
GetattrNeverRegresses ==
  [][\A t \in Threads : PostGetattr(t) => NoRegress]_vars

(***************************************************************************)
(* No call puts back older attributes.  mfs_clnt_rebind_dir makes its    *)
(* RPC without the directory lock and caches the reply's attributes     *)
(* after taking it, the order mfs_clnt_getattr's comment warns against.  *)
(***************************************************************************)
AttrsNeverRegress == [][NoRegress]_attr

(***************************************************************************)
(* A directory nobody has locked has valid cached attributes only if     *)
(* they carry its current time stamp: a call that changed the directory *)
(* at the view either caches the new attributes or drops the old ones.   *)
(* remove, rmdir, and the target directory of link and rename keep them *)
(* when the RPC fails, though the view may have done the change before   *)
(* the reply was lost.                                                    *)
(***************************************************************************)
DirAttrsCurrent ==
  \A d \in Dirs : mlock[d] = NULL /\ attr[d].valid => attr[d].mt = srvMt[d]

(***************************************************************************)
(* A history-mode lookup frees the stripped name mfs_hmname allocated    *)
(* exactly once, and never sends it to the view after freeing it.        *)
(***************************************************************************)
StrippedNameFreedOnce ==
  \A t \in Threads : lc[t].buf # "double"

(***************************************************************************)
(* Every call gives back the request and reply buffers it allocated: a   *)
(* thread between calls holds none.                                       *)
(***************************************************************************)
HeapReleased ==
  \A t \in Threads : pc[t] = "idle" => heap[t] = 0
====

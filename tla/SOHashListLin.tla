---------------------------- MODULE SOHashListLin ----------------------------
(***************************************************************************)
(* The lock-free list implements the atomic set of SOHashSet.              *)
(*                                                                         *)
(* Refinement mapping: the set is the keys of the regular nodes reachable *)
(* from the bucket sentinel (a node marked by sohash_list_delete is still *)
(* in the set: a delete whose unlink CAS fails unmarks it again).  An     *)
(* insert takes effect at its successful CAS on *prev (InsCas), a delete  *)
(* at its successful unlink CAS (DelUnlink).  A call that changes nothing *)
(* may take effect at any moment of its interval, which the history       *)
(* variable "seen" records: the presences of the call's key in the set   *)
(* since the call began.                                                  *)
(***************************************************************************)
EXTENDS SOHashList

VARIABLE seen   \* history: seen[t] for the call thread t is running

AbsSet == {key[a] : a \in Reachable \ {HeadAddr}}

\* The insert has linked its node, or the delete has unlinked its node,
\* and the thread has not yet returned.
Linked(t) ==
  \/ lc[t].kind = "insert" /\ lc[t].res = "OK"
  \/ /\ lc[t].kind = "delete"
     /\ \/ pc[t] \in {"retire", "scan_collect", "panic_plist", "oops", "del_count",
                      "panic_count"}
        \/ pc[t] \in {"list_exit", "release"} /\ lc[t].res = "OK"

AbsPhase(t) ==
  IF pc[t] = "idle" THEN "idle" ELSE IF Linked(t) THEN "done" ELSE "pending"

AbsOp ==
  [t \in Threads |->
     [kind  |-> lc[t].kind, key |-> lc[t].key, phase |-> AbsPhase(t),
      res   |-> IF pc[t] = "idle" THEN lc[t].res ELSE "none",
      seen  |-> seen[t]]]

S == INSTANCE SOHashSet WITH set <- AbsSet, op <- AbsOp

\* Each step adds to seen[t] the presence of t's key after the step; a
\* call starts with an empty history and a return clears it.
SeenNext ==
  seen' = [t \in Threads |->
             IF pc'[t] = "idle" THEN {}
             ELSE (IF pc[t] = "idle" THEN {} ELSE seen[t])
                  \cup {S!Presence(lc'[t].key, AbsSet')}]

LinInit == Init /\ seen = [t \in Threads |-> {}]

LinSpec == LinInit /\ [][Next /\ SeenNext]_<<vars, seen>>

\* sohash_insert_entry, sohash_delete_entry and sohash_find_entry are
\* linearizable: under every interleaving of the list's CAS loops, their
\* hazard-pointer validations and retries, the results the threads get
\* are those of an atomic set in which each call takes effect at one
\* moment between its call and its return.
Linearizable == S!Spec
=============================================================================

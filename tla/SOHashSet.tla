------------------------------ MODULE SOHashSet ------------------------------
(***************************************************************************)
(* What the split-ordered hash table promises its callers: a set of keys  *)
(* on which sohash_insert_entry, sohash_delete_entry and sohash_find_entry *)
(* behave as if each took effect atomically at one moment between its    *)
(* call and its return.                                                    *)
(*                                                                         *)
(* A call is "pending" from its invocation to its return.  An insert that *)
(* adds its key, and a delete that removes it, take effect in one atomic  *)
(* step (the operation is then "done").  An operation that changes       *)
(* nothing (a find, an insert failing with EEXIST, a delete failing with  *)
(* ENOENT) may take effect at any moment of its interval, so its result  *)
(* must match the key's presence at some moment since its call: "seen"    *)
(* records the presences the key has had in that interval.  Any call may *)
(* fail with ENOMEM without changing the set.                             *)
(***************************************************************************)
EXTENDS FiniteSets

CONSTANTS Threads, Keys

VARIABLES
  set,   \* the keys in the table
  op     \* op[t]: thread t's current or last call

Ops     == {"insert", "delete", "find"}
Results == {"none", "OK", "EEXIST", "ENOENT", "ENOMEM", "FOUND", "NOTFOUND"}
Phases  == {"idle", "pending", "done"}

\* Whether k is in s, as a call records it.
Presence(k, s) == IF k \in s THEN "present" ELSE "absent"

vars == <<set, op>>

Init ==
  /\ set = {}
  /\ op \in [Threads -> [kind : Ops, key : Keys, phase : {"idle"},
                         res : {"none"}, seen : {{}}]]

\* After a change of the set, every call in progress notes its key's
\* presence.
Observe(s) ==
  [t \in Threads |->
     IF op[t].phase # "idle"
     THEN [op[t] EXCEPT !.seen = @ \cup {Presence(op[t].key, s)}]
     ELSE op[t]]

Call(t, kind, k) ==
  /\ op[t].phase = "idle"
  /\ op' = [op EXCEPT ![t] = [kind |-> kind, key |-> k, phase |-> "pending",
                              res |-> "none", seen |-> {Presence(k, set)}]]
  /\ UNCHANGED set

\* The atomic step of a successful insert or delete.
Add(t) ==
  /\ op[t].phase = "pending" /\ op[t].kind = "insert"
  /\ op[t].key \notin set
  /\ set' = set \cup {op[t].key}
  /\ op' = [Observe(set') EXCEPT ![t].phase = "done"]

Remove(t) ==
  /\ op[t].phase = "pending" /\ op[t].kind = "delete"
  /\ op[t].key \in set
  /\ set' = set \ {op[t].key}
  /\ op' = [Observe(set') EXCEPT ![t].phase = "done"]

\* <<call, presence of its key, result>> of the calls that change nothing.
ReadResults ==
  {<<"insert", "present", "EEXIST">>, <<"delete", "absent", "ENOENT">>,
   <<"find", "present", "FOUND">>, <<"find", "absent", "NOTFOUND">>}

\* The results a call may return: OK once it is done; otherwise ENOMEM,
\* or the result matching its key's presence at a moment it has seen.
Allowed(o) ==
  IF o.phase = "done" THEN {"OK"}
  ELSE {"ENOMEM"} \cup {r[3] : r \in {x \in ReadResults : x[1] = o.kind /\ x[2] \in o.seen}}

Return(t) ==
  /\ op[t].phase \in {"pending", "done"}
  /\ \E r \in Allowed(op[t]) :
       op' = [op EXCEPT ![t].phase = "idle", ![t].res = r, ![t].seen = {}]
  /\ UNCHANGED set

Next == \E t \in Threads :
          \/ \E kind \in Ops, k \in Keys : Call(t, kind, k)
          \/ Add(t) \/ Remove(t) \/ Return(t)

Spec == Init /\ [][Next]_vars
=============================================================================

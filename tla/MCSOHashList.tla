---------------------------- MODULE MCSOHashList ----------------------------
(* Model-checking instance of SOHashList: model values for threads,       *)
(* node addresses and hazard records, and two reverse keys.                *)
EXTENDS SOHashList, TLC

CONSTANTS t1, t2, a1, a2, a3, a4, a5, a6, a7, r0, r1

MCThreads == {t1, t2}
MCAddrs   == {a1, a2}
MCRecs    == {r0, r1}
MCKeys    == {1, 3}
AnyCall   == Ops \X MCKeys
MCWorkload == [t \in MCThreads |-> <<AnyCall, AnyCall>>]
AddrSymmetry == Permutations(MCAddrs)

\* sohash_alloc_node may return any free address.
AnyFree(F) == F

\* Reclamation: sohash_hprec_scan runs once a record has retired
\* hazard_ptrs_total nodes: 3 while t1 holds the only record, 6 once t2
\* has allocated the second.  t1 inserts and deletes key 1 twice and then
\* key 3, two times over, while t2 searches for key 1 once.  The scans
\* start at a retire of key 3, when t1's own hazard pointers protect only
\* key 3: the retired nodes of key 1 stay allocated only if the scan
\* honours t2's hazard pointers.
SmrAddrs  == {a1, a2, a3, a4, a5, a6, a7}
InsDel    == <<{<<"insert", 1>>}, {<<"delete", 1>>}>>
InsDel3   == <<{<<"insert", 3>>}, {<<"delete", 3>>}>>
SmrRound  == InsDel \o InsDel \o InsDel3
SmrWorkload == [t \in MCThreads |->
                  IF t = t1 THEN SmrRound \o SmrRound
                  ELSE <<{<<"find", 1>>}>>]
\* The reclamation runs fix the allocator's order (the first free address
\* of AddrOrder) instead of using symmetry: freed addresses are still
\* reused, the earliest first.
AddrOrder == <<a1, a2, a3, a4, a5, a6, a7>>
FirstFree(F) ==
  {AddrOrder[CHOOSE i \in DOMAIN AddrOrder :
               /\ AddrOrder[i] \in F
               /\ \A j \in 1..(i - 1) : AddrOrder[j] \notin F]}

\* sohash_hp_get race: t2 inserts key 3 and then searches for it, its
\* search starting while t1, holding the only other record, retires its
\* third node.
RaceAddrs    == {a1, a2, a3, a4}
RaceWorkload == [t \in MCThreads |->
                   IF t = t1 THEN InsDel \o InsDel \o InsDel
                   ELSE <<{<<"insert", 3>>}, {<<"find", 3>>}>>]
\* The main run: t1 inserts and deletes key 1 twice while t2 twice inserts
\* or deletes key 1 and then makes any call: two deleters race on the same
\* node, and the retires of both threads' records reach
\* hazard_ptrs_total, so scans run.
MainAddrs    == {a1, a2, a3, a4}
InsOrDel     == {<<"insert", 1>>, <<"delete", 1>>}
MainWorkload == [t \in MCThreads |->
                   IF t = t1 THEN InsDel \o InsDel
                   ELSE <<InsOrDel, InsOrDel, AnyCall>>]
MainSymmetry == Permutations(MainAddrs)
=============================================================================

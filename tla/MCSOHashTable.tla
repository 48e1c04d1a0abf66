--------------------------- MODULE MCSOHashTable ---------------------------
(* Model-checking instance of SOHashTable: 4-bit keys, one segment of     *)
(* four buckets, two threads, two hazard records.                          *)
EXTENDS SOHashTable, TLC

CONSTANTS t1, t2, a1, a2, a3, a4, a5, a6, a7, a8, r0, r1

MCThreads == {t1, t2}
MCRecs    == {r0, r1}
MCAddrs   == {a1, a2, a3, a4, a5, a6, a7, a8}

\* sohash_alloc_node returns the first free address of AddrOrder.
AddrOrder == <<a1, a2, a3, a4, a5, a6, a7, a8>>
FirstFree(F) ==
  IF F = {} THEN {}
  ELSE {AddrOrder[CHOOSE i \in DOMAIN AddrOrder :
                    /\ AddrOrder[i] \in F
                    /\ \A j \in 1..(i - 1) : AddrOrder[j] \notin F]}

Call(op, k) == {<<op, k>>}

\* t1 inserts four even keys, all of bucket 0, which doubles the size from
\* 2 to 4, and deletes key 2 (bucket 2) or 3 (bucket 3); t2 searches for a
\* key of bucket 1 and one of bucket 3, whose parent is bucket 1, and then
\* cleans the table up.  Keys stay below 2^(W-1) so no two collide.
MainWorkload ==
  [t \in MCThreads |->
     IF t = t1
     THEN <<Call("insert", 2), Call("insert", 4), Call("insert", 6),
            Call("insert", 0), {<<"delete", 2>>, <<"delete", 3>>}>>
     ELSE <<Call("find", 5), Call("find", 3), Call("cleanup", 0)>>]

\* t1 inserts four keys, which doubles the size to 4, and cleans the table
\* up, while t2 searches for key 3, whose buckets 3 and 1 are not yet
\* initialised.
RaceWorkload ==
  [t \in MCThreads |->
     IF t = t1
     THEN <<Call("insert", 1), Call("insert", 2), Call("insert", 4),
            Call("insert", 6), Call("cleanup", 0)>>
     ELSE <<Call("find", 3)>>]

\* t1 inserts five keys into a table of one segment of two buckets: the
\* fourth insert doubles the size to 4, and key 3 then hashes to bucket 3.
ResizeWorkload ==
  [t \in MCThreads |->
     IF t = t1
     THEN <<Call("insert", 1), Call("insert", 2), Call("insert", 4),
            Call("insert", 6), Call("insert", 3)>>
     ELSE <<>>]

\* t1 deletes key 1, whose bucket 1 is not yet initialised, and then
\* searches for it; t2 searches for key 3 of the same bucket.
LeakWorkload ==
  [t \in MCThreads |->
     IF t = t1 THEN <<Call("delete", 1), Call("find", 1)>>
     ELSE <<Call("find", 3)>>]
=============================================================================

--------------------------- MODULE MCSOHashListLin ---------------------------
(* The list of MCSOHashList with the history variable of SOHashListLin,  *)
(* for checking the refinement of SOHashSet.                              *)
EXTENDS SOHashListLin, MCSOHashList

\* Lost insert: t1 inserts and deletes key 1 while t2 inserts key 3, whose
\* predecessor is key 1's node.
LostWorkload == [t \in MCThreads |->
                   IF t = t1 THEN InsDel ELSE <<{<<"insert", 3>>}>>]
=============================================================================

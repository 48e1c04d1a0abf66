----------------------------- MODULE MCViewClnt -----------------------------
(* Model values and bounds for checking ViewClnt with TLC. *)
EXTENDS ViewClnt, TLC

CONSTANTS t1, t2, d1, d2, o1, o2, n1, h1

MCThreads == {t1, t2}
MCDirs    == {d1, d2}
MCObjs    == {o1, o2}
MCNames   == {n1, h1}
MCHmNames == {h1}

\* Threads, directories and objects are interchangeable: the model never
\* picks one of them with CHOOSE.  Names are not (h1 is history-mode).
MCSymmetry == Permutations(MCThreads) \cup Permutations(MCDirs)
                \cup Permutations(MCObjs)
====

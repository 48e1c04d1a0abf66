----------------------------- MODULE SOHashKeys -----------------------------
(***************************************************************************)
(* The array routines sohash_hprec_scan uses to decide which retired      *)
(* nodes a hazard pointer still protects (src/mvfs_sohash_table.c):       *)
(* sohash_sort_arr, an insertion sort of the plist array, and             *)
(* sohash_search_arr, a recursive binary search in it.                     *)
(*                                                                         *)
(* A C array arr[0..count-1] is a function on 0..count-1.  The sort's     *)
(* inner loop tests temp < arr[j] before j >= 0, so it reads arr[-1],     *)
(* the word just below the array; that read is out of bounds and may     *)
(* return anything, so sohash_sort_arr takes the value it returns as a   *)
(* parameter, "below", and a property quantifies over it.                 *)
(***************************************************************************)
EXTENDS Integers

SOHASH_NOT_FOUND == 0
SOHASH_FOUND     == 1

\* Mutant of SortShift: the loop stops at j > 0 and never moves an
\* entry into arr[0].
RECURSIVE SortShiftNoFirst(_, _, _)
SortShiftNoFirst(arr, j, temp) ==
  IF temp < arr[j] /\ j > 0
  THEN SortShiftNoFirst([arr EXCEPT ![j + 1] = arr[j]], j - 1, temp)
  ELSE [arr EXCEPT ![j + 1] = temp]

\* The inner while loop: shift the entries greater than temp up by one
\* and store temp in the gap.
RECURSIVE SortShift(_, _, _)
SortShift(arr, j, temp) ==
  IF temp < arr[j] /\ j >= 0
  THEN SortShift([arr EXCEPT ![j + 1] = arr[j]], j - 1, temp)
  ELSE [arr EXCEPT ![j + 1] = temp]

\* The outer for loop, from i to count - 1.
RECURSIVE SortPass(_, _, _)
SortPass(arr, i, count) ==
  IF i < count THEN SortPass(SortShift(arr, i - 1, arr[i]), i + 1, count)
  ELSE arr

\* sohash_sort_arr(arr, count), the read of arr[-1] returning "below".
sohash_sort_arr(arr, count, below) ==
  LET withBelow == [i \in -1..(count - 1) |-> IF i = -1 THEN below ELSE arr[i]]
      sorted    == SortPass(withBelow, 1, count)
  IN  [i \in 0..(count - 1) |-> sorted[i]]

\* sohash_search_arr(arr, rev_sokey, low, high).
RECURSIVE sohash_search_arr(_, _, _, _)
sohash_search_arr(arr, rev_sokey, low, high) ==
  IF high < low THEN SOHASH_NOT_FOUND
  ELSE LET mid == low + (high - low) \div 2
       IN  CASE arr[mid] < rev_sokey -> sohash_search_arr(arr, rev_sokey, mid + 1, high)
             [] arr[mid] > rev_sokey -> sohash_search_arr(arr, rev_sokey, low, mid - 1)
             [] OTHER                -> SOHASH_FOUND
=============================================================================

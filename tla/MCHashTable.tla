----------------------------- MODULE MCHashTable -----------------------------
(* Three wheels of two slots (four of 64 in the code), an entry's life of two
   seconds of one unit; direct timers up to nine units, beyond the seven that the
   wheels tell apart. *)
EXTENDS HashTable, TLC
CONSTANTS t1, t2, t3, k1, k2
MCTimeout == {t1, t2, t3}
MCDirect == {t1, t2}
MCKey == {k1, k2}
Symmetry == Permutations(MCKey) \cup Permutations(MCDirect)
=============================================================================

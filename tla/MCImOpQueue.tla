---------------------------- MODULE MCImOpQueue ----------------------------
(* Three API threads and the reader. *)
EXTENDS ImOpQueue
CONSTANTS t1, t2, t3
MCThreads == {t1, t2, t3}
=============================================================================

---------------------------- MODULE MCStorjutpPy ----------------------------
(* Small instances of StorjutpPy for TLC.                                  *)
EXTENDS StorjutpPy, TLC

Symmetry == Permutations(Caller) \cup Permutations(Thread)
=============================================================================

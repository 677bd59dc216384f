----------------------------- MODULE MCStorjutp -----------------------------
(* Small instances of Storjutp for TLC.                                    *)
EXTENDS Storjutp, TLC

Symmetry == Permutations(Hash) \cup Permutations(Sock)
=============================================================================

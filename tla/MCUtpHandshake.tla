--------------------------- MODULE MCUtpHandshake ---------------------------
(* Small instances of UtpHandshake for TLC.                                *)
EXTENDS UtpHandshake, TLC

Symmetry == Permutations(End)

(* Bound: two packets under way or refused, and RSTs besides               *)
TwoPackets ==
  Cardinality({p \in net : p.type # "RESET"})
    + Cardinality(UNION {rst_info[e] : e \in End}) <= 2

(* Bound: the first connection to be made has the lower seed.              *)
FirstSeed == connects = 1 => \A e \in End : \A s \in sockets[e] : s.recv < 2
=============================================================================

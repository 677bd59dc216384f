---------------------------- MODULE MCUtpContext ----------------------------
(* Small instances of UtpContext for TLC.                                  *)
EXTENDS UtpContext

(* Bound: new memory for a socket is the one named like its key; there are *)
(* three sockets, and three acks that are due or sockets that are over.    *)
OwnMemory == \A s \in Live : sock[s].key = s

Three ==
  /\ Cardinality(Live) <= 3
  /\ Len(ack_sockets) + Cardinality({s \in Live : sock[s].over}) <= 3
=============================================================================

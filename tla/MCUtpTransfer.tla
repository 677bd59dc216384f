--------------------------- MODULE MCUtpTransfer ---------------------------
(* A small instance of UtpTransfer for TLC: sequence numbers wrap after    *)
(* two packets.                                                            *)
EXTENDS UtpTransfer

AtWrap == Modulus - 2

(* Bound: three writes are sent with a search for the MTU; without one, six *)
(* packets, full and sent at once.                                         *)
Bounded ==
  IF snd.udp_mtu > LeastMtu THEN snd.written <= 3
  ELSE ~snd.due /\ \A p \in Held(snd.outbuf) : p.sent /\ p.length = snd.mtu_last
=============================================================================

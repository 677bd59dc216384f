----------------------------- MODULE MCUtpStream ----------------------------
(* Small instances of UtpStream for TLC: only "a" has data to send, and its *)
(* sequence numbers wrap after the first packet.                           *)
EXTENDS UtpStream

OneWay(n) == [e \in End |-> IF e = "a" THEN n ELSE 0]
Three     == {OneWay(3)}
TwoThree  == {OneWay(2), OneWay(3)}
Near      == [e \in End |-> Modulus - 1]

Amount == sock["a"].written + sock["a"].left

(* An application closes before it is done: "a" with bytes left, "b"       *)
(* before the EOF.                                                         *)
Stops == \/ sock["a"].state = "FIN_SENT" /\ sock["a"].left > 0
         \/ sock["b"].state = "FIN_SENT"

Lives(e) == sock[e].state \in Connected \cup {"FIN_SENT"}

(* Bound: three bytes are sent to the end, with two packets under way, and *)
(* an acknowledgement besides two of "a".  Of two bytes, either end may    *)
(* stop, with a packet each way while both sockets live, and one after.    *)
Bounded ==
  LET data == Cardinality(net["b"])
      acks == Cardinality(net["a"])
  IN  CASE Amount = 3              -> ~Stops /\ data + acks <= IF acks <= 1 THEN 3 ELSE 2
        [] \A e \in End : Lives(e) -> data <= 1 /\ acks <= 1
        [] OTHER                   -> data + acks <= 1
=============================================================================

-------------------------- MODULE UtpStream_proofs --------------------------
(***************************************************************************)
(* Proofs about an established connection: whatever arrives, is lost or    *)
(* times out, the window and the reorder buffer of each socket agree with  *)
(* their counters.                                                         *)
(***************************************************************************)
EXTENDS UtpStream, Basics, FiniteSetTheorems, FunctionTheorems, SequenceTheorems, TLAPS

-----------------------------------------------------------------------------
(* A socket on its own                                                     *)

Number == 0..(Modulus - 1)

Message == [type: {"STATE", "DATA", "FIN", "RESET"}, seq: Number, ack: Number,
            data: Seq(Nat), sack: SUBSET Number]

Socket ==
  [state: State, seq_nr: Number, ack_nr: Number, outbuf: Seq(Packet \cup {NULL}),
   cur_window: Int, max_window: 0..Window, fast_resend_seq_nr: Number, fast_timeout: BOOLEAN,
   retransmit_count: Nat, inbuf: SUBSET [seq: Number, data: Seq(Nat)], reorder_count: Int,
   got_fin: BOOLEAN, eof_pkt: Number, ack_due: BOOLEAN, left: Nat, written: Nat,
   read: Seq(Nat), eof: BOOLEAN, failed: BOOLEAN, sent: SUBSET Message]

LEMMA ModNumber == \A n \in Int : Mod(n) \in Number
BY SeqAssumption DEF Mod, Number

(* Numbers that differ by a multiple of Modulus are the same one.          *)
LEMMA Congruent ==
  ASSUME NEW a \in Int, NEW b \in Int, NEW q \in Int, a = b + Modulus * q PROVE Mod(a) = Mod(b)
BY SeqAssumption, CongruentMod DEF Mod

LEMMA Quotient == ASSUME NEW a \in Int PROVE \E q \in Int : a = Modulus * q + Mod(a)
BY SeqAssumption, Division DEF Mod

LEMMA Small ==
  /\ \A d \in 0..(Modulus - 1) : Mod(d) = d
  /\ \A d \in (-Modulus)..(-1) : Mod(d) = d + Modulus
BY SeqAssumption, SmallMod DEF Mod

LEMMA NextOf ==
  ASSUME NEW a \in Number PROVE Mod(a + 1) = IF a + 1 = Modulus THEN 0 ELSE a + 1
<1>0. Modulus \in Nat \ {0} /\ a \in Int
  BY SeqAssumption DEF Number
<1>1. CASE a + 1 # Modulus
  <2>1. a + 1 \in 0..(Modulus - 1)
    BY <1>0, <1>1 DEF Number
  <2> QED BY <1>1, <2>1, Small
<1>2. CASE a + 1 = Modulus
  <2>1. a + 1 = 0 + Modulus * 1 /\ 0 \in 0..(Modulus - 1)
    BY <1>0, <1>2
  <2>2. Mod(a + 1) = Mod(0)
    BY <1>0, <2>1, Congruent
  <2> QED BY <1>2, <2>1, <2>2, Small
<1> QED BY <1>1, <1>2

(* How far b is past the number after a                                    *)
LEMMA AheadOf ==
  ASSUME NEW a \in Number, NEW b \in Number
  PROVE  Mod(b - a - 1) = IF b > a THEN b - a - 1 ELSE b - a - 1 + Modulus
<1>0. Modulus \in Nat \ {0} /\ a \in Int /\ b \in Int
  BY SeqAssumption DEF Number
<1>1. CASE b > a
  <2>1. b - a - 1 \in 0..(Modulus - 1)
    BY <1>0, <1>1 DEF Number
  <2> QED BY <1>1, <2>1, Small
<1>2. CASE b <= a
  <2>1. b - a - 1 \in (-Modulus)..(-1)
    BY <1>0, <1>2 DEF Number
  <2>2. ~(b > a)
    BY <1>0, <1>2
  <2> QED BY <2>1, <2>2, Small
<1> QED BY <1>0, <1>1, <1>2

LEMMA ModFacts ==
  ASSUME NEW a \in Number, NEW b \in Number PROVE Mod(b - a - 1) = 0 <=> b = Mod(a + 1)
<1>0. Modulus \in Nat \ {0} /\ a \in Int /\ b \in Int
  BY SeqAssumption DEF Number
<1> QED BY <1>0, NextOf, AheadOf DEF Number

(* Two numbers as far past a third are the same.                           *)
LEMMA SameAhead ==
  ASSUME NEW a \in Number, NEW b \in Number, NEW c \in Number, Mod(b - a - 1) = Mod(c - a - 1)
  PROVE  b = c
<1>0. Modulus \in Nat \ {0} /\ a \in Int /\ b \in Int /\ c \in Int
  BY SeqAssumption DEF Number
<1> QED BY <1>0, AheadOf DEF Number

(* What is not next is one nearer when the next has come.                  *)
LEMMA AheadOfNext ==
  ASSUME NEW a \in Number, NEW b \in Number, Mod(b - a - 1) # 0
  PROVE  Mod(b - Mod(a + 1) - 1) = Mod(b - a - 1) - 1
<1>0. Modulus \in Nat \ {0} /\ a \in Int /\ b \in Int
  BY SeqAssumption DEF Number
<1> DEFINE c == IF a + 1 = Modulus THEN 0 ELSE a + 1
<1>1. c \in Number
  BY <1>0 DEF Number
<1>2. Mod(b - c - 1) = IF b > c THEN b - c - 1 ELSE b - c - 1 + Modulus
  BY <1>1, AheadOf
<1> QED BY <1>0, <1>2, NextOf, AheadOf DEF Number

(* A packet that is under way and has not been given up as lost            *)
InFlight(out) ==
  {i \in DOMAIN out : /\ out[i] # NULL /\ out[i].transmissions > 0
                      /\ ~out[i].need_resend /\ Len(out[i].data) = 1}

(* There is room for what is sent next, the FIN at least.                  *)
Room(s) == Len(s.outbuf) <= OutMax /\ (s.state \in Connected => Len(s.outbuf) < OutMax)

(* The packets of the reorder buffer that wait for at least low others     *)
Between(s, low) == {p \in s.inbuf : Mod(p.seq - s.ack_nr - 1) \in low..(ReorderMax - 1)}

(* The reorder buffer has one packet of a number, and within reach no      *)
(* fewer than are counted.                                                 *)
Inbox(s, low) ==
  /\ \A p, q \in s.inbuf : p.seq = q.seq => p = q
  /\ s.reorder_count \in Nat /\ s.reorder_count <= Cardinality(Between(s, low))

(* Sockets whose counters agree with their buffers                         *)
Counting ==
  {s \in Socket :
     /\ s.cur_window = Cardinality(InFlight(s.outbuf)) /\ IsFiniteSet(s.inbuf)
     /\ Room(s) /\ Inbox(s, 1)
     /\ s.state \in Connected =>
          /\ s.reorder_count = Cardinality(s.inbuf)
          /\ \A p \in s.inbuf : p.seq # Mod(s.ack_nr + 1)}

(* and whose oldest packet is unacknowledged                               *)
Good == {s \in Counting : s.outbuf # << >> => s.outbuf[1] # NULL}

(* t is s but for its sending half.                                        *)
SameReceiver(s, t) ==
  /\ t.inbuf = s.inbuf /\ t.reorder_count = s.reorder_count /\ t.ack_nr = s.ack_nr
  /\ t.state \in Connected => s.state \in Connected

(* t is s but for its window and timers.                                   *)
Kept(s, t) ==
  /\ t.state = s.state /\ t.seq_nr = s.seq_nr /\ t.written = s.written /\ t.left = s.left
  /\ t.ack_nr = s.ack_nr /\ t.inbuf = s.inbuf /\ t.reorder_count = s.reorder_count
  /\ t.got_fin = s.got_fin /\ t.eof_pkt = s.eof_pkt
  /\ t.read = s.read /\ t.eof = s.eof /\ t.failed = s.failed

LEMMA KeptSelf == ASSUME NEW s PROVE Kept(s, s) /\ SameReceiver(s, s)
BY DEF Kept, SameReceiver

LEMMA KeptTrans == ASSUME NEW s, NEW t, NEW u, Kept(s, t), Kept(t, u) PROVE Kept(s, u)
BY DEF Kept

LEMMA KeptReceiver == ASSUME NEW s, NEW t, Kept(s, t) PROVE SameReceiver(s, t) /\ t.state = s.state
BY DEF Kept, SameReceiver

LEMMA SameReceiverTrans ==
  ASSUME NEW s, NEW t, NEW u, SameReceiver(s, t), SameReceiver(t, u) PROVE SameReceiver(s, u)
BY DEF SameReceiver

LEMMA SameInbox ==
  ASSUME NEW s, NEW t, SameReceiver(s, t), NEW low, Inbox(s, low) PROVE Inbox(t, low)
<1>1. Between(t, low) = Between(s, low)
  BY DEF SameReceiver, Between
<1> QED BY <1>1 DEF SameReceiver, Inbox

LEMMA SenderWithRoom ==
  ASSUME NEW s \in Counting, NEW t \in Socket, SameReceiver(s, t), Room(t),
         t.cur_window = Cardinality(InFlight(t.outbuf))
  PROVE  t \in Counting
<1>1. Inbox(t, 1)
  BY SameInbox DEF Counting
<1> QED BY <1>1 DEF Counting, SameReceiver

LEMMA Outbuf ==
  ASSUME NEW s \in Socket
  PROVE  /\ s.outbuf \in Seq(Packet \cup {NULL}) /\ Len(s.outbuf) \in Nat
         /\ DOMAIN s.outbuf = 1..Len(s.outbuf)
         /\ \A i \in DOMAIN s.outbuf : s.outbuf[i] # NULL => s.outbuf[i] \in Packet
         /\ Oldest(s) \in Number
<1>1. s.outbuf \in Seq(Packet \cup {NULL}) /\ s.seq_nr \in Number
  BY DEF Socket
<1>2. Len(s.outbuf) \in Nat /\ DOMAIN s.outbuf = 1..Len(s.outbuf)
  BY <1>1
<1>3. s.seq_nr - Len(s.outbuf) \in Int
  BY <1>1, <1>2 DEF Number
<1>4. Oldest(s) \in Number
  BY <1>3, ModNumber DEF Oldest, Packets
<1> QED BY <1>1, <1>2, <1>4

LEMMA SenderOnly ==
  ASSUME NEW s \in Counting, NEW t \in Socket, SameReceiver(s, t),
         Len(t.outbuf) <= Len(s.outbuf), t.cur_window = Cardinality(InFlight(t.outbuf))
  PROVE  t \in Counting
<1>1. Len(s.outbuf) \in Nat /\ Len(t.outbuf) \in Nat /\ OutMax \in Nat
  BY Outbuf, LimitAssumption DEF Counting
<1>2. Room(t)
  BY <1>1 DEF Counting, Room, SameReceiver
<1> QED BY <1>2, SenderWithRoom

LEMMA FlightFinite ==
  ASSUME NEW s \in Socket
  PROVE  /\ IsFiniteSet(InFlight(s.outbuf)) /\ Cardinality(InFlight(s.outbuf)) \in Nat
         /\ InFlight(s.outbuf) \subseteq 1..Len(s.outbuf)
<1>1. Len(s.outbuf) \in Nat /\ InFlight(s.outbuf) \subseteq 1..Len(s.outbuf)
  BY Outbuf DEF InFlight
<1> QED BY <1>1, Interval, FS_Subset, FS_CardinalityType

LEMMA SendDataGood ==
  ASSUME NEW s \in Counting, NEW m \in Message
  PROVE  /\ SendData(s, m) \in Counting /\ SendData(s, m).outbuf = s.outbuf
         /\ Kept(s, SendData(s, m))
<1> DEFINE t == SendData(s, m)
<1>1. t \in Socket /\ t.outbuf = s.outbuf /\ t.cur_window = s.cur_window /\ Kept(s, t)
  BY DEF Socket, SendData, Counting, Kept
<1>2. s.cur_window = Cardinality(InFlight(s.outbuf)) /\ Len(s.outbuf) \in Nat
  BY Outbuf DEF Counting
<1> HIDE DEF t
<1>3. t.cur_window = Cardinality(InFlight(t.outbuf))
  BY <1>1, <1>2
<1>4. t \in Counting
  BY <1>1, <1>2, <1>3, KeptReceiver, SenderOnly
<1> QED BY <1>1, <1>4 DEF t

(* What becomes of the packets under way when one place changes            *)
LEMMA FlightChanged ==
  ASSUME NEW s \in Socket, NEW i \in DOMAIN s.outbuf, NEW q \in Packet \cup {NULL}
  PROVE  LET out   == [s.outbuf EXCEPT ![i] = q]
             new   == q # NULL /\ q.transmissions > 0 /\ ~q.need_resend /\ Len(q.data) = 1
         IN  /\ out \in Seq(Packet \cup {NULL}) /\ Len(out) = Len(s.outbuf)
             /\ Cardinality(InFlight(out)) =
                  Cardinality(InFlight(s.outbuf)) + (IF new THEN 1 ELSE 0)
                    - (IF i \in InFlight(s.outbuf) THEN 1 ELSE 0)
<1> DEFINE out == [s.outbuf EXCEPT ![i] = q]
           new == q # NULL /\ q.transmissions > 0 /\ ~q.need_resend /\ Len(q.data) = 1
           T == InFlight(s.outbuf)
<1>1. s.outbuf \in Seq(Packet \cup {NULL}) /\ i \in 1..Len(s.outbuf) /\ Len(s.outbuf) \in Nat
  BY Outbuf
<1>2. out \in Seq(Packet \cup {NULL}) /\ Len(out) = Len(s.outbuf)
  BY <1>1
<1>3. DOMAIN out = DOMAIN s.outbuf /\ out[i] = q
      /\ \A j \in DOMAIN s.outbuf : j # i => out[j] = s.outbuf[j]
  BY <1>1
<1>4. InFlight(out) = (T \ {i}) \cup (IF new THEN {i} ELSE {})
  <2> HIDE DEF out
  <2> QED BY <1>3 DEF InFlight
<1>5. IsFiniteSet(T) /\ Cardinality(T) \in Nat
  BY FlightFinite
<1> HIDE DEF T, out
<1>6. IsFiniteSet(T \ {i}) /\ Cardinality(T \ {i}) = Cardinality(T) - (IF i \in T THEN 1 ELSE 0)
  BY <1>5, FS_RemoveElement
<1>7. Cardinality(InFlight(out)) = Cardinality(T \ {i}) + (IF new THEN 1 ELSE 0)
  <2>1. CASE new
    <3> HIDE DEF new
    <3>1. i \notin T \ {i}
      OBVIOUS
    <3>2. Cardinality((T \ {i}) \cup {i}) = Cardinality(T \ {i}) + 1
      BY <1>6, <3>1, FS_AddElement
    <3> QED BY <2>1, <1>4, <3>2
  <2>2. CASE ~new
    <3> HIDE DEF new
    <3>1. InFlight(out) = T \ {i}
      BY <2>2, <1>4
    <3>2. Cardinality(T \ {i}) \in Int
      BY <1>5, <1>6
    <3> QED BY <2>2, <3>1, <3>2
  <2> QED BY <2>1, <2>2
<1> HIDE DEF new
<1>8. Cardinality(InFlight(out)) = Cardinality(T) + (IF new THEN 1 ELSE 0) - (IF i \in T THEN 1 ELSE 0)
  BY <1>5, <1>6, <1>7
<1> QED BY <1>2, <1>8 DEF T, out, new

-----------------------------------------------------------------------------
(* Sending                                                                 *)

LEMMA PacketFields ==
  ASSUME NEW p \in Packet
  PROVE  /\ p.type \in {"DATA", "FIN"} /\ p.data \in Seq(Nat) /\ Len(p.data) \in {0, 1}
         /\ p.transmissions \in 0..2 /\ p.need_resend \in BOOLEAN
<1>1. p.data \in {d \in Seq(Nat) : Len(d) <= 1}
  BY DEF Packet
<1>2. p.data \in Seq(Nat) /\ Len(p.data) \in Nat /\ Len(p.data) <= 1
  BY <1>1
<1>3. Len(p.data) \in {0, 1}
  <2> DEFINE n == Len(p.data)
  <2>1. n \in Nat /\ n <= 1
    BY <1>2
  <2> HIDE DEF n
  <2>2. n = 0 \/ n = 1
    BY <2>1
  <2> QED BY <2>2 DEF n
<1>4. p.type \in {"DATA", "FIN"} /\ p.transmissions \in 0..2 /\ p.need_resend \in BOOLEAN
  BY DEF Packet
<1> QED BY <1>2, <1>3, <1>4

LEMMA PacketChanged ==
  ASSUME NEW p \in Packet, NEW n \in 0..2, NEW b \in BOOLEAN
  PROVE  LET q == [p EXCEPT !.need_resend = b, !.transmissions = n]
         IN  q \in Packet /\ q.data = p.data /\ q.transmissions = n /\ q.need_resend = b
BY DEF Packet

(* The same places of the window are empty.                                *)
SamePlaces(s, t) ==
  /\ Len(t.outbuf) = Len(s.outbuf)
  /\ \A j \in 1..Len(s.outbuf) : t.outbuf[j] = NULL <=> s.outbuf[j] = NULL

LEMMA SamePlacesGood ==
  ASSUME NEW s \in Good, NEW t \in Counting, SamePlaces(s, t) PROVE t \in Good
<1>1. s \in Socket /\ t \in Socket
  BY DEF Good, Counting
<1>2. s.outbuf # << >> => s.outbuf[1] # NULL
  BY DEF Good
<1>3. ASSUME t.outbuf # << >> PROVE t.outbuf[1] # NULL
  <2>1. Len(t.outbuf) # 0 /\ Len(t.outbuf) \in Nat
    BY <1>1, <1>3, Outbuf
  <2>2. Len(s.outbuf) # 0 /\ s.outbuf # << >> /\ 1 \in 1..Len(s.outbuf)
    BY <1>1, <2>1 DEF SamePlaces
  <2> QED BY <1>2, <2>2 DEF SamePlaces
<1> QED BY <1>3 DEF Good

SentFrom(s, i) ==
  [type |-> s.outbuf[i].type, seq |-> Mod(Oldest(s) + i - 1), ack |-> s.ack_nr,
   data |-> s.outbuf[i].data, sack |-> {}]

LEMMA SendPacketShape ==
  ASSUME NEW s \in Socket, NEW i \in DOMAIN s.outbuf, s.outbuf[i] # NULL
  PROVE  LET t == SendPacket(s, i)
         IN  /\ Kept(s, t) /\ t.sent = s.sent \cup {SentFrom(s, i)}
             /\ Len(t.outbuf) = Len(s.outbuf)
             /\ \A j \in 1..Len(s.outbuf) : j # i => t.outbuf[j] = s.outbuf[j]
             /\ t.outbuf[i].type = s.outbuf[i].type /\ t.outbuf[i].data = s.outbuf[i].data
<1> DEFINE p == s.outbuf[i]
           q == [p EXCEPT !.need_resend = FALSE, !.transmissions = IF @ = 0 THEN 1 ELSE 2]
           out == [s.outbuf EXCEPT ![i] = q]
           w == IF Pending(p) THEN s.cur_window + Len(p.data) ELSE s.cur_window
           m == SentFrom(s, i)
           t == [s EXCEPT !.cur_window = w, !.outbuf = out]
           u == SendPacket(s, i)
<1>1. p \in Packet /\ s.outbuf \in Seq(Packet \cup {NULL}) /\ DOMAIN s.outbuf = 1..Len(s.outbuf)
  BY Outbuf
<1>2. q.type = p.type /\ q.data = p.data
  BY <1>1 DEF Packet
<1>3. u = SendData(t, m)
  BY DEF SendPacket, SentFrom
<1> HIDE DEF q, p
<1>4. /\ out[i] = q /\ Len(out) = Len(s.outbuf)
      /\ \A j \in 1..Len(s.outbuf) : j # i => out[j] = s.outbuf[j]
  BY <1>1
<1> HIDE DEF out, w, m, u
<1>5. u.outbuf = out /\ u.sent = s.sent \cup {m} /\ Kept(s, u)
  BY <1>3 DEF SendData, Kept, Socket
<1>6. u.outbuf[i].type = p.type /\ u.outbuf[i].data = p.data
  BY <1>2, <1>4, <1>5
<1>7. Len(u.outbuf) = Len(s.outbuf) /\ \A j \in 1..Len(s.outbuf) : j # i => u.outbuf[j] = s.outbuf[j]
  BY <1>4, <1>5
<1> QED BY <1>5, <1>6, <1>7 DEF u, p, m

LEMMA SendPacketGood ==
  ASSUME NEW s \in Counting, NEW i \in DOMAIN s.outbuf, s.outbuf[i] # NULL
  PROVE  LET t == SendPacket(s, i)
         IN  t \in Counting /\ SamePlaces(s, t) /\ Kept(s, t)
<1> DEFINE p == s.outbuf[i]
           q == [p EXCEPT !.need_resend = FALSE, !.transmissions = IF @ = 0 THEN 1 ELSE 2]
           out == [s.outbuf EXCEPT ![i] = q]
           m == [type |-> p.type, seq |-> Mod(Oldest(s) + i - 1), ack |-> s.ack_nr,
                 data |-> p.data, sack |-> {}]
           w == IF Pending(p) THEN s.cur_window + Len(p.data) ELSE s.cur_window
           t == [s EXCEPT !.cur_window = w, !.outbuf = out]
<1>0. s \in Socket
  BY DEF Counting
<1>1. p \in Packet /\ s.outbuf \in Seq(Packet \cup {NULL}) /\ i \in Nat /\ i \in 1..Len(s.outbuf)
  BY <1>0, Outbuf
<1>2. q \in Packet /\ q.data = p.data /\ q.transmissions > 0 /\ ~q.need_resend
  <2> DEFINE n == IF p.transmissions = 0 THEN 1 ELSE 2
  <2>1. n \in 0..2 /\ n > 0
    OBVIOUS
  <2>2. q = [p EXCEPT !.need_resend = FALSE, !.transmissions = n]
    BY <1>1 DEF Packet
  <2> DEFINE c == [p EXCEPT !.need_resend = FALSE, !.transmissions = n]
  <2> HIDE DEF n, p, q
  <2>3. c \in Packet /\ c.data = p.data /\ c.transmissions = n /\ c.need_resend = FALSE
    BY <1>1, <2>1, PacketChanged
  <2> HIDE DEF c
  <2> QED BY <2>1, <2>2, <2>3 DEF c
<1>3. q # NULL /\ q \in Packet \cup {NULL}
  BY <1>2, NullAssumption
<1>4. /\ p.type \in {"DATA", "FIN"} /\ p.data \in Seq(Nat) /\ Len(p.data) \in {0, 1}
      /\ p.transmissions \in 0..2 /\ p.need_resend \in BOOLEAN
      /\ s.ack_nr \in Number /\ s.cur_window \in Int
  <2>1. s.ack_nr \in Number /\ s.cur_window \in Int
    BY <1>0 DEF Socket
  <2> HIDE DEF p
  <2> QED BY <1>1, <2>1, PacketFields
<1>5. Mod(Oldest(s) + i - 1) \in Number
  <2>1. Oldest(s) + i - 1 \in Int
    BY <1>0, <1>1, Outbuf DEF Number
  <2> QED BY <2>1, ModNumber
<1>6. m \in Message
  BY <1>4, <1>5 DEF Message
<1>7. w \in Int
  BY <1>4
<1>8. SendPacket(s, i) = SendData(t, m)
  BY DEF SendPacket
<1> HIDE DEF m, q
<1>9. /\ out \in Seq(Packet \cup {NULL}) /\ Len(out) = Len(s.outbuf)
      /\ Cardinality(InFlight(out)) =
           Cardinality(InFlight(s.outbuf)) + (IF Len(q.data) = 1 THEN 1 ELSE 0)
             - (IF i \in InFlight(s.outbuf) THEN 1 ELSE 0)
  BY <1>0, <1>2, <1>3, FlightChanged
<1>10. w = Cardinality(InFlight(out))
  <2>1. s.cur_window = Cardinality(InFlight(s.outbuf)) /\ Cardinality(InFlight(s.outbuf)) \in Nat
    BY <1>0, FlightFinite DEF Counting
  <2>2. i \in InFlight(s.outbuf) <=> ~Pending(p) /\ Len(p.data) = 1
    BY <1>1, <1>4 DEF InFlight, Pending
  <2> DEFINE n == Len(p.data)
           before == Cardinality(InFlight(s.outbuf))
           after == Cardinality(InFlight(out))
  <2>3. Len(q.data) = n /\ n \in {0, 1}
    BY <1>2, <1>4
  <2>4. after = before + (IF n = 1 THEN 1 ELSE 0) - (IF i \in InFlight(s.outbuf) THEN 1 ELSE 0)
    BY <1>9, <2>3
  <2>5. w = before + (IF Pending(p) THEN n ELSE 0)
    BY <2>1, <2>3
  <2>6. before \in Nat /\ (i \in InFlight(s.outbuf) <=> ~Pending(p) /\ n = 1)
    BY <2>1, <2>2
  <2> HIDE DEF out, p, w, n, before, after
  <2>7. w = after
    BY <2>3, <2>4, <2>5, <2>6
  <2> QED BY <2>7 DEF after
<1> HIDE DEF w
<1>11. /\ t \in Socket /\ t.outbuf = out /\ t.cur_window = w /\ t.state = s.state
       /\ SameReceiver(s, t)
  <2> HIDE DEF out
  <2> QED BY <1>0, <1>7, <1>9 DEF Socket, SameReceiver
<1>12. SamePlaces(s, t)
  <2>1. \A j \in 1..Len(s.outbuf) : out[j] = IF j = i THEN q ELSE s.outbuf[j]
    BY <1>1
  <2> HIDE DEF t, out
  <2> QED BY <1>1, <1>3, <1>9, <1>11, <2>1 DEF SamePlaces
<1> HIDE DEF t, out
<1>13. t \in Counting
  <2>1. t.cur_window = Cardinality(InFlight(t.outbuf)) /\ Len(t.outbuf) <= Len(s.outbuf)
    BY <1>0, <1>9, <1>10, <1>11, Outbuf
  <2> QED BY <1>11, <2>1, SenderOnly
<1>14. SendData(t, m) \in Counting /\ SendData(t, m).outbuf = t.outbuf
  BY <1>6, <1>13, SendDataGood
<1>15. SamePlaces(s, SendData(t, m))
  BY <1>12, <1>14 DEF SamePlaces
<1>16. Kept(s, SendPacket(s, i))
  BY <1>0, SendPacketShape
<1> QED BY <1>8, <1>14, <1>15, <1>16

LEMMA SendPacketKeeps ==
  ASSUME NEW s \in Good, NEW i \in DOMAIN s.outbuf, s.outbuf[i] # NULL
  PROVE  LET t == SendPacket(s, i)
         IN  t \in Good /\ SamePlaces(s, t) /\ Kept(s, t)
<1> DEFINE t == SendPacket(s, i)
<1>1. s \in Counting
  BY DEF Good
<1>2. t \in Counting /\ SamePlaces(s, t) /\ Kept(s, t)
  BY <1>1, SendPacketGood
<1> HIDE DEF t
<1>3. t \in Good
  BY <1>2, SamePlacesGood
<1> QED BY <1>2, <1>3 DEF t

Sized(n) == {s \in Good : Len(s.outbuf) = n}

LEMMA SizedSocket ==
  ASSUME NEW n, NEW s \in Sized(n)
  PROVE  /\ s \in Good /\ s \in Counting /\ s \in Socket /\ n \in Nat
         /\ DOMAIN s.outbuf = 1..n /\ Len(s.outbuf) = n
<1>1. s \in Good /\ s \in Counting /\ s \in Socket /\ Len(s.outbuf) = n
  BY DEF Sized, Good, Counting
<1> QED BY <1>1, Outbuf

(* and what is made of r by sending and acknowledging within its window    *)
Within(r, n) == {s \in Sized(n) : Kept(r, s)}

LEMMA WithinSocket ==
  ASSUME NEW r, NEW n, NEW s \in Within(r, n)
  PROVE  /\ s \in Good /\ s \in Counting /\ s \in Socket /\ n \in Nat
         /\ DOMAIN s.outbuf = 1..n /\ Len(s.outbuf) = n /\ Kept(r, s)
<1>1. s \in Sized(n) /\ Kept(r, s)
  BY DEF Within
<1> QED BY <1>1, SizedSocket

LEMMA WithinSelf ==
  ASSUME NEW s \in Good PROVE s \in Within(s, Len(s.outbuf)) /\ Len(s.outbuf) \in Nat
<1>1. Len(s.outbuf) \in Nat
  BY Outbuf DEF Good, Counting
<1> QED BY <1>1, KeptSelf DEF Within, Sized

LEMMA FlushPacketKeeps ==
  ASSUME NEW r, NEW n, NEW f \in [sock: Within(r, n), stop: BOOLEAN], NEW i \in 1..n
  PROVE  FlushPacket(f, i) \in [sock: Within(r, n), stop: BOOLEAN]
<1> DEFINE s == f.sock
           t == SendPacket(s, i)
<1>1. s \in Good /\ s \in Within(r, n) /\ i \in DOMAIN s.outbuf
  BY WithinSocket
<1>2. \A u \in Within(r, n) : [f EXCEPT !.sock = u] \in [sock: Within(r, n), stop: BOOLEAN]
  OBVIOUS
<1>3. [f EXCEPT !.stop = TRUE] \in [sock: Within(r, n), stop: BOOLEAN]
  OBVIOUS
<1>4. ASSUME Pending(s.outbuf[i]) PROVE t \in Within(r, n)
  <2>1. s.outbuf[i] # NULL
    BY <1>4 DEF Pending
  <2>2. t \in Good /\ SamePlaces(s, t) /\ Kept(s, t)
    BY <1>1, <2>1, SendPacketKeeps
  <2> HIDE DEF t, s
  <2>3. Kept(r, t) /\ Len(s.outbuf) = n
    BY <1>1, <2>2, WithinSocket, KeptTrans
  <2> QED BY <2>2, <2>3 DEF Within, Sized, SamePlaces
<1> HIDE DEF t
<1>5. FlushPacket(f, i) \in {f, [f EXCEPT !.stop = TRUE]} \cup
        (IF Pending(s.outbuf[i]) THEN {[f EXCEPT !.sock = t]} ELSE {})
  BY DEF FlushPacket, t
<1> HIDE DEF s
<1> QED BY <1>2, <1>3, <1>4, <1>5

(* What each turn of the loop of flush_packets keeps, the loop keeps.       *)
LEMMA FlushTurns ==
  ASSUME NEW n \in Nat, NEW S, NEW s \in S,
         \A x \in S : \A i \in 1..n : FlushPacket(x, i) \in S
  PROVE  FoldLeft(FlushPacket, s, [i \in 1..n |-> i]) \in S
<1> DEFINE op(x, i) == FlushPacket(x, i)
           seq == [i \in 1..n |-> i]
           F == [q \in S \X (1..n) |-> op(q[1], q[2])]
           IsFold(h) == h = [t \in SUBSET (DOMAIN seq) |->
                              IF t = {} THEN s ELSE op(h[t \ {Max(t)}], seq[Max(t)])]
           iter == CHOOSE h : IsFold(h)
<1>1. DOMAIN seq = 1..n /\ \A i \in 1..n : seq[i] = i
  OBVIOUS
<1> HIDE DEF seq
<1>3. FoldLeft(FlushPacket, s, [i \in 1..n |-> i]) = iter[1..n]
  BY <1>1 DEF FoldLeft, MapThenFoldSet, seq
<1>4. \A x \in S, i \in 1..n : op(x, i) \in S
  OBVIOUS
<1> HIDE DEF op
<1>5. \A x \in S, i \in 1..n : F[<<x, i>>] = op(x, i)
  OBVIOUS
<1> HIDE DEF F
<1>6. PICK g : /\ g = [t \in SUBSET (1..n) |-> IF t = {} THEN s ELSE F[<<g[t \ {Max(t)}], Max(t)>>]]
               /\ \A t \in SUBSET (1..n) : t # {} =>
                    Max(t) \in 1..n /\ g[t \ {Max(t)}] \in S
  <2>1. HasFoldIn(n, S, s, F)
    BY <1>4, <1>5, FoldWithin
  <2> QED BY <2>1 DEF HasFoldIn
<1>7. ASSUME NEW t \in SUBSET (1..n), t # {}
      PROVE F[<<g[t \ {Max(t)}], Max(t)>>] = op(g[t \ {Max(t)}], seq[Max(t)])
  <2> DEFINE k == Max(t)
             x == g[t \ {k}]
  <2>1. k \in 1..n /\ x \in S
    BY <1>6, <1>7
  <2> HIDE DEF k, x
  <2>2. F[<<x, k>>] = op(x, seq[k])
    BY <1>1, <1>5, <2>1
  <2> QED BY <2>2 DEF k, x
<1>8. IsFold(g)
  BY <1>1, <1>6, <1>7
<1>9. IsFold(iter)
  BY <1>8
<1> HIDE DEF iter
<1>10. iter[{}] = s
  BY <1>1, <1>9
<1>11. ASSUME NEW k \in 1..n PROVE iter[1..k] = op(iter[1..k-1], k)
  <2>1. 1..k # {} /\ 1..k \in SUBSET (1..n) /\ Max(1..k) = k /\ (1..k) \ {k} = 1..k-1
    BY Prefix
  <2>3. iter[1..k] = op(iter[(1..k) \ {Max(1..k)}], seq[Max(1..k)])
    BY <1>1, <1>9, <2>1
  <2> HIDE DEF IsFold
  <2> QED BY <1>1, <2>1, <2>3
<1>12. iter[1..n] \in S
  <2> DEFINE G == [k \in 0..n |-> S]
  <2>1. \A k \in 0..n : G[k] = S
    OBVIOUS
  <2> HIDE DEF G
  <2>2. 0 \in 0..n /\ n \in 0..n /\ \A k \in 1..n : k \in 0..n /\ k-1 \in 0..n
    OBVIOUS
  <2>3. iter[{}] \in G[0]
    BY <1>10, <2>1, <2>2
  <2>4. ASSUME NEW k \in 1..n, iter[1..k-1] \in G[k-1] PROVE iter[1..k] \in G[k]
    <3>1. iter[1..k-1] \in S
      BY <2>1, <2>2, <2>4
    <3>2. op(iter[1..k-1], k) \in S
      BY <1>4, <3>1
    <3> QED BY <1>11, <2>1, <2>2, <3>2
  <2>5. iter[1..n] \in G[n]
    BY <2>3, <2>4, FoldStays
  <2> QED BY <2>1, <2>2, <2>5
<1> QED BY <1>3, <1>12

LEMMA FlushPacketsKeeps ==
  ASSUME NEW s \in Good
  PROVE  LET t == FlushPackets(s)
         IN  t \in Good /\ Kept(s, t) /\ Len(t.outbuf) = Len(s.outbuf)
<1> DEFINE n == Packets(s)
           base == [sock |-> s, stop |-> FALSE]
           S == [sock: Within(s, n), stop: BOOLEAN]
           f == FoldLeft(FlushPacket, base, [i \in 1..n |-> i])
<1>1. s \in Within(s, n) /\ n \in Nat /\ n = Len(s.outbuf)
  BY WithinSelf DEF Packets
<1>2. base \in S
  BY <1>1
<1>3. FlushPackets(s) = f.sock
  BY DEF FlushPackets
<1> HIDE DEF n, base
<1>4. \A x \in S : \A i \in 1..n : FlushPacket(x, i) \in S
  BY FlushPacketKeeps
<1> HIDE DEF S
<1>5. f \in S
  BY <1>1, <1>2, <1>4, FlushTurns
<1> HIDE DEF f
<1>6. f.sock \in Within(s, n)
  BY <1>5 DEF S
<1> QED BY <1>1, <1>3, <1>6, WithinSocket

(* The buffers stay as they are.                                           *)
SameBuffers(s, t) ==
  SameReceiver(s, t) /\ t.outbuf = s.outbuf /\ t.cur_window = s.cur_window

LEMMA SameBuffersGood ==
  ASSUME NEW s \in Good, NEW t \in Socket, SameBuffers(s, t) PROVE t \in Good
<1>1. s \in Counting /\ (s.outbuf # << >> => s.outbuf[1] # NULL)
  BY DEF Good
<1>2. s.cur_window = Cardinality(InFlight(s.outbuf)) /\ Len(s.outbuf) \in Nat
  BY <1>1, Outbuf DEF Counting
<1>3. /\ t.cur_window = Cardinality(InFlight(t.outbuf)) /\ SameReceiver(s, t)
      /\ Len(t.outbuf) <= Len(s.outbuf)
  BY <1>2 DEF SameBuffers
<1>4. t \in Counting
  BY <1>1, <1>3, SenderOnly
<1> QED BY <1>1, <1>4 DEF Good, SameBuffers

LEMMA GoodSocket == ASSUME NEW s \in Good PROVE s \in Socket /\ s \in Counting
BY DEF Good, Counting

LEMMA SendDataKeeps == ASSUME NEW s \in Good, NEW m \in Message PROVE SendData(s, m) \in Good
<1>1. s \in Counting
  BY GoodSocket
<1>2. SendData(s, m) \in Counting /\ SendData(s, m).outbuf = s.outbuf
  BY <1>1, SendDataGood
<1> QED BY <1>2 DEF Good

LEMMA AckMessage ==
  ASSUME NEW s \in Socket
  PROVE  [type |-> "STATE", seq |-> s.seq_nr, ack |-> s.ack_nr, data |-> << >>,
          sack |-> IF s.reorder_count # 0 /\ s.state \in {"CONNECTED", "CONNECTED_FULL"}
                   THEN {p.seq : p \in s.inbuf} ELSE {}] \in Message
<1>1. s.seq_nr \in Number /\ s.ack_nr \in Number /\ s.inbuf \subseteq [seq: Number, data: Seq(Nat)]
  BY DEF Socket
<1>2. {p.seq : p \in s.inbuf} \subseteq Number
  BY <1>1
<1> QED BY <1>1, <1>2 DEF Message

LEMMA SendAckKeeps == ASSUME NEW s \in Good PROVE SendAck(s) \in Good
<1>1. s \in Socket
  BY GoodSocket
<1> QED BY <1>1, AckMessage, SendDataKeeps DEF SendAck

NewPacket(type, data) ==
  [type |-> type, data |-> data, transmissions |-> 0, need_resend |-> FALSE]

WithPacket(s, type, data) ==
  [s EXCEPT !.outbuf = Append(@, NewPacket(type, data)), !.seq_nr = Mod(@ + 1)]

(* A packet more may be written.                                           *)
Spare(s) == Len(s.outbuf) + 1 <= OutMax /\ (s.state \in Connected => Len(s.outbuf) + 1 < OutMax)

LEMMA PacketAppended ==
  ASSUME NEW s \in Good, Spare(s), NEW type \in {"DATA", "FIN"}, NEW data \in Seq(Nat), Len(data) <= 1
  PROVE  LET t == WithPacket(s, type, data)
         IN  /\ t \in Good /\ Len(t.outbuf) = Len(s.outbuf) + 1
             /\ t.outbuf[Len(s.outbuf) + 1] = NewPacket(type, data)
             /\ \A j \in 1..Len(s.outbuf) : t.outbuf[j] = s.outbuf[j]
             /\ t.seq_nr = Mod(s.seq_nr + 1) /\ t.sent = s.sent
             /\ t.state = s.state /\ t.written = s.written /\ t.left = s.left
             /\ t.ack_nr = s.ack_nr /\ t.inbuf = s.inbuf /\ t.reorder_count = s.reorder_count
             /\ t.got_fin = s.got_fin /\ t.eof_pkt = s.eof_pkt
             /\ t.read = s.read /\ t.eof = s.eof /\ t.failed = s.failed
<1> DEFINE p == NewPacket(type, data)
           out == Append(s.outbuf, p)
           t == [s EXCEPT !.outbuf = out, !.seq_nr = Mod(@ + 1)]
<1>1. s \in Socket /\ s \in Counting
  BY GoodSocket
<1>2. p \in Packet /\ p.transmissions = 0
  BY DEF Packet, NewPacket
<1>3. p # NULL
  BY <1>2, NullAssumption
<1> HIDE DEF p
<1>4. s.outbuf \in Seq(Packet \cup {NULL}) /\ Len(s.outbuf) \in Nat /\ DOMAIN s.outbuf = 1..Len(s.outbuf)
  BY <1>1, Outbuf
<1>5. /\ out \in Seq(Packet \cup {NULL}) /\ Len(out) = Len(s.outbuf) + 1
      /\ DOMAIN out = 1..Len(s.outbuf)+1
      /\ out[Len(s.outbuf)+1] = p /\ \A j \in 1..Len(s.outbuf) : out[j] = s.outbuf[j]
  BY <1>2, <1>4
<1> HIDE DEF out
<1>6. InFlight(out) = InFlight(s.outbuf)
  <2> DEFINE n == Len(s.outbuf)
  <2>1. DOMAIN out = (1..n) \cup {n + 1} /\ DOMAIN s.outbuf = 1..n /\ out[n + 1] = p
        /\ \A j \in 1..n : out[j] = s.outbuf[j]
    BY <1>4, <1>5
  <2> HIDE DEF n
  <2>2. ~(p.transmissions > 0)
    BY <1>2
  <2>3. n + 1 \notin InFlight(out)
    BY <2>1, <2>2 DEF InFlight
  <2>4. ASSUME NEW j \in InFlight(out) PROVE j \in InFlight(s.outbuf)
    BY <2>1, <2>3 DEF InFlight
  <2>5. ASSUME NEW j \in InFlight(s.outbuf) PROVE j \in InFlight(out)
    BY <2>1 DEF InFlight
  <2> QED BY <2>4, <2>5
<1>7. Mod(s.seq_nr + 1) \in Number
  <2>1. s.seq_nr + 1 \in Int
    BY <1>1 DEF Socket, Number
  <2> QED BY <2>1, ModNumber
<1>8. t \in Socket /\ SameReceiver(s, t) /\ t.outbuf = out /\ t.cur_window = s.cur_window
      /\ t.state = s.state
  BY <1>1, <1>5, <1>7 DEF Socket, SameReceiver
<1> HIDE DEF t
<1>9. t.cur_window = Cardinality(InFlight(t.outbuf))
  BY <1>1, <1>6, <1>8 DEF Counting
<1>10. t \in Counting
  <2>1. Room(t)
    BY <1>5, <1>8 DEF Spare, Room, SameReceiver
  <2> QED BY <1>1, <1>8, <1>9, <2>1, SenderWithRoom
<1>11. out[1] # NULL
  <2>1. CASE s.outbuf = << >>
    BY <1>3, <1>5, <2>1
  <2>2. CASE s.outbuf # << >>
    <3>1. 1 \in 1..Len(s.outbuf)
      BY <1>4, <2>2
    <3> QED BY <1>5, <2>2, <3>1 DEF Good
  <2> QED BY <2>1, <2>2
<1>12. t \in Good
  BY <1>8, <1>10, <1>11 DEF Good
<1>13. /\ t.seq_nr = Mod(s.seq_nr + 1) /\ t.sent = s.sent
       /\ t.state = s.state /\ t.written = s.written /\ t.left = s.left
       /\ t.ack_nr = s.ack_nr /\ t.inbuf = s.inbuf /\ t.reorder_count = s.reorder_count
       /\ t.got_fin = s.got_fin /\ t.eof_pkt = s.eof_pkt
       /\ t.read = s.read /\ t.eof = s.eof /\ t.failed = s.failed
  BY <1>1 DEF Socket, t
<1>14. WithPacket(s, type, data) = t
  BY DEF WithPacket, t, out, p
<1> QED BY <1>5, <1>8, <1>12, <1>13, <1>14 DEF p

LEMMA WriteOutgoingPacketKeeps ==
  ASSUME NEW s \in Good, Spare(s), NEW type \in {"DATA", "FIN"}, NEW data \in Seq(Nat), Len(data) <= 1
  PROVE  LET u == WriteOutgoingPacket(s, type, data)
         IN  u \in Good /\ SameReceiver(s, u) /\ u.state = s.state
<1> DEFINE t == WithPacket(s, type, data)
           u == WriteOutgoingPacket(s, type, data)
<1>1. t \in Good
  BY PacketAppended
<1>2. SameReceiver(s, t) /\ t.state = s.state
  BY PacketAppended DEF SameReceiver
<1>3. u = FlushPackets(t)
  BY DEF WriteOutgoingPacket, WithPacket, NewPacket
<1> HIDE DEF t, u
<1>4. u \in Good /\ Kept(t, u)
  BY <1>1, <1>3, FlushPacketsKeeps
<1>5. SameReceiver(s, u) /\ u.state = s.state
  BY <1>2, <1>4, KeptReceiver, SameReceiverTrans
<1> QED BY <1>4, <1>5 DEF u

LEMMA WritevKeeps ==
  ASSUME NEW s \in Good, s.state \in Connected
  PROVE  LET t == Writev(s) IN t \in Good /\ SameReceiver(s, t) /\ t.state \in Connected
<1> DEFINE t == [s EXCEPT !.left = @ - 1, !.written = @ + 1]
           u == [s EXCEPT !.state = "CONNECTED_FULL"]
           data == <<s.written + 1>>
           v == WriteOutgoingPacket(t, "DATA", data)
<1>1. s \in Socket
  BY GoodSocket
<1>2. s.left \in Nat /\ s.written \in Nat
  BY <1>1 DEF Socket
<1>3. u \in Good /\ SameReceiver(s, u) /\ u.state \in Connected
  <2>1. u \in Socket /\ SameBuffers(s, u) /\ u.state \in Connected
    BY <1>1 DEF Socket, State, SameBuffers, SameReceiver, Connected
  <2> HIDE DEF u
  <2> QED BY <2>1, SameBuffersGood DEF SameBuffers
<1>4. ASSUME s.left # 0, ~IsFull(s) PROVE v \in Good /\ SameReceiver(s, v) /\ v.state \in Connected
  <2>1. s.left - 1 \in Nat /\ s.written + 1 \in Nat
    BY <1>2, <1>4
  <2>2. t \in Socket /\ SameBuffers(s, t) /\ t.state = s.state
    BY <1>1, <2>1 DEF Socket, SameBuffers, SameReceiver
  <2>3. data \in Seq(Nat) /\ Len(data) <= 1
    BY <2>1
  <2> HIDE DEF t, data
  <2>4. t \in Good
    BY <2>2, SameBuffersGood
  <2>5. Spare(t)
    <3>1. Len(s.outbuf) \in Nat /\ OutMax \in Nat
      BY <1>1, Outbuf, LimitAssumption
    <3>2. ~(Len(s.outbuf) >= OutMax - 1)
      BY <1>4 DEF IsFull, Packets
    <3> QED BY <2>2, <3>1, <3>2 DEF Spare, SameBuffers
  <2>6. v \in Good /\ SameReceiver(t, v) /\ v.state = t.state
    BY <2>3, <2>4, <2>5, WriteOutgoingPacketKeeps
  <2> HIDE DEF v
  <2> QED BY <2>2, <2>6, SameReceiverTrans DEF SameBuffers
<1>5. Writev(s) \in {s, u} \cup (IF s.left # 0 /\ ~IsFull(s) THEN {v} ELSE {})
  BY DEF Writev
<1> HIDE DEF u, v
<1> QED BY <1>3, <1>4, <1>5, KeptSelf

LEMMA CloseKeeps ==
  ASSUME NEW s \in Good, s.state \in Connected
  PROVE  Close(s) \in Good /\ SameReceiver(s, Close(s))
<1> DEFINE t == [s EXCEPT !.state = "FIN_SENT"]
           u == Close(s)
<1>1. s \in Socket /\ Len(s.outbuf) < OutMax
  BY GoodSocket DEF Good, Counting, Room
<1>2. t \in Socket /\ SameBuffers(s, t) /\ t.state \notin Connected
  BY <1>1 DEF Socket, State, SameBuffers, SameReceiver, Connected
<1>3. << >> \in Seq(Nat) /\ Len(<< >>) <= 1 /\ "FIN" \in {"DATA", "FIN"}
  OBVIOUS
<1>4. u = WriteOutgoingPacket(t, "FIN", << >>)
  BY DEF Close
<1> HIDE DEF t
<1>5. t \in Good
  BY <1>2, SameBuffersGood
<1>6. Spare(t)
  <2>1. Len(s.outbuf) \in Nat /\ OutMax \in Nat
    BY <1>1, Outbuf, LimitAssumption
  <2> QED BY <1>1, <1>2, <2>1 DEF Spare, SameBuffers
<1> HIDE DEF u
<1>7. u \in Good /\ SameReceiver(t, u)
  BY <1>3, <1>4, <1>5, <1>6, WriteOutgoingPacketKeeps
<1>8. SameReceiver(s, u)
  BY <1>2, <1>7, SameReceiverTrans DEF SameBuffers
<1> QED BY <1>7, <1>8 DEF u

(* The loop of Write                                                       *)
WritesAll(s, n) == FoldLeft(LAMBDA x, i : Writev(x), s, [i \in 1..n |-> i])

LEMMA WriteTurns ==
  ASSUME NEW n \in Nat, NEW S, NEW s \in S,
         \A x \in S : \A i \in 1..n : Writev(x) \in S
  PROVE  WritesAll(s, n) \in S
<1> DEFINE op(x, i) == Writev(x)
           seq == [i \in 1..n |-> i]
           F == [q \in S \X (1..n) |-> op(q[1], q[2])]
           IsFold(h) == h = [t \in SUBSET (DOMAIN seq) |->
                              IF t = {} THEN s ELSE op(h[t \ {Max(t)}], seq[Max(t)])]
           iter == CHOOSE h : IsFold(h)
<1>1. DOMAIN seq = 1..n /\ \A i \in 1..n : seq[i] = i
  OBVIOUS
<1> HIDE DEF seq
<1>3. WritesAll(s, n) = iter[1..n]
  BY <1>1 DEF WritesAll, FoldLeft, MapThenFoldSet, seq
<1>4. \A x \in S, i \in 1..n : op(x, i) \in S
  OBVIOUS
<1> HIDE DEF op
<1>5. \A x \in S, i \in 1..n : F[<<x, i>>] = op(x, i)
  OBVIOUS
<1> HIDE DEF F
<1>6. PICK g : /\ g = [t \in SUBSET (1..n) |-> IF t = {} THEN s ELSE F[<<g[t \ {Max(t)}], Max(t)>>]]
               /\ \A t \in SUBSET (1..n) : t # {} =>
                    Max(t) \in 1..n /\ g[t \ {Max(t)}] \in S
  <2>1. HasFoldIn(n, S, s, F)
    BY <1>4, <1>5, FoldWithin
  <2> QED BY <2>1 DEF HasFoldIn
<1>7. ASSUME NEW t \in SUBSET (1..n), t # {}
      PROVE F[<<g[t \ {Max(t)}], Max(t)>>] = op(g[t \ {Max(t)}], seq[Max(t)])
  <2> DEFINE k == Max(t)
             x == g[t \ {k}]
  <2>1. k \in 1..n /\ x \in S
    BY <1>6, <1>7
  <2> HIDE DEF k, x
  <2>2. F[<<x, k>>] = op(x, seq[k])
    BY <1>1, <1>5, <2>1
  <2> QED BY <2>2 DEF k, x
<1>8. IsFold(g)
  BY <1>1, <1>6, <1>7
<1>9. IsFold(iter)
  BY <1>8
<1> HIDE DEF iter
<1>10. iter[{}] = s
  BY <1>1, <1>9
<1>11. ASSUME NEW k \in 1..n PROVE iter[1..k] = op(iter[1..k-1], k)
  <2>1. 1..k # {} /\ 1..k \in SUBSET (1..n) /\ Max(1..k) = k /\ (1..k) \ {k} = 1..k-1
    BY Prefix
  <2>3. iter[1..k] = op(iter[(1..k) \ {Max(1..k)}], seq[Max(1..k)])
    BY <1>1, <1>9, <2>1
  <2> HIDE DEF IsFold
  <2> QED BY <1>1, <2>1, <2>3
<1>12. iter[1..n] \in S
  <2> DEFINE G == [k \in 0..n |-> S]
  <2>1. \A k \in 0..n : G[k] = S
    OBVIOUS
  <2> HIDE DEF G
  <2>2. 0 \in 0..n /\ n \in 0..n /\ \A k \in 1..n : k \in 0..n /\ k-1 \in 0..n
    OBVIOUS
  <2>3. iter[{}] \in G[0]
    BY <1>10, <2>1, <2>2
  <2>4. ASSUME NEW k \in 1..n, iter[1..k-1] \in G[k-1] PROVE iter[1..k] \in G[k]
    <3>1. iter[1..k-1] \in S
      BY <2>1, <2>2, <2>4
    <3>2. op(iter[1..k-1], k) \in S
      BY <1>4, <3>1
    <3> QED BY <1>11, <2>1, <2>2, <3>2
  <2>5. iter[1..n] \in G[n]
    BY <2>3, <2>4, FoldStays
  <2> QED BY <2>1, <2>2, <2>5
<1> QED BY <1>3, <1>12

LEMMA WriteKeeps ==
  ASSUME NEW s \in Good, s.state \in Connected
  PROVE  Write(s) \in Good /\ SameReceiver(s, Write(s))
<1> DEFINE done == WritesAll(s, s.left)
           S == {x \in Good : SameReceiver(s, x) /\ x.state \in Connected}
<1>1. s.left \in Nat
  BY GoodSocket DEF Socket
<1>2. Write(s) \in {done, Close(done)}
  BY DEF Write, WritesAll
<1>3. \A x \in S : \A i \in 1..s.left : Writev(x) \in S
  BY WritevKeeps, SameReceiverTrans
<1>4. s \in S
  BY KeptSelf
<1> HIDE DEF S
<1>5. done \in S
  BY <1>1, <1>3, <1>4, WriteTurns
<1> HIDE DEF done
<1>6. done \in Good /\ SameReceiver(s, done) /\ done.state \in Connected
  BY <1>5 DEF S
<1>7. Close(done) \in Good /\ SameReceiver(s, Close(done))
  BY <1>6, CloseKeeps, SameReceiverTrans
<1> QED BY <1>2, <1>6, <1>7

LEMMA WritableKeeps ==
  ASSUME NEW s \in Good PROVE Writable(s) \in Good /\ SameReceiver(s, Writable(s))
<1> DEFINE t == [s EXCEPT !.state = "CONNECTED"]
<1>1. ASSUME s.state = "CONNECTED_FULL" PROVE Write(t) \in Good /\ SameReceiver(s, Write(t))
  <2>1. s \in Socket
    BY GoodSocket
  <2>2. t \in Socket /\ SameBuffers(s, t) /\ t.state \in Connected
    BY <1>1, <2>1 DEF Socket, State, SameBuffers, SameReceiver, Connected
  <2> HIDE DEF t
  <2>3. Write(t) \in Good /\ SameReceiver(t, Write(t))
    BY <2>2, SameBuffersGood, WriteKeeps
  <2> QED BY <2>2, <2>3, SameReceiverTrans DEF SameBuffers
<1>2. Writable(s) \in {s} \cup (IF s.state = "CONNECTED_FULL" THEN {Write(t)} ELSE {})
  BY DEF Writable
<1> HIDE DEF t
<1> QED BY <1>1, <1>2, KeptSelf

-----------------------------------------------------------------------------
(* Acknowledgements                                                        *)

LEMMA AckPacketShape ==
  ASSUME NEW s \in Socket, NEW i \in DOMAIN s.outbuf
  PROVE  LET t == AckPacket(s, i)
         IN  Kept(s, t) /\ t.sent = s.sent /\ t.outbuf[i] \in {s.outbuf[i], NULL}
<1> DEFINE p == s.outbuf[i]
           out == [s.outbuf EXCEPT ![i] = NULL]
           w == IF p.need_resend THEN s.cur_window ELSE s.cur_window - Len(p.data)
           t == [s EXCEPT !.cur_window = w, !.retransmit_count = 0, !.outbuf = out]
<1>1. s.outbuf \in Seq(Packet \cup {NULL})
  BY Outbuf
<1>2. out[i] = NULL
  BY <1>1
<1>3. AckPacket(s, i) \in {s, t}
  BY DEF AckPacket
<1> HIDE DEF out, w
<1>4. Kept(s, t) /\ t.sent = s.sent /\ t.outbuf = out
  BY DEF Kept, Socket
<1>5. Kept(s, s)
  BY DEF Kept
<1> HIDE DEF t
<1> QED BY <1>2, <1>3, <1>4, <1>5

LEMMA AckPacketCounts ==
  ASSUME NEW s \in Counting, NEW i \in DOMAIN s.outbuf
  PROVE  LET t == AckPacket(s, i)
         IN  /\ t \in Counting /\ Kept(s, t) /\ Len(t.outbuf) = Len(s.outbuf)
             /\ \A j \in DOMAIN s.outbuf : j # i => t.outbuf[j] = s.outbuf[j]
             /\ s.outbuf[i] = NULL \/ s.outbuf[i].transmissions > 0 => t.outbuf[i] = NULL
<1>1. s \in Socket /\ s.cur_window = Cardinality(InFlight(s.outbuf)) /\ Len(s.outbuf) \in Nat
  BY Outbuf DEF Counting
<1>0. Kept(s, AckPacket(s, i))
  BY <1>1, AckPacketShape
<1>2. CASE s.outbuf[i] = NULL \/ s.outbuf[i].transmissions = 0
  <2>1. AckPacket(s, i) = s
    BY <1>2 DEF AckPacket
  <2> QED BY <1>0, <1>2, <2>1
<1>3. CASE ~(s.outbuf[i] = NULL \/ s.outbuf[i].transmissions = 0)
  <2> DEFINE p == s.outbuf[i]
             out == [s.outbuf EXCEPT ![i] = NULL]
             w == IF p.need_resend THEN s.cur_window ELSE s.cur_window - Len(p.data)
             t == [s EXCEPT !.cur_window = w, !.retransmit_count = 0, !.outbuf = out]
  <2>1. p \in Packet /\ p # NULL /\ s.outbuf \in Seq(Packet \cup {NULL}) /\ i \in 1..Len(s.outbuf)
    BY <1>1, <1>3, Outbuf
  <2>2. Len(p.data) \in {0, 1} /\ p.transmissions \in 0..2 /\ p.need_resend \in BOOLEAN
    <3> HIDE DEF p
    <3> QED BY <2>1, PacketFields
  <2>3. p.transmissions > 0
    BY <1>3, <2>2
  <2>4. AckPacket(s, i) = t
    BY <1>3 DEF AckPacket
  <2>5. /\ out \in Seq(Packet \cup {NULL}) /\ Len(out) = Len(s.outbuf)
        /\ Cardinality(InFlight(out)) =
             Cardinality(InFlight(s.outbuf)) - (IF i \in InFlight(s.outbuf) THEN 1 ELSE 0)
    <3> DEFINE c == Cardinality(InFlight(s.outbuf))
               d == IF i \in InFlight(s.outbuf) THEN 1 ELSE 0
    <3>1. /\ out \in Seq(Packet \cup {NULL}) /\ Len(out) = Len(s.outbuf)
          /\ Cardinality(InFlight(out)) = c + 0 - d
      <4> HIDE DEF p
      <4> QED BY <1>1, FlightChanged
    <3>2. c \in Nat /\ d \in Nat
      BY <1>1, FlightFinite
    <3> HIDE DEF c, d
    <3>3. c + 0 - d = c - d
      BY <3>2
    <3> QED BY <3>1, <3>3 DEF c, d
  <2>6. i \in InFlight(s.outbuf) <=> ~p.need_resend /\ Len(p.data) = 1
    BY <2>1, <2>3 DEF InFlight
  <2>7. w = Cardinality(InFlight(out)) /\ w \in Int
    <3> DEFINE n == Len(p.data)
               c == Cardinality(InFlight(s.outbuf))
               after == Cardinality(InFlight(out))
    <3>1. n \in {0, 1} /\ c \in Nat /\ s.cur_window = c
      BY <1>1, <2>2, FlightFinite
    <3>2. after = c - (IF ~p.need_resend /\ n = 1 THEN 1 ELSE 0)
      BY <2>5, <2>6
    <3>3. w = IF p.need_resend THEN c ELSE c - n
      BY <3>1
    <3> HIDE DEF n, c, after, w, p, out
    <3>4. w = after /\ w \in Int
      BY <2>2, <3>1, <3>2, <3>3
    <3> QED BY <3>4 DEF after
  <2>8. out[i] = NULL /\ \A j \in DOMAIN s.outbuf : j # i => out[j] = s.outbuf[j]
    BY <2>1
  <2> HIDE DEF w, out
  <2>9. t \in Socket /\ t.outbuf = out /\ t.cur_window = w /\ SameReceiver(s, t)
    BY <1>1, <2>5, <2>7 DEF Socket, SameReceiver
  <2> HIDE DEF t
  <2>10. t.cur_window = Cardinality(InFlight(t.outbuf)) /\ Len(t.outbuf) <= Len(s.outbuf)
    BY <1>1, <2>5, <2>7, <2>9
  <2>11. t \in Counting
    BY <2>9, <2>10, SenderOnly
  <2> QED BY <1>0, <2>4, <2>5, <2>8, <2>9, <2>11
<1> QED BY <1>2, <1>3

(* Places in front that hold nothing may be cut off.                       *)
LEMMA ShiftedFlight ==
  ASSUME NEW out \in Seq(Packet \cup {NULL}), NEW d \in 0..Len(out),
         \A j \in 1..d : out[j] = NULL
  PROVE  LET rest == SubSeq(out, d + 1, Len(out))
         IN  /\ rest \in Seq(Packet \cup {NULL}) /\ Len(rest) = Len(out) - d
             /\ \A j \in 1..Len(rest) : rest[j] = out[j + d]
             /\ Cardinality(InFlight(rest)) = Cardinality(InFlight(out))
<1> DEFINE n == Len(out)
           rest == SubSeq(out, d + 1, n)
           S == InFlight(rest)
           T == InFlight(out)
           f == [j \in S |-> j + d]
<1>1. n \in Nat /\ d \in Nat /\ d <= n /\ DOMAIN out = 1..n
  OBVIOUS
<1>2. rest \in Seq(Packet \cup {NULL}) /\ Len(rest) = n - d
      /\ \A j \in 1..(n - d) : rest[j] = out[j + d]
  <2> DEFINE m == d + 1
  <2>1. /\ m \in Int /\ n \in Int /\ n - m + 1 = n - d /\ (m <= n \/ n - d = 0)
        /\ \A j \in 1..(n - d) : m + j - 1 = j + d
    <3> HIDE DEF n
    <3> QED BY <1>1
  <2>2. \A j \in m..n : out[j] \in Packet \cup {NULL}
    BY <1>1
  <2>3. rest = SubSeq(out, m, n)
    OBVIOUS
  <2> HIDE DEF rest, n, m
  <2>4. /\ rest \in Seq(Packet \cup {NULL}) /\ Len(rest) = IF m <= n THEN n - m + 1 ELSE 0
        /\ \A j \in 1..n - m + 1 : rest[j] = out[m + j - 1]
    BY <2>1, <2>2, <2>3, SubSeqProperties
  <2> QED BY <2>1, <2>4
<1>3. DOMAIN rest = 1..(n - d)
  <2> HIDE DEF rest, n
  <2>1. DOMAIN rest = 1..Len(rest)
    BY <1>2
  <2> QED BY <1>2, <2>1
<1> HIDE DEF rest, n
<1>4. S \subseteq 1..(n - d) /\ T \subseteq 1..n
  BY <1>1, <1>3 DEF InFlight
<1>5. \A j \in S : j + d \in T
  <2> SUFFICES ASSUME NEW j \in S PROVE j + d \in T
    OBVIOUS
  <2>1. j \in 1..(n - d) /\ rest[j] = out[j + d] /\ j + d \in 1..n
    BY <1>1, <1>2, <1>4
  <2> QED BY <1>1, <2>1 DEF InFlight
<1>6. \A k \in T : k - d \in S /\ k - d + d = k
  <2> SUFFICES ASSUME NEW k \in T PROVE k - d \in S /\ k - d + d = k
    OBVIOUS
  <2>1. k \in 1..n /\ out[k] # NULL
    BY <1>4 DEF InFlight
  <2>2. k \notin 1..d
    BY <2>1
  <2>3. k - d \in 1..(n - d) /\ k - d + d = k
    BY <1>1, <2>1, <2>2
  <2>4. rest[k - d] = out[k]
    BY <1>2, <2>3
  <2> QED BY <1>3, <2>3, <2>4 DEF InFlight
<1>7. f \in Bijection(S, T)
  <2>1. f \in [S -> T]
    BY <1>5
  <2>2. \A a, b \in S : f[a] = f[b] => a = b
    <3> SUFFICES ASSUME NEW a \in S, NEW b \in S, a + d = b + d PROVE a = b
      OBVIOUS
    <3>1. a \in Int /\ b \in Int
      BY <1>1, <1>4
    <3> QED BY <1>1, <3>1
  <2>3. \A k \in T : \E a \in S : f[a] = k
    BY <1>6
  <2> HIDE DEF f, S, T
  <2> QED BY <2>1, <2>2, <2>3, Fun_IsBij
<1>8. IsFiniteSet(S)
  <2>1. IsFiniteSet(1..(n - d))
    <3>1. n - d \in Nat
      BY <1>1
    <3> QED BY <3>1, Interval
  <2> QED BY <1>4, <2>1, FS_Subset
<1>9. Cardinality(T) = Cardinality(S)
  <2>1. ExistsBijection(S, T)
    BY <1>7, Fun_ExistsBij
  <2> QED BY <1>8, <2>1, FS_Bijection
<1>10. \A j \in 1..Len(rest) : rest[j] = out[j + d]
  BY <1>2
<1> QED BY <1>2, <1>9, <1>10 DEF rest, n

LEMMA AckOldestCounts ==
  ASSUME NEW s \in Counting, NEW i, s.outbuf # << >>
  PROVE  /\ AckOldest(s, i) \in Counting /\ Len(AckOldest(s, i).outbuf) >= Len(s.outbuf) - 1
         /\ Kept(s, AckOldest(s, i))
<1> DEFINE t == AckPacket(s, 1)
<1>1. s \in Socket /\ Len(s.outbuf) \in Nat /\ Len(s.outbuf) # 0 /\ 1 \in DOMAIN s.outbuf
      /\ DOMAIN s.outbuf = 1..Len(s.outbuf)
  <2>1. s \in Socket
    BY DEF Counting
  <2>2. Len(s.outbuf) \in Nat /\ DOMAIN s.outbuf = 1..Len(s.outbuf) /\ s.outbuf \in Seq(Packet \cup {NULL})
    BY <2>1, Outbuf
  <2>3. Len(s.outbuf) # 0
    BY <2>2
  <2> QED BY <2>1, <2>2, <2>3
<1>2. CASE s.outbuf[1] # NULL /\ s.outbuf[1].transmissions = 0
  <2>1. AckOldest(s, i) = s
    BY <1>2 DEF AckOldest
  <2> QED BY <1>1, <2>1, KeptSelf
<1>3. CASE ~(s.outbuf[1] # NULL /\ s.outbuf[1].transmissions = 0)
  <2>1. s.outbuf[1] = NULL \/ s.outbuf[1].transmissions > 0
    <3> SUFFICES ASSUME s.outbuf[1] # NULL PROVE s.outbuf[1].transmissions > 0
      OBVIOUS
    <3>1. s.outbuf[1] \in Packet
      BY <1>1, Outbuf
    <3>2. s.outbuf[1].transmissions \in 0..2
      BY <3>1, PacketFields
    <3> QED BY <1>3, <3>2
  <2>2. /\ t \in Counting /\ Kept(s, t) /\ Len(t.outbuf) = Len(s.outbuf) /\ t.outbuf[1] = NULL
    BY <1>1, <2>1, AckPacketCounts
  <2> HIDE DEF t
  <2>3. t \in Socket /\ t.cur_window = Cardinality(InFlight(t.outbuf))
    BY <2>2 DEF Counting
  <2> DEFINE n == Len(t.outbuf)
             out == SubSeq(t.outbuf, 1 + 1, n)
             u == [t EXCEPT !.outbuf = out]
  <2>4. t.outbuf \in Seq(Packet \cup {NULL}) /\ t.outbuf # << >> /\ 1 \in 0..Len(t.outbuf)
        /\ \A j \in 1..1 : t.outbuf[j] = NULL
    BY <1>1, <2>2, <2>3, Outbuf
  <2>5. /\ out \in Seq(Packet \cup {NULL}) /\ Len(out) = n - 1
        /\ Cardinality(InFlight(out)) = Cardinality(InFlight(t.outbuf))
    BY <2>4, ShiftedFlight
  <2>6. Tail(t.outbuf) = out
    <3>1. Tail(t.outbuf) = SubSeq(t.outbuf, 2, n)
      BY <2>4, TailIsSubSeq
    <3> QED BY <3>1
  <2> HIDE DEF out, n
  <2>7. AckOldest(s, i) = u
    BY <1>3, <2>6 DEF AckOldest, DropOldest, t
  <2>8. u \in Socket /\ u.outbuf = out /\ u.cur_window = t.cur_window /\ Kept(t, u)
    BY <2>3, <2>5 DEF Socket, Kept
  <2> HIDE DEF u
  <2>9. u.cur_window = Cardinality(InFlight(u.outbuf))
    BY <2>3, <2>5, <2>8
  <2>11. Len(u.outbuf) = Len(s.outbuf) - 1
    BY <2>2, <2>5, <2>8 DEF n
  <2>12. Len(u.outbuf) <= Len(t.outbuf)
    BY <1>1, <2>2, <2>11
  <2>10. u \in Counting
    BY <2>2, <2>8, <2>9, <2>12, KeptReceiver, SenderOnly
  <2>13. Kept(s, u)
    BY <2>2, <2>8, KeptTrans
  <2> QED BY <1>1, <2>7, <2>10, <2>11, <2>13
<1> QED BY <1>2, <1>3

(* What each acknowledgement of the loop over acks keeps, the loop keeps,  *)
(* the k-th leading from G[k-1] to G[k].                                   *)
LEMMA AckLoopTurns ==
  ASSUME NEW n \in Nat, NEW G, NEW s \in G[0],
         \A j \in 0..n : \A k \in 0..n : j <= k => G[j] \subseteq G[k],
         \A k \in 1..n : \A x \in G[k-1] : AckOldest(x, k) \in G[k]
  PROVE  AckLoop(s, n) \in G[n]
<1> DEFINE seq == [i \in 1..n |-> i]
           F == [q \in G[n] \X (1..n) |-> AckOldest(q[1], q[2])]
           IsFold(h) == h = [t \in SUBSET (DOMAIN seq) |->
                              IF t = {} THEN s ELSE AckOldest(h[t \ {Max(t)}], seq[Max(t)])]
           iter == CHOOSE h : IsFold(h)
<1>1. DOMAIN seq = 1..n /\ \A i \in 1..n : seq[i] = i
  OBVIOUS
<1> HIDE DEF seq
<1>2. AckLoop(s, n) = iter[1..n]
  BY <1>1 DEF AckLoop, FoldLeft, MapThenFoldSet, seq
<1>3. \A x \in G[n], k \in 1..n : F[<<x, k>>] = AckOldest(x, k)
  OBVIOUS
<1>4. \A k \in 1..n : G[k-1] \subseteq G[n]
  <2>1. \A k \in 1..n : k-1 \in 0..n /\ n \in 0..n /\ k-1 <= n
    OBVIOUS
  <2> QED BY <2>1
<1> HIDE DEF F
<1>5. PICK g : /\ g = [t \in SUBSET (1..n) |-> IF t = {} THEN s ELSE F[<<g[t \ {Max(t)}], Max(t)>>]]
               /\ \A t \in SUBSET (1..n) : t # {} =>
                    Max(t) \in 1..n /\ t \ {Max(t)} \in SUBSET (1..n) /\ g[t \ {Max(t)}] \in G[Max(t)-1]
  <2>1. ASSUME NEW k \in 1..n, NEW x \in G[k-1] PROVE F[<<x, k>>] = AckOldest(x, k)
    <3>1. x \in G[n]
      BY <1>4
    <3> QED BY <1>3, <3>1
  <2>2. ASSUME NEW k \in 1..n, NEW x \in G[k-1] PROVE F[<<x, k>>] \in G[k]
    <3>1. AckOldest(x, k) \in G[k]
      OBVIOUS
    <3> QED BY <2>1, <3>1
  <2>3. HasFold(n, G, s, F)
    <3>1. s \in G[0]
      OBVIOUS
    <3>2. \A j \in 0..n : \A k \in 0..n : j <= k => G[j] \subseteq G[k]
      OBVIOUS
    <3> QED BY ONLY <2>2, <3>1, <3>2, n \in Nat, FoldExists
  <2> QED BY <2>3 DEF HasFold
<1>6. ASSUME NEW t \in SUBSET (1..n), t # {}
      PROVE F[<<g[t \ {Max(t)}], Max(t)>>] = AckOldest(g[t \ {Max(t)}], seq[Max(t)])
  <2> DEFINE k == Max(t)
             x == g[t \ {k}]
  <2>1. k \in 1..n /\ x \in G[k-1]
    BY <1>5, <1>6
  <2> HIDE DEF k, x
  <2>2. F[<<x, k>>] = AckOldest(x, seq[k])
    BY <1>1, <1>3, <1>4, <2>1
  <2> QED BY <2>2 DEF k, x
<1>7. IsFold(g)
  <2>1. g = [t \in SUBSET (1..n) |-> IF t = {} THEN s ELSE F[<<g[t \ {Max(t)}], Max(t)>>]]
    BY <1>5
  <2> DEFINE same(t) == F[<<g[t \ {Max(t)}], Max(t)>>] = AckOldest(g[t \ {Max(t)}], seq[Max(t)])
  <2>2. \A t \in SUBSET (1..n) : t # {} => same(t)
    BY <1>6
  <2> QED BY <1>1, <2>1, <2>2
<1>8. IsFold(iter)
  BY <1>7
<1> HIDE DEF iter
<1>9. iter[{}] = s
  BY <1>1, <1>8
<1>10. ASSUME NEW k \in 1..n PROVE iter[1..k] = AckOldest(iter[1..k-1], k)
  <2>1. 1..k # {} /\ 1..k \in SUBSET (1..n) /\ Max(1..k) = k /\ (1..k) \ {k} = 1..k-1
    BY Prefix
  <2>2. iter[1..k] = AckOldest(iter[(1..k) \ {Max(1..k)}], seq[Max(1..k)])
    BY <1>1, <1>8, <2>1
  <2> HIDE DEF IsFold
  <2> QED BY <1>1, <2>1, <2>2
<1>11. iter[1..n] \in G[n]
  <2>1. iter[{}] \in G[0]
    BY <1>9
  <2>2. ASSUME NEW k \in 1..n, iter[1..k-1] \in G[k-1] PROVE iter[1..k] \in G[k]
    BY <1>10, <2>2
  <2> QED BY <2>1, <2>2, FoldStays
<1> QED BY <1>2, <1>11

LEMMA AckLoopCounts ==
  ASSUME NEW s \in Counting, NEW n \in Nat, n <= Len(s.outbuf)
  PROVE  AckLoop(s, n) \in Counting /\ Kept(s, AckLoop(s, n))
<1> DEFINE m == Len(s.outbuf)
           G == [k \in 0..n |-> {x \in Counting : Kept(s, x) /\ Len(x.outbuf) >= m - k}]
<1>3. s \in Socket /\ m \in Nat /\ n <= m
  <2>1. s \in Socket
    BY DEF Counting
  <2> QED BY <2>1, Outbuf
<1>4. \A k \in 0..n : G[k] = {x \in Counting : Kept(s, x) /\ Len(x.outbuf) >= m - k}
  OBVIOUS
<1> HIDE DEF G, m
<1>6. s \in G[0]
  <2>1. 0 \in 0..n /\ Len(s.outbuf) >= m - 0
    BY <1>3 DEF m
  <2> QED BY <1>4, <2>1, KeptSelf
<1>7. \A j \in 0..n : \A k \in 0..n : j <= k => G[j] \subseteq G[k]
  <2> SUFFICES ASSUME NEW j \in 0..n, NEW k \in 0..n, j <= k, NEW x \in G[j] PROVE x \in G[k]
    OBVIOUS
  <2>1. x \in Counting /\ Kept(s, x) /\ Len(x.outbuf) >= m - j
    BY <1>4
  <2>2. x \in Socket
    BY <2>1 DEF Counting
  <2>3. Len(x.outbuf) \in Nat
    BY <2>2, Outbuf
  <2>4. Len(x.outbuf) >= m - k
    BY <1>3, <2>1, <2>3
  <2> QED BY <1>4, <2>1, <2>4
<1>8. ASSUME NEW k \in 1..n, NEW x \in G[k-1]
      PROVE AckOldest(x, k) \in G[k]
  <2>1. k \in 0..n /\ k-1 \in 0..n
    OBVIOUS
  <2>2. x \in Counting /\ Kept(s, x) /\ Len(x.outbuf) >= m - (k - 1)
    BY <1>4, <2>1
  <2>3. x \in Socket
    BY <2>2 DEF Counting
  <2>4. Len(x.outbuf) \in Nat
    BY <2>3, Outbuf
  <2>5. Len(x.outbuf) # 0
    BY <1>3, <2>2, <2>4
  <2>6. x.outbuf # << >>
    BY <2>5
  <2>7. /\ AckOldest(x, k) \in Counting /\ Len(AckOldest(x, k).outbuf) >= Len(x.outbuf) - 1
        /\ Kept(s, AckOldest(x, k))
    BY <2>2, <2>6, AckOldestCounts, KeptTrans
  <2>8. AckOldest(x, k) \in Socket
    BY <2>7 DEF Counting
  <2>9. Len(AckOldest(x, k).outbuf) \in Nat
    BY <2>8, Outbuf
  <2>10. Len(AckOldest(x, k).outbuf) >= m - k
    BY <1>3, <2>2, <2>4, <2>7, <2>9
  <2> QED BY <1>4, <2>1, <2>2, <2>7, <2>10
<1>9. AckLoop(s, n) \in G[n]
  BY <1>6, <1>7, <1>8, AckLoopTurns
<1>10. n \in 0..n
  OBVIOUS
<1> QED BY <1>4, <1>9, <1>10

(* Empty places in front are cut off, up to a packet.                      *)
LEMMA SkipAckedCuts ==
  ASSUME NEW s \in Socket
  PROVE  \E d \in 0..Len(s.outbuf) :
           LET rest == SubSeq(s.outbuf, d + 1, Len(s.outbuf))
           IN  /\ \A j \in 1..d : s.outbuf[j] = NULL
               /\ SkipAcked(s) = [s EXCEPT !.outbuf = rest]
               /\ rest # << >> => rest[1] # NULL
<1> DEFINE n == Len(s.outbuf)
           live == {i \in 1..n : s.outbuf[i] # NULL}
           d == IF live = {} THEN n ELSE Min(live) - 1
           rest == SubSeq(s.outbuf, d + 1, n)
           t == [s EXCEPT !.outbuf = rest]
<1>2. s.outbuf \in Seq(Packet \cup {NULL}) /\ n \in Nat
  BY Outbuf
<1>3. live # {} => Min(live) \in live /\ \A i \in live : Min(live) <= i
  <2> SUFFICES ASSUME live # {} PROVE Min(live) \in live /\ \A i \in live : Min(live) <= i
    OBVIOUS
  <2>1. live \in SUBSET Nat
    OBVIOUS
  <2> HIDE DEF live
  <2>2. \E x \in live : \A y \in live : x <= y
    BY <2>1, LeastOf
  <2> QED BY <2>2 DEF Min
<1>4. d \in 0..n /\ \A j \in 1..d : s.outbuf[j] = NULL
  <2>1. CASE live = {}
    <3>1. d = n /\ \A j \in 1..n : s.outbuf[j] = NULL
      BY <2>1
    <3> HIDE DEF n, d
    <3> QED BY <1>2, <3>1
  <2>2. CASE live # {}
    <3> DEFINE l == Min(live)
    <3>1. l \in 1..n /\ \A i \in live : l <= i
      BY <1>3, <2>2
    <3>2. d = l - 1
      BY <2>2
    <3> HIDE DEF l, d
    <3>3. d \in 0..n
      BY <1>2, <3>1, <3>2
    <3>4. ASSUME NEW j \in 1..d PROVE s.outbuf[j] = NULL
      <4>1. j \in 1..n /\ ~(l <= j)
        BY <1>2, <3>1, <3>2
      <4> QED BY <3>1, <4>1
    <3> QED BY <3>3, <3>4
  <2> QED BY <2>1, <2>2
<1>5. /\ rest \in Seq(Packet \cup {NULL}) /\ Len(rest) = n - d
      /\ \A j \in 1..Len(rest) : rest[j] = s.outbuf[j + d]
      /\ Cardinality(InFlight(rest)) = Cardinality(InFlight(s.outbuf))
  <2> HIDE DEF d
  <2> QED BY <1>2, <1>4, ShiftedFlight
<1>6. SkipAcked(s) = t
  <2>1. rest = IF live = {} THEN << >> ELSE SubSeq(s.outbuf, Min(live), n)
    <3>1. CASE live = {}
      <4>1. Len(rest) = 0
        BY <1>2, <1>5, <3>1
      <4> HIDE DEF rest
      <4>2. rest = << >>
        BY <1>5, <4>1
      <4> QED BY <3>1, <4>2
    <3>2. CASE live # {}
      <4>1. d + 1 = Min(live)
        BY <1>3, <3>2
      <4> QED BY <3>2, <4>1
    <3> QED BY <3>1, <3>2
  <2> HIDE DEF rest
  <2> QED BY <2>1 DEF SkipAcked, Packets
<1>7. rest # << >> => rest[1] # NULL
  <2> SUFFICES ASSUME rest # << >> PROVE rest[1] # NULL
    OBVIOUS
  <2>1. n - d # 0 /\ n - d \in Nat /\ Len(rest) = n - d
    <3> HIDE DEF d, n
    <3>1. Len(rest) # 0
      <4> HIDE DEF rest
      <4> QED BY <1>5
    <3> QED BY <1>2, <1>4, <1>5, <3>1
  <2>2. live # {}
    BY <2>1, <1>2
  <2>3. d + 1 = Min(live) /\ 1 + d = Min(live) /\ Min(live) \in live
    BY <1>3, <2>2
  <2>4. 1 \in 1..Len(rest)
    <3> HIDE DEF rest, d, n
    <3> QED BY <2>1
  <2>5. rest[1] = s.outbuf[1 + d]
    BY <1>5, <2>4
  <2>6. s.outbuf[Min(live)] # NULL
    BY <2>3
  <2> HIDE DEF rest, live, d
  <2> QED BY <2>3, <2>5, <2>6
<1> HIDE DEF live, d
<1> QED BY <1>4, <1>6, <1>7

LEMMA SkipAckedKeeps ==
  ASSUME NEW s \in Counting PROVE SkipAcked(s) \in Good /\ Kept(s, SkipAcked(s))
<1>1. s \in Socket /\ s.cur_window = Cardinality(InFlight(s.outbuf))
  BY DEF Counting
<1> DEFINE n == Len(s.outbuf)
<1>2. PICK d \in 0..n :
        LET rest == SubSeq(s.outbuf, d + 1, n)
        IN  /\ \A j \in 1..d : s.outbuf[j] = NULL
            /\ SkipAcked(s) = [s EXCEPT !.outbuf = rest]
            /\ rest # << >> => rest[1] # NULL
  BY <1>1, SkipAckedCuts
<1> DEFINE rest == SubSeq(s.outbuf, d + 1, n)
           t == [s EXCEPT !.outbuf = rest]
<1>3. /\ rest \in Seq(Packet \cup {NULL}) /\ Cardinality(InFlight(rest)) = Cardinality(InFlight(s.outbuf))
      /\ Len(rest) <= Len(s.outbuf)
  <2>1. /\ rest \in Seq(Packet \cup {NULL}) /\ Cardinality(InFlight(rest)) = Cardinality(InFlight(s.outbuf))
        /\ Len(rest) = n - d
    BY <1>1, <1>2, Outbuf, ShiftedFlight
  <2>2. n \in Nat
    BY <1>1, Outbuf
  <2> HIDE DEF rest
  <2> QED BY <2>1, <2>2
<1>4. SkipAcked(s) = t /\ (rest # << >> => rest[1] # NULL)
  BY <1>2
<1> HIDE DEF rest
<1>5. t \in Socket /\ t.outbuf = rest /\ t.cur_window = s.cur_window /\ Kept(s, t)
  BY <1>1, <1>3 DEF Socket, Kept
<1> HIDE DEF t
<1>6. t.cur_window = Cardinality(InFlight(t.outbuf)) /\ Len(t.outbuf) <= Len(s.outbuf)
  BY <1>1, <1>3, <1>5
<1>7. t \in Counting
  BY <1>5, <1>6, KeptReceiver, SenderOnly
<1> QED BY <1>4, <1>5, <1>7 DEF Good

LEMMA FlushNagleKeeps ==
  ASSUME NEW s \in Good PROVE FlushNagle(s) \in Good /\ Kept(s, FlushNagle(s))
<1>1. s \in Socket
  BY GoodSocket
<1>2. ASSUME Packets(s) = 1 PROVE SendPacket(s, 1) \in Good /\ Kept(s, SendPacket(s, 1))
  <2>1. 1 \in DOMAIN s.outbuf /\ s.outbuf # << >>
    BY <1>1, <1>2, Outbuf DEF Packets
  <2>2. s.outbuf[1] # NULL
    BY <2>1 DEF Good
  <2> QED BY <2>1, <2>2, SendPacketKeeps
<1> QED BY <1>2, KeptSelf DEF FlushNagle

LEMMA FastTimeoutKeeps ==
  ASSUME NEW s \in Good PROVE FastTimeout(s) \in Good /\ Kept(s, FastTimeout(s))
<1> DEFINE t == [s EXCEPT !.fast_timeout = FALSE]
           u == [s EXCEPT !.fast_resend_seq_nr = Mod(@ + 1)]
<1>1. s \in Socket
  BY GoodSocket
<1>2. t \in Good /\ Kept(s, t)
  <2>1. t \in Socket /\ SameBuffers(s, t) /\ Kept(s, t)
    BY <1>1 DEF Socket, SameBuffers, SameReceiver, Kept
  <2> HIDE DEF t
  <2> QED BY <2>1, SameBuffersGood
<1>3. u \in Good /\ u.outbuf = s.outbuf /\ Kept(s, u)
  <2>1. Mod(s.fast_resend_seq_nr + 1) \in Number
    <3>1. s.fast_resend_seq_nr + 1 \in Int
      BY <1>1 DEF Socket, Number
    <3> QED BY <3>1, ModNumber
  <2>2. u \in Socket /\ SameBuffers(s, u) /\ u.outbuf = s.outbuf /\ Kept(s, u)
    BY <1>1, <2>1 DEF Socket, SameBuffers, SameReceiver, Kept
  <2> HIDE DEF u
  <2> QED BY <2>2, SameBuffersGood
<1>4. ASSUME Packets(s) > 0, s.outbuf[1] # NULL
      PROVE SendPacket(u, 1) \in Good /\ Kept(s, SendPacket(u, 1))
  <2>1. 1 \in DOMAIN s.outbuf
    BY <1>1, <1>4, Outbuf DEF Packets
  <2> HIDE DEF u
  <2>2. 1 \in DOMAIN u.outbuf /\ u.outbuf[1] # NULL
    BY <1>3, <1>4, <2>1
  <2> QED BY <1>3, <2>2, SendPacketKeeps, KeptTrans
<1>5. FastTimeout(s) \in {s, t} \cup
        (IF Packets(s) > 0 /\ s.outbuf[1] # NULL THEN {SendPacket(u, 1)} ELSE {})
  BY DEF FastTimeout
<1> HIDE DEF t, u
<1> QED BY <1>2, <1>4, <1>5, KeptSelf

(* The two loops of selective_ack                                          *)
AcksAll(s, seen, n) ==
  FoldLeft(LAMBDA x, i : IF i \in seen THEN AckPacket(x, i) ELSE x, s, [i \in 1..n |-> i])

ResendsAll(s, again, n) ==
  FoldLeft(LAMBDA x, i : IF i \in again THEN Resend(x, i) ELSE x, s, [i \in 1..n |-> i])

LEMMA AckTurns ==
  ASSUME NEW n \in Nat, NEW S, NEW s \in S, NEW seen,
         \A x \in S : \A i \in 1..n : (IF i \in seen THEN AckPacket(x, i) ELSE x) \in S
  PROVE  AcksAll(s, seen, n) \in S
<1> DEFINE op(x, i) == (IF i \in seen THEN AckPacket(x, i) ELSE x)
           seq == [i \in 1..n |-> i]
           F == [q \in S \X (1..n) |-> op(q[1], q[2])]
           IsFold(h) == h = [t \in SUBSET (DOMAIN seq) |->
                              IF t = {} THEN s ELSE op(h[t \ {Max(t)}], seq[Max(t)])]
           iter == CHOOSE h : IsFold(h)
<1>1. DOMAIN seq = 1..n /\ \A i \in 1..n : seq[i] = i
  OBVIOUS
<1> HIDE DEF seq
<1>3. AcksAll(s, seen, n) = iter[1..n]
  BY <1>1 DEF AcksAll, FoldLeft, MapThenFoldSet, seq
<1>4. \A x \in S, i \in 1..n : op(x, i) \in S
  OBVIOUS
<1> HIDE DEF op
<1>5. \A x \in S, i \in 1..n : F[<<x, i>>] = op(x, i)
  OBVIOUS
<1> HIDE DEF F
<1>6. PICK g : /\ g = [t \in SUBSET (1..n) |-> IF t = {} THEN s ELSE F[<<g[t \ {Max(t)}], Max(t)>>]]
               /\ \A t \in SUBSET (1..n) : t # {} =>
                    Max(t) \in 1..n /\ g[t \ {Max(t)}] \in S
  <2>1. HasFoldIn(n, S, s, F)
    BY <1>4, <1>5, FoldWithin
  <2> QED BY <2>1 DEF HasFoldIn
<1>7. ASSUME NEW t \in SUBSET (1..n), t # {}
      PROVE F[<<g[t \ {Max(t)}], Max(t)>>] = op(g[t \ {Max(t)}], seq[Max(t)])
  <2> DEFINE k == Max(t)
             x == g[t \ {k}]
  <2>1. k \in 1..n /\ x \in S
    BY <1>6, <1>7
  <2> HIDE DEF k, x
  <2>2. F[<<x, k>>] = op(x, seq[k])
    BY <1>1, <1>5, <2>1
  <2> QED BY <2>2 DEF k, x
<1>8. IsFold(g)
  BY <1>1, <1>6, <1>7
<1>9. IsFold(iter)
  BY <1>8
<1> HIDE DEF iter
<1>10. iter[{}] = s
  BY <1>1, <1>9
<1>11. ASSUME NEW k \in 1..n PROVE iter[1..k] = op(iter[1..k-1], k)
  <2>1. 1..k # {} /\ 1..k \in SUBSET (1..n) /\ Max(1..k) = k /\ (1..k) \ {k} = 1..k-1
    BY Prefix
  <2>3. iter[1..k] = op(iter[(1..k) \ {Max(1..k)}], seq[Max(1..k)])
    BY <1>1, <1>9, <2>1
  <2> HIDE DEF IsFold
  <2> QED BY <1>1, <2>1, <2>3
<1>12. iter[1..n] \in S
  <2> DEFINE G == [k \in 0..n |-> S]
  <2>1. \A k \in 0..n : G[k] = S
    OBVIOUS
  <2> HIDE DEF G
  <2>2. 0 \in 0..n /\ n \in 0..n /\ \A k \in 1..n : k \in 0..n /\ k-1 \in 0..n
    OBVIOUS
  <2>3. iter[{}] \in G[0]
    BY <1>10, <2>1, <2>2
  <2>4. ASSUME NEW k \in 1..n, iter[1..k-1] \in G[k-1] PROVE iter[1..k] \in G[k]
    <3>1. iter[1..k-1] \in S
      BY <2>1, <2>2, <2>4
    <3>2. op(iter[1..k-1], k) \in S
      BY <1>4, <3>1
    <3> QED BY <1>11, <2>1, <2>2, <3>2
  <2>5. iter[1..n] \in G[n]
    BY <2>3, <2>4, FoldStays
  <2> QED BY <2>1, <2>2, <2>5
<1> QED BY <1>3, <1>12

(* Packets after the oldest are acknowledged.                              *)
LEMMA AckAllKeeps ==
  ASSUME NEW s \in Good, NEW seen \in SUBSET (1..Len(s.outbuf)), 1 \notin seen
  PROVE  AcksAll(s, seen, Len(s.outbuf)) \in Within(s, Len(s.outbuf))
<1> DEFINE n == Len(s.outbuf)
           op(x, i) == IF i \in seen THEN AckPacket(x, i) ELSE x
           S == Within(s, n)
<1>1. s \in S /\ n \in Nat
  BY WithinSelf
<1> HIDE DEF n
<1>4. ASSUME NEW x \in S, NEW i \in 1..n PROVE op(x, i) \in S
  <2>1. /\ x \in Good /\ x \in Counting /\ x \in Socket /\ DOMAIN x.outbuf = 1..n
        /\ Len(x.outbuf) = n /\ Kept(s, x)
    BY WithinSocket
  <2>2. CASE i \in seen
    <3> DEFINE t == AckPacket(x, i)
    <3>1. /\ t \in Counting /\ Len(t.outbuf) = Len(x.outbuf) /\ Kept(x, t)
          /\ \A j \in DOMAIN x.outbuf : j # i => t.outbuf[j] = x.outbuf[j]
      BY <2>1, AckPacketCounts
    <3> HIDE DEF t
    <3>2. 1 # i /\ 1 \in 1..n
      BY <1>1, <2>2
    <3>3. x.outbuf # << >>
      BY <2>1, <3>2
    <3>4. t.outbuf[1] # NULL
      BY <2>1, <3>1, <3>2, <3>3 DEF Good
    <3>5. t \in Within(s, n)
      BY <2>1, <3>1, <3>4, KeptTrans DEF Good, Sized, Within
    <3> QED BY <2>2, <3>5 DEF t
  <2>3. CASE i \notin seen
    BY <2>3
  <2> QED BY <2>2, <2>3
<1>5. \A x \in S : \A i \in 1..n : (IF i \in seen THEN AckPacket(x, i) ELSE x) \in S
  BY <1>4
<1> HIDE DEF S
<1>6. AcksAll(s, seen, n) \in S
  BY <1>1, <1>5, AckTurns
<1> QED BY <1>6 DEF S, n

LEMMA ResendTurns ==
  ASSUME NEW n \in Nat, NEW S, NEW s \in S, NEW again,
         \A x \in S : \A i \in 1..n : (IF i \in again THEN Resend(x, i) ELSE x) \in S
  PROVE  ResendsAll(s, again, n) \in S
<1> DEFINE op(x, i) == (IF i \in again THEN Resend(x, i) ELSE x)
           seq == [i \in 1..n |-> i]
           F == [q \in S \X (1..n) |-> op(q[1], q[2])]
           IsFold(h) == h = [t \in SUBSET (DOMAIN seq) |->
                              IF t = {} THEN s ELSE op(h[t \ {Max(t)}], seq[Max(t)])]
           iter == CHOOSE h : IsFold(h)
<1>1. DOMAIN seq = 1..n /\ \A i \in 1..n : seq[i] = i
  OBVIOUS
<1> HIDE DEF seq
<1>3. ResendsAll(s, again, n) = iter[1..n]
  BY <1>1 DEF ResendsAll, FoldLeft, MapThenFoldSet, seq
<1>4. \A x \in S, i \in 1..n : op(x, i) \in S
  OBVIOUS
<1> HIDE DEF op
<1>5. \A x \in S, i \in 1..n : F[<<x, i>>] = op(x, i)
  OBVIOUS
<1> HIDE DEF F
<1>6. PICK g : /\ g = [t \in SUBSET (1..n) |-> IF t = {} THEN s ELSE F[<<g[t \ {Max(t)}], Max(t)>>]]
               /\ \A t \in SUBSET (1..n) : t # {} =>
                    Max(t) \in 1..n /\ g[t \ {Max(t)}] \in S
  <2>1. HasFoldIn(n, S, s, F)
    BY <1>4, <1>5, FoldWithin
  <2> QED BY <2>1 DEF HasFoldIn
<1>7. ASSUME NEW t \in SUBSET (1..n), t # {}
      PROVE F[<<g[t \ {Max(t)}], Max(t)>>] = op(g[t \ {Max(t)}], seq[Max(t)])
  <2> DEFINE k == Max(t)
             x == g[t \ {k}]
  <2>1. k \in 1..n /\ x \in S
    BY <1>6, <1>7
  <2> HIDE DEF k, x
  <2>2. F[<<x, k>>] = op(x, seq[k])
    BY <1>1, <1>5, <2>1
  <2> QED BY <2>2 DEF k, x
<1>8. IsFold(g)
  BY <1>1, <1>6, <1>7
<1>9. IsFold(iter)
  BY <1>8
<1> HIDE DEF iter
<1>10. iter[{}] = s
  BY <1>1, <1>9
<1>11. ASSUME NEW k \in 1..n PROVE iter[1..k] = op(iter[1..k-1], k)
  <2>1. 1..k # {} /\ 1..k \in SUBSET (1..n) /\ Max(1..k) = k /\ (1..k) \ {k} = 1..k-1
    BY Prefix
  <2>3. iter[1..k] = op(iter[(1..k) \ {Max(1..k)}], seq[Max(1..k)])
    BY <1>1, <1>9, <2>1
  <2> HIDE DEF IsFold
  <2> QED BY <1>1, <2>1, <2>3
<1>12. iter[1..n] \in S
  <2> DEFINE G == [k \in 0..n |-> S]
  <2>1. \A k \in 0..n : G[k] = S
    OBVIOUS
  <2> HIDE DEF G
  <2>2. 0 \in 0..n /\ n \in 0..n /\ \A k \in 1..n : k \in 0..n /\ k-1 \in 0..n
    OBVIOUS
  <2>3. iter[{}] \in G[0]
    BY <1>10, <2>1, <2>2
  <2>4. ASSUME NEW k \in 1..n, iter[1..k-1] \in G[k-1] PROVE iter[1..k] \in G[k]
    <3>1. iter[1..k-1] \in S
      BY <2>1, <2>2, <2>4
    <3>2. op(iter[1..k-1], k) \in S
      BY <1>4, <3>1
    <3> QED BY <1>11, <2>1, <2>2, <3>2
  <2>5. iter[1..n] \in G[n]
    BY <2>3, <2>4, FoldStays
  <2> QED BY <2>1, <2>2, <2>5
<1> QED BY <1>3, <1>12

(* Packets are sent again.                                                 *)
LEMMA ResendAllKeeps ==
  ASSUME NEW s \in Good, NEW again \in SUBSET (1..Len(s.outbuf)),
         \A i \in again : s.outbuf[i] # NULL
  PROVE  ResendsAll(s, again, Len(s.outbuf)) \in Within(s, Len(s.outbuf))
<1> DEFINE n == Len(s.outbuf)
           op(x, i) == IF i \in again THEN Resend(x, i) ELSE x
           S == {x \in Within(s, n) : \A j \in 1..n : x.outbuf[j] = NULL <=> s.outbuf[j] = NULL}
<1>1. s \in S /\ n \in Nat
  BY WithinSelf
<1> HIDE DEF n
<1>4. ASSUME NEW x \in S, NEW i \in 1..n PROVE op(x, i) \in S
  <2>1. /\ x \in Good /\ x \in Socket /\ DOMAIN x.outbuf = 1..n /\ Len(x.outbuf) = n
        /\ Kept(s, x) /\ \A j \in 1..n : x.outbuf[j] = NULL <=> s.outbuf[j] = NULL
    <3>1. x \in Within(s, n)
      OBVIOUS
    <3> QED BY <3>1, WithinSocket
  <2>2. CASE i \in again
    <3> DEFINE t == SendPacket(x, i)
               u == [t EXCEPT !.fast_resend_seq_nr = Mod(Oldest(x) + i)]
    <3>1. i \in DOMAIN x.outbuf /\ x.outbuf[i] # NULL
      BY <2>1, <2>2
    <3>2. t \in Good /\ SamePlaces(x, t) /\ Kept(x, t)
      BY <2>1, <3>1, SendPacketKeeps
    <3>3. op(x, i) = u
      BY <2>2 DEF Resend
    <3> HIDE DEF t
    <3>4. t \in Socket
      BY <3>2, GoodSocket
    <3>5. Mod(Oldest(x) + i) \in Number
      <4>1. Oldest(x) + i \in Int
        BY <2>1, <1>1, Outbuf DEF Number
      <4> QED BY <4>1, ModNumber
    <3>6. u \in Socket /\ SameBuffers(t, u) /\ u.outbuf = t.outbuf /\ Kept(t, u)
      BY <3>4, <3>5 DEF Socket, SameBuffers, SameReceiver, Kept
    <3> HIDE DEF u
    <3>7. u \in Good /\ Kept(s, u)
      BY <2>1, <3>2, <3>6, SameBuffersGood, KeptTrans
    <3>8. Len(u.outbuf) = n /\ \A j \in 1..n : u.outbuf[j] = NULL <=> s.outbuf[j] = NULL
      BY <2>1, <3>2, <3>6 DEF SamePlaces
    <3>9. u \in S
      BY <3>7, <3>8 DEF Sized, Within
    <3> QED BY <3>3, <3>9
  <2>3. CASE i \notin again
    BY <2>3
  <2> QED BY <2>2, <2>3
<1>5. \A x \in S : \A i \in 1..n : (IF i \in again THEN Resend(x, i) ELSE x) \in S
  BY <1>4
<1>6. \A x \in S : x \in Within(s, n)
  OBVIOUS
<1> HIDE DEF S
<1>7. ResendsAll(s, again, n) \in S
  BY <1>1, <1>5, ResendTurns
<1> QED BY <1>6, <1>7 DEF n

LEMMA SelectiveAckKeeps ==
  ASSUME NEW s \in Good, NEW ack, NEW sack
  PROVE  LET t == SelectiveAck(s, ack, sack) IN t \in Good /\ Kept(s, t)
<1> DEFINE places   == 1..Packets(s)
           number(i) == Mod(Oldest(s) + i - 1)
           seen     == {i \in places : i > 1 /\ number(i) \in sack}
           above(i) == {j \in seen : j > i}
           acked    == FoldLeft(LAMBDA x, i : IF i \in seen THEN AckPacket(x, i) ELSE x,
                                s, [i \in places |-> i])
           sent(i)  == s.outbuf[i] # NULL /\ s.outbuf[i].transmissions > 0
           lost     == {i \in places \ seen :
                         /\ NotYetResent(s, i) /\ Cardinality(above(i)) >= DupAcks
                         /\ number(i) = Mod(ack + 1) \/ (i > 1 /\ sent(i))
                         /\ acked.outbuf[i] # NULL}
           again    == {i \in lost : Cardinality({j \in lost : j < i}) < MaxResend}
           done     == FoldLeft(LAMBDA x, i : IF i \in again THEN Resend(x, i) ELSE x,
                                acked, [i \in places |-> i])
<1>1. SelectiveAck(s, ack, sack) \in {s, done}
  BY DEF SelectiveAck
<1>2. again \subseteq 1..Len(s.outbuf) /\ \A i \in again : acked.outbuf[i] # NULL
  BY DEF Packets
<1>3. seen \subseteq 1..Len(s.outbuf) /\ 1 \notin seen
  BY DEF Packets
<1> HIDE DEF again, seen
<1>4. acked \in Within(s, Len(s.outbuf))
  <2>1. acked = AcksAll(s, seen, Len(s.outbuf))
    BY DEF Packets, AcksAll
  <2>2. seen \in SUBSET (1..Len(s.outbuf))
    BY <1>3
  <2> HIDE DEF acked
  <2> QED BY <1>3, <2>1, <2>2, AckAllKeeps
<1> HIDE DEF acked
<1>5. acked \in Good /\ Len(acked.outbuf) = Len(s.outbuf) /\ Kept(s, acked)
  BY <1>4, WithinSocket
<1>6. again \in SUBSET (1..Len(acked.outbuf))
  BY <1>2, <1>5
<1>7. done = ResendsAll(acked, again, Len(acked.outbuf))
  BY <1>5 DEF Packets, ResendsAll
<1> HIDE DEF done
<1>8. done \in Within(acked, Len(acked.outbuf))
  BY <1>2, <1>5, <1>6, <1>7, ResendAllKeeps
<1>9. done \in Good /\ Kept(s, done)
  BY <1>5, <1>8, WithinSocket, KeptTrans
<1> QED BY <1>1, <1>9, KeptSelf

LEMMA AcksBound == ASSUME NEW s \in Socket, NEW m \in Message
                   PROVE Acks(s, m) \in Nat /\ Acks(s, m) <= Len(s.outbuf)
<1> DEFINE n == Mod(m.ack - (s.seq_nr - 1 - Packets(s)))
<1>1. m.ack \in Number /\ s.seq_nr \in Number
  BY DEF Socket, Message
<1>2. Packets(s) \in Nat /\ Packets(s) = Len(s.outbuf)
  BY Outbuf DEF Packets
<1>3. m.ack - (s.seq_nr - 1 - Packets(s)) \in Int
  BY <1>1, <1>2 DEF Number
<1>4. n \in Nat
  <2>1. n \in Number
    BY <1>3, ModNumber
  <2> HIDE DEF n
  <2> QED BY <2>1 DEF Number
<1>5. Acks(s, m) = IF n > Packets(s) THEN 0 ELSE n
  BY DEF Acks
<1> HIDE DEF n
<1> QED BY <1>2, <1>4, <1>5

LEMMA AcknowledgeKeeps ==
  ASSUME NEW s \in Good, NEW m \in Message, NEW w \in 0..Window
  PROVE  Acknowledge(s, m, w) \in Good /\ SameReceiver(s, Acknowledge(s, m, w))
<1> DEFINE n == Acks(s, m)
           after == Mod(m.ack + 1)
           state == IF s.state = "FIN_SENT" /\ Packets(s) = n THEN "DESTROY" ELSE s.state
           fast == IF WrappingLess(s.fast_resend_seq_nr, after) THEN after ELSE s.fast_resend_seq_nr
           s1 == [s EXCEPT !.max_window = w, !.state = state, !.fast_resend_seq_nr = fast]
           s2 == AckLoop(s1, n)
           s3 == FlushNagle(SkipAcked(s2))
           s4 == SelectiveAck(FastTimeout(s3), m.ack, m.sack)
<1>1. s \in Socket
  BY GoodSocket
<1>2. after \in Number
  <2>1. m.ack + 1 \in Int
    BY DEF Message, Number
  <2> QED BY <2>1, ModNumber
<1>3. fast \in Number
  BY <1>1, <1>2 DEF Socket
<1>4. state \in State /\ (state \in Connected => s.state \in Connected)
  BY <1>1 DEF Socket, State, Connected
<1>5. Acknowledge(s, m, w) = Writable(s4)
  BY DEF Acknowledge
<1>6. n \in Nat /\ n <= Len(s.outbuf)
  BY <1>1, AcksBound
<1> HIDE DEF n, after, state, fast
<1>7. s1 \in Socket /\ SameBuffers(s, s1) /\ s1.outbuf = s.outbuf
  BY <1>1, <1>3, <1>4 DEF Socket, SameBuffers, SameReceiver
<1> HIDE DEF s1
<1>8. s1 \in Counting
  BY <1>7, SameBuffersGood, GoodSocket
<1>9. s2 \in Counting /\ Kept(s1, s2)
  BY <1>6, <1>7, <1>8, AckLoopCounts
<1> HIDE DEF s2
<1>10. s3 \in Good /\ Kept(s2, s3)
  BY <1>9, SkipAckedKeeps, FlushNagleKeeps, KeptTrans
<1> HIDE DEF s3
<1>11. s4 \in Good /\ Kept(s3, s4)
  BY <1>10, FastTimeoutKeeps, SelectiveAckKeeps, KeptTrans
<1> HIDE DEF s4
<1>12. Kept(s1, s4)
  BY <1>9, <1>10, <1>11, KeptTrans
<1>13. SameReceiver(s, s4)
  BY <1>7, <1>12, KeptReceiver, SameReceiverTrans DEF SameBuffers
<1> QED BY <1>5, <1>11, <1>13, WritableKeeps, SameReceiverTrans

-----------------------------------------------------------------------------
(* Receiving                                                               *)

(* Good sockets, but for the packet that is next, which may be there       *)
Receiving ==
  {s \in Socket :
     /\ s.cur_window = Cardinality(InFlight(s.outbuf)) /\ IsFiniteSet(s.inbuf)
     /\ Room(s) /\ Inbox(s, 0)
     /\ s.state \in Connected => s.reorder_count = Cardinality(s.inbuf)
     /\ s.outbuf # << >> => s.outbuf[1] # NULL}

NoneNext(s) == \A p \in s.inbuf : p.seq # Mod(s.ack_nr + 1)

(* Nothing is left that could be delivered.                                *)
Done(s) == s.reorder_count = 0 \/ NoneNext(s)

LEMMA BetweenFinite ==
  ASSUME NEW s \in Socket, IsFiniteSet(s.inbuf), NEW low
  PROVE  /\ Between(s, low) \subseteq s.inbuf /\ IsFiniteSet(Between(s, low))
         /\ Cardinality(Between(s, low)) \in Nat
<1>1. Between(s, low) \subseteq s.inbuf
  BY DEF Between
<1> QED BY <1>1, FS_Subset, FS_CardinalityType

LEMMA InboxWider ==
  ASSUME NEW s \in Socket, IsFiniteSet(s.inbuf), Inbox(s, 1) PROVE Inbox(s, 0)
<1>1. Between(s, 1) \subseteq Between(s, 0)
  <2>1. 1..(ReorderMax - 1) \subseteq 0..(ReorderMax - 1)
    BY SeqAssumption
  <2> QED BY <2>1 DEF Between
<1>2. /\ Cardinality(Between(s, 1)) <= Cardinality(Between(s, 0))
      /\ Cardinality(Between(s, 1)) \in Nat /\ Cardinality(Between(s, 0)) \in Nat
  BY <1>1, BetweenFinite, FS_Subset
<1> QED BY <1>2 DEF Inbox

LEMMA InboxNarrower ==
  ASSUME NEW s \in Socket, IsFiniteSet(s.inbuf), Inbox(s, 0), Done(s) PROVE Inbox(s, 1)
<1>1. CASE s.reorder_count = 0
  <2>1. Cardinality(Between(s, 1)) \in Nat
    BY BetweenFinite
  <2> QED BY <1>1, <2>1 DEF Inbox
<1>2. CASE NoneNext(s)
  <2>1. ASSUME NEW p \in Between(s, 0) PROVE p \in Between(s, 1)
    <3> DEFINE n == Mod(p.seq - s.ack_nr - 1)
    <3>1. p \in s.inbuf /\ n \in 0..(ReorderMax - 1)
      BY DEF Between
    <3>2. p.seq \in Number /\ s.ack_nr \in Number
      BY <3>1 DEF Socket
    <3>3. n # 0
      BY <1>2, <3>1, <3>2, ModFacts DEF NoneNext
    <3>4. n \in 1..(ReorderMax - 1)
      <4> HIDE DEF n
      <4> QED BY <3>1, <3>3, SeqAssumption
    <3> QED BY <3>1, <3>4 DEF Between
  <2>2. Between(s, 1) \subseteq Between(s, 0)
    <3>1. 1..(ReorderMax - 1) \subseteq 0..(ReorderMax - 1)
      BY SeqAssumption
    <3> QED BY <3>1 DEF Between
  <2>3. Between(s, 1) = Between(s, 0)
    BY <2>1, <2>2
  <2> QED BY <2>3 DEF Inbox
<1> QED BY <1>1, <1>2 DEF Done

LEMMA GoodReceiving ==
  \A s : s \in Good <=> s \in Receiving /\ Inbox(s, 1) /\ (s.state \in Connected => NoneNext(s))
<1> SUFFICES ASSUME NEW s
             PROVE s \in Good <=> s \in Receiving /\ Inbox(s, 1) /\ (s.state \in Connected => NoneNext(s))
  OBVIOUS
<1>1. s \in Good => Inbox(s, 0)
  BY InboxWider DEF Good, Counting
<1> QED BY <1>1 DEF Good, Counting, Receiving, NoneNext

LEMMA DoneGood == ASSUME NEW s \in Receiving, Done(s) PROVE s \in Good
<1>1. s \in Socket /\ IsFiniteSet(s.inbuf) /\ Inbox(s, 0)
  BY DEF Receiving
<1>2. Inbox(s, 1)
  BY <1>1, InboxNarrower
<1>3. ASSUME s.state \in Connected, s.reorder_count = 0 PROVE NoneNext(s)
  <2>1. Cardinality(s.inbuf) = 0
    BY <1>3 DEF Receiving
  <2>2. s.inbuf = {}
    BY <1>1, <2>1, FS_EmptySet
  <2> QED BY <2>2 DEF NoneNext
<1> QED BY <1>2, <1>3, GoodReceiving DEF Done

SameSender(s, t) == t.outbuf = s.outbuf /\ t.cur_window = s.cur_window

LEMMA ReceiverOnly ==
  ASSUME NEW s \in Receiving, NEW t \in Socket, SameSender(s, t), IsFiniteSet(t.inbuf), Inbox(t, 0),
         t.state \in Connected => s.state \in Connected /\ t.reorder_count = Cardinality(t.inbuf)
  PROVE  t \in Receiving
<1>1. Room(t)
  BY DEF Room, Receiving, SameSender
<1> QED BY <1>1 DEF Receiving, SameSender

LEMMA DeliverReceives ==
  ASSUME NEW s \in Receiving, Inbox(s, 1), NEW data \in Seq(Nat)
  PROVE  /\ Deliver(s, data) \in Receiving /\ Deliver(s, data).inbuf = s.inbuf
         /\ Deliver(s, data).state = s.state
<1> DEFINE r == IF s.state = "FIN_SENT" THEN s.read ELSE s.read \o data
           t == [s EXCEPT !.read = r, !.ack_nr = Mod(@ + 1)]
<1>1. s \in Socket /\ IsFiniteSet(s.inbuf)
  BY DEF Receiving
<1>2. r \in Seq(Nat)
  <2>1. s.read \in Seq(Nat)
    BY <1>1 DEF Socket
  <2> QED BY <2>1
<1>3. Mod(s.ack_nr + 1) \in Number /\ s.ack_nr \in Number
  <2>1. s.ack_nr + 1 \in Int /\ s.ack_nr \in Number
    BY <1>1 DEF Socket, Number
  <2> QED BY <2>1, ModNumber
<1>4. Deliver(s, data) = t
  BY DEF Deliver
<1> HIDE DEF r
<1>5. t \in Socket /\ SameSender(s, t) /\ t.inbuf = s.inbuf /\ t.reorder_count = s.reorder_count
      /\ t.state = s.state /\ t.ack_nr = Mod(s.ack_nr + 1)
  BY <1>1, <1>2, <1>3 DEF Socket, SameSender
<1> HIDE DEF t
<1>6. t.state \in Connected => s.state \in Connected /\ t.reorder_count = Cardinality(t.inbuf)
  BY <1>5 DEF Receiving
<1>7. ASSUME NEW p \in Between(s, 1) PROVE p \in Between(t, 0)
  <2> DEFINE n == Mod(p.seq - s.ack_nr - 1)
  <2>1. p \in s.inbuf /\ n \in 1..(ReorderMax - 1)
    BY DEF Between
  <2>2. p.seq \in Number
    BY <1>1, <2>1 DEF Socket
  <2>3. n # 0 /\ n - 1 \in 0..(ReorderMax - 1)
    <3> HIDE DEF n
    <3> QED BY <2>1, SeqAssumption
  <2>4. Mod(p.seq - Mod(s.ack_nr + 1) - 1) = n - 1
    BY <1>3, <2>2, <2>3, AheadOfNext
  <2>5. Mod(p.seq - t.ack_nr - 1) = n - 1
    BY <1>5, <2>4
  <2> HIDE DEF n
  <2> QED BY <1>5, <2>1, <2>3, <2>5 DEF Between
<1>8. Inbox(t, 0)
  <2>1. IsFiniteSet(t.inbuf)
    BY <1>1, <1>5
  <2>2. Between(s, 1) \subseteq Between(t, 0) /\ IsFiniteSet(Between(t, 0))
    BY <1>5, <1>7, <2>1, BetweenFinite
  <2>3. /\ Cardinality(Between(s, 1)) <= Cardinality(Between(t, 0))
        /\ Cardinality(Between(s, 1)) \in Nat /\ Cardinality(Between(t, 0)) \in Nat
    BY <2>2, FS_Subset, FS_CardinalityType
  <2> QED BY <1>5, <2>3 DEF Inbox
<1> QED BY <1>1, <1>4, <1>5, <1>6, <1>8, ReceiverOnly

LEMMA Counted ==
  ASSUME NEW u \in Socket, NEW r \in Int
  PROVE  [u EXCEPT !.reorder_count = r] \in Socket
BY DEF Socket

LEMMA CountReset ==
  ASSUME NEW u \in Socket
  PROVE  LET v == [u EXCEPT !.reorder_count = 0]
         IN  /\ v \in Socket /\ v.outbuf = u.outbuf /\ v.cur_window = u.cur_window
             /\ v.state = u.state /\ v.inbuf = u.inbuf /\ v.reorder_count = 0
<1> DEFINE v == [u EXCEPT !.reorder_count = 0]
<1>1. v \in Socket
  <2>1. 0 \in Int
    OBVIOUS
  <2> QED BY <2>1, Counted
<1>2. /\ v.outbuf = u.outbuf /\ v.cur_window = u.cur_window
      /\ v.state = u.state /\ v.inbuf = u.inbuf /\ v.reorder_count = 0
  BY DEF Socket
<1> QED BY <1>1, <1>2

LEMMA EofReceives ==
  ASSUME NEW s \in Receiving
  PROVE  Eof(s) \in Receiving /\ Eof(s).state \notin Connected /\ Eof(s).reorder_count = 0
<1> DEFINE t == IF s.state = "FIN_SENT" THEN s ELSE [s EXCEPT !.state = "DESTROY_DELAY", !.eof = TRUE]
           m == [type |-> "STATE", seq |-> t.seq_nr, ack |-> t.ack_nr, data |-> << >>,
                 sack |-> IF t.reorder_count # 0 /\ t.state \in {"CONNECTED", "CONNECTED_FULL"}
                          THEN {p.seq : p \in t.inbuf} ELSE {}]
           u == SendData(t, m)
           v == [u EXCEPT !.reorder_count = 0]
<1>1. s \in Socket /\ IsFiniteSet(s.inbuf)
  BY DEF Receiving
<1>2. t \in Socket /\ SameSender(s, t) /\ t.state \notin Connected /\ t.inbuf = s.inbuf
  <2>1. CASE s.state = "FIN_SENT"
    BY <1>1, <2>1 DEF Connected, SameSender
  <2>2. CASE s.state # "FIN_SENT"
    <3> DEFINE c == [s EXCEPT !.state = "DESTROY_DELAY", !.eof = TRUE]
    <3>1. c \in Socket
      BY <1>1 DEF Socket, State
    <3>2. SameSender(s, c) /\ c.state = "DESTROY_DELAY" /\ c.inbuf = s.inbuf
      BY <1>1 DEF Socket, SameSender
    <3>3. t = c
      BY <2>2
    <3> HIDE DEF c, t
    <3> QED BY <3>1, <3>2, <3>3 DEF Connected
  <2> QED BY <2>1, <2>2
<1>3. Eof(s) = v
  BY DEF Eof, SendAck
<1> HIDE DEF t
<1>4. m \in Message
  BY <1>2, AckMessage
<1> HIDE DEF m
<1>5. /\ v \in Socket /\ SameSender(s, v) /\ v.state = t.state /\ v.inbuf = s.inbuf
      /\ v.reorder_count = 0
  <2>1. u \in Socket /\ u.outbuf = t.outbuf /\ u.cur_window = t.cur_window /\ u.state = t.state
        /\ u.inbuf = t.inbuf
    BY <1>2, <1>4 DEF Socket, SendData
  <2> HIDE DEF u
  <2>2. v \in Socket
    BY <2>1, CountReset
  <2>3. /\ v.outbuf = u.outbuf /\ v.cur_window = u.cur_window
        /\ v.state = u.state /\ v.inbuf = u.inbuf /\ v.reorder_count = 0
    BY <2>1, CountReset
  <2> HIDE DEF v
  <2> QED BY <1>2, <2>1, <2>2, <2>3 DEF SameSender
<1> HIDE DEF v
<1>6. Inbox(v, 0)
  <2>1. Cardinality(Between(v, 0)) \in Nat
    BY <1>1, <1>5, BetweenFinite
  <2>2. \A p, q \in s.inbuf : p.seq = q.seq => p = q
    BY DEF Receiving, Inbox
  <2> QED BY <1>5, <2>1, <2>2 DEF Inbox
<1> QED BY <1>1, <1>2, <1>3, <1>5, <1>6, ReceiverOnly

(* A turn of the loop over the reorder buffer takes the next packet out or *)
(* finds none, or ends the connection.                                     *)
LEMMA DrainOneReceives ==
  ASSUME NEW s \in Receiving, NEW i
  PROVE  LET t == DrainOne(s, i)
         IN  /\ t \in Receiving
             /\ Done(t) \/ (~Done(s) /\ Cardinality(t.inbuf) = Cardinality(s.inbuf) - 1)
<1> DEFINE next == {p \in s.inbuf : p.seq = Mod(s.ack_nr + 1)}
           p == CHOOSE q \in next : TRUE
           u == [s EXCEPT !.inbuf = @ \ {p}, !.reorder_count = @ - 1]
<1>1. /\ s \in Socket /\ IsFiniteSet(s.inbuf) /\ Inbox(s, 0)
      /\ s.state \in Connected => s.reorder_count = Cardinality(s.inbuf)
  BY DEF Receiving
<1>2. CASE AtEof(s)
  <2>1. DrainOne(s, i) = Eof(s)
    BY <1>2 DEF DrainOne
  <2> QED BY <2>1, EofReceives DEF Done
<1>3. CASE ~AtEof(s) /\ (s.reorder_count = 0 \/ next = {})
  <2>1. DrainOne(s, i) = s
    BY <1>3 DEF DrainOne
  <2>2. Done(s)
    BY <1>3 DEF Done, NoneNext
  <2> QED BY <2>1, <2>2
<1>4. CASE ~AtEof(s) /\ ~(s.reorder_count = 0 \/ next = {})
  <2>1. p \in s.inbuf /\ p.seq = Mod(s.ack_nr + 1)
    BY <1>4
  <2>2. DrainOne(s, i) = Deliver(u, p.data)
    BY <1>4 DEF DrainOne
  <2>3. ~Done(s)
    BY <1>4, <2>1 DEF Done, NoneNext
  <2> HIDE DEF p
  <2>4. p \in [seq: Number, data: Seq(Nat)] /\ s.inbuf \subseteq [seq: Number, data: Seq(Nat)]
        /\ s.ack_nr \in Number
    BY <1>1, <2>1 DEF Socket
  <2>5. IsFiniteSet(s.inbuf \ {p}) /\ Cardinality(s.inbuf \ {p}) = Cardinality(s.inbuf) - 1
    BY <1>1, <2>1, FS_RemoveElement
  <2>6. /\ u \in Socket /\ SameSender(s, u) /\ u.state = s.state /\ u.inbuf = s.inbuf \ {p}
        /\ u.reorder_count = s.reorder_count - 1 /\ u.ack_nr = s.ack_nr
    <3> DEFINE kept == s.inbuf \ {p}
               count == s.reorder_count - 1
    <3>1. kept \in SUBSET [seq: Number, data: Seq(Nat)] /\ count \in Int
      BY <1>1 DEF Socket
    <3>2. u = [s EXCEPT !.inbuf = kept, !.reorder_count = count]
      OBVIOUS
    <3> HIDE DEF kept, count, u
    <3>3. u \in Socket /\ SameSender(s, u) /\ u.state = s.state /\ u.inbuf = kept
          /\ u.reorder_count = count /\ u.ack_nr = s.ack_nr
      BY <1>1, <3>1, <3>2 DEF Socket, SameSender
    <3> QED BY <3>3 DEF kept, count
  <2> HIDE DEF u
  <2>7. \A q, r \in s.inbuf : q.seq = r.seq => q = r
    BY <1>1 DEF Inbox
  <2>8. ASSUME NEW q \in Between(s, 0), q # p PROVE q \in Between(u, 1)
    <3> DEFINE n == Mod(q.seq - s.ack_nr - 1)
    <3>1. q \in s.inbuf /\ q \in u.inbuf /\ q.seq \in Number /\ n \in 0..(ReorderMax - 1)
      BY <2>4, <2>6, <2>8 DEF Between
    <3>2. q.seq # Mod(s.ack_nr + 1)
      BY <2>1, <2>7, <2>8, <3>1
    <3>3. n # 0
      BY <2>4, <3>1, <3>2, ModFacts
    <3>4. n \in 1..(ReorderMax - 1)
      <4> HIDE DEF n
      <4> QED BY <3>1, <3>3, SeqAssumption
    <3> QED BY <2>6, <3>1, <3>4 DEF Between
  <2>9. Inbox(u, 1)
    <3> DEFINE B == Between(s, 0)
               C == Between(u, 1)
    <3>1. IsFiniteSet(B) /\ IsFiniteSet(C) /\ Cardinality(B) \in Nat /\ Cardinality(C) \in Nat
      BY <1>1, <2>5, <2>6, BetweenFinite
    <3>2. B \ {p} \subseteq C
      BY <2>8
    <3> HIDE DEF B, C
    <3>3. Cardinality(B \ {p}) <= Cardinality(C) /\ Cardinality(B \ {p}) \in Nat
      BY <3>1, <3>2, FS_Subset, FS_CardinalityType
    <3>4. Cardinality(B \ {p}) >= Cardinality(B) - 1
      <4>1. Cardinality(B \ {p}) = IF p \in B THEN Cardinality(B) - 1 ELSE Cardinality(B)
        BY <3>1, FS_RemoveElement
      <4> QED BY <3>1, <4>1
    <3>5. s.reorder_count \in Nat /\ s.reorder_count # 0 /\ s.reorder_count <= Cardinality(B)
      BY <1>1, <1>4 DEF Inbox, B
    <3>6. u.reorder_count \in Nat /\ u.reorder_count <= Cardinality(C)
      BY <2>6, <3>1, <3>3, <3>4, <3>5
    <3> QED BY <2>6, <2>7, <3>6 DEF Inbox, C
  <2>10. Inbox(u, 0)
    BY <2>5, <2>6, <2>9, InboxWider
  <2>11. u.state \in Connected => s.state \in Connected /\ u.reorder_count = Cardinality(u.inbuf)
    BY <1>1, <2>5, <2>6
  <2>12. u \in Receiving
    BY <2>5, <2>6, <2>10, <2>11, ReceiverOnly
  <2>13. /\ Deliver(u, p.data) \in Receiving /\ Deliver(u, p.data).inbuf = u.inbuf
         /\ Deliver(u, p.data).state = u.state
    BY <2>4, <2>9, <2>12, DeliverReceives
  <2> QED BY <2>2, <2>3, <2>5, <2>6, <2>13
<1> QED BY <1>2, <1>3, <1>4

(* What each turn of the loop over the reorder buffer keeps, within S and   *)
(* from G[k-1] to G[k], the loop keeps.                                    *)
LEMMA DrainTurns ==
  ASSUME NEW s, NEW n \in Nat, n = Cardinality(s.inbuf) + 1, NEW S, NEW G, s \in S, s \in G[0],
         \A x \in S : \A k \in 1..n : DrainOne(x, k) \in S,
         \A k \in 1..n : \A x \in S : x \in G[k-1] => DrainOne(x, k) \in G[k]
  PROVE  Drain(s) \in S /\ Drain(s) \in G[n]
<1> DEFINE seq == [i \in 1..n |-> i]
           F == [q \in S \X (1..n) |-> DrainOne(q[1], q[2])]
           IsFold(h) == h = [t \in SUBSET (DOMAIN seq) |->
                              IF t = {} THEN s ELSE DrainOne(h[t \ {Max(t)}], seq[Max(t)])]
           iter == CHOOSE h : IsFold(h)
<1>1. DOMAIN seq = 1..n /\ \A i \in 1..n : seq[i] = i
  OBVIOUS
<1> HIDE DEF seq
<1>2. Drain(s) = iter[1..n]
  BY <1>1 DEF Drain, FoldLeft, MapThenFoldSet, seq
<1>3. \A x \in S, k \in 1..n : F[<<x, k>>] = DrainOne(x, k) /\ DrainOne(x, k) \in S
  OBVIOUS
<1> HIDE DEF F
<1>4. PICK g : /\ g = [t \in SUBSET (1..n) |-> IF t = {} THEN s ELSE F[<<g[t \ {Max(t)}], Max(t)>>]]
               /\ \A t \in SUBSET (1..n) : t # {} =>
                    Max(t) \in 1..n /\ g[t \ {Max(t)}] \in S
  <2>1. HasFoldIn(n, S, s, F)
    BY <1>3, FoldWithin
  <2> QED BY <2>1 DEF HasFoldIn
<1>5. ASSUME NEW t \in SUBSET (1..n), t # {}
      PROVE F[<<g[t \ {Max(t)}], Max(t)>>] = DrainOne(g[t \ {Max(t)}], seq[Max(t)])
  <2> DEFINE k == Max(t)
             x == g[t \ {k}]
  <2>1. k \in 1..n /\ x \in S
    BY <1>4, <1>5
  <2> HIDE DEF k, x
  <2>2. F[<<x, k>>] = DrainOne(x, seq[k])
    BY <1>1, <1>3, <2>1
  <2> QED BY <2>2 DEF k, x
<1>6. IsFold(g)
  BY <1>1, <1>4, <1>5
<1>7. IsFold(iter)
  BY <1>6
<1> HIDE DEF iter
<1>8. iter[{}] = s
  BY <1>1, <1>7
<1>9. ASSUME NEW k \in 1..n PROVE iter[1..k] = DrainOne(iter[1..k-1], k)
  <2>1. 1..k # {} /\ 1..k \in SUBSET (1..n) /\ Max(1..k) = k /\ (1..k) \ {k} = 1..k-1
    BY Prefix
  <2>2. iter[1..k] = DrainOne(iter[(1..k) \ {Max(1..k)}], seq[Max(1..k)])
    BY <1>1, <1>7, <2>1
  <2> HIDE DEF IsFold
  <2> QED BY <1>1, <2>1, <2>2
<1> DEFINE H == [k \in 0..n |-> S \cap G[k]]
<1>10. \A k \in 0..n : H[k] = S \cap G[k]
  OBVIOUS
<1> HIDE DEF H
<1>11. 0 \in 0..n /\ n \in 0..n /\ \A k \in 1..n : k \in 0..n /\ k-1 \in 0..n
  OBVIOUS
<1>12. iter[1..n] \in H[n]
  <2>1. iter[{}] \in H[0]
    BY <1>8, <1>10, <1>11
  <2>2. ASSUME NEW k \in 1..n, iter[1..k-1] \in H[k-1] PROVE iter[1..k] \in H[k]
    <3>1. iter[1..k-1] \in S /\ iter[1..k-1] \in G[k-1]
      BY <1>10, <1>11, <2>2
    <3>2. DrainOne(iter[1..k-1], k) \in S /\ DrainOne(iter[1..k-1], k) \in G[k]
      BY <3>1
    <3> QED BY <1>9, <1>10, <1>11, <3>2
  <2> HIDE DEF IsFold
  <2> QED BY <2>1, <2>2, FoldStays
<1> QED BY <1>2, <1>10, <1>11, <1>12

LEMMA DrainKeeps == ASSUME NEW s \in Receiving PROVE Drain(s) \in Good
<1> DEFINE N == Cardinality(s.inbuf)
           n == N + 1
           G == [k \in 0..n |-> {x \in Receiving : Cardinality(x.inbuf) + k <= N \/ Done(x)}]
<1>0. n = N + 1 /\ N = Cardinality(s.inbuf)
  OBVIOUS
<1>1. N \in Nat /\ n \in Nat
  <2>1. IsFiniteSet(s.inbuf)
    BY DEF Receiving
  <2> QED BY <2>1, FS_CardinalityType
<1>2. \A k \in 0..n : G[k] = {x \in Receiving : Cardinality(x.inbuf) + k <= N \/ Done(x)}
  OBVIOUS
<1> HIDE DEF G, n, N
<1>3. \A x \in Receiving : \A k \in 1..n : DrainOne(x, k) \in Receiving
  BY DrainOneReceives
<1>4. s \in G[0]
  <2>1. Cardinality(s.inbuf) + 0 <= N /\ 0 \in 0..n
    BY <1>0, <1>1
  <2> QED BY <1>2, <2>1
<1>5. ASSUME NEW k \in 1..n, NEW x \in Receiving, x \in G[k-1] PROVE DrainOne(x, k) \in G[k]
  <2> DEFINE y == DrainOne(x, k)
  <2>1. k \in 0..n /\ k-1 \in 0..n /\ k \in Nat
    BY <1>1
  <2>2. Cardinality(x.inbuf) + (k - 1) <= N \/ Done(x)
    BY <1>2, <1>5, <2>1
  <2>3. /\ y \in Receiving
        /\ Done(y) \/ (~Done(x) /\ Cardinality(y.inbuf) = Cardinality(x.inbuf) - 1)
    BY DrainOneReceives
  <2> HIDE DEF y
  <2>4. Cardinality(x.inbuf) \in Nat
    <3>1. IsFiniteSet(x.inbuf)
      BY DEF Receiving
    <3> QED BY <3>1, FS_CardinalityType
  <2>5. Cardinality(y.inbuf) + k <= N \/ Done(y)
    BY <1>1, <2>1, <2>2, <2>3, <2>4
  <2>6. y \in G[k]
    BY <1>2, <2>1, <2>3, <2>5
  <2> QED BY <2>6 DEF y
<1> DEFINE y == Drain(s)
<1>6. y \in Receiving /\ y \in G[n]
  BY <1>0, <1>1, <1>3, <1>4, <1>5, DrainTurns
<1> HIDE DEF y
<1>7. Cardinality(y.inbuf) + n <= N \/ Done(y)
  <2>1. n \in 0..n
    BY <1>1
  <2> QED BY <1>2, <1>6, <2>1
<1>8. Cardinality(y.inbuf) \in Nat
  <2>1. IsFiniteSet(y.inbuf)
    BY <1>6 DEF Receiving
  <2> QED BY <2>1, FS_CardinalityType
<1>9. Done(y)
  BY <1>0, <1>1, <1>7, <1>8
<1>10. y \in Good
  BY <1>6, <1>9, DoneGood
<1> QED BY <1>10 DEF y

LEMMA ScheduleAckKeeps == ASSUME NEW s \in Good PROVE ScheduleAck(s) \in Good
<1> DEFINE t == ScheduleAck(s)
<1>1. s \in Socket
  BY GoodSocket
<1>2. t \in Socket /\ SameBuffers(s, t)
  BY <1>1 DEF Socket, SameBuffers, SameReceiver, ScheduleAck
<1> HIDE DEF t
<1>3. t \in Good
  BY <1>2, SameBuffersGood
<1> QED BY <1>3 DEF t

LEMMA GotFinKeeps ==
  ASSUME NEW s \in Good, NEW m \in Message
  PROVE  GotFin(s, m) \in Good /\ GotFin(s, m).ack_nr = s.ack_nr
<1> DEFINE t == [s EXCEPT !.got_fin = TRUE, !.eof_pkt = m.seq]
<1>1. s \in Socket /\ m.seq \in Number
  BY GoodSocket DEF Message
<1>2. t \in Socket /\ SameBuffers(s, t) /\ t.ack_nr = s.ack_nr
  BY <1>1 DEF Socket, SameBuffers, SameReceiver
<1>3. GotFin(s, m) \in {s, t}
  BY DEF GotFin
<1> HIDE DEF t
<1>4. t \in Good
  BY <1>2, SameBuffersGood
<1> QED BY <1>2, <1>3, <1>4

LEMMA KeepKeeps ==
  ASSUME NEW s \in Good, NEW m \in Message, Ahead(s, m) # 0, Ahead(s, m) < ReorderMax
  PROVE  Keep(s, m) \in Good
<1> DEFINE p == [seq |-> m.seq, data |-> m.data]
           inbuf == s.inbuf \cup {p}
           count == s.reorder_count + 1
           t == [s EXCEPT !.inbuf = inbuf, !.reorder_count = count]
<1>1. /\ s \in Socket /\ s \in Receiving /\ (s.state \in Connected => NoneNext(s))
      /\ IsFiniteSet(s.inbuf) /\ Inbox(s, 1)
  BY GoodSocket, GoodReceiving DEF Counting
<1>2. m.seq \in Number /\ m.data \in Seq(Nat)
  BY DEF Message
<1>3. CASE (s.got_fin /\ m.seq > s.eof_pkt) \/ \E q \in s.inbuf : q.seq = m.seq
  BY <1>3 DEF Keep
<1>4. CASE ~((s.got_fin /\ m.seq > s.eof_pkt) \/ \E q \in s.inbuf : q.seq = m.seq)
  <2>1. Keep(s, m) = ScheduleAck(t)
    BY <1>4 DEF Keep
  <2>2. p \notin s.inbuf /\ p.seq = m.seq /\ p \in [seq: Number, data: Seq(Nat)]
    BY <1>2, <1>4
  <2> HIDE DEF p
  <2>3. IsFiniteSet(inbuf) /\ Cardinality(inbuf) = Cardinality(s.inbuf) + 1
    BY <1>1, <2>2, FS_AddElement
  <2>4. inbuf \in SUBSET [seq: Number, data: Seq(Nat)] /\ count \in Int
    BY <1>1, <2>2 DEF Socket
  <2>5. m.seq # Mod(s.ack_nr + 1)
    <3>1. s.ack_nr \in Number
      BY <1>1 DEF Socket
    <3>2. Mod(m.seq - s.ack_nr - 1) # 0
      BY DEF Ahead
    <3> QED BY <1>2, <3>1, <3>2, ModFacts
  <2>6. s.state \in Connected => count = Cardinality(inbuf)
    BY <1>1, <2>3 DEF Receiving
  <2>7. s.state \in Connected => \A q \in inbuf : q.seq # Mod(s.ack_nr + 1)
    BY <1>1, <2>2, <2>5 DEF NoneNext
  <2> HIDE DEF inbuf, count
  <2>8. t \in Socket /\ SameSender(s, t) /\ t.inbuf = inbuf /\ t.reorder_count = count
        /\ t.state = s.state /\ t.ack_nr = s.ack_nr
    BY <1>1, <2>4 DEF Socket, SameSender
  <2> HIDE DEF t
  <2>9. Inbox(t, 1)
    <3> DEFINE n == Mod(m.seq - s.ack_nr - 1)
               B == Between(s, 1)
    <3>1. n \in Number /\ n # 0 /\ n < ReorderMax /\ s.ack_nr \in Number
      <4>1. s.ack_nr \in Number
        BY <1>1 DEF Socket
      <4>2. m.seq - s.ack_nr - 1 \in Int
        BY <1>2, <4>1 DEF Number
      <4> QED BY <4>1, <4>2, ModNumber DEF Ahead
    <3>2. n \in 1..(ReorderMax - 1)
      <4> HIDE DEF n
      <4> QED BY <3>1, SeqAssumption DEF Number
    <3>3. Between(t, 1) = B \cup {p}
      BY <2>2, <2>8, <3>2 DEF Between, inbuf
    <3> HIDE DEF n
    <3>4. IsFiniteSet(B) /\ Cardinality(B) \in Nat /\ p \notin B
      BY <1>1, <2>2, BetweenFinite
    <3>5. Cardinality(B \cup {p}) = Cardinality(B) + 1
      BY <3>4, FS_AddElement
    <3>6. s.reorder_count \in Nat /\ s.reorder_count <= Cardinality(B)
      BY <1>1 DEF Inbox
    <3>7. t.reorder_count \in Nat /\ t.reorder_count <= Cardinality(Between(t, 1))
      BY <2>8, <3>3, <3>4, <3>5, <3>6 DEF count
    <3>8. \A q, r \in s.inbuf : q.seq = r.seq => q = r
      BY <1>1 DEF Inbox
    <3>9. \A q, r \in t.inbuf : q.seq = r.seq => q = r
      BY <1>4, <2>2, <2>8, <3>8 DEF inbuf
    <3> QED BY <3>7, <3>9 DEF Inbox
  <2>10. t \in Receiving
    <3>1. Inbox(t, 0)
      BY <2>3, <2>8, <2>9, InboxWider
    <3> QED BY <1>1, <2>3, <2>6, <2>8, <3>1, ReceiverOnly
  <2>11. t.state \in Connected => NoneNext(t)
    BY <2>7, <2>8 DEF NoneNext
  <2>12. t \in Good
    BY <2>9, <2>10, <2>11, GoodReceiving
  <2> QED BY <2>1, <2>12, ScheduleAckKeeps
<1> QED BY <1>3, <1>4

LEMMA AcceptKeeps ==
  ASSUME NEW s \in Good, NEW m \in Message, Ahead(s, m) < ReorderMax PROVE Accept(s, m) \in Good
<1> DEFINE g == GotFin(s, m)
<1>1. g \in Good /\ g.ack_nr = s.ack_nr
  BY GotFinKeeps
<1>2. Accept(s, m) = IF Ahead(s, m) = 0 THEN ScheduleAck(Drain(Deliver(g, m.data))) ELSE Keep(g, m)
  BY DEF Accept
<1> HIDE DEF g
<1>3. CASE Ahead(s, m) = 0
  <2>1. m.data \in Seq(Nat) /\ g \in Receiving /\ Inbox(g, 1)
    BY <1>1, GoodReceiving DEF Message
  <2>2. Deliver(g, m.data) \in Receiving
    BY <2>1, DeliverReceives
  <2>3. Drain(Deliver(g, m.data)) \in Good
    BY <2>2, DrainKeeps
  <2> QED BY <1>2, <1>3, <2>3, ScheduleAckKeeps
<1>4. CASE Ahead(s, m) # 0
  <2>1. Ahead(g, m) = Ahead(s, m)
    BY <1>1 DEF Ahead
  <2> QED BY <1>1, <1>2, <1>4, <2>1, KeepKeeps
<1> QED BY <1>3, <1>4

LEMMA ProcessIncomingKeeps ==
  ASSUME NEW s \in Good, NEW m \in Message, NEW w \in 0..Window PROVE ProcessIncoming(s, m, w) \in Good
<1> DEFINE a == Acknowledge(s, m, w)
<1>1. a \in Good /\ a.ack_nr = s.ack_nr
  BY AcknowledgeKeeps DEF SameReceiver
<1>2. Ahead(a, m) = Ahead(s, m) /\ Ahead(s, m) \in Nat
  <2>1. m.seq \in Number /\ s.ack_nr \in Number
    BY GoodSocket DEF Message, Socket
  <2>2. m.seq - s.ack_nr - 1 \in Int
    BY <2>1 DEF Number
  <2>3. Ahead(s, m) \in Number
    BY <2>2, ModNumber DEF Ahead
  <2> HIDE DEF a
  <2> QED BY <1>1, <2>3 DEF Ahead, Number
<1>3. CASE Ahead(s, m) >= ReorderMax
  <2>1. ProcessIncoming(s, m, w) \in {s, ScheduleAck(s)}
    BY <1>3 DEF ProcessIncoming
  <2> QED BY <2>1, ScheduleAckKeeps
<1>4. CASE ~(Ahead(s, m) >= ReorderMax)
  <2>1. ProcessIncoming(s, m, w) \in {a, Accept(a, m)}
    BY <1>4 DEF ProcessIncoming
  <2>2. Ahead(s, m) < ReorderMax
    BY <1>2, <1>4, SeqAssumption
  <2> HIDE DEF a
  <2>3. Accept(a, m) \in Good
    BY <1>1, <1>2, <2>2, AcceptKeeps
  <2> QED BY <1>1, <2>1, <2>3
<1> QED BY <1>3, <1>4

-----------------------------------------------------------------------------
(* Timers                                                                  *)

(* check_invariant sums up the packets under way.                          *)
LEMMA FlightSum ==
  ASSUME NEW out \in Seq(Packet \cup {NULL})
  PROVE  FoldLeft(LAMBDA n, p : IF p # NULL /\ p.transmissions > 0 /\ ~p.need_resend
                                THEN n + Len(p.data) ELSE n, 0, out) = Cardinality(InFlight(out))
<1> DEFINE n == Len(out)
           op(x, p) == IF p # NULL /\ p.transmissions > 0 /\ ~p.need_resend
                       THEN x + Len(p.data) ELSE x
           F == [q \in Nat \X (1..n) |-> op(q[1], out[q[2]])]
           IsFold(h) == h = [t \in SUBSET (DOMAIN out) |->
                              IF t = {} THEN 0 ELSE op(h[t \ {Max(t)}], out[Max(t)])]
           iter == CHOOSE h : IsFold(h)
           T(k) == InFlight(out) \cap 1..k
           G == [k \in 0..n |-> {Cardinality(T(k))}]
<1>1. n \in Nat /\ DOMAIN out = 1..n /\ \A i \in 1..n : out[i] \in Packet \cup {NULL}
  OBVIOUS
<1>2. FoldLeft(LAMBDA x, p : IF p # NULL /\ p.transmissions > 0 /\ ~p.need_resend
                              THEN x + Len(p.data) ELSE x, 0, out) = iter[1..n]
  BY <1>1 DEF FoldLeft, MapThenFoldSet
<1> HIDE DEF n
<1>3. ASSUME NEW x \in Nat, NEW i \in 1..n
      PROVE op(x, out[i]) = x + (IF i \in InFlight(out) THEN 1 ELSE 0)
  <2>1. CASE out[i] = NULL \/ ~(out[i].transmissions > 0 /\ ~out[i].need_resend)
    <3>1. i \notin InFlight(out)
      BY <2>1 DEF InFlight
    <3> QED BY <2>1, <3>1
  <2>2. CASE ~(out[i] = NULL \/ ~(out[i].transmissions > 0 /\ ~out[i].need_resend))
    <3>1. out[i] \in Packet
      BY <1>1, <2>2
    <3>2. Len(out[i].data) \in {0, 1}
      BY <3>1, PacketFields
    <3>3. op(x, out[i]) = x + Len(out[i].data)
      BY <2>2
    <3>4. i \in InFlight(out) <=> Len(out[i].data) = 1
      BY <1>1, <2>2 DEF InFlight
    <3> HIDE DEF op
    <3> DEFINE l == Len(out[i].data)
    <3>5. l \in {0, 1} /\ op(x, out[i]) = x + l /\ (i \in InFlight(out) <=> l = 1)
      BY <3>2, <3>3, <3>4
    <3> HIDE DEF l
    <3> QED BY <3>5
  <2> QED BY <2>1, <2>2
<1>4. \A x \in Nat, k \in 1..n : F[<<x, k>>] = op(x, out[k]) /\ op(x, out[k]) \in Nat
  <2>1. \A x \in Nat, k \in 1..n : F[<<x, k>>] = op(x, out[k])
    OBVIOUS
  <2> HIDE DEF F, op
  <2>2. ASSUME NEW x \in Nat, NEW k \in 1..n PROVE op(x, out[k]) \in Nat
    <3>1. op(x, out[k]) = x + 1 \/ op(x, out[k]) = x
      BY <1>3
    <3> QED BY <3>1
  <2> QED BY <2>1, <2>2
<1> HIDE DEF F, op
<1>5. PICK g : /\ g = [t \in SUBSET (1..n) |-> IF t = {} THEN 0 ELSE F[<<g[t \ {Max(t)}], Max(t)>>]]
               /\ \A t \in SUBSET (1..n) : t # {} =>
                    Max(t) \in 1..n /\ g[t \ {Max(t)}] \in Nat
  <2>1. HasFoldIn(n, Nat, 0, F)
    BY <1>1, <1>4, FoldWithin
  <2> QED BY <2>1 DEF HasFoldIn
<1>6. \A t \in SUBSET (1..n) : t # {} =>
        F[<<g[t \ {Max(t)}], Max(t)>>] = op(g[t \ {Max(t)}], out[Max(t)])
  BY <1>4, <1>5
<1>7. IsFold(g)
  BY <1>1, <1>5, <1>6
<1>8. IsFold(iter)
  BY <1>7
<1> HIDE DEF iter
<1>9. iter[{}] = 0
  BY <1>1, <1>8
<1>10. ASSUME NEW k \in 1..n PROVE iter[1..k] = op(iter[1..k-1], out[k])
  <2>0. n \in Nat
    BY <1>1
  <2>1. k \in Nat /\ k # 0 /\ 1..k # {} /\ 1..k \in SUBSET (1..n)
    <3> HIDE DEF IsFold, T
    <3>1. k \in Nat /\ k # 0 /\ k <= n
      BY <2>0
    <3>2. k \in 1..k /\ 1..k \subseteq 1..n
      BY <2>0, <3>1
    <3> QED BY <3>1, <3>2
  <2>2. Max(1..k) = k /\ (1..k) \ {k} = 1..k-1
    BY <2>1, GreatestOfInterval
  <2>3. iter[1..k] = op(iter[(1..k) \ {Max(1..k)}], out[Max(1..k)])
    BY <1>1, <1>8, <2>1
  <2> HIDE DEF IsFold
  <2> QED BY <2>2, <2>3
<1>11. ASSUME NEW k \in 1..n
       PROVE Cardinality(T(k-1)) \in Nat
             /\ Cardinality(T(k)) = Cardinality(T(k-1)) + (IF k \in InFlight(out) THEN 1 ELSE 0)
  <2>1. k - 1 \in Nat /\ k \notin 1..k-1 /\ 1..k = (1..k-1) \cup {k}
    BY <1>1
  <2>2. IsFiniteSet(1..k-1)
    BY <2>1, Interval
  <2>3. IsFiniteSet(T(k-1))
    BY <2>2, FS_Subset
  <2>4. T(k) = IF k \in InFlight(out) THEN T(k-1) \cup {k} ELSE T(k-1)
    BY <2>1
  <2>5. k \notin T(k-1)
    BY <2>1
  <2> HIDE DEF T
  <2>6. Cardinality(T(k-1) \cup {k}) = Cardinality(T(k-1)) + 1 /\ Cardinality(T(k-1)) \in Nat
    BY <2>3, <2>5, FS_AddElement, FS_CardinalityType
  <2>7. CASE k \in InFlight(out)
    BY <2>4, <2>6, <2>7
  <2>8. CASE k \notin InFlight(out)
    BY <2>4, <2>6, <2>8
  <2> QED BY <2>7, <2>8
<1>12. \A k \in 0..n : G[k] = {Cardinality(T(k))}
  OBVIOUS
<1> HIDE DEF G
<1>13. iter[1..n] \in G[n]
  <2>1. iter[{}] \in G[0]
    <3>1. T(0) = {} /\ 0 \in 0..n
      BY <1>1
    <3>2. Cardinality(T(0)) = 0
      BY <3>1, FS_EmptySet
    <3> HIDE DEF T
    <3> QED BY <1>9, <1>12, <3>1, <3>2
  <2>2. ASSUME NEW k \in 1..n, iter[1..k-1] \in G[k-1] PROVE iter[1..k] \in G[k]
    <3>1. k \in 0..n /\ k-1 \in 0..n
      BY <1>1
    <3> HIDE DEF T
    <3>2. iter[1..k-1] = Cardinality(T(k-1))
      BY <1>12, <2>2, <3>1
    <3>3. op(iter[1..k-1], out[k]) = Cardinality(T(k-1)) + (IF k \in InFlight(out) THEN 1 ELSE 0)
      BY <1>3, <1>11, <3>2
    <3>4. iter[1..k] = Cardinality(T(k))
      BY <1>10, <1>11, <3>3
    <3> QED BY <1>12, <3>1, <3>4
  <2> HIDE DEF IsFold
  <2> QED BY <1>1, <2>1, <2>2, FoldStays
<1>14. T(n) = InFlight(out)
  BY <1>1 DEF InFlight
<1>15. n \in 0..n
  BY <1>1
<1>16. iter[1..n] = Cardinality(InFlight(out))
  <2> HIDE DEF T
  <2> QED BY <1>12, <1>13, <1>14, <1>15
<1> QED BY <1>2, <1>16

LEMMA GivenUp ==
  ASSUME NEW p \in Packet
  PROVE  LET q == [p EXCEPT !.need_resend = TRUE]
         IN  /\ q \in Packet /\ q.need_resend = TRUE
             /\ q.type = p.type /\ q.data = p.data /\ q.transmissions = p.transmissions
BY DEF Packet

(* At every place is the packet that was there, but for need_resend.       *)
SamePackets(s, t) ==
  /\ Len(t.outbuf) = Len(s.outbuf)
  /\ \A j \in 1..Len(s.outbuf) :
       LET p == s.outbuf[j]
           q == t.outbuf[j]
       IN  /\ q = NULL <=> p = NULL
           /\ p # NULL => q.type = p.type /\ q.data = p.data /\ q.transmissions = p.transmissions

Late(p) == p # NULL /\ p.transmissions > 0 /\ ~p.need_resend

(* All packets under way are given up: nothing is left of the window.      *)
LEMMA AllGivenUp ==
  ASSUME NEW s \in Good
  PROVE  LET out == [i \in DOMAIN s.outbuf |->
                      IF Late(s.outbuf[i]) THEN [s.outbuf[i] EXCEPT !.need_resend = TRUE]
                      ELSE s.outbuf[i]]
         IN  /\ out \in Seq(Packet \cup {NULL}) /\ Len(out) = Len(s.outbuf)
             /\ Cardinality(InFlight(out)) = 0
             /\ \A j \in 1..Len(s.outbuf) :
                  /\ out[j] = NULL <=> s.outbuf[j] = NULL
                  /\ s.outbuf[j] # NULL =>
                       /\ out[j].type = s.outbuf[j].type /\ out[j].data = s.outbuf[j].data
                       /\ out[j].transmissions = s.outbuf[j].transmissions
<1> DEFINE n == Len(s.outbuf)
           out == [i \in DOMAIN s.outbuf |->
                    IF Late(s.outbuf[i]) THEN [s.outbuf[i] EXCEPT !.need_resend = TRUE]
                    ELSE s.outbuf[i]]
<1>1. s \in Socket
  BY GoodSocket
<1>2. s.outbuf \in Seq(Packet \cup {NULL}) /\ n \in Nat /\ DOMAIN s.outbuf = 1..n
      /\ \A i \in 1..n : s.outbuf[i] # NULL => s.outbuf[i] \in Packet
  BY <1>1, Outbuf
<1>3. DOMAIN out = 1..n
  BY <1>2
<1>4. ASSUME NEW i \in 1..n
      PROVE /\ out[i] \in Packet \cup {NULL} /\ (out[i] = NULL <=> s.outbuf[i] = NULL)
            /\ i \notin InFlight(out)
            /\ s.outbuf[i] # NULL =>
                 /\ out[i].type = s.outbuf[i].type /\ out[i].data = s.outbuf[i].data
                 /\ out[i].transmissions = s.outbuf[i].transmissions
  <2> DEFINE p == s.outbuf[i]
  <2>1. out[i] = IF Late(p) THEN [p EXCEPT !.need_resend = TRUE] ELSE p
    BY <1>2
  <2> HIDE DEF out
  <2>2. CASE Late(p)
    <3>1. p \in Packet
      BY <1>2, <2>2 DEF Late
    <3> HIDE DEF p
    <3>2. /\ out[i] \in Packet /\ out[i].need_resend = TRUE
          /\ out[i].type = p.type /\ out[i].data = p.data /\ out[i].transmissions = p.transmissions
      BY <2>1, <2>2, <3>1, GivenUp
    <3>3. out[i] # NULL /\ p # NULL
      BY <3>1, <3>2, NullAssumption
    <3> QED BY <3>2, <3>3 DEF InFlight, p
  <2>3. CASE ~Late(p)
    <3>1. out[i] = p
      BY <2>1, <2>3
    <3>2. i \notin InFlight(out)
      BY <2>3, <3>1 DEF InFlight, Late
    <3> QED BY <1>2, <3>1, <3>2
  <2> QED BY <2>2, <2>3
<1>5. InFlight(out) = {}
  <2> HIDE DEF out
  <2> QED BY <1>3, <1>4 DEF InFlight
<1>6. out \in Seq(Packet \cup {NULL}) /\ Len(out) = n
  <2>1. out = [i \in 1..n |-> out[i]]
    BY <1>2
  <2> HIDE DEF out, n
  <2>2. out \in [1..n -> Packet \cup {NULL}]
    BY <1>4, <2>1
  <2> QED BY <1>2, <1>3, <2>2
<1>7. Cardinality(InFlight(out)) = 0
  BY <1>5, FS_EmptySet
<1> HIDE DEF out
<1> QED BY <1>4, <1>6, <1>7 DEF out, n

LEMMA LostMarks ==
  ASSUME NEW s \in Good
  PROVE  \E t \in Good :
           /\ Kept(s, t) /\ t.sent = s.sent /\ SamePackets(s, t)
           /\ Lost(s) \in {s} \cup (IF Packets(s) = 0 THEN {} ELSE {SendPacket(t, 1)})
<1> DEFINE bytes == FoldLeft(LAMBDA n, p : IF Late(p) THEN n + Len(p.data) ELSE n, 0, s.outbuf)
           out == [i \in DOMAIN s.outbuf |->
                    IF Late(s.outbuf[i]) THEN [s.outbuf[i] EXCEPT !.need_resend = TRUE]
                    ELSE s.outbuf[i]]
           w == s.cur_window - bytes
           marked == [s EXCEPT !.cur_window = @ - bytes,
                               !.outbuf = [i \in DOMAIN @ |->
                                  IF Late(@[i]) THEN [@[i] EXCEPT !.need_resend = TRUE] ELSE @[i]]]
           u == [s EXCEPT !.cur_window = w, !.outbuf = out]
           t == [u EXCEPT !.retransmit_count = @ + 1, !.fast_timeout = TRUE]
<1>1. s \in Socket /\ s \in Counting /\ s.cur_window = Cardinality(InFlight(s.outbuf))
  BY GoodSocket DEF Counting
<1>2. s.outbuf \in Seq(Packet \cup {NULL}) /\ Len(s.outbuf) \in Nat /\ DOMAIN s.outbuf = 1..Len(s.outbuf)
  BY <1>1, Outbuf
<1>3. bytes = Cardinality(InFlight(s.outbuf)) /\ Cardinality(InFlight(s.outbuf)) \in Nat
  BY <1>1, <1>2, FlightSum, FlightFinite DEF Late
<1>0. /\ Packets(s) = 0 => Lost(s) = s
      /\ Packets(s) # 0 =>
           Lost(s) = SendPacket([marked EXCEPT !.retransmit_count = @ + 1, !.fast_timeout = TRUE], 1)
  <2>1. CASE Packets(s) = 0
    BY <2>1 DEF Lost
  <2>2. CASE Packets(s) # 0
    BY <2>2 DEF Lost, Late
  <2> QED BY <2>1, <2>2
<1> HIDE DEF bytes
<1>7. marked = u
  BY <1>1 DEF Socket
<1> HIDE DEF marked
<1>4. Lost(s) \in {s} \cup (IF Packets(s) = 0 THEN {} ELSE {SendPacket(t, 1)})
  BY <1>0, <1>7
<1>5. w = 0
  BY <1>1, <1>3
<1>6. /\ out \in Seq(Packet \cup {NULL}) /\ Len(out) = Len(s.outbuf)
      /\ Cardinality(InFlight(out)) = 0
      /\ \A j \in 1..Len(s.outbuf) :
           /\ out[j] = NULL <=> s.outbuf[j] = NULL
           /\ s.outbuf[j] # NULL =>
                /\ out[j].type = s.outbuf[j].type /\ out[j].data = s.outbuf[j].data
                /\ out[j].transmissions = s.outbuf[j].transmissions
  BY AllGivenUp
<1> HIDE DEF w, out
<1>8. /\ t \in Socket /\ t.outbuf = out /\ t.cur_window = w /\ SameReceiver(s, t)
      /\ Kept(s, t) /\ t.sent = s.sent
  <2>0. w \in Int
    BY <1>5
  <2>1. /\ u \in Socket /\ u.outbuf = out /\ u.cur_window = w /\ SameReceiver(s, u)
        /\ Kept(s, u) /\ u.sent = s.sent
    BY <1>1, <1>6, <2>0 DEF Socket, SameReceiver, Kept
  <2> HIDE DEF u
  <2> DEFINE c == u.retransmit_count + 1
             v == [u EXCEPT !.retransmit_count = c, !.fast_timeout = TRUE]
  <2>3. c \in Nat /\ t = v
    BY <2>1 DEF Socket
  <2> HIDE DEF c
  <2>4. /\ v \in Socket /\ v.outbuf = u.outbuf /\ v.cur_window = u.cur_window /\ SameReceiver(u, v)
        /\ Kept(u, v) /\ v.sent = u.sent
    BY <2>1, <2>3 DEF Socket, SameReceiver, Kept
  <2>2. /\ t \in Socket /\ t.outbuf = u.outbuf /\ t.cur_window = u.cur_window /\ SameReceiver(u, t)
        /\ Kept(u, t) /\ t.sent = u.sent
    BY <2>3, <2>4
  <2> QED BY <2>1, <2>2 DEF SameReceiver, Kept
<1> HIDE DEF u
<1> HIDE DEF t
<1>9. t \in Counting
  <2>1. t.cur_window = Cardinality(InFlight(t.outbuf)) /\ Len(t.outbuf) <= Len(s.outbuf)
    BY <1>2, <1>5, <1>6, <1>8
  <2> QED BY <1>1, <1>8, <2>1, SenderOnly
<1>10. SamePlaces(s, t)
  BY <1>6, <1>8 DEF SamePlaces
<1>11. t \in Good
  BY <1>9, <1>10, SamePlacesGood
<1>12. SamePackets(s, t)
  BY <1>6, <1>8 DEF SamePackets
<1> QED BY <1>4, <1>8, <1>11, <1>12

LEMMA LostKeeps == ASSUME NEW s \in Good PROVE Lost(s) \in Good
<1>1. PICK t \in Good :
        /\ Kept(s, t) /\ t.sent = s.sent /\ SamePackets(s, t)
        /\ Lost(s) \in {s} \cup (IF Packets(s) = 0 THEN {} ELSE {SendPacket(t, 1)})
  BY LostMarks
<1>2. ASSUME Packets(s) # 0 PROVE SendPacket(t, 1) \in Good
  <2>1. t \in Socket /\ Len(t.outbuf) # 0
    BY <1>1, <1>2, GoodSocket DEF Packets, SamePackets
  <2>2. 1 \in DOMAIN t.outbuf /\ t.outbuf # << >>
    BY <2>1, Outbuf
  <2>3. t.outbuf[1] # NULL
    BY <2>2 DEF Good
  <2> QED BY <2>2, <2>3, SendPacketKeeps
<1> QED BY <1>1, <1>2

LEMMA FailKeeps ==
  ASSUME NEW s \in Good, NEW unheld \in State \ Connected PROVE Fail(s, unheld) \in Good
<1> DEFINE state == IF s.state \in Connected THEN "DESTROY" ELSE unheld
           t == [s EXCEPT !.failed = TRUE, !.state = state]
<1>1. s \in Socket
  BY GoodSocket
<1>2. state \in State /\ state \notin Connected /\ Fail(s, unheld) = t
  BY DEF State, Connected, Fail
<1> HIDE DEF state
<1>3. t \in Socket /\ SameBuffers(s, t)
  BY <1>1, <1>2 DEF Socket, SameBuffers, SameReceiver
<1> HIDE DEF t
<1> QED BY <1>2, <1>3, SameBuffersGood

(* A socket that ends, in whatever way                                     *)
LEMMA EndKeeps ==
  ASSUME NEW s \in Good, NEW failed \in BOOLEAN
  PROVE  [s EXCEPT !.state = "GONE", !.failed = failed] \in Good /\ [s EXCEPT !.state = "GONE"] \in Good
<1> DEFINE t == [s EXCEPT !.state = "GONE", !.failed = failed]
           u == [s EXCEPT !.state = "GONE"]
<1>1. s \in Socket
  BY GoodSocket
<1>2. t \in Socket /\ SameBuffers(s, t)
  BY <1>1 DEF Socket, State, Connected, SameBuffers, SameReceiver
<1>3. u \in Socket /\ SameBuffers(s, u)
  BY <1>1 DEF Socket, State, Connected, SameBuffers, SameReceiver
<1> HIDE DEF t, u
<1>4. t \in Good /\ u \in Good
  BY <1>2, <1>3, SameBuffersGood
<1> QED BY <1>4 DEF t, u

LEMMA ShrunkKeeps == ASSUME NEW s \in Good PROVE Shrunk(s) \in Good
<1> DEFINE a == (s.max_window * 2) \div 3
           w == IF Packets(s) = 0 /\ s.max_window > 1 THEN Max({a, 1}) ELSE 1
           t == [s EXCEPT !.max_window = w]
<1>1. s \in Socket /\ s.max_window \in 0..Window /\ Window \in Nat \ {0}
  BY GoodSocket, LimitAssumption DEF Socket
<1>2. a \in 0..Window
  BY <1>1
<1>3. Shrunk(s) = t
  BY DEF Shrunk
<1> HIDE DEF a
<1>4. w \in 0..Window
  <2>1. Max({a, 1}) \in {a, 1}
    <3>1. \E x \in {a, 1} : \A y \in {a, 1} : x >= y
      BY <1>2
    <3> QED BY <3>1 DEF Max
  <2> QED BY <1>1, <1>2, <2>1
<1> HIDE DEF w
<1>5. t \in Socket /\ SameBuffers(s, t)
  BY <1>1, <1>4 DEF Socket, SameBuffers, SameReceiver
<1> HIDE DEF t
<1> QED BY <1>3, <1>5, SameBuffersGood

LEMMA TimedOutKeeps == ASSUME NEW s \in Good PROVE TimedOut(s) \subseteq Good
<1>1. "DESTROY" \in State \ Connected
  BY DEF State, Connected
<1>2. [Fail(s, "DESTROY") EXCEPT !.state = "GONE"] \in Good
  BY <1>1, FailKeeps, EndKeeps
<1>3. ASSUME NEW t \in Congested(s) PROVE Writable(Lost(t)) \in Good
  <2>1. t \in Good
    BY <1>3, ShrunkKeeps DEF Congested
  <2> QED BY <2>1, LostKeeps, WritableKeeps
<1> QED BY <1>2, <1>3 DEF TimedOut

LEMMA KeptAliveKeeps == ASSUME NEW s \in Good PROVE KeptAlive(s) \in Good
<1> DEFINE a == Mod(s.ack_nr - 1)
           t == [s EXCEPT !.ack_nr = a]
           m == [type |-> "STATE", seq |-> t.seq_nr, ack |-> t.ack_nr, data |-> << >>,
                 sack |-> IF t.reorder_count # 0 /\ t.state \in {"CONNECTED", "CONNECTED_FULL"}
                          THEN {p.seq : p \in t.inbuf} ELSE {}]
           u == SendData(t, m)
           v == [u EXCEPT !.ack_nr = s.ack_nr]
<1>1. s \in Socket /\ s.ack_nr \in Number
  BY GoodSocket DEF Socket
<1>2. a \in Number
  <2>1. s.ack_nr - 1 \in Int
    BY <1>1 DEF Number
  <2> QED BY <2>1, ModNumber
<1>3. KeptAlive(s) = v
  BY DEF KeptAlive, SendAck
<1> HIDE DEF a
<1>4. t \in Socket /\ SameSender(s, t) /\ t.inbuf = s.inbuf /\ t.reorder_count = s.reorder_count
      /\ t.state = s.state
  BY <1>1, <1>2 DEF Socket, SameSender
<1> HIDE DEF t
<1>5. m \in Message
  BY <1>4, AckMessage
<1> HIDE DEF m
<1>6. u \in Socket /\ SameSender(t, u) /\ u.inbuf = t.inbuf /\ u.reorder_count = t.reorder_count
      /\ u.state = t.state
  BY <1>4, <1>5 DEF Socket, SameSender, SendData
<1> HIDE DEF u
<1>7. v \in Socket /\ SameSender(u, v) /\ v.inbuf = u.inbuf /\ v.reorder_count = u.reorder_count
      /\ v.state = u.state /\ v.ack_nr = s.ack_nr
  BY <1>1, <1>6 DEF Socket, SameSender
<1> HIDE DEF v
<1>8. SameBuffers(s, v)
  BY <1>4, <1>6, <1>7 DEF SameSender, SameBuffers, SameReceiver
<1> QED BY <1>3, <1>7, <1>8, SameBuffersGood

-----------------------------------------------------------------------------
(* Actions                                                                 *)

(* Every socket is good, and every packet under way is one.                *)
Sound == sock \in [End -> Good] /\ net \in [End -> SUBSET Message]

LEMMA PeerIn == \A e \in End : Peer(e) \in End
<1> SUFFICES ASSUME NEW e \in End PROVE \E f \in End : f # e
  BY DEF Peer
<1> SUFFICES ASSUME \A f \in End : f = e PROVE FALSE
  OBVIOUS
<1>1. End = {e}
  OBVIOUS
<1>2. Cardinality(End) = 1
  BY <1>1, FS_Singleton
<1> QED BY <1>2, EndAssumption

LEMMA SoundInit == Init => Sound
<1> SUFFICES ASSUME Init PROVE Sound
  OBVIOUS
<1>1. PICK amount \in Amounts : sock = [e \in End |-> NewSocket(e, amount[e])]
  BY DEF Init
<1>2. ASSUME NEW e \in End PROVE NewSocket(e, amount[e]) \in Good
  <2> DEFINE s == NewSocket(e, amount[e])
             a == (SeqNr[Peer(e)] - 1) % Modulus
  <2>1. SeqNr[e] \in Number /\ SeqNr[Peer(e)] \in Number /\ amount[e] \in Nat
    BY PeerIn, EndAssumption, SeqAssumption DEF Number
  <2>2. a \in Number
    <3>1. SeqNr[Peer(e)] - 1 \in Int
      BY <2>1 DEF Number
    <3> QED BY <3>1, ModNumber DEF Mod
  <2>3. 0 \in Number /\ Window \in 0..Window
    BY SeqAssumption, LimitAssumption DEF Number
  <2>4. << >> \in Seq(Packet \cup {NULL}) /\ << >> \in Seq(Nat)
    OBVIOUS
  <2>5. /\ s \in Socket /\ s.outbuf = << >> /\ s.cur_window = 0 /\ s.inbuf = {} /\ s.reorder_count = 0
    <3> HIDE DEF a
    <3> QED BY <2>1, <2>2, <2>3, <2>4 DEF NewSocket, Socket, State, a
  <2> HIDE DEF s
  <2>6. InFlight(<< >>) = {}
    BY DEF InFlight
  <2>7. Cardinality({}) = 0 /\ IsFiniteSet({})
    BY FS_EmptySet
  <2>8. Room(s)
    <3>1. Len(<< >>) = 0
      OBVIOUS
    <3> QED BY <2>5, <3>1, LimitAssumption DEF Room
  <2>9. Inbox(s, 1)
    <3>1. Between(s, 1) = {}
      BY <2>5 DEF Between
    <3>2. s.reorder_count = 0 /\ Cardinality(Between(s, 1)) = 0
      BY <2>5, <2>7, <3>1
    <3>3. s.reorder_count \in Nat /\ s.reorder_count <= Cardinality(Between(s, 1))
      BY <3>2
    <3> QED BY <2>5, <3>3 DEF Inbox
  <2>10. s \in Good
    BY <2>5, <2>6, <2>7, <2>8, <2>9 DEF Good, Counting
  <2> QED BY <2>10 DEF s
<1>3. sock \in [End -> Good]
  BY <1>1, <1>2
<1> QED BY <1>3 DEF Sound, Init

LEMMA StepSound ==
  ASSUME Sound, NEW e \in End, NEW s \in Good, NEW rest \in [End -> SUBSET Message], Step(e, s, rest)
  PROVE  Sound'
<1> DEFINE t == [s EXCEPT !.sent = {}]
<1>1. PICK kept \in SUBSET s.sent :
        sock' = [sock EXCEPT ![e] = t] /\ net' = [rest EXCEPT ![Peer(e)] = @ \cup kept]
  BY DEF Step
<1>2. s \in Socket
  BY GoodSocket
<1>3. t \in Good
  <2>1. t \in Socket /\ SameBuffers(s, t)
    BY <1>2 DEF Socket, SameBuffers, SameReceiver
  <2> HIDE DEF t
  <2> QED BY <2>1, SameBuffersGood
<1>4. kept \subseteq Message
  BY <1>2 DEF Socket
<1> HIDE DEF t
<1>5. sock' \in [End -> Good]
  BY <1>1, <1>3 DEF Sound
<1>6. net' \in [End -> SUBSET Message]
  BY <1>1, <1>4, PeerIn
<1> QED BY <1>5, <1>6 DEF Sound

LEMMA SoundNext == Sound /\ [Next]_vars => Sound'
<1> SUFFICES ASSUME Sound, [Next]_vars PROVE Sound'
  OBVIOUS
<1> USE DEF Sound
<1>1. ASSUME NEW e \in End, Start(e) PROVE Sound'
  <2>1. sock[e].state \in Connected
    BY <1>1 DEF Start, Connected
  <2>2. Write(sock[e]) \in Good /\ Step(e, Write(sock[e]), net)
    BY <1>1, <2>1, WriteKeeps DEF Start
  <2> QED BY <2>2, StepSound
<1>2. ASSUME NEW e \in End, Stop(e) PROVE Sound'
  <2>1. Close(sock[e]) \in Good /\ Step(e, Close(sock[e]), net)
    BY <1>2, CloseKeeps DEF Stop
  <2> QED BY <2>1, StepSound
<1>3. ASSUME NEW e \in End, DeferredAck(e) PROVE Sound'
  <2>1. SendAck(sock[e]) \in Good /\ Step(e, SendAck(sock[e]), net)
    BY <1>3, SendAckKeeps DEF DeferredAck
  <2> QED BY <2>1, StepSound
<1>4. ASSUME NEW e \in End, Flush(e) PROVE Sound'
  <2> DEFINE s == Writable(FlushPackets(sock[e]))
  <2>1. s \in Good
    BY FlushPacketsKeeps, WritableKeeps
  <2>2. Step(e, s, net)
    BY <1>4 DEF Flush
  <2> HIDE DEF s
  <2> QED BY <2>1, <2>2, StepSound
<1>5. ASSUME NEW e \in End, Timeout(e) PROVE Sound'
  <2>1. TimedOut(FlushPackets(sock[e])) \subseteq Good
    BY FlushPacketsKeeps, TimedOutKeeps
  <2>2. PICK t \in TimedOut(FlushPackets(sock[e])) : Step(e, t, net)
    BY <1>5 DEF Timeout
  <2> QED BY <2>1, <2>2, StepSound
<1>6. ASSUME NEW e \in End, KeepAlive(e) PROVE Sound'
  <2>1. KeptAlive(Writable(FlushPackets(sock[e]))) \in Good
    BY FlushPacketsKeeps, WritableKeeps, KeptAliveKeeps
  <2>2. Step(e, KeptAlive(Writable(FlushPackets(sock[e]))), net)
    BY <1>6 DEF KeepAlive
  <2> QED BY <2>1, <2>2, StepSound
<1>7. ASSUME NEW e \in End, DelayOver(e) PROVE Sound'
  <2> DEFINE s == FlushPackets(sock[e])
             failed == s.failed \/ Packets(s) > 0
             t == [s EXCEPT !.state = "GONE", !.failed = failed]
  <2>1. s \in Good
    BY FlushPacketsKeeps
  <2>2. Step(e, [s EXCEPT !.state = "GONE", !.failed = @ \/ Packets(s) > 0], net)
    BY <1>7 DEF DelayOver
  <2> HIDE DEF s
  <2>3. failed \in BOOLEAN
    OBVIOUS
  <2>4. [s EXCEPT !.state = "GONE", !.failed = @ \/ Packets(s) > 0] = t
    BY <2>1, GoodSocket DEF Socket
  <2> HIDE DEF failed
  <2>5. t \in Good
    BY <2>1, <2>3, EndKeeps
  <2> HIDE DEF t
  <2> QED BY <2>2, <2>4, <2>5, StepSound
<1>8. ASSUME NEW e \in End, Reap(e) PROVE Sound'
  <2>1. [sock[e] EXCEPT !.state = "GONE"] \in Good
    BY EndKeeps
  <2>2. Step(e, [sock[e] EXCEPT !.state = "GONE"], net)
    BY <1>8 DEF Reap
  <2> QED BY <2>1, <2>2, StepSound
<1>9. ASSUME NEW e \in End, NEW m \in net[e], NEW rest \in Received(e, m)
      PROVE rest \in [End -> SUBSET Message] /\ m \in Message /\ sock[e] \in Good
  BY <1>9 DEF Received
<1>10. ASSUME NEW e \in End, NEW m \in net[e], Receive(e, m) PROVE Sound'
  <2>1. PICK w \in Windows \cup {sock[e].max_window}, rest \in Received(e, m) :
          Step(e, ProcessIncoming(sock[e], m, w), rest)
    BY <1>10 DEF Receive
  <2>2. rest \in [End -> SUBSET Message] /\ m \in Message /\ sock[e] \in Good
    BY <1>9
  <2>3. w \in 0..Window
    <3>1. sock[e].max_window \in 0..Window
      BY <2>2, GoodSocket DEF Socket
    <3> QED BY <3>1, LimitAssumption
  <2>4. ProcessIncoming(sock[e], m, w) \in Good
    BY <2>2, <2>3, ProcessIncomingKeeps
  <2> QED BY <2>1, <2>2, <2>4, StepSound
<1>11. ASSUME NEW e \in End, NEW m \in net[e], ReceiveReset(e, m) PROVE Sound'
  <2> DEFINE unheld == IF sock[e].state = "FIN_SENT" THEN "DESTROY" ELSE "RESET"
  <2>1. PICK rest \in Received(e, m) : Step(e, Fail(sock[e], unheld), rest)
    BY <1>11 DEF ReceiveReset
  <2>2. rest \in [End -> SUBSET Message] /\ sock[e] \in Good
    BY <1>9
  <2>3. unheld \in State \ Connected
    BY DEF State, Connected
  <2> HIDE DEF unheld
  <2>4. Fail(sock[e], unheld) \in Good
    BY <2>2, <2>3, FailKeeps
  <2> QED BY <2>1, <2>2, <2>4, StepSound
<1>12. ASSUME NEW e \in End, NEW m \in net[e], Refuse(e, m) PROVE Sound'
  <2> DEFINE rst == [type |-> "RESET", seq |-> 0, ack |-> m.seq, data |-> << >>, sack |-> {}]
             sent == IF m.type = "RESET" THEN {} ELSE {rst}
             s == [sock[e] EXCEPT !.sent = sent]
             rest == [net EXCEPT ![e] = @ \ {m}]
  <2>1. Step(e, s, rest)
    BY <1>12 DEF Refuse
  <2>2. m \in Message /\ sock[e] \in Good
    OBVIOUS
  <2>3. sent \subseteq Message
    <3>1. m.seq \in Number /\ 0 \in Number
      BY <2>2, SeqAssumption DEF Message, Number
    <3>2. rst \in Message
      BY <3>1 DEF Message
    <3> HIDE DEF rst
    <3> QED BY <3>2
  <2>4. rest \in [End -> SUBSET Message]
    OBVIOUS
  <2> HIDE DEF sent, rest
  <2>5. s \in Good
    <3>1. sock[e] \in Socket
      BY <2>2, GoodSocket
    <3>2. s \in Socket /\ SameBuffers(sock[e], s)
      BY <3>1, <2>3 DEF Socket, SameBuffers, SameReceiver
    <3> HIDE DEF s
    <3> QED BY <2>2, <3>2, SameBuffersGood
  <2> HIDE DEF s
  <2> QED BY <2>1, <2>4, <2>5, StepSound
<1>13. CASE UNCHANGED vars
  BY <1>13 DEF vars
<1> QED BY <1>1, <1>2, <1>3, <1>4, <1>5, <1>6, <1>7, <1>8, <1>10, <1>11, <1>12, <1>13 DEF Next

LEMMA AlwaysSound == Spec => []Sound
<1> QED BY SoundInit, SoundNext, PTL DEF Spec

(* The oldest packet of the window is never one that was acknowledged: the *)
(* assertions of selective_ack_bytes, selective_ack and                    *)
(* utp_process_incoming.                                                   *)
THEOREM OldestStaysUnacked == Spec => []OldestUnacked
<1>1. Sound => OldestUnacked
  BY DEF Sound, Good, OldestUnacked
<1> QED BY <1>1, AlwaysSound, PTL

(* cur_window is the sum of the packets under way, however packets are     *)
(* sent, sent again, acknowledged and given up: check_invariant.           *)
THEOREM WindowAlwaysAccounted == Spec => []WindowAccounting
<1>1. Sound => WindowAccounting
  <2> SUFFICES ASSUME Sound, NEW e \in End
               PROVE sock[e].cur_window =
                 FoldLeft(LAMBDA n, p : IF p # NULL /\ p.transmissions > 0 /\ ~p.need_resend
                             THEN n + Len(p.data) ELSE n, 0, sock[e].outbuf)
    BY DEF WindowAccounting
  <2>1. sock[e] \in Good
    BY DEF Sound
  <2>2. sock[e].cur_window = Cardinality(InFlight(sock[e].outbuf)) /\ sock[e] \in Socket
    BY <2>1 DEF Good, Counting
  <2>3. sock[e].outbuf \in Seq(Packet \cup {NULL})
    BY <2>2, Outbuf
  <2> QED BY <2>2, <2>3, FlightSum
<1> QED BY <1>1, AlwaysSound, PTL

(* reorder_count counts the reorder buffer of a connected socket, and the  *)
(* packet expected next never waits in it: the loop at the end of          *)
(* utp_process_incoming takes out all it can.                              *)
THEOREM ReorderBufferAgrees == Spec => []ReorderBuffer
<1>1. Sound => ReorderBuffer
  BY DEF Sound, Good, Counting, ReorderBuffer
<1> QED BY <1>1, AlwaysSound, PTL

(* A packet is counted in the reorder buffer only if it is within reach,   *)
(* so there are no more than there are places for.                         *)
LEMMA FewWait == ASSUME NEW s \in Good PROVE s.reorder_count \in 0..ReorderMax
<1> DEFINE B == Between(s, 1)
           R == 1..(ReorderMax - 1)
           f == [p \in B |-> Mod(p.seq - s.ack_nr - 1)]
<1>1. s \in Socket /\ IsFiniteSet(s.inbuf) /\ Inbox(s, 1) /\ ReorderMax \in Nat
  BY GoodSocket, SeqAssumption DEF Counting
<1>2. ASSUME NEW p \in B PROVE p \in s.inbuf /\ p.seq \in Number /\ f[p] \in R
  <2>1. p \in s.inbuf /\ f[p] \in R
    BY DEF Between
  <2> QED BY <1>1, <2>1 DEF Socket
<1>3. ASSUME NEW p \in B, NEW q \in B, f[p] = f[q] PROVE p = q
  <2>1. Mod(p.seq - s.ack_nr - 1) = Mod(q.seq - s.ack_nr - 1) /\ s.ack_nr \in Number
    BY <1>1, <1>3 DEF Socket
  <2>2. p.seq = q.seq
    BY <1>2, <2>1, SameAhead
  <2> QED BY <1>1, <1>2, <2>2 DEF Inbox
<1>4. IsFiniteSet(R) /\ Cardinality(R) <= ReorderMax /\ Cardinality(R) \in Nat
  <2>1. IsFiniteSet(R) /\ Cardinality(R) = IF 1 > ReorderMax - 1 THEN 0 ELSE (ReorderMax - 1) - 1 + 1
    BY <1>1, FS_Interval
  <2> HIDE DEF R
  <2> QED BY <1>1, <2>1
<1>5. IsFiniteSet(B) /\ Cardinality(B) \in Nat
  BY <1>1, BetweenFinite
<1>6. f \in Injection(B, R)
  <2>1. f \in [B -> R]
    <3>1. \A p \in B : f[p] \in R
      BY <1>2
    <3>2. f = [p \in B |-> f[p]]
      OBVIOUS
    <3> HIDE DEF f, B, R
    <3> QED BY <3>1, <3>2
  <2> HIDE DEF f, B, R
  <2> QED BY <1>3, <2>1 DEF Injection, IsInjective
<1> HIDE DEF f, B, R
<1>7. Cardinality(B) <= Cardinality(R)
  BY <1>4, <1>5, <1>6, FS_Injection
<1>8. s.reorder_count \in Nat /\ s.reorder_count <= Cardinality(B)
  BY <1>1 DEF Inbox, B
<1> QED BY <1>1, <1>4, <1>5, <1>7, <1>8

(* The send buffer of a socket holds at most OutMax packets, its FIN with  *)
(* them, no more bytes than that are under way, and never more packets are *)
(* counted in the reorder buffer than it has places for.                   *)
THEOREM BuffersAreBounded == Spec => []TypeOK
<1>1. Sound => TypeOK
  <2> SUFFICES ASSUME Sound, NEW e \in End
               PROVE /\ sock[e].state \in State
                     /\ {sock[e].seq_nr, sock[e].ack_nr, sock[e].fast_resend_seq_nr, sock[e].eof_pkt}
                          \subseteq 0..(Modulus - 1)
                     /\ Packets(sock[e]) \in 0..OutMax
                     /\ sock[e].cur_window \in 0..OutMax /\ sock[e].max_window \in 0..Window
                     /\ sock[e].reorder_count \in 0..ReorderMax
    BY DEF TypeOK
  <2> DEFINE s == sock[e]
  <2>1. s \in Good /\ s \in Socket /\ s \in Counting
    BY GoodSocket DEF Sound
  <2> HIDE DEF s
  <2>2. s.state \in State /\ s.max_window \in 0..Window
    BY <2>1 DEF Socket
  <2>3. {s.seq_nr, s.ack_nr, s.fast_resend_seq_nr, s.eof_pkt} \subseteq 0..(Modulus - 1)
    BY <2>1 DEF Socket, Number
  <2>4. Len(s.outbuf) \in 0..OutMax
    BY <2>1, Outbuf, LimitAssumption DEF Counting, Room
  <2>5. s.cur_window \in 0..OutMax
    <3> DEFINE I == InFlight(s.outbuf)
    <3>1. I \subseteq 1..Len(s.outbuf) /\ Cardinality(I) \in Nat
      BY <2>1, FlightFinite
    <3>2. IsFiniteSet(1..Len(s.outbuf)) /\ Cardinality(1..Len(s.outbuf)) = Len(s.outbuf)
      BY <2>4, Interval
    <3> HIDE DEF I
    <3>3. Cardinality(I) <= Len(s.outbuf)
      BY <3>1, <3>2, FS_Subset
    <3>4. s.cur_window = Cardinality(I)
      BY <2>1 DEF Counting, I
    <3> QED BY <2>4, <3>1, <3>3, <3>4, LimitAssumption
  <2>6. s.reorder_count \in 0..ReorderMax
    BY <2>1, FewWait
  <2> QED BY <2>2, <2>3, <2>4, <2>5, <2>6 DEF s, Packets
<1> QED BY <1>1, AlwaysSound, PTL
=============================================================================

------------------------- MODULE UtpDelivery_proofs -------------------------
(***************************************************************************)
(* Proofs about the two ends of an established connection together: that   *)
(* what one end takes for acknowledged the other has, that what is read is *)
(* what was written, and that UtpStream implements ReliableStream.         *)
(*                                                                         *)
(* The network of UtpStream keeps packets as long as it likes, so a packet *)
(* could outlive a whole turn of the sequence numbers and be taken for a   *)
(* later one.  NoWrap excludes that: what an end writes, with what may be  *)
(* ahead of it, is less than the sequence numbers there are.  Where the    *)
(* numbers begin, and so whether they pass zero, is left open.             *)
(***************************************************************************)
EXTENDS UtpStream_proofs

NoWrap == \A amount \in Amounts : \A e \in End : amount[e] + ReorderMax + 3 <= Modulus

-----------------------------------------------------------------------------
(* Sequence numbers: the k-th packet of a stream has the number At(e, k).  *)

At(e, k) == Mod(SeqNr[e] + k - 1)

LEMMA AtNumber ==
  ASSUME NEW e \in End, NEW k \in Int
  PROVE  At(e, k) \in Number /\ At(e, k) \in Int /\ \E q \in Int : SeqNr[e] + k - 1 = Modulus * q + At(e, k)
<1>1. SeqNr[e] \in Int
  BY SeqAssumption
<1>2. SeqNr[e] + k - 1 \in Int
  BY <1>1
<1> QED BY <1>2, ModNumber, Quotient DEF At, Number

LEMMA AtShift ==
  ASSUME NEW e \in End, NEW k \in Int, NEW c \in Int PROVE Mod(At(e, k) + c) = At(e, k + c)
<1>0. SeqNr[e] \in Int /\ Modulus \in Int
  BY SeqAssumption
<1>1. PICK q \in Int : SeqNr[e] + k - 1 = Modulus * q + At(e, k)
  BY AtNumber
<1>2. At(e, k) \in Int /\ Modulus * q \in Int
  BY <1>0, AtNumber
<1> DEFINE a == SeqNr[e] + (k + c) - 1
           b == At(e, k) + c
<1>3. a = b + Modulus * q /\ a \in Int /\ b \in Int
  BY <1>0, <1>1, <1>2
<1>4. Mod(a) = Mod(b)
  <2> HIDE DEF a, b
  <2> QED BY <1>3, Congruent
<1> QED BY <1>4 DEF At

(* The distance of two packets is that of their numbers.                   *)
LEMMA Distance ==
  ASSUME NEW e \in End, NEW j \in Int, NEW k \in Int, NEW c \in Int
  PROVE  Mod(At(e, j) - At(e, k) + c) = Mod(j - k + c)
<1>0. SeqNr[e] \in Int /\ Modulus \in Int
  BY SeqAssumption
<1>1. PICK q \in Int : SeqNr[e] + k - 1 = Modulus * q + At(e, k)
  BY AtNumber
<1>2. PICK p \in Int : SeqNr[e] + j - 1 = Modulus * p + At(e, j)
  BY AtNumber
<1>3. At(e, k) \in Int /\ At(e, j) \in Int /\ Modulus * q \in Int /\ Modulus * p \in Int
  BY <1>0, AtNumber
<1> DEFINE a == At(e, j) - At(e, k) + c
           b == j - k + c
<1>4. Modulus * (q - p) = Modulus * q - Modulus * p
  BY <1>0
<1>5. a = b + Modulus * (q - p) /\ a \in Int /\ b \in Int /\ q - p \in Int
  <2> DEFINE u == Modulus * q
             v == Modulus * p
             x == At(e, j)
             y == At(e, k)
  <2>1. SeqNr[e] + k - 1 = u + y /\ SeqNr[e] + j - 1 = v + x
        /\ u \in Int /\ v \in Int /\ x \in Int /\ y \in Int
    BY <1>1, <1>2, <1>3
  <2>2. Modulus * (q - p) = u - v
    BY <1>4
  <2> HIDE DEF u, v, x, y
  <2>3. x - y + c = j - k + c + (u - v)
    BY <1>0, <2>1
  <2> QED BY <2>1, <2>2, <2>3 DEF x, y
<1>6. Mod(a) = Mod(b)
  <2> HIDE DEF a, b
  <2> QED BY <1>5, Congruent
<1> QED BY <1>6

LEMMA AtInjective ==
  ASSUME NEW e \in End, NEW j \in Int, NEW k \in Int, At(e, j) = At(e, k),
         j - k < Modulus, k - j < Modulus
  PROVE  j = k
<1>0. Modulus \in Nat \ {0}
  BY SeqAssumption
<1>1. Mod(At(e, j) - At(e, k) + 0) = Mod(j - k + 0)
  BY Distance
<1>2. At(e, j) - At(e, k) + 0 = 0
  BY AtNumber
<1>3. 0 \in 0..(Modulus - 1)
  BY <1>0
<1>4. Mod(j - k + 0) = 0
  BY <1>1, <1>2, <1>3, Small
<1>5. CASE j - k >= 0
  <2>1. j - k + 0 \in 0..(Modulus - 1)
    BY <1>0, <1>5
  <2>2. Mod(j - k + 0) = j - k + 0
    BY <2>1, Small
  <2> QED BY <1>4, <2>2
<1>6. CASE j - k < 0
  <2>1. j - k + 0 \in (-Modulus)..(-1)
    BY <1>0, <1>6
  <2>2. Mod(j - k + 0) = j - k + 0 + Modulus
    BY <2>1, Small
  <2> QED BY <1>0, <1>4, <2>2
<1> QED BY <1>5, <1>6
-----------------------------------------------------------------------------
(* The two halves                                                          *)

(* How many packets s put into its stream, the FIN among them              *)
Total(e, s) == Mod(s.seq_nr - SeqNr[e])

(* How many of the stream of e the socket r took in order                  *)
Got(e, r) == Mod(r.ack_nr + 1 - SeqNr[e])

(* and which ones it has, in order or in the reorder buffer                *)
Has(e, r) == (1..Got(e, r)) \cup {k \in 1..(Modulus - 1) : \E p \in r.inbuf : p.seq = At(e, k)}

LEMMA FirstNumber == ASSUME NEW e \in End PROVE SeqNr[e] \in Number /\ At(e, 1) = SeqNr[e]
<1>1. SeqNr[e] \in 0..(Modulus - 1) /\ SeqNr[e] + 1 - 1 = SeqNr[e]
  BY SeqAssumption
<1> QED BY <1>1, Small DEF At, Number

LEMMA TotalIs ==
  ASSUME NEW e \in End, NEW s, s.seq_nr \in Number
  PROVE  Total(e, s) \in 0..(Modulus - 1) /\ Total(e, s) \in Nat /\ s.seq_nr = At(e, Total(e, s) + 1)
<1> DEFINE v == s.seq_nr
           T == Total(e, s)
<1>0. Modulus \in Nat \ {0} /\ SeqNr[e] \in Int /\ v \in Int /\ v - SeqNr[e] \in Int /\ v \in Number
  BY SeqAssumption DEF Number
<1>1. T \in Number /\ T = Mod(v - SeqNr[e])
  BY <1>0, ModNumber DEF Total
<1>2. PICK q \in Int : v - SeqNr[e] = Modulus * q + Mod(v - SeqNr[e])
  BY <1>0, Quotient
<1> HIDE DEF v, T
<1> DEFINE b == SeqNr[e] + (T + 1) - 1
           u == Modulus * q
<1>3. v = b + Modulus * q /\ b \in Int
  <2>1. u \in Int
    BY <1>0
  <2>2. v - SeqNr[e] = u + T /\ T \in Int
    BY <1>1, <1>2 DEF Number
  <2> HIDE DEF u
  <2>3. v = b + u /\ b \in Int
    BY <1>0, <2>1, <2>2
  <2> QED BY <2>3 DEF u
<1>4. Mod(v) = Mod(b)
  <2> HIDE DEF b
  <2> QED BY <1>0, <1>3, Congruent
<1>5. Mod(v) = v
  BY <1>0, Small DEF Number
<1> QED BY <1>0, <1>1, <1>4, <1>5 DEF At, v, T, Number

LEMMA TotalOf ==
  ASSUME NEW e \in End, NEW s, NEW k \in 0..(Modulus - 1), s.seq_nr = At(e, k + 1)
  PROVE  Total(e, s) = k
<1>1. Mod(At(e, k + 1) - At(e, 1) + 0) = Mod(k + 1 - 1 + 0) /\ k + 1 - 1 + 0 = k
  BY Distance
<1>2. At(e, k + 1) - At(e, 1) + 0 = s.seq_nr - SeqNr[e]
  BY FirstNumber, AtNumber DEF Number
<1> QED BY <1>1, <1>2, Small DEF Total

LEMMA GotIs ==
  ASSUME NEW e \in End, NEW r, r.ack_nr \in Number
  PROVE  Got(e, r) \in 0..(Modulus - 1) /\ Got(e, r) \in Nat /\ r.ack_nr = At(e, Got(e, r))
<1> DEFINE v == r.ack_nr
           G == Got(e, r)
<1>0. Modulus \in Nat \ {0} /\ SeqNr[e] \in Int /\ v \in Int /\ v + 1 - SeqNr[e] \in Int /\ v \in Number
  BY SeqAssumption DEF Number
<1>1. G \in Number /\ G = Mod(v + 1 - SeqNr[e])
  BY <1>0, ModNumber DEF Got
<1>2. PICK q \in Int : v + 1 - SeqNr[e] = Modulus * q + Mod(v + 1 - SeqNr[e])
  BY <1>0, Quotient
<1> HIDE DEF v, G
<1> DEFINE b == SeqNr[e] + G - 1
           u == Modulus * q
<1>3. v = b + Modulus * q /\ b \in Int
  <2>1. u \in Int
    BY <1>0
  <2>2. v + 1 - SeqNr[e] = u + G /\ G \in Int
    BY <1>1, <1>2 DEF Number
  <2> HIDE DEF u
  <2>3. v = b + u /\ b \in Int
    BY <1>0, <2>1, <2>2
  <2> QED BY <2>3 DEF u
<1>4. Mod(v) = Mod(b)
  <2> HIDE DEF b
  <2> QED BY <1>0, <1>3, Congruent
<1>5. Mod(v) = v
  BY <1>0, Small DEF Number
<1> QED BY <1>0, <1>1, <1>4, <1>5 DEF At, v, G, Number

LEMMA GotOf ==
  ASSUME NEW e \in End, NEW r, NEW k \in 0..(Modulus - 1), r.ack_nr = At(e, k)
  PROVE  Got(e, r) = k
<1>1. Mod(At(e, k) - At(e, 1) + 1) = Mod(k - 1 + 1) /\ k - 1 + 1 = k
  BY Distance
<1>2. At(e, k) - At(e, 1) + 1 = r.ack_nr + 1 - SeqNr[e]
  BY FirstNumber, AtNumber DEF Number
<1> QED BY <1>1, <1>2, Small DEF Got

(* A packet of the window: the k-th of its stream.  An empty place was     *)
(* acknowledged.  A FIN is sent when everything before it was.             *)
Carries(w, k, p) ==
  IF k <= w THEN p.type = "DATA" /\ p.data = <<k>> ELSE p.type = "FIN" /\ p.data = << >>

Placed(R, w, k, p) ==
  IF p = NULL THEN k \in R
  ELSE Carries(w, k, p) /\ (p.type = "FIN" /\ p.transmissions > 0 => 1..w \subseteq R)

Base(e, s) == Total(e, s) - Len(s.outbuf)

(* The sending half of s is right, the peer having the packets R.          *)
SendWindow(e, R, s) ==
  /\ Total(e, s) \in {s.written, s.written + 1}
  /\ s.state \in Connected => Total(e, s) = s.written
  /\ s.state = "FIN_SENT" => Total(e, s) = s.written + 1
  /\ s.written + s.left + ReorderMax + 3 <= Modulus
  /\ Len(s.outbuf) <= Total(e, s) /\ Len(s.outbuf) + s.written < OutMax + Total(e, s)
  /\ 1..Base(e, s) \subseteq R
  /\ \A i \in 1..Len(s.outbuf) : Placed(R, s.written, Base(e, s) + i, s.outbuf[i])

(* What a packet says of the stream it belongs to and of the stream f that *)
(* it acknowledges                                                         *)
Acked(f, s, m) ==
  /\ \E j \in (-1)..Got(f, s) : m.ack = At(f, j)
  /\ \A v \in m.sack : \E k \in Has(f, s) : v = At(f, k)

Valid(e, R, s, m) ==
  /\ m.type = "DATA" => \E k \in 1..s.written : m.seq = At(e, k) /\ m.data = <<k>>
  /\ m.type = "FIN" => /\ m.seq = At(e, s.written + 1) /\ m.data = << >>
                       /\ Total(e, s) = s.written + 1 /\ 1..s.written \subseteq R
  /\ m.type # "RESET" => Acked(Peer(e), s, m)

(* Sockets of e with a right sending half, that sent valid packets         *)
Sends(e, R) == {s \in Socket : SendWindow(e, R, s) /\ \A m \in s.sent : Valid(e, R, s, m)}

LEMMA KeptSame ==
  ASSUME NEW s, NEW t, Kept(s, t)
  PROVE  /\ \A e : Total(e, t) = Total(e, s) /\ Got(e, t) = Got(e, s) /\ Has(e, t) = Has(e, s)
         /\ t.written = s.written /\ t.state = s.state /\ t.left = s.left
BY DEF Kept, Total, Got, Has

LEMMA KeptValid ==
  ASSUME NEW e, NEW R, NEW s, NEW t, Kept(s, t), NEW m, Valid(e, R, s, m)
  PROVE  Valid(e, R, t, m)
BY KeptSame DEF Valid, Acked

LEMMA SendsSocket ==
  ASSUME NEW e \in End, NEW R, NEW s \in Sends(e, R)
  PROVE  /\ s \in Socket /\ SendWindow(e, R, s) /\ \A m \in s.sent : Valid(e, R, s, m)
         /\ Total(e, s) \in Nat /\ Total(e, s) < Modulus - 1 /\ s.seq_nr = At(e, Total(e, s) + 1)
         /\ s.written \in Nat /\ s.left \in Nat /\ Total(e, s) \in {s.written, s.written + 1}
         /\ Len(s.outbuf) \in Nat /\ DOMAIN s.outbuf = 1..Len(s.outbuf)
         /\ Base(e, s) \in Nat /\ Base(e, s) + Len(s.outbuf) = Total(e, s)
<1>1. s \in Socket /\ SendWindow(e, R, s) /\ \A m \in s.sent : Valid(e, R, s, m)
  BY DEF Sends
<1>2. s.seq_nr \in Number /\ s.written \in Nat /\ s.left \in Nat
  BY <1>1 DEF Socket
<1>3. Len(s.outbuf) \in Nat /\ DOMAIN s.outbuf = 1..Len(s.outbuf)
  BY <1>1, Outbuf
<1>4. Total(e, s) \in Nat /\ s.seq_nr = At(e, Total(e, s) + 1)
  BY <1>2, TotalIs
<1>5. Total(e, s) \in {s.written, s.written + 1} /\ s.written + s.left + ReorderMax + 3 <= Modulus
      /\ Len(s.outbuf) <= Total(e, s)
  BY <1>1 DEF SendWindow
<1>6. Total(e, s) < Modulus - 1
  <2> DEFINE T == Total(e, s)
             w == s.written
             l == s.left
  <2>1. T \in {w, w + 1} /\ w + l + ReorderMax + 3 <= Modulus /\ w \in Nat /\ l \in Nat
    BY <1>2, <1>5
  <2>2. Modulus \in Nat /\ ReorderMax \in Nat
    BY SeqAssumption
  <2> HIDE DEF T, w, l
  <2>3. T < Modulus - 1
    BY <2>1, <2>2
  <2> QED BY <2>3 DEF T
<1>7. Base(e, s) \in Nat /\ Base(e, s) + Len(s.outbuf) = Total(e, s)
  <2> DEFINE T == Total(e, s)
             n == Len(s.outbuf)
  <2>1. T \in Nat /\ n \in Nat /\ n <= T
    BY <1>3, <1>4, <1>5
  <2> HIDE DEF T, n
  <2>2. T - n \in Nat /\ T - n + n = T
    BY <2>1
  <2> QED BY <2>2 DEF T, n, Base
<1> QED BY <1>1, <1>2, <1>3, <1>4, <1>5, <1>6, <1>7

(* The number of the packet at a place                                     *)
LEMMA PlaceNumber ==
  ASSUME NEW e \in End, NEW R, NEW s \in Sends(e, R), NEW i \in Int
  PROVE  /\ Oldest(s) = At(e, Base(e, s) + 1) /\ Mod(Oldest(s) + i - 1) = At(e, Base(e, s) + i)
         /\ Mod(Oldest(s) + i) = At(e, Base(e, s) + i + 1)
<1> DEFINE T == Total(e, s)
           n == Len(s.outbuf)
           B == Base(e, s)
<1>1. s.seq_nr = At(e, T + 1) /\ T \in Nat /\ n \in Nat /\ B = T - n
  BY SendsSocket DEF Base
<1> HIDE DEF T, n, B
<1>2. T + 1 \in Int /\ -n \in Int /\ T + 1 + (-n) = B + 1 /\ B \in Int
  BY <1>1
<1>3. At(e, T + 1) + (-n) = s.seq_nr - n
  BY <1>1, <1>2, AtNumber
<1>4. Oldest(s) = At(e, B + 1)
  <2>1. Mod(At(e, T + 1) + (-n)) = At(e, T + 1 + (-n))
    BY <1>2, AtShift
  <2> QED BY <1>2, <1>3, <2>1 DEF Oldest, Packets, n
<1>5. At(e, B + 1) \in Int /\ B + 1 \in Int
  BY <1>2, AtNumber
<1>6. Oldest(s) + i - 1 = At(e, B + 1) + (i - 1) /\ B + 1 + (i - 1) = B + i
  BY <1>2, <1>4, <1>5
<1>7. Mod(At(e, B + 1) + (i - 1)) = At(e, B + 1 + (i - 1))
  BY <1>2, AtShift
<1>8. Mod(At(e, B + 1) + i) = At(e, B + 1 + i) /\ B + 1 + i = B + i + 1
  BY <1>2, AtShift
<1> QED BY <1>4, <1>6, <1>7, <1>8 DEF B

(* Packets change in place.                                                *)
LEMMA PlacesSend ==
  ASSUME NEW e \in End, NEW R, NEW s \in Sends(e, R), NEW t \in Socket, Kept(s, t),
         Len(t.outbuf) = Len(s.outbuf),
         \A m \in t.sent : Valid(e, R, s, m),
         \A i \in 1..Len(s.outbuf) : Placed(R, s.written, Base(e, s) + i, t.outbuf[i])
  PROVE  t \in Sends(e, R)
<1>1. SendWindow(e, R, s)
  BY SendsSocket
<1>2. Total(e, t) = Total(e, s) /\ t.written = s.written /\ t.state = s.state /\ t.left = s.left
  BY KeptSame
<1>3. Base(e, t) = Base(e, s)
  BY <1>2 DEF Base
<1>4. SendWindow(e, R, t)
  BY <1>1, <1>2, <1>3 DEF SendWindow
<1>5. \A m \in t.sent : Valid(e, R, t, m)
  BY KeptValid
<1> QED BY <1>4, <1>5 DEF Sends

-----------------------------------------------------------------------------
(* Sending                                                                 *)

(* An acknowledgement of what came last is valid.                          *)
LEMMA AckIsValid ==
  ASSUME NEW e \in End, NEW s \in Socket, NEW m, m.ack = s.ack_nr, m.sack = {}
  PROVE  Acked(Peer(e), s, m)
<1> DEFINE f == Peer(e)
           G == Got(f, s)
<1>1. f \in End /\ s.ack_nr \in Number
  BY PeerIn DEF Socket
<1>2. G \in Nat /\ s.ack_nr = At(f, G)
  BY <1>1, GotIs
<1> HIDE DEF f, G
<1>3. G \in (-1)..G
  BY <1>2
<1> QED BY <1>2, <1>3 DEF Acked, f, G

(* Any packet may be sent, but a FIN only when what is before it arrived.  *)
LEMMA SendPacketSends ==
  ASSUME NEW e \in End, NEW R, NEW s \in Sends(e, R), s \in Counting,
         NEW i \in DOMAIN s.outbuf, s.outbuf[i] # NULL,
         s.outbuf[i].type = "FIN" => 1..s.written \subseteq R
  PROVE  LET t == SendPacket(s, i)
         IN  t \in Sends(e, R) /\ Kept(s, t) /\ SamePlaces(s, t)
<1> DEFINE t == SendPacket(s, i)
           p == s.outbuf[i]
           m == SentFrom(s, i)
           n == Len(s.outbuf)
           T == Total(e, s)
           B == Base(e, s)
           w == s.written
           k == B + i
<1>1. s \in Socket /\ i \in 1..n /\ n \in Nat /\ DOMAIN s.outbuf = 1..n
      /\ T \in {w, w + 1} /\ w \in Nat /\ B \in Nat /\ B + n = T
      /\ SendWindow(e, R, s) /\ \A l \in s.sent : Valid(e, R, s, l)
  BY SendsSocket
<1>2. t \in Socket /\ SamePlaces(s, t)
  <2>1. t \in Counting /\ SamePlaces(s, t)
    BY SendPacketGood
  <2> QED BY <2>1 DEF Counting
<1>3. /\ Kept(s, t) /\ t.sent = s.sent \cup {m} /\ Len(t.outbuf) = n
      /\ \A j \in 1..n : j # i => t.outbuf[j] = s.outbuf[j]
      /\ t.outbuf[i].type = p.type /\ t.outbuf[i].data = p.data
  BY <1>1, SendPacketShape
<1>4. Carries(w, k, p) /\ p.type \in {"DATA", "FIN"}
  <2>1. Placed(R, w, k, p)
    BY <1>1 DEF SendWindow
  <2> QED BY <2>1 DEF Placed, Carries
<1>5. m.seq = At(e, k) /\ m.type = p.type /\ m.data = p.data /\ m.ack = s.ack_nr /\ m.sack = {}
  <2>1. Mod(Oldest(s) + i - 1) = At(e, k)
    BY <1>1, PlaceNumber
  <2> QED BY <2>1 DEF SentFrom
<1> HIDE DEF t, m, n, T, B, w, p
<1>6. k \in 1..T
  BY <1>1
<1>7. Valid(e, R, s, m)
  <2>1. Acked(Peer(e), s, m)
    BY <1>1, <1>5, AckIsValid
  <2>2. ASSUME p.type = "DATA" PROVE k \in 1..w /\ p.data = <<k>>
    BY <1>1, <1>4, <1>6, <2>2 DEF Carries
  <2>3. ASSUME p.type = "FIN" PROVE k = w + 1 /\ T = w + 1 /\ p.data = << >> /\ 1..w \subseteq R
    <3>1. ~(k <= w) /\ p.data = << >>
      BY <1>4, <2>3 DEF Carries
    <3>2. k = w + 1 /\ T = w + 1
      BY <1>1, <1>6, <3>1
    <3> QED BY <2>3, <3>1, <3>2 DEF p, w
  <2>4. m.type = "DATA" => \E l \in 1..w : m.seq = At(e, l) /\ m.data = <<l>>
    BY <1>5, <2>2
  <2>5. m.type = "FIN" => m.seq = At(e, w + 1) /\ m.data = << >> /\ T = w + 1 /\ 1..w \subseteq R
    BY <1>5, <2>3
  <2> QED BY <2>1, <2>4, <2>5 DEF Valid, w, T
<1>8. \A l \in t.sent : Valid(e, R, s, l)
  BY <1>1, <1>3, <1>7
<1>9. ASSUME NEW j \in 1..n PROVE Placed(R, w, B + j, t.outbuf[j])
  <2>1. Placed(R, w, B + j, s.outbuf[j])
    BY <1>1 DEF SendWindow, n, w, B
  <2>2. CASE j # i
    BY <1>3, <2>1, <2>2
  <2>3. CASE j = i
    <3>1. t.outbuf[i] # NULL
      BY <1>1, <1>2 DEF SamePlaces, n
    <3>2. Carries(w, k, t.outbuf[i])
      BY <1>3, <1>4 DEF Carries
    <3>3. t.outbuf[i].type = "FIN" => 1..w \subseteq R
      BY <1>3 DEF p, w
    <3> QED BY <2>3, <3>1, <3>2, <3>3 DEF Placed
  <2> QED BY <2>2, <2>3
<1>10. t \in Sends(e, R)
  BY <1>2, <1>3, <1>8, <1>9, PlacesSend DEF n, w, B
<1> QED BY <1>2, <1>3, <1>10 DEF t

(* ... and the last packet of the window is not a FIN otherwise.           *)
LEMMA OnlyPacket ==
  ASSUME NEW e \in End, NEW R, NEW s \in Sends(e, R), NEW i \in DOMAIN s.outbuf, s.outbuf[i] # NULL,
         s.outbuf[i].type = "FIN"
  PROVE  /\ i = Len(s.outbuf) /\ s.outbuf[i].data = << >> /\ Base(e, s) + i = s.written + 1
         /\ s.outbuf[i].transmissions > 0 => 1..s.written \subseteq R
         /\ i = 1 => 1..s.written \subseteq R
<1> DEFINE n == Len(s.outbuf)
           T == Total(e, s)
           B == Base(e, s)
           w == s.written
<1>1. /\ i \in 1..n /\ n \in Nat /\ T \in {w, w + 1} /\ w \in Nat /\ B \in Nat /\ B + n = T
      /\ SendWindow(e, R, s)
  BY SendsSocket
<1>2. Placed(R, w, B + i, s.outbuf[i]) /\ 1..B \subseteq R
  BY <1>1 DEF SendWindow
<1> HIDE DEF n, T, B, w
<1>3. ~(B + i <= w) /\ s.outbuf[i].data = << >> /\ (s.outbuf[i].transmissions > 0 => 1..w \subseteq R)
  BY <1>2 DEF Placed, Carries
<1>4. i = n /\ B + i = w + 1 /\ (i = 1 => B = w)
  BY <1>1, <1>3
<1> QED BY <1>2, <1>3, <1>4 DEF n, B, w

(* Sockets like s but for their window, with n packets in it               *)
From(e, R, s, n) == {x \in Sends(e, R) : x \in Sized(n) /\ Kept(s, x)}

LEMMA FromIs ==
  ASSUME NEW e, NEW R, NEW s, NEW n, NEW x \in From(e, R, s, n)
  PROVE  /\ x \in Sends(e, R) /\ x \in Good /\ x \in Counting /\ x \in Socket /\ Kept(s, x)
         /\ Len(x.outbuf) = n /\ DOMAIN x.outbuf = 1..n /\ n \in Nat
<1>1. x \in Sends(e, R) /\ x \in Sized(n) /\ Kept(s, x)
  BY DEF From
<1> QED BY <1>1, SizedSocket

(* Sending a packet of such a socket gives such a socket.                  *)
LEMMA SendFrom ==
  ASSUME NEW e \in End, NEW R, NEW s, NEW n, NEW x \in From(e, R, s, n),
         NEW i \in 1..n, x.outbuf[i] # NULL,
         x.outbuf[i].type = "FIN" => 1..x.written \subseteq R
  PROVE  SendPacket(x, i) \in From(e, R, s, n)
<1> DEFINE t == SendPacket(x, i)
<1>1. /\ x \in Sends(e, R) /\ x \in Good /\ x \in Counting /\ Kept(s, x) /\ Len(x.outbuf) = n
      /\ i \in DOMAIN x.outbuf
  BY FromIs
<1>2. t \in Sends(e, R) /\ Kept(x, t) /\ SamePlaces(x, t)
  BY <1>1, SendPacketSends
<1>3. t \in Good
  BY <1>1, SendPacketKeeps
<1> HIDE DEF t
<1>4. Len(t.outbuf) = n /\ Kept(s, t)
  BY <1>1, <1>2, KeptTrans DEF SamePlaces
<1> QED BY <1>2, <1>3, <1>4 DEF From, Sized, t

LEMMA FlushPacketSends ==
  ASSUME NEW e \in End, NEW R, NEW s, NEW n,
         NEW f \in [sock: From(e, R, s, n), stop: BOOLEAN], NEW i \in 1..n
  PROVE  FlushPacket(f, i) \in [sock: From(e, R, s, n), stop: BOOLEAN]
<1> DEFINE x == f.sock
           t == SendPacket(x, i)
           p == x.outbuf[i]
           may == Pending(p) /\ (i # Packets(x) \/ Packets(x) = 1 \/ Len(p.data) >= 1)
<1>1. x \in From(e, R, s, n)
  OBVIOUS
<1>2. \A u \in From(e, R, s, n) : [f EXCEPT !.sock = u] \in [sock: From(e, R, s, n), stop: BOOLEAN]
  OBVIOUS
<1>3. [f EXCEPT !.stop = TRUE] \in [sock: From(e, R, s, n), stop: BOOLEAN]
  OBVIOUS
<1>4. FlushPacket(f, i) \in {f, [f EXCEPT !.stop = TRUE]} \cup
        (IF may THEN {[f EXCEPT !.sock = t]} ELSE {})
  BY DEF FlushPacket
<1>5. ASSUME may PROVE t \in From(e, R, s, n)
  <2>1. x \in Sends(e, R) /\ Len(x.outbuf) = n /\ i \in DOMAIN x.outbuf /\ p # NULL
    BY <1>1, <1>5, FromIs DEF Pending
  <2>2. ASSUME p.type = "FIN" PROVE 1..x.written \subseteq R
    <3>1. i = n /\ p.data = << >> /\ (i = 1 => 1..x.written \subseteq R)
      BY <2>1, <2>2, OnlyPacket
    <3>2. i = 1
      BY <1>5, <2>1, <3>1 DEF Packets
    <3> QED BY <3>1, <3>2
  <2> HIDE DEF x, may
  <2> QED BY <1>1, <2>1, <2>2, SendFrom
<1> HIDE DEF x, t, may
<1> QED BY <1>2, <1>3, <1>4, <1>5

LEMMA FlushPacketsSends ==
  ASSUME NEW e \in End, NEW R, NEW s \in Sends(e, R), s \in Good
  PROVE  LET t == FlushPackets(s)
         IN  t \in Sends(e, R) /\ t \in Good /\ Kept(s, t) /\ Len(t.outbuf) = Len(s.outbuf)
<1> DEFINE n == Packets(s)
           base == [sock |-> s, stop |-> FALSE]
           S == [sock: From(e, R, s, n), stop: BOOLEAN]
           f == FoldLeft(FlushPacket, base, [i \in 1..n |-> i])
<1>1. s \in From(e, R, s, n) /\ n \in Nat /\ n = Len(s.outbuf)
  <2>1. s \in Socket
    BY DEF Good, Counting
  <2> QED BY <2>1, Outbuf DEF From, Sized, Packets, Kept
<1>2. base \in S
  BY <1>1
<1>3. FlushPackets(s) = f.sock
  BY DEF FlushPackets
<1> HIDE DEF n, base
<1>4. \A x \in S : \A i \in 1..n : FlushPacket(x, i) \in S
  BY FlushPacketSends
<1> HIDE DEF S
<1>5. f \in S
  BY <1>1, <1>2, <1>4, FlushTurns
<1> HIDE DEF f
<1>6. f.sock \in From(e, R, s, n)
  BY <1>5 DEF S
<1> QED BY <1>1, <1>3, <1>6, FromIs

(* The packets in the reorder buffer are of the stream of f.               *)
Filed(f, s) == \A p \in s.inbuf : \E k \in 1..(Modulus - 1) : p.seq = At(f, k)

LEMMA FiledHas ==
  ASSUME NEW f, NEW s, Filed(f, s), NEW p \in s.inbuf PROVE \E k \in Has(f, s) : p.seq = At(f, k)
BY DEF Filed, Has

(* One more packet sent                                                    *)
LEMMA SendsMore ==
  ASSUME NEW e \in End, NEW R, NEW s \in Sends(e, R), NEW t \in Socket, Kept(s, t), t.outbuf = s.outbuf,
         NEW m, Valid(e, R, s, m), t.sent = s.sent \cup {m}
  PROVE  t \in Sends(e, R)
<1>1. SendWindow(e, R, s) /\ \A l \in s.sent : Valid(e, R, s, l)
  BY SendsSocket
<1>2. \A l \in t.sent : Valid(e, R, s, l)
  BY <1>1
<1>3. Len(t.outbuf) = Len(s.outbuf)
      /\ \A i \in 1..Len(s.outbuf) : Placed(R, s.written, Base(e, s) + i, t.outbuf[i])
  BY <1>1 DEF SendWindow
<1> QED BY <1>2, <1>3, PlacesSend

LEMMA SendAckSends ==
  ASSUME NEW e \in End, NEW R, NEW s \in Sends(e, R), s \in Good,
         s.state \in Connected => Filed(Peer(e), s)
  PROVE  SendAck(s) \in Sends(e, R) /\ SendAck(s) \in Good /\ Kept(s, SendAck(s))
<1> DEFINE m == [type |-> "STATE", seq |-> s.seq_nr, ack |-> s.ack_nr, data |-> << >>,
                 sack |-> IF s.reorder_count # 0 /\ s.state \in {"CONNECTED", "CONNECTED_FULL"}
                          THEN {p.seq : p \in s.inbuf} ELSE {}]
           t == SendAck(s)
           f == Peer(e)
<1>1. s \in Socket /\ t \in Good /\ t \in Socket
  BY SendAckKeeps, GoodSocket
<1>2. t.sent = s.sent \cup {m} /\ t.outbuf = s.outbuf /\ Kept(s, t)
  <2>1. t = SendData(s, m)
    BY DEF SendAck
  <2> HIDE DEF m, t
  <2> QED BY <1>1, <2>1 DEF SendData, Socket, Kept
<1>3. m.type = "STATE" /\ m.ack = s.ack_nr /\ (m.sack # {} => s.state \in Connected)
      /\ m.sack \subseteq {p.seq : p \in s.inbuf}
  BY DEF Connected
<1> HIDE DEF m, t
<1>4. Acked(f, s, m)
  <2>1. \E j \in (-1)..Got(f, s) : m.ack = At(f, j)
    <3>1. f \in End /\ s.ack_nr \in Number
      BY <1>1, PeerIn DEF Socket
    <3>2. Got(f, s) \in Nat /\ s.ack_nr = At(f, Got(f, s))
      BY <3>1, GotIs
    <3>3. Got(f, s) \in (-1)..Got(f, s)
      BY <3>2
    <3> QED BY <1>3, <3>2, <3>3
  <2>2. ASSUME NEW v \in m.sack PROVE \E k \in Has(f, s) : v = At(f, k)
    <3>1. PICK p \in s.inbuf : v = p.seq
      BY <1>3, <2>2
    <3>2. Filed(f, s)
      BY <1>3, <2>2
    <3> QED BY <3>1, <3>2, FiledHas
  <2> QED BY <2>1, <2>2 DEF Acked
<1>5. Valid(e, R, s, m)
  BY <1>3, <1>4 DEF Valid
<1> QED BY <1>1, <1>2, <1>5, SendsMore DEF t

LEMMA KeptAliveSends ==
  ASSUME NEW e \in End, NEW R, NEW s \in Sends(e, R), s \in Good,
         s.state \in Connected => Filed(Peer(e), s)
  PROVE  KeptAlive(s) \in Sends(e, R) /\ KeptAlive(s) \in Good /\ Kept(s, KeptAlive(s))
<1> DEFINE a == Mod(s.ack_nr - 1)
           m == [type |-> "STATE", seq |-> s.seq_nr, ack |-> a, data |-> << >>,
                 sack |-> IF s.reorder_count # 0 /\ s.state \in {"CONNECTED", "CONNECTED_FULL"}
                          THEN {p.seq : p \in s.inbuf} ELSE {}]
           t == KeptAlive(s)
           f == Peer(e)
<1>1. s \in Socket /\ t \in Good /\ t \in Socket
  BY KeptAliveKeeps, GoodSocket
<1>2. t.sent = s.sent \cup {m} /\ t.outbuf = s.outbuf /\ Kept(s, t)
  <2> HIDE DEF a
  <2> DEFINE u == [s EXCEPT !.ack_nr = a]
             v == SendData(u, m)
  <2>1. /\ u.sent = s.sent /\ u.outbuf = s.outbuf /\ u.seq_nr = s.seq_nr /\ u.ack_nr = a
        /\ u.reorder_count = s.reorder_count /\ u.state = s.state /\ u.inbuf = s.inbuf
        /\ Kept([s EXCEPT !.ack_nr = a], u)
    BY <1>1 DEF Socket, Kept
  <2>2. SendAck(u) = v
    BY <2>1 DEF SendAck
  <2>3. t = [v EXCEPT !.ack_nr = s.ack_nr]
    BY <2>2 DEF KeptAlive, a
  <2> HIDE DEF m, t
  <2> QED BY <1>1, <2>3 DEF Socket, Kept, SendData
<1>3. m.type = "STATE" /\ m.ack = a /\ (m.sack # {} => s.state \in Connected)
      /\ m.sack \subseteq {p.seq : p \in s.inbuf}
  BY DEF Connected
<1> HIDE DEF m, t
<1>4. Acked(f, s, m)
  <2>1. \E j \in (-1)..Got(f, s) : m.ack = At(f, j)
    <3> DEFINE G == Got(f, s)
    <3>1. f \in End /\ s.ack_nr \in Number
      BY <1>1, PeerIn DEF Socket
    <3>2. G \in Nat /\ s.ack_nr = At(f, G)
      BY <3>1, GotIs
    <3> HIDE DEF G, f
    <3>3. Mod(At(f, G) + (-1)) = At(f, G + (-1))
      BY <3>1, <3>2, AtShift
    <3>5. At(f, G) + (-1) = s.ack_nr - 1
      BY <3>1, <3>2, AtNumber
    <3>4. G + (-1) \in (-1)..G
      BY <3>2
    <3> QED BY <1>3, <3>3, <3>4, <3>5 DEF G
  <2>2. ASSUME NEW v \in m.sack PROVE \E k \in Has(f, s) : v = At(f, k)
    <3>1. PICK p \in s.inbuf : v = p.seq
      BY <1>3, <2>2
    <3>2. Filed(f, s)
      BY <1>3, <2>2
    <3> QED BY <3>1, <3>2, FiledHas
  <2> QED BY <2>1, <2>2 DEF Acked
<1>5. Valid(e, R, s, m)
  BY <1>3, <1>4 DEF Valid
<1> QED BY <1>1, <1>2, <1>5, SendsMore DEF t

-----------------------------------------------------------------------------
(* Acknowledgements                                                        *)

(* Only timers and the like change.                                        *)
LEMMA SendsSame ==
  ASSUME NEW e \in End, NEW R, NEW s \in Sends(e, R), NEW t \in Socket, Kept(s, t),
         t.outbuf = s.outbuf, t.sent = s.sent
  PROVE  t \in Sends(e, R)
<1>1. SendWindow(e, R, s) /\ \A l \in s.sent : Valid(e, R, s, l)
  BY SendsSocket
<1>2. Len(t.outbuf) = Len(s.outbuf)
      /\ \A i \in 1..Len(s.outbuf) : Placed(R, s.written, Base(e, s) + i, t.outbuf[i])
  BY <1>1 DEF SendWindow
<1> QED BY <1>1, <1>2, PlacesSend

(* A packet the peer has may be acknowledged.                              *)
LEMMA AckPacketSends ==
  ASSUME NEW e \in End, NEW R, NEW s \in Sends(e, R), s \in Counting,
         NEW i \in DOMAIN s.outbuf, Base(e, s) + i \in R
  PROVE  LET t == AckPacket(s, i)
         IN  /\ t \in Sends(e, R) /\ t \in Counting /\ Kept(s, t) /\ Len(t.outbuf) = Len(s.outbuf)
             /\ \A j \in DOMAIN s.outbuf : t.outbuf[j] \in {s.outbuf[j], NULL}
<1> DEFINE t == AckPacket(s, i)
           n == Len(s.outbuf)
<1>1. s \in Socket /\ DOMAIN s.outbuf = 1..n /\ SendWindow(e, R, s) /\ \A m \in s.sent : Valid(e, R, s, m)
  BY SendsSocket
<1>2. /\ t \in Counting /\ Len(t.outbuf) = n
      /\ \A j \in DOMAIN s.outbuf : j # i => t.outbuf[j] = s.outbuf[j]
  BY AckPacketCounts
<1>3. Kept(s, t) /\ t.sent = s.sent /\ t.outbuf[i] \in {s.outbuf[i], NULL}
  BY <1>1, AckPacketShape
<1> HIDE DEF t
<1>4. t \in Socket
  BY <1>2 DEF Counting
<1>5. ASSUME NEW j \in 1..n PROVE t.outbuf[j] \in {s.outbuf[j], NULL}
  <2>1. CASE j = i
    BY <1>3, <2>1
  <2>2. CASE j # i
    BY <1>1, <1>2, <2>2
  <2> QED BY <2>1, <2>2
<1>6. ASSUME NEW j \in 1..n PROVE Placed(R, s.written, Base(e, s) + j, t.outbuf[j])
  <2>1. Placed(R, s.written, Base(e, s) + j, s.outbuf[j])
    BY <1>1 DEF SendWindow
  <2>2. CASE t.outbuf[j] = s.outbuf[j]
    BY <2>1, <2>2
  <2>3. CASE t.outbuf[j] = NULL /\ t.outbuf[j] # s.outbuf[j]
    <3>1. j = i
      BY <1>1, <1>2, <2>3
    <3> QED BY <2>3, <3>1 DEF Placed
  <2> QED BY <1>5, <2>2, <2>3
<1>7. \A m \in t.sent : Valid(e, R, s, m)
  BY <1>1, <1>3
<1>8. t \in Sends(e, R)
  BY <1>2, <1>3, <1>4, <1>6, <1>7, PlacesSend DEF n
<1> QED BY <1>1, <1>2, <1>3, <1>5, <1>8 DEF t, n

(* Acknowledged packets in front may leave the window.                     *)
LEMMA FrontCut ==
  ASSUME NEW e \in End, NEW R, NEW s \in Sends(e, R), NEW d \in 0..Len(s.outbuf),
         \A j \in 1..d : s.outbuf[j] = NULL
  PROVE  LET t == [s EXCEPT !.outbuf = SubSeq(s.outbuf, d + 1, Len(s.outbuf))]
         IN  t \in Sends(e, R) /\ Kept(s, t) /\ Len(t.outbuf) = Len(s.outbuf) - d
<1> DEFINE n == Len(s.outbuf)
           rest == SubSeq(s.outbuf, d + 1, n)
           t == [s EXCEPT !.outbuf = rest]
           T == Total(e, s)
           B == Base(e, s)
           w == s.written
<1>1. /\ s \in Socket /\ n \in Nat /\ T \in Nat /\ B \in Nat /\ B + n = T /\ w \in Nat
      /\ SendWindow(e, R, s) /\ \A m \in s.sent : Valid(e, R, s, m)
  BY SendsSocket
<1>2. s.outbuf \in Seq(Packet \cup {NULL})
  BY <1>1, Outbuf
<1>3. rest \in Seq(Packet \cup {NULL}) /\ Len(rest) = n - d
      /\ \A j \in 1..Len(rest) : rest[j] = s.outbuf[j + d]
  BY <1>2, ShiftedFlight
<1> HIDE DEF rest
<1>4. t \in Socket /\ Kept(s, t) /\ t.outbuf = rest /\ t.sent = s.sent
  BY <1>1, <1>3 DEF Socket, Kept
<1> HIDE DEF t
<1>5. Total(e, t) = T /\ t.written = w /\ t.state = s.state /\ t.left = s.left
  BY <1>4, KeptSame
<1>6. Base(e, t) = B + d /\ Len(t.outbuf) = n - d
  <2>1. T - (n - d) = B + d
    <3> HIDE DEF T, n, B
    <3> QED BY <1>1
  <2> QED BY <1>3, <1>4, <1>5, <2>1 DEF Base
<1>7. /\ \A k \in 1..B : k \in R
      /\ \A i \in 1..n : Placed(R, w, B + i, s.outbuf[i])
      /\ n <= T /\ n + w < OutMax + T
  BY <1>1 DEF SendWindow
<1>8. 1..(B + d) \subseteq R
  <2> SUFFICES ASSUME NEW k \in 1..(B + d) PROVE k \in R
    OBVIOUS
  <2>1. CASE k <= B
    BY <1>1, <1>7, <2>1
  <2>2. CASE k > B
    <3>1. k - B \in 1..d /\ k - B \in 1..n /\ B + (k - B) = k
      <4>1. d \in 0..n
        OBVIOUS
      <4> HIDE DEF B, n
      <4> QED BY <1>1, <2>2, <4>1
    <3>2. Placed(R, w, k, NULL)
      BY <1>7, <3>1
    <3> QED BY <3>2 DEF Placed
  <2> QED BY <1>1, <2>1, <2>2
<1>9. ASSUME NEW i \in 1..Len(t.outbuf) PROVE Placed(R, w, B + d + i, t.outbuf[i])
  <2>1. i + d \in 1..n /\ B + (i + d) = B + d + i
    <3> HIDE DEF B, n
    <3> QED BY <1>1, <1>6
  <2>2. t.outbuf[i] = s.outbuf[i + d]
    BY <1>3, <1>4
  <2> QED BY <1>7, <2>1, <2>2
<1>10. n - d <= T /\ n - d + w < OutMax + T
  <2> HIDE DEF n, T, w
  <2>1. OutMax \in Nat
    BY LimitAssumption
  <2> QED BY <1>1, <1>7, <2>1
<1>11. SendWindow(e, R, t)
  <2> HIDE DEF n, T, w, B
  <2>1. /\ T \in {w, w + 1} /\ (t.state \in Connected => T = w)
        /\ (t.state = "FIN_SENT" => T = w + 1) /\ w + t.left + ReorderMax + 3 <= Modulus
    BY <1>1, <1>5 DEF SendWindow, T, w
  <2> QED BY <1>5, <1>6, <1>8, <1>9, <1>10, <2>1 DEF SendWindow
<1>12. \A m \in t.sent : Valid(e, R, t, m)
  BY <1>1, <1>4, KeptValid
<1> QED BY <1>4, <1>6, <1>11, <1>12 DEF Sends, t, n, rest

LEMMA AckOldestSends ==
  ASSUME NEW e \in End, NEW R, NEW s \in Sends(e, R), s \in Counting, NEW i,
         s.outbuf # << >>, Base(e, s) + 1 \in R
  PROVE  AckOldest(s, i) \in Sends(e, R) /\ Kept(s, AckOldest(s, i))
<1> DEFINE t == AckPacket(s, 1)
<1>1. s \in Socket /\ Len(s.outbuf) \in Nat /\ 1 \in DOMAIN s.outbuf
  <2>1. s \in Socket
    BY DEF Counting
  <2>2. Len(s.outbuf) \in Nat /\ DOMAIN s.outbuf = 1..Len(s.outbuf) /\ s.outbuf \in Seq(Packet \cup {NULL})
    BY <2>1, Outbuf
  <2>3. Len(s.outbuf) # 0
    BY <2>2
  <2> QED BY <2>1, <2>2, <2>3
<1>2. CASE s.outbuf[1] # NULL /\ s.outbuf[1].transmissions = 0
  BY <1>2 DEF AckOldest, Kept
<1>3. CASE ~(s.outbuf[1] # NULL /\ s.outbuf[1].transmissions = 0)
  <2>1. s.outbuf[1] = NULL \/ s.outbuf[1].transmissions > 0
    <3> SUFFICES ASSUME s.outbuf[1] # NULL PROVE s.outbuf[1].transmissions > 0
      OBVIOUS
    <3>1. s.outbuf[1] \in Packet
      BY <1>1, Outbuf
    <3>2. s.outbuf[1].transmissions \in 0..2
      BY <3>1, PacketFields
    <3> QED BY <1>3, <3>2
  <2>2. t \in Sends(e, R) /\ Kept(s, t) /\ Len(t.outbuf) = Len(s.outbuf) /\ t.outbuf[1] = NULL
    BY <1>1, <2>1, AckPacketSends, AckPacketCounts
  <2>3. AckOldest(s, i) = [t EXCEPT !.outbuf = Tail(@)]
    BY <1>3 DEF AckOldest, DropOldest
  <2> HIDE DEF t
  <2>4. t.outbuf \in Seq(Packet \cup {NULL})
    BY <2>2, Outbuf, SendsSocket
  <2>5. t.outbuf # << >> /\ 1 \in 0..Len(t.outbuf) /\ \A j \in 1..1 : t.outbuf[j] = NULL
    BY <1>1, <2>2, <2>4
  <2> DEFINE u == [t EXCEPT !.outbuf = SubSeq(t.outbuf, 1 + 1, Len(t.outbuf))]
  <2>6. u \in Sends(e, R) /\ Kept(t, u)
    BY <2>2, <2>5, FrontCut
  <2>7. Tail(t.outbuf) = SubSeq(t.outbuf, 1 + 1, Len(t.outbuf))
    <3>1. Tail(t.outbuf) = SubSeq(t.outbuf, 2, Len(t.outbuf))
      BY <2>4, <2>5, TailIsSubSeq
    <3> QED BY <3>1
  <2>8. AckOldest(s, i) = u
    BY <2>3, <2>7
  <2> HIDE DEF u
  <2> QED BY <2>2, <2>6, <2>8, KeptTrans
<1> QED BY <1>2, <1>3

LEMMA AckLoopSends ==
  ASSUME NEW e \in End, NEW R, NEW s \in Sends(e, R), s \in Counting,
         NEW n \in Nat, n <= Len(s.outbuf), 1..(Base(e, s) + n) \subseteq R
  PROVE  LET t == AckLoop(s, n) IN t \in Sends(e, R) /\ t \in Counting /\ Kept(s, t)
<1> DEFINE m == Len(s.outbuf)
           B == Base(e, s)
           T == Total(e, s)
           G == [k \in 0..n |-> {x \in Sends(e, R) : x \in Counting /\ Kept(s, x)
                                                     /\ Len(x.outbuf) >= m - k}]
<1>1. m \in Nat /\ n <= m /\ B \in Nat /\ B + m = T /\ T \in Nat /\ 1..(B + n) \subseteq R
  BY SendsSocket
<1>2. \A k \in 0..n : G[k] = {x \in Sends(e, R) : x \in Counting /\ Kept(s, x) /\ Len(x.outbuf) >= m - k}
  OBVIOUS
<1> HIDE DEF G, m, B, T
<1>3. s \in G[0]
  <2>1. 0 \in 0..n /\ Len(s.outbuf) >= m - 0 /\ Kept(s, s)
    BY <1>1 DEF m, Kept
  <2> QED BY <1>2, <2>1
<1>4. \A j \in 0..n : \A k \in 0..n : j <= k => G[j] \subseteq G[k]
  <2> SUFFICES ASSUME NEW j \in 0..n, NEW k \in 0..n, j <= k, NEW x \in G[j] PROVE x \in G[k]
    OBVIOUS
  <2>1. x \in Sends(e, R) /\ x \in Counting /\ Kept(s, x) /\ Len(x.outbuf) >= m - j
    BY <1>2
  <2>2. Len(x.outbuf) \in Nat
    BY <2>1, SendsSocket
  <2>3. Len(x.outbuf) >= m - k
    BY <1>1, <2>1, <2>2
  <2> QED BY <1>2, <2>1, <2>3
<1>5. ASSUME NEW k \in 1..n, NEW x \in G[k-1] PROVE AckOldest(x, k) \in G[k]
  <2> DEFINE l == Len(x.outbuf)
             u == AckOldest(x, k)
             b == Base(e, x)
  <2>1. k \in 0..n /\ k-1 \in 0..n
    OBVIOUS
  <2>2. x \in Sends(e, R) /\ x \in Counting /\ Kept(s, x) /\ l >= m - (k - 1)
    BY <1>2, <2>1
  <2>3. l \in Nat /\ b \in Nat /\ b + l = T
    BY <2>2, SendsSocket, KeptSame DEF T
  <2> HIDE DEF l, b
  <2>4. l # 0 /\ b + 1 \in 1..(B + n)
    BY <1>1, <2>2, <2>3
  <2>5. x.outbuf # << >> /\ Base(e, x) + 1 \in R
    BY <1>1, <2>4 DEF l, b
  <2>6. u \in Sends(e, R) /\ Kept(x, u) /\ u \in Counting /\ Len(u.outbuf) >= l - 1
    BY <2>2, <2>5, AckOldestSends, AckOldestCounts DEF l
  <2> HIDE DEF u
  <2>7. Len(u.outbuf) \in Nat /\ Kept(s, u)
    BY <2>2, <2>6, SendsSocket, KeptTrans
  <2>8. Len(u.outbuf) >= m - k
    <3> DEFINE v == Len(u.outbuf)
    <3>1. v \in Nat /\ v >= l - 1 /\ l >= m - (k - 1) /\ l \in Nat
      BY <2>2, <2>3, <2>6, <2>7
    <3> HIDE DEF v
    <3>2. v >= m - k
      BY <1>1, <3>1
    <3> QED BY <3>2 DEF v
  <2> QED BY <1>2, <2>1, <2>6, <2>7, <2>8 DEF u
<1>6. AckLoop(s, n) \in G[n]
  BY <1>3, <1>4, <1>5, AckLoopTurns
<1>7. n \in 0..n
  OBVIOUS
<1> QED BY <1>2, <1>6, <1>7

LEMMA SkipAckedSends ==
  ASSUME NEW e \in End, NEW R, NEW s \in Sends(e, R), s \in Counting
  PROVE  LET t == SkipAcked(s) IN t \in Sends(e, R) /\ t \in Good /\ Kept(s, t)
<1>1. s \in Socket
  BY SendsSocket
<1> DEFINE n == Len(s.outbuf)
<1>2. PICK d \in 0..n :
        LET rest == SubSeq(s.outbuf, d + 1, n)
        IN  /\ \A j \in 1..d : s.outbuf[j] = NULL
            /\ SkipAcked(s) = [s EXCEPT !.outbuf = rest]
            /\ rest # << >> => rest[1] # NULL
  BY <1>1, SkipAckedCuts
<1>3. LET t == [s EXCEPT !.outbuf = SubSeq(s.outbuf, d + 1, n)]
      IN  t \in Sends(e, R) /\ Kept(s, t)
  BY <1>2, FrontCut
<1> QED BY <1>2, <1>3, SkipAckedKeeps

LEMMA FirstPacketSends ==
  ASSUME NEW e \in End, NEW R, NEW s \in Sends(e, R), s \in Good, Len(s.outbuf) > 0
  PROVE  LET t == SendPacket(s, 1)
         IN  t \in Sends(e, R) /\ t \in Good /\ Kept(s, t)
<1>1. s \in Socket /\ s \in Counting
  BY GoodSocket
<1>2. 1 \in DOMAIN s.outbuf /\ s.outbuf # << >>
  BY <1>1, Outbuf
<1>3. s.outbuf[1] # NULL
  BY <1>2 DEF Good
<1>4. s.outbuf[1].type = "FIN" => 1..s.written \subseteq R
  BY <1>2, <1>3, OnlyPacket
<1> QED BY <1>1, <1>2, <1>3, <1>4, SendPacketSends, SendPacketKeeps

LEMMA FlushNagleSends ==
  ASSUME NEW e \in End, NEW R, NEW s \in Sends(e, R), s \in Good
  PROVE  LET t == FlushNagle(s) IN t \in Sends(e, R) /\ t \in Good /\ Kept(s, t)
<1>1. CASE Packets(s) = 1 /\ s.outbuf[1].transmissions = 0
  <2>1. FlushNagle(s) = SendPacket(s, 1) /\ Len(s.outbuf) > 0
    BY <1>1 DEF FlushNagle, Packets
  <2> QED BY <2>1, FirstPacketSends
<1>2. CASE ~(Packets(s) = 1 /\ s.outbuf[1].transmissions = 0)
  <2>1. FlushNagle(s) = s
    BY <1>2 DEF FlushNagle
  <2> QED BY <2>1 DEF Kept
<1> QED BY <1>1, <1>2

LEMMA FastTimeoutSends ==
  ASSUME NEW e \in End, NEW R, NEW s \in Sends(e, R), s \in Good
  PROVE  LET t == FastTimeout(s) IN t \in Sends(e, R) /\ t \in Good /\ Kept(s, t)
<1> DEFINE t == [s EXCEPT !.fast_timeout = FALSE]
           u == [s EXCEPT !.fast_resend_seq_nr = Mod(@ + 1)]
<1>1. s \in Socket
  BY GoodSocket
<1>2. t \in Sends(e, R) /\ Kept(s, t)
  <2>1. t \in Socket /\ Kept(s, t) /\ t.outbuf = s.outbuf /\ t.sent = s.sent
    BY <1>1 DEF Socket, Kept
  <2> HIDE DEF t
  <2> QED BY <2>1, SendsSame
<1>3. u \in Sends(e, R) /\ Kept(s, u) /\ u \in Good /\ u.outbuf = s.outbuf
  <2>1. Mod(s.fast_resend_seq_nr + 1) \in Number
    <3>1. s.fast_resend_seq_nr + 1 \in Int
      BY <1>1 DEF Socket, Number
    <3> QED BY <3>1, ModNumber
  <2>2. /\ u \in Socket /\ Kept(s, u) /\ u.outbuf = s.outbuf /\ u.sent = s.sent
        /\ SameBuffers(s, u)
    BY <1>1, <2>1 DEF Socket, Kept, SameBuffers, SameReceiver
  <2> HIDE DEF u
  <2> QED BY <2>2, SendsSame, SameBuffersGood
<1>4. ASSUME Packets(s) > 0
      PROVE SendPacket(u, 1) \in Sends(e, R) /\ Kept(s, SendPacket(u, 1))
  <2> HIDE DEF u
  <2>1. Len(u.outbuf) > 0
    BY <1>3, <1>4 DEF Packets
  <2>2. SendPacket(u, 1) \in Sends(e, R) /\ Kept(u, SendPacket(u, 1))
    BY <1>3, <2>1, FirstPacketSends
  <2> QED BY <1>3, <2>2, KeptTrans
<1>5. FastTimeout(s) \in {s, t} \cup (IF Packets(s) > 0 THEN {SendPacket(u, 1)} ELSE {})
  BY DEF FastTimeout
<1> HIDE DEF t, u
<1>6. Kept(s, s)
  BY DEF Kept
<1> QED BY <1>2, <1>4, <1>5, <1>6, FastTimeoutKeeps

(* Of the packets after the oldest, those the peer has are acknowledged.   *)
LEMMA AckAllSends ==
  ASSUME NEW e \in End, NEW R, NEW s \in Sends(e, R), s \in Good,
         NEW seen \in SUBSET (1..Len(s.outbuf)), 1 \notin seen,
         \A i \in seen : Base(e, s) + i \in R
  PROVE  LET t == AcksAll(s, seen, Len(s.outbuf))
         IN  /\ t \in From(e, R, s, Len(s.outbuf))
             /\ \A i \in 1..Len(s.outbuf) : t.outbuf[i] \in {s.outbuf[i], NULL}
<1> DEFINE n == Len(s.outbuf)
           S == {x \in From(e, R, s, n) : \A i \in 1..n : x.outbuf[i] \in {s.outbuf[i], NULL}}
           B == Base(e, s)
<1>1. s \in S /\ n \in Nat
  <2>1. s \in Socket /\ Kept(s, s)
    BY GoodSocket DEF Kept
  <2> QED BY <2>1, Outbuf DEF Sized, From
<1>2. ASSUME NEW x \in S, NEW i \in 1..n PROVE (IF i \in seen THEN AckPacket(x, i) ELSE x) \in S
  <2>1. /\ x \in Sends(e, R) /\ x \in Good /\ x \in Counting /\ Kept(s, x) /\ Len(x.outbuf) = n
        /\ DOMAIN x.outbuf = 1..n /\ \A j \in 1..n : x.outbuf[j] \in {s.outbuf[j], NULL}
    <3>1. x \in From(e, R, s, n)
      OBVIOUS
    <3> QED BY <3>1, FromIs
  <2>2. CASE i \in seen
    <3> DEFINE t == AckPacket(x, i)
    <3>1. Base(e, x) = B
      BY <2>1, KeptSame DEF Base
    <3>2. Base(e, x) + i \in R
      BY <2>2, <3>1
    <3>3. /\ t \in Sends(e, R) /\ t \in Counting /\ Kept(x, t) /\ Len(t.outbuf) = n
          /\ \A j \in DOMAIN x.outbuf : t.outbuf[j] \in {x.outbuf[j], NULL}
      BY <2>1, <3>2, AckPacketSends
    <3>4. \A j \in DOMAIN x.outbuf : j # i => t.outbuf[j] = x.outbuf[j]
      BY <2>1, AckPacketCounts
    <3> HIDE DEF t
    <3>5. 1 # i /\ 1 \in 1..n
      BY <1>1, <2>2
    <3>6. x.outbuf # << >>
      BY <2>1, <3>5
    <3>7. t.outbuf[1] # NULL
      BY <2>1, <3>4, <3>5, <3>6 DEF Good
    <3>8. t \in Sized(n)
      BY <3>3, <3>7 DEF Good, Sized
    <3>9. Kept(s, t)
      BY <2>1, <3>3, KeptTrans
    <3>10. \A j \in 1..n : t.outbuf[j] \in {s.outbuf[j], NULL}
      BY <2>1, <3>3
    <3>11. t \in S
      BY <3>3, <3>8, <3>9, <3>10 DEF From
    <3> QED BY <2>2, <3>11 DEF t
  <2>3. CASE i \notin seen
    BY <2>3
  <2> QED BY <2>2, <2>3
<1> HIDE DEF S, n
<1>3. AcksAll(s, seen, n) \in S
  BY <1>1, <1>2, AckTurns
<1> QED BY <1>3 DEF S, n

(* Of those still in the window, some are sent again.                      *)
LEMMA ResendAllSends ==
  ASSUME NEW e \in End, NEW R, NEW s \in Sends(e, R), s \in Good,
         NEW again \in SUBSET (1..Len(s.outbuf)), \A i \in again : s.outbuf[i] # NULL,
         \A i \in again : Base(e, s) + i = s.written + 1 => 1..s.written \subseteq R
  PROVE  LET t == ResendsAll(s, again, Len(s.outbuf))
         IN  t \in Sends(e, R) /\ t \in Good /\ Kept(s, t)
<1> DEFINE n == Len(s.outbuf)
           S == {x \in From(e, R, s, n) : \A j \in 1..n : x.outbuf[j] = NULL <=> s.outbuf[j] = NULL}
           B == Base(e, s)
<1>1. s \in S /\ n \in Nat
  <2>1. s \in Socket /\ Kept(s, s)
    BY GoodSocket DEF Kept
  <2> QED BY <2>1, Outbuf DEF Sized, From
<1>2. ASSUME NEW x \in S, NEW i \in 1..n PROVE (IF i \in again THEN Resend(x, i) ELSE x) \in S
  <2>1. /\ x \in Sends(e, R) /\ x \in Good /\ x \in Counting /\ x \in Socket /\ Kept(s, x)
        /\ Len(x.outbuf) = n /\ DOMAIN x.outbuf = 1..n /\ x \in From(e, R, s, n)
        /\ \A j \in 1..n : x.outbuf[j] = NULL <=> s.outbuf[j] = NULL
    <3>1. x \in From(e, R, s, n)
      OBVIOUS
    <3> QED BY <3>1, FromIs
  <2>2. CASE i \in again
    <3> DEFINE t == SendPacket(x, i)
               u == [t EXCEPT !.fast_resend_seq_nr = Mod(Oldest(x) + i)]
    <3>1. i \in DOMAIN x.outbuf /\ x.outbuf[i] # NULL
      BY <2>1, <2>2
    <3>2. ASSUME x.outbuf[i].type = "FIN" PROVE 1..x.written \subseteq R
      <4>1. Base(e, x) + i = x.written + 1
        BY <2>1, <3>1, <3>2, OnlyPacket
      <4>2. Base(e, x) = B /\ x.written = s.written
        BY <2>1, KeptSame DEF Base
      <4> QED BY <2>2, <4>1, <4>2
    <3>3. t \in Sends(e, R) /\ Kept(x, t) /\ SamePlaces(x, t)
      BY <2>1, <3>1, <3>2, SendPacketSends
    <3>4. t \in Good /\ t \in Socket
      BY <2>1, <3>1, SendPacketKeeps, GoodSocket
    <3>5. (IF i \in again THEN Resend(x, i) ELSE x) = u
      BY <2>2 DEF Resend
    <3> HIDE DEF t
    <3>6. Mod(Oldest(x) + i) \in Number
      <4>1. Oldest(x) + i \in Int
        BY <2>1, <1>1, Outbuf DEF Number
      <4> QED BY <4>1, ModNumber
    <3>7. u \in Socket /\ SameBuffers(t, u) /\ u.outbuf = t.outbuf /\ u.sent = t.sent /\ Kept(t, u)
      BY <3>4, <3>6 DEF Socket, SameBuffers, SameReceiver, Kept
    <3> HIDE DEF u
    <3>8. u \in Good /\ u \in Sends(e, R)
      BY <3>3, <3>4, <3>7, SameBuffersGood, SendsSame
    <3>9. Len(u.outbuf) = n /\ \A j \in 1..n : u.outbuf[j] = NULL <=> s.outbuf[j] = NULL
      BY <2>1, <3>3, <3>7 DEF SamePlaces
    <3>10. Kept(s, u)
      BY <2>1, <3>3, <3>7, KeptTrans
    <3>11. u \in S
      BY <3>8, <3>9, <3>10 DEF From, Sized
    <3> QED BY <3>5, <3>11
  <2>3. CASE i \notin again
    BY <2>3
  <2> QED BY <2>2, <2>3
<1>3. \A x \in S : x \in From(e, R, s, n)
  OBVIOUS
<1> HIDE DEF S, n
<1>4. ResendsAll(s, again, n) \in S
  BY <1>1, <1>2, ResendTurns
<1>5. ResendsAll(s, again, n) \in From(e, R, s, n)
  BY <1>3, <1>4
<1> QED BY <1>5, FromIs DEF n

(* What a packet acknowledges, the peer has.                               *)
Known(e, R, ack, sack) ==
  /\ \E j \in (-1)..(Modulus - 1) : ack = At(e, j) /\ 1..j \subseteq R
  /\ \A v \in sack : \E k \in R : v = At(e, k)

LEMMA PlaceOf ==
  ASSUME NEW e \in End, NEW R, NEW s \in Sends(e, R), NEW i \in 1..Len(s.outbuf),
         NEW k \in 0..Modulus, Mod(Oldest(s) + i - 1) = At(e, k)
  PROVE  Base(e, s) + i = k
<1> DEFINE T == Total(e, s)
           n == Len(s.outbuf)
           B == Base(e, s)
<1>1. n \in Nat /\ T \in Nat /\ B \in Nat /\ B + n = T /\ T < Modulus - 1 /\ i \in 1..n
  BY SendsSocket
<1>2. At(e, B + i) = At(e, k)
  BY <1>1, PlaceNumber
<1> HIDE DEF T, n, B
<1>3. Modulus \in Nat
  BY SeqAssumption
<1>4. B + i \in Int /\ k \in Int /\ (B + i) - k < Modulus /\ k - (B + i) < Modulus
  BY <1>1, <1>3
<1>5. B + i = k
  <2> DEFINE b == B + i
  <2>1. b \in Int /\ k \in Int /\ b - k < Modulus /\ k - b < Modulus
    BY <1>4
  <2>3. At(e, b) = At(e, k)
    BY <1>2
  <2> HIDE DEF b
  <2>2. b = k
    BY <2>1, <2>3, AtInjective
  <2> QED BY <2>2 DEF b
<1> QED BY <1>5 DEF B

LEMMA SelectiveAckSends ==
  ASSUME NEW e \in End, NEW R \in SUBSET (1..(Modulus - 1)), NEW s \in Sends(e, R), s \in Good,
         NEW ack \in Number, NEW sack, Known(e, R, ack, sack)
  PROVE  LET t == SelectiveAck(s, ack, sack) IN t \in Sends(e, R) /\ t \in Good /\ Kept(s, t)
<1> DEFINE places   == 1..Packets(s)
           number(i) == Mod(Oldest(s) + i - 1)
           seen     == {i \in places : i > 1 /\ number(i) \in sack}
           above(i) == {j \in seen : j > i}
           acked    == FoldLeft(LAMBDA x, i : IF i \in seen THEN AckPacket(x, i) ELSE x,
                                s, [i \in places |-> i])
           sent(i)  == s.outbuf[i] # NULL /\ s.outbuf[i].transmissions > 0
           lost     == {i \in places \ seen :
                         /\ NotYetResent(s, i) /\ Cardinality(above(i)) >= DupAcks
                         /\ number(i) = Mod(ack + 1) \/ (i > 1 /\ sent(i))
                         /\ acked.outbuf[i] # NULL}
           again    == {i \in lost : Cardinality({j \in lost : j < i}) < MaxResend}
           done     == FoldLeft(LAMBDA x, i : IF i \in again THEN Resend(x, i) ELSE x,
                                acked, [i \in places |-> i])
           n        == Len(s.outbuf)
           B        == Base(e, s)
           w        == s.written
<1>1. SelectiveAck(s, ack, sack) \in {s, done}
  BY DEF SelectiveAck
<1>2. again \subseteq 1..n
      /\ \A i \in again : acked.outbuf[i] # NULL /\ (number(i) = Mod(ack + 1) \/ sent(i))
  <2> HIDE DEF acked, number, above, seen, sent
  <2>1. \A i \in lost : i \in 1..n /\ acked.outbuf[i] # NULL /\ (number(i) = Mod(ack + 1) \/ sent(i))
    BY DEF Packets
  <2> HIDE DEF lost
  <2>2. again \subseteq lost
    OBVIOUS
  <2> HIDE DEF again
  <2> QED BY <2>1, <2>2
<1>3. seen \subseteq 1..n /\ 1 \notin seen /\ \A i \in seen : number(i) \in sack
  BY DEF Packets
<1> HIDE DEF again, seen
<1>4. ASSUME NEW i \in seen PROVE B + i \in R
  <2>1. PICK k \in R : number(i) = At(e, k)
    BY <1>3 DEF Known
  <2>2. k \in 0..Modulus
    BY SeqAssumption
  <2>3. i \in 1..Len(s.outbuf)
    BY <1>3
  <2>4. B + i = k
    BY <2>1, <2>2, <2>3, PlaceOf
  <2> QED BY <2>4
<1>5. acked \in From(e, R, s, n) /\ \A i \in 1..n : acked.outbuf[i] \in {s.outbuf[i], NULL}
  <2>1. acked = AcksAll(s, seen, Len(s.outbuf))
    BY DEF Packets, AcksAll
  <2>2. seen \in SUBSET (1..Len(s.outbuf))
    BY <1>3
  <2> HIDE DEF acked
  <2> QED BY <1>3, <1>4, <2>1, <2>2, AckAllSends
<1> HIDE DEF acked
<1>6. /\ acked \in Good /\ Len(acked.outbuf) = n /\ acked \in Sends(e, R) /\ Kept(s, acked)
  BY <1>5, FromIs
<1>7. Base(e, acked) = B /\ acked.written = w
  BY <1>6, KeptSame DEF Base
<1>8. ASSUME NEW i \in again, B + i = w + 1 PROVE 1..w \subseteq R
  <2>1. i \in 1..n /\ i \in 1..Len(s.outbuf) /\ i \in DOMAIN s.outbuf /\ B \in Nat /\ w \in Nat
    BY <1>2, SendsSocket
  <2>2. CASE number(i) = Mod(ack + 1)
    <3>1. PICK j \in (-1)..(Modulus - 1) : ack = At(e, j) /\ 1..j \subseteq R
      BY DEF Known
    <3>2. number(i) = At(e, j + 1)
      BY <2>2, <3>1, AtShift
    <3>3. j + 1 \in 0..Modulus
      BY SeqAssumption
    <3>4. B + i = j + 1
      BY <2>1, <3>2, <3>3, PlaceOf
    <3> HIDE DEF B, w, n
    <3>5. j = w
      BY <1>8, <2>1, <3>4
    <3> QED BY <3>1, <3>5
  <2>3. CASE sent(i)
    <3>1. Placed(R, w, B + i, s.outbuf[i])
      BY <2>1, SendsSocket DEF SendWindow
    <3>2. s.outbuf[i] # NULL /\ ~(B + i <= w)
      BY <1>8, <2>1, <2>3
    <3>3. s.outbuf[i].type = "FIN" /\ s.outbuf[i].transmissions > 0
      BY <2>3, <3>1, <3>2 DEF Placed, Carries
    <3> QED BY <3>1, <3>2, <3>3 DEF Placed
  <2> QED BY <1>2, <2>2, <2>3
<1>9. again \in SUBSET (1..Len(acked.outbuf)) /\ \A i \in again : acked.outbuf[i] # NULL
  BY <1>2, <1>6
<1>10. done = ResendsAll(acked, again, Len(acked.outbuf))
  BY <1>6 DEF Packets, ResendsAll
<1> HIDE DEF done
<1>11. \A i \in again : Base(e, acked) + i = acked.written + 1 => 1..acked.written \subseteq R
  BY <1>7, <1>8
<1>12. done \in Sends(e, R) /\ done \in Good /\ Kept(acked, done)
  <2> HIDE DEF B, w, n
  <2> QED BY <1>6, <1>9, <1>10, <1>11, ResendAllSends
<1>13. Kept(s, done) /\ Kept(s, s)
  BY <1>6, <1>12, KeptTrans DEF Kept
<1> QED BY <1>1, <1>12, <1>13

(* The packets an acknowledgement takes off are packets the peer has.      *)
LEMMA AcksReceived ==
  ASSUME NEW e \in End, NEW R, NEW s \in Sends(e, R), NEW m, Known(e, R, m.ack, m.sack)
  PROVE  1..(Base(e, s) + Acks(s, m)) \subseteq R
<1> DEFINE T == Total(e, s)
           P == Len(s.outbuf)
           B == Base(e, s)
           n == Mod(m.ack - (s.seq_nr - 1 - Packets(s)))
           w == s.written
           l == s.left
<1>1. /\ P \in Nat /\ T \in Nat /\ B \in Nat /\ B + P = T /\ T < Modulus - 1
      /\ s.seq_nr = At(e, T + 1) /\ SendWindow(e, R, s)
  BY SendsSocket
<1>2. PICK j \in (-1)..(Modulus - 1) : m.ack = At(e, j) /\ 1..j \subseteq R
  BY DEF Known
<1>3. 1..B \subseteq R
  BY <1>1 DEF SendWindow
<1>4. Modulus \in Nat
  BY SeqAssumption
<1>5. n = Mod(j - B)
  <2> DEFINE x == m.ack
             y == s.seq_nr
  <2>1. x = At(e, j) /\ y = At(e, T + 1) /\ x \in Int /\ y \in Int /\ Packets(s) = P
    BY <1>1, <1>2, AtNumber DEF Packets
  <2> HIDE DEF x, y, T, P, B
  <2>2. x - (y - 1 - P) = x - y + (P + 1)
    BY <1>1, <2>1
  <2>3. Mod(x - y + (P + 1)) = Mod(j - (T + 1) + (P + 1))
    BY <1>1, <2>1, Distance
  <2>4. j - (T + 1) + (P + 1) = j - B
    BY <1>1
  <2> QED BY <2>1, <2>2, <2>3, <2>4 DEF x, y
<1>6. Acks(s, m) = IF n > P THEN 0 ELSE n
  BY DEF Acks, Packets
<1> HIDE DEF n, P, B, T
<1>7. CASE j >= B
  <2>1. j - B \in 0..(Modulus - 1)
    BY <1>1, <1>4, <1>7
  <2>2. n = j - B
    BY <1>5, <2>1, Small
  <2>3. B + Acks(s, m) \in {B, j}
    BY <1>1, <1>6, <2>2
  <2> QED BY <1>2, <1>3, <2>3 DEF B
<1>8. CASE j < B
  <2>1. j - B \in (-Modulus)..(-1)
    BY <1>1, <1>4, <1>8
  <2>2. n = j - B + Modulus
    BY <1>5, <2>1, Small
  <2>3. n > P
    BY <1>1, <1>4, <2>2
  <2>4. B + Acks(s, m) = B
    BY <1>1, <1>6, <2>3
  <2> QED BY <1>3, <2>4 DEF B
<1> QED BY <1>1, <1>7, <1>8

-----------------------------------------------------------------------------
(* Writing                                                                 *)

SameReading(s, t) ==
  /\ t.ack_nr = s.ack_nr /\ t.inbuf = s.inbuf /\ t.reorder_count = s.reorder_count
  /\ t.got_fin = s.got_fin /\ t.eof_pkt = s.eof_pkt
  /\ t.read = s.read /\ t.eof = s.eof /\ t.failed = s.failed

(* t wrote more than s, if s could, and may have closed.                   *)
Grown(s, t) ==
  /\ SameReading(s, t)
  /\ s.written <= t.written /\ t.written + t.left = s.written + s.left
  /\ s.state \in Connected => t.state \in Connected \cup {"FIN_SENT"}
  /\ s.state \notin Connected => t.state = s.state /\ t.written = s.written /\ t.seq_nr = s.seq_nr

LEMMA KeptGrown == ASSUME NEW s \in Socket, NEW t, Kept(s, t) PROVE Grown(s, t)
<1>1. s.written \in Nat
  BY DEF Socket
<1> QED BY <1>1 DEF Kept, Grown, SameReading

LEMMA GrownTrans ==
  ASSUME NEW s \in Socket, NEW t \in Socket, NEW u \in Socket, Grown(s, t), Grown(t, u)
  PROVE  Grown(s, u)
<1>1. SameReading(s, u)
  BY DEF Grown, SameReading
<1>2. s.written \in Nat /\ t.written \in Nat /\ u.written \in Nat
  BY DEF Socket
<1>3. s.written <= u.written /\ u.written + u.left = s.written + s.left
  <2>1. s.written <= t.written /\ t.written <= u.written
        /\ u.written + u.left = t.written + t.left /\ t.written + t.left = s.written + s.left
    BY DEF Grown
  <2>2. s.written <= u.written
    <3> DEFINE x == s.written
               y == t.written
               z == u.written
    <3>1. x <= y /\ y <= z /\ x \in Nat /\ y \in Nat /\ z \in Nat
      BY <1>2, <2>1
    <3> HIDE DEF x, y, z
    <3>2. x <= z
      BY <3>1
    <3> QED BY <3>2 DEF x, z
  <2> QED BY <2>1, <2>2
<1>4. /\ s.state \in Connected => u.state \in Connected \cup {"FIN_SENT"}
      /\ s.state \notin Connected => u.state = s.state /\ u.written = s.written /\ u.seq_nr = s.seq_nr
  BY DEF Grown, Connected
<1> QED BY <1>1, <1>3, <1>4 DEF Grown

(* What was sent stays valid.                                              *)
LEMMA GrownValid ==
  ASSUME NEW e \in End, NEW R, NEW s \in Sends(e, R), NEW t \in Socket, Grown(s, t),
         NEW m, Valid(e, R, s, m)
  PROVE  Valid(e, R, t, m)
<1>1. Got(Peer(e), t) = Got(Peer(e), s) /\ Has(Peer(e), t) = Has(Peer(e), s)
  BY DEF Grown, SameReading, Got, Has
<1>2. m.type # "RESET" => Acked(Peer(e), t, m)
  BY <1>1 DEF Valid, Acked
<1>3. s.written \in Nat /\ t.written \in Nat /\ s.written <= t.written
  BY DEF Grown, Socket, Sends
<1>4. m.type = "DATA" => \E k \in 1..t.written : m.seq = At(e, k) /\ m.data = <<k>>
  BY <1>3 DEF Valid
<1>5. ASSUME m.type = "FIN"
      PROVE /\ m.seq = At(e, t.written + 1) /\ m.data = << >>
            /\ Total(e, t) = t.written + 1 /\ 1..t.written \subseteq R
  <2>1. /\ m.seq = At(e, s.written + 1) /\ m.data = << >>
        /\ Total(e, s) = s.written + 1 /\ 1..s.written \subseteq R
    BY <1>5 DEF Valid
  <2>2. s.state \notin Connected
    <3>1. s.state \in Connected => Total(e, s) = s.written
      BY SendsSocket DEF SendWindow
    <3> QED BY <1>3, <2>1, <3>1
  <2>3. t.written = s.written /\ t.seq_nr = s.seq_nr
    BY <2>2 DEF Grown
  <2>4. Total(e, t) = Total(e, s)
    BY <2>3 DEF Total
  <2> QED BY <2>1, <2>3, <2>4
<1> QED BY <1>2, <1>4, <1>5 DEF Valid

(* The packet p is the next of the stream of s, which then is u.           *)
Appended(s, u, p) ==
  /\ Len(u.outbuf) = Len(s.outbuf) + 1 /\ u.outbuf[Len(s.outbuf) + 1] = p
  /\ \A j \in 1..Len(s.outbuf) : u.outbuf[j] = s.outbuf[j]
  /\ u.seq_nr = Mod(s.seq_nr + 1) /\ u.sent = s.sent /\ SameReading(s, u)
  /\ p # NULL /\ p.transmissions = 0
  /\ \/ /\ u.state \in Connected /\ u.written = s.written + 1 /\ u.left = s.left - 1
        /\ p.type = "DATA" /\ p.data = <<s.written + 1>> /\ Len(s.outbuf) < OutMax - 1
     \/ /\ u.state = "FIN_SENT" /\ u.written = s.written /\ u.left = s.left
        /\ p.type = "FIN" /\ p.data = << >>

LEMMA AppendSends ==
  ASSUME NEW e \in End, NEW R, NEW s \in Sends(e, R), s.state \in Connected,
         NEW u \in Socket, NEW p, Appended(s, u, p)
  PROVE  u \in Sends(e, R) /\ Grown(s, u)
<1> DEFINE n == Len(s.outbuf)
           T == Total(e, s)
           B == Base(e, s)
           w == s.written
           v == u.written
           l == s.left
           h == u.left
<1>1. /\ s \in Socket /\ n \in Nat /\ T \in Nat /\ B \in Nat /\ B + n = T /\ T < Modulus - 1
      /\ w \in Nat /\ l \in Nat /\ v \in Nat /\ h \in Nat
      /\ s.seq_nr = At(e, T + 1) /\ SendWindow(e, R, s) /\ \A m \in s.sent : Valid(e, R, s, m)
  <2>1. u.written \in Nat /\ u.left \in Nat
    BY DEF Socket
  <2> QED BY <2>1, SendsSocket
<1>2. /\ T = w /\ 1..B \subseteq R /\ w + l + ReorderMax + 3 <= Modulus /\ n + w < OutMax + T
      /\ \A i \in 1..n : Placed(R, w, B + i, s.outbuf[i])
  BY <1>1 DEF SendWindow
<1>3. /\ Len(u.outbuf) = n + 1 /\ u.outbuf[n + 1] = p
      /\ \A j \in 1..n : u.outbuf[j] = s.outbuf[j]
      /\ u.seq_nr = Mod(s.seq_nr + 1) /\ u.sent = s.sent /\ SameReading(s, u)
      /\ p # NULL /\ p.transmissions = 0
      /\ \/ /\ u.state \in Connected /\ v = w + 1 /\ h = l - 1
            /\ p.type = "DATA" /\ p.data = <<w + 1>> /\ n < OutMax - 1
         \/ /\ u.state = "FIN_SENT" /\ v = w /\ h = l
            /\ p.type = "FIN" /\ p.data = << >>
  BY DEF Appended
<1>4. Modulus \in Nat /\ ReorderMax \in Nat /\ OutMax \in Nat
  BY SeqAssumption, LimitAssumption
<1> DEFINE X == Total(e, u)
           C == Base(e, u)
<1>5. X = T + 1
  <2> DEFINE k == T + 1
  <2>1. k \in 0..(Modulus - 1) /\ k + 1 = T + 1 + 1 /\ k \in Int
    <3> HIDE DEF T
    <3> QED BY <1>1, <1>4
  <2>2. Mod(At(e, k) + 1) = At(e, k + 1)
    <3> HIDE DEF k
    <3> QED BY <2>1, AtShift
  <2>3. u.seq_nr = At(e, k + 1)
    BY <1>1, <1>3, <2>2
  <2> HIDE DEF k
  <2>4. Total(e, u) = k
    BY <2>1, <2>3, TotalOf
  <2> QED BY <2>4 DEF k
<1> HIDE DEF n, T, B, w, v, l, h
<1>6. C = B
  <2>1. C = X - Len(u.outbuf)
    BY DEF Base
  <2> HIDE DEF C, X
  <2> QED BY <1>1, <1>3, <1>5, <2>1
<1> HIDE DEF C, X
<1>7. v \in {w, w + 1} /\ h + v = l + w
  BY <1>1, <1>3
<1>8. Grown(s, u)
  <2>1. w <= v /\ v + h = w + l
    BY <1>1, <1>7
  <2> QED BY <1>3, <2>1 DEF Grown, w, v, l, h
<1>9. ASSUME NEW i \in 1..(n + 1) PROVE Placed(R, v, B + i, u.outbuf[i])
  <2>1. CASE i = n + 1
    <3>1. B + i = w + 1
      BY <1>1, <1>2, <2>1
    <3>2. CASE v = w + 1 /\ p.type = "DATA" /\ p.data = <<w + 1>>
      <4>1. B + i <= v
        BY <1>1, <3>1, <3>2
      <4> QED BY <1>3, <2>1, <3>1, <3>2, <4>1 DEF Placed, Carries
    <3>3. CASE v = w /\ p.type = "FIN" /\ p.data = << >>
      <4>1. ~(B + i <= v)
        BY <1>1, <3>1, <3>3
      <4> QED BY <1>3, <2>1, <3>1, <3>3, <4>1 DEF Placed, Carries
    <3> QED BY <1>3, <3>2, <3>3
  <2>2. CASE i # n + 1
    <3>1. i \in 1..n /\ B + i <= w /\ B + i <= v
      BY <1>1, <1>2, <1>7, <2>2
    <3>2. Placed(R, w, B + i, s.outbuf[i]) /\ u.outbuf[i] = s.outbuf[i]
      BY <1>2, <1>3, <3>1
    <3> QED BY <3>1, <3>2 DEF Placed, Carries
  <2> QED BY <2>1, <2>2
<1>10. SendWindow(e, R, u)
  <2>1. /\ X \in {v, v + 1} /\ (u.state \in Connected => X = v) /\ (u.state = "FIN_SENT" => X = v + 1)
    BY <1>1, <1>2, <1>3, <1>5 DEF Connected
  <2>2. v + h + ReorderMax + 3 <= Modulus
    <3>1. v + h = w + l
      BY <1>1, <1>7
    <3> QED BY <1>1, <1>2, <1>4, <3>1
  <2>3. n + 1 <= X /\ n + 1 + v < OutMax + X
    <3>1. n + 1 <= X
      BY <1>1, <1>5
    <3>2. n + 1 + v < OutMax + X
      BY <1>1, <1>2, <1>3, <1>4, <1>5
    <3> QED BY <3>1, <3>2
  <2> QED BY <1>2, <1>3, <1>6, <1>9, <2>1, <2>2, <2>3 DEF SendWindow, X, C, v, h
<1>11. \A m \in u.sent : Valid(e, R, u, m)
  BY <1>1, <1>3, <1>8, GrownValid
<1> QED BY <1>8, <1>10, <1>11 DEF Sends

(* The state of a connected socket does not matter to its sending half.    *)
LEMMA ConnectedSends ==
  ASSUME NEW e \in End, NEW R, NEW s \in Sends(e, R), s \in Good, s.state \in Connected,
         NEW state \in Connected
  PROVE  LET t == [s EXCEPT !.state = state]
         IN  t \in Sends(e, R) /\ t \in Good /\ Grown(s, t) /\ t.state = state
<1> DEFINE t == [s EXCEPT !.state = state]
<1>1. s \in Socket /\ s.written \in Nat /\ SendWindow(e, R, s) /\ \A m \in s.sent : Valid(e, R, s, m)
  BY SendsSocket
<1>2. /\ t \in Socket /\ SameBuffers(s, t) /\ SameReading(s, t) /\ t.sent = s.sent
      /\ t.outbuf = s.outbuf /\ t.seq_nr = s.seq_nr /\ t.written = s.written /\ t.left = s.left
      /\ t.state = state
  BY <1>1 DEF Socket, State, Connected, SameBuffers, SameReceiver, SameReading
<1> HIDE DEF t
<1>3. t \in Good
  BY <1>2, SameBuffersGood
<1>4. Grown(s, t)
  BY <1>1, <1>2 DEF Grown
<1>5. Total(e, t) = Total(e, s) /\ Base(e, t) = Base(e, s)
  BY <1>2 DEF Total, Base
<1>6. SendWindow(e, R, t)
  BY <1>1, <1>2, <1>5 DEF SendWindow, Connected
<1>7. \A m \in t.sent : Valid(e, R, t, m)
  BY <1>1, <1>2, <1>4, GrownValid
<1> QED BY <1>2, <1>3, <1>4, <1>6, <1>7 DEF Sends, t

Writing(e, R, s) == {x \in Sends(e, R) : x \in Good /\ Grown(s, x) /\ x.state \in Connected}

LEMMA WritingIs ==
  ASSUME NEW e, NEW R, NEW s, NEW x \in Writing(e, R, s)
  PROVE  x \in Sends(e, R) /\ x \in Good /\ x \in Socket /\ Grown(s, x) /\ x.state \in Connected
BY GoodSocket DEF Writing

LEMMA WritevSends ==
  ASSUME NEW e \in End, NEW R, NEW s \in Sends(e, R), s \in Good, s.state \in Connected
  PROVE  Writev(s) \in Writing(e, R, s)
<1>1. s \in Socket /\ s.left \in Nat /\ s.written \in Nat
  BY GoodSocket DEF Socket
<1>2. CASE s.state # "CONNECTED" \/ s.left = 0
  <2>1. Writev(s) = s /\ Grown(s, s)
    BY <1>1, <1>2, KeptGrown DEF Writev, Kept
  <2> QED BY <2>1 DEF Writing
<1>3. CASE ~(s.state # "CONNECTED" \/ s.left = 0) /\ IsFull(s)
  <2>1. Writev(s) = [s EXCEPT !.state = "CONNECTED_FULL"]
    BY <1>3 DEF Writev
  <2>2. "CONNECTED_FULL" \in Connected
    BY DEF Connected
  <2>3. LET t == [s EXCEPT !.state = "CONNECTED_FULL"]
        IN  t \in Sends(e, R) /\ t \in Good /\ Grown(s, t) /\ t.state = "CONNECTED_FULL"
    BY <2>2, ConnectedSends
  <2> QED BY <2>1, <2>2, <2>3 DEF Writing
<1>4. CASE ~(s.state # "CONNECTED" \/ s.left = 0) /\ ~IsFull(s)
  <2> DEFINE t == [s EXCEPT !.left = @ - 1, !.written = @ + 1]
             data == <<s.written + 1>>
             p == NewPacket("DATA", data)
             u == WithPacket(t, "DATA", data)
             x == FlushPackets(u)
  <2>1. s.left - 1 \in Nat /\ s.written + 1 \in Nat
    BY <1>1, <1>4
  <2>2. /\ t \in Socket /\ SameBuffers(s, t) /\ SameReading(s, t)
        /\ t.left = s.left - 1 /\ t.written = s.written + 1 /\ t.seq_nr = s.seq_nr
        /\ t.state = s.state /\ t.sent = s.sent
    BY <1>1, <2>1 DEF Socket, SameBuffers, SameReceiver, SameReading
  <2>3. data \in Seq(Nat) /\ Len(data) <= 1
    BY <2>1
  <2>4. Writev(s) = x
    BY <1>4 DEF Writev, WriteOutgoingPacket, WithPacket, NewPacket
  <2>5. p # NULL /\ p.type = "DATA" /\ p.data = data /\ p.transmissions = 0
    <3>1. p \in Packet
      BY <2>3 DEF NewPacket, Packet
    <3>2. p # NULL
      BY <3>1, NullAssumption
    <3> QED BY <3>2 DEF NewPacket
  <2> HIDE DEF data, t
  <2>6. t \in Good /\ "DATA" \in {"DATA", "FIN"} /\ t.outbuf = s.outbuf
    BY <2>2, SameBuffersGood DEF SameBuffers
  <2>7. Len(s.outbuf) < OutMax - 1 /\ Spare(t)
    <3>1. Len(s.outbuf) \in Nat /\ OutMax \in Nat
      BY <1>1, Outbuf, LimitAssumption
    <3>2. ~(Len(s.outbuf) >= OutMax - 1)
      BY <1>4 DEF IsFull, Packets
    <3>3. Len(s.outbuf) < OutMax - 1
      BY <3>1, <3>2
    <3> QED BY <2>2, <3>1, <3>3 DEF Spare, SameBuffers
  <2>8. /\ u \in Good /\ Len(u.outbuf) = Len(t.outbuf) + 1
        /\ u.outbuf[Len(t.outbuf) + 1] = NewPacket("DATA", data)
        /\ \A j \in 1..Len(t.outbuf) : u.outbuf[j] = t.outbuf[j]
        /\ u.seq_nr = Mod(t.seq_nr + 1) /\ u.sent = t.sent
        /\ u.state = t.state /\ u.written = t.written /\ u.left = t.left
        /\ u.ack_nr = t.ack_nr /\ u.inbuf = t.inbuf /\ u.reorder_count = t.reorder_count
        /\ u.got_fin = t.got_fin /\ u.eof_pkt = t.eof_pkt
        /\ u.read = t.read /\ u.eof = t.eof /\ u.failed = t.failed
    BY <2>3, <2>6, <2>7, PacketAppended
  <2> HIDE DEF u, p
  <2>9. Appended(s, u, p)
    <3>1. SameReading(s, u)
      BY <2>2, <2>8 DEF SameReading
    <3>2. u.state \in Connected /\ u.written = s.written + 1 /\ u.left = s.left - 1
          /\ u.seq_nr = Mod(s.seq_nr + 1) /\ u.sent = s.sent
      BY <2>2, <2>8
    <3>3. /\ Len(u.outbuf) = Len(s.outbuf) + 1 /\ u.outbuf[Len(s.outbuf) + 1] = p
          /\ \A j \in 1..Len(s.outbuf) : u.outbuf[j] = s.outbuf[j]
      BY <2>6, <2>8 DEF p
    <3> QED BY <2>5, <2>7, <3>1, <3>2, <3>3 DEF Appended, data
  <2>10. u \in Socket
    BY <2>8, GoodSocket
  <2>11. u \in Sends(e, R) /\ Grown(s, u)
    BY <2>9, <2>10, AppendSends
  <2>12. x \in Sends(e, R) /\ x \in Good /\ Kept(u, x)
    BY <2>8, <2>11, FlushPacketsSends
  <2> HIDE DEF x
  <2>13. x \in Socket /\ Grown(u, x) /\ x.state = s.state
    BY <2>2, <2>8, <2>10, <2>12, GoodSocket, KeptGrown DEF Kept
  <2>14. Grown(s, x)
    BY <1>1, <2>10, <2>11, <2>13, GrownTrans
  <2> QED BY <2>4, <2>12, <2>13, <2>14 DEF Writing
<1> QED BY <1>2, <1>3, <1>4

(* Closing sends a FIN, or holds it back.                                  *)
LEMMA CloseSends ==
  ASSUME NEW e \in End, NEW R, NEW s \in Sends(e, R), s \in Good, s.state \in Connected
  PROVE  Close(s) \in Sends(e, R) /\ Close(s) \in Good /\ Grown(s, Close(s))
<1> DEFINE t == [s EXCEPT !.state = "FIN_SENT"]
           data == << >>
           p == NewPacket("FIN", data)
           u == WithPacket(t, "FIN", data)
           x == FlushPackets(u)
<1>1. s \in Socket
  BY GoodSocket
<1>2. /\ t \in Socket /\ SameBuffers(s, t) /\ SameReading(s, t)
      /\ t.left = s.left /\ t.written = s.written /\ t.seq_nr = s.seq_nr
      /\ t.state = "FIN_SENT" /\ t.sent = s.sent
  BY <1>1 DEF Socket, State, Connected, SameBuffers, SameReceiver, SameReading
<1>3. data \in Seq(Nat) /\ Len(data) <= 1
  OBVIOUS
<1>4. Close(s) = x
  BY DEF Close, WriteOutgoingPacket, WithPacket, NewPacket
<1>5. p # NULL /\ p.type = "FIN" /\ p.data = data /\ p.transmissions = 0
  <2>1. p \in Packet
    BY <1>3 DEF NewPacket, Packet
  <2>2. p # NULL
    BY <2>1, NullAssumption
  <2> QED BY <2>2 DEF NewPacket
<1> HIDE DEF data, t
<1>6. t \in Good /\ "FIN" \in {"DATA", "FIN"} /\ t.outbuf = s.outbuf
  BY <1>2, SameBuffersGood DEF SameBuffers
<1>6a. Spare(t)
  <2>1. Len(s.outbuf) < OutMax /\ Len(s.outbuf) \in Nat /\ OutMax \in Nat
    BY <1>1, Outbuf, LimitAssumption DEF Good, Counting, Room
  <2> QED BY <1>2, <1>6, <2>1 DEF Spare, Connected
<1>7. /\ u \in Good /\ Len(u.outbuf) = Len(t.outbuf) + 1
      /\ u.outbuf[Len(t.outbuf) + 1] = NewPacket("FIN", data)
      /\ \A j \in 1..Len(t.outbuf) : u.outbuf[j] = t.outbuf[j]
      /\ u.seq_nr = Mod(t.seq_nr + 1) /\ u.sent = t.sent
      /\ u.state = t.state /\ u.written = t.written /\ u.left = t.left
      /\ u.ack_nr = t.ack_nr /\ u.inbuf = t.inbuf /\ u.reorder_count = t.reorder_count
      /\ u.got_fin = t.got_fin /\ u.eof_pkt = t.eof_pkt
      /\ u.read = t.read /\ u.eof = t.eof /\ u.failed = t.failed
  BY <1>3, <1>6, <1>6a, PacketAppended
<1> HIDE DEF u, p
<1>8. Appended(s, u, p)
  <2>1. SameReading(s, u)
    BY <1>2, <1>7 DEF SameReading
  <2>2. u.state = "FIN_SENT" /\ u.written = s.written /\ u.left = s.left
        /\ u.seq_nr = Mod(s.seq_nr + 1) /\ u.sent = s.sent
    BY <1>2, <1>7
  <2>3. /\ Len(u.outbuf) = Len(s.outbuf) + 1 /\ u.outbuf[Len(s.outbuf) + 1] = p
        /\ \A j \in 1..Len(s.outbuf) : u.outbuf[j] = s.outbuf[j]
    BY <1>6, <1>7 DEF p
  <2> QED BY <1>5, <2>1, <2>2, <2>3 DEF Appended, data
<1>9. u \in Socket
  BY <1>7, GoodSocket
<1>10. u \in Sends(e, R) /\ Grown(s, u)
  BY <1>8, <1>9, AppendSends
<1>11. x \in Sends(e, R) /\ x \in Good /\ Kept(u, x)
  BY <1>7, <1>10, FlushPacketsSends
<1> HIDE DEF x
<1>12. x \in Socket /\ Grown(u, x)
  BY <1>9, <1>11, GoodSocket, KeptGrown
<1>13. Grown(s, x)
  BY <1>1, <1>9, <1>10, <1>12, GrownTrans
<1> QED BY <1>4, <1>11, <1>13

LEMMA WriteSends ==
  ASSUME NEW e \in End, NEW R, NEW s \in Sends(e, R), s \in Good, s.state \in Connected
  PROVE  Write(s) \in Sends(e, R) /\ Write(s) \in Good /\ Grown(s, Write(s))
<1> DEFINE done == WritesAll(s, s.left)
           S == Writing(e, R, s)
<1>1. s \in Socket /\ s.left \in Nat
  BY GoodSocket DEF Socket
<1>2. Write(s) \in {done, Close(done)}
  BY DEF Write, WritesAll
<1>3. s \in S
  BY <1>1, KeptGrown DEF Writing, Kept
<1>4. ASSUME NEW x \in S, NEW i \in 1..s.left PROVE Writev(x) \in S
  <2>1. x \in Sends(e, R) /\ x \in Good /\ x \in Socket /\ Grown(s, x) /\ x.state \in Connected
    BY WritingIs
  <2>2. Writev(x) \in Writing(e, R, x)
    BY <2>1, WritevSends
  <2>3. /\ Writev(x) \in Sends(e, R) /\ Writev(x) \in Good /\ Writev(x) \in Socket
        /\ Grown(x, Writev(x)) /\ Writev(x).state \in Connected
    BY <2>2, WritingIs
  <2>4. Grown(s, Writev(x))
    BY <1>1, <2>1, <2>3, GrownTrans
  <2> QED BY <2>3, <2>4 DEF Writing
<1> HIDE DEF S
<1>9. \A x \in S : \A i \in 1..s.left : Writev(x) \in S
  BY <1>4
<1>5. done \in S
  BY <1>1, <1>3, <1>9, WriteTurns
<1> HIDE DEF done
<1>6. done \in Sends(e, R) /\ done \in Good /\ done \in Socket /\ Grown(s, done) /\ done.state \in Connected
  BY <1>5, WritingIs DEF S
<1>7. Close(done) \in Sends(e, R) /\ Close(done) \in Good /\ Grown(done, Close(done))
  BY <1>6, CloseSends
<1>8. Grown(s, Close(done))
  BY <1>1, <1>6, <1>7, GrownTrans, GoodSocket
<1> QED BY <1>2, <1>6, <1>7, <1>8

LEMMA WritableSends ==
  ASSUME NEW e \in End, NEW R, NEW s \in Sends(e, R), s \in Good
  PROVE  Writable(s) \in Sends(e, R) /\ Writable(s) \in Good /\ Grown(s, Writable(s))
<1>1. s \in Socket
  BY GoodSocket
<1>2. CASE s.state = "CONNECTED_FULL" /\ ~IsFull(s)
  <2> DEFINE t == [s EXCEPT !.state = "CONNECTED"]
  <2>1. s.state \in Connected /\ "CONNECTED" \in Connected
    BY <1>2 DEF Connected
  <2>2. t \in Sends(e, R) /\ t \in Good /\ Grown(s, t) /\ t.state = "CONNECTED"
    BY <2>1, ConnectedSends
  <2>3. Writable(s) = Write(t)
    BY <1>2 DEF Writable
  <2> HIDE DEF t
  <2>4. Write(t) \in Sends(e, R) /\ Write(t) \in Good /\ Grown(t, Write(t))
    BY <2>1, <2>2, WriteSends
  <2>5. t \in Socket /\ Write(t) \in Socket
    BY <2>2, <2>4, GoodSocket
  <2> QED BY <1>1, <2>2, <2>3, <2>4, <2>5, GrownTrans
<1>3. CASE ~(s.state = "CONNECTED_FULL" /\ ~IsFull(s))
  <2>1. Writable(s) = s
    BY <1>3 DEF Writable
  <2> QED BY <1>1, <2>1, KeptGrown DEF Kept
<1> QED BY <1>2, <1>3

-----------------------------------------------------------------------------
(* Timers and acknowledgements                                             *)

LEMMA ShrunkSends ==
  ASSUME NEW e \in End, NEW R, NEW s \in Sends(e, R), s \in Good
  PROVE  LET t == Shrunk(s) IN t \in Sends(e, R) /\ t \in Good /\ Kept(s, t)
<1> DEFINE t == Shrunk(s)
<1>1. s \in Socket /\ t \in Socket /\ t \in Good
  BY ShrunkKeeps, GoodSocket
<1>2. Kept(s, t) /\ t.outbuf = s.outbuf /\ t.sent = s.sent
  <2> DEFINE w == IF Packets(s) = 0 /\ s.max_window > 1 THEN Max({(s.max_window * 2) \div 3, 1}) ELSE 1
             u == [s EXCEPT !.max_window = w]
  <2>1. t = u
    BY DEF Shrunk
  <2> HIDE DEF w, t
  <2> QED BY <1>1, <2>1 DEF Socket, Kept
<1> HIDE DEF t
<1>3. t \in Sends(e, R)
  BY <1>1, <1>2, SendsSame
<1> QED BY <1>1, <1>2, <1>3 DEF t

LEMMA LostSends ==
  ASSUME NEW e \in End, NEW R, NEW s \in Sends(e, R), s \in Good
  PROVE  LET t == Lost(s) IN t \in Sends(e, R) /\ t \in Good /\ Kept(s, t)
<1>1. PICK t \in Good :
        /\ Kept(s, t) /\ t.sent = s.sent /\ SamePackets(s, t)
        /\ Lost(s) \in {s} \cup (IF Packets(s) = 0 THEN {} ELSE {SendPacket(t, 1)})
  BY LostMarks
<1>2. /\ s \in Socket /\ t \in Socket /\ SendWindow(e, R, s) /\ \A m \in s.sent : Valid(e, R, s, m)
      /\ Len(s.outbuf) \in Nat
  BY SendsSocket, GoodSocket
<1>3. ASSUME NEW i \in 1..Len(s.outbuf) PROVE Placed(R, s.written, Base(e, s) + i, t.outbuf[i])
  <2>1. Placed(R, s.written, Base(e, s) + i, s.outbuf[i])
    BY <1>2 DEF SendWindow
  <2>2. /\ t.outbuf[i] = NULL <=> s.outbuf[i] = NULL
        /\ s.outbuf[i] # NULL =>
             /\ t.outbuf[i].type = s.outbuf[i].type /\ t.outbuf[i].data = s.outbuf[i].data
             /\ t.outbuf[i].transmissions = s.outbuf[i].transmissions
    BY <1>1 DEF SamePackets
  <2> QED BY <2>1, <2>2 DEF Placed, Carries
<1>4. t \in Sends(e, R)
  BY <1>1, <1>2, <1>3, PlacesSend DEF SamePackets
<1>5. ASSUME Packets(s) # 0
      PROVE LET u == SendPacket(t, 1) IN u \in Sends(e, R) /\ Kept(s, u)
  <2>1. Len(t.outbuf) > 0
    BY <1>1, <1>2, <1>5 DEF Packets, SamePackets
  <2>2. SendPacket(t, 1) \in Sends(e, R) /\ Kept(t, SendPacket(t, 1))
    BY <1>1, <1>4, <2>1, FirstPacketSends
  <2> QED BY <1>1, <2>2, KeptTrans
<1>6. Kept(s, s) /\ Lost(s) \in Good
  BY LostKeeps DEF Kept
<1> QED BY <1>1, <1>5, <1>6

(* t wrote more than s or closed, or the peer has all of it.               *)
Advanced(e, R, s, t) ==
  /\ SameReading(s, t)
  /\ s.written <= t.written /\ t.written + t.left = s.written + s.left
  /\ s.state \in Connected => t.state \in Connected \cup {"FIN_SENT"}
  /\ s.state \notin Connected =>
       /\ t.written = s.written /\ t.seq_nr = s.seq_nr
       /\ \/ t.state = s.state
          \/ s.state = "FIN_SENT" /\ t.state = "DESTROY" /\ 1..Total(e, s) \subseteq R

LEMMA GrownAdvanced == ASSUME NEW e, NEW R, NEW s, NEW t, Grown(s, t) PROVE Advanced(e, R, s, t)
BY DEF Grown, Advanced

(* The chain of functions that take what m acknowledges off the window     *)
LEMMA AckedSends ==
  ASSUME NEW e \in End, NEW R \in SUBSET (1..(Modulus - 1)), NEW s \in Sends(e, R), s \in Good,
         NEW n \in Nat, n <= Len(s.outbuf), 1..(Base(e, s) + n) \subseteq R,
         NEW ack \in Number, NEW sack, Known(e, R, ack, sack)
  PROVE  LET t == Writable(SelectiveAck(FastTimeout(FlushNagle(SkipAcked(AckLoop(s, n)))), ack, sack))
         IN  t \in Sends(e, R) /\ t \in Good /\ Grown(s, t)
<1>0. s \in Counting /\ s \in Socket
  BY GoodSocket
<1> DEFINE a == AckLoop(s, n)
<1>1. a \in Sends(e, R) /\ a \in Counting /\ Kept(s, a)
  BY <1>0, AckLoopSends
<1> HIDE DEF a
<1> DEFINE b == SkipAcked(a)
<1>2. b \in Sends(e, R) /\ b \in Good /\ Kept(a, b)
  BY <1>1, SkipAckedSends
<1> HIDE DEF b
<1> DEFINE c == FlushNagle(b)
<1>3. c \in Sends(e, R) /\ c \in Good /\ Kept(b, c)
  BY <1>2, FlushNagleSends
<1> HIDE DEF c
<1> DEFINE d == FastTimeout(c)
<1>4. d \in Sends(e, R) /\ d \in Good /\ Kept(c, d)
  BY <1>3, FastTimeoutSends
<1> HIDE DEF d
<1> DEFINE f == SelectiveAck(d, ack, sack)
<1>5. f \in Sends(e, R) /\ f \in Good /\ Kept(d, f)
  BY <1>4, SelectiveAckSends
<1> HIDE DEF f
<1> DEFINE g == Writable(f)
<1>6. g \in Sends(e, R) /\ g \in Good /\ Grown(f, g)
  BY <1>5, WritableSends
<1> HIDE DEF g
<1>7. Kept(s, f)
  BY <1>1, <1>2, <1>3, <1>4, <1>5, KeptTrans
<1>8. f \in Socket /\ g \in Socket
  BY <1>5, <1>6, GoodSocket
<1>9. Grown(s, f)
  BY <1>0, <1>7, KeptGrown
<1>10. Grown(s, g)
  BY <1>0, <1>6, <1>8, <1>9, GrownTrans
<1> QED BY <1>6, <1>10 DEF a, b, c, d, f, g

LEMMA AcknowledgeSends ==
  ASSUME NEW e \in End, NEW R \in SUBSET (1..(Modulus - 1)), NEW s \in Sends(e, R), s \in Good,
         NEW m \in Message, Known(e, R, m.ack, m.sack), NEW w \in 0..Window
  PROVE  LET t == Acknowledge(s, m, w)
         IN  t \in Sends(e, R) /\ t \in Good /\ Advanced(e, R, s, t)
<1> DEFINE n == Acks(s, m)
           after == Mod(m.ack + 1)
           state == IF s.state = "FIN_SENT" /\ Packets(s) = n THEN "DESTROY" ELSE s.state
           fast == IF WrappingLess(s.fast_resend_seq_nr, after) THEN after ELSE s.fast_resend_seq_nr
           s1 == [s EXCEPT !.max_window = w, !.state = state, !.fast_resend_seq_nr = fast]
           t == Acknowledge(s, m, w)
<1>1. s \in Socket /\ SendWindow(e, R, s) /\ (\A l \in s.sent : Valid(e, R, s, l))
      /\ s.written \in Nat /\ Base(e, s) + Len(s.outbuf) = Total(e, s)
  BY SendsSocket
<1>2. after \in Number
  <2>1. m.ack + 1 \in Int
    BY DEF Message, Number
  <2> QED BY <2>1, ModNumber
<1>3. fast \in Number
  BY <1>1, <1>2 DEF Socket
<1>4. state \in State /\ (state \in Connected => state = s.state)
      /\ (state # s.state => s.state = "FIN_SENT" /\ state = "DESTROY" /\ Packets(s) = n)
  BY <1>1 DEF Socket, State, Connected
<1>5. t = Writable(SelectiveAck(FastTimeout(FlushNagle(SkipAcked(AckLoop(s1, n)))), m.ack, m.sack))
  BY DEF Acknowledge
<1>6. n \in Nat /\ n <= Len(s.outbuf) /\ 1..(Base(e, s) + n) \subseteq R
  BY <1>1, AcksBound, AcksReceived
<1> HIDE DEF n, after, state, fast, t
<1>7. /\ s1 \in Socket /\ SameBuffers(s, s1) /\ s1.outbuf = s.outbuf /\ s1.sent = s.sent
      /\ SameReading(s, s1) /\ s1.state = state /\ s1.seq_nr = s.seq_nr
      /\ s1.written = s.written /\ s1.left = s.left
  BY <1>1, <1>3, <1>4 DEF Socket, SameBuffers, SameReceiver, SameReading
<1> HIDE DEF s1
<1>8. s1 \in Good
  BY <1>7, SameBuffersGood
<1>9. Total(e, s1) = Total(e, s) /\ Base(e, s1) = Base(e, s)
  BY <1>7 DEF Total, Base
<1>10. s1 \in Sends(e, R)
  <2>1. SendWindow(e, R, s1)
    <3>1. /\ state \in Connected => s.state \in Connected
          /\ state = "FIN_SENT" => s.state = "FIN_SENT"
      BY <1>4
    <3>2. /\ Total(e, s) \in {s.written, s.written + 1}
          /\ s.state \in Connected => Total(e, s) = s.written
          /\ s.state = "FIN_SENT" => Total(e, s) = s.written + 1
          /\ s.written + s.left + ReorderMax + 3 <= Modulus
          /\ Len(s.outbuf) <= Total(e, s) /\ Len(s.outbuf) + s.written < OutMax + Total(e, s)
          /\ 1..Base(e, s) \subseteq R
          /\ \A i \in 1..Len(s.outbuf) : Placed(R, s.written, Base(e, s) + i, s.outbuf[i])
      BY <1>1 DEF SendWindow
    <3> QED BY <1>7, <1>9, <3>1, <3>2 DEF SendWindow
  <2>2. ASSUME NEW l \in s1.sent PROVE Valid(e, R, s1, l)
    <3>1. Valid(e, R, s, l)
      BY <1>1, <1>7
    <3>2. Got(Peer(e), s1) = Got(Peer(e), s) /\ Has(Peer(e), s1) = Has(Peer(e), s)
      BY <1>7 DEF SameReading, Got, Has
    <3> QED BY <1>7, <1>9, <3>1, <3>2 DEF Valid, Acked
  <2> QED BY <1>7, <2>1, <2>2 DEF Sends
<1>11. m.ack \in Number
  BY DEF Message
<1>12. n <= Len(s1.outbuf) /\ 1..(Base(e, s1) + n) \subseteq R
  BY <1>6, <1>7, <1>9
<1>13. t \in Sends(e, R) /\ t \in Good /\ Grown(s1, t)
  BY <1>5, <1>6, <1>8, <1>10, <1>11, <1>12, AckedSends
<1>14. Advanced(e, R, s, t)
  <2>1. SameReading(s, t)
    BY <1>7, <1>13 DEF Grown, SameReading
  <2>2. s.written <= t.written /\ t.written + t.left = s.written + s.left
    BY <1>7, <1>13 DEF Grown
  <2>3. CASE state = s.state
    BY <1>7, <1>13, <2>1, <2>2, <2>3 DEF Grown, Advanced
  <2>4. CASE state # s.state
    <3>1. s.state = "FIN_SENT" /\ s1.state = "DESTROY" /\ Len(s.outbuf) = n
          /\ s.state \notin Connected /\ s1.state \notin Connected
      BY <1>4, <1>7, <2>4 DEF Packets, Connected
    <3>2. t.state = "DESTROY" /\ t.written = s.written /\ t.seq_nr = s.seq_nr
      BY <1>7, <1>13, <3>1 DEF Grown
    <3>3. 1..Total(e, s) \subseteq R
      <4>1. Base(e, s) + Len(s.outbuf) = Total(e, s) /\ Len(s.outbuf) = n
        BY <1>1, <3>1
      <4>2. Base(e, s) + n = Total(e, s)
        BY ONLY <4>1
      <4> QED BY <1>6, <4>2
    <3> QED BY <2>1, <2>2, <3>1, <3>2, <3>3 DEF Advanced
  <2> QED BY <2>3, <2>4
<1> QED BY <1>13, <1>14 DEF t

-----------------------------------------------------------------------------
(* Reading: the socket s of e takes in the stream of its peer f, which has *)
(* T packets so far, w of them data.                                       *)

Numbered(T, w) == w \in Nat /\ T \in {w, w + 1} /\ T + 1 < Modulus

Filing(f, T, w, s) ==
  \A p \in s.inbuf : \E k \in 1..(IF s.state \in Connected THEN w ELSE T) :
    p.seq = At(f, k) /\ (k <= w => p.data = <<k>>)

(* Whoever is connected read all that came in order; the FIN, if it came,  *)
(* came last.                                                              *)
UpToDate(f, T, w, s) ==
  s.state \in Connected =>
    IF s.got_fin THEN Got(f, s) = T /\ Len(s.read) = w ELSE Len(s.read) = Got(f, s)

Reading(f, T, w, s) ==
  /\ Got(f, s) <= T /\ Filing(f, T, w, s) /\ UpToDate(f, T, w, s)
  /\ s.got_fin => T = w + 1 /\ s.eof_pkt = At(f, T)
  /\ Len(s.read) <= w /\ s.read = Numbers(Len(s.read))
  /\ s.eof => T = w + 1 /\ Len(s.read) = w
  /\ s.state = "DESTROY_DELAY" => s.eof /\ s.got_fin /\ Got(f, s) = T
  /\ s.failed => s.state \in {"RESET", "DESTROY", "GONE"}
  /\ s.state \in Connected => ~s.eof

(* The FIN ends the connection at once.                                    *)
Idle(s) == s.state \in Connected => ~s.got_fin

SameWriting(s, t) ==
  t.outbuf = s.outbuf /\ t.seq_nr = s.seq_nr /\ t.written = s.written /\ t.left = s.left

(* t took in more of the stream than s.                                    *)
Later(f, s, t) ==
  /\ SameWriting(s, t)
  /\ Got(f, s) <= Got(f, t) /\ Has(f, s) \subseteq Has(f, t)
  /\ t.failed = s.failed /\ Len(s.read) <= Len(t.read)
  /\ \/ t.state = s.state /\ t.eof = s.eof
     \/ s.state \in Connected /\ t.state = "DESTROY_DELAY"
  /\ s.state \notin Connected => t.read = s.read

LEMMA ReadLength == ASSUME NEW s \in Socket PROVE s.read \in Seq(Nat) /\ Len(s.read) \in Nat
<1>1. s.read \in Seq(Nat)
  BY DEF Socket
<1> QED BY <1>1

LEMMA LaterTrans ==
  ASSUME NEW f \in End, NEW s \in Socket, NEW t \in Socket, NEW u \in Socket,
         Later(f, s, t), Later(f, t, u)
  PROVE  Later(f, s, u)
<1>1. SameWriting(s, u) /\ Has(f, s) \subseteq Has(f, u) /\ u.failed = s.failed
  BY DEF Later, SameWriting
<1>2. /\ \/ u.state = s.state /\ u.eof = s.eof
         \/ s.state \in Connected /\ u.state = "DESTROY_DELAY"
      /\ s.state \notin Connected => u.read = s.read
  BY DEF Later, Connected
<1>3. Len(s.read) <= Len(u.read)
  <2>1. Len(s.read) \in Nat /\ Len(t.read) \in Nat /\ Len(u.read) \in Nat
    BY ReadLength
  <2>2. Len(s.read) <= Len(t.read) /\ Len(t.read) <= Len(u.read)
    BY DEF Later
  <2> QED BY <2>1, <2>2
<1>4. Got(f, s) <= Got(f, u)
  <2>1. s.ack_nr \in Number /\ t.ack_nr \in Number /\ u.ack_nr \in Number
    BY DEF Socket
  <2>2. Got(f, s) \in Nat /\ Got(f, t) \in Nat /\ Got(f, u) \in Nat
    BY <2>1, GotIs
  <2>3. Got(f, s) <= Got(f, t) /\ Got(f, t) <= Got(f, u)
    BY DEF Later
  <2> QED BY <2>2, <2>3
<1> QED BY <1>1, <1>2, <1>3, <1>4 DEF Later

(* The next packet is in order, whether it waited in the reorder buffer or *)
(* not.                                                                    *)
LEMMA HasNext ==
  ASSUME NEW f \in End, NEW s \in Socket, NEW t \in Socket, Got(f, s) + 1 < Modulus,
         t.ack_nr = Mod(s.ack_nr + 1),
         \A p \in s.inbuf : p \in t.inbuf \/ p.seq = At(f, Got(f, s) + 1)
  PROVE  /\ Got(f, t) = Got(f, s) + 1 /\ t.ack_nr = At(f, Got(f, s) + 1)
         /\ Has(f, s) \subseteq Has(f, t)
<1> DEFINE G == Got(f, s)
<1>1. G \in Nat /\ s.ack_nr = At(f, G) /\ G + 1 < Modulus /\ Modulus \in Nat
  <2>1. s.ack_nr \in Number
    BY DEF Socket
  <2> QED BY <2>1, GotIs, SeqAssumption
<1>2. t.ack_nr = At(f, G + 1)
  <2>1. Mod(At(f, G) + 1) = At(f, G + 1)
    BY <1>1, AtShift
  <2> QED BY <1>1, <2>1
<1> HIDE DEF G
<1>3. G + 1 \in 0..(Modulus - 1) /\ G + 1 \in Int
  BY <1>1
<1>4. Got(f, t) = G + 1
  BY <1>2, <1>3, GotOf
<1>5. ASSUME NEW k \in Has(f, s) PROVE k \in Has(f, t)
  <2>1. CASE k \in 1..G
    <3>1. k \in 1..(G + 1)
      BY <1>1, <2>1
    <3> QED BY <1>4, <3>1 DEF Has
  <2>2. CASE k \in 1..(Modulus - 1) /\ \E p \in s.inbuf : p.seq = At(f, k)
    <3>1. PICK p \in s.inbuf : p.seq = At(f, k)
      BY <2>2
    <3>2. CASE p \in t.inbuf
      BY <2>2, <3>1, <3>2 DEF Has
    <3>3. CASE p.seq = At(f, G + 1)
      <4>1. k \in Int /\ k - (G + 1) < Modulus /\ (G + 1) - k < Modulus
        BY <1>1, <2>2
      <4>2. At(f, k) = At(f, G + 1)
        BY <3>1, <3>3
      <4>3. k = G + 1
        BY <1>3, <4>1, <4>2, AtInjective
      <4>4. k \in 1..(G + 1)
        BY <1>1, <4>3
      <4> QED BY <1>4, <4>4 DEF Has
    <3> QED BY <3>1, <3>2, <3>3 DEF G
  <2> QED BY <2>1, <2>2 DEF Has, G
<1> QED BY <1>2, <1>4, <1>5 DEF G

(* What is acknowledged stays true as more comes in.                       *)
LEMMA AckedMore ==
  ASSUME NEW f \in End, NEW s \in Socket, NEW t \in Socket,
         Got(f, s) <= Got(f, t), Has(f, s) \subseteq Has(f, t), NEW m, Acked(f, s, m)
  PROVE  Acked(f, t, m)
<1>1. s.ack_nr \in Number /\ t.ack_nr \in Number
  BY DEF Socket
<1>2. Got(f, s) \in Nat /\ Got(f, t) \in Nat
  BY <1>1, GotIs
<1>3. PICK j \in (-1)..Got(f, s) : m.ack = At(f, j)
  BY DEF Acked
<1>4. j \in (-1)..Got(f, t)
  BY <1>2
<1>5. \A v \in m.sack : \E k \in Has(f, t) : v = At(f, k)
  BY DEF Acked
<1> QED BY <1>3, <1>4, <1>5 DEF Acked

(* Reading leaves the sending half alone.                                  *)
LEMMA ReaderSends ==
  ASSUME NEW e \in End, NEW R, NEW s \in Sends(e, R), NEW t \in Socket, SameWriting(s, t),
         Got(Peer(e), s) <= Got(Peer(e), t), Has(Peer(e), s) \subseteq Has(Peer(e), t),
         t.state = s.state \/ t.state = "DESTROY_DELAY",
         \A m \in t.sent : m \in s.sent \/ Valid(e, R, t, m)
  PROVE  t \in Sends(e, R)
<1>1. s \in Socket /\ SendWindow(e, R, s) /\ \A m \in s.sent : Valid(e, R, s, m)
  BY SendsSocket
<1>2. Total(e, t) = Total(e, s) /\ Base(e, t) = Base(e, s)
  BY DEF SameWriting, Total, Base
<1>3. SendWindow(e, R, t)
  <2>1. /\ t.state \in Connected => s.state \in Connected
        /\ t.state = "FIN_SENT" => s.state = "FIN_SENT"
    BY DEF Connected
  <2> QED BY <1>1, <1>2, <2>1 DEF SendWindow, SameWriting
<1>4. ASSUME NEW m \in t.sent PROVE Valid(e, R, t, m)
  <2>1. CASE m \in s.sent
    <3>1. Valid(e, R, s, m)
      BY <1>1, <2>1
    <3>2. m.type # "RESET" => Acked(Peer(e), t, m)
      <4>1. m.type # "RESET" => Acked(Peer(e), s, m)
        BY <3>1 DEF Valid
      <4> QED BY <1>1, <4>1, PeerIn, AckedMore
    <3> QED BY <1>2, <3>1, <3>2 DEF Valid, SameWriting
  <2> QED BY <2>1
<1> QED BY <1>3, <1>4 DEF Sends

(* A packet is taken in: data is appended to what was read, unless the     *)
(* application has closed.                                                 *)
LEMMA NextRead ==
  ASSUME NEW e \in End, NEW R, NEW T, NEW w, Numbered(T, w),
         NEW s \in Sends(e, R), Reading(Peer(e), T, w, s), Idle(s),
         s.state \in Connected \cup {"FIN_SENT"}, Got(Peer(e), s) + 1 <= T,
         NEW t \in Socket, SameWriting(s, t), t.state = s.state, t.sent \subseteq s.sent,
         t.eof = s.eof, t.failed = s.failed, t.ack_nr = Mod(s.ack_nr + 1),
         t.got_fin => T = w + 1 /\ t.eof_pkt = At(Peer(e), T),
         t.inbuf \subseteq s.inbuf,
         \A p \in s.inbuf : p \in t.inbuf \/ p.seq = At(Peer(e), Got(Peer(e), s) + 1),
         NEW data, t.read = IF s.state = "FIN_SENT" THEN s.read ELSE s.read \o data,
         s.state \in Connected =>
           /\ t.got_fin <=> Got(Peer(e), s) = w
           /\ data = IF Got(Peer(e), s) < w THEN <<Got(Peer(e), s) + 1>> ELSE << >>
  PROVE  t \in Sends(e, R) /\ Reading(Peer(e), T, w, t) /\ Later(Peer(e), s, t)
<1> DEFINE f == Peer(e)
           G == Got(f, s)
<1>1. f \in End /\ s \in Socket /\ w \in Nat /\ T \in {w, w + 1} /\ T + 1 < Modulus /\ Modulus \in Nat
  BY PeerIn, SendsSocket, SeqAssumption DEF Numbered
<1>2. G \in Nat
  <2>1. s.ack_nr \in Number
    BY <1>1 DEF Socket
  <2> QED BY <1>1, <2>1, GotIs
<1> HIDE DEF f
<1>3. G + 1 < Modulus /\ G + 1 <= T
  <2>1. G + 1 <= T
    BY DEF f
  <2> HIDE DEF G
  <2> QED BY <1>1, <1>2, <2>1
<1>4. Got(f, t) = G + 1 /\ Has(f, s) \subseteq Has(f, t)
  <2>1. \A p \in s.inbuf : p \in t.inbuf \/ p.seq = At(f, Got(f, s) + 1)
    BY DEF f
  <2> QED BY <1>1, <1>3, <2>1, HasNext
<1> HIDE DEF G
<1>5. G <= G + 1
  BY <1>2
<1>6. t \in Sends(e, R)
  BY <1>4, <1>5, ReaderSends DEF f, G
<1>7. /\ Filing(f, T, w, s) /\ UpToDate(f, T, w, s) /\ Len(s.read) <= w /\ s.read = Numbers(Len(s.read))
      /\ (s.eof => T = w + 1 /\ Len(s.read) = w)
      /\ (s.failed => s.state \in {"RESET", "DESTROY", "GONE"})
      /\ (s.state \in Connected => ~s.eof)
  BY DEF Reading, f
<1>8. s.read \in Seq(Nat) /\ Len(s.read) \in Nat
  BY <1>1, ReadLength
<1>9. CASE s.state = "FIN_SENT"
  <2>1. s.state \notin Connected /\ t.state \notin Connected /\ t.state = "FIN_SENT" /\ t.read = s.read
    BY <1>9 DEF Connected
  <2>2. Filing(f, T, w, t) /\ UpToDate(f, T, w, t)
    BY <1>7, <2>1 DEF Filing, UpToDate
  <2>3. Reading(f, T, w, t)
    BY <1>3, <1>4, <1>7, <1>8, <2>1, <2>2 DEF Reading, f
  <2>4. Len(s.read) <= Len(t.read)
    BY <1>8, <2>1
  <2>5. Later(f, s, t)
    BY <1>4, <1>5, <2>1, <2>4 DEF Later, G
  <2> QED BY <1>6, <2>3, <2>5 DEF f
<1>10. CASE s.state \in Connected
  <2>0. ~s.got_fin /\ s.state # "FIN_SENT" /\ t.read = s.read \o data
    BY <1>10 DEF Idle, Connected
  <2>1. Len(s.read) = G /\ G <= w /\ s.read = Numbers(G)
    BY <1>7, <1>10, <2>0 DEF UpToDate, G
  <2>2. (t.got_fin <=> G = w) /\ data = IF G < w THEN <<G + 1>> ELSE << >>
    BY <1>10 DEF G, f
  <2>3. /\ Len(t.read) = IF G < w THEN G + 1 ELSE w
        /\ t.read = Numbers(Len(t.read))
    <3>1. CASE G < w
      <4> DEFINE r == s.read \o <<G + 1>>
      <4>1. r = Append(s.read, G + 1) /\ r \in Seq(Nat)
        BY <1>2, <1>8
      <4>2. Len(r) = G + 1 /\ DOMAIN r = 1..(G + 1) /\ r[G + 1] = G + 1
            /\ \A i \in 1..G : r[i] = s.read[i]
        BY <1>2, <1>8, <2>1
      <4>3. \A i \in 1..G : s.read[i] = i
        BY <2>1 DEF Numbers
      <4>4. \A i \in 1..(G + 1) : r[i] = i
        BY <1>2, <4>2, <4>3
      <4>5. r = [i \in 1..(G + 1) |-> i]
        BY <4>1, <4>2, <4>4
      <4>6. t.read = r
        BY <2>0, <2>2, <3>1
      <4> HIDE DEF r
      <4> QED BY <3>1, <4>2, <4>5, <4>6 DEF Numbers
    <3>2. CASE ~(G < w)
      <4>1. t.read = s.read /\ G = w
        BY <1>1, <1>2, <1>8, <2>0, <2>1, <2>2, <3>2
      <4> QED BY <2>1, <3>2, <4>1
    <3> QED BY <3>1, <3>2
  <2>4. Len(t.read) <= w /\ Len(s.read) <= Len(t.read)
    BY <1>1, <1>2, <2>1, <2>3
  <2>5. UpToDate(f, T, w, t)
    <3>1. CASE G = w
      <4>1. t.got_fin /\ ~(G < w)
        BY <1>1, <1>2, <2>2, <3>1
      <4>2. T = w + 1 /\ Len(t.read) = w
        BY <2>3, <4>1
      <4> QED BY <1>4, <3>1, <4>1, <4>2 DEF UpToDate
    <3>2. CASE G # w
      <4>1. ~t.got_fin /\ Len(t.read) = G + 1
        BY <1>1, <1>2, <2>1, <2>2, <2>3, <3>2
      <4> QED BY <1>4, <4>1 DEF UpToDate
    <3> QED BY <3>1, <3>2
  <2>6. Filing(f, T, w, t)
    BY <1>7, <1>10 DEF Filing
  <2>7. t.state \in Connected /\ t.state # "DESTROY_DELAY" /\ ~t.eof /\ ~t.failed
    BY <1>7, <1>10 DEF Connected
  <2>8. Reading(f, T, w, t)
    BY <1>3, <1>4, <2>3, <2>4, <2>5, <2>6, <2>7 DEF Reading, f
  <2>9. Later(f, s, t)
    BY <1>4, <1>5, <1>10, <2>4 DEF Later, G
  <2> QED BY <1>6, <2>8, <2>9 DEF f
<1> QED BY <1>9, <1>10

(* EOF is only posted when the whole stream was taken in.                  *)
LEMMA EofSends ==
  ASSUME NEW e \in End, NEW R, NEW T, NEW w, Numbered(T, w),
         NEW s \in Sends(e, R), s \in Receiving, Reading(Peer(e), T, w, s), AtEof(s),
         s.state \in Connected \cup {"FIN_SENT", "DESTROY_DELAY"}
  PROVE  LET t == Eof(s)
         IN  t \in Sends(e, R) /\ t \in Receiving /\ Reading(Peer(e), T, w, t) /\ Later(Peer(e), s, t)
             /\ t.state \in {"FIN_SENT", "DESTROY_DELAY"}
<1> DEFINE c == [s EXCEPT !.state = "DESTROY_DELAY", !.eof = TRUE]
           t == IF s.state = "FIN_SENT" THEN s ELSE c
           m == [type |-> "STATE", seq |-> t.seq_nr, ack |-> t.ack_nr, data |-> << >>,
                 sack |-> IF t.reorder_count # 0 /\ t.state \in {"CONNECTED", "CONNECTED_FULL"}
                          THEN {p.seq : p \in t.inbuf} ELSE {}]
           u == SendData(t, m)
           v == [u EXCEPT !.reorder_count = 0]
           f == Peer(e)
           eof == IF s.state = "FIN_SENT" THEN s.eof ELSE TRUE
           state == IF s.state = "FIN_SENT" THEN "FIN_SENT" ELSE "DESTROY_DELAY"
<1>1. s \in Socket /\ f \in End
  BY PeerIn, SendsSocket
<1>2. Eof(s) = v
  BY DEF Eof, SendAck
<1>3. v \in Receiving /\ v \in Socket
  BY <1>2, EofReceives DEF Receiving
<1>4. /\ t.state = state /\ t.eof = eof /\ t.ack_nr = s.ack_nr /\ t.inbuf = s.inbuf
      /\ t.got_fin = s.got_fin /\ t.eof_pkt = s.eof_pkt /\ t.read = s.read /\ t.failed = s.failed
      /\ t.sent = s.sent /\ SameWriting(s, t) /\ t \in Socket
  <2>1. CASE s.state = "FIN_SENT"
    BY <1>1, <2>1 DEF SameWriting
  <2>2. CASE s.state # "FIN_SENT"
    <3>1. c \in Socket
      BY <1>1 DEF Socket, State
    <3>2. /\ c.state = "DESTROY_DELAY" /\ c.eof = TRUE /\ c.ack_nr = s.ack_nr /\ c.inbuf = s.inbuf
          /\ c.got_fin = s.got_fin /\ c.eof_pkt = s.eof_pkt /\ c.read = s.read /\ c.failed = s.failed
          /\ c.sent = s.sent /\ SameWriting(s, c)
      BY <1>1 DEF Socket, SameWriting
    <3>3. t = c /\ state = "DESTROY_DELAY" /\ eof = TRUE
      BY <2>2
    <3> HIDE DEF c, t, state, eof
    <3> QED BY <3>1, <3>2, <3>3
  <2> QED BY <2>1, <2>2
<1>5. state \in {"FIN_SENT", "DESTROY_DELAY"} /\ state \notin Connected
  BY DEF Connected
<1> HIDE DEF c, t, f
<1>6. m.type = "STATE" /\ m.ack = s.ack_nr /\ m.sack = {}
  BY <1>4, <1>5 DEF Connected
<1> HIDE DEF m
<1>7. /\ v.state = state /\ v.eof = eof /\ v.ack_nr = s.ack_nr /\ v.inbuf = s.inbuf
      /\ v.got_fin = s.got_fin /\ v.eof_pkt = s.eof_pkt /\ v.read = s.read /\ v.failed = s.failed
      /\ v.sent = s.sent \cup {m} /\ SameWriting(s, v)
  BY <1>4 DEF Socket, SendData, SameWriting
<1> HIDE DEF u, v, state, eof
<1>8. Got(f, v) = Got(f, s) /\ Has(f, v) = Has(f, s)
  BY <1>7 DEF Got, Has
<1>9. Got(f, s) \in Nat /\ s.ack_nr = At(f, Got(f, s))
  <2>1. s.ack_nr \in Number
    BY <1>1 DEF Socket
  <2> QED BY <1>1, <2>1, GotIs
<1>10. v \in Sends(e, R)
  <2>1. Acked(f, v, m)
    BY <1>3, <1>6, <1>7, AckIsValid DEF f
  <2>2. Valid(e, R, v, m)
    BY <1>6, <2>1 DEF Valid, f
  <2>3. v.state = s.state \/ v.state = "DESTROY_DELAY"
    BY <1>7 DEF state
  <2>4. Got(f, s) <= Got(f, v) /\ Has(f, s) \subseteq Has(f, v)
    BY <1>8, <1>9
  <2>5. \A l \in v.sent : l \in s.sent \/ Valid(e, R, v, l)
    BY <1>7, <2>2
  <2> QED BY <1>3, <1>7, <2>3, <2>4, <2>5, ReaderSends DEF f
<1>11. /\ Got(f, s) <= T /\ Filing(f, T, w, s) /\ UpToDate(f, T, w, s)
       /\ (s.got_fin => T = w + 1 /\ s.eof_pkt = At(f, T))
       /\ Len(s.read) <= w /\ s.read = Numbers(Len(s.read))
       /\ (s.eof => T = w + 1 /\ Len(s.read) = w)
       /\ (s.state = "DESTROY_DELAY" => s.eof /\ s.got_fin /\ Got(f, s) = T)
       /\ (s.failed => s.state \in {"RESET", "DESTROY", "GONE"})
  BY DEF Reading, f
<1>12. s.got_fin /\ T = w + 1 /\ Got(f, s) = T
  <2>1. s.got_fin /\ T = w + 1 /\ s.eof_pkt = At(f, T) /\ s.ack_nr = At(f, T)
    BY <1>11 DEF AtEof
  <2>2. T \in 0..(Modulus - 1)
    BY SeqAssumption DEF Numbered
  <2> QED BY <1>1, <2>1, <2>2, GotOf
<1>13. v.eof => Len(s.read) = w
  <2>1. CASE s.state \in Connected
    BY <1>11, <1>12, <2>1 DEF UpToDate
  <2>2. CASE s.state = "FIN_SENT"
    BY <1>7, <1>11, <2>2 DEF eof
  <2>3. CASE s.state = "DESTROY_DELAY"
    BY <1>11, <2>3
  <2> QED BY <2>1, <2>2, <2>3
<1>14. v.state = "DESTROY_DELAY" => v.eof
  BY <1>7 DEF state, eof
<1>15. ~v.failed
  BY <1>7, <1>11 DEF Connected
<1>16. Filing(f, T, w, v)
  <2>1. SUFFICES ASSUME NEW p \in s.inbuf
                 PROVE \E k \in 1..T : p.seq = At(f, k) /\ (k <= w => p.data = <<k>>)
    BY <1>5, <1>7 DEF Filing
  <2>2. PICK k \in 1..(IF s.state \in Connected THEN w ELSE T) :
          p.seq = At(f, k) /\ (k <= w => p.data = <<k>>)
    BY <1>11 DEF Filing
  <2>3. k \in 1..T
    BY DEF Numbered
  <2> QED BY <2>2, <2>3
<1>17. Reading(f, T, w, v)
  BY <1>5, <1>7, <1>8, <1>11, <1>12, <1>13, <1>14, <1>15, <1>16 DEF Reading, UpToDate
<1>18. Later(f, s, v)
  <2>1. \/ v.state = s.state /\ v.eof = s.eof
        \/ s.state \in Connected /\ v.state = "DESTROY_DELAY"
    <3>1. CASE s.state = "FIN_SENT"
      BY <1>7, <3>1 DEF state, eof
    <3>2. CASE s.state # "FIN_SENT"
      BY <1>7, <1>11, <3>2 DEF state, eof
    <3> QED BY <3>1, <3>2
  <2>2. Len(s.read) <= Len(v.read)
    BY <1>1, <1>7, ReadLength
  <2> QED BY <1>7, <1>8, <1>9, <2>1, <2>2 DEF Later
<1> QED BY <1>2, <1>3, <1>5, <1>7, <1>10, <1>17, <1>18 DEF f

(* Deliver gives the next packet to the application.                       *)
LEMMA DeliverShape ==
  ASSUME NEW s \in Socket, NEW data
  PROVE  LET t == Deliver(s, data)
         IN  /\ t.read = IF s.state = "FIN_SENT" THEN s.read ELSE s.read \o data
             /\ t.ack_nr = Mod(s.ack_nr + 1) /\ t.inbuf = s.inbuf /\ t.state = s.state
             /\ t.eof = s.eof /\ t.failed = s.failed /\ t.sent = s.sent
             /\ t.got_fin = s.got_fin /\ t.eof_pkt = s.eof_pkt /\ SameWriting(s, t)
<1> DEFINE r == IF s.state = "FIN_SENT" THEN s.read ELSE s.read \o data
           t == [s EXCEPT !.read = r, !.ack_nr = Mod(@ + 1)]
<1>1. Deliver(s, data) = t
  BY DEF Deliver
<1> HIDE DEF r
<1>2. /\ t.read = r /\ t.ack_nr = Mod(s.ack_nr + 1) /\ t.inbuf = s.inbuf /\ t.state = s.state
      /\ t.eof = s.eof /\ t.failed = s.failed /\ t.sent = s.sent
      /\ t.got_fin = s.got_fin /\ t.eof_pkt = s.eof_pkt /\ SameWriting(s, t)
  BY DEF Socket, SameWriting
<1> QED BY <1>1, <1>2 DEF r

LEMMA DrainOneSends ==
  ASSUME NEW e \in End, NEW R, NEW T, NEW w, Numbered(T, w),
         NEW s \in Sends(e, R), s \in Receiving, Reading(Peer(e), T, w, s),
         s.state \in Connected \cup {"FIN_SENT", "DESTROY_DELAY"}, NEW i
  PROVE  LET t == DrainOne(s, i)
         IN  /\ t \in Sends(e, R) /\ t \in Receiving /\ Reading(Peer(e), T, w, t) /\ Later(Peer(e), s, t)
             /\ t.state \in Connected \cup {"FIN_SENT", "DESTROY_DELAY"} /\ Idle(t)
<1> DEFINE f == Peer(e)
           G == Got(f, s)
           next == {p \in s.inbuf : p.seq = Mod(s.ack_nr + 1)}
           p == CHOOSE q \in next : TRUE
           u == [s EXCEPT !.inbuf = @ \ {p}, !.reorder_count = @ - 1]
           t == DrainOne(s, i)
<1>1. f \in End /\ s \in Socket /\ w \in Nat /\ T \in {w, w + 1} /\ T + 1 < Modulus /\ Modulus \in Nat
  BY PeerIn, SendsSocket, SeqAssumption DEF Numbered
<1>2. G \in Nat /\ s.ack_nr = At(f, G)
  <2>1. s.ack_nr \in Number
    BY <1>1 DEF Socket
  <2> QED BY <1>1, <2>1, GotIs
<1> HIDE DEF f
<1>3. /\ G <= T /\ Filing(f, T, w, s) /\ UpToDate(f, T, w, s)
      /\ (s.got_fin => T = w + 1 /\ s.eof_pkt = At(f, T))
      /\ (s.state = "DESTROY_DELAY" => s.got_fin /\ G = T)
  BY DEF Reading, f
<1>4. s.got_fin /\ G = T => AtEof(s)
  BY <1>2, <1>3 DEF AtEof
<1>5. ASSUME ~AtEof(s)
      PROVE  s.state \in Connected \cup {"FIN_SENT"} /\ Idle(s)
  BY <1>3, <1>4, <1>5 DEF Idle, UpToDate, G
<1>6. t \in Receiving
  BY DrainOneReceives
<1>7. CASE AtEof(s)
  <2>1. t = Eof(s)
    BY <1>7 DEF DrainOne
  <2> HIDE DEF t
  <2>2. t \in Sends(e, R) /\ Reading(Peer(e), T, w, t) /\ Later(Peer(e), s, t)
        /\ t.state \in {"FIN_SENT", "DESTROY_DELAY"}
    BY <1>7, <2>1, EofSends
  <2>3. Idle(t)
    BY <2>2 DEF Idle, Connected
  <2> QED BY <1>6, <2>2, <2>3 DEF t
<1>8. CASE ~AtEof(s) /\ (s.reorder_count = 0 \/ next = {})
  <2>1. t = s
    BY <1>8 DEF DrainOne
  <2>2. Later(f, s, s)
    <3>1. Len(s.read) \in Nat
      BY <1>1, ReadLength
    <3> QED BY <1>2, <3>1 DEF Later, SameWriting, G
  <2> QED BY <1>5, <1>6, <1>8, <2>1, <2>2 DEF f
<1>9. CASE ~AtEof(s) /\ ~(s.reorder_count = 0 \/ next = {})
  <2>1. p \in s.inbuf /\ p.seq = Mod(s.ack_nr + 1)
    BY <1>9
  <2>2. t = Deliver(u, p.data)
    BY <1>9 DEF DrainOne
  <2>3. s.state \in Connected \cup {"FIN_SENT"} /\ Idle(s)
    BY <1>5, <1>9
  <2> HIDE DEF p, G, t, next
  <2>4. p.seq = At(f, G + 1)
    <3>1. Mod(At(f, G) + 1) = At(f, G + 1)
      BY <1>1, <1>2, AtShift
    <3> QED BY <1>2, <2>1, <3>1
  <2>5. PICK k \in 1..(IF s.state \in Connected THEN w ELSE T) :
          p.seq = At(f, k) /\ (k <= w => p.data = <<k>>)
    BY <1>3, <2>1 DEF Filing
  <2>6. k = G + 1
    <3>1. k \in Int /\ G + 1 \in Int /\ k - (G + 1) < Modulus /\ (G + 1) - k < Modulus
      BY <1>1, <1>2, <1>3
    <3>2. At(f, k) = At(f, G + 1)
      BY <2>4, <2>5
    <3> QED BY <1>1, <3>1, <3>2, AtInjective
  <2>7. G + 1 <= T /\ (s.state \in Connected => G < w /\ G # w /\ p.data = <<G + 1>>)
    BY <1>1, <1>2, <2>5, <2>6
  <2>8. /\ u \in Socket /\ u.inbuf = s.inbuf \ {p} /\ u.state = s.state /\ u.read = s.read
        /\ u.ack_nr = s.ack_nr /\ u.eof = s.eof /\ u.failed = s.failed /\ u.sent = s.sent
        /\ u.got_fin = s.got_fin /\ u.eof_pkt = s.eof_pkt /\ SameWriting(s, u)
    <3> DEFINE kept == s.inbuf \ {p}
               count == s.reorder_count - 1
    <3>1. kept \in SUBSET [seq: Number, data: Seq(Nat)] /\ count \in Int
      BY <1>1 DEF Socket
    <3>2. u = [s EXCEPT !.inbuf = kept, !.reorder_count = count]
      OBVIOUS
    <3> HIDE DEF kept, count, u
    <3>3. u \in Socket
      BY <1>1, <3>1, <3>2 DEF Socket
    <3>4. /\ u.inbuf = kept /\ u.state = s.state /\ u.read = s.read
          /\ u.ack_nr = s.ack_nr /\ u.eof = s.eof /\ u.failed = s.failed /\ u.sent = s.sent
          /\ u.got_fin = s.got_fin /\ u.eof_pkt = s.eof_pkt /\ SameWriting(s, u)
      BY <1>1, <3>2 DEF Socket, SameWriting
    <3> QED BY <3>3, <3>4 DEF kept
  <2> HIDE DEF u
  <2>9. /\ t.read = IF s.state = "FIN_SENT" THEN s.read ELSE s.read \o p.data
        /\ t.ack_nr = Mod(s.ack_nr + 1) /\ t.inbuf = s.inbuf \ {p} /\ t.state = s.state
        /\ t.eof = s.eof /\ t.failed = s.failed /\ t.sent = s.sent
        /\ t.got_fin = s.got_fin /\ t.eof_pkt = s.eof_pkt /\ SameWriting(s, t)
    <3>1. /\ t.read = IF u.state = "FIN_SENT" THEN u.read ELSE u.read \o p.data
          /\ t.ack_nr = Mod(u.ack_nr + 1) /\ t.inbuf = u.inbuf /\ t.state = u.state
          /\ t.eof = u.eof /\ t.failed = u.failed /\ t.sent = u.sent
          /\ t.got_fin = u.got_fin /\ t.eof_pkt = u.eof_pkt /\ SameWriting(u, t)
      BY <2>2, <2>8, DeliverShape
    <3> QED BY <2>8, <3>1 DEF SameWriting
  <2>10. \A q \in s.inbuf : q \in t.inbuf \/ q.seq = At(f, G + 1)
    BY <2>4, <2>9
  <2>11. s.state \in Connected =>
           /\ t.got_fin <=> G = w
           /\ p.data = IF G < w THEN <<G + 1>> ELSE << >>
    BY <2>3, <2>7, <2>9 DEF Idle
  <2>12. t \in Socket
    BY <1>6 DEF Receiving, t
  <2>13. t.got_fin => T = w + 1 /\ t.eof_pkt = At(f, T)
    BY <1>3, <2>9
  <2>14. t.inbuf \subseteq s.inbuf /\ t.sent \subseteq s.sent
    BY <2>9
  <2>15. t \in Sends(e, R) /\ Reading(f, T, w, t) /\ Later(f, s, t)
    BY <2>3, <2>7, <2>9, <2>10, <2>11, <2>12, <2>13, <2>14, NextRead DEF f, G
  <2>16. Idle(t)
    BY <2>3, <2>9 DEF Idle
  <2> QED BY <1>6, <2>3, <2>9, <2>15, <2>16 DEF f, t
<1> QED BY <1>7, <1>8, <1>9

LEMMA DrainSends ==
  ASSUME NEW e \in End, NEW R, NEW T, NEW w, Numbered(T, w),
         NEW s \in Sends(e, R), s \in Receiving, Reading(Peer(e), T, w, s),
         s.state \in Connected \cup {"FIN_SENT"}
  PROVE  LET t == Drain(s)
         IN  /\ t \in Sends(e, R) /\ t \in Good /\ Reading(Peer(e), T, w, t) /\ Later(Peer(e), s, t)
             /\ Idle(t)
<1> DEFINE f == Peer(e)
           n == Cardinality(s.inbuf) + 1
           states == Connected \cup {"FIN_SENT", "DESTROY_DELAY"}
           S == {x \in Sends(e, R) : x \in Receiving /\ Reading(f, T, w, x) /\ Later(f, s, x)
                                     /\ x.state \in states}
           G == [k \in 0..n |-> IF k = 0 THEN S ELSE {x \in S : Idle(x)}]
           t == Drain(s)
<1>1. f \in End /\ s \in Socket /\ Cardinality(s.inbuf) \in Nat
  <2>1. IsFiniteSet(s.inbuf)
    BY DEF Receiving
  <2> QED BY <2>1, PeerIn, SendsSocket, FS_CardinalityType
<1>2. n \in Nat /\ n = Cardinality(s.inbuf) + 1 /\ n \in 1..n /\ n \in 0..n /\ 0 \in 0..n
      /\ \A k \in 1..n : k \in 0..n /\ k-1 \in 0..n /\ k # 0
  BY <1>1
<1>3. \A k \in 0..n : G[k] = IF k = 0 THEN S ELSE {x \in S : Idle(x)}
  OBVIOUS
<1>4. s \in S
  <2>1. Later(f, s, s)
    <3>1. Len(s.read) \in Nat /\ s.ack_nr \in Number
      BY <1>1, ReadLength DEF Socket
    <3>2. Got(f, s) \in Nat
      BY <1>1, <3>1, GotIs
    <3> QED BY <3>1, <3>2 DEF Later, SameWriting
  <2> QED BY <2>1
<1>5. ASSUME NEW x \in S, NEW k \in 1..n PROVE DrainOne(x, k) \in S /\ Idle(DrainOne(x, k))
  <2> DEFINE y == DrainOne(x, k)
  <2>1. x \in Sends(e, R) /\ x \in Receiving /\ Reading(Peer(e), T, w, x) /\ x.state \in states
        /\ Later(f, s, x)
    OBVIOUS
  <2>2. y \in Sends(e, R) /\ y \in Receiving /\ Reading(f, T, w, y) /\ Later(f, x, y)
        /\ y.state \in states /\ Idle(y)
    BY <2>1, DrainOneSends
  <2> HIDE DEF y
  <2>3. y \in Socket /\ x \in Socket
    BY <2>1, <2>2 DEF Receiving
  <2>4. Later(f, s, y)
    BY <1>1, <2>1, <2>2, <2>3, LaterTrans
  <2> QED BY <2>2, <2>4 DEF y
<1> HIDE DEF n, S, t, G
<1>6. \A x \in S : \A k \in 1..n : DrainOne(x, k) \in S
  BY <1>5
<1>7. \A k \in 1..n : \A x \in S : x \in G[k-1] => DrainOne(x, k) \in G[k]
  BY <1>2, <1>3, <1>5
<1>8. s \in G[0]
  BY <1>2, <1>3, <1>4
<1>9. t \in S /\ t \in G[n]
  BY <1>2, <1>4, <1>6, <1>7, <1>8, DrainTurns DEF t
<1>10. Idle(t)
  BY <1>2, <1>3, <1>9
<1>11. t \in Good
  BY DrainKeeps DEF t
<1> QED BY <1>9, <1>10, <1>11 DEF S, t

(* What a packet that carries some of the stream f says of it, if s is to  *)
(* have it: a FIN only arrives after everything before it.                 *)
Arriving(f, T, w, s, m) ==
  /\ m.type = "DATA" => \E k \in 1..w : m.seq = At(f, k) /\ m.data = <<k>>
  /\ m.type = "FIN" => /\ m.seq = At(f, w + 1) /\ m.data = << >>
                       /\ T = w + 1 /\ 1..w \subseteq Has(f, s)

LEMMA AheadIs ==
  ASSUME NEW f \in End, NEW s \in Socket, NEW m, NEW k \in 1..(Modulus - 1), m.seq = At(f, k)
  PROVE  Ahead(s, m) = 0 <=> k = Got(f, s) + 1
<1> DEFINE G == Got(f, s)
<1>1. G \in 0..(Modulus - 1) /\ G \in Nat /\ s.ack_nr = At(f, G)
  <2>1. s.ack_nr \in Number
    BY DEF Socket
  <2> QED BY <2>1, GotIs
<1>2. Modulus \in Nat /\ k \in Nat /\ k >= 1 /\ k < Modulus
  BY SeqAssumption
<1> HIDE DEF G
<1>3. Ahead(s, m) = Mod(k - G - 1)
  <2>1. Mod(At(f, k) - At(f, G) + (-1)) = Mod(k - G + (-1))
    BY <1>1, <1>2, Distance
  <2>2. At(f, k) \in Int /\ At(f, G) \in Int
    BY <1>1, <1>2, AtNumber
  <2>3. At(f, k) - At(f, G) + (-1) = At(f, k) - At(f, G) - 1 /\ k - G + (-1) = k - G - 1
    BY <1>1, <1>2, <2>2
  <2> QED BY <1>1, <2>1, <2>3 DEF Ahead
<1>4. CASE k - G - 1 >= 0
  <2>1. k - G - 1 \in 0..(Modulus - 1)
    BY <1>1, <1>2, <1>4
  <2>2. Mod(k - G - 1) = k - G - 1
    BY <2>1, Small
  <2> QED BY <1>1, <1>2, <1>3, <2>2 DEF G
<1>5. CASE k - G - 1 < 0
  <2>1. k - G - 1 \in (-Modulus)..(-1)
    BY <1>1, <1>2, <1>5
  <2>2. Mod(k - G - 1) = k - G - 1 + Modulus
    BY <2>1, Small
  <2>3. Ahead(s, m) = k - G - 1 + Modulus
    BY <1>3, <2>2
  <2>4. k - G - 1 + Modulus > 0 /\ k # G + 1
    BY <1>1, <1>2, <1>5
  <2> QED BY <2>3, <2>4 DEF G
<1> QED BY <1>1, <1>2, <1>4, <1>5

(* So a FIN that reaches a connected socket is the next packet.            *)
LEMMA FinIsNext ==
  ASSUME NEW f \in End, NEW T, NEW w, Numbered(T, w), NEW s \in Good, Reading(f, T, w, s), Idle(s),
         s.state \in Connected, NEW m, m.type = "FIN", Arriving(f, T, w, s, m)
  PROVE  Ahead(s, m) = 0
<1> DEFINE G == Got(f, s)
<1>1. s \in Socket /\ w \in Nat /\ T + 1 < Modulus /\ Modulus \in Nat
  BY GoodSocket, SeqAssumption DEF Numbered
<1>2. G \in Nat /\ s.ack_nr = At(f, G)
  <2>1. s.ack_nr \in Number
    BY <1>1 DEF Socket
  <2> QED BY <2>1, GotIs
<1>3. m.seq = At(f, w + 1) /\ T = w + 1 /\ 1..w \subseteq Has(f, s)
  BY DEF Arriving
<1>4. Len(s.read) = G /\ Len(s.read) <= w
  BY DEF Reading, UpToDate, Idle
<1> HIDE DEF G
<1>5. G <= w
  BY <1>4
<1>6. ASSUME G < w PROVE FALSE
  <2>1. G + 1 \in 1..w /\ ~(G + 1 \in 1..G) /\ G + 1 \in Int
    BY <1>1, <1>2, <1>6
  <2>2. G + 1 \in Has(f, s)
    BY <1>3, <2>1
  <2>3. PICK p \in s.inbuf : p.seq = At(f, G + 1)
    BY <2>1, <2>2 DEF Has, G
  <2>4. p.seq # Mod(s.ack_nr + 1)
    BY <2>3 DEF Good, Counting
  <2>5. Mod(At(f, G) + 1) = At(f, G + 1)
    BY <1>2, AtShift
  <2> QED BY <1>2, <2>3, <2>4, <2>5
<1>7. w + 1 = G + 1 /\ w + 1 \in 1..(Modulus - 1)
  BY <1>1, <1>2, <1>3, <1>5, <1>6
<1> QED BY <1>1, <1>3, <1>7, AheadIs DEF G

LEMMA LaterSame ==
  ASSUME NEW f \in End, NEW s \in Socket, NEW t, Kept(s, t), t.outbuf = s.outbuf PROVE Later(f, s, t)
<1>1. Len(s.read) \in Nat /\ s.ack_nr \in Number
  BY ReadLength DEF Socket
<1>2. Got(f, s) \in Nat
  BY <1>1, GotIs
<1> QED BY <1>1, <1>2 DEF Later, SameWriting, Kept, Got, Has

LEMMA KeptReading ==
  ASSUME NEW f, NEW T, NEW w, NEW s, NEW t, Kept(s, t), Reading(f, T, w, s)
  PROVE  Reading(f, T, w, t) /\ (Idle(s) => Idle(t))
BY DEF Kept, Reading, Filing, UpToDate, Idle, Got

LEMMA ScheduleAckSends ==
  ASSUME NEW e \in End, NEW R, NEW s \in Sends(e, R), s \in Good
  PROVE  LET t == ScheduleAck(s)
         IN  t \in Sends(e, R) /\ t \in Good /\ Kept(s, t) /\ t.outbuf = s.outbuf
<1> DEFINE t == ScheduleAck(s)
<1>1. s \in Socket /\ t \in Good /\ t \in Socket
  BY ScheduleAckKeeps, GoodSocket
<1>2. Kept(s, t) /\ t.outbuf = s.outbuf /\ t.sent = s.sent
  BY <1>1 DEF ScheduleAck, Kept, Socket
<1> HIDE DEF t
<1>3. t \in Sends(e, R)
  BY <1>1, <1>2, SendsSame
<1> QED BY <1>1, <1>2, <1>3 DEF t

LEMMA GotFinShape ==
  ASSUME NEW s \in Socket, NEW m
  PROVE  LET t == GotFin(s, m)
         IN  /\ t.ack_nr = s.ack_nr /\ t.inbuf = s.inbuf /\ t.state = s.state /\ t.read = s.read
             /\ t.eof = s.eof /\ t.failed = s.failed /\ t.sent = s.sent /\ SameWriting(s, t)
             /\ t.reorder_count = s.reorder_count
             /\ t.got_fin <=> s.got_fin \/ m.type = "FIN"
             /\ t.eof_pkt = IF s.got_fin \/ m.type # "FIN" THEN s.eof_pkt ELSE m.seq
<1> DEFINE t == [s EXCEPT !.got_fin = TRUE, !.eof_pkt = m.seq]
<1>1. GotFin(s, m) = IF m.type = "FIN" /\ ~s.got_fin THEN t ELSE s
  BY DEF GotFin
<1>2. /\ t.ack_nr = s.ack_nr /\ t.inbuf = s.inbuf /\ t.state = s.state /\ t.read = s.read
      /\ t.eof = s.eof /\ t.failed = s.failed /\ t.sent = s.sent /\ SameWriting(s, t)
      /\ t.reorder_count = s.reorder_count /\ t.got_fin = TRUE /\ t.eof_pkt = m.seq
  BY DEF Socket, SameWriting
<1> HIDE DEF t
<1>3. s.got_fin \in BOOLEAN /\ SameWriting(s, s)
  BY DEF Socket, SameWriting
<1>4. CASE m.type = "FIN" /\ ~s.got_fin
  BY <1>1, <1>2, <1>4
<1>5. CASE ~(m.type = "FIN" /\ ~s.got_fin)
  BY <1>1, <1>3, <1>5
<1> QED BY <1>4, <1>5

(* A packet past the next one is filed away.                               *)
LEMMA KeepReads ==
  ASSUME NEW e \in End, NEW R, NEW T, NEW w, Numbered(T, w),
         NEW s \in Sends(e, R), Reading(Peer(e), T, w, s), Idle(s),
         s.state \in Connected \cup {"FIN_SENT"},
         NEW t \in Socket, SameWriting(s, t), t.state = s.state, t.sent \subseteq s.sent,
         t.eof = s.eof, t.failed = s.failed, t.ack_nr = s.ack_nr, t.read = s.read,
         t.got_fin => T = w + 1 /\ t.eof_pkt = At(Peer(e), T), Idle(t),
         s.inbuf \subseteq t.inbuf,
         \A p \in t.inbuf : p \in s.inbuf \/
           \E k \in 1..(IF s.state \in Connected THEN w ELSE T) :
             p.seq = At(Peer(e), k) /\ (k <= w => p.data = <<k>>)
  PROVE  t \in Sends(e, R) /\ Reading(Peer(e), T, w, t) /\ Later(Peer(e), s, t)
<1> DEFINE f == Peer(e)
<1>1. f \in End /\ s \in Socket
  BY PeerIn, SendsSocket
<1>2. Got(f, t) = Got(f, s) /\ Has(f, s) \subseteq Has(f, t)
  BY DEF Got, Has
<1>3. Got(f, s) \in Nat /\ Len(s.read) \in Nat
  <2>1. s.ack_nr \in Number /\ Len(s.read) \in Nat
    BY <1>1, ReadLength DEF Socket
  <2> QED BY <1>1, <2>1, GotIs
<1>4. t \in Sends(e, R)
  BY <1>2, <1>3, ReaderSends
<1>5. Filing(f, T, w, t)
  BY DEF Reading, Filing
<1>6. UpToDate(f, T, w, t)
  BY <1>2 DEF Reading, UpToDate, Idle
<1>7. Reading(f, T, w, t)
  <2>1. t.state # "DESTROY_DELAY"
    BY DEF Connected
  <2> HIDE DEF f
  <2>2. /\ Got(f, s) <= T /\ Len(s.read) <= w /\ s.read = Numbers(Len(s.read))
        /\ (s.eof => T = w + 1 /\ Len(s.read) = w)
        /\ (s.failed => s.state \in {"RESET", "DESTROY", "GONE"})
        /\ (s.state \in Connected => ~s.eof)
    BY DEF Reading, f
  <2>3. t.got_fin => T = w + 1 /\ t.eof_pkt = At(f, T)
    BY DEF f
  <2> QED BY <1>2, <1>5, <1>6, <2>1, <2>2, <2>3 DEF Reading
<1>8. Later(f, s, t)
  BY <1>2, <1>3 DEF Later
<1> QED BY <1>4, <1>7, <1>8

LEMMA AcceptSends ==
  ASSUME NEW e \in End, NEW R, NEW T, NEW w, Numbered(T, w),
         NEW s \in Sends(e, R), s \in Good, Reading(Peer(e), T, w, s), Idle(s),
         s.state \in Connected \cup {"FIN_SENT"},
         NEW m \in Message, m.type \in {"DATA", "FIN"}, Arriving(Peer(e), T, w, s, m),
         Ahead(s, m) < ReorderMax
  PROVE  LET t == Accept(s, m)
         IN  t \in Sends(e, R) /\ t \in Good /\ Reading(Peer(e), T, w, t) /\ Idle(t)
             /\ Later(Peer(e), s, t)
<1> DEFINE f == Peer(e)
           G == Got(f, s)
           g == GotFin(s, m)
<1>1. /\ f \in End /\ s \in Socket /\ w \in Nat /\ T \in {w, w + 1} /\ T + 1 < Modulus
      /\ Modulus \in Nat /\ m.data \in Seq(Nat) /\ m.seq \in Number
  BY PeerIn, SendsSocket, SeqAssumption DEF Numbered, Message
<1>2. /\ g \in Good /\ g \in Socket /\ g.ack_nr = s.ack_nr /\ g.inbuf = s.inbuf /\ g.state = s.state
      /\ g.read = s.read /\ g.eof = s.eof /\ g.failed = s.failed /\ g.sent = s.sent
      /\ SameWriting(s, g) /\ (g.got_fin <=> s.got_fin \/ m.type = "FIN")
      /\ g.eof_pkt = IF s.got_fin \/ m.type # "FIN" THEN s.eof_pkt ELSE m.seq
  BY <1>1, GotFinKeeps, GotFinShape, GoodSocket
<1> HIDE DEF f, g
<1>3. /\ m.type = "DATA" => \E k \in 1..w : m.seq = At(f, k) /\ m.data = <<k>>
      /\ m.type = "FIN" => m.seq = At(f, w + 1) /\ m.data = << >> /\ T = w + 1
  BY DEF Arriving, f
<1>4. /\ UpToDate(f, T, w, s) /\ (s.got_fin => T = w + 1 /\ s.eof_pkt = At(f, T))
      /\ G <= T /\ Len(s.read) <= w
  BY DEF Reading, f
<1>5. g.got_fin => T = w + 1 /\ g.eof_pkt = At(f, T)
  BY <1>2, <1>3, <1>4
<1>6. G \in Nat
  <2>1. s.ack_nr \in Number
    BY <1>1 DEF Socket
  <2> QED BY <1>1, <2>1, GotIs
<1>7. Accept(s, m) = IF Ahead(s, m) = 0 THEN ScheduleAck(Drain(Deliver(g, m.data))) ELSE Keep(g, m)
  BY DEF Accept, g
<1>8. CASE Ahead(s, m) = 0
  <2> DEFINE d == Deliver(g, m.data)
             x == Drain(d)
  <2>1. /\ d.read = IF s.state = "FIN_SENT" THEN s.read ELSE s.read \o m.data
        /\ d.ack_nr = Mod(s.ack_nr + 1) /\ d.inbuf = s.inbuf /\ d.state = s.state
        /\ d.eof = s.eof /\ d.failed = s.failed /\ d.sent = s.sent
        /\ d.got_fin = g.got_fin /\ d.eof_pkt = g.eof_pkt /\ SameWriting(s, d)
    <3>1. /\ d.read = IF g.state = "FIN_SENT" THEN g.read ELSE g.read \o m.data
          /\ d.ack_nr = Mod(g.ack_nr + 1) /\ d.inbuf = g.inbuf /\ d.state = g.state
          /\ d.eof = g.eof /\ d.failed = g.failed /\ d.sent = g.sent
          /\ d.got_fin = g.got_fin /\ d.eof_pkt = g.eof_pkt /\ SameWriting(g, d)
      BY <1>2, DeliverShape
    <3> HIDE DEF d
    <3> QED BY <1>2, <3>1 DEF SameWriting
  <2>2. d \in Receiving /\ d \in Socket
    <3>1. g \in Receiving /\ Inbox(g, 1)
      BY <1>2, GoodReceiving
    <3>2. d \in Receiving
      BY <1>1, <3>1, DeliverReceives
    <3> QED BY <3>2 DEF Receiving
  <2> HIDE DEF d, x, G
  <2>3. m.type = "DATA" => G + 1 <= w /\ G < w /\ m.data = <<G + 1>>
    <3> SUFFICES ASSUME m.type = "DATA" PROVE G + 1 <= w /\ G < w /\ m.data = <<G + 1>>
      OBVIOUS
    <3>1. PICK k \in 1..w : m.seq = At(f, k) /\ m.data = <<k>>
      BY <1>3
    <3>2. k \in 1..(Modulus - 1)
      BY <1>1
    <3>3. k = G + 1
      BY <1>1, <1>8, <3>1, <3>2, AheadIs DEF G
    <3> QED BY <1>1, <1>6, <3>1, <3>3
  <2>4. m.type = "FIN" => G = w /\ T = G + 1 /\ m.data = << >>
    <3> SUFFICES ASSUME m.type = "FIN" PROVE G = w /\ T = G + 1 /\ m.data = << >>
      OBVIOUS
    <3>1. m.seq = At(f, w + 1) /\ m.data = << >> /\ T = w + 1
      BY <1>3
    <3>2. w + 1 \in 1..(Modulus - 1)
      BY <1>1, <3>1
    <3>3. w + 1 = G + 1
      BY <1>1, <1>8, <3>1, <3>2, AheadIs DEF G
    <3> QED BY <1>1, <1>6, <3>1, <3>3
  <2>5. G + 1 <= T
    <3>1. CASE m.type = "DATA"
      BY <1>1, <1>6, <2>3, <3>1
    <3>2. CASE m.type = "FIN"
      BY <1>6, <2>4, <3>2
    <3> QED BY <3>1, <3>2
  <2>6. s.state \in Connected =>
          /\ d.got_fin <=> G = w
          /\ m.data = IF G < w THEN <<G + 1>> ELSE << >>
    <3>1. CASE m.type = "DATA"
      <4>1. G < w /\ G # w /\ m.data = <<G + 1>>
        BY <1>1, <1>6, <2>3, <3>1
      <4> QED BY <1>2, <2>1, <3>1, <4>1 DEF Idle
    <3>2. CASE m.type = "FIN"
      <4>1. ~(G < w) /\ G = w /\ m.data = << >>
        BY <1>1, <1>6, <2>4, <3>2
      <4> QED BY <1>2, <2>1, <3>2, <4>1
    <3> QED BY <3>1, <3>2
  <2>7. d.got_fin => T = w + 1 /\ d.eof_pkt = At(f, T)
    BY <1>5, <2>1
  <2>8. d.inbuf \subseteq s.inbuf /\ d.sent \subseteq s.sent
        /\ \A p \in s.inbuf : p \in d.inbuf \/ p.seq = At(f, G + 1)
    BY <2>1
  <2>9. d \in Sends(e, R) /\ Reading(f, T, w, d) /\ Later(f, s, d)
    BY <2>1, <2>2, <2>5, <2>6, <2>7, <2>8, NextRead DEF f, G
  <2>10. x \in Sends(e, R) /\ x \in Good /\ Reading(f, T, w, x) /\ Later(f, d, x) /\ Idle(x)
    BY <2>1, <2>2, <2>9, DrainSends DEF f, x
  <2> DEFINE t == ScheduleAck(x)
  <2>11. t \in Sends(e, R) /\ t \in Good /\ Kept(x, t) /\ t.outbuf = x.outbuf
    BY <2>10, ScheduleAckSends
  <2> HIDE DEF t
  <2>12. x \in Socket /\ t \in Socket
    BY <2>10, <2>11, GoodSocket
  <2>13. Reading(f, T, w, t) /\ Idle(t) /\ Later(f, x, t)
    BY <1>1, <2>10, <2>11, <2>12, KeptReading, LaterSame
  <2>14. Later(f, s, x)
    BY <1>1, <2>2, <2>9, <2>10, <2>12, LaterTrans
  <2>15. Later(f, s, t)
    BY <1>1, <2>12, <2>13, <2>14, LaterTrans
  <2>16. Accept(s, m) = t
    BY <1>7, <1>8 DEF t, x, d
  <2> QED BY <2>11, <2>13, <2>15, <2>16 DEF f
<1>9. CASE Ahead(s, m) # 0
  <2> DEFINE p == [seq |-> m.seq, data |-> m.data]
             t == Keep(g, m)
  <2>1. m.type = "FIN" => s.state \notin Connected
    BY <1>9, <1>1, FinIsNext DEF f
  <2>2. Idle(g)
    BY <1>2, <2>1 DEF Idle
  <2>3. \E k \in 1..(IF s.state \in Connected THEN w ELSE T) :
          p.seq = At(f, k) /\ (k <= w => p.data = <<k>>)
    <3>1. CASE m.type = "DATA"
      <4>1. PICK k \in 1..w : m.seq = At(f, k) /\ m.data = <<k>>
        BY <1>3, <3>1
      <4>2. k \in 1..(IF s.state \in Connected THEN w ELSE T)
        BY <1>1
      <4> QED BY <4>1, <4>2
    <3>2. CASE m.type = "FIN"
      <4>1. s.state \notin Connected /\ m.seq = At(f, w + 1) /\ T = w + 1
        BY <1>3, <2>1, <3>2
      <4>2. w + 1 \in 1..T /\ ~(w + 1 <= w)
        BY <1>1, <4>1
      <4> QED BY <4>1, <4>2
    <3> QED BY <3>1, <3>2
  <2>4. t \in Good /\ t \in Socket
    <3>1. Ahead(g, m) # 0 /\ Ahead(g, m) < ReorderMax
      BY <1>2, <1>9 DEF Ahead
    <3> QED BY <1>2, <3>1, KeepKeeps, GoodSocket
  <2>5. /\ t.ack_nr = g.ack_nr /\ t.state = g.state /\ t.read = g.read /\ t.eof = g.eof
        /\ t.failed = g.failed /\ t.sent = g.sent /\ SameWriting(g, t)
        /\ t.got_fin = g.got_fin /\ t.eof_pkt = g.eof_pkt /\ t.inbuf \in {g.inbuf, g.inbuf \cup {p}}
    <3> DEFINE inbuf == g.inbuf \cup {p}
               count == g.reorder_count + 1
               u == [g EXCEPT !.inbuf = inbuf, !.reorder_count = count]
               v == ScheduleAck(u)
    <3>1. t \in {g, v}
      BY DEF Keep
    <3> HIDE DEF inbuf, count, p, t
    <3>2. /\ v.ack_nr = g.ack_nr /\ v.state = g.state /\ v.read = g.read /\ v.eof = g.eof
          /\ v.failed = g.failed /\ v.sent = g.sent /\ SameWriting(g, v)
          /\ v.got_fin = g.got_fin /\ v.eof_pkt = g.eof_pkt /\ v.inbuf = inbuf
      BY <1>2 DEF Socket, ScheduleAck, SameWriting
    <3> HIDE DEF v
    <3> QED BY <3>1, <3>2 DEF SameWriting, inbuf
  <2> HIDE DEF p, t
  <2>6. /\ t.ack_nr = s.ack_nr /\ t.state = s.state /\ t.read = s.read /\ t.eof = s.eof
        /\ t.failed = s.failed /\ t.sent \subseteq s.sent /\ SameWriting(s, t) /\ Idle(t)
        /\ (t.got_fin => T = w + 1 /\ t.eof_pkt = At(f, T)) /\ s.inbuf \subseteq t.inbuf
    BY <1>2, <1>5, <2>2, <2>5 DEF SameWriting, Idle
  <2>7. \A q \in t.inbuf : q \in s.inbuf \/
           \E k \in 1..(IF s.state \in Connected THEN w ELSE T) :
             q.seq = At(f, k) /\ (k <= w => q.data = <<k>>)
    BY <1>2, <2>3, <2>5
  <2>8. t \in Sends(e, R) /\ Reading(f, T, w, t) /\ Later(f, s, t)
    BY <2>4, <2>6, <2>7, KeepReads DEF f
  <2>9. Accept(s, m) = t
    BY <1>7, <1>9 DEF t
  <2> QED BY <2>4, <2>6, <2>8, <2>9 DEF f
<1> QED BY <1>8, <1>9

-----------------------------------------------------------------------------
(* What a step of the socket s of e makes of it                            *)

(* The stream of e grows until its FIN, and more of its peer's comes in.   *)
Moved(e, s, t) ==
  /\ s.written <= t.written /\ Total(e, s) <= Total(e, t)
  /\ Total(e, s) = s.written + 1 => t.written = s.written /\ Total(e, t) = Total(e, s)
  /\ Got(Peer(e), s) <= Got(Peer(e), t) /\ Has(Peer(e), s) \subseteq Has(Peer(e), t)

Talks(s, t) ==
  /\ s.state \in Connected /\ t.failed = s.failed
  /\ s.written <= t.written /\ Len(s.read) <= Len(t.read)
  /\ \/ t.state \in Connected \cup {"FIN_SENT"} /\ t.eof = s.eof
     \/ t.state = "DESTROY_DELAY"

(* A closed socket ends when the peer has all of its stream, the FIN too,  *)
(* or at the end of its delay.                                             *)
Rests(e, R, s, t) ==
  /\ s.state \notin Connected
  /\ t.written = s.written /\ t.read = s.read /\ t.eof = s.eof /\ t.failed = s.failed
  /\ \/ t.state = s.state
     \/ s.state = "FIN_SENT" /\ t.state = "DESTROY" /\ 1..Total(e, s) \subseteq R
     \/ s.state \in {"DESTROY", "DESTROY_DELAY"} /\ t.state = "GONE"

Fails(s, t) ==
  /\ t.failed /\ t.state \in {"RESET", "DESTROY", "GONE"}
  /\ t.written = s.written /\ t.read = s.read /\ t.eof = s.eof

Acts(e, R, s, t) ==
  /\ Moved(e, s, t) /\ t.written + t.left = s.written + s.left
  /\ Talks(s, t) \/ Rests(e, R, s, t) \/ Fails(s, t)

LEMMA StreamNumbers ==
  ASSUME NEW e \in End, NEW R, NEW s \in Sends(e, R)
  PROVE  /\ Total(e, s) \in Nat /\ s.written \in Nat /\ Total(e, s) \in {s.written, s.written + 1}
         /\ Got(Peer(e), s) \in Nat /\ Len(s.read) \in Nat
         /\ Numbered(Total(e, s), s.written)
<1>1. s.ack_nr \in Number /\ Peer(e) \in End /\ Modulus \in Nat /\ s \in Socket
  BY PeerIn, SendsSocket, SeqAssumption DEF Socket
<1>2. Got(Peer(e), s) \in Nat
  BY <1>1, GotIs
<1>3. /\ Total(e, s) \in Nat /\ s.written \in Nat /\ Total(e, s) \in {s.written, s.written + 1}
      /\ Total(e, s) < Modulus - 1
  BY SendsSocket
<1>4. Total(e, s) + 1 < Modulus
  BY <1>1, <1>3
<1> QED BY <1>1, <1>2, <1>3, <1>4, ReadLength DEF Numbered

LEMMA AdvancedActs ==
  ASSUME NEW e \in End, NEW R, NEW s \in Sends(e, R), NEW t \in Sends(e, R), Advanced(e, R, s, t)
  PROVE  Acts(e, R, s, t)
<1>1. /\ SameReading(s, t) /\ s.written <= t.written /\ t.written + t.left = s.written + s.left
      /\ (s.state \in Connected => t.state \in Connected \cup {"FIN_SENT"})
      /\ (s.state \notin Connected =>
            /\ t.written = s.written /\ t.seq_nr = s.seq_nr
            /\ \/ t.state = s.state
               \/ s.state = "FIN_SENT" /\ t.state = "DESTROY" /\ 1..Total(e, s) \subseteq R)
  BY DEF Advanced
<1>2. /\ Total(e, s) \in Nat /\ s.written \in Nat /\ Total(e, t) \in Nat /\ t.written \in Nat
      /\ Total(e, t) \in {t.written, t.written + 1}
      /\ Got(Peer(e), s) \in Nat /\ Len(s.read) \in Nat
  BY StreamNumbers
<1>3. Got(Peer(e), t) = Got(Peer(e), s) /\ Has(Peer(e), t) = Has(Peer(e), s)
  BY <1>1 DEF SameReading, Got, Has
<1>4. CASE s.state \in Connected
  <2>1. Total(e, s) = s.written
    <3>1. SendWindow(e, R, s)
      BY SendsSocket
    <3> QED BY <1>4, <3>1 DEF SendWindow
  <2>2. Total(e, s) <= Total(e, t) /\ Total(e, s) # s.written + 1
    BY <1>1, <1>2, <2>1
  <2>3. Moved(e, s, t)
    BY <1>1, <1>2, <1>3, <2>2 DEF Moved
  <2>4. Talks(s, t)
    BY <1>1, <1>2, <1>4 DEF Talks, SameReading
  <2> QED BY <1>1, <2>3, <2>4 DEF Acts
<1>5. CASE s.state \notin Connected
  <2>1. Total(e, t) = Total(e, s)
    BY <1>1, <1>5 DEF Total
  <2>2. Moved(e, s, t)
    BY <1>1, <1>2, <1>3, <1>5, <2>1 DEF Moved
  <2>3. Rests(e, R, s, t)
    BY <1>1, <1>5 DEF Rests, SameReading
  <2> QED BY <1>1, <2>2, <2>3 DEF Acts
<1> QED BY <1>4, <1>5

(* Sending leaves the receiving half as it is.                             *)
LEMMA AdvancedReading ==
  ASSUME NEW e, NEW R, NEW f, NEW T, NEW w, Numbered(T, w),
         NEW s, NEW t, Advanced(e, R, s, t), Reading(f, T, w, s), Idle(s)
  PROVE  Reading(f, T, w, t) /\ Idle(t)
<1>1. /\ SameReading(s, t)
      /\ (s.state \in Connected => t.state \in Connected \cup {"FIN_SENT"})
      /\ (s.state \notin Connected =>
            t.state = s.state \/ (s.state = "FIN_SENT" /\ t.state = "DESTROY"))
  BY DEF Advanced
<1>2. /\ t.state \in Connected => s.state \in Connected
      /\ t.state = "DESTROY_DELAY" => s.state = "DESTROY_DELAY"
      /\ s.state \in {"RESET", "DESTROY", "GONE"} => t.state = s.state
  BY <1>1 DEF Connected
<1>3. Got(f, t) = Got(f, s)
  BY <1>1 DEF SameReading, Got
<1>4. Idle(t) /\ UpToDate(f, T, w, t)
  BY <1>1, <1>2, <1>3 DEF Idle, UpToDate, SameReading, Reading
<1>5. Filing(f, T, w, t)
  <2>1. Filing(f, T, w, s)
    BY DEF Reading
  <2>2. CASE t.state \in Connected
    BY <1>1, <1>2, <2>1, <2>2 DEF Filing, SameReading
  <2>3. CASE t.state \notin Connected /\ s.state \notin Connected
    BY <1>1, <2>1, <2>3 DEF Filing, SameReading
  <2>4. CASE t.state \notin Connected /\ s.state \in Connected
    <3>1. \A p \in s.inbuf : \E k \in 1..w : p.seq = At(f, k) /\ (k <= w => p.data = <<k>>)
      BY <2>1, <2>4 DEF Filing
    <3>2. 1..w \subseteq 1..T
      BY DEF Numbered
    <3> QED BY <1>1, <2>4, <3>1, <3>2 DEF Filing, SameReading
  <2> QED BY <2>2, <2>3, <2>4
<1> QED BY <1>1, <1>2, <1>3, <1>4, <1>5 DEF Reading, SameReading

(* The sockets of e that are as they should be                             *)
Sane(e, R, T, w) ==
  {s \in Sends(e, R) : s \in Good /\ Reading(Peer(e), T, w, s) /\ Idle(s)}

LEMMA SaneAdvances ==
  ASSUME NEW e \in End, NEW R, NEW T, NEW w, Numbered(T, w), NEW s \in Sane(e, R, T, w),
         NEW t \in Sends(e, R), t \in Good, Advanced(e, R, s, t)
  PROVE  t \in Sane(e, R, T, w) /\ Acts(e, R, s, t)
<1>1. s \in Sends(e, R) /\ Reading(Peer(e), T, w, s) /\ Idle(s)
  BY DEF Sane
<1>2. Acts(e, R, s, t)
  BY <1>1, AdvancedActs
<1>3. Reading(Peer(e), T, w, t) /\ Idle(t)
  BY <1>1, AdvancedReading
<1> QED BY <1>2, <1>3 DEF Sane

LEMMA SaneGrows ==
  ASSUME NEW e \in End, NEW R, NEW T, NEW w, Numbered(T, w), NEW s \in Sane(e, R, T, w),
         NEW t \in Sends(e, R), t \in Good, Grown(s, t)
  PROVE  t \in Sane(e, R, T, w) /\ Acts(e, R, s, t)
BY GrownAdvanced, SaneAdvances

(* What came in and then was read                                          *)
LEMMA ReadActs ==
  ASSUME NEW e \in End, NEW R, NEW s \in Sends(e, R), NEW a \in Sends(e, R), NEW t \in Sends(e, R),
         Advanced(e, R, s, a), a.state \in Connected \cup {"FIN_SENT"}, Later(Peer(e), a, t)
  PROVE  Acts(e, R, s, t)
<1> DEFINE f == Peer(e)
<1>1. Moved(e, s, a) /\ a.written + a.left = s.written + s.left
  BY AdvancedActs DEF Acts
<1>2. SameReading(s, a) /\ s.written <= a.written
      /\ (s.state \notin Connected => a.state = s.state /\ a.written = s.written)
  BY DEF Advanced, Connected
<1>3. /\ SameWriting(a, t) /\ Got(f, a) <= Got(f, t) /\ Has(f, a) \subseteq Has(f, t)
      /\ t.failed = a.failed /\ Len(a.read) <= Len(t.read)
      /\ (t.state = a.state /\ t.eof = a.eof) \/ (a.state \in Connected /\ t.state = "DESTROY_DELAY")
      /\ (a.state \notin Connected => t.read = a.read)
  BY DEF Later
<1>4. Total(e, t) = Total(e, a) /\ t.written = a.written /\ t.left = a.left
  BY <1>3 DEF SameWriting, Total
<1>5. Got(f, a) = Got(f, s) /\ Has(f, a) = Has(f, s) /\ a.read = s.read /\ a.eof = s.eof
      /\ a.failed = s.failed
  BY <1>2 DEF SameReading, Got, Has
<1>6. Moved(e, s, t)
  BY <1>1, <1>3, <1>4, <1>5 DEF Moved
<1>7. CASE s.state \in Connected
  <2>1. Talks(s, t)
    BY <1>2, <1>3, <1>4, <1>5, <1>7 DEF Talks
  <2> QED BY <1>1, <1>4, <1>6, <2>1 DEF Acts
<1>8. CASE s.state \notin Connected
  <2>1. Rests(e, R, s, t)
    BY <1>2, <1>3, <1>4, <1>5, <1>8 DEF Rests
  <2> QED BY <1>1, <1>4, <1>6, <2>1 DEF Acts
<1> QED BY <1>7, <1>8

LEMMA ProcessIncomingActs ==
  ASSUME NEW e \in End, NEW R \in SUBSET (1..(Modulus - 1)), NEW T, NEW w, Numbered(T, w),
         NEW s \in Sane(e, R, T, w), NEW m \in Message, m.type # "RESET",
         Known(e, R, m.ack, m.sack), Arriving(Peer(e), T, w, s, m), NEW window \in 0..Window
  PROVE  LET t == ProcessIncoming(s, m, window) IN t \in Sane(e, R, T, w) /\ Acts(e, R, s, t)
<1> DEFINE a == Acknowledge(s, m, window)
           b == ScheduleAck(s)
           c == Accept(a, m)
           t == ProcessIncoming(s, m, window)
           f == Peer(e)
<1>1. /\ s \in Sends(e, R) /\ s \in Good /\ s \in Socket /\ Reading(f, T, w, s) /\ Idle(s) /\ f \in End
  BY GoodSocket, PeerIn DEF Sane
<1>2. \/ t \in {s, b, a}
      \/ /\ t = c /\ m.type # "STATE" /\ a.state \in Connected \cup {"FIN_SENT"}
         /\ ~(Ahead(s, m) >= ReorderMax)
  BY DEF ProcessIncoming
<1>3. a \in Sends(e, R) /\ a \in Good /\ Advanced(e, R, s, a)
  BY <1>1, AcknowledgeSends
<1>4. b \in Sends(e, R) /\ b \in Good /\ Kept(s, b)
  BY <1>1, ScheduleAckSends
<1> HIDE DEF a, b, c, t
<1>5. CASE t = s
  <2>1. Kept(s, s)
    BY DEF Kept
  <2>2. Grown(s, s)
    BY <1>1, <2>1, KeptGrown
  <2> QED BY <1>1, <1>5, <2>2, SaneGrows DEF t
<1>6. CASE t = b
  <2>1. Grown(s, b)
    BY <1>1, <1>4, KeptGrown
  <2> QED BY <1>4, <1>6, <2>1, SaneGrows DEF t
<1>7. CASE t = a
  BY <1>3, <1>7, SaneAdvances DEF t
<1>8. CASE /\ t = c /\ m.type # "STATE" /\ a.state \in Connected \cup {"FIN_SENT"}
           /\ ~(Ahead(s, m) >= ReorderMax)
  <2>1. Reading(f, T, w, a) /\ Idle(a)
    BY <1>1, <1>3, AdvancedReading
  <2>2. Arriving(f, T, w, a, m)
    <3>1. Has(f, a) = Has(f, s)
      BY <1>3 DEF Advanced, SameReading, Has, Got
    <3> QED BY <3>1 DEF Arriving
  <2>3. m.type \in {"DATA", "FIN"}
    BY <1>8 DEF Message
  <2>4. Ahead(a, m) < ReorderMax
    <3>1. Ahead(a, m) = Ahead(s, m)
      BY <1>3 DEF Advanced, SameReading, Ahead
    <3>2. Ahead(s, m) \in Number
      <4>1. m.seq \in Int /\ s.ack_nr \in Int
        BY <1>1 DEF Message, Socket, Number
      <4>2. m.seq - s.ack_nr - 1 \in Int
        BY <4>1
      <4> QED BY <4>2, ModNumber DEF Ahead
    <3> QED BY <1>8, <3>1, <3>2, SeqAssumption DEF Number
  <2>5. c \in Sends(e, R) /\ c \in Good /\ Reading(f, T, w, c) /\ Idle(c) /\ Later(f, a, c)
    BY <1>3, <1>8, <2>1, <2>2, <2>3, <2>4, AcceptSends DEF c
  <2>6. Acts(e, R, s, c)
    BY <1>1, <1>3, <1>8, <2>5, ReadActs
  <2> QED BY <1>8, <2>5, <2>6 DEF Sane, t
<1> QED BY <1>2, <1>5, <1>6, <1>7, <1>8

(* A socket that fails, is reset or is deleted                             *)
LEMMA EndedActs ==
  ASSUME NEW e \in End, NEW R, NEW T, NEW w, Numbered(T, w), NEW s \in Sane(e, R, T, w),
         NEW t \in Good, t.outbuf = s.outbuf, t.sent = s.sent, t.seq_nr = s.seq_nr,
         t.written = s.written, t.left = s.left,
         t.ack_nr = s.ack_nr, t.inbuf = s.inbuf, t.got_fin = s.got_fin, t.eof_pkt = s.eof_pkt,
         t.read = s.read, t.eof = s.eof, t.state \in {"RESET", "DESTROY", "GONE"},
         t.failed \/ (t.failed = s.failed /\ s.state \in {"DESTROY", "DESTROY_DELAY"} /\ t.state = "GONE")
  PROVE  t \in Sane(e, R, T, w) /\ Acts(e, R, s, t)
<1> DEFINE f == Peer(e)
<1>1. s \in Sends(e, R) /\ Reading(f, T, w, s) /\ f \in End /\ s \in Socket /\ t \in Socket
  BY PeerIn, SendsSocket, GoodSocket DEF Sane
<1>2. SendWindow(e, R, s) /\ \A m \in s.sent : Valid(e, R, s, m)
  BY <1>1, SendsSocket
<1>3. t.state \notin Connected /\ t.state \notin {"FIN_SENT", "DESTROY_DELAY"}
  BY DEF Connected
<1>4. Total(e, t) = Total(e, s) /\ Base(e, t) = Base(e, s) /\ Got(f, t) = Got(f, s) /\ Has(f, t) = Has(f, s)
  BY DEF Total, Base, Got, Has
<1>5. /\ Total(e, s) \in Nat /\ s.written \in Nat /\ Got(f, s) \in Nat /\ T \in {w, w + 1} /\ w \in Nat
  BY <1>1, StreamNumbers DEF Numbered
<1>6. SendWindow(e, R, t)
  BY <1>2, <1>3, <1>4 DEF SendWindow
<1>7. \A m \in t.sent : Valid(e, R, t, m)
  BY <1>2, <1>4 DEF Valid, Acked
<1>8. t \in Sends(e, R)
  BY <1>1, <1>6, <1>7 DEF Sends
<1>9. Filing(f, T, w, t)
  <2>1. 1..w \subseteq 1..T
    BY <1>5
  <2>2. Filing(f, T, w, s)
    BY <1>1 DEF Reading
  <2>3. ASSUME NEW p \in s.inbuf
        PROVE \E k \in 1..T : p.seq = At(f, k) /\ (k <= w => p.data = <<k>>)
    BY <2>1, <2>2 DEF Filing
  <2> QED BY <1>3, <2>3 DEF Filing
<1>10. Reading(f, T, w, t)
  BY <1>1, <1>3, <1>4, <1>9 DEF Reading, UpToDate
<1>11. Idle(t)
  BY <1>3 DEF Idle
<1>12. Moved(e, s, t)
  BY <1>4, <1>5 DEF Moved
<1>13. Fails(s, t) \/ Rests(e, R, s, t)
  BY DEF Fails, Rests, Connected
<1> QED BY <1>8, <1>10, <1>11, <1>12, <1>13 DEF Acts, Sane

-----------------------------------------------------------------------------
(* The connection                                                          *)

LEMMA Peers ==
  ASSUME NEW e \in End
  PROVE  Peer(e) \in End /\ Peer(e) # e /\ Peer(Peer(e)) = e /\ End = {e, Peer(e)}
<1>1. \E f \in End : f # e
  <2> SUFFICES ASSUME \A f \in End : f = e PROVE FALSE
    OBVIOUS
  <2>1. End = {e}
    OBVIOUS
  <2> QED BY <2>1, FS_Singleton, EndAssumption
<1>2. Peer(e) \in End /\ Peer(e) # e
  BY <1>1 DEF Peer
<1> DEFINE f == Peer(e)
           g == Peer(f)
<1>3. g \in End /\ g # f
  BY <1>2 DEF Peer
<1> HIDE DEF f, g
<1>4. End \ {e} = {f}
  <2>1. IsFiniteSet(End \ {e}) /\ Cardinality(End \ {e}) = 2 - 1
    BY EndAssumption, FS_RemoveElement
  <2>2. f \in End \ {e}
    BY <1>2 DEF f
  <2>3. IsFiniteSet((End \ {e}) \ {f}) /\ Cardinality((End \ {e}) \ {f}) = 2 - 1 - 1
    BY <2>1, <2>2, FS_RemoveElement
  <2>4. (End \ {e}) \ {f} = {}
    BY <2>3, FS_EmptySet
  <2> QED BY <2>2, <2>4
<1> QED BY <1>2, <1>3, <1>4 DEF f, g

LEMMA MovedValid ==
  ASSUME NEW e \in End, NEW R, NEW Q, R \subseteq Q, NEW s \in Sends(e, R), NEW t \in Sends(e, R),
         Moved(e, s, t), NEW m, Valid(e, R, s, m)
  PROVE  Valid(e, Q, t, m)
<1>1. /\ s.written \in Nat /\ t.written \in Nat /\ s \in Socket /\ t \in Socket /\ Peer(e) \in End
  BY StreamNumbers, SendsSocket, PeerIn
<1>2. /\ s.written <= t.written
      /\ (Total(e, s) = s.written + 1 => t.written = s.written /\ Total(e, t) = Total(e, s))
      /\ Got(Peer(e), s) <= Got(Peer(e), t) /\ Has(Peer(e), s) \subseteq Has(Peer(e), t)
  BY DEF Moved
<1>3. m.type = "DATA" => \E k \in 1..t.written : m.seq = At(e, k) /\ m.data = <<k>>
  <2>1. 1..s.written \subseteq 1..t.written
    BY <1>1, <1>2
  <2> QED BY <2>1 DEF Valid
<1>4. m.type = "FIN" => /\ m.seq = At(e, t.written + 1) /\ m.data = << >>
                        /\ Total(e, t) = t.written + 1 /\ 1..t.written \subseteq Q
  BY <1>2 DEF Valid
<1>5. m.type # "RESET" => Acked(Peer(e), t, m)
  <2>1. m.type # "RESET" => Acked(Peer(e), s, m)
    BY DEF Valid
  <2> QED BY <1>1, <1>2, <2>1, AckedMore
<1> QED BY <1>3, <1>4, <1>5 DEF Valid

(* The peer has more, and wrote more.                                      *)
LEMMA ReadingMore ==
  ASSUME NEW f \in End, NEW T, NEW w, Numbered(T, w), NEW U, NEW v, Numbered(U, v), w <= v, T <= U,
         T = w + 1 => U = T /\ v = w, NEW s \in Socket, Reading(f, T, w, s)
  PROVE  Reading(f, U, v, s)
<1>1. w \in Nat /\ v \in Nat /\ T \in {w, w + 1} /\ U \in {v, v + 1}
  BY DEF Numbered
<1>2. CASE T = w + 1
  BY <1>2
<1>3. CASE T = w /\ T # w + 1
  <2>1. /\ Got(f, s) <= T /\ Filing(f, T, w, s) /\ UpToDate(f, T, w, s)
        /\ ~s.got_fin /\ Len(s.read) <= w /\ s.read = Numbers(Len(s.read))
        /\ ~s.eof /\ s.state # "DESTROY_DELAY"
        /\ (s.failed => s.state \in {"RESET", "DESTROY", "GONE"})
    BY <1>3 DEF Reading
  <2>2. Got(f, s) \in Nat /\ Len(s.read) \in Nat
    <3>1. s.ack_nr \in Number
      BY DEF Socket
    <3> QED BY <3>1, GotIs, ReadLength
  <2>3. Filing(f, U, v, s)
    <3>1. ASSUME NEW p \in s.inbuf
          PROVE \E k \in 1..(IF s.state \in Connected THEN v ELSE U) :
                  p.seq = At(f, k) /\ (k <= v => p.data = <<k>>)
      <4>1. PICK k \in 1..w : p.seq = At(f, k) /\ (k <= w => p.data = <<k>>)
        BY <1>3, <2>1 DEF Filing
      <4>2. p.data = <<k>>
        BY <1>1, <4>1
      <4>3. k \in 1..(IF s.state \in Connected THEN v ELSE U)
        BY <1>1
      <4> QED BY <4>1, <4>2, <4>3
    <3> QED BY <3>1 DEF Filing
  <2>4. UpToDate(f, U, v, s)
    BY <2>1 DEF UpToDate
  <2>5. Got(f, s) <= U /\ Len(s.read) <= v
    BY <1>1, <1>3, <2>1, <2>2
  <2> QED BY <2>1, <2>3, <2>4, <2>5 DEF Reading
<1> QED BY <1>1, <1>2, <1>3

LEMMA SaneMore ==
  ASSUME NEW e \in End, NEW R, NEW Q, R \subseteq Q,
         NEW T, NEW w, Numbered(T, w), NEW U, NEW v, Numbered(U, v), w <= v, T <= U,
         T = w + 1 => U = T /\ v = w, NEW s \in Sane(e, R, T, w)
  PROVE  s \in Sane(e, Q, U, v)
<1>1. /\ s \in Sends(e, R) /\ s \in Good /\ s \in Socket /\ Reading(Peer(e), T, w, s) /\ Idle(s)
      /\ Peer(e) \in End
  BY GoodSocket, PeerIn DEF Sane
<1>2. SendWindow(e, R, s) /\ \A m \in s.sent : Valid(e, R, s, m)
  BY <1>1, SendsSocket
<1>3. SendWindow(e, Q, s)
  BY <1>2 DEF SendWindow, Placed
<1>4. \A m \in s.sent : Valid(e, Q, s, m)
  BY <1>2 DEF Valid
<1>5. Reading(Peer(e), U, v, s)
  BY <1>1, ReadingMore
<1> QED BY <1>1, <1>3, <1>4, <1>5 DEF Sane, Sends

(* What the peer of e has of the stream of e                               *)
Arrived(e) == Has(e, sock[Peer(e)])

Right(e) ==
  Sane(e, Arrived(e), Total(Peer(e), sock[Peer(e)]), sock[Peer(e)].written)

Delivery ==
  /\ Sound
  /\ \A e \in End :
       /\ sock[e] \in Right(e) /\ sock[e].sent = {}
       /\ \A m \in net[Peer(e)] : Valid(e, Arrived(e), sock[e], m)

LEMMA DeliveryOf ==
  ASSUME Delivery, NEW e \in End
  PROVE  /\ sock[e] \in Right(e) /\ sock[e] \in Sends(e, Arrived(e)) /\ sock[e] \in Good
         /\ sock[e] \in Socket /\ sock[e].sent = {}
         /\ Reading(Peer(e), Total(Peer(e), sock[Peer(e)]), sock[Peer(e)].written, sock[e]) /\ Idle(sock[e])
         /\ Numbered(Total(e, sock[e]), sock[e].written)
         /\ \A m \in net[Peer(e)] : Valid(e, Arrived(e), sock[e], m)
         /\ Arrived(e) \in SUBSET (1..(Modulus - 1))
<1>1. sock[e] \in Right(e) /\ sock[e].sent = {} /\ \A m \in net[Peer(e)] : Valid(e, Arrived(e), sock[e], m)
  BY DEF Delivery
<1>2. /\ sock[e] \in Sends(e, Arrived(e)) /\ sock[e] \in Good
      /\ Reading(Peer(e), Total(Peer(e), sock[Peer(e)]), sock[Peer(e)].written, sock[e]) /\ Idle(sock[e])
  BY <1>1 DEF Right, Sane
<1>3. sock[e] \in Socket /\ Numbered(Total(e, sock[e]), sock[e].written)
  BY <1>2, GoodSocket, StreamNumbers
<1>4. Arrived(e) \in SUBSET (1..(Modulus - 1))
  <2> DEFINE r == sock[Peer(e)]
  <2>1. r.ack_nr \in Number
    <3>1. r \in Good
      BY PeerIn DEF Delivery, Sound
    <3>2. r \in Socket
      BY <3>1, GoodSocket
    <3> QED BY <3>2 DEF Socket
  <2>2. Got(e, r) \in 0..(Modulus - 1)
    BY <2>1, GotIs
  <2>3. 1..Got(e, r) \subseteq 1..(Modulus - 1)
    BY <2>2, SeqAssumption
  <2> QED BY <2>3 DEF Arrived, Has
<1> QED BY <1>1, <1>2, <1>3, <1>4

LEMMA PeerNumbered ==
  ASSUME Delivery, NEW e \in End
  PROVE  Numbered(Total(Peer(e), sock[Peer(e)]), sock[Peer(e)].written)
BY PeerIn, DeliveryOf

(* A socket whose packets were handed to the network                       *)
LEMMA SentAll ==
  ASSUME NEW e \in End, NEW R, NEW T, NEW w, NEW s \in Sane(e, R, T, w)
  PROVE  LET t == [s EXCEPT !.sent = {}]
         IN  t \in Sane(e, R, T, w) /\ Kept(s, t) /\ t.sent = {}
<1> DEFINE t == [s EXCEPT !.sent = {}]
<1>1. s \in Sends(e, R) /\ s \in Good /\ s \in Socket /\ Reading(Peer(e), T, w, s) /\ Idle(s)
  BY GoodSocket DEF Sane
<1>2. t \in Socket /\ Kept(s, t) /\ t.sent = {} /\ t.outbuf = s.outbuf /\ SameBuffers(s, t)
  BY <1>1 DEF Socket, Kept, SameBuffers, SameReceiver
<1> HIDE DEF t
<1>3. t \in Good
  BY <1>1, <1>2, SameBuffersGood
<1>4. Len(t.outbuf) = Len(s.outbuf)
      /\ \A i \in 1..Len(s.outbuf) : Placed(R, s.written, Base(e, s) + i, t.outbuf[i])
  <2>1. SendWindow(e, R, s)
    BY <1>1, SendsSocket
  <2> QED BY <1>2, <2>1 DEF SendWindow
<1>5. t \in Sends(e, R)
  BY <1>1, <1>2, <1>4, PlacesSend
<1>6. Reading(Peer(e), T, w, t) /\ Idle(t)
  BY <1>1, <1>2, KeptReading
<1> QED BY <1>2, <1>3, <1>5, <1>6 DEF Sane, t

(* What end e may make of its socket                                       *)
Acting(e) == {s \in Right(e) : Acts(e, Arrived(e), sock[e], s)}

LEMMA StepDelivers ==
  ASSUME Delivery, NEW e \in End, NEW s \in Acting(e), NEW rest \in [End -> SUBSET Message],
         \A x \in End : rest[x] \subseteq net[x], Step(e, s, rest)
  PROVE  Delivery'
<1> DEFINE f == Peer(e)
           R == Arrived(e)
           Q == Arrived(f)
           t == [s EXCEPT !.sent = {}]
           T == Total(f, sock[f])
           w == sock[f].written
           U == Total(e, t)
           v == t.written
<1>1. f \in End /\ f # e /\ Peer(f) = e
  BY Peers
<1>2. s \in Sane(e, R, T, w) /\ s \in Sends(e, R) /\ s \in Good /\ Moved(e, sock[e], s)
  BY DEF Acting, Right, Sane, Acts
<1>3. t \in Sane(e, R, T, w) /\ t \in Sends(e, R) /\ Kept(s, t) /\ t.sent = {}
  <2>1. t \in Sane(e, R, T, w) /\ Kept(s, t) /\ t.sent = {}
    BY <1>2, SentAll
  <2> QED BY <2>1 DEF Sane
<1>4. PICK kept \in SUBSET s.sent : sock' = [sock EXCEPT ![e] = t] /\ net' = [rest EXCEPT ![f] = @ \cup kept]
  BY DEF Step
<1>5. Sound'
  BY <1>2, StepSound DEF Delivery
<1>6. /\ sock[e] \in Sends(e, R) /\ \A m \in net[f] : Valid(e, R, sock[e], m)
  BY DeliveryOf
<1>7. /\ sock[f] \in Sane(f, Q, Total(e, sock[e]), sock[e].written) /\ sock[f].sent = {}
      /\ \A m \in net[e] : Valid(f, Q, sock[f], m)
  BY <1>1 DEF Delivery, Right
<1> HIDE DEF t
<1>8. sock'[e] = t /\ sock'[f] = sock[f] /\ net'[f] = rest[f] \cup kept /\ net'[e] = rest[e]
  BY <1>1, <1>4 DEF Delivery, Sound
<1>9. Total(e, t) = Total(e, s) /\ Got(f, t) = Got(f, s) /\ Has(f, t) = Has(f, s) /\ t.written = s.written
  BY <1>3, KeptSame
<1>10. Moved(e, sock[e], t)
  BY <1>2, <1>9 DEF Moved
<1>11. Arrived(e)' = R /\ Arrived(f)' = Has(f, t) /\ Q \subseteq Has(f, t)
  BY <1>1, <1>8, <1>10 DEF Arrived, Moved
<1>12. Right(e)' = Sane(e, R, T, w) /\ Right(f)' = Sane(f, Has(f, t), U, v)
  BY <1>1, <1>8, <1>11 DEF Right
<1>13. sock'[f] \in Right(f)'
  <2>1. Numbered(Total(e, sock[e]), sock[e].written) /\ Numbered(U, v)
    BY <1>3, <1>6, StreamNumbers
  <2>2. /\ sock[e].written <= v /\ Total(e, sock[e]) <= U
        /\ Total(e, sock[e]) = sock[e].written + 1 => v = sock[e].written /\ U = Total(e, sock[e])
    BY <1>10 DEF Moved
  <2> HIDE DEF U, v, Q, f
  <2>3. sock[f] \in Sane(f, Has(f, t), U, v)
    BY <1>1, <1>7, <1>11, <2>1, <2>2, SaneMore
  <2> QED BY <1>8, <1>12, <2>3
<1>14. \A m \in net'[f] : Valid(e, R, t, m)
  <2>1. ASSUME NEW m \in rest[f] PROVE Valid(e, R, t, m)
    <3>1. Valid(e, R, sock[e], m)
      BY <1>1, <1>6, <2>1
    <3> HIDE DEF R
    <3> QED BY <1>3, <1>6, <1>10, <3>1, MovedValid
  <2>2. ASSUME NEW m \in kept PROVE Valid(e, R, t, m)
    <3>1. Valid(e, R, s, m)
      BY <1>2, <2>2, SendsSocket
    <3> QED BY <1>3, <3>1, KeptValid
  <2> QED BY <1>8, <2>1, <2>2
<1>15. \A m \in net'[e] : Valid(f, Has(f, t), sock[f], m)
  <2>1. ASSUME NEW m \in net[e] PROVE Valid(f, Has(f, t), sock[f], m)
    <3>1. Valid(f, Q, sock[f], m)
      BY <1>7, <2>1
    <3> QED BY <1>11, <3>1 DEF Valid
  <2> QED BY <1>8, <2>1
<1>16. \A x \in End : x = e \/ x = f
  BY Peers DEF f
<1>17. ASSUME NEW x \in End
       PROVE  /\ sock'[x] \in Right(x)' /\ sock'[x].sent = {}
              /\ \A m \in net'[Peer(x)] : Valid(x, Arrived(x)', sock'[x], m)
  <2>1. CASE x = e
    BY <1>3, <1>8, <1>11, <1>12, <1>14, <2>1
  <2>2. CASE x = f
    <3>1. sock'[f] \in Right(f)' /\ sock'[f].sent = {} /\ Peer(f) = e
      BY <1>1, <1>7, <1>8, <1>13
    <3>2. \A m \in net'[e] : Valid(f, Arrived(f)', sock'[f], m)
      BY <1>8, <1>11, <1>15
    <3> HIDE DEF f
    <3> QED BY <2>2, <3>1, <3>2
  <2> QED BY <1>16, <2>1, <2>2
<1> QED BY <1>5, <1>17 DEF Delivery

-----------------------------------------------------------------------------
(* Actions                                                                 *)

LEMMA SaneKept ==
  ASSUME Delivery, NEW e \in End, NEW t \in Sends(e, Arrived(e)), t \in Good, Kept(sock[e], t)
  PROVE  t \in Acting(e)
<1>1. Grown(sock[e], t)
  BY DeliveryOf, KeptGrown
<1> QED BY <1>1, DeliveryOf, PeerNumbered, SaneGrows DEF Acting, Right

LEMMA SaneGrown ==
  ASSUME Delivery, NEW e \in End, NEW t \in Sends(e, Arrived(e)), t \in Good, Grown(sock[e], t)
  PROVE  t \in Acting(e)
BY DeliveryOf, PeerNumbered, SaneGrows DEF Acting, Right

(* The packets in the reorder buffer of a connected socket are its peer's. *)
LEMMA ReadingFiled ==
  ASSUME NEW f, NEW T, NEW w, Numbered(T, w), NEW s, Reading(f, T, w, s) PROVE Filed(f, s)
<1>1. 1..w \subseteq 1..(Modulus - 1) /\ 1..T \subseteq 1..(Modulus - 1)
  BY SeqAssumption DEF Numbered
<1> QED BY <1>1 DEF Reading, Filing, Filed

LEMMA FlushedActs ==
  ASSUME Delivery, NEW e \in End
  PROVE  LET s == FlushPackets(sock[e])
             t == Writable(s)
         IN  /\ s \in Sends(e, Arrived(e)) /\ s \in Good /\ s \in Socket /\ Kept(sock[e], s)
             /\ t \in Sends(e, Arrived(e)) /\ t \in Good /\ t \in Socket /\ Grown(sock[e], t)
<1> DEFINE s == FlushPackets(sock[e])
           t == Writable(s)
<1>1. sock[e] \in Sends(e, Arrived(e)) /\ sock[e] \in Good /\ sock[e] \in Socket
  BY DeliveryOf
<1>2. s \in Sends(e, Arrived(e)) /\ s \in Good /\ Kept(sock[e], s)
  BY <1>1, FlushPacketsSends
<1> HIDE DEF s
<1>3. t \in Sends(e, Arrived(e)) /\ t \in Good /\ Grown(s, t)
  BY <1>2, WritableSends
<1> HIDE DEF t
<1>4. s \in Socket /\ t \in Socket
  BY <1>2, <1>3, GoodSocket
<1>5. Grown(sock[e], s)
  BY <1>1, <1>2, KeptGrown
<1>6. Grown(sock[e], t)
  BY <1>1, <1>3, <1>4, <1>5, GrownTrans
<1> QED BY <1>2, <1>3, <1>4, <1>6 DEF s, t

LEMMA StartActs ==
  ASSUME Delivery, NEW e \in End, sock[e].state \in Connected
  PROVE  Write(sock[e]) \in Acting(e) /\ Close(sock[e]) \in Acting(e)
<1>1. sock[e] \in Sends(e, Arrived(e)) /\ sock[e] \in Good
  BY DeliveryOf
<1>2. /\ Write(sock[e]) \in Sends(e, Arrived(e)) /\ Write(sock[e]) \in Good /\ Grown(sock[e], Write(sock[e]))
  BY <1>1, WriteSends
<1>3. /\ Close(sock[e]) \in Sends(e, Arrived(e)) /\ Close(sock[e]) \in Good /\ Grown(sock[e], Close(sock[e]))
  BY <1>1, CloseSends
<1> QED BY <1>2, <1>3, SaneGrown

LEMMA DeferredAckActs ==
  ASSUME Delivery, NEW e \in End PROVE SendAck(sock[e]) \in Acting(e)
<1>1. Filed(Peer(e), sock[e])
  BY DeliveryOf, PeerNumbered, ReadingFiled
<1>2. SendAck(sock[e]) \in Sends(e, Arrived(e)) /\ SendAck(sock[e]) \in Good /\ Kept(sock[e], SendAck(sock[e]))
  BY <1>1, DeliveryOf, SendAckSends
<1> QED BY <1>2, SaneKept

LEMMA KeepAliveActs ==
  ASSUME Delivery, NEW e \in End
  PROVE  KeptAlive(Writable(FlushPackets(sock[e]))) \in Acting(e)
<1> DEFINE s == Writable(FlushPackets(sock[e]))
           t == KeptAlive(s)
<1>1. s \in Sends(e, Arrived(e)) /\ s \in Good /\ s \in Socket /\ Grown(sock[e], s)
  BY FlushedActs
<1> HIDE DEF s
<1>2. Filed(Peer(e), s)
  <2>1. Filed(Peer(e), sock[e])
    BY DeliveryOf, PeerNumbered, ReadingFiled
  <2> QED BY <1>1, <2>1 DEF Filed, Grown, SameReading
<1>3. t \in Sends(e, Arrived(e)) /\ t \in Good /\ Kept(s, t)
  BY <1>1, <1>2, KeptAliveSends
<1> HIDE DEF t
<1>4. Grown(sock[e], t)
  <2>1. t \in Socket /\ sock[e] \in Socket
    BY <1>3, GoodSocket, DeliveryOf
  <2>2. Grown(s, t)
    BY <1>1, <1>3, KeptGrown
  <2> QED BY <1>1, <2>1, <2>2, GrownTrans
<1>5. t \in Acting(e)
  BY <1>3, <1>4, SaneGrown
<1> QED BY <1>5 DEF s, t

(* A socket that ends in place                                             *)
Ended(s, state, failed) == [s EXCEPT !.state = state, !.failed = failed]

LEMMA EndActs ==
  ASSUME Delivery, NEW e \in End, NEW s \in Sends(e, Arrived(e)), s \in Good, Kept(sock[e], s),
         NEW state \in {"RESET", "DESTROY", "GONE"}, NEW failed \in BOOLEAN,
         failed \/ (failed = s.failed /\ s.state \in {"DESTROY", "DESTROY_DELAY"} /\ state = "GONE")
  PROVE  Ended(s, state, failed) \in Acting(e)
<1> DEFINE t == Ended(s, state, failed)
           T == Total(Peer(e), sock[Peer(e)])
           w == sock[Peer(e)].written
<1>1. s \in Socket /\ sock[e] \in Socket /\ Numbered(T, w)
  BY GoodSocket, DeliveryOf, PeerNumbered
<1>2. s \in Right(e) /\ Acts(e, Arrived(e), sock[e], s)
  BY SaneKept DEF Acting
<1>3. /\ t \in Socket /\ SameBuffers(s, t)
      /\ t.outbuf = s.outbuf /\ t.sent = s.sent /\ t.seq_nr = s.seq_nr
      /\ t.written = s.written /\ t.left = s.left
      /\ t.ack_nr = s.ack_nr /\ t.inbuf = s.inbuf /\ t.got_fin = s.got_fin /\ t.eof_pkt = s.eof_pkt
      /\ t.read = s.read /\ t.eof = s.eof /\ t.state = state /\ t.failed = failed
  <2>1. state \in State /\ state \notin Connected
    BY DEF State, Connected
  <2>2. t \in Socket
    BY <1>1, <2>1 DEF Socket, Ended
  <2>3. /\ t.outbuf = s.outbuf /\ t.sent = s.sent /\ t.seq_nr = s.seq_nr
        /\ t.written = s.written /\ t.left = s.left /\ t.cur_window = s.cur_window
        /\ t.ack_nr = s.ack_nr /\ t.inbuf = s.inbuf /\ t.got_fin = s.got_fin /\ t.eof_pkt = s.eof_pkt
        /\ t.read = s.read /\ t.eof = s.eof /\ t.state = state /\ t.failed = failed
        /\ t.reorder_count = s.reorder_count
    BY <1>1 DEF Socket, Ended
  <2> HIDE DEF t
  <2> QED BY <2>1, <2>2, <2>3 DEF SameBuffers, SameReceiver
<1> HIDE DEF t, T, w
<1>4. t \in Good
  BY <1>3, SameBuffersGood
<1>5. t \in Sane(e, Arrived(e), T, w) /\ Acts(e, Arrived(e), s, t)
  <2>1. s \in Sane(e, Arrived(e), T, w)
    BY <1>2 DEF Right, T, w
  <2>2. t.failed \/ (t.failed = s.failed /\ s.state \in {"DESTROY", "DESTROY_DELAY"} /\ t.state = "GONE")
    BY <1>3
  <2> QED BY <1>1, <1>3, <1>4, <2>1, <2>2, EndedActs
<1>6. Acts(e, Arrived(e), sock[e], t)
  <2>1. Total(e, s) = Total(e, sock[e]) /\ Got(Peer(e), s) = Got(Peer(e), sock[e])
        /\ Has(Peer(e), s) = Has(Peer(e), sock[e])
    BY KeptSame
  <2>2. /\ s.written = sock[e].written /\ s.left = sock[e].left /\ s.state = sock[e].state
        /\ s.read = sock[e].read /\ s.eof = sock[e].eof /\ s.failed = sock[e].failed
    BY DEF Kept
  <2>3. Moved(e, sock[e], t)
    BY <1>5, <2>1, <2>2 DEF Acts, Moved
  <2>4. Talks(sock[e], t) \/ Rests(e, Arrived(e), sock[e], t) \/ Fails(sock[e], t)
    BY <1>5, <2>1, <2>2 DEF Acts, Talks, Rests, Fails
  <2> QED BY <1>5, <2>2, <2>3, <2>4 DEF Acts
<1> QED BY <1>5, <1>6 DEF Acting, Right, T, w, t

(* The ways to end, in one form                                            *)
LEMMA EndForms ==
  ASSUME NEW s \in Socket, NEW unheld
  PROVE  /\ Fail(s, unheld) =
              Ended(s, IF s.state \in Connected THEN "DESTROY" ELSE unheld, TRUE)
         /\ Ended(Fail(s, unheld), "GONE", TRUE) = Ended(s, "GONE", TRUE)
<1> DEFINE state == IF s.state \in Connected THEN "DESTROY" ELSE unheld
<1>1. Fail(s, unheld) = [s EXCEPT !.failed = TRUE, !.state = state]
  BY DEF Fail
<1> HIDE DEF state
<1>2. [s EXCEPT !.failed = TRUE, !.state = state] = Ended(s, state, TRUE)
  BY DEF Socket, Ended
<1>3. Ended([s EXCEPT !.failed = TRUE, !.state = state], "GONE", TRUE) = Ended(s, "GONE", TRUE)
  BY DEF Socket, Ended
<1> QED BY <1>1, <1>2, <1>3 DEF state

LEMMA TimeoutActs ==
  ASSUME Delivery, NEW e \in End
  PROVE  TimedOut(FlushPackets(sock[e])) \subseteq Acting(e)
<1> DEFINE s == FlushPackets(sock[e])
<1>1. s \in Sends(e, Arrived(e)) /\ s \in Good /\ s \in Socket /\ Kept(sock[e], s)
  BY FlushedActs
<1> HIDE DEF s
<1>2. CASE GivesUp(s)
  <2> DEFINE d == Fail(s, "DESTROY")
  <2>a. TimedOut(s) = {[d EXCEPT !.state = "GONE"]}
    BY <1>2 DEF TimedOut
  <2>b. d = Ended(s, IF s.state \in Connected THEN "DESTROY" ELSE "DESTROY", TRUE)
    BY <1>1, EndForms
  <2>c. Ended(d, "GONE", TRUE) = Ended(s, "GONE", TRUE)
    BY <1>1, EndForms
  <2>d. d \in [DOMAIN s -> {d[x] : x \in DOMAIN s}] /\ d.failed = TRUE
    BY <1>1, <2>b DEF Ended, Socket
  <2> HIDE DEF d
  <2>e. [d EXCEPT !.state = "GONE"] = Ended(d, "GONE", TRUE)
    BY <1>1, <2>d DEF Ended, Socket
  <2>1. TimedOut(s) = {Ended(s, "GONE", TRUE)}
    BY <2>a, <2>c, <2>e
  <2>2. "GONE" \in {"RESET", "DESTROY", "GONE"} /\ TRUE \in BOOLEAN
    OBVIOUS
  <2>3. Ended(s, "GONE", TRUE) \in Acting(e)
    BY <1>1, <2>2, EndActs
  <2> QED BY <2>1, <2>3 DEF s
<1>3. ASSUME NEW a \in Congested(s) PROVE Writable(Lost(a)) \in Acting(e)
  <2> DEFINE b == Lost(a)
             c == Writable(b)
  <2>0. Kept(s, s)
    BY DEF Kept
  <2>1. a \in Sends(e, Arrived(e)) /\ a \in Good /\ Kept(s, a)
    BY <1>1, <1>3, <2>0, ShrunkSends DEF Congested
  <2>2. b \in Sends(e, Arrived(e)) /\ b \in Good /\ Kept(a, b)
    BY <2>1, LostSends
  <2> HIDE DEF b
  <2>3. c \in Sends(e, Arrived(e)) /\ c \in Good /\ Grown(b, c)
    BY <2>2, WritableSends
  <2> HIDE DEF c
  <2>4. b \in Socket /\ c \in Socket /\ sock[e] \in Socket
    BY <2>2, <2>3, GoodSocket, DeliveryOf
  <2>5. Kept(sock[e], b)
    BY <1>1, <2>1, <2>2, KeptTrans
  <2>6. Grown(sock[e], c)
    BY <2>3, <2>4, <2>5, KeptGrown, GrownTrans
  <2>7. c \in Acting(e)
    BY <2>3, <2>6, SaneGrown
  <2> QED BY <2>7 DEF b, c
<1>4. CASE ~GivesUp(s)
  BY <1>3, <1>4 DEF TimedOut, s
<1> QED BY <1>2, <1>4

Delayed(s) == [s EXCEPT !.state = "GONE", !.failed = @ \/ Packets(s) > 0]

LEMMA DelayOverActs ==
  ASSUME Delivery, NEW e \in End, sock[e].state = "DESTROY_DELAY"
  PROVE  Delayed(FlushPackets(sock[e])) \in Acting(e)
<1> DEFINE s == FlushPackets(sock[e])
           failed == s.failed \/ Packets(s) > 0
           t == Ended(s, "GONE", failed)
<1>1. s \in Sends(e, Arrived(e)) /\ s \in Good /\ s \in Socket /\ Kept(sock[e], s)
  BY FlushedActs
<1> HIDE DEF s
<1>2. s.state = "DESTROY_DELAY" /\ s.failed \in BOOLEAN
  BY <1>1 DEF Kept, Socket
<1>3. Delayed(s) = t
  BY <1>1 DEF Socket, Ended, Delayed
<1>4. failed \in BOOLEAN /\ (failed \/ failed = s.failed)
  BY <1>2
<1> HIDE DEF failed
<1>5. t \in Acting(e)
  <2>1. "GONE" \in {"RESET", "DESTROY", "GONE"} /\ s.state \in {"DESTROY", "DESTROY_DELAY"}
    BY <1>2
  <2> QED BY <1>1, <1>4, <2>1, EndActs
<1> HIDE DEF t
<1> QED BY <1>3, <1>5 DEF s

LEMMA ReapActs ==
  ASSUME Delivery, NEW e \in End, sock[e].state = "DESTROY"
  PROVE  [sock[e] EXCEPT !.state = "GONE"] \in Acting(e)
<1> DEFINE s == sock[e]
<1>1. s \in Sends(e, Arrived(e)) /\ s \in Good /\ s \in Socket /\ Kept(s, s)
  BY DeliveryOf DEF Kept
<1> HIDE DEF s
<1>2. s.failed \in BOOLEAN /\ s.state \in {"DESTROY", "DESTROY_DELAY"} /\ "GONE" \in {"RESET", "DESTROY", "GONE"}
  BY <1>1 DEF Socket, s
<1>3. Ended(s, "GONE", s.failed) \in Acting(e)
  BY <1>1, <1>2, EndActs DEF s
<1>4. [s EXCEPT !.state = "GONE"] = Ended(s, "GONE", s.failed)
  BY <1>1 DEF Socket, Ended
<1> QED BY <1>3, <1>4 DEF s

LEMMA FailActs ==
  ASSUME Delivery, NEW e \in End, NEW unheld \in {"RESET", "DESTROY"}
  PROVE  Fail(sock[e], unheld) \in Acting(e)
<1> DEFINE s == sock[e]
           state == IF s.state \in Connected THEN "DESTROY" ELSE unheld
<1>1. s \in Sends(e, Arrived(e)) /\ s \in Good /\ s \in Socket /\ Kept(s, s)
  BY DeliveryOf DEF Kept
<1>2. Fail(s, unheld) = Ended(s, state, TRUE)
  BY <1>1, EndForms
<1>3. state \in {"RESET", "DESTROY", "GONE"} /\ TRUE \in BOOLEAN
  OBVIOUS
<1> HIDE DEF s, state
<1>4. Ended(s, state, TRUE) \in Acting(e)
  BY <1>1, <1>3, EndActs DEF s
<1> QED BY <1>2, <1>4 DEF s

LEMMA RefuseActs ==
  ASSUME Delivery, NEW e \in End, NEW sent \in SUBSET Message, \A m \in sent : m.type = "RESET"
  PROVE  [sock[e] EXCEPT !.sent = sent] \in Acting(e)
<1> DEFINE s == sock[e]
           t == [s EXCEPT !.sent = sent]
<1>1. s \in Sends(e, Arrived(e)) /\ s \in Good /\ s \in Socket
  BY DeliveryOf
<1> HIDE DEF s
<1>2. t \in Socket /\ Kept(s, t) /\ t.sent = sent /\ t.outbuf = s.outbuf /\ SameBuffers(s, t)
  BY <1>1 DEF Socket, Kept, SameBuffers, SameReceiver
<1> HIDE DEF t
<1>3. t \in Good
  BY <1>1, <1>2, SameBuffersGood
<1>4. \A m \in t.sent : Valid(e, Arrived(e), s, m)
  BY <1>2 DEF Valid
<1>5. Len(t.outbuf) = Len(s.outbuf)
      /\ \A i \in 1..Len(s.outbuf) : Placed(Arrived(e), s.written, Base(e, s) + i, t.outbuf[i])
  <2>1. SendWindow(e, Arrived(e), s)
    BY <1>1, SendsSocket
  <2> QED BY <1>2, <2>1 DEF SendWindow
<1>6. t \in Sends(e, Arrived(e))
  BY <1>1, <1>2, <1>4, <1>5, PlacesSend
<1> QED BY <1>2, <1>3, <1>6, SaneKept DEF s, t

(* What arrives is what the peer sent, and acknowledges what it has.       *)
LEMMA ReceiveActs ==
  ASSUME Delivery, NEW e \in End, NEW m \in net[e], m.type # "RESET", NEW window \in 0..Window
  PROVE  ProcessIncoming(sock[e], m, window) \in Acting(e)
<1> DEFINE f == Peer(e)
           R == Arrived(e)
           r == sock[f]
           T == Total(f, r)
           w == r.written
           t == ProcessIncoming(sock[e], m, window)
<1>1. f \in End /\ Peer(f) = e
  BY Peers
<1>2. /\ Valid(f, Arrived(f), r, m) /\ Arrived(f) = Has(f, sock[e])
  BY <1>1 DEF Delivery, Arrived
<1>3. m \in Message
  BY DEF Delivery, Sound
<1>4. sock[e] \in Sane(e, R, T, w) /\ R \in SUBSET (1..(Modulus - 1)) /\ Numbered(T, w)
  BY DeliveryOf, PeerNumbered DEF Right
<1>5. Acked(e, r, m)
  BY <1>1, <1>2 DEF Valid
<1>6. Known(e, R, m.ack, m.sack)
  <2> DEFINE G == Got(e, r)
  <2>1. PICK j \in (-1)..G : m.ack = At(e, j)
    BY <1>5 DEF Acked
  <2>2. G \in 0..(Modulus - 1)
    <3>1. r \in Socket
      BY <1>1, DeliveryOf
    <3>2. r.ack_nr \in Number
      BY <3>1 DEF Socket
    <3> QED BY <3>2, GotIs
  <2>3. 1..G \subseteq R
    BY DEF Arrived, Has
  <2> HIDE DEF G, R
  <2>4. j \in (-1)..(Modulus - 1) /\ 1..j \subseteq R
    <3>1. 1..j \subseteq 1..G /\ Modulus \in Int
      BY <2>2, SeqAssumption
    <3> QED BY <2>2, <2>3, <3>1
  <2>5. \A v \in m.sack : \E k \in R : v = At(e, k)
    BY <1>5 DEF Acked, Arrived, R
  <2> QED BY <2>1, <2>4, <2>5 DEF Known
<1>7. Arriving(f, T, w, sock[e], m)
  BY <1>2 DEF Valid, Arriving
<1> HIDE DEF R, T, w
<1>8. t \in Sane(e, R, T, w) /\ Acts(e, R, sock[e], t)
  BY <1>3, <1>4, <1>6, <1>7, ProcessIncomingActs
<1> HIDE DEF t
<1> QED BY <1>8 DEF Acting, Right, R, T, w, t

-----------------------------------------------------------------------------
(* The steps of the specification                                          *)

(* A step of e: its socket acts, and the network loses some of what it had *)
(* for it.                                                                 *)
Turn(e) ==
  \E s \in Acting(e), rest \in [End -> SUBSET Message] :
    (\A x \in End : rest[x] \subseteq net[x]) /\ Step(e, s, rest)

LEMMA TurnOf ==
  ASSUME NEW e \in End, NEW s \in Acting(e), NEW rest \in [End -> SUBSET Message],
         \A x \in End : rest[x] \subseteq net[x], Step(e, s, rest)
  PROVE  Turn(e)
BY DEF Turn

LEMMA QuietTurn ==
  ASSUME Delivery, NEW e \in End, NEW s \in Acting(e), Step(e, s, net)
  PROVE  Turn(e)
<1>1. net \in [End -> SUBSET Message] /\ \A x \in End : net[x] \subseteq net[x]
  BY DEF Delivery, Sound
<1> QED BY <1>1, TurnOf

LEMMA ReceivedRest ==
  ASSUME Delivery, NEW e \in End, NEW m \in net[e], NEW rest \in Received(e, m)
  PROVE  rest \in [End -> SUBSET Message] /\ \A x \in End : rest[x] \subseteq net[x]
BY DEF Delivery, Sound, Received

LEMMA NextTurns ==
  ASSUME Delivery, Next PROVE \E e \in End : Turn(e)
<1>1. ASSUME NEW e \in End, Start(e) PROVE Turn(e)
  <2>1. sock[e].state \in Connected /\ Step(e, Write(sock[e]), net)
    BY <1>1 DEF Start, Connected
  <2>2. Write(sock[e]) \in Acting(e)
    BY <2>1, StartActs
  <2> QED BY <2>1, <2>2, QuietTurn
<1>2. ASSUME NEW e \in End, Stop(e) PROVE Turn(e)
  <2>1. sock[e].state \in Connected /\ Step(e, Close(sock[e]), net)
    BY <1>2 DEF Stop
  <2>2. Close(sock[e]) \in Acting(e)
    BY <2>1, StartActs
  <2> QED BY <2>1, <2>2, QuietTurn
<1>3. ASSUME NEW e \in End, DeferredAck(e) PROVE Turn(e)
  <2>1. Step(e, SendAck(sock[e]), net) /\ SendAck(sock[e]) \in Acting(e)
    BY <1>3, DeferredAckActs DEF DeferredAck
  <2> QED BY <2>1, QuietTurn
<1>4. ASSUME NEW e \in End, Flush(e) PROVE Turn(e)
  <2> DEFINE s == FlushPackets(sock[e])
             t == Writable(s)
  <2>1. t \in Sends(e, Arrived(e)) /\ t \in Good /\ Grown(sock[e], t)
    BY FlushedActs
  <2>2. Step(e, t, net)
    BY <1>4 DEF Flush
  <2> HIDE DEF t
  <2>3. t \in Acting(e)
    BY <2>1, SaneGrown
  <2> QED BY <2>2, <2>3, QuietTurn
<1>5. ASSUME NEW e \in End, Timeout(e) PROVE Turn(e)
  <2>1. TimedOut(FlushPackets(sock[e])) \subseteq Acting(e)
    BY TimeoutActs
  <2>2. PICK t \in TimedOut(FlushPackets(sock[e])) : Step(e, t, net)
    BY <1>5 DEF Timeout
  <2> QED BY <2>1, <2>2, QuietTurn
<1>6. ASSUME NEW e \in End, KeepAlive(e) PROVE Turn(e)
  <2> DEFINE t == KeptAlive(Writable(FlushPackets(sock[e])))
  <2>1. t \in Acting(e)
    BY KeepAliveActs
  <2>2. Step(e, t, net)
    BY <1>6 DEF KeepAlive
  <2> HIDE DEF t
  <2> QED BY <2>1, <2>2, QuietTurn
<1>7. ASSUME NEW e \in End, DelayOver(e) PROVE Turn(e)
  <2> DEFINE t == Delayed(FlushPackets(sock[e]))
  <2>1. sock[e].state = "DESTROY_DELAY" /\ Step(e, t, net)
    BY <1>7 DEF DelayOver, Delayed
  <2>2. t \in Acting(e)
    BY <2>1, DelayOverActs
  <2> HIDE DEF t
  <2> QED BY <2>1, <2>2, QuietTurn
<1>8. ASSUME NEW e \in End, Reap(e) PROVE Turn(e)
  <2> DEFINE t == [sock[e] EXCEPT !.state = "GONE"]
  <2>1. sock[e].state = "DESTROY" /\ Step(e, t, net)
    BY <1>8 DEF Reap
  <2>2. t \in Acting(e)
    BY <2>1, ReapActs
  <2> HIDE DEF t
  <2> QED BY <2>1, <2>2, QuietTurn
<1>9. ASSUME NEW e \in End, NEW m \in net[e], Receive(e, m) PROVE Turn(e)
  <2>1. m.type # "RESET"
    BY <1>9 DEF Receive
  <2>2. PICK w \in Windows \cup {sock[e].max_window}, rest \in Received(e, m) :
          Step(e, ProcessIncoming(sock[e], m, w), rest)
    BY <1>9 DEF Receive
  <2>3. w \in 0..Window
    <3>1. sock[e].max_window \in 0..Window
      BY DeliveryOf DEF Socket
    <3> QED BY <3>1, LimitAssumption
  <2>4. ProcessIncoming(sock[e], m, w) \in Acting(e)
    BY <2>1, <2>3, ReceiveActs
  <2>5. rest \in [End -> SUBSET Message] /\ \A x \in End : rest[x] \subseteq net[x]
    BY ReceivedRest
  <2> QED BY <2>2, <2>4, <2>5, TurnOf
<1>10. ASSUME NEW e \in End, NEW m \in net[e], ReceiveReset(e, m) PROVE Turn(e)
  <2> DEFINE unheld == IF sock[e].state = "FIN_SENT" THEN "DESTROY" ELSE "RESET"
  <2>1. PICK rest \in Received(e, m) : Step(e, Fail(sock[e], unheld), rest)
    BY <1>10 DEF ReceiveReset
  <2>2. unheld \in {"RESET", "DESTROY"}
    OBVIOUS
  <2> HIDE DEF unheld
  <2>3. Fail(sock[e], unheld) \in Acting(e)
    BY <2>2, FailActs
  <2>4. rest \in [End -> SUBSET Message] /\ \A x \in End : rest[x] \subseteq net[x]
    BY ReceivedRest
  <2> QED BY <2>1, <2>3, <2>4, TurnOf
<1>11. ASSUME NEW e \in End, NEW m \in net[e], Refuse(e, m) PROVE Turn(e)
  <2> DEFINE rst == [type |-> "RESET", seq |-> 0, ack |-> m.seq, data |-> << >>, sack |-> {}]
             sent == IF m.type = "RESET" THEN {} ELSE {rst}
             t == [sock[e] EXCEPT !.sent = sent]
             rest == [net EXCEPT ![e] = @ \ {m}]
  <2>1. Step(e, t, rest)
    BY <1>11 DEF Refuse
  <2>2. sent \in SUBSET Message /\ \A l \in sent : l.type = "RESET"
    <3>1. m.seq \in Number /\ 0 \in Number
      BY SeqAssumption DEF Delivery, Sound, Message, Number
    <3>2. rst \in Message /\ rst.type = "RESET"
      BY <3>1 DEF Message
    <3> HIDE DEF rst
    <3> QED BY <3>2
  <2>3. rest \in [End -> SUBSET Message] /\ \A x \in End : rest[x] \subseteq net[x]
    BY DEF Delivery, Sound
  <2> HIDE DEF sent, rest
  <2>4. t \in Acting(e)
    BY <2>2, RefuseActs
  <2> HIDE DEF t
  <2> QED BY <2>1, <2>3, <2>4, TurnOf
<1> QED BY <1>1, <1>2, <1>3, <1>4, <1>5, <1>6, <1>7, <1>8, <1>9, <1>10, <1>11 DEF Next

(* What is written and what is left to write add up to an amount.          *)
Budget == \E amount \in Amounts : \A e \in End : sock[e].written + sock[e].left = amount[e]

(* A turn: only the socket of e changes, but for what it sent.             *)
LEMMA TurnSock ==
  ASSUME Delivery, NEW e \in End, Turn(e)
  PROVE  /\ Acts(e, Arrived(e), sock[e], sock'[e]) /\ sock'[Peer(e)] = sock[Peer(e)]
         /\ Delivery' /\ sock' = [sock EXCEPT ![e] = sock'[e]]
<1>1. PICK s \in Acting(e), rest \in [End -> SUBSET Message] :
        (\A x \in End : rest[x] \subseteq net[x]) /\ Step(e, s, rest)
  BY DEF Turn
<1>2. Delivery'
  BY <1>1, StepDelivers
<1> DEFINE t == [s EXCEPT !.sent = {}]
<1>3. sock' = [sock EXCEPT ![e] = t]
  BY <1>1 DEF Step
<1>4. s \in Sane(e, Arrived(e), Total(Peer(e), sock[Peer(e)]), sock[Peer(e)].written)
      /\ Acts(e, Arrived(e), sock[e], s)
  BY DEF Acting, Right
<1>5. Kept(s, t)
  BY <1>4, SentAll
<1> HIDE DEF t
<1>6. sock'[e] = t /\ sock'[Peer(e)] = sock[Peer(e)]
  BY <1>3, Peers DEF Delivery, Sound
<1>7. Acts(e, Arrived(e), sock[e], t)
  <2>1. /\ Total(e, t) = Total(e, s) /\ Got(Peer(e), t) = Got(Peer(e), s)
        /\ Has(Peer(e), t) = Has(Peer(e), s)
    BY <1>5, KeptSame
  <2>2. /\ t.written = s.written /\ t.left = s.left /\ t.state = s.state
        /\ t.read = s.read /\ t.eof = s.eof /\ t.failed = s.failed
    BY <1>5 DEF Kept
  <2>3. Moved(e, sock[e], t)
    BY <1>4, <2>1, <2>2 DEF Acts, Moved
  <2>4. Talks(sock[e], t) \/ Rests(e, Arrived(e), sock[e], t) \/ Fails(sock[e], t)
    BY <1>4, <2>2 DEF Acts, Talks, Rests, Fails
  <2> QED BY <1>4, <2>2, <2>3, <2>4 DEF Acts
<1> QED BY <1>2, <1>3, <1>6, <1>7

LEMMA DeliveryNext ==
  ASSUME Delivery /\ Budget, [Next]_vars PROVE (Delivery /\ Budget)'
<1>1. CASE Next
  <2>1. PICK e \in End : Turn(e)
    BY <1>1, NextTurns
  <2>2. PICK amount \in Amounts : \A x \in End : sock[x].written + sock[x].left = amount[x]
    BY DEF Budget
  <2>3. /\ sock'[e].written + sock'[e].left = sock[e].written + sock[e].left
        /\ sock'[Peer(e)] = sock[Peer(e)] /\ Delivery'
    BY <2>1, TurnSock DEF Acts
  <2>4. \A x \in End : sock'[x].written + sock'[x].left = amount[x]
    BY <2>2, <2>3, Peers
  <2> QED BY <2>3, <2>4 DEF Budget
<1>2. CASE UNCHANGED vars
  BY <1>2 DEF vars, Delivery, Budget, Sound, Right, Arrived
<1> QED BY <1>1, <1>2
-----------------------------------------------------------------------------
(* The beginning                                                           *)

(* A new socket, by what the proofs know of it                             *)
LEMMA NewSocketShape ==
  ASSUME NEW e \in End, NEW n \in Nat
  PROVE  LET s == NewSocket(e, n)
         IN  /\ s.state = "CONNECTED" /\ s.seq_nr = SeqNr[e] /\ s.ack_nr = At(Peer(e), 0)
             /\ s.outbuf = << >> /\ s.inbuf = {} /\ ~s.got_fin /\ s.left = n /\ s.written = 0
             /\ s.read = << >> /\ ~s.eof /\ ~s.failed /\ s.sent = {}
<1>1. At(Peer(e), 0) = (SeqNr[Peer(e)] - 1) % Modulus
  <2>1. SeqNr[Peer(e)] \in Int
    BY PeerIn, SeqAssumption
  <2>2. SeqNr[Peer(e)] + 0 - 1 = SeqNr[Peer(e)] - 1
    BY <2>1
  <2> QED BY <2>2 DEF At, Mod
<1> DEFINE a == (SeqNr[Peer(e)] - 1) % Modulus
           s == NewSocket(e, n)
<1>2. /\ s.state = "CONNECTED" /\ s.seq_nr = SeqNr[e] /\ s.ack_nr = a
      /\ s.outbuf = << >> /\ s.inbuf = {} /\ s.got_fin = FALSE /\ s.left = n /\ s.written = 0
      /\ s.read = << >> /\ s.eof = FALSE /\ s.failed = FALSE /\ s.sent = {}
  <2> HIDE DEF a
  <2> QED BY DEF NewSocket, a
<1> QED BY <1>1, <1>2

LEMMA NewSocketNumbers ==
  ASSUME NEW e \in End, NEW s \in Socket, s.seq_nr = SeqNr[e], s.ack_nr = At(Peer(e), 0)
  PROVE  Total(e, s) = 0 /\ Got(Peer(e), s) = 0
<1>1. 0 \in 0..(Modulus - 1) /\ 0 + 1 = 1
  BY SeqAssumption
<1>2. s.seq_nr = At(e, 0 + 1)
  BY <1>1, FirstNumber
<1> QED BY <1>1, <1>2, PeerIn, TotalOf, GotOf

LEMMA NoNumbers == Numbers(0) = << >>
<1>1. 1..0 = {}
  OBVIOUS
<1>2. Numbers(0) = [i \in {} |-> i] /\ << >> = [i \in {} |-> i]
  BY <1>1 DEF Numbers
<1> QED BY <1>2

LEMMA NewSocketSane ==
  ASSUME NEW e \in End, NEW s \in Good, NEW R, s.left + ReorderMax + 3 <= Modulus,
         s.state = "CONNECTED", s.seq_nr = SeqNr[e], s.ack_nr = At(Peer(e), 0),
         s.outbuf = << >>, s.inbuf = {}, ~s.got_fin, s.written = 0,
         s.read = << >>, ~s.eof, ~s.failed, s.sent = {}
  PROVE  s \in Sane(e, R, 0, 0)
<1>1. s \in Socket /\ s.left \in Nat /\ OutMax \in Nat /\ OutMax > 1
  BY GoodSocket, LimitAssumption DEF Socket
<1>2. Total(e, s) = 0 /\ Got(Peer(e), s) = 0
  BY <1>1, NewSocketNumbers
<1>3. Len(s.outbuf) = 0 /\ Len(s.read) = 0 /\ s.read = Numbers(0)
  BY NoNumbers
<1>4. Base(e, s) = 0
  <2>1. Base(e, s) = Total(e, s) - Len(s.outbuf)
    BY DEF Base
  <2>2. Base(e, s) = 0 - 0
    BY <1>2, <1>3, <2>1, Zenon
  <2> QED BY <2>2
<1>5. SendWindow(e, R, s)
  <2>1. Total(e, s) \in {s.written, s.written + 1} /\ Total(e, s) = s.written /\ s.state # "FIN_SENT"
    BY <1>2
  <2>2. s.written + s.left + ReorderMax + 3 <= Modulus
    BY <1>1, SeqAssumption
  <2>3. Len(s.outbuf) <= Total(e, s) /\ Len(s.outbuf) + s.written < OutMax + Total(e, s)
    BY <1>1, <1>2, <1>3
  <2>4. 1..Base(e, s) \subseteq R
    BY <1>4
  <2>5. \A i \in 1..Len(s.outbuf) : Placed(R, s.written, Base(e, s) + i, s.outbuf[i])
    BY <1>3
  <2> QED BY <2>1, <2>2, <2>3, <2>4, <2>5 DEF SendWindow
<1>6. s \in Sends(e, R)
  BY <1>1, <1>5 DEF Sends
<1>7. Reading(Peer(e), 0, 0, s)
  <2>1. Filing(Peer(e), 0, 0, s) /\ UpToDate(Peer(e), 0, 0, s)
    BY <1>2, <1>3 DEF Filing, UpToDate
  <2> QED BY <1>2, <1>3, <2>1 DEF Reading
<1> QED BY <1>6, <1>7 DEF Sane, Idle

LEMMA DeliveryInit == NoWrap /\ Init => Delivery /\ Budget
<1> SUFFICES ASSUME NoWrap, Init PROVE Delivery /\ Budget
  OBVIOUS
<1>1. Sound
  BY SoundInit
<1>2. PICK amount \in Amounts : sock = [e \in End |-> NewSocket(e, amount[e])]
  BY DEF Init
<1>3. net = [e \in End |-> {}]
  BY DEF Init
<1>4. ASSUME NEW e \in End
      PROVE  /\ sock[e].state = "CONNECTED" /\ sock[e].seq_nr = SeqNr[e] /\ sock[e].ack_nr = At(Peer(e), 0)
             /\ sock[e].outbuf = << >> /\ sock[e].inbuf = {} /\ ~sock[e].got_fin
             /\ sock[e].left = amount[e] /\ sock[e].written = 0
             /\ sock[e].read = << >> /\ ~sock[e].eof /\ ~sock[e].failed /\ sock[e].sent = {}
             /\ amount[e] \in Nat /\ sock[e] \in Good
  <2>1. amount[e] \in Nat /\ sock[e] = NewSocket(e, amount[e])
    BY <1>2, EndAssumption
  <2>2. sock[e] \in Good
    BY <1>1 DEF Sound
  <2> QED BY <2>1, <2>2, NewSocketShape
<1>5. ASSUME NEW e \in End PROVE sock[e] \in Right(e)
  <2>1. sock[e].left + ReorderMax + 3 <= Modulus
    BY <1>4 DEF NoWrap
  <2>2. sock[e] \in Sane(e, Arrived(e), 0, 0)
    BY <1>4, <2>1, NewSocketSane
  <2>3. Total(Peer(e), sock[Peer(e)]) = 0 /\ sock[Peer(e)].written = 0
    <3>1. Peer(e) \in End /\ sock[Peer(e)] \in Socket
      BY <1>4, PeerIn, GoodSocket
    <3> QED BY <1>4, <3>1, NewSocketNumbers
  <2> QED BY <2>2, <2>3 DEF Right
<1>6. Delivery
  BY <1>1, <1>3, <1>4, <1>5, PeerIn DEF Delivery
<1>7. Budget
  BY <1>4 DEF Budget
<1> QED BY <1>6, <1>7

LEMMA AlwaysDelivery == NoWrap => (Spec => [](Delivery /\ Budget))
<1>1. NoWrap => (Init => Delivery /\ Budget)
  BY DeliveryInit
<1>2. (Delivery /\ Budget) /\ [Next]_vars => (Delivery /\ Budget)'
  BY DeliveryNext
<1>3. ASSUME NoWrap PROVE Spec => [](Delivery /\ Budget)
  <2>1. Init => Delivery /\ Budget
    BY <1>1, <1>3
  <2> QED BY <1>2, <2>1, PTL DEF Spec
<1> QED BY <1>3
-----------------------------------------------------------------------------
(* What is acknowledged was received                                       *)

(* A connected end read what it has in order, and the rest of what it has  *)
(* waits in its reorder buffer.                                            *)
LEMMA HasBytes ==
  ASSUME NEW e \in End, NEW T, NEW w, Numbered(T, w), NEW r \in Socket, Reading(e, T, w, r), Idle(r),
         r.state \in Connected, NEW k \in Has(e, r), k \in 1..w
  PROVE  k \in Range(r.read) \cup UNION {Range(p.data) : p \in r.inbuf}
<1>1. w \in Nat /\ w < Modulus /\ Modulus \in Nat
  BY SeqAssumption DEF Numbered
<1>2. CASE k \in 1..Got(e, r)
  <2> DEFINE n == Len(r.read)
  <2>1. n = Got(e, r) /\ r.read = Numbers(n)
    BY DEF Reading, UpToDate, Idle
  <2> HIDE DEF n
  <2>2. k \in DOMAIN r.read /\ r.read[k] = k
    BY <1>2, <2>1 DEF Numbers
  <2> QED BY <2>2 DEF Range
<1>3. CASE \E p \in r.inbuf : p.seq = At(e, k)
  <2>1. PICK p \in r.inbuf : p.seq = At(e, k)
    BY <1>3
  <2>2. PICK j \in 1..w : p.seq = At(e, j) /\ (j <= w => p.data = <<j>>)
    BY DEF Reading, Filing
  <2>3. j = k
    <3>1. j - k < Modulus /\ k - j < Modulus /\ j \in Int /\ k \in Int
      BY <1>1
    <3> QED BY <2>1, <2>2, <3>1, AtInjective
  <2>4. k \in Range(<<k>>)
    <3>1. 1 \in DOMAIN <<k>> /\ <<k>>[1] = k
      OBVIOUS
    <3> QED BY <3>1 DEF Range
  <2>5. p.data = <<k>>
    BY <1>1, <2>2, <2>3
  <2> QED BY <2>1, <2>4, <2>5
<1> QED BY <1>2, <1>3 DEF Has

(* A byte that left the send buffer is at the peer.                        *)
LEMMA UnheldArrived ==
  ASSUME NEW e \in End, NEW R, NEW s \in Sends(e, R), NEW k \in 1..s.written,
         k \notin UNION {Range(p.data) : p \in Range(s.outbuf) \ {NULL}}
  PROVE  k \in R
<1> DEFINE B == Base(e, s)
           n == Len(s.outbuf)
           w == s.written
<1>1. /\ B \in Nat /\ n \in Nat /\ w \in Nat /\ B + n \in {w, w + 1} /\ DOMAIN s.outbuf = 1..n
      /\ SendWindow(e, R, s) /\ k \in 1..w
  BY SendsSocket
<1>2. /\ 1..B \subseteq R
      /\ \A i \in 1..n : Placed(R, w, B + i, s.outbuf[i])
  BY <1>1 DEF SendWindow
<1> HIDE DEF B, n, w
<1>3. CASE k <= B
  <2>1. k \in 1..B
    BY <1>1, <1>3
  <2> QED BY <1>2, <2>1
<1>4. CASE ~(k <= B)
  <2> DEFINE i == k - B
             p == s.outbuf[i]
  <2>1. i \in 1..n /\ B + i = k
    BY <1>1, <1>4
  <2>2. Placed(R, w, k, p)
    BY <1>2, <2>1
  <2>3. CASE p = NULL
    BY <2>2, <2>3 DEF Placed
  <2>4. CASE p # NULL
    <3>1. p.data = <<k>>
      BY <1>1, <2>2, <2>4 DEF Placed, Carries
    <3>2. p \in Range(s.outbuf) \ {NULL}
      BY <1>1, <2>1, <2>4 DEF Range
    <3>3. k \in Range(<<k>>)
      <4>1. 1 \in DOMAIN <<k>> /\ <<k>>[1] = k
        OBVIOUS
      <4> QED BY <4>1 DEF Range
    <3> HIDE DEF p
    <3>4. k \in UNION {Range(q.data) : q \in Range(s.outbuf) \ {NULL}}
      BY <3>1, <3>2, <3>3
    <3> QED BY <3>4
  <2> QED BY <2>3, <2>4
<1> QED BY <1>3, <1>4

(* The cumulative and the selective acknowledgements, however late or      *)
(* repeated, release a packet (ack_packet) only when the peer read it or   *)
(* keeps it in its reorder buffer, as long as the stream is shorter than   *)
(* the sequence numbers.                                                   *)
THEOREM AcknowledgedWasReceived == NoWrap => (Spec => []AckedIsReceived)
<1>1. Delivery => AckedIsReceived
  <2> SUFFICES ASSUME Delivery, NEW e \in End, sock[Peer(e)].state \in Connected,
                      NEW k \in (1..sock[e].written) \
                        UNION {Range(p.data) : p \in Range(sock[e].outbuf) \ {NULL}}
               PROVE k \in Range(sock[Peer(e)].read)
                             \cup UNION {Range(p.data) : p \in sock[Peer(e)].inbuf}
    BY DEF AckedIsReceived
  <2> DEFINE f == Peer(e)
             r == sock[f]
             T == Total(e, sock[e])
             w == sock[e].written
  <2>1. f \in End /\ Peer(f) = e
    BY Peers
  <2>2. sock[e] \in Sends(e, Arrived(e)) /\ Numbered(T, w)
    BY DeliveryOf
  <2>3. r \in Socket /\ Reading(e, T, w, r) /\ Idle(r)
    BY <2>1, DeliveryOf
  <2>4. k \in Has(e, r)
    BY <2>2, UnheldArrived DEF Arrived
  <2>5. k \in 1..w /\ r.state \in Connected
    OBVIOUS
  <2> HIDE DEF r, T, w
  <2>6. k \in Range(r.read) \cup UNION {Range(p.data) : p \in r.inbuf}
    BY <2>2, <2>3, <2>4, <2>5, HasBytes
  <2> QED BY <2>6 DEF r
<1>2. ASSUME NoWrap PROVE Spec => []AckedIsReceived
  <2>1. Spec => [](Delivery /\ Budget)
    BY <1>2, AlwaysDelivery
  <2> QED BY <1>1, <2>1, PTL
<1> QED BY <1>2

(* A FIN is sent only when everything before it was acknowledged: by       *)
(* Nagle's rule in flush_packets, by the loop over acks and by             *)
(* selective_ack.  So it is the next packet of any end that still reads,   *)
(* and the comparison with eof_pkt in utp_process_incoming, which takes no *)
(* account of wrapping, drops no data.                                     *)
THEOREM FinArrivesLast == NoWrap => (Spec => []FinIsLast)
<1>1. Delivery => FinIsLast
  <2> SUFFICES ASSUME Delivery, NEW e \in End, NEW m \in net[e], m.type = "FIN",
                      sock[e].state \in Connected
               PROVE Ahead(sock[e], m) = 0
    BY DEF FinIsLast
  <2> DEFINE f == Peer(e)
             r == sock[f]
             T == Total(f, r)
             w == r.written
  <2>1. f \in End /\ Peer(f) = e
    BY Peers
  <2>2. Valid(f, Has(f, sock[e]), r, m)
    BY <2>1, DeliveryOf DEF Arrived
  <2>3. Arriving(f, T, w, sock[e], m)
    BY <2>2 DEF Valid, Arriving
  <2>4. sock[e] \in Good /\ Reading(f, T, w, sock[e]) /\ Idle(sock[e]) /\ Numbered(T, w)
    BY DeliveryOf, PeerNumbered
  <2> HIDE DEF f, T, w
  <2> QED BY <2>1, <2>3, <2>4, FinIsNext
<1>2. ASSUME NoWrap PROVE Spec => []FinIsLast
  <2>1. Spec => [](Delivery /\ Budget)
    BY <1>2, AlwaysDelivery
  <2> QED BY <1>1, <2>1, PTL
<1> QED BY <1>2
-----------------------------------------------------------------------------
(* The promise                                                             *)

Written == [e \in End |-> sock[e].written]
Read    == [e \in End |-> sock[e].read]
Eofs    == [e \in End |-> sock[e].eof]
Stati   == [e \in End |-> Status(sock[e])]
Limits  == [e \in End |-> Max({amount[e] : amount \in Amounts})]

LEMMA BoundedMax ==
  ASSUME NEW n \in Nat, NEW t \in SUBSET Nat, t # {}, \A y \in t : y <= n
  PROVE  Max(t) \in t /\ \A y \in t : y <= Max(t)
<1> DEFINE B == {b \in Nat : \A y \in t : y <= b}
<1>1. n \in B
  OBVIOUS
<1>2. PICK b \in B : \A c \in B : b <= c
  BY <1>1, LeastOf
<1>3. b \in t
  <2> SUFFICES ASSUME b \notin t PROVE FALSE
    OBVIOUS
  <2>1. PICK y \in t : TRUE
    OBVIOUS
  <2>2. b - 1 \in Nat
    BY <1>2, <2>1
  <2>3. \A z \in t : z <= b - 1
    BY <1>2
  <2>4. b - 1 \in B
    BY <2>2, <2>3
  <2> QED BY <1>2, <2>4
<1>4. \E x \in t : \A y \in t : x >= y
  BY <1>2, <1>3
<1>5. Max(t) \in t /\ \A y \in t : Max(t) >= y
  BY <1>4 DEF Max
<1> QED BY <1>5

LEMMA WithinLimits ==
  ASSUME NoWrap, NEW amount \in Amounts, NEW e \in End
  PROVE  amount[e] \in Nat /\ Limits[e] \in Nat /\ amount[e] <= Limits[e]
<1> DEFINE t == {a[e] : a \in Amounts}
<1>1. t \in SUBSET Nat /\ amount[e] \in t
  BY EndAssumption
<1>2. \A y \in t : y <= Modulus
  <2>1. ASSUME NEW a \in Amounts PROVE a[e] <= Modulus
    <3>1. a[e] \in Nat /\ a[e] + ReorderMax + 3 <= Modulus /\ ReorderMax \in Nat /\ Modulus \in Nat
      BY EndAssumption, SeqAssumption DEF NoWrap
    <3> QED BY <3>1
  <2> QED BY <2>1
<1>3. Limits[e] = Max(t)
  BY DEF Limits
<1> HIDE DEF t
<1>4. Modulus \in Nat
  BY SeqAssumption
<1>5. Max(t) \in t /\ \A y \in t : y <= Max(t)
  BY <1>1, <1>2, <1>4, BoundedMax
<1> QED BY <1>1, <1>3, <1>5

(* The state of ReliableStream follows the socket that changed.            *)
LEMMA Updated ==
  ASSUME NEW e \in End, NEW t, sock \in [End -> Good], sock' = [sock EXCEPT ![e] = t]
  PROVE  /\ Written' = [Written EXCEPT ![e] = t.written] /\ Read' = [Read EXCEPT ![e] = t.read]
         /\ Eofs' = [Eofs EXCEPT ![e] = t.eof] /\ Stati' = [Stati EXCEPT ![e] = Status(t)]
<1>1. \A x \in End : sock'[x] = IF x = e THEN t ELSE sock[x]
  OBVIOUS
<1>2. Written' = [Written EXCEPT ![e] = t.written]
  BY <1>1 DEF Written
<1>3. Read' = [Read EXCEPT ![e] = t.read]
  BY <1>1 DEF Read
<1>4. Eofs' = [Eofs EXCEPT ![e] = t.eof]
  BY <1>1 DEF Eofs
<1>5. Stati' = [Stati EXCEPT ![e] = Status(t)]
  <2>1. \A x \in End : Status(sock'[x]) = IF x = e THEN Status(t) ELSE Status(sock[x])
    BY <1>1
  <2>2. Stati' = [x \in End |-> Status(sock'[x])]
    BY DEF Stati, Status
  <2>3. Stati = [x \in End |-> Status(sock[x])]
    BY DEF Stati
  <2> QED BY <2>1, <2>2, <2>3
<1> QED BY <1>2, <1>3, <1>4, <1>5

Failing(s) == s.failed => s.state \in {"RESET", "DESTROY", "GONE"}

LEMMA Statuses ==
  ASSUME NEW s \in Socket, Failing(s)
  PROVE  /\ s.failed => Status(s) = "failed"
         /\ s.state \in Connected => Status(s) = "open"
         /\ s.state \in {"FIN_SENT", "DESTROY_DELAY"} => Status(s) = "closed"
         /\ ~s.failed /\ s.state \in {"RESET", "DESTROY", "GONE"} => Status(s) = "done"
         /\ s.state \notin Connected => Status(s) # "open"
<1>1. s.failed \in BOOLEAN /\ s.state \in State
  BY DEF Socket
<1>2. CASE s.failed
  <2>1. s.state \notin Connected /\ s.state \notin {"FIN_SENT", "DESTROY_DELAY"}
    BY <1>2 DEF Failing, Connected
  <2>2. Status(s) = "failed"
    BY <1>2, <2>1 DEF Status
  <2> QED BY <1>2, <2>1, <2>2
<1>3. CASE ~s.failed /\ s.state \in Connected
  <2>1. s.state \notin {"FIN_SENT", "DESTROY_DELAY"} /\ s.state \notin {"RESET", "DESTROY", "GONE"}
    BY <1>3 DEF Connected
  <2>2. Status(s) = "open"
    BY <1>3, <2>1 DEF Status
  <2> QED BY <1>3, <2>1, <2>2
<1>4. CASE ~s.failed /\ s.state \in {"FIN_SENT", "DESTROY_DELAY"}
  <2>1. s.state \notin Connected /\ s.state \notin {"RESET", "DESTROY", "GONE"}
    BY <1>4 DEF Connected
  <2>2. Status(s) = "closed"
    BY <1>4, <2>1 DEF Status
  <2> QED BY <1>4, <2>1, <2>2
<1>5. CASE ~s.failed /\ s.state \in {"RESET", "DESTROY", "GONE"}
  <2>1. s.state \notin Connected /\ s.state \notin {"FIN_SENT", "DESTROY_DELAY"}
    BY <1>5 DEF Connected
  <2>2. Status(s) = "done"
    BY <1>5, <2>1 DEF Status
  <2> QED BY <1>5, <2>1, <2>2
<1>6. s.state \in Connected \cup {"FIN_SENT", "DESTROY_DELAY"} \cup {"RESET", "DESTROY", "GONE"}
  BY <1>1 DEF State, Connected
<1> QED BY <1>1, <1>2, <1>3, <1>4, <1>5, <1>6

(* An end with a FIN to send is not open.                                  *)
LEMMA FinCloses ==
  ASSUME NEW e \in End, NEW R, NEW s \in Sends(e, R), Total(e, s) = s.written + 1, Failing(s)
  PROVE  Status(s) # "open"
<1>1. SendWindow(e, R, s) /\ s \in Socket /\ s.written \in Nat
  BY SendsSocket
<1>2. s.state \notin Connected
  BY <1>1 DEF SendWindow
<1> QED BY <1>1, <1>2, Statuses

(* An end that has all of a stream, the FIN too, is not open.              *)
LEMMA AllCloses ==
  ASSUME NEW e \in End, NEW w, Numbered(w + 1, w), NEW r \in Socket, Reading(e, w + 1, w, r), Idle(r),
         1..(w + 1) \subseteq Has(e, r)
  PROVE  Status(r) # "open"
<1>1. w \in Nat /\ w + 1 < Modulus /\ Modulus \in Nat
  BY SeqAssumption DEF Numbered
<1>2. ASSUME r.state \in Connected PROVE FALSE
  <2>1. Got(e, r) = Len(r.read) /\ Len(r.read) <= w
    BY <1>2 DEF Reading, UpToDate, Idle
  <2>2. Len(r.read) \in Nat /\ w + 1 \in 1..(w + 1)
    BY <1>1, ReadLength
  <2>3. w + 1 \notin 1..Got(e, r)
    BY <1>1, <2>1, <2>2
  <2>4. PICK p \in r.inbuf : p.seq = At(e, w + 1)
    BY <2>2, <2>3 DEF Has
  <2>5. PICK j \in 1..w : p.seq = At(e, j)
    BY <1>2 DEF Reading, Filing
  <2>6. j \in Int /\ w + 1 \in Int /\ j - (w + 1) < Modulus /\ (w + 1) - j < Modulus /\ j # w + 1
    BY <1>1
  <2> QED BY <2>4, <2>5, <2>6, AtInjective
<1>3. Failing(r)
  BY DEF Reading, Failing
<1> QED BY <1>2, <1>3, Statuses
(* What a turn of e makes of its socket, the peer's staying as it is       *)
LEMMA TurnReads ==
  ASSUME Delivery, NEW e \in End, Turn(e)
  PROVE  /\ sock'[e] \in Socket
         /\ Reading(Peer(e), Total(Peer(e), sock[Peer(e)]), sock[Peer(e)].written, sock'[e])
<1>1. Delivery' /\ sock'[Peer(e)] = sock[Peer(e)]
  BY TurnSock
<1>2. sock'[e] \in Right(e)'
  BY <1>1 DEF Delivery
<1>3. Right(e)' = Sane(e, Arrived(e)', Total(Peer(e), sock'[Peer(e)]), sock'[Peer(e)].written)
  BY DEF Right
<1>4. sock'[e] \in Good
  BY <1>1 DEF Delivery, Sound
<1>5. sock'[e] \in Socket
  BY <1>4, GoodSocket
<1> QED BY <1>1, <1>2, <1>3, <1>5 DEF Sane

(* The applications, seen by ReliableStream                                *)
LEMMA Abstraction ==
  ASSUME NEW e \in End
  PROVE  /\ Written[e] = sock[e].written /\ Read[e] = sock[e].read /\ Eofs[e] = sock[e].eof
         /\ Stati[e] = Status(sock[e])
BY DEF Written, Read, Eofs, Stati

(* An open end writes, reads, closes, and is told the end of the stream.   *)
LEMMA TurnTalks ==
  ASSUME NoWrap, Delivery, Budget', NEW e \in End, Turn(e), Talks(sock[e], sock'[e])
  PROVE  Promise!Talk(e)
<1> DEFINE s == sock[e]
           t == sock'[e]
           f == Peer(e)
           r == sock[f]
           T == Total(f, r)
           w == r.written
<1>1. /\ sock' = [sock EXCEPT ![e] = t] /\ sock \in [End -> Good] /\ f \in End
  BY TurnSock, PeerIn DEF Delivery, Sound
<1>2. s \in Socket /\ t \in Socket /\ r \in Socket /\ Reading(f, T, w, s) /\ Reading(f, T, w, t)
  BY <1>1, DeliveryOf, TurnReads
<1>3. r \in Sends(f, Arrived(f)) /\ Failing(r) /\ w \in Nat
  <2>1. Reading(e, Total(e, s), s.written, r)
    BY DeliveryOf, Peers
  <2>2. r \in Sends(f, Arrived(f))
    BY <1>1, DeliveryOf
  <2> QED BY <1>2, <2>1, <2>2 DEF Reading, Failing, Socket
<1>4. t.written + t.left <= Limits[e] /\ Limits[e] \in Nat
  <2>1. PICK amount \in Amounts : t.written + t.left = amount[e]
    BY DEF Budget
  <2> QED BY <2>1, WithinLimits
<1>5. /\ Written' = [Written EXCEPT ![e] = t.written] /\ Read' = [Read EXCEPT ![e] = t.read]
      /\ Eofs' = [Eofs EXCEPT ![e] = t.eof] /\ Stati' = [Stati EXCEPT ![e] = Status(t)]
  <2> HIDE DEF t
  <2> QED BY <1>1, Updated
<1>6. /\ Written[e] = s.written /\ Read[e] = s.read /\ Eofs[e] = s.eof /\ Stati[e] = Status(s)
      /\ Written[f] = w /\ Stati[f] = Status(r)
  BY <1>1, Abstraction
<1>7. Promise!Other(e) = f
  BY DEF Promise!Other, Peer
<1>8. /\ s.state \in Connected /\ t.failed = s.failed /\ s.written <= t.written /\ Len(s.read) <= Len(t.read)
      /\ \/ t.state \in Connected \cup {"FIN_SENT"} /\ t.eof = s.eof
         \/ t.state = "DESTROY_DELAY"
  BY DEF Talks
<1> HIDE DEF s, t, f, r, T, w
<1>9. Failing(s) /\ Failing(t)
  BY <1>2 DEF Reading, Failing
<1>10. Stati[e] = "open"
  BY <1>2, <1>6, <1>8, <1>9, Statuses
<1>11. \E n \in Written[e]..Limits[e] : Written' = [Written EXCEPT ![e] = n]
  <2>1. s.written \in Nat /\ t.written \in Nat /\ t.left \in Nat
    BY <1>2 DEF Socket
  <2>2. t.written \in s.written..Limits[e]
    BY <1>4, <1>8, <2>1
  <2> QED BY <1>5, <1>6, <2>2
<1>12. \E n \in Len(Read[e])..Written[f] : Read' = [Read EXCEPT ![e] = Promise!Stream(n)]
  <2>1. t.read = Numbers(Len(t.read)) /\ Len(t.read) <= w
    BY <1>2 DEF Reading
  <2>2. Len(s.read) \in Nat /\ Len(t.read) \in Nat
    BY <1>2, ReadLength
  <2>3. Len(t.read) \in Len(s.read)..w
    BY <1>3, <1>8, <2>1, <2>2
  <2>4. t.read = Promise!Stream(Len(t.read))
    BY <2>1 DEF Numbers, Promise!Stream
  <2> QED BY <1>5, <1>6, <2>3, <2>4
<1>13. \/ Eofs' = Eofs /\ \E st \in {"open", "closed"} : Stati' = [Stati EXCEPT ![e] = st]
       \/ /\ Stati[f] # "open" /\ Read'[e] = Promise!Stream(Written[f])
          /\ Eofs' = [Eofs EXCEPT ![e] = TRUE] /\ Stati' = [Stati EXCEPT ![e] = "closed"]
  <2>1. CASE t.state \in Connected \cup {"FIN_SENT"} /\ t.eof = s.eof
    <3>1. Status(t) \in {"open", "closed"}
      BY <1>2, <1>9, <2>1, Statuses
    <3>2. Eofs' = Eofs
      BY <1>5, <1>6, <2>1 DEF Eofs
    <3> QED BY <1>5, <3>1, <3>2
  <2>2. CASE t.state = "DESTROY_DELAY"
    <3>1. t.eof = TRUE /\ T = w + 1 /\ Len(t.read) = w /\ t.read = Numbers(Len(t.read))
      <4>1. t.eof \in BOOLEAN
        BY <1>2 DEF Socket
      <4> QED BY <1>2, <2>2, <4>1 DEF Reading
    <3>2. Status(t) = "closed"
      BY <1>2, <1>9, <2>2, Statuses
    <3>3. Status(r) # "open"
      BY <1>1, <1>3, <3>1, FinCloses DEF T, w
    <3>4. Read'[e] = Promise!Stream(w)
      <4>1. Read'[e] = t.read
        BY <1>5 DEF Read
      <4> QED BY <3>1, <4>1 DEF Numbers, Promise!Stream
    <3> QED BY <1>5, <1>6, <3>1, <3>2, <3>3, <3>4
  <2> QED BY <1>8, <2>1, <2>2
<1> QED BY <1>7, <1>10, <1>11, <1>12, <1>13
        DEF Promise!Talk, Promise!Writes, Promise!Reads, Promise!Ends, Written, Read, Eofs, Stati, Limits

(* A closed end goes when the peer has everything, or after its delay.     *)
LEMMA TurnRests ==
  ASSUME Delivery, NEW e \in End, Turn(e), Rests(e, Arrived(e), sock[e], sock'[e])
  PROVE  Promise!Done(e) \/ UNCHANGED <<Written, Read, Eofs, Stati>>
<1> DEFINE s == sock[e]
           t == sock'[e]
           f == Peer(e)
           r == sock[f]
<1>1. /\ sock' = [sock EXCEPT ![e] = t] /\ sock \in [End -> Good] /\ f \in End /\ Peer(f) = e
  BY TurnSock, Peers DEF Delivery, Sound
<1>2. /\ s \in Socket /\ t \in Socket /\ r \in Socket /\ s \in Sends(e, Arrived(e))
      /\ Reading(f, Total(f, r), r.written, s)
      /\ Reading(e, Total(e, s), s.written, r) /\ Idle(r) /\ Numbered(Total(e, s), s.written)
  BY <1>1, DeliveryOf, TurnReads
<1>3. Failing(s) /\ Failing(r)
  BY <1>2 DEF Reading, Failing
<1>4. /\ Written' = [Written EXCEPT ![e] = t.written] /\ Read' = [Read EXCEPT ![e] = t.read]
      /\ Eofs' = [Eofs EXCEPT ![e] = t.eof] /\ Stati' = [Stati EXCEPT ![e] = Status(t)]
  <2> HIDE DEF t
  <2> QED BY <1>1, Updated
<1>5. /\ Written[e] = s.written /\ Read[e] = s.read /\ Eofs[e] = s.eof /\ Stati[e] = Status(s)
      /\ Stati[f] = Status(r)
  BY <1>1, Abstraction
<1>6. Promise!Other(e) = f
  BY DEF Promise!Other, Peer
<1>7. /\ s.state \notin Connected
      /\ t.written = s.written /\ t.read = s.read /\ t.eof = s.eof /\ t.failed = s.failed
      /\ \/ t.state = s.state
         \/ s.state = "FIN_SENT" /\ t.state = "DESTROY" /\ 1..Total(e, s) \subseteq Arrived(e)
         \/ s.state \in {"DESTROY", "DESTROY_DELAY"} /\ t.state = "GONE"
  BY DEF Rests
<1>8. Arrived(e) = Has(e, r)
  BY DEF Arrived
<1> HIDE DEF s, t, f, r
<1>9. Written' = Written /\ Read' = Read /\ Eofs' = Eofs
  <2>1. Written' = [Written EXCEPT ![e] = Written[e]] /\ Read' = [Read EXCEPT ![e] = Read[e]]
        /\ Eofs' = [Eofs EXCEPT ![e] = Eofs[e]]
    BY <1>4, <1>5, <1>7
  <2> QED BY <2>1 DEF Written, Read, Eofs
<1>10. CASE Status(t) = Status(s)
  <2>1. Stati' = [Stati EXCEPT ![e] = Stati[e]]
    BY <1>4, <1>5, <1>10
  <2>2. Stati' = Stati
    BY <2>1 DEF Stati
  <2> QED BY <1>9, <2>2
<1>11. CASE Status(t) # Status(s)
  <2>1. Failing(t)
    BY <1>2, <1>3, <1>7 DEF Failing
  <2>2. t.state # s.state
    BY <1>7, <1>11 DEF Status
  <2>3. CASE s.state = "FIN_SENT" /\ t.state = "DESTROY" /\ 1..Total(e, s) \subseteq Arrived(e)
    <3>1. Status(s) = "closed" /\ Status(t) = "done"
      BY <1>2, <1>3, <1>7, <2>1, <2>3, Statuses DEF Failing
    <3>2. Total(e, s) = s.written + 1
      <4>1. SendWindow(e, Arrived(e), s)
        BY <1>2, SendsSocket
      <4> QED BY <2>3, <4>1 DEF SendWindow
    <3>3. Status(r) # "open"
      <4> DEFINE w == s.written
      <4>1. Numbered(w + 1, w) /\ Reading(e, w + 1, w, r) /\ 1..(w + 1) \subseteq Has(e, r)
        BY <1>2, <1>8, <2>3, <3>2
      <4> HIDE DEF w
      <4> QED BY <1>2, <4>1, AllCloses
    <3>4. Stati[e] = "closed" /\ Stati[f] # "open" /\ Stati' = [Stati EXCEPT ![e] = "done"]
      BY <1>4, <1>5, <3>1, <3>3
    <3> QED BY <1>6, <1>9, <3>4 DEF Promise!Done, Written, Read, Eofs, Stati
  <2>4. CASE s.state \in {"DESTROY", "DESTROY_DELAY"} /\ t.state = "GONE"
    <3>1. CASE s.state = "DESTROY"
      <4>1. Status(t) = Status(s)
        BY <1>2, <1>3, <1>7, <2>1, <2>4, <3>1, Statuses DEF Socket
      <4> QED BY <1>11, <4>1
    <3>2. CASE s.state = "DESTROY_DELAY"
      <4>1. Status(s) = "closed" /\ Status(t) = "done"
        BY <1>2, <1>3, <1>7, <2>1, <2>4, <3>2, Statuses DEF Failing
      <4>2. Eofs[e]
        BY <1>2, <1>5, <3>2 DEF Reading
      <4>3. Stati[e] = "closed" /\ Stati' = [Stati EXCEPT ![e] = "done"]
        BY <1>4, <1>5, <4>1
      <4> QED BY <1>6, <1>9, <4>2, <4>3 DEF Promise!Done, Written, Read, Eofs, Stati
    <3> QED BY <2>4, <3>1, <3>2
  <2> QED BY <1>7, <2>2, <2>3, <2>4
<1> QED BY <1>10, <1>11

LEMMA TurnFails ==
  ASSUME Delivery, NEW e \in End, Turn(e), Fails(sock[e], sock'[e])
  PROVE  Promise!Fail(e)
<1> DEFINE s == sock[e]
           t == sock'[e]
<1>1. sock' = [sock EXCEPT ![e] = t] /\ sock \in [End -> Good]
  BY TurnSock DEF Delivery, Sound
<1>2. t \in Socket
  BY TurnReads
<1>3. /\ Written' = [Written EXCEPT ![e] = t.written] /\ Read' = [Read EXCEPT ![e] = t.read]
      /\ Eofs' = [Eofs EXCEPT ![e] = t.eof] /\ Stati' = [Stati EXCEPT ![e] = Status(t)]
  <2> HIDE DEF t
  <2> QED BY <1>1, Updated
<1>4. Written[e] = s.written /\ Read[e] = s.read /\ Eofs[e] = s.eof
  BY Abstraction
<1>5. /\ t.failed /\ t.state \in {"RESET", "DESTROY", "GONE"}
      /\ t.written = s.written /\ t.read = s.read /\ t.eof = s.eof
  BY DEF Fails
<1> HIDE DEF s, t
<1>6. Written' = Written /\ Read' = Read /\ Eofs' = Eofs
  <2>1. Written' = [Written EXCEPT ![e] = Written[e]] /\ Read' = [Read EXCEPT ![e] = Read[e]]
        /\ Eofs' = [Eofs EXCEPT ![e] = Eofs[e]]
    BY <1>3, <1>4, <1>5
  <2> QED BY <2>1 DEF Written, Read, Eofs
<1>7. Status(t) = "failed"
  BY <1>2, <1>5, Statuses DEF Failing
<1> QED BY <1>3, <1>6, <1>7 DEF Promise!Fail, Written, Read, Eofs, Stati

LEMMA PromiseInit == Init => Promise!Init
<1> SUFFICES ASSUME Init PROVE Promise!Init
  OBVIOUS
<1>1. PICK amount \in Amounts : sock = [e \in End |-> NewSocket(e, amount[e])]
  BY DEF Init
<1>2. ASSUME NEW e \in End
      PROVE sock[e].written = 0 /\ sock[e].read = << >> /\ sock[e].eof = FALSE /\ Status(sock[e]) = "open"
  <2>1. amount[e] \in Nat /\ sock[e] = NewSocket(e, amount[e])
    BY <1>1, EndAssumption
  <2>2. sock[e].written = 0 /\ sock[e].read = << >> /\ ~sock[e].eof /\ ~sock[e].failed
        /\ sock[e].state = "CONNECTED"
    BY <2>1, NewSocketShape
  <2>3. sock[e] \in Socket
    BY SoundInit, GoodSocket DEF Sound
  <2>4. sock[e].eof \in BOOLEAN /\ sock[e].state \in Connected
    BY <2>2, <2>3 DEF Socket, Connected
  <2> QED BY <2>2, <2>3, <2>4, Statuses DEF Failing
<1> QED BY <1>2 DEF Promise!Init

LEMMA PromiseNext ==
  ASSUME NoWrap, Delivery, Budget', [Next]_vars
  PROVE  [Promise!Next]_<<Written, Read, Eofs, Stati>>
<1>1. CASE Next
  <2>1. PICK e \in End : Turn(e)
    BY <1>1, NextTurns
  <2>2. Talks(sock[e], sock'[e]) \/ Rests(e, Arrived(e), sock[e], sock'[e]) \/ Fails(sock[e], sock'[e])
    BY <2>1, TurnSock DEF Acts
  <2>3. \/ Promise!Talk(e) \/ Promise!Done(e) \/ Promise!Fail(e)
        \/ UNCHANGED <<Written, Read, Eofs, Stati>>
    BY <2>1, <2>2, TurnTalks, TurnRests, TurnFails
  <2> QED BY <2>3 DEF Promise!Next
<1>2. CASE UNCHANGED vars
  BY <1>2 DEF vars, Written, Read, Eofs, Stati, Status
<1> QED BY <1>1, <1>2

(* An established connection is a reliable stream each way: whatever the   *)
(* network loses, repeats and reorders, on_read is given the bytes that    *)
(* were written, in order, without gaps or repetitions (the reorder        *)
(* buffer and got_fin in utp_process_incoming), an EOF only after all of   *)
(* them, and a socket is destroyed without an error only when the other    *)
(* end has everything, has closed itself, or had sent its own FIN.         *)
THEOREM StreamIsReliable == NoWrap => (Spec => ReliableDelivery)
<1>1. ASSUME NoWrap PROVE Spec => ReliableDelivery
  <2>1. Spec => [](Delivery /\ Budget)
    BY <1>1, AlwaysDelivery
  <2>2. Init => Promise!Init
    BY PromiseInit
  <2>3. (Delivery /\ Budget) /\ (Delivery /\ Budget)' /\ [Next]_vars
          => [Promise!Next]_<<Written, Read, Eofs, Stati>>
    BY <1>1, PromiseNext
  <2>4. Promise!Spec <=> Promise!Init /\ [][Promise!Next]_<<Written, Read, Eofs, Stati>>
    BY DEF Promise!Spec, Written, Read, Eofs, Stati
  <2> QED BY <2>1, <2>2, <2>3, <2>4, PTL DEF Spec, ReliableDelivery
<1> QED BY <1>1
=============================================================================

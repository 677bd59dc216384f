---------------------------- MODULE UtpTransfer ----------------------------
(***************************************************************************)
(* One direction of an established uTP connection, down to the buffers and *)
(* the packet sizes that module UtpStream leaves out: the rings of the     *)
(* sender (outbuf) and of the receiver (inbuf), which grow as packets pile *)
(* up, the EACK bits read off a ring, and the search for the MTU with      *)
(* packets of the transfer as probes.                                      *)
(*                                                                         *)
(* Congestion control is left out: is_full may stop a flush at any packet. *)
(* So are FIN and failure, which UtpStream has.  A packet is a "byte" or   *)
(* full; it holds the numbers of the writes it carries.                    *)
(***************************************************************************)
EXTENDS UtpBuffer, SequencesExt

CONSTANTS
  NumWrites,   \* what the application writes, in number
  SeqNr,       \* first sequence number
  Modulus,     \* 2^16
  InitialSize, \* of a ring: 16
  EackBits,    \* bits of an EACK: 30
  ReorderMax,  \* REORDER_BUFFER_MAX_SIZE
  OutMax,      \* OUTGOING_BUFFER_MAX_SIZE
  DupAcks,     \* DUPLICATE_ACKS_BEFORE_RESEND
  LeastMtu,    \* 576
  UdpMtus,     \* what get_udp_mtu may give, by the family of the address
  Near,        \* 16: an interval that ends the search
  Resets       \* bound: expiries of mtu_discover_time

ASSUME BufferAssumption ==
  /\ {InitialSize, EackBits, OutMax, DupAcks} \subseteq Nat \ {0}
  /\ InitialSize > 1 /\ {InitialSize, Modulus} \subseteq Powers /\ InitialSize <= Modulus
  /\ ReorderMax \in Nat /\ 2 * ReorderMax <= Modulus /\ OutMax <= ReorderMax
  /\ SeqNr \in 0..(Modulus - 1)
ASSUME MtuAssumption ==
  /\ {LeastMtu, Near, NumWrites, Resets} \subseteq Nat /\ 1 < LeastMtu
  /\ UdpMtus \subseteq Nat /\ IsFiniteSet(UdpMtus) /\ \A mtu \in UdpMtus : LeastMtu <= mtu

(* An element of outbuf, and what is sent of it                            *)
Packet  == [seq: Nat, data: Seq(Nat), length: Nat, sent: BOOLEAN]
Message == [seq: Nat, data: Seq(Nat), length: Nat]

ASSUME NullAssumption == NULL \notin Packet \cup Message

VARIABLES
  snd,     \* the sending socket
  rcv,     \* the receiving socket
  net,     \* the packets ever sent: each may arrive, late and repeatedly
  ack      \* the acknowledgement under way, or NULL

vars == <<snd, rcv, net, ack>>

Mod(n) == n % Modulus

(* mtu_last begins as the ceiling.  due: mtu_discover_time has passed;     *)
(* sent collects the packets a function sends.                             *)
Init ==
  /\ \E mtu \in UdpMtus :
       snd = [seq_nr |-> SeqNr, window |-> 0, outbuf |-> EmptyBuffer(InitialSize),
              duplicate_ack |-> 0, written |-> 0, sent |-> {}, udp_mtu |-> mtu,
              mtu_floor |-> LeastMtu, mtu_ceiling |-> mtu, mtu_last |-> mtu,
              mtu_probe_seq |-> 0, mtu_probe_size |-> 0, due |-> FALSE, resets |-> 0]
  /\ rcv = [ack_nr |-> Mod(SeqNr - 1), inbuf |-> EmptyBuffer(InitialSize),
            reorder_count |-> 0, ack_due |-> FALSE, read |-> << >>]
  /\ net = {}
  /\ ack = NULL

-----------------------------------------------------------------------------
(* The MTU search                                                          *)

(* Mutant of MtuSearchUpdate: the probe stays.                             *)
MtuSearchUpdate_Kept(s) ==
  IF s.mtu_ceiling - s.mtu_floor <= Near
  THEN [s EXCEPT !.mtu_last = s.mtu_floor, !.mtu_ceiling = s.mtu_floor, !.due = FALSE]
  ELSE [s EXCEPT !.mtu_last = (s.mtu_floor + s.mtu_ceiling) \div 2]

NoProbe(s) == [s EXCEPT !.mtu_probe_seq = 0, !.mtu_probe_size = 0]

(* mtu_search_update: halve the interval, or end the search at its floor   *)
MtuSearchUpdate(s) ==
  IF s.mtu_ceiling - s.mtu_floor <= Near
  THEN [NoProbe(s) EXCEPT !.mtu_last = s.mtu_floor, !.mtu_ceiling = s.mtu_floor, !.due = FALSE]
  ELSE [NoProbe(s) EXCEPT !.mtu_last = (s.mtu_floor + s.mtu_ceiling) \div 2]

MtuReset(s) ==
  IF s.due THEN [s EXCEPT !.mtu_ceiling = s.udp_mtu, !.mtu_floor = LeastMtu, !.due = FALSE] ELSE s

ProbeArrived(s) == MtuSearchUpdate([s EXCEPT !.mtu_floor = s.mtu_probe_size])

ProbeLost(s) == MtuSearchUpdate([s EXCEPT !.mtu_ceiling = s.mtu_probe_size - 1])

-----------------------------------------------------------------------------
(* The sender                                                              *)

Oldest(s) == Mod(s.seq_nr - s.window)

(* The number of the i-th packet of the window                             *)
Number(s, i) == Mod(Oldest(s) + i - 1)

InWindow(s, v) == Mod(v - Oldest(s)) < s.window

Unsent(p) == p # NULL /\ ~p.sent

(* Mutant of UseAsProbe: sent again, a packet larger than the ceiling is a *)
(* probe too.                                                              *)
UseAsProbe_TooLarge(s, p) ==
  s.mtu_floor < s.mtu_ceiling /\ p.length > s.mtu_floor /\ s.mtu_probe_seq = 0 /\ s.seq_nr # 1

UseAsProbe(s, p) ==
  /\ s.mtu_floor < s.mtu_ceiling /\ p.length > s.mtu_floor /\ p.length <= s.mtu_ceiling
  /\ s.mtu_probe_seq = 0 /\ s.seq_nr # 1 /\ ~p.sent

(* send_packet of number v.  A probe is named seq_nr - 1, whichever packet *)
(* it is.                                                                  *)
SendPacket(s0, v) ==
  LET s == MtuReset(s0)
      p == Get(s.outbuf, v)
      probed == IF UseAsProbe(s, p)
                THEN [s EXCEPT !.mtu_probe_seq = Mod(s.seq_nr - 1), !.mtu_probe_size = p.length]
                ELSE s
  IN  [probed EXCEPT !.outbuf = Put(@, v, [p EXCEPT !.sent = TRUE]),
                     !.sent = @ \cup {[seq |-> p.seq, data |-> p.data, length |-> p.length]}]

(* is_full before a flush: it stops after so many packets.                 *)
Quotas(s) == IF s.window >= OutMax - 1 THEN {0} ELSE 0..s.window

(* flush_packets with a quota; Nagle's rule holds back the last packet if  *)
(* others are unacknowledged and it is not full.                           *)
FlushPacket(f, i) ==
  LET s == f.sock
      p == Get(s.outbuf, Number(s, i))
  IN  IF ~Unsent(p) \/ f.quota = 0 THEN f
      ELSE IF i # s.window \/ s.window = 1 \/ p.length >= s.mtu_last
           THEN [sock |-> SendPacket(s, Number(s, i)), quota |-> f.quota - 1]
           ELSE f

FlushPackets(s, quota) ==
  FoldLeft(FlushPacket, [sock |-> s, quota |-> quota], [i \in 1..s.window |-> i]).sock

(* A new packet of outbuf                                                  *)
AppendPacket(s, data, length) ==
  [s EXCEPT !.outbuf = Put(EnsureSize(@, s.seq_nr, s.window), s.seq_nr,
                           [seq |-> s.seq_nr, data |-> data, length |-> length, sent |-> FALSE]),
            !.seq_nr = Mod(@ + 1), !.window = @ + 1]

Newest(s) == IF s.window > 0 THEN Get(s.outbuf, s.seq_nr - 1) ELSE NULL

(* Mutant of HasRoom: a packet already sent is filled too.                 *)
HasRoom_Sent(s) == Newest(s) # NULL /\ Newest(s).length < s.mtu_last

HasRoom(s) == Unsent(Newest(s)) /\ Newest(s).length < s.mtu_last

Lengths(s) == {1, s.mtu_last}

(* write_outgoing_packet: it fills the last packet if that is unsent, and  *)
(* the rest goes to a packet of its own.                                   *)
FillLast(s, length) ==
  [s EXCEPT !.written = @ + 1,
            !.outbuf = Put(@, s.seq_nr - 1, [Newest(s) EXCEPT !.data = Append(@, s.written + 1),
                                                            !.length = length])]

NewPacket(s, length) ==
  [AppendPacket(s, <<s.written + 1>>, length) EXCEPT !.written = s.written + 1]

Written(s) ==
  IF HasRoom(s)
  THEN {FillLast(s, Newest(s).length), FillLast(s, s.mtu_last)}
       \cup IF s.written + 2 <= NumWrites THEN {NewPacket(FillLast(s, s.mtu_last), 1)} ELSE {}
  ELSE {NewPacket(s, length) : length \in Lengths(s)}

-----------------------------------------------------------------------------
(* Acknowledgements (utp_process_incoming)                                 *)

Acks(s, m) ==
  LET n == Mod(m.ack - (s.seq_nr - 1 - s.window)) IN IF n > s.window THEN 0 ELSE n

(* duplicate_ack, whose values past the limit are one                      *)
Counted(n) == Min({n, DupAcks + 1})

CountDuplicate(s, m) ==
  IF s.window = 0 THEN s
  ELSE IF m.ack # Mod(Oldest(s) - 1) THEN [s EXCEPT !.duplicate_ack = 0]
  ELSE LET t == [s EXCEPT !.duplicate_ack = Counted(@ + 1)]
       IN  IF t.duplicate_ack # DupAcks \/ s.duplicate_ack > DupAcks \/ t.mtu_probe_seq = 0 THEN t
           ELSE IF m.ack = Mod(t.mtu_probe_seq - 1) THEN ProbeLost(t) ELSE NoProbe(t)

(* Mutant of AckProbe: any acknowledgement of new packets is the probe's.  *)
AckProbe_Any(s, n) ==
  IF s.mtu_probe_seq # 0 /\ n > 0 THEN ProbeArrived(s) ELSE s

(* One of the n packets acknowledged is the probe, and still in outbuf.    *)
AckProbe(s, n) ==
  LET p == Get(s.outbuf, s.mtu_probe_seq)
  IN  IF s.mtu_probe_seq # 0 /\ Mod(s.mtu_probe_seq - Oldest(s)) < n /\ p # NULL /\ p.sent
      THEN ProbeArrived(s) ELSE s

(* ack_packet, for a packet that was sent                                  *)
AckPacket(s, v) ==
  LET p == Get(s.outbuf, v)
  IN  IF p = NULL \/ ~p.sent THEN s ELSE [s EXCEPT !.outbuf = Put(@, v, NULL)]

AckOldest(s, i) ==
  IF Unsent(Get(s.outbuf, Oldest(s))) THEN s
  ELSE [AckPacket(s, Oldest(s)) EXCEPT !.window = @ - 1]

AckLoop(s, n) == FoldLeft(AckOldest, s, [i \in 1..n |-> i])

SkipOne(s, i) ==
  IF s.window > 0 /\ Get(s.outbuf, Oldest(s)) = NULL THEN [s EXCEPT !.window = @ - 1] ELSE s

SkipAcked(s) == FoldLeft(SkipOne, s, [i \in 1..s.window |-> i])

FlushNagle(s) == IF s.window = 1 /\ Unsent(Newest(s)) THEN SendPacket(s, s.seq_nr - 1) ELSE s

AckBits(s, m) ==
  FoldLeft(LAMBDA x, i : IF i > 1 /\ Number(s, i) \in m.sack THEN AckPacket(x, Number(s, i)) ELSE x,
           s, [i \in 1..s.window |-> i])

(* selective_ack: its bits replace the count of duplicate acknowledgements *)
SelectiveAck(s, m) ==
  IF ~m.eack \/ s.window = 0 THEN s
  ELSE LET bits == {i \in 2..s.window : Number(s, i) \in m.sack}
       IN  [AckBits(s, m) EXCEPT !.duplicate_ack = Counted(Cardinality(bits))]

(* The fast resends that may follow send nothing new.                      *)
FastResend(s) ==
  IF s.window > 0 /\ Get(s.outbuf, Oldest(s)).sent THEN {s, MtuReset(s)} ELSE {s}

Acknowledge(s, m) ==
  LET n == Acks(s, m)
  IN  SelectiveAck(FlushNagle(SkipAcked(AckLoop(AckProbe(CountDuplicate(s, m), n), n))), m)

-----------------------------------------------------------------------------
(* The receiver                                                            *)

(* Mutant of Eack: the bits are not limited to the size of the ring.       *)
Eack_AllBits(r) ==
  IF r.reorder_count = 0 THEN {}
  ELSE {Mod(r.ack_nr + i + 2) : i \in {j \in Slots(EackBits) : Get(r.inbuf, r.ack_nr + j + 2) # NULL}}

(* send_ack: the EACK bits as the sequence numbers they stand for          *)
Eack(r) ==
  IF r.reorder_count = 0 THEN {}
  ELSE LET bits == {i \in Slots(Min({EackBits, Size(r.inbuf)})) :
                      Get(r.inbuf, r.ack_nr + i + 2) # NULL}
       IN  {Mod(r.ack_nr + i + 2) : i \in bits}

SendAck(r) == [ack |-> r.ack_nr, eack |-> r.reorder_count > 0, sack |-> Eack(r)]

Deliver(r, data) == [r EXCEPT !.read = @ \o data, !.ack_nr = Mod(@ + 1)]

DrainOne(r, i) ==
  LET p == Get(r.inbuf, r.ack_nr + 1)
  IN  IF r.reorder_count = 0 \/ p = NULL THEN r
      ELSE Deliver([r EXCEPT !.inbuf = Put(@, r.ack_nr + 1, NULL), !.reorder_count = @ - 1],
                   p.data)

Drain(r) == FoldLeft(DrainOne, r, [i \in 1..r.reorder_count |-> i])

ScheduleAck(r) == [r EXCEPT !.ack_due = TRUE]

(* Mutant of Keep: the buffer is grown for the packet, not for the slot    *)
(* after it, which has to stay empty.                                      *)
Keep_Tight(r, m, ahead) ==
  LET grown == [r EXCEPT !.inbuf = EnsureSize(@, m.seq, ahead)]
  IN  IF Get(grown.inbuf, m.seq) # NULL THEN grown
      ELSE ScheduleAck([grown EXCEPT !.inbuf = Put(@, m.seq, m), !.reorder_count = @ + 1])

(* An out-of-order packet: the buffer is grown first, so that no older     *)
(* packet is taken for it.                                                 *)
Keep(r, m, ahead) ==
  LET grown == [r EXCEPT !.inbuf = EnsureSize(@, m.seq + 1, ahead + 1)]
  IN  IF Get(grown.inbuf, m.seq) # NULL THEN grown
      ELSE ScheduleAck([grown EXCEPT !.inbuf = Put(@, m.seq, m), !.reorder_count = @ + 1])

Accept(r, m) ==
  LET ahead == Mod(m.seq - r.ack_nr - 1)
  IN  CASE ahead >= ReorderMax -> IF ahead >= Modulus - ReorderMax THEN ScheduleAck(r) ELSE r
        [] ahead = 0           -> ScheduleAck(Drain(Deliver(r, m.data)))
        [] OTHER               -> Keep(r, m, ahead)

-----------------------------------------------------------------------------
(* Actions                                                                 *)

SenderStep(s) ==
  /\ snd' = [s EXCEPT !.sent = {}]
  /\ net' = net \cup s.sent

(* utp_writev of one packet size, the socket not being full                *)
Write ==
  /\ snd.written < NumWrites /\ snd.window < OutMax - 1
  /\ \E s \in Written(snd) : \E n \in Quotas(s) : SenderStep(FlushPackets(s, n))
  /\ UNCHANGED <<rcv, ack>>

(* check_timeouts, no timer due                                            *)
Flush ==
  /\ \E n \in Quotas(snd) : SenderStep(FlushPackets(snd, n))
  /\ UNCHANGED <<rcv, ack>>

(* The retransmission timer: a probe alone in the window was too large.    *)
TimedOut(s) ==
  LET alone == s.window = 1 /\ Mod(s.seq_nr - 1) = s.mtu_probe_seq /\ s.mtu_probe_seq # 0
      searched == IF alone THEN ProbeLost(s) ELSE [NoProbe(s) EXCEPT !.duplicate_ack = 0]
  IN  IF s.window > 0 THEN SendPacket(searched, Oldest(s)) ELSE searched

Timeout ==
  /\ \E n \in Quotas(snd) : SenderStep(TimedOut(FlushPackets(snd, n)))
  /\ UNCHANGED <<rcv, ack>>

(* mtu_discover_time passes.                                               *)
Rediscover ==
  /\ ~snd.due /\ snd.resets < Resets
  /\ snd' = [snd EXCEPT !.due = TRUE, !.resets = @ + 1]
  /\ UNCHANGED <<rcv, net, ack>>

ReceiveAck ==
  /\ ack # NULL
  /\ \E s \in FastResend(Acknowledge(snd, ack)) : SenderStep(s)
  /\ ack' \in {ack, NULL} /\ UNCHANGED rcv

Receive(m) ==
  /\ rcv' = Accept(rcv, m)
  /\ UNCHANGED <<snd, net, ack>>

(* utp_issue_deferred_acks; the ack is lost, or takes the place of another *)
DeferredAck ==
  /\ rcv.ack_due
  /\ rcv' = [rcv EXCEPT !.ack_due = FALSE]
  /\ ack' \in {ack, SendAck(rcv)}
  /\ UNCHANGED <<snd, net>>

(* send_keep_alive                                                         *)
KeepAlive ==
  /\ rcv' = [rcv EXCEPT !.ack_due = FALSE]
  /\ ack' \in {ack, SendAck([rcv EXCEPT !.ack_nr = Mod(@ - 1)])}
  /\ UNCHANGED <<snd, net>>

Next == \/ Write \/ Flush \/ Timeout \/ Rediscover \/ ReceiveAck
        \/ DeferredAck \/ KeepAlive \/ \E m \in net : Receive(m)

Spec == Init /\ [][Next]_vars

-----------------------------------------------------------------------------
(* Properties                                                              *)

(* Every field has its type, and a ring is a power of two of slots.        *)
IsBuffer(b) ==
  /\ Size(b) \in {n \in Powers : InitialSize <= n /\ n <= Modulus}
  /\ DOMAIN b.elements = Slots(Size(b))

TypeOK ==
  /\ IsBuffer(snd.outbuf) /\ IsBuffer(rcv.inbuf)
  /\ {snd.seq_nr, rcv.ack_nr, snd.mtu_probe_seq} \subseteq 0..(Modulus - 1)
  /\ snd.window \in 0..(OutMax - 1) /\ rcv.reorder_count \in 0..ReorderMax
  /\ {snd.mtu_floor, snd.mtu_ceiling, snd.mtu_last} \subseteq LeastMtu..snd.udp_mtu
  /\ snd.mtu_probe_size \in 0..snd.udp_mtu

(* The packets in a ring, each of which has the slot of its number         *)
Held(b) == {p \in {b.elements[j] : j \in DOMAIN b.elements} : p # NULL}

(* What the receiver has, read or in its ring                              *)
Received == ToSet(rcv.read) \cup UNION {ToSet(p.data) : p \in Held(rcv.inbuf)}

(* Whatever grew and wrapped: a ring holds its packets at their numbers,   *)
(* outbuf the packets of the window and inbuf those past the next one,     *)
(* whose slot is empty (the assertions at 778, 1507, 2404 and 2405), and a *)
(* packet leaves outbuf only when the receiver has it.                     *)
BuffersAgree ==
  /\ \A b \in {snd.outbuf, rcv.inbuf} : \A p \in Held(b) : Get(b, p.seq) = p
  /\ \A p \in Held(snd.outbuf) : InWindow(snd, p.seq)
  /\ snd.window > 0 => Get(snd.outbuf, Oldest(snd)) # NULL
  /\ Cardinality(Held(rcv.inbuf)) = rcv.reorder_count
  /\ \A p \in Held(rcv.inbuf) : Mod(p.seq - rcv.ack_nr - 1) \in 1..(rcv.inbuf.mask - 1)
  /\ (1..snd.written) \ UNION {ToSet(p.data) : p \in Held(snd.outbuf)} \subseteq Received

(* The assertions of mtu_search_update and send_packet, and "the only size *)
(* we know can go through": a floor that was raised has been received.     *)
SearchInterval ==
  /\ snd.mtu_floor <= snd.mtu_last /\ snd.mtu_last <= snd.mtu_ceiling
  /\ snd.mtu_probe_seq # 0 =>
       snd.mtu_floor < snd.mtu_probe_size /\ snd.mtu_probe_size <= snd.mtu_ceiling
  /\ snd.mtu_floor > LeastMtu =>
       \E m \in net : m.length = snd.mtu_floor /\ ToSet(m.data) \subseteq Received

(* The rings, the EACKs read off them and the packets refilled before they *)
(* are sent implement the stream the applications are promised.            *)
Promise == INSTANCE ReliableStream WITH
  End <- {"snd", "rcv"}, Amount <- [snd |-> NumWrites, rcv |-> 0],
  written <- [snd |-> snd.written, rcv |-> 0], read <- [snd |-> << >>, rcv |-> rcv.read],
  eof <- [snd |-> FALSE, rcv |-> FALSE], status <- [snd |-> "open", rcv |-> "open"]

ReliableDelivery == Promise!Spec
=============================================================================

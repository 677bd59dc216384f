----------------------------- MODULE UtpStream -----------------------------
(***************************************************************************)
(* One established uTP connection (libutp/utp_internal.cpp): the send and  *)
(* receive halves of the two sockets, the packets between them, and a      *)
(* network that loses, duplicates and reorders.                            *)
(*                                                                         *)
(* The state of a socket is a record.  What a function of UTPSocket does   *)
(* to it is an operator from records to records, the packets the function  *)
(* sends are collected in the field "sent"; an action applies the function *)
(* and hands the packets to the network.                                   *)
(*                                                                         *)
(* outbuf is the sequence of the cur_window_packets packets below seq_nr,  *)
(* oldest first, NULL where one was acknowledged selectively (module       *)
(* SizableCircularBuffer has the ring they are kept in).  A byte of data   *)
(* is its position in the stream; a full packet holds one.                 *)
(***************************************************************************)
EXTENDS Integers, FiniteSets, SequencesExt

CONSTANTS
  End,         \* the two ends
  Amounts,     \* what the applications may have to write: bytes, per end
  SeqNr,       \* [End -> first sequence number]
  Modulus,     \* 2^16: sequence numbers are modulo Modulus
  ReorderMax,  \* REORDER_BUFFER_MAX_SIZE
  OutMax,      \* OUTGOING_BUFFER_MAX_SIZE
  Window,      \* the max_window a connection begins with, in bytes
  Windows,     \* bound: the values congestion control may give max_window
  DupAcks,     \* DUPLICATE_ACKS_BEFORE_RESEND
  MaxRetrans,  \* timeouts in a row before the socket gives up (4)
  MaxPackets,  \* bound: packets under way to an end
  MayStop,     \* BOOLEAN: may an application close before it is done?
  NULL

ASSUME EndAssumption == IsFiniteSet(End) /\ Cardinality(End) = 2 /\ Amounts \subseteq [End -> Nat]
ASSUME SeqAssumption == /\ Modulus \in Nat \ {0} /\ ReorderMax \in Nat
                        /\ SeqNr \in [End -> 0..(Modulus - 1)]
                        /\ 2 * ReorderMax <= Modulus /\ OutMax <= ReorderMax
ASSUME LimitAssumption == /\ {Window, DupAcks, MaxRetrans} \subseteq Nat \ {0}
                          /\ OutMax \in Nat /\ OutMax > 1
                          /\ Windows \subseteq 0..Window /\ MaxPackets \in Nat /\ MayStop \in BOOLEAN

(* OutgoingPacket; the transmissions are counted up to two.                *)
Packet == [type: {"DATA", "FIN"}, data: {d \in Seq(Nat) : Len(d) <= 1},
           transmissions: 0..2, need_resend: BOOLEAN]

ASSUME NullAssumption == NULL \notin Packet

VARIABLES
  sock,       \* [End -> the socket]
  net         \* [End -> packets under way to it]

vars == <<sock, net>>

Peer(e) == CHOOSE f \in End : f # e

(* "GONE": the socket was deleted.  GOT_FIN is passed in one step: the     *)
(* application closes in the callback.                                     *)
State == {"CONNECTED", "CONNECTED_FULL", "DESTROY_DELAY", "FIN_SENT",
          "RESET", "DESTROY", "GONE"}

Connected == {"CONNECTED", "CONNECTED_FULL"}

(* The socket when it becomes connected.  left is what the application has *)
(* still to write, written what it wrote, read what on_read was given; eof *)
(* and failed tell that it was given an EOF, an error.                     *)
NewSocket(e, amount) ==
  [state |-> "CONNECTED", seq_nr |-> SeqNr[e], ack_nr |-> (SeqNr[Peer(e)] - 1) % Modulus,
   outbuf |-> << >>, cur_window |-> 0, max_window |-> Window,
   fast_resend_seq_nr |-> SeqNr[e], fast_timeout |-> FALSE, retransmit_count |-> 0,
   inbuf |-> {}, reorder_count |-> 0, got_fin |-> FALSE, eof_pkt |-> 0,
   ack_due |-> FALSE, left |-> amount, written |-> 0, read |-> << >>,
   eof |-> FALSE, failed |-> FALSE, sent |-> {}]

Init ==
  /\ \E amount \in Amounts : sock = [e \in End |-> NewSocket(e, amount[e])]
  /\ net = [e \in End |-> {}]

-----------------------------------------------------------------------------
(* Sequence numbers                                                        *)

Mod(n) == n % Modulus

(* wrapping_compare_less                                                   *)
WrappingLess(a, b) == Mod(b - a) < Mod(a - b)

Packets(s) == Len(s.outbuf)       \* cur_window_packets

Oldest(s) == Mod(s.seq_nr - Packets(s))

Pending(p) == p # NULL /\ (p.transmissions = 0 \/ p.need_resend)

-----------------------------------------------------------------------------
(* Sending                                                                 *)

(* send_data: whatever is sent, the socket leaves the ack list.            *)
SendData(s, packet) == [s EXCEPT !.sent = @ \cup {packet}, !.ack_due = FALSE]

(* send_ack, the EACK bits as the set of sequence numbers they stand for   *)
SendAck(s) ==
  SendData(s, [type |-> "STATE", seq |-> s.seq_nr, ack |-> s.ack_nr, data |-> << >>,
               sack |-> IF s.reorder_count # 0 /\ s.state \in {"CONNECTED", "CONNECTED_FULL"}
                        THEN {p.seq : p \in s.inbuf} ELSE {}])

(* send_packet of the i-th packet of outbuf (transmissions: none, 1, more) *)
SendPacket(s, i) ==
  LET p == s.outbuf[i]
  IN  SendData([s EXCEPT
        !.cur_window = IF Pending(p) THEN @ + Len(p.data) ELSE @,
        !.outbuf[i] = [p EXCEPT !.need_resend = FALSE,
                                !.transmissions = IF @ = 0 THEN 1 ELSE 2]],
        [type |-> p.type, seq |-> Mod(Oldest(s) + i - 1), ack |-> s.ack_nr,
         data |-> p.data, sack |-> {}])

(* is_full for one packet; max_window may shrink below one packet.         *)
IsFull(s) == Packets(s) >= OutMax - 1 \/ s.cur_window + 1 > s.max_window

(* Mutant of FlushPacket: no Nagle check.                                  *)
FlushPacket_NoNagle(f, i) ==
  LET s == f.sock
  IN  IF f.stop \/ ~Pending(s.outbuf[i]) THEN f
      ELSE IF IsFull(s) THEN [f EXCEPT !.stop = TRUE]
      ELSE [f EXCEPT !.sock = SendPacket(s, i)]

(* flush_packets, with Nagle's rule for the last packet: it is held back   *)
(* while others are unacknowledged, unless it is full.  The flag stop ends *)
(* the loop.                                                               *)
FlushPacket(f, i) ==
  LET s == f.sock
      p == s.outbuf[i]
  IN  IF f.stop \/ ~Pending(p) THEN f
      ELSE IF IsFull(s) THEN [f EXCEPT !.stop = TRUE]
      ELSE IF i # Packets(s) \/ Packets(s) = 1 \/ Len(p.data) >= 1
           THEN [f EXCEPT !.sock = SendPacket(s, i)]
           ELSE f

FlushPackets(s) ==
  FoldLeft(FlushPacket, [sock |-> s, stop |-> FALSE],
           [i \in 1..Packets(s) |-> i]).sock

(* Mutant of WriteOutgoingPacket: seq_nr is wider than 16 bits.            *)
WriteOutgoingPacket_Wide(s, type, data) ==
  FlushPackets([s EXCEPT
    !.outbuf = Append(@, [type |-> type, data |-> data, transmissions |-> 0,
                          need_resend |-> FALSE]),
    !.seq_nr = @ + 1])

(* write_outgoing_packet                                                   *)
WriteOutgoingPacket(s, type, data) ==
  FlushPackets([s EXCEPT
    !.outbuf = Append(@, [type |-> type, data |-> data, transmissions |-> 0,
                          need_resend |-> FALSE]),
    !.seq_nr = Mod(@ + 1)])

-----------------------------------------------------------------------------
(* Acknowledgements                                                        *)

(* Mutant of AckPacket: a packet given up as lost is subtracted again.     *)
AckPacket_Twice(s, i) ==
  LET p == s.outbuf[i]
  IN  IF p = NULL \/ p.transmissions = 0 THEN s
      ELSE [s EXCEPT !.cur_window = @ - Len(p.data), !.retransmit_count = 0,
                     !.outbuf[i] = NULL]

(* ack_packet of the i-th packet; the caller removes or clears its place   *)
AckPacket(s, i) ==
  LET p == s.outbuf[i]
  IN  IF p = NULL \/ p.transmissions = 0 THEN s
      ELSE [s EXCEPT !.cur_window = IF p.need_resend THEN @ ELSE @ - Len(p.data),
                     !.retransmit_count = 0,
                     !.outbuf[i] = NULL]

DropOldest(s) == [s EXCEPT !.outbuf = Tail(@)]

(* The loop over acks packets, which ends at one that was never sent       *)
AckOldest(s, i) ==
  IF s.outbuf[1] # NULL /\ s.outbuf[1].transmissions = 0 THEN s
  ELSE DropOldest(AckPacket(s, 1))

AckLoop(s, acks) == FoldLeft(AckOldest, s, [i \in 1..acks |-> i])

(* Mutant of SkipAcked: it does not look beyond the cumulative ack.        *)
SkipAcked_Not(s) == s

(* "packets in front of this may have been acked by a selective ack"       *)
SkipAcked(s) ==
  LET live == {i \in 1..Packets(s) : s.outbuf[i] # NULL}
  IN  [s EXCEPT !.outbuf =
         IF live = {} THEN << >> ELSE SubSeq(@, Min(live), Len(@))]

FlushNagle(s) ==
  IF Packets(s) = 1 /\ s.outbuf[1].transmissions = 0 THEN SendPacket(s, 1) ELSE s

FastTimeout(s) ==
  IF ~s.fast_timeout THEN s
  ELSE IF Oldest(s) # s.fast_resend_seq_nr THEN [s EXCEPT !.fast_timeout = FALSE]
  ELSE IF Packets(s) > 0 /\ s.outbuf[1] # NULL /\ s.outbuf[1].transmissions > 0
       THEN SendPacket([s EXCEPT !.fast_resend_seq_nr = Mod(@ + 1)], 1)
       ELSE s

(* selective_ack.  The packets after the oldest are looked at from the     *)
(* newest down: those in the mask are acknowledged and counted, those      *)
(* missing below enough of them are sent again, lowest first, at most 4.   *)
MaxResend == 4

NotYetResent(s, i) == Mod(Oldest(s) + i - 1 - s.fast_resend_seq_nr) <= OutMax

Resend(s, i) ==
  [SendPacket(s, i) EXCEPT !.fast_resend_seq_nr = Mod(Oldest(s) + i)]

SelectiveAck(s, ack, sack) ==
  IF sack = {} \/ Packets(s) = 0 THEN s
  ELSE
    LET places   == 1..Packets(s)
        number(i) == Mod(Oldest(s) + i - 1)
        seen     == {i \in places : i > 1 /\ number(i) \in sack}
        above(i) == {j \in seen : j > i}
        acked    == FoldLeft(LAMBDA x, i : IF i \in seen THEN AckPacket(x, i) ELSE x,
                             s, [i \in places |-> i])
        sent(i)  == s.outbuf[i] # NULL /\ s.outbuf[i].transmissions > 0
        lost     == {i \in places \ seen :
                       /\ NotYetResent(s, i) /\ Cardinality(above(i)) >= DupAcks
                       /\ number(i) = Mod(ack + 1) \/ (i > 1 /\ sent(i))
                       /\ acked.outbuf[i] # NULL}
        again    == {i \in lost : Cardinality({j \in lost : j < i}) < MaxResend}
    IN  FoldLeft(LAMBDA x, i : IF i \in again THEN Resend(x, i) ELSE x,
                 acked, [i \in places |-> i])

-----------------------------------------------------------------------------
(* The application: it writes what it has until the socket is full, and    *)
(* closes when everything is written (callback_on_state_change, sendBytes) *)

(* utp_writev of one packet                                                *)
Writev(s) ==
  IF s.state # "CONNECTED" \/ s.left = 0 THEN s
  ELSE IF IsFull(s) THEN [s EXCEPT !.state = "CONNECTED_FULL"]
  ELSE WriteOutgoingPacket([s EXCEPT !.left = @ - 1, !.written = @ + 1],
                           "DATA", <<s.written + 1>>)

(* utp_close of a connected socket                                         *)
Close(s) == WriteOutgoingPacket([s EXCEPT !.state = "FIN_SENT"], "FIN", << >>)

Write(s) ==
  LET done == FoldLeft(LAMBDA x, i : Writev(x), s, [i \in 1..s.left |-> i])
  IN  IF s.left > 0 /\ done.left = 0 THEN Close(done) ELSE done

(* The socket is marked writable when the window has room again.           *)
Writable(s) ==
  IF s.state = "CONNECTED_FULL" /\ ~IsFull(s)
  THEN Write([s EXCEPT !.state = "CONNECTED"]) ELSE s

(* An error: the application closes the socket if it still has it.         *)
Fail(s, unheld) ==
  [s EXCEPT !.failed = TRUE, !.state = IF @ \in Connected THEN "DESTROY" ELSE unheld]

-----------------------------------------------------------------------------
(* utp_process_incoming                                                    *)

(* How far past the next expected packet this one is                       *)
Ahead(s, m) == Mod(m.seq - s.ack_nr - 1)

(* Mutant of Acks: one packet too many.                                    *)
Acks_Next(s, m) ==
  LET n == Mod(m.ack - (s.seq_nr - 2 - Packets(s)))
  IN  IF n > Packets(s) THEN 0 ELSE n

(* How many packets it acknowledges; an old ack acknowledges none.         *)
Acks(s, m) ==
  LET n == Mod(m.ack - (s.seq_nr - 1 - Packets(s)))
  IN  IF n > Packets(s) THEN 0 ELSE n

(* The acknowledgements of m; w is what congestion control makes of the    *)
(* window, if the packet acknowledges anything.                            *)
MayChangeWindow(s, m) == Acks(s, m) > 0 \/ m.sack # {}

(* Mutant of Acknowledge: any new ack ends a closed connection.            *)
Acknowledge_AnyAck(s, m, w) ==
  LET n     == Acks(s, m)
      after == Mod(m.ack + 1)
      s1    == [s EXCEPT
                  !.max_window = w,
                  !.state = IF @ = "FIN_SENT" /\ n > 0 THEN "DESTROY" ELSE @,
                  !.fast_resend_seq_nr = IF WrappingLess(@, after) THEN after ELSE @]
  IN  Writable(SelectiveAck(FastTimeout(FlushNagle(SkipAcked(AckLoop(s1, n)))),
                            m.ack, m.sack))

Acknowledge(s, m, w) ==
  LET n     == Acks(s, m)
      after == Mod(m.ack + 1)
      s1    == [s EXCEPT
                  !.max_window = w,
                  !.state = IF @ = "FIN_SENT" /\ Packets(s) = n THEN "DESTROY" ELSE @,
                  !.fast_resend_seq_nr = IF WrappingLess(@, after) THEN after ELSE @]
  IN  Writable(SelectiveAck(FastTimeout(FlushNagle(SkipAcked(AckLoop(s1, n)))),
                            m.ack, m.sack))

(* Mutant of Deliver: on_read is called after the application has closed.  *)
Deliver_AfterClose(s, data) ==
  [s EXCEPT !.read = @ \o data, !.ack_nr = Mod(@ + 1)]

(* on_read, unless the application has closed                              *)
Deliver(s, data) ==
  [s EXCEPT !.read = IF s.state = "FIN_SENT" THEN @ ELSE @ \o data, !.ack_nr = Mod(@ + 1)]

(* The FIN is next: EOF is posted, the application closes.                 *)
Eof(s) ==
  [SendAck(IF s.state = "FIN_SENT" THEN s
           ELSE [s EXCEPT !.state = "DESTROY_DELAY", !.eof = TRUE])
     EXCEPT !.reorder_count = 0]

AtEof(s) == s.got_fin /\ s.eof_pkt = s.ack_nr

(* Mutant of DrainOne: reorder_count is left as it is.                     *)
DrainOne_NotCounted(s, i) ==
  LET next == {p \in s.inbuf : p.seq = Mod(s.ack_nr + 1)}
  IN  IF AtEof(s) THEN Eof(s)
      ELSE IF s.reorder_count = 0 \/ next = {} THEN s
      ELSE LET p == CHOOSE q \in next : TRUE
           IN  Deliver([s EXCEPT !.inbuf = @ \ {p}], p.data)

(* One turn of the loop over the reorder buffer                            *)
DrainOne(s, i) ==
  LET next == {p \in s.inbuf : p.seq = Mod(s.ack_nr + 1)}
  IN  IF AtEof(s) THEN Eof(s)
      ELSE IF s.reorder_count = 0 \/ next = {} THEN s
      ELSE LET p == CHOOSE q \in next : TRUE
           IN  Deliver([s EXCEPT !.inbuf = @ \ {p}, !.reorder_count = @ - 1], p.data)

Drain(s) == FoldLeft(DrainOne, s, [i \in 1..(Cardinality(s.inbuf) + 1) |-> i])

ScheduleAck(s) == [s EXCEPT !.ack_due = TRUE]

GotFin(s, m) ==
  IF m.type = "FIN" /\ ~s.got_fin THEN [s EXCEPT !.got_fin = TRUE, !.eof_pkt = m.seq] ELSE s

(* A packet past the next one is kept, unless it is past the FIN or known. *)
Keep(s, m) ==
  IF (s.got_fin /\ m.seq > s.eof_pkt) \/ \E p \in s.inbuf : p.seq = m.seq THEN s
  ELSE ScheduleAck([s EXCEPT !.inbuf = @ \cup {[seq |-> m.seq, data |-> m.data]},
                             !.reorder_count = @ + 1])

Accept(s, m) ==
  IF Ahead(s, m) = 0 THEN ScheduleAck(Drain(Deliver(GotFin(s, m), m.data)))
  ELSE Keep(GotFin(s, m), m)

ProcessIncoming(s, m, w) ==
  CASE Ahead(s, m) >= ReorderMax ->
         IF Ahead(s, m) >= Modulus - ReorderMax /\ m.type # "STATE" THEN ScheduleAck(s) ELSE s
    [] OTHER ->
         LET a == Acknowledge(s, m, w)
         IN  IF m.type = "STATE" \/ a.state \notin Connected \cup {"FIN_SENT"} THEN a
             ELSE Accept(a, m)

-----------------------------------------------------------------------------
(* Timers: utp_check_timeouts, and the deletion that follows in the pass   *)

(* Mutant of Lost: retransmissions are not counted.                        *)
Lost_Uncounted(s) ==
  LET late(p) == p # NULL /\ p.transmissions > 0 /\ ~p.need_resend
      bytes   == FoldLeft(LAMBDA n, p : IF late(p) THEN n + Len(p.data) ELSE n, 0, s.outbuf)
      marked  == [s EXCEPT !.cur_window = @ - bytes,
                           !.outbuf = [i \in DOMAIN @ |->
                              IF late(@[i]) THEN [@[i] EXCEPT !.need_resend = TRUE] ELSE @[i]]]
  IN  IF Packets(s) = 0 THEN s ELSE SendPacket([marked EXCEPT !.fast_timeout = TRUE], 1)

(* Every packet is considered lost and the oldest is sent again.           *)
Lost(s) ==
  LET late(p) == p # NULL /\ p.transmissions > 0 /\ ~p.need_resend
      bytes   == FoldLeft(LAMBDA n, p : IF late(p) THEN n + Len(p.data) ELSE n, 0, s.outbuf)
      marked  == [s EXCEPT !.cur_window = @ - bytes,
                           !.outbuf = [i \in DOMAIN @ |->
                              IF late(@[i]) THEN [@[i] EXCEPT !.need_resend = TRUE] ELSE @[i]]]
  IN  IF Packets(s) = 0 THEN s
      ELSE SendPacket([marked EXCEPT !.retransmit_count = @ + 1, !.fast_timeout = TRUE], 1)

(* An idle connection loses a third of its window, any other all but one   *)
(* packet of it.                                                           *)
(* Mutant of Shrunk: the window of an idle connection is only ever reduced. *)
Shrunk_Idle(s) ==
  [s EXCEPT !.max_window = IF Packets(s) = 0 THEN (@ * 2) \div 3 ELSE 1]

Shrunk(s) ==
  [s EXCEPT !.max_window = IF Packets(s) = 0 /\ @ > 1 THEN Max({(@ * 2) \div 3, 1}) ELSE 1]

GivesUp(s) == s.retransmit_count >= MaxRetrans

(* ignore_loss: a packet alone in the window may be a probe of the search  *)
(* for the MTU (module UtpTransfer), whose loss does not shrink it.        *)
Congested(s) == IF Packets(s) = 1 THEN {s, Shrunk(s)} ELSE {Shrunk(s)}

(* The retransmission timer                                                *)
TimedOut(s) == IF GivesUp(s) THEN {[Fail(s, "DESTROY") EXCEPT !.state = "GONE"]}
               ELSE {Writable(Lost(t)) : t \in Congested(s)}

(* A keep-alive is an ack for a packet already acknowledged.               *)
KeptAlive(s) == [SendAck([s EXCEPT !.ack_nr = Mod(@ - 1)]) EXCEPT !.ack_nr = s.ack_nr]

-----------------------------------------------------------------------------
(* Actions.  The network loses any of the packets sent, all beyond its     *)
(* bound.  What arrives may arrive again.                                  *)

Step(e, s, rest) ==
  \E kept \in SUBSET s.sent :
    /\ Cardinality(net[Peer(e)] \cup kept) <= MaxPackets
    /\ sock' = [sock EXCEPT ![e] = [s EXCEPT !.sent = {}]]
    /\ net' = [rest EXCEPT ![Peer(e)] = @ \cup kept]

(* What is left of the network once e has received m                       *)
Received(e, m) == {net, [net EXCEPT ![e] = @ \ {m}]}

(* The callback for CONNECT of an end that has something to send           *)
Start(e) ==
  /\ sock[e].state = "CONNECTED" /\ sock[e].written = 0 /\ sock[e].left > 0
  /\ Step(e, Write(sock[e]), net)

(* stopHash, or a receiver that does not want the file                     *)
Stop(e) ==
  /\ MayStop /\ sock[e].state \in Connected
  /\ Step(e, Close(sock[e]), net)

Receive(e, m) ==
  /\ m.type # "RESET" /\ sock[e].state # "GONE"
  /\ \E w \in Windows \cup {sock[e].max_window}, rest \in Received(e, m) :
       /\ w = sock[e].max_window \/ MayChangeWindow(sock[e], m)
       /\ Step(e, ProcessIncoming(sock[e], m, w), rest)

(* A RST for this socket                                                   *)
ReceiveReset(e, m) ==
  /\ m.type = "RESET" /\ sock[e].state # "GONE"
  /\ \E rest \in Received(e, m) :
       Step(e, Fail(sock[e], IF sock[e].state = "FIN_SENT" THEN "DESTROY" ELSE "RESET"), rest)

(* A packet for a socket that was deleted is answered with a RST.          *)
Refuse(e, m) ==
  /\ sock[e].state = "GONE"
  /\ LET rst == [type |-> "RESET", seq |-> 0, ack |-> m.seq, data |-> << >>, sack |-> {}]
     IN  Step(e, [sock[e] EXCEPT !.sent = IF m.type = "RESET" THEN {} ELSE {rst}],
              [net EXCEPT ![e] = @ \ {m}])

(* utp_issue_deferred_acks                                                 *)
DeferredAck(e) == sock[e].ack_due /\ sock[e].state # "GONE" /\ Step(e, SendAck(sock[e]), net)

(* check_timeouts, no timer being due                                      *)
Flush(e) ==
  /\ sock[e].state \notin {"DESTROY", "GONE"}
  /\ LET s == Writable(FlushPackets(sock[e])) IN s # sock[e] /\ Step(e, s, net)

Timeout(e) ==
  /\ sock[e].state \in Connected \cup {"FIN_SENT"}
  /\ \E s \in TimedOut(FlushPackets(sock[e])) : Step(e, s, net)

KeepAlive(e) ==
  /\ sock[e].state \in Connected \cup {"FIN_SENT"}
  /\ Step(e, KeptAlive(Writable(FlushPackets(sock[e]))), net)

(* The delay of a closed socket is over, whatever is unacknowledged.       *)
DelayOver(e) ==
  /\ sock[e].state = "DESTROY_DELAY"
  /\ Step(e, LET s == FlushPackets(sock[e])
             IN  [s EXCEPT !.state = "GONE", !.failed = @ \/ Packets(s) > 0], net)

Reap(e) == sock[e].state = "DESTROY" /\ Step(e, [sock[e] EXCEPT !.state = "GONE"], net)

Next ==
  \E e \in End :
    \/ Start(e) \/ Stop(e) \/ DeferredAck(e) \/ Flush(e) \/ Timeout(e) \/ KeepAlive(e)
    \/ DelayOver(e) \/ Reap(e)
    \/ \E m \in net[e] : Receive(e, m) \/ ReceiveReset(e, m) \/ Refuse(e, m)

Spec == Init /\ [][Next]_vars

-----------------------------------------------------------------------------
(* Properties                                                              *)

Numbers(n) == [i \in 1..n |-> i]

(* Every field has its type; sequence numbers stay within their width.     *)
TypeOK ==
  \A e \in End :
    /\ sock[e].state \in State
    /\ {sock[e].seq_nr, sock[e].ack_nr, sock[e].fast_resend_seq_nr, sock[e].eof_pkt}
         \subseteq 0..(Modulus - 1)
    /\ Packets(sock[e]) \in 0..OutMax
    /\ sock[e].cur_window \in 0..OutMax /\ sock[e].max_window \in 0..Window
    /\ sock[e].reorder_count \in 0..ReorderMax

(* The assertion at 2183, 2232 and 1103: the oldest packet of the window   *)
(* is never one that was acknowledged.                                     *)
OldestUnacked == \A e \in End : sock[e].outbuf # << >> => sock[e].outbuf[1] # NULL

(* check_invariant: cur_window is the bytes sent and not yet acknowledged  *)
(* or given up as lost, through all resends, partial acks and timeouts.    *)
WindowAccounting ==
  \A e \in End :
    sock[e].cur_window =
      FoldLeft(LAMBDA n, p : IF p # NULL /\ p.transmissions > 0 /\ ~p.need_resend
                             THEN n + Len(p.data) ELSE n, 0, sock[e].outbuf)

(* The assertions at 771 and 2341: reorder_count counts the packets in the *)
(* reorder buffer, and the next one expected is never left in it.          *)
ReorderBuffer ==
  \A e \in End : sock[e].state \in Connected =>
    /\ sock[e].reorder_count = Cardinality(sock[e].inbuf)
    /\ \A p \in sock[e].inbuf : p.seq # Mod(sock[e].ack_nr + 1)

(* A packet leaves the send buffer only when the peer has its bytes, read  *)
(* or waiting in its reorder buffer (or has closed and wants no more).     *)
AckedIsReceived ==
  \A e \in End :
    LET peer == sock[Peer(e)]
        held == UNION {Range(p.data) : p \in Range(sock[e].outbuf) \ {NULL}}
        got  == Range(peer.read) \cup UNION {Range(p.data) : p \in peer.inbuf}
    IN  peer.state \in Connected => (1..sock[e].written) \ held \subseteq got

(* Nagle's rule holds a FIN back until everything before it was            *)
(* acknowledged, so a FIN never waits in a reorder buffer and the unsigned *)
(* comparison with eof_pkt (2355), which does not wrap, drops no data.     *)
FinIsLast ==
  \A e \in End : \A m \in net[e] :
    m.type = "FIN" /\ sock[e].state \in Connected => Ahead(sock[e], m) = 0

(* What libutp promises the applications                                   *)
Status(s) ==
  CASE s.failed -> "failed"
    [] s.state \in Connected -> "open"
    [] s.state \in {"FIN_SENT", "DESTROY_DELAY"} -> "closed"
    [] OTHER -> "done"

Promise == INSTANCE ReliableStream WITH
  Amount <- [e \in End |-> Max({amount[e] : amount \in Amounts})],
  written <- [e \in End |-> sock[e].written], read <- [e \in End |-> sock[e].read],
  eof <- [e \in End |-> sock[e].eof], status <- [e \in End |-> Status(sock[e])]

(* In-order delivery without gaps or repetitions, an EOF only after all of *)
(* it, and a close in good order only when the peer has it.                *)
ReliableDelivery == Promise!Spec

-----------------------------------------------------------------------------
(* Fairness: utp_check_timeouts goes over all sockets every half second,   *)
(* and an incoming packet puts off the retransmission timer only if it     *)
(* acknowledges something new (rto_timeout in ack_packet).  Nothing is     *)
(* assumed of the network, which may lose everything.  This is weak        *)
(* fairness with the enabling condition of each timer written out.         *)
TimerDue(s) == /\ s.state \in Connected \cup {"FIN_SENT"}
               /\ \E t \in TimedOut(FlushPackets(s)) : [t EXCEPT !.sent = {}] # s

LiveSpec ==
  /\ Spec
  /\ \A e \in End :
       /\ []<>~TimerDue(sock[e]) \/ []<><<Timeout(e)>>_vars
       /\ []<>(sock[e].state # "DESTROY") \/ []<><<Reap(e)>>_vars
       /\ []<>(sock[e].state # "DESTROY_DELAY") \/ []<><<DelayOver(e)>>_vars

(* Once an end has closed, its socket is deleted, or left in RESET.        *)
Closes ==
  \A e \in End : (sock[e].state \in {"FIN_SENT", "DESTROY_DELAY"}) ~>
                 (sock[e].state \in {"GONE", "RESET"})

(* A full socket becomes writable or fails, even if congestion control     *)
(* made its window smaller than a packet.                                  *)
Unblocks == \A e \in End : (sock[e].state = "CONNECTED_FULL") ~>
                           (sock[e].state # "CONNECTED_FULL")
=============================================================================

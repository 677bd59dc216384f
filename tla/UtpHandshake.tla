---------------------------- MODULE UtpHandshake ----------------------------
(***************************************************************************)
(* How uTP connections between two nodes are set up, found and torn down:  *)
(* connection ids, the table of sockets, SYN and SYN-ACK, RST, and the     *)
(* record of the RSTs already sent.  Either node can connect to the other. *)
(*                                                                         *)
(* Of an established connection (module UtpStream) only what has to do     *)
(* with ids is left: its packets and its end.  CONNECTED stands for        *)
(* CS_CONNECTED_FULL too; a CS_GOT_FIN socket is closed by the application *)
(* in the same step.  Storjutp holds a socket that initiated until it is   *)
(* closed; whether it holds one it accepted (the header may not have come) *)
(* is left open.  What it holds it closes after an error.                  *)
(*                                                                         *)
(* The field conn of sockets and packets tells which utp_connect they come *)
(* from.  It is not in the code: the properties compare it with what the   *)
(* code makes of the ids.  It also stands for the sequence number.         *)
(***************************************************************************)
EXTENDS Integers, FiniteSets

CONSTANTS
  End,          \* the two nodes
  Seeds,        \* what utp_call_get_random can return for a conn_seed
  Modulus,      \* 2^16: ids are cut to this on the wire, not in a socket
  MaxSyns,      \* retransmissions of a SYN before it is given up
  MaxSockets,   \* a node with more sockets accepts no more
  RstLimit,     \* a node with more RSTs on record sends no more
  MaxConnects,  \* bound: calls of utp_connect
  MaxPackets    \* bound: packets under way

ASSUME EndAssumption   == \E e, f \in End : e # f /\ End = {e, f}
ASSUME BoundAssumption == MaxSyns \in Nat /\ MaxConnects \in Nat /\ MaxPackets \in Nat
ASSUME SeedAssumption  == Modulus \in Nat \ {0} /\ Seeds \subseteq 0..(Modulus - 1)

VARIABLES
  sockets,   \* [End -> set of sockets]: utp_sockets, all for one address
  net,       \* the packets under way
  rst_info,  \* [End -> set of refused packets on record]
  connects,  \* utp_connect was called so often
  clash      \* a seed was drawn whose ids were in use, a history

vars == <<sockets, net, rst_info, connects, clash>>

Other(e) == CHOOSE f \in End : f # e

State == {"SYN_SENT", "CONNECTED", "FIN_SENT", "DESTROY_DELAY", "RESET", "DESTROY"}

Socket == [recv: 0..Modulus, send: 0..Modulus, state: State, syns: 0..MaxSyns,
           conn: 1..MaxConnects]

Packet == [to: End, type: {"SYN", "STATE", "DATA", "FIN", "RESET"},
           id: 0..(Modulus - 1), conn: 1..MaxConnects]

Init ==
  /\ sockets = [e \in End |-> {}]
  /\ net = {}
  /\ rst_info = [e \in End |-> {}]
  /\ connects = 0
  /\ clash = FALSE

-----------------------------------------------------------------------------
(* The socket that has a receive id: utp_sockets->Lookup                   *)
Lookup(e, id) == {s \in sockets[e] : s.recv = id}

(* The sockets that called utp_connect                                     *)
Initiator(s) == s.send = s.recv + 1

Replace(e, s, t) == sockets' = [sockets EXCEPT ![e] = (@ \ {s}) \cup {t}]

Remove(e, s) == sockets' = [sockets EXCEPT ![e] = @ \ {s}]

(* Mutant of ConnId: one below the receive id, as if always accepted.      *)
ConnId_Accepted(s, type) == IF type = "SYN" THEN s.recv ELSE s.recv - 1

(* "SYN packets are special, and have the receive ID in the connid field"  *)
ConnId(s, type) == (IF type = "SYN" THEN s.recv ELSE s.send) % Modulus

Packets(e, s, types) ==
  {[to |-> Other(e), type |-> t, id |-> ConnId(s, t), conn |-> s.conn] : t \in types}

(* Packets are sent; the network drops what it has no room for.            *)
Send(out) ==
  net' \in IF Cardinality(net \cup out) <= MaxPackets THEN {net \cup out}
          ELSE {n \in SUBSET (net \cup out) : Cardinality(n) = MaxPackets}

(* A packet under way is lost.  It may also be received more than once.    *)
Lose(p) == net' = net \ {p} /\ UNCHANGED <<sockets, rst_info, connects, clash>>

-----------------------------------------------------------------------------
(* Connecting                                                              *)

(* The ids that sockets and packets of either node use or will use         *)
InUse ==
  (UNION {{s.recv, s.send} : s \in UNION {sockets[e] : e \in End}})
  \cup (UNION {IF p.type = "SYN" THEN {p.id, p.id + 1} ELSE {p.id} : p \in net})

(* Mutant of FreeSeed: the first random seed is taken.                     *)
FreeSeed_Any(e, seed) == TRUE

(* utp_initialize_socket draws until no socket has the seed as receive id. *)
FreeSeed(e, seed) == Lookup(e, seed) = {}

Connect(e, seed) ==
  /\ connects < MaxConnects /\ connects' = connects + 1
  /\ FreeSeed(e, seed)
  /\ LET s == [recv |-> seed, send |-> seed + 1, state |-> "SYN_SENT", syns |-> 0,
               conn |-> connects + 1]
     IN  /\ sockets' = [sockets EXCEPT ![e] = @ \cup {s}]
         /\ Send(Packets(e, s, {"SYN"}))
  /\ clash' = (clash \/ {seed, seed + 1} \cap InUse # {})
  /\ UNCHANGED rst_info

(* Mutant of GivesUp: a SYN is sent again for ever.                        *)
GivesUp_Never(s) == FALSE

GivesUp(s) == s.syns >= MaxSyns

(* check_timeouts of a socket in CS_SYN_SENT: the SYN is sent again, or    *)
(* the error makes the application close the socket, which is deleted.     *)
SynTimeout(e, s) ==
  /\ s.state = "SYN_SENT"
  /\ IF GivesUp(s)
     THEN Remove(e, s) /\ net' = net
     ELSE Replace(e, s, [s EXCEPT !.syns = IF @ < MaxSyns THEN @ + 1 ELSE @])
          /\ Send(Packets(e, s, {"SYN"}))
  /\ UNCHANGED <<rst_info, connects, clash>>

(* Mutant of KnownSyn: a repeated SYN makes another socket.                *)
KnownSyn_Never(e, p) == FALSE

(* "rejected incoming connection, connection already exists"               *)
KnownSyn(e, p) == Lookup(e, p.id + 1) # {}

(* A SYN makes a socket and is answered.  A SYN that is known, or one too  *)
(* many, is dropped in silence, as if the network had lost it.             *)
ReceiveSyn(e, p) ==
  /\ p.type = "SYN" /\ ~KnownSyn(e, p) /\ Cardinality(sockets[e]) <= MaxSockets
  /\ LET s == [recv |-> p.id + 1, send |-> p.id, state |-> "CONNECTED", syns |-> 0,
               conn |-> p.conn]
     IN  /\ sockets' = [sockets EXCEPT ![e] = @ \cup {s}]
         /\ Send(Packets(e, s, {"STATE"}))
  /\ UNCHANGED <<rst_info, connects, clash>>

-----------------------------------------------------------------------------
(* An established connection                                               *)

(* What the acknowledgements of a packet bring about: the new socket and   *)
(* the packets it sends.  Any packet connects a socket in CS_SYN_SENT; a   *)
(* sender that may write does, and closes after its last byte; an ack of   *)
(* the FIN, if the packet is one, ends a closed connection.                *)
Closed(s) == [s EXCEPT !.state = "FIN_SENT"]

Acknowledged(s) ==
  CASE s.state = "SYN_SENT" ->
         {<<[s EXCEPT !.state = "CONNECTED"], {"DATA"}>>,
          <<Closed(s), {"DATA", "FIN"}>>}
    [] s.state = "CONNECTED" /\ Initiator(s) ->
         {<<s, {}>>, <<s, {"DATA"}>>, <<Closed(s), {"DATA", "FIN"}>>}
    [] s.state = "FIN_SENT" -> {<<s, {}>>, <<[s EXCEPT !.state = "DESTROY"], {}>>}
    [] OTHER -> {<<s, {}>>}

(* What its payload brings about: data may be rejected; a FIN in order     *)
(* ends the connection, any other has to wait.  Both are acknowledged.     *)
Payload(s, type) ==
  CASE type = "STATE" \/ s.state \notin {"CONNECTED", "FIN_SENT"} -> {<<s, {}>>}
    [] type = "DATA" /\ s.state = "CONNECTED" /\ ~Initiator(s) ->
         {<<s, {"STATE"}>>, <<Closed(s), {"STATE", "FIN"}>>}
    [] type = "FIN" /\ s.state = "CONNECTED" ->
         {<<s, {"STATE"}>>, <<[s EXCEPT !.state = "DESTROY_DELAY"], {"STATE"}>>}
    [] OTHER -> {<<s, {"STATE"}>>}

(* utp_process_udp finds the socket by its receive id.                     *)
Receive(e, p) ==
  /\ p.type \in {"STATE", "DATA", "FIN"}
  /\ \E s \in Lookup(e, p.id) :
       \E a \in Acknowledged(s) : \E b \in Payload(a[1], p.type) :
         Replace(e, s, b[1]) /\ Send(Packets(e, s, a[2] \cup b[2]))
  /\ UNCHANGED <<rst_info, connects, clash>>

(* Retransmission, a late ack or a keep-alive                              *)
Repeat(e, s, type) ==
  /\ \/ type = "STATE" /\ s.state \in {"CONNECTED", "FIN_SENT"}
     \/ type = "DATA" /\ s.state = "CONNECTED" /\ Initiator(s)
     \/ type = "FIN" /\ s.state = "FIN_SENT"
  /\ Send(Packets(e, s, {type}))
  /\ UNCHANGED <<sockets, rst_info, connects, clash>>

(* utp_close by stopHash                                                   *)
Close(e, s) ==
  /\ \/ s.state = "SYN_SENT" /\ net' = net
        /\ Replace(e, s, [s EXCEPT !.state = "DESTROY_DELAY"])
     \/ s.state = "CONNECTED" /\ Send(Packets(e, s, {"FIN"}))
        /\ Replace(e, s, Closed(s))
  /\ UNCHANGED <<rst_info, connects, clash>>

(* check_timeouts gives up a connection that has something unacknowledged  *)
(* or is over, and utp_check_timeouts deletes the socket.                  *)
Delete(e, s) ==
  /\ \/ s.state = "CONNECTED" /\ Initiator(s)
     \/ s.state \in {"FIN_SENT", "DESTROY_DELAY", "DESTROY"}
  /\ Remove(e, s)
  /\ UNCHANGED <<net, rst_info, connects, clash>>

-----------------------------------------------------------------------------
(* RST                                                                     *)

(* A packet for no socket is refused, unless it was refused not long ago.  *)
Refuse(e, p) ==
  /\ p.type \in {"STATE", "DATA", "FIN"} /\ Lookup(e, p.id) = {}
  /\ p \notin rst_info[e] /\ Cardinality(rst_info[e]) <= RstLimit
  /\ rst_info' = [rst_info EXCEPT ![e] = @ \cup {p}]
  /\ Send({[p EXCEPT !.to = Other(e), !.type = "RESET"]})
  /\ UNCHANGED <<sockets, connects, clash>>

(* Mutant of Forget: a refusal stays on record.                            *)
Forget_Never(e, p) == FALSE

(* utp_check_timeouts forgets a refusal after a while.                     *)
Forget(e, p) ==
  /\ p \in rst_info[e]
  /\ rst_info' = [rst_info EXCEPT ![e] = @ \ {p}]
  /\ UNCHANGED <<sockets, net, connects, clash>>

(* Mutant of RstTarget: only a socket with this receive id is looked for.  *)
RstTarget_Recv(e, id) == Lookup(e, id)

(* "we have to check every case": the socket with this receive id, or the  *)
(* one with this send id, whether it initiated the connection or not       *)
RstTarget(e, id) ==
  LET sends(i) == {s \in Lookup(e, i) : s.send = id}
  IN  IF Lookup(e, id) # {} THEN Lookup(e, id)
      ELSE IF sends(id + 1) # {} THEN sends(id + 1)
      ELSE sends(id - 1)

(* callback_on_error closes the socket if the application holds it, and    *)
(* leaves it in CS_RESET, for good, if not.                                *)
Reset(s) ==
  CASE s.state \in {"SYN_SENT", "FIN_SENT"} -> {"DESTROY"}
    [] s.state = "CONNECTED" -> IF Initiator(s) THEN {"DESTROY"} ELSE {"DESTROY", "RESET"}
    [] OTHER -> {"RESET"}

ReceiveReset(e, p) ==
  /\ p.type = "RESET"
  /\ \E s \in RstTarget(e, p.id) : \E state \in Reset(s) :
       Replace(e, s, [s EXCEPT !.state = state])
  /\ UNCHANGED <<net, rst_info, connects, clash>>

(* A node ends (~Storjutp, utp_destroy), with its sockets and its record of *)
(* refusals, and another is started at its address; nothing tells the      *)
(* peers.                                                                  *)
Restart(e) ==
  /\ sockets' = [sockets EXCEPT ![e] = {}]
  /\ rst_info' = [rst_info EXCEPT ![e] = {}]
  /\ UNCHANGED <<net, connects, clash>>

Next ==
  \E e \in End :
    \/ Restart(e)
    \/ \E seed \in Seeds : Connect(e, seed)
    \/ \E s \in sockets[e] :
         \/ SynTimeout(e, s) \/ Close(e, s) \/ Delete(e, s)
         \/ \E type \in {"STATE", "DATA", "FIN"} : Repeat(e, s, type)
    \/ \E p \in net :
         /\ p.to = e
         /\ \/ ReceiveSyn(e, p) \/ Receive(e, p) \/ Refuse(e, p) \/ ReceiveReset(e, p)
            \/ Lose(p)
    \/ \E p \in rst_info[e] : Forget(e, p)

Spec == Init /\ [][Next]_vars

-----------------------------------------------------------------------------
(* Properties                                                              *)

(* Every variable has its type.                                            *)
TypeOK ==
  /\ sockets \in [End -> SUBSET Socket]
  /\ net \subseteq Packet
  /\ rst_info \in [End -> SUBSET Packet]
  /\ connects \in 0..MaxConnects
  /\ clash \in BOOLEAN

(* No two sockets of a node have the same key: what the comment on         *)
(* UTP_FreeAll says is really important, whatever seeds are drawn and      *)
(* however SYNs are repeated.                                              *)
KeysUnique ==
  \A e \in End : \A s, t \in sockets[e] : s.recv = t.recv => s = t

Own(e, p) == {s \in sockets[e] : s.conn = p.conn}

(* The ids route: as long as no seed was drawn whose ids were in use, a    *)
(* packet finds the socket of its own connection if there is one, and no   *)
(* other, and so does an RST: no connection is given another's packets, no *)
(* live connection is refused, none is reset for another's fault.  (Of     *)
(* seeds other than 65535: the receive id an acceptor makes of that one is *)
(* 65536, which no packet can carry.)                                      *)
Routing ==
  ~clash =>
    \A p \in net :
      /\ p.type \in {"STATE", "DATA", "FIN"} => Lookup(p.to, p.id) = Own(p.to, p)
      /\ p.type = "RESET" => RstTarget(p.to, p.id) = Own(p.to, p)

-----------------------------------------------------------------------------
Connecting(c) == \E e \in End : \E s \in sockets[e] : s.conn = c /\ s.state = "SYN_SENT"

(* An accepted connection whose other end is gone: a receiver sends        *)
(* nothing that could time out.                                            *)
Orphan(c) ==
  \E e \in End : \E s \in sockets[e] :
    /\ s.conn = c /\ s.state = "CONNECTED" /\ ~Initiator(s)
    /\ \A t \in sockets[Other(e)] : t.conn # c

(* utp_check_timeouts looks at every socket again and again, and forgets   *)
(* refusals: RST_INFO_TIMEOUT (10 s) is less than KEEPALIVE_INTERVAL.      *)
TimerFairness ==
  /\ \A c \in 1..MaxConnects :
       WF_vars(\E e \in End : \E s \in sockets[e] : s.conn = c /\ SynTimeout(e, s))
  /\ \A e \in End : WF_vars(\E p \in rst_info[e] : Forget(e, p))

(* What is sent again and again arrives some time: keep-alives at the      *)
(* other end, and the RST in answer to one.                                *)
NetworkFairness ==
  \A e \in End, c \in 1..MaxConnects :
    /\ SF_vars(\E s \in sockets[e] : s.conn = c /\ Repeat(e, s, "STATE")
                                      /\ Packets(e, s, {"STATE"}) \subseteq net')
    /\ SF_vars(\E p \in net : /\ p.to = e /\ p.conn = c /\ p.type = "STATE" /\ Refuse(e, p)
                              /\ [p EXCEPT !.to = Other(e), !.type = "RESET"] \in net')
    /\ SF_vars(\E p \in net : p.to = e /\ p.conn = c /\ ReceiveReset(e, p))

LiveSpec == Spec /\ TimerFairness /\ NetworkFairness

(* A connection attempt ends, even if nothing ever answers.                *)
ConnectEnds == \A c \in 1..MaxConnects : Connecting(c) ~> ~Connecting(c)

(* A receiver whose sender is gone learns of it, although a refusal is     *)
(* answered once and then kept quiet: its keep-alives bring a RST.         *)
OrphanLearns == \A c \in 1..MaxConnects : Orphan(c) ~> ~Orphan(c)
=============================================================================

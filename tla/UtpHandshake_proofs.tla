------------------------- MODULE UtpHandshake_proofs -------------------------
(***************************************************************************)
(* Proofs about UtpHandshake, for any nodes, seeds, limits and bounds, and *)
(* any width of the ids.                                                   *)
(***************************************************************************)
EXTENDS UtpHandshake, TLAPS

-----------------------------------------------------------------------------
(* Type correctness                                                        *)

LEMMA OtherEnd == ASSUME NEW e \in End PROVE Other(e) \in End /\ Other(e) # e
BY EndAssumption DEF Other

LEMMA OtherOther == ASSUME NEW e \in End, NEW f \in End, e # f PROVE f = Other(e)
BY EndAssumption DEF Other

LEMMA Cut == ASSUME NEW i \in Nat PROVE i % Modulus \in 0..(Modulus - 1)
BY SeedAssumption

LEMMA PacketsType ==
  ASSUME NEW e \in End, NEW s \in Socket, NEW types,
         types \subseteq {"SYN", "STATE", "DATA", "FIN"}
  PROVE  Packets(e, s, types) \subseteq Packet
<1>1. s.recv \in Nat /\ s.send \in Nat /\ s.conn \in 1..MaxConnects
  BY SeedAssumption DEF Socket
<1>2. \A t : ConnId(s, t) \in 0..(Modulus - 1)
  BY <1>1, Cut DEF ConnId
<1>3. SUFFICES ASSUME NEW t \in types
               PROVE  [to |-> Other(e), type |-> t, id |-> ConnId(s, t), conn |-> s.conn] \in Packet
  BY DEF Packets
<1> QED BY <1>1, <1>2, OtherEnd DEF Packet

LEMMA SendType ==
  ASSUME net \subseteq Packet, NEW out, out \subseteq Packet, Send(out)
  PROVE  net' \subseteq Packet
BY DEF Send

LEMMA ReplaceType ==
  ASSUME TypeOK, NEW e \in End, NEW s, NEW t \in Socket, Replace(e, s, t)
  PROVE  sockets' \in [End -> SUBSET Socket]
BY DEF Replace, TypeOK

(* A socket changes its state and its count of SYNs, never its ids; and it *)
(* never starts over.                                                      *)
Follows(s, t) ==
  /\ t.recv = s.recv /\ t.send = s.send /\ t.conn = s.conn
  /\ t.state = "SYN_SENT" => s.state = "SYN_SENT"

LEMMA StateType ==
  ASSUME NEW s \in Socket, NEW st \in State \ {"SYN_SENT"}
  PROVE  [s EXCEPT !.state = st] \in Socket /\ Follows(s, [s EXCEPT !.state = st])
BY DEF Socket, Follows

LEMMA ClosedType == ASSUME NEW s \in Socket PROVE Closed(s) \in Socket /\ Follows(s, Closed(s))
<1>1. "FIN_SENT" \in State \ {"SYN_SENT"}
  BY DEF State
<1> QED BY <1>1, StateType DEF Closed

Types == {"STATE", "DATA", "FIN"}

(* The types of packet a socket sends                                      *)
TypesOf(s) == Types \cup (IF s.state = "SYN_SENT" THEN {"SYN"} ELSE {})

LEMMA AcknowledgedType ==
  ASSUME NEW s \in Socket, NEW a \in Acknowledged(s)
  PROVE  a[1] \in Socket /\ Follows(s, a[1]) /\ a[2] \subseteq Types
<1>1. s \in Socket /\ Follows(s, s) /\ {} \subseteq Types
  BY DEF Follows
<1>2. \A st \in State \ {"SYN_SENT"} : [s EXCEPT !.state = st] \in Socket /\ Follows(s, [s EXCEPT !.state = st])
  BY StateType
<1>3. {"CONNECTED", "DESTROY"} \subseteq State \ {"SYN_SENT"} /\ {"DATA"} \subseteq Types /\ {"DATA", "FIN"} \subseteq Types
  BY DEF State, Types
<1>4. \/ a = <<s, {}>> \/ a = <<s, {"DATA"}>> \/ a = <<Closed(s), {"DATA", "FIN"}>>
      \/ a = <<[s EXCEPT !.state = "CONNECTED"], {"DATA"}>>
      \/ a = <<[s EXCEPT !.state = "DESTROY"], {}>>
  BY DEF Acknowledged
<1> QED BY <1>1, <1>2, <1>3, <1>4, ClosedType

LEMMA PayloadType ==
  ASSUME NEW s \in Socket, NEW type, NEW b \in Payload(s, type)
  PROVE  b[1] \in Socket /\ Follows(s, b[1]) /\ b[2] \subseteq Types
<1>1. s \in Socket /\ Follows(s, s) /\ {} \subseteq Types
  BY DEF Follows
<1>2. \A st \in State \ {"SYN_SENT"} : [s EXCEPT !.state = st] \in Socket /\ Follows(s, [s EXCEPT !.state = st])
  BY StateType
<1>3. "DESTROY_DELAY" \in State \ {"SYN_SENT"} /\ {"STATE"} \subseteq Types /\ {"STATE", "FIN"} \subseteq Types
  BY DEF State, Types
<1>4. \/ b = <<s, {}>> \/ b = <<s, {"STATE"}>> \/ b = <<Closed(s), {"STATE", "FIN"}>>
      \/ b = <<[s EXCEPT !.state = "DESTROY_DELAY"], {"STATE"}>>
  BY DEF Payload
<1> QED BY <1>1, <1>2, <1>3, <1>4, ClosedType

(* A received packet replaces a socket by one with the same ids.           *)
LEMMA ReceiveReplaces ==
  ASSUME TypeOK, NEW e \in End, NEW p, Receive(e, p)
  PROVE  \E s \in sockets[e], t \in Socket, types \in SUBSET Types :
           /\ Follows(s, t) /\ s.recv = p.id
           /\ Replace(e, s, t) /\ Send(Packets(e, s, types))
<1>1. PICK s \in Lookup(e, p.id) : \E a \in Acknowledged(s) : \E b \in Payload(a[1], p.type) :
        Replace(e, s, b[1]) /\ Send(Packets(e, s, a[2] \cup b[2]))
  BY DEF Receive
<1>2. PICK a \in Acknowledged(s) : \E b \in Payload(a[1], p.type) :
        Replace(e, s, b[1]) /\ Send(Packets(e, s, a[2] \cup b[2]))
  BY <1>1
<1>3. PICK b \in Payload(a[1], p.type) :
        Replace(e, s, b[1]) /\ Send(Packets(e, s, a[2] \cup b[2]))
  BY <1>2
<1>4. s \in sockets[e] /\ s.recv = p.id /\ s \in Socket
  BY DEF Lookup, TypeOK
<1>5. a[1] \in Socket /\ Follows(s, a[1]) /\ a[2] \subseteq Types
  BY <1>2, <1>4, AcknowledgedType
<1>6. b[1] \in Socket /\ Follows(a[1], b[1]) /\ b[2] \subseteq Types
  BY <1>3, <1>5, PayloadType
<1>7. Follows(s, b[1]) /\ a[2] \cup b[2] \in SUBSET Types
  BY <1>5, <1>6 DEF Follows
<1> QED BY <1>3, <1>4, <1>6, <1>7

-----------------------------------------------------------------------------
(* What steps do to sockets and packets, whatever their guards             *)

(* A socket is added, and sends.                                           *)
Adds(e, s) ==
  /\ s \in Socket /\ Lookup(e, s.recv) = {}
  /\ sockets' = [sockets EXCEPT ![e] = @ \cup {s}]
  /\ net' \subseteq net \cup Packets(e, s, TypesOf(s))

(* A socket gives way to one with its ids, perhaps itself, and sends.      *)
Updates(e, s, t) ==
  /\ s \in sockets[e] /\ t \in Socket /\ Follows(s, t) /\ Replace(e, s, t)
  /\ net' \subseteq net \cup Packets(e, s, TypesOf(s))

(* A socket is deleted.                                                    *)
Deletes(e, s) == Remove(e, s) /\ net' = net

Refuses(e, p) ==
  /\ p \in net /\ p.to = e /\ p.type \in {"STATE", "DATA", "FIN"}
  /\ sockets' = sockets /\ net' \subseteq net \cup {[p EXCEPT !.to = Other(e), !.type = "RESET"]}

Idles == sockets' = sockets /\ net' \subseteq net

Step ==
  \/ \E e \in End, seed \in Seeds : Connect(e, seed)
  \/ \E e \in End, p \in net : p.to = e /\ ReceiveSyn(e, p)
  \/ \E e \in End : \E s \in sockets[e], t \in Socket : Updates(e, s, t)
  \/ \E e \in End : \E s \in sockets[e] : Deletes(e, s)
  \/ \E e \in End, p \in net : Refuses(e, p)
  \/ \E e \in End : Restart(e)
  \/ Idles

LEMMA Sends == ASSUME NEW out, Send(out) PROVE net' \subseteq net \cup out
BY DEF Send

LEMMA SendsOf ==
  ASSUME NEW e, NEW s, NEW types \in SUBSET TypesOf(s), Send(Packets(e, s, types))
  PROVE  net' \subseteq net \cup Packets(e, s, TypesOf(s))
<1>1. Packets(e, s, types) \subseteq Packets(e, s, TypesOf(s))
  BY DEF Packets
<1> QED BY <1>1, Sends

LEMMA SynTimeoutSteps ==
  ASSUME TypeOK, NEW e \in End, NEW s \in sockets[e], SynTimeout(e, s)
  PROVE  Deletes(e, s) \/ \E t \in Socket : Updates(e, s, t)
<1>1. CASE GivesUp(s)
  BY <1>1 DEF SynTimeout, Deletes
<1>2. CASE ~GivesUp(s)
  <2> DEFINE t == [s EXCEPT !.syns = IF @ < MaxSyns THEN @ + 1 ELSE @]
  <2>1. s \in Socket
    BY DEF TypeOK
  <2>2. t \in Socket /\ Follows(s, t)
    BY <2>1, BoundAssumption DEF Socket, Follows
  <2>3. Replace(e, s, t) /\ Send(Packets(e, s, {"SYN"}))
    BY <1>2 DEF SynTimeout
  <2>4. {"SYN"} \in SUBSET TypesOf(s)
    BY DEF TypesOf, SynTimeout
  <2>5. net' \subseteq net \cup Packets(e, s, TypesOf(s))
    BY <2>3, <2>4, SendsOf
  <2> HIDE DEF t
  <2> QED BY <2>2, <2>3, <2>5 DEF Updates
<1> QED BY <1>1, <1>2

LEMMA CloseSteps ==
  ASSUME TypeOK, NEW e \in End, NEW s \in sockets[e], Close(e, s)
  PROVE  \E t \in Socket : Updates(e, s, t)
<1>1. s \in Socket
  BY DEF TypeOK
<1>2. CASE net' = net /\ Replace(e, s, [s EXCEPT !.state = "DESTROY_DELAY"])
  <2>1. "DESTROY_DELAY" \in State \ {"SYN_SENT"}
    BY DEF State
  <2> QED BY <1>1, <1>2, <2>1, StateType DEF Updates
<1>3. CASE Send(Packets(e, s, {"FIN"})) /\ Replace(e, s, Closed(s))
  <2>1. {"FIN"} \in SUBSET TypesOf(s)
    BY DEF Types, TypesOf
  <2>2. net' \subseteq net \cup Packets(e, s, TypesOf(s))
    BY <1>3, <2>1, SendsOf
  <2> QED BY <1>1, <1>3, <2>2, ClosedType DEF Updates
<1> QED BY <1>2, <1>3 DEF Close

LEMMA RepeatSteps ==
  ASSUME TypeOK, NEW e \in End, NEW s \in sockets[e], NEW type \in {"STATE", "DATA", "FIN"},
         Repeat(e, s, type)
  PROVE  \E t \in Socket : Updates(e, s, t)
<1>1. s \in Socket /\ Follows(s, s)
  BY DEF TypeOK, Follows
<1>2. Replace(e, s, s)
  BY DEF TypeOK, Repeat, Replace
<1>3. {type} \in SUBSET TypesOf(s) /\ Send(Packets(e, s, {type}))
  BY DEF Types, TypesOf, Repeat
<1>4. net' \subseteq net \cup Packets(e, s, TypesOf(s))
  BY <1>3, SendsOf
<1> QED BY <1>1, <1>2, <1>4 DEF Updates

LEMMA ResetSteps ==
  ASSUME TypeOK, NEW e \in End, NEW p, ReceiveReset(e, p)
  PROVE  \E s \in sockets[e], t \in Socket : Updates(e, s, t)
<1>0. PICK s \in RstTarget(e, p.id) :
        \E st \in Reset(s) : Replace(e, s, [s EXCEPT !.state = st])
  BY DEF ReceiveReset
<1>1. PICK st \in Reset(s) : Replace(e, s, [s EXCEPT !.state = st])
  BY <1>0
<1>2. s \in sockets[e] /\ s \in Socket
  BY DEF RstTarget, Lookup, TypeOK
<1>3. st \in State \ {"SYN_SENT"}
  BY DEF Reset, State
<1>4. net' = net
  BY DEF ReceiveReset
<1> QED BY <1>1, <1>2, <1>3, <1>4, StateType DEF Updates

LEMMA NextSteps == ASSUME TypeOK, [Next]_vars PROVE Step
<1>1. CASE UNCHANGED vars
  BY <1>1 DEF vars, Step, Idles
<1>2. ASSUME NEW e \in End, NEW seed \in Seeds, Connect(e, seed) PROVE Step
  BY <1>2 DEF Step
<1>3. ASSUME NEW e \in End, NEW s \in sockets[e], SynTimeout(e, s) PROVE Step
  BY <1>3, SynTimeoutSteps DEF Step
<1>4. ASSUME NEW e \in End, NEW s \in sockets[e], Close(e, s) PROVE Step
  BY <1>4, CloseSteps DEF Step
<1>5. ASSUME NEW e \in End, NEW s \in sockets[e], Delete(e, s) PROVE Step
  BY <1>5 DEF Step, Delete, Deletes
<1>6. ASSUME NEW e \in End, NEW s \in sockets[e], NEW type \in {"STATE", "DATA", "FIN"},
             Repeat(e, s, type)
      PROVE Step
  BY <1>6, RepeatSteps DEF Step
<1>7. ASSUME NEW e \in End, NEW p \in net, p.to = e, ReceiveSyn(e, p) PROVE Step
  BY <1>7 DEF Step
<1>8. ASSUME NEW e \in End, NEW p \in net, p.to = e, Receive(e, p) PROVE Step
  <2>1. PICK s \in sockets[e], t \in Socket, types \in SUBSET Types :
          Follows(s, t) /\ Replace(e, s, t) /\ Send(Packets(e, s, types))
    BY <1>8, ReceiveReplaces
  <2>2. types \in SUBSET TypesOf(s)
    BY DEF TypesOf
  <2>3. net' \subseteq net \cup Packets(e, s, TypesOf(s))
    BY <2>1, <2>2, SendsOf
  <2> QED BY <2>1, <2>3 DEF Step, Updates
<1>9. ASSUME NEW e \in End, NEW p \in net, p.to = e, Refuse(e, p) PROVE Step
  <2>1. net' \subseteq net \cup {[p EXCEPT !.to = Other(e), !.type = "RESET"]}
    BY <1>9, Sends DEF Refuse
  <2> QED BY <1>9, <2>1 DEF Step, Refuses, Refuse
<1>10. ASSUME NEW e \in End, NEW p \in net, p.to = e, ReceiveReset(e, p) PROVE Step
  BY <1>10, ResetSteps DEF Step
<1>11. ASSUME NEW p \in net, Lose(p) PROVE Step
  BY <1>11 DEF Lose, Step, Idles
<1>12. ASSUME NEW e \in End, NEW p \in rst_info[e], Forget(e, p) PROVE Step
  BY <1>12 DEF Forget, Step, Idles
<1>13. ASSUME NEW e \in End, Restart(e) PROVE Step
  BY <1>13 DEF Step
<1> QED BY <1>1, <1>2, <1>3, <1>4, <1>5, <1>6, <1>7, <1>8, <1>9, <1>10, <1>11, <1>12, <1>13 DEF Next

-----------------------------------------------------------------------------
(* utp_connect and the arrival of a SYN                                    *)

LEMMA ConnectAdds ==
  ASSUME TypeOK, NEW e \in End, NEW seed \in Seeds, Connect(e, seed)
  PROVE  \E s \in Socket :
           /\ s.recv = seed /\ s.send = seed + 1 /\ s.conn = connects + 1
           /\ s.state = "SYN_SENT" /\ Adds(e, s)
<1> DEFINE s == [recv |-> seed, send |-> seed + 1, state |-> "SYN_SENT", syns |-> 0,
                 conn |-> connects + 1]
<1>1. s \in Socket
  <2>1. seed \in 0..Modulus /\ seed + 1 \in 0..Modulus
    BY SeedAssumption
  <2>2. connects + 1 \in 1..MaxConnects /\ 0 \in 0..MaxSyns
    BY BoundAssumption DEF TypeOK, Connect
  <2> QED BY <2>1, <2>2 DEF Socket, State
<1>2. sockets' = [sockets EXCEPT ![e] = @ \cup {s}] /\ Send(Packets(e, s, {"SYN"}))
  BY DEF Connect
<1>3. Lookup(e, s.recv) = {}
  BY DEF Connect, FreeSeed
<1>4. {"SYN"} \in SUBSET TypesOf(s)
  BY DEF TypesOf
<1>5. net' \subseteq net \cup Packets(e, s, TypesOf(s))
  BY <1>2, <1>4, SendsOf
<1> QED BY <1>1, <1>2, <1>3, <1>5 DEF Adds

LEMMA AcceptAdds ==
  ASSUME TypeOK, NEW e \in End, NEW p \in net, ReceiveSyn(e, p)
  PROVE  \E s \in Socket :
           /\ s.recv = p.id + 1 /\ s.send = p.id /\ s.conn = p.conn
           /\ s.state = "CONNECTED" /\ Adds(e, s)
<1> DEFINE s == [recv |-> p.id + 1, send |-> p.id, state |-> "CONNECTED", syns |-> 0,
                 conn |-> p.conn]
<1>1. s \in Socket
  <2>1. p.id + 1 \in 0..Modulus /\ p.id \in 0..Modulus /\ p.conn \in 1..MaxConnects
    BY SeedAssumption DEF TypeOK, Packet
  <2>2. 0 \in 0..MaxSyns
    BY BoundAssumption
  <2> QED BY <2>1, <2>2 DEF Socket, State
<1>2. sockets' = [sockets EXCEPT ![e] = @ \cup {s}] /\ Send(Packets(e, s, {"STATE"}))
  BY DEF ReceiveSyn
<1>3. Lookup(e, s.recv) = {}
  BY DEF ReceiveSyn, KnownSyn
<1>4. {"STATE"} \in SUBSET TypesOf(s)
  BY DEF TypesOf, Types
<1>5. net' \subseteq net \cup Packets(e, s, TypesOf(s))
  BY <1>2, <1>4, SendsOf
<1> QED BY <1>1, <1>2, <1>3, <1>5 DEF Adds

-----------------------------------------------------------------------------
(* Type correctness                                                        *)

LEMMA TypeInit == Init => TypeOK
<1> SUFFICES ASSUME Init PROVE TypeOK
  OBVIOUS
<1>1. sockets \in [End -> SUBSET Socket] /\ rst_info \in [End -> SUBSET Packet]
  BY DEF Init
<1>2. net \subseteq Packet
  BY DEF Init
<1>3. connects \in 0..MaxConnects
  BY BoundAssumption DEF Init
<1>4. clash \in BOOLEAN
  BY DEF Init
<1> QED BY <1>1, <1>2, <1>3, <1>4 DEF TypeOK

LEMMA OutType ==
  ASSUME NEW e \in End, NEW s \in Socket PROVE Packets(e, s, TypesOf(s)) \subseteq Packet
<1>1. TypesOf(s) \subseteq {"SYN", "STATE", "DATA", "FIN"}
  BY DEF TypesOf, Types
<1> QED BY <1>1, PacketsType

LEMMA StepType ==
  ASSUME TypeOK, Step
  PROVE  sockets' \in [End -> SUBSET Socket] /\ net' \subseteq Packet
<1>1. ASSUME NEW e \in End, NEW s, Adds(e, s)
      PROVE  sockets' \in [End -> SUBSET Socket] /\ net' \subseteq Packet
  BY <1>1, OutType DEF Adds, TypeOK
<1>2. ASSUME NEW e \in End, NEW seed \in Seeds, Connect(e, seed)
      PROVE  sockets' \in [End -> SUBSET Socket] /\ net' \subseteq Packet
  BY <1>1, <1>2, ConnectAdds
<1>3. ASSUME NEW e \in End, NEW p \in net, ReceiveSyn(e, p)
      PROVE  sockets' \in [End -> SUBSET Socket] /\ net' \subseteq Packet
  BY <1>1, <1>3, AcceptAdds
<1>4. ASSUME NEW e \in End, NEW s \in sockets[e], NEW t \in Socket, Updates(e, s, t)
      PROVE  sockets' \in [End -> SUBSET Socket] /\ net' \subseteq Packet
  <2>1. s \in Socket
    BY DEF TypeOK
  <2> QED BY <1>4, <2>1, OutType, ReplaceType DEF Updates, TypeOK
<1>5. ASSUME NEW e \in End, NEW s \in sockets[e], Deletes(e, s)
      PROVE  sockets' \in [End -> SUBSET Socket] /\ net' \subseteq Packet
  BY <1>5 DEF Deletes, Remove, TypeOK
<1>6. ASSUME NEW e \in End, NEW p \in net, Refuses(e, p)
      PROVE  sockets' \in [End -> SUBSET Socket] /\ net' \subseteq Packet
  <2>1. p \in Packet
    BY DEF TypeOK
  <2>2. [p EXCEPT !.to = Other(e), !.type = "RESET"] \in Packet
    BY <2>1, OtherEnd DEF Packet
  <2> QED BY <1>6, <2>2 DEF Refuses, TypeOK
<1>7. CASE Idles
  BY <1>7 DEF Idles, TypeOK
<1>8. ASSUME NEW e \in End, Restart(e)
      PROVE  sockets' \in [End -> SUBSET Socket] /\ net' \subseteq Packet
  BY <1>8 DEF Restart, TypeOK
<1> QED BY <1>2, <1>3, <1>4, <1>5, <1>6, <1>7, <1>8 DEF Step

LEMMA TypeNext == TypeOK /\ [Next]_vars => TypeOK'
<1> SUFFICES ASSUME TypeOK, [Next]_vars PROVE TypeOK'
  OBVIOUS
<1>1. sockets' \in [End -> SUBSET Socket] /\ net' \subseteq Packet
  BY NextSteps, StepType
<1>2. rst_info' \in [End -> SUBSET Packet] /\ connects' \in 0..MaxConnects /\ clash' \in BOOLEAN
  <2>1. CASE UNCHANGED vars
    BY <2>1 DEF vars, TypeOK
  <2>2. ASSUME NEW e \in End, NEW seed \in Seeds, Connect(e, seed)
        PROVE  rst_info' \in [End -> SUBSET Packet] /\ connects' \in 0..MaxConnects /\ clash' \in BOOLEAN
    <3>1. connects' \in 0..MaxConnects
      BY <2>2, BoundAssumption DEF Connect, TypeOK
    <3>2. clash' \in BOOLEAN
      BY <2>2, Zenon DEF Connect, TypeOK
    <3> QED BY <2>2, <3>1, <3>2 DEF Connect, TypeOK
  <2>3. ASSUME NEW e \in End, NEW p \in net, Refuse(e, p)
        PROVE  rst_info' \in [End -> SUBSET Packet] /\ connects' \in 0..MaxConnects /\ clash' \in BOOLEAN
    BY <2>3 DEF Refuse, TypeOK
  <2>4. ASSUME NEW e \in End, NEW p, Forget(e, p)
        PROVE  rst_info' \in [End -> SUBSET Packet] /\ connects' \in 0..MaxConnects /\ clash' \in BOOLEAN
    BY <2>4 DEF Forget, TypeOK
  <2>5. CASE UNCHANGED <<rst_info, connects, clash>>
    BY <2>5 DEF TypeOK
  <2>6. ASSUME NEW e \in End, NEW s, SynTimeout(e, s) \/ Close(e, s) \/ Delete(e, s)
        PROVE  UNCHANGED <<rst_info, connects, clash>>
    BY <2>6 DEF SynTimeout, Close, Delete
  <2>7. ASSUME NEW e \in End, NEW s, NEW type, Repeat(e, s, type)
        PROVE  UNCHANGED <<rst_info, connects, clash>>
    BY <2>7 DEF Repeat
  <2>8. ASSUME NEW e \in End, NEW p,
               ReceiveSyn(e, p) \/ Receive(e, p) \/ ReceiveReset(e, p) \/ Lose(p)
        PROVE  UNCHANGED <<rst_info, connects, clash>>
    BY <2>8 DEF ReceiveSyn, Receive, ReceiveReset, Lose
  <2>9. ASSUME NEW e \in End, Restart(e)
        PROVE  rst_info' \in [End -> SUBSET Packet] /\ connects' \in 0..MaxConnects /\ clash' \in BOOLEAN
    BY <2>9 DEF Restart, TypeOK
  <2> QED BY <2>1, <2>2, <2>3, <2>4, <2>5, <2>6, <2>7, <2>8, <2>9 DEF Next
<1> QED BY <1>1, <1>2 DEF TypeOK

(* The ids, states and packets of a node's connections have their types.   *)
THEOREM TypeCorrect == Spec => []TypeOK
BY TypeInit, TypeNext, PTL DEF Spec

-----------------------------------------------------------------------------
(* Unique keys                                                             *)

LEMMA KeysInit == Init => KeysUnique
BY DEF Init, KeysUnique

LEMMA KeysStep ==
  ASSUME TypeOK, KeysUnique, Step
  PROVE  KeysUnique'
<1>1. ASSUME NEW e \in End, NEW s, Adds(e, s) PROVE KeysUnique'
  BY <1>1 DEF Adds, Lookup, KeysUnique, TypeOK
<1>2. ASSUME NEW e \in End, NEW seed \in Seeds, Connect(e, seed) PROVE KeysUnique'
  BY <1>1, <1>2, ConnectAdds
<1>3. ASSUME NEW e \in End, NEW p \in net, ReceiveSyn(e, p) PROVE KeysUnique'
  BY <1>1, <1>3, AcceptAdds
<1>4. ASSUME NEW e \in End, NEW s \in sockets[e], NEW t \in Socket, Updates(e, s, t)
      PROVE  KeysUnique'
  BY <1>4 DEF Updates, Replace, Follows, KeysUnique, TypeOK
<1>5. ASSUME NEW e \in End, NEW s \in sockets[e], Deletes(e, s) PROVE KeysUnique'
  BY <1>5 DEF Deletes, Remove, KeysUnique, TypeOK
<1>6. CASE sockets' = sockets
  BY <1>6 DEF KeysUnique
<1>7. ASSUME NEW e \in End, Restart(e) PROVE KeysUnique'
  BY <1>7 DEF Restart, KeysUnique, TypeOK
<1> QED BY <1>2, <1>3, <1>4, <1>5, <1>6, <1>7 DEF Step, Refuses, Idles

(* No two sockets of a node have one key in utp_sockets, which Lookup,     *)
(* Delete and the iteration of utp_check_timeouts depend on: whatever      *)
(* seeds are drawn, and however SYNs are delayed or repeated.              *)
THEOREM UniqueKeys == Spec => []KeysUnique
BY TypeInit, TypeNext, NextSteps, KeysInit, KeysStep, PTL DEF Spec

-----------------------------------------------------------------------------
(* Routing.  Each connection c has a seed base[c], drawn by its initiator  *)
(* init[c].  Everything that belongs to it has ids that follow from these, *)
(* and while no clash happened no two connections use the same id.         *)

IdAt(base, init, e, c) == IF init[c] = e THEN base[c] ELSE base[c] + 1

SocketConforms(base, init, n, e, s) ==
  /\ s.conn <= n
  /\ s.recv = IdAt(base, init, e, s.conn)
  /\ s.send = IdAt(base, init, Other(e), s.conn)
  /\ s.recv < Modulus /\ s.send < Modulus
  /\ s.state = "SYN_SENT" => init[s.conn] = e

PacketConforms(base, init, n, p) ==
  /\ p.conn <= n
  /\ p.type \in Types => p.id = IdAt(base, init, p.to, p.conn)
  /\ p.type \in {"SYN", "RESET"} => p.id = IdAt(base, init, Other(p.to), p.conn)
  /\ p.type = "SYN" => init[p.conn] # p.to /\ p.id + 1 < Modulus

Conforms(base, init) ==
  /\ base \in [1..MaxConnects -> Nat] /\ init \in [1..MaxConnects -> End]
  /\ \A e \in End : \A s \in sockets[e] : SocketConforms(base, init, connects, e, s)
  /\ \A p \in net : PacketConforms(base, init, connects, p)

(* The ids in use by a connection: InUse, one connection at a time         *)
IdsOf(s) == {s.recv, s.send}

IdsIn(p) == IF p.type = "SYN" THEN {p.id, p.id + 1} ELSE {p.id}

Uses(c, i) ==
  \/ \E e \in End : \E s \in sockets[e] : s.conn = c /\ i \in IdsOf(s)
  \/ \E p \in net : p.conn = c /\ i \in IdsIn(p)

Apart == \A c, d \in 1..MaxConnects, i \in Nat : Uses(c, i) /\ Uses(d, i) => c = d

Routed == (\E base, init : Conforms(base, init)) /\ (clash \/ Apart)

LEMMA RoutedInit == Init => Routed
<1> SUFFICES ASSUME Init PROVE Routed
  OBVIOUS
<1>1. PICK e \in End : TRUE
  BY EndAssumption
<1> DEFINE base == [c \in 1..MaxConnects |-> 0]
           init == [c \in 1..MaxConnects |-> e]
<1>2. Conforms(base, init)
  BY DEF Conforms, Init
<1>3. Apart
  BY DEF Apart, Uses, Init
<1> QED BY <1>2, <1>3 DEF Routed

(* What a socket sends conforms, and has ids of the socket.                *)
LEMMA OutConforms ==
  ASSUME NEW base \in [1..MaxConnects -> Nat], NEW init \in [1..MaxConnects -> End],
         NEW n, NEW e \in End, NEW s \in Socket, SocketConforms(base, init, n, e, s),
         NEW p \in Packets(e, s, TypesOf(s))
  PROVE  PacketConforms(base, init, n, p) /\ p.conn = s.conn /\ IdsIn(p) \subseteq IdsOf(s)
<1> DEFINE c == s.conn
<1>1. c \in 1..MaxConnects /\ s.recv \in Nat /\ s.send \in Nat
  BY SeedAssumption DEF Socket
<1>2. base[c] \in Nat /\ init[c] \in End
  BY <1>1
<1>3. Other(e) \in End /\ Other(e) # e /\ Other(Other(e)) = e
  BY OtherEnd, OtherOther
<1>4. PICK t \in TypesOf(s) :
        p = [to |-> Other(e), type |-> t, id |-> ConnId(s, t), conn |-> s.conn]
  BY DEF Packets
<1>5. s.recv % Modulus = s.recv /\ s.send % Modulus = s.send
  BY <1>1, SeedAssumption DEF SocketConforms
<1>6. CASE t = "SYN"
  <2>1. s.state = "SYN_SENT"
    BY <1>4, <1>6 DEF TypesOf, Types
  <2>2. s.recv = base[c] /\ s.send = base[c] + 1 /\ init[c] = e
    BY <1>3, <2>1 DEF SocketConforms, IdAt
  <2>3. p.id = s.recv /\ p.type = "SYN" /\ p.to = Other(e) /\ p.conn = s.conn
    BY <1>4, <1>5, <1>6 DEF ConnId
  <2> QED BY <1>2, <1>3, <2>2, <2>3 DEF PacketConforms, SocketConforms, IdsIn, IdsOf, IdAt, Types
<1>7. CASE t # "SYN"
  <2>1. p.id = s.send /\ p.type \in Types /\ p.to = Other(e) /\ p.conn = s.conn
    BY <1>4, <1>5, <1>7 DEF ConnId, TypesOf
  <2> QED BY <2>1 DEF PacketConforms, SocketConforms, IdsIn, IdsOf, Types
<1> QED BY <1>6, <1>7

LEMMA Grows == ASSUME TypeOK, [Next]_vars PROVE connects <= connects' /\ (clash => clash')
<1>1. CASE UNCHANGED <<connects, clash>>
  BY <1>1 DEF TypeOK
<1>2. ASSUME NEW e \in End, NEW seed \in Seeds, Connect(e, seed)
      PROVE  connects <= connects' /\ (clash => clash')
  <2>1. connects <= connects'
    BY <1>2, BoundAssumption DEF Connect, TypeOK
  <2>2. clash => clash'
    BY <1>2, Zenon DEF Connect
  <2> QED BY <2>1, <2>2
<1>3. CASE UNCHANGED vars
  BY <1>1, <1>3 DEF vars
<1>4. ASSUME NEW e \in End, NEW s, SynTimeout(e, s) \/ Close(e, s) \/ Delete(e, s)
      PROVE  UNCHANGED <<connects, clash>>
  BY <1>4 DEF SynTimeout, Close, Delete
<1>5. ASSUME NEW e \in End, NEW s, NEW type, Repeat(e, s, type)
      PROVE  UNCHANGED <<connects, clash>>
  BY <1>5 DEF Repeat
<1>6. ASSUME NEW e \in End, NEW p,
             ReceiveSyn(e, p) \/ Receive(e, p) \/ ReceiveReset(e, p) \/ Lose(p)
      PROVE  UNCHANGED <<connects, clash>>
  BY <1>6 DEF ReceiveSyn, Receive, ReceiveReset, Lose
<1>7. ASSUME NEW e \in End, NEW p, Refuse(e, p) \/ Forget(e, p)
      PROVE  UNCHANGED <<connects, clash>>
  BY <1>7 DEF Refuse, Forget
<1>8. ASSUME NEW e \in End, Restart(e) PROVE UNCHANGED <<connects, clash>>
  BY <1>8 DEF Restart
<1> QED BY <1>1, <1>2, <1>3, <1>4, <1>5, <1>6, <1>7, <1>8 DEF Next

(* A step that is not utp_connect: whatever is new conforms, and has the   *)
(* connection and ids of something that was there.                         *)
Inherits(base, init) ==
  /\ \A e \in End : \A s \in sockets'[e] :
       /\ SocketConforms(base, init, connects, e, s)
       /\ \A i \in IdsOf(s) : Uses(s.conn, i)
  /\ \A p \in net' : PacketConforms(base, init, connects, p) /\ \A i \in IdsIn(p) : Uses(p.conn, i)

LEMMA InheritsStays ==
  ASSUME TypeOK, [Next]_vars, Routed, NEW base, NEW init, Conforms(base, init), Inherits(base, init)
  PROVE  Routed'
<1>1. connects <= connects' /\ (clash => clash') /\ connects \in Nat /\ connects' \in Nat
  BY Grows, TypeNext, BoundAssumption DEF TypeOK
<1>2. \A e \in End : \A s \in sockets'[e] : SocketConforms(base, init, connects', e, s)
  <2>1. TypeOK'
    BY TypeNext
  <2>2. \A e \in End : \A s \in sockets'[e] : s.conn \in Nat
    BY <2>1, BoundAssumption DEF TypeOK, Socket
  <2> QED BY <1>1, <2>2 DEF Inherits, SocketConforms
<1>3. \A p \in net' : PacketConforms(base, init, connects', p)
  <2>1. TypeOK'
    BY TypeNext
  <2>2. \A p \in net' : p.conn \in Nat
    BY <2>1, BoundAssumption DEF TypeOK, Packet
  <2> QED BY <1>1, <2>2 DEF Inherits, PacketConforms
<1>4. Conforms(base, init)'
  BY <1>2, <1>3 DEF Conforms
<1>5. \A c, i : Uses(c, i)' => Uses(c, i)
  BY DEF Uses, Inherits
<1>6. Apart => Apart'
  BY <1>5 DEF Apart
<1> QED BY <1>1, <1>4, <1>6 DEF Routed

LEMMA OldInherits ==
  ASSUME NEW base, NEW init, Conforms(base, init)
  PROVE  /\ \A e \in End : \A s \in sockets[e] :
              SocketConforms(base, init, connects, e, s) /\ \A i \in IdsOf(s) : Uses(s.conn, i)
         /\ \A p \in net : PacketConforms(base, init, connects, p) /\ \A i \in IdsIn(p) : Uses(p.conn, i)
BY DEF Conforms, Uses

LEMMA UpdatesInherits ==
  ASSUME TypeOK, NEW base, NEW init, Conforms(base, init),
         NEW e \in End, NEW s \in sockets[e], NEW t \in Socket, Updates(e, s, t)
  PROVE  Inherits(base, init)
<1>1. s \in Socket /\ SocketConforms(base, init, connects, e, s) /\ \A i \in IdsOf(s) : Uses(s.conn, i)
  BY OldInherits DEF TypeOK
<1>2. SocketConforms(base, init, connects, e, t) /\ \A i \in IdsOf(t) : Uses(t.conn, i)
  BY <1>1 DEF Updates, Follows, SocketConforms, IdsOf
<1>3. \A p \in Packets(e, s, TypesOf(s)) :
        PacketConforms(base, init, connects, p) /\ \A i \in IdsIn(p) : Uses(p.conn, i)
  BY <1>1, OutConforms DEF Conforms
<1>4. sockets' = [sockets EXCEPT ![e] = (@ \ {s}) \cup {t}]
      /\ net' \subseteq net \cup Packets(e, s, TypesOf(s))
  BY DEF Updates, Replace
<1>5. \A f \in End : \A u \in sockets'[f] : u \in sockets[f] \/ (f = e /\ u = t)
  BY <1>4 DEF TypeOK
<1>6. \A f \in End : \A u \in sockets'[f] :
        SocketConforms(base, init, connects, f, u) /\ \A i \in IdsOf(u) : Uses(u.conn, i)
  BY <1>2, <1>5, OldInherits
<1>7. \A p \in net' : PacketConforms(base, init, connects, p) /\ \A i \in IdsIn(p) : Uses(p.conn, i)
  BY <1>3, <1>4, OldInherits
<1> QED BY <1>6, <1>7 DEF Inherits

LEMMA AcceptInherits ==
  ASSUME TypeOK, NEW base, NEW init, Conforms(base, init),
         NEW e \in End, NEW p \in net, p.to = e, ReceiveSyn(e, p)
  PROVE  Inherits(base, init)
<1>1. PICK s \in Socket : /\ s.recv = p.id + 1 /\ s.send = p.id /\ s.conn = p.conn
                          /\ s.state = "CONNECTED" /\ Adds(e, s)
  BY AcceptAdds
<1>2. p \in Packet /\ p.type = "SYN"
  BY DEF TypeOK, ReceiveSyn
<1>3. PacketConforms(base, init, connects, p) /\ \A i \in IdsIn(p) : Uses(p.conn, i)
  BY OldInherits
<1>4. base[p.conn] \in Nat /\ init[p.conn] \in End /\ init[p.conn] # e
  BY <1>2, <1>3 DEF Conforms, Packet, PacketConforms
<1>5. init[p.conn] = Other(e) /\ p.id = base[p.conn]
  BY <1>2, <1>3, <1>4, OtherOther DEF PacketConforms, IdAt
<1>6. p.id + 1 < Modulus /\ p.id \in Nat /\ Modulus \in Nat
  BY <1>2, <1>3, SeedAssumption DEF PacketConforms, Packet
<1>7. SocketConforms(base, init, connects, e, s)
  BY <1>1, <1>3, <1>4, <1>5, <1>6, OtherEnd DEF SocketConforms, IdAt, PacketConforms
<1>8. \A i \in IdsOf(s) : Uses(s.conn, i)
  BY <1>1, <1>2, <1>3 DEF IdsOf, IdsIn
<1>9. \A q \in Packets(e, s, TypesOf(s)) :
        PacketConforms(base, init, connects, q) /\ \A i \in IdsIn(q) : Uses(q.conn, i)
  <2>1. base \in [1..MaxConnects -> Nat] /\ init \in [1..MaxConnects -> End]
    BY DEF Conforms
  <2> SUFFICES ASSUME NEW q \in Packets(e, s, TypesOf(s))
               PROVE  PacketConforms(base, init, connects, q) /\ \A i \in IdsIn(q) : Uses(q.conn, i)
    OBVIOUS
  <2>2. PacketConforms(base, init, connects, q) /\ q.conn = s.conn /\ IdsIn(q) \subseteq IdsOf(s)
    BY <1>7, <2>1, OutConforms
  <2> QED BY <1>8, <2>2
<1>10. sockets' = [sockets EXCEPT ![e] = @ \cup {s}]
       /\ net' \subseteq net \cup Packets(e, s, TypesOf(s))
  BY <1>1 DEF Adds
<1>11. \A f \in End : \A u \in sockets'[f] : u \in sockets[f] \/ (f = e /\ u = s)
  BY <1>10 DEF TypeOK
<1>12. \A f \in End : \A u \in sockets'[f] :
         SocketConforms(base, init, connects, f, u) /\ \A i \in IdsOf(u) : Uses(u.conn, i)
  BY <1>7, <1>8, <1>11, OldInherits
<1>13. \A q \in net' : PacketConforms(base, init, connects, q) /\ \A i \in IdsIn(q) : Uses(q.conn, i)
  BY <1>9, <1>10, OldInherits
<1> QED BY <1>12, <1>13 DEF Inherits

LEMMA RefuseInherits ==
  ASSUME TypeOK, NEW base, NEW init, Conforms(base, init),
         NEW e \in End, NEW p \in net, Refuses(e, p)
  PROVE  Inherits(base, init)
<1> DEFINE q == [p EXCEPT !.to = Other(e), !.type = "RESET"]
<1>1. p \in Packet /\ p.type \in Types /\ p.to = e
  BY DEF TypeOK, Refuses, Types
<1>2. q.to = Other(e) /\ q.type = "RESET" /\ q.id = p.id /\ q.conn = p.conn
  BY <1>1 DEF Packet
<1>3. PacketConforms(base, init, connects, p) /\ \A i \in IdsIn(p) : Uses(p.conn, i)
  BY OldInherits
<1>4. Other(Other(e)) = e
  BY OtherEnd, OtherOther
<1>5. PacketConforms(base, init, connects, q)
  BY <1>1, <1>2, <1>3, <1>4 DEF PacketConforms, Types
<1>6. \A i \in IdsIn(q) : Uses(q.conn, i)
  BY <1>1, <1>2, <1>3 DEF IdsIn, Types
<1>7. sockets' = sockets /\ net' \subseteq net \cup {q}
  BY DEF Refuses
<1> HIDE DEF q
<1> QED BY <1>5, <1>6, <1>7, OldInherits DEF Inherits

-----------------------------------------------------------------------------
(* utp_connect: a new connection with the seed drawn                       *)
LEMMA ConnectRoutes ==
  ASSUME TypeOK, [Next]_vars, Routed, (Modulus - 1) \notin Seeds,
         NEW e \in End, NEW seed \in Seeds, Connect(e, seed)
  PROVE  Routed'
<1>1. PICK c \in 1..MaxConnects : c = connects + 1
  BY BoundAssumption DEF TypeOK, Connect
<1>2. connects \in Nat /\ connects' = c /\ c <= connects'
  BY <1>1, BoundAssumption DEF TypeOK, Connect
<1>3. PICK s \in Socket : /\ s.recv = seed /\ s.send = seed + 1 /\ s.conn = c
                          /\ s.state = "SYN_SENT" /\ Adds(e, s)
  BY <1>1, ConnectAdds
<1>4. seed \in Nat /\ seed < Modulus /\ seed + 1 < Modulus
  BY SeedAssumption
<1>5. PICK base0, init0 : Conforms(base0, init0)
  BY DEF Routed
<1>6. PICK base \in [1..MaxConnects -> Nat], init \in [1..MaxConnects -> End] :
        /\ base[c] = seed /\ init[c] = e
        /\ \A d \in 1..MaxConnects : d <= connects => base[d] = base0[d] /\ init[d] = init0[d]
  <2> DEFINE base == [base0 EXCEPT ![c] = seed]
             init == [init0 EXCEPT ![c] = e]
  <2>1. base \in [1..MaxConnects -> Nat] /\ init \in [1..MaxConnects -> End]
    BY <1>4, <1>5 DEF Conforms
  <2>2. base[c] = seed /\ init[c] = e
    BY <1>5 DEF Conforms
  <2>3. \A d \in 1..MaxConnects : d <= connects => base[d] = base0[d] /\ init[d] = init0[d]
    BY <1>1, <1>2, <1>5 DEF Conforms
  <2> HIDE DEF base, init
  <2> QED BY <2>1, <2>2, <2>3
<1>7. \A f \in End : \A u \in sockets[f] : SocketConforms(base, init, c, f, u)
  <2> SUFFICES ASSUME NEW f \in End, NEW u \in sockets[f] PROVE SocketConforms(base, init, c, f, u)
    OBVIOUS
  <2>1. SocketConforms(base0, init0, connects, f, u) /\ u.conn \in 1..MaxConnects
    BY <1>5 DEF Conforms, TypeOK, Socket
  <2>2. base[u.conn] = base0[u.conn] /\ init[u.conn] = init0[u.conn] /\ u.conn <= c
    BY <1>1, <1>2, <1>6, <2>1 DEF SocketConforms
  <2> QED BY <2>1, <2>2 DEF SocketConforms, IdAt
<1>8. \A p \in net : PacketConforms(base, init, c, p)
  <2> SUFFICES ASSUME NEW p \in net PROVE PacketConforms(base, init, c, p)
    OBVIOUS
  <2>1. PacketConforms(base0, init0, connects, p) /\ p.conn \in 1..MaxConnects
    BY <1>5 DEF Conforms, TypeOK, Packet
  <2>2. base[p.conn] = base0[p.conn] /\ init[p.conn] = init0[p.conn] /\ p.conn <= c
    BY <1>1, <1>2, <1>6, <2>1 DEF PacketConforms
  <2> QED BY <2>1, <2>2 DEF PacketConforms, IdAt
<1>9. SocketConforms(base, init, c, e, s)
  <2>1. IdAt(base, init, e, c) = seed /\ IdAt(base, init, Other(e), c) = seed + 1
    BY <1>6, OtherEnd DEF IdAt
  <2>2. c <= c
    OBVIOUS
  <2> QED BY <1>3, <1>4, <1>6, <2>1, <2>2 DEF SocketConforms
<1>10. \A p \in Packets(e, s, TypesOf(s)) :
         PacketConforms(base, init, c, p) /\ p.conn = c /\ IdsIn(p) \subseteq {seed, seed + 1}
  <2> SUFFICES ASSUME NEW p \in Packets(e, s, TypesOf(s))
               PROVE  PacketConforms(base, init, c, p) /\ p.conn = c /\ IdsIn(p) \subseteq {seed, seed + 1}
    OBVIOUS
  <2>1. PacketConforms(base, init, c, p) /\ p.conn = s.conn /\ IdsIn(p) \subseteq IdsOf(s)
    BY <1>9, OutConforms
  <2> QED BY <1>3, <2>1 DEF IdsOf
<1>11. /\ \A f \in End : \A u \in sockets'[f] : u \in sockets[f] \/ (f = e /\ u = s)
       /\ net' \subseteq net \cup Packets(e, s, TypesOf(s))
  BY <1>3 DEF Adds, TypeOK
<1>12. Conforms(base, init)'
  <2>1. \A f \in End : \A u \in sockets'[f] : SocketConforms(base, init, connects', f, u)
    BY <1>2, <1>7, <1>9, <1>11
  <2>2. \A p \in net' : PacketConforms(base, init, connects', p)
    BY <1>2, <1>8, <1>10, <1>11
  <2> QED BY <1>6, <2>1, <2>2 DEF Conforms
<1>13. \A d, i : Uses(d, i)' => Uses(d, i) \/ (d = c /\ i \in {seed, seed + 1})
  <2> SUFFICES ASSUME NEW d, NEW i, Uses(d, i)' PROVE Uses(d, i) \/ (d = c /\ i \in {seed, seed + 1})
    OBVIOUS
  <2>1. CASE \E f \in End : \E u \in sockets'[f] : u.conn = d /\ i \in IdsOf(u)
    BY <1>3, <1>11, <2>1 DEF Uses, IdsOf
  <2>2. CASE \E p \in net' : p.conn = d /\ i \in IdsIn(p)
    BY <1>10, <1>11, <2>2 DEF Uses
  <2> QED BY <2>1, <2>2 DEF Uses
<1>14. \A i : ~Uses(c, i)
  BY <1>1, <1>2, <1>5 DEF Uses, Conforms, SocketConforms, PacketConforms
<1>15. \A d, i : Uses(d, i) => i \in InUse
  <2> SUFFICES ASSUME NEW d, NEW i, Uses(d, i) PROVE i \in InUse
    OBVIOUS
  <2>1. CASE \E f \in End : \E u \in sockets[f] : u.conn = d /\ i \in IdsOf(u)
    BY <2>1 DEF InUse, IdsOf
  <2>2. CASE \E p \in net : p.conn = d /\ i \in IdsIn(p)
    <3> DEFINE A == {{u.recv, u.send} : u \in UNION {sockets[f] : f \in End}}
               B == {IdsIn(q) : q \in net}
    <3>1. PICK x \in B : i \in x
      BY <2>2
    <3>2. InUse = (UNION A) \cup (UNION B)
      BY DEF InUse, IdsIn
    <3> HIDE DEF A, B
    <3> QED BY <3>1, <3>2
  <2>3. \/ \E f \in End : \E u \in sockets[f] : u.conn = d /\ i \in IdsOf(u)
        \/ \E p \in net : p.conn = d /\ i \in IdsIn(p)
    BY Zenon DEF Uses
  <2> QED BY <2>1, <2>2, <2>3
<1>16. ~clash' => ~clash /\ {seed, seed + 1} \cap InUse = {}
  BY Zenon DEF Connect
<1>17. ~clash' => Apart'
  BY <1>13, <1>14, <1>15, <1>16 DEF Apart, Routed
<1> QED BY <1>12, <1>17 DEF Routed

LEMMA RoutedNext ==
  ASSUME TypeOK, [Next]_vars, Routed, (Modulus - 1) \notin Seeds PROVE Routed'
<1>1. PICK base, init : Conforms(base, init)
  BY DEF Routed
<1>2. ASSUME NEW e \in End, NEW seed \in Seeds, Connect(e, seed) PROVE Routed'
  BY <1>2, ConnectRoutes
<1>3. ASSUME NEW e \in End, NEW p \in net, p.to = e, ReceiveSyn(e, p) PROVE Routed'
  BY <1>1, <1>3, AcceptInherits, InheritsStays
<1>4. ASSUME NEW e \in End, NEW s \in sockets[e], NEW t \in Socket, Updates(e, s, t) PROVE Routed'
  BY <1>1, <1>4, UpdatesInherits, InheritsStays
<1>5. ASSUME NEW e \in End, NEW s \in sockets[e], Deletes(e, s) PROVE Routed'
  <2>1. net' = net /\ \A f \in End : sockets'[f] \subseteq sockets[f]
    BY <1>5 DEF Deletes, Remove, TypeOK
  <2>2. Inherits(base, init)
    BY <1>1, <2>1, OldInherits DEF Inherits
  <2> QED BY <1>1, <2>2, InheritsStays
<1>6. ASSUME NEW e \in End, NEW p \in net, Refuses(e, p) PROVE Routed'
  BY <1>1, <1>6, RefuseInherits, InheritsStays
<1>7. CASE Idles
  <2>1. Inherits(base, init)
    BY <1>1, <1>7, OldInherits DEF Inherits, Idles
  <2> QED BY <1>1, <2>1, InheritsStays
<1>8. ASSUME NEW e \in End, Restart(e) PROVE Routed'
  <2>1. net' = net /\ \A f \in End : sockets'[f] \subseteq sockets[f]
    BY <1>8 DEF Restart, TypeOK
  <2>2. Inherits(base, init)
    BY <1>1, <2>1, OldInherits DEF Inherits
  <2> QED BY <1>1, <2>2, InheritsStays
<1> QED BY <1>2, <1>3, <1>4, <1>5, <1>6, <1>7, <1>8, NextSteps DEF Step

LEMMA RoutedRoutes == ASSUME TypeOK, Routed PROVE Routing
<1> SUFFICES ASSUME ~clash, NEW p \in net
             PROVE  /\ p.type \in Types => Lookup(p.to, p.id) = Own(p.to, p)
                    /\ p.type = "RESET" => RstTarget(p.to, p.id) = Own(p.to, p)
  BY DEF Routing, Types
<1>1. PICK base, init : Conforms(base, init)
  BY DEF Routed
<1>2. p \in Packet /\ p.to \in End /\ p.id \in Nat
  BY SeedAssumption DEF TypeOK, Packet
<1>3. PacketConforms(base, init, connects, p)
  BY <1>1 DEF Conforms
<1>4. \A s \in sockets[p.to] :
        /\ s.recv = IdAt(base, init, p.to, s.conn)
        /\ s.send = IdAt(base, init, Other(p.to), s.conn)
        /\ s \in Socket /\ s.recv \in Nat /\ s.send \in Nat
  BY <1>1, <1>2, SeedAssumption DEF Conforms, SocketConforms, TypeOK, Socket
(* Whatever has the packet's id is of its connection.                      *)
<1>5. \A s \in sockets[p.to] : p.id \in IdsOf(s) => s.conn = p.conn
  <2> SUFFICES ASSUME NEW s \in sockets[p.to], p.id \in IdsOf(s) PROVE s.conn = p.conn
    OBVIOUS
  <2>1. Uses(s.conn, p.id) /\ Uses(p.conn, p.id)
    BY <1>2 DEF Uses, IdsIn
  <2>2. s.conn \in 1..MaxConnects /\ p.conn \in 1..MaxConnects
    BY <1>2, <1>4 DEF Socket, Packet
  <2> QED BY <1>2, <2>1, <2>2 DEF Routed, Apart
<1>6. CASE p.type \in Types
  <2>1. \A s \in sockets[p.to] : s.conn = p.conn => s.recv = p.id
    BY <1>3, <1>4, <1>6 DEF PacketConforms
  <2> QED BY <1>5, <1>6, <2>1 DEF Lookup, Own, IdsOf, Types
<1>7. CASE p.type = "RESET"
  <2>1. base[p.conn] \in Nat /\ init[p.conn] \in End /\ Other(p.to) # p.to
    BY <1>1, <1>2, OtherEnd DEF Conforms, Packet
  <2> DEFINE r == IdAt(base, init, p.to, p.conn)
  <2>2. p.id = IdAt(base, init, Other(p.to), p.conn)
    BY <1>3, <1>7 DEF PacketConforms
  <2>3. init[p.conn] = p.to \/ init[p.conn] = Other(p.to)
    BY <1>2, <2>1, OtherOther
  <2>4. r = p.id + 1 \/ r = p.id - 1
    BY <2>1, <2>2, <2>3 DEF IdAt
  <2>5. \A s \in sockets[p.to] : s.conn = p.conn => s.recv = r /\ s.send = p.id
    BY <1>4, <2>2
  <2> HIDE DEF r
  <2>6. Lookup(p.to, p.id) = {}
    BY <1>2, <1>5, <2>4, <2>5 DEF Lookup, IdsOf
  <2>7. \A i : {s \in Lookup(p.to, i) : s.send = p.id} = IF i = r THEN Own(p.to, p) ELSE {}
    BY <1>5, <2>5 DEF Lookup, Own, IdsOf
  <2>8. p.id + 1 # p.id - 1
    BY <1>2
  <2> QED BY <1>7, <2>4, <2>6, <2>7, <2>8 DEF RstTarget, Types
<1> QED BY <1>6, <1>7

(* While no seed is drawn whose ids are in use, every packet and every RST *)
(* finds the socket of its connection and no other (utp_process_udp),      *)
(* unless 65535 is drawn for a seed: one more does not fit the wire.       *)
THEOREM RoutesToOwner == ASSUME (Modulus - 1) \notin Seeds PROVE Spec => []Routing
<1>1. Init => TypeOK /\ Routed
  BY TypeInit, RoutedInit
<1>2. TypeOK /\ Routed /\ [Next]_vars => (TypeOK /\ Routed)'
  BY TypeNext, RoutedNext
<1>3. TypeOK /\ Routed => Routing
  BY RoutedRoutes
<1> QED BY <1>1, <1>2, <1>3, PTL DEF Spec
=============================================================================

----------------------------- MODULE UtpContext -----------------------------
(***************************************************************************)
(* How a utp_context keeps its sockets: the hash table utp_sockets (module *)
(* UtpHash), the list ack_sockets with each socket's place in it, and the  *)
(* cache last_utp_socket.  All of them hold pointers to sockets that are   *)
(* freed while lists of them are gone through.                             *)
(*                                                                         *)
(* What a socket is for is left out.  Of its state only CS_DESTROY counts; *)
(* a packet that arrives may put off an ack, and whatever is sent for any  *)
(* reason makes an ack that was put off needless.  The steps follow the    *)
(* loop of Storjutp::start, in one thread: datagrams are handed over until *)
(* there are none, then acks are issued, then timeouts are checked.        *)
(***************************************************************************)
EXTENDS UtpHash

CONSTANTS
  Sock,    \* memory for sockets
  Key,     \* the keys: an address and a receive id
  Width,   \* 2^64: a size_t wraps
  NULL

(* What is modelled of a socket: its key, whether it is in CS_DESTROY, and *)
(* its place in ack_sockets, or -1                                         *)
UTPSocket == [key: Key, over: BOOLEAN, ida: Int]

ASSUME ContextAssumption ==
  /\ Key \subseteq Nat /\ Width \in Nat \ {0, 1} /\ IsFiniteSet(Sock)
  /\ NULL \notin Sock /\ NULL \notin UTPSocket

VARIABLES
  sock,             \* [Sock -> UTPSocket \cup {NULL}]; NULL: the memory is free
  utp_sockets,      \* the hash table
  ack_sockets,      \* a sequence of sockets
  last_utp_socket,  \* a socket, or NULL
  at,               \* where the loop is: "receive", "acks", "sweep", "free", "gone"
  i,                \* the index into ack_sockets in utp_issue_deferred_acks
  it,               \* the iterator of utp_check_timeouts or UTP_FreeAll
  conn              \* the socket whose timeouts are being checked, or NULL

control == <<at, i, it, conn>>
vars == <<sock, utp_sockets, ack_sockets, last_utp_socket, control>>

Init ==
  /\ sock = [s \in Sock |-> NULL]
  /\ utp_sockets = EmptyTable
  /\ ack_sockets = << >>
  /\ last_utp_socket = NULL
  /\ at = "receive" /\ i = 0 /\ it = Iterator /\ conn = NULL

Live == {s \in Sock : sock[s] # NULL}

-----------------------------------------------------------------------------
(* The ack list                                                            *)

ScheduleAck(s) ==
  IF sock[s].ida # -1 THEN UNCHANGED <<sock, ack_sockets>>
  ELSE /\ sock' = [sock EXCEPT ![s].ida = Len(ack_sockets)]
       /\ ack_sockets' = Append(ack_sockets, s)

(* Mutants of Unlisted: the first socket is taken for one not listed; the  *)
(* last one keeps the place it had.                                        *)
Unlisted_NotFirst(s) ==
  LET n == Len(ack_sockets)
  IN  IF sock[s].ida <= 0 THEN <<sock, ack_sockets>>
      ELSE <<[sock EXCEPT ![ack_sockets[n]].ida = sock[s].ida, ![s].ida = -1],
             Front([ack_sockets EXCEPT ![sock[s].ida + 1] = ack_sockets[n]])>>

Unlisted_NotMoved(s) ==
  LET n == Len(ack_sockets)
  IN  IF sock[s].ida < 0 THEN <<sock, ack_sockets>>
      ELSE <<[sock EXCEPT ![s].ida = -1],
             Front([ack_sockets EXCEPT ![sock[s].ida + 1] = ack_sockets[n]])>>

(* removeSocketFromAckList: the last socket takes the place of the removed *)
(* one.  The sockets and the list that result                              *)
Unlisted(s) ==
  LET n == Len(ack_sockets)
  IN  IF sock[s].ida < 0 THEN <<sock, ack_sockets>>
      ELSE <<[sock EXCEPT ![ack_sockets[n]].ida = sock[s].ida, ![s].ida = -1],
             Front([ack_sockets EXCEPT ![sock[s].ida + 1] = ack_sockets[n]])>>

(* send_data, and so send_ack: whatever is sent carries the ack.           *)
SendData(s) == sock' = Unlisted(s)[1] /\ ack_sockets' = Unlisted(s)[2]

-----------------------------------------------------------------------------
(* Sockets come and go                                                     *)

(* libutp is called: between two calls of the loop, from a datagram, or    *)
(* from a callback that check_timeouts makes.                              *)
Busy == at = "receive" \/ conn # NULL

(* Mutant of Open: ida is not initialized.                                 *)
Open_NoIda(s, key) ==
  /\ Busy /\ sock[s] = NULL /\ LookupKey(utp_sockets, key) = {}
  /\ sock' = [sock EXCEPT ![s] = [key |-> key, over |-> FALSE, ida |-> Width]]
  /\ utp_sockets' = Add(utp_sockets, key, s)
  /\ UNCHANGED <<ack_sockets, last_utp_socket, control>>

(* utp_connect, or a SYN: a socket whose key is not in use is added.       *)
Open(s, key) ==
  /\ Busy /\ sock[s] = NULL /\ LookupKey(utp_sockets, key) = {}
  /\ sock' = [sock EXCEPT ![s] = [key |-> key, over |-> FALSE, ida |-> -1]]
  /\ utp_sockets' = Add(utp_sockets, key, s)
  /\ UNCHANGED <<ack_sockets, last_utp_socket, control>>

(* Something is sent, or the socket ends (utp_close, an RST, a timeout).   *)
Send(s) ==
  /\ Busy /\ s \in Live
  /\ SendData(s)
  /\ UNCHANGED <<utp_sockets, last_utp_socket, control>>

End(s) ==
  /\ Busy /\ s \in Live
  /\ sock' = [sock EXCEPT ![s].over = TRUE]
  /\ UNCHANGED <<utp_sockets, ack_sockets, last_utp_socket, control>>

(* Mutant of Forget: the cache keeps the socket.                           *)
Forget_Cached(s) ==
  /\ utp_sockets' = Del(utp_sockets, sock[s].key)
  /\ sock' = [Unlisted(s)[1] EXCEPT ![s] = NULL]
  /\ ack_sockets' = Unlisted(s)[2]
  /\ UNCHANGED last_utp_socket

(* The destructor of UTPSocket: no list or cache keeps the pointer.        *)
Forget(s) ==
  /\ last_utp_socket' = IF last_utp_socket = s THEN NULL ELSE last_utp_socket
  /\ utp_sockets' = Del(utp_sockets, sock[s].key)
  /\ sock' = [Unlisted(s)[1] EXCEPT ![s] = NULL]
  /\ ack_sockets' = Unlisted(s)[2]

(* utp_process_udp finds the socket a packet is for, in the cache if it is *)
(* the one of the packet before, ...                                       *)
Dispatch(key) ==
  IF last_utp_socket # NULL /\ sock[last_utp_socket].key = key THEN {last_utp_socket}
  ELSE LookupKey(utp_sockets, key)

(* ... and utp_process_incoming puts off an ack, or sends something.       *)
Receive(key) ==
  /\ at = "receive"
  /\ \E s \in Dispatch(key) :
       /\ last_utp_socket' = s
       /\ ScheduleAck(s) \/ SendData(s) \/ UNCHANGED <<sock, ack_sockets>>
  /\ UNCHANGED <<utp_sockets, control>>

-----------------------------------------------------------------------------
(* The loop                                                                *)

(* recvfrom has nothing more: utp_issue_deferred_acks.                     *)
Drained ==
  /\ at = "receive" /\ at' = "acks" /\ i' = 0
  /\ UNCHANGED <<sock, utp_sockets, ack_sockets, last_utp_socket, it, conn>>

(* Mutant of Advance: the index is not taken back.                         *)
Advance_Kept(n) == (n + 1) % Width

(* i-- in the body and i++ in the head of the loop                         *)
Advance(n) == (((n - 1) % Width) + 1) % Width

DeferredAck ==
  /\ at = "acks" /\ i < Len(ack_sockets)
  /\ SendData(ack_sockets[i + 1])
  /\ i' = Advance(i)
  /\ UNCHANGED <<utp_sockets, last_utp_socket, at, it, conn>>

(* utp_check_timeouts follows.  It does nothing unless the last one was    *)
(* TIMEOUT_CHECK_INTERVAL ago.                                             *)
CheckTimeouts ==
  /\ \/ at = "receive"
     \/ at = "acks" /\ i >= Len(ack_sockets)
  /\ at' \in {"receive", "sweep"} /\ it' = Iterator
  /\ UNCHANGED <<sock, utp_sockets, ack_sockets, last_utp_socket, i, conn>>

ValueAt(e) == utp_sockets.elems[e].value

(* The next socket: check_timeouts is called, with its callbacks.          *)
Visit ==
  /\ at = "sweep" /\ conn = NULL /\ ~AtEnd(utp_sockets, it)
  /\ conn' = ValueAt(NextElem(utp_sockets, it))
  /\ it' = Iterate(utp_sockets, it)
  /\ UNCHANGED <<sock, utp_sockets, ack_sockets, last_utp_socket, at, i>>

(* "Check if the object was deleted"                                       *)
Visited ==
  /\ conn # NULL /\ conn' = NULL
  /\ IF sock[conn].over THEN Forget(conn)
     ELSE UNCHANGED <<sock, utp_sockets, ack_sockets, last_utp_socket>>
  /\ UNCHANGED <<at, i, it>>

SweepDone ==
  /\ at = "sweep" /\ conn = NULL /\ AtEnd(utp_sockets, it)
  /\ at' = "receive" /\ it' = Iterator
  /\ UNCHANGED <<sock, utp_sockets, ack_sockets, last_utp_socket, i, conn>>

(* utp_destroy: UTP_FreeAll goes over the table and deletes all it finds.  *)
Destroy ==
  /\ at = "receive" /\ at' = "free" /\ it' = Iterator
  /\ UNCHANGED <<sock, utp_sockets, ack_sockets, last_utp_socket, i, conn>>

FreeNext ==
  /\ at = "free" /\ ~AtEnd(utp_sockets, it)
  /\ Forget(ValueAt(NextElem(utp_sockets, it)))
  /\ it' = Iterate(utp_sockets, it)
  /\ UNCHANGED <<at, i, conn>>

Freed ==
  /\ at = "free" /\ AtEnd(utp_sockets, it)
  /\ at' = "gone" /\ it' = Iterator
  /\ UNCHANGED <<sock, utp_sockets, ack_sockets, last_utp_socket, i, conn>>

Next ==
  \/ \E s \in Sock : Send(s) \/ End(s) \/ \E key \in Key : Open(s, key)
  \/ \E key \in Key : Receive(key)
  \/ Drained \/ DeferredAck \/ CheckTimeouts \/ Visit \/ Visited \/ SweepDone
  \/ Destroy \/ FreeNext \/ Freed

Spec == Init /\ [][Next]_vars

-----------------------------------------------------------------------------
(* Properties                                                              *)

(* Every variable has its type.                                            *)
TypeOK ==
  /\ \A s \in Live : sock[s] \in [key: Key, over: BOOLEAN, ida: -1..Cardinality(Sock)-1]
  /\ last_utp_socket \in Sock \cup {NULL} /\ conn \in Sock \cup {NULL}
  /\ at \in {"receive", "acks", "sweep", "free", "gone"} /\ i \in 0..Width-1

(* The table survives every order of additions and deletions.              *)
TableIntact == WellLinked(utp_sockets)

(* A packet is given to the socket with its key, from the cache or from    *)
(* the table, and the cache never points to a socket that was deleted.     *)
DispatchIsRight ==
  /\ last_utp_socket \in Live \cup {NULL}
  /\ \A key \in Key : Dispatch(key) = {s \in Live : sock[s].key = key}

(* The assertions at 657 and 658: a socket and the list agree about its    *)
(* place, however often the list was filled into holes, and no socket that *)
(* was deleted is left on it.                                              *)
AckListAgrees ==
  /\ ToSet(ack_sockets) \subseteq Live
  /\ \A s \in Live, n \in 1..Len(ack_sockets) : ack_sockets[n] = s <=> sock[s].ida = n - 1
  /\ \A s \in Live : sock[s].ida < Len(ack_sockets)

SocketsAt(elems) == {ValueAt(e) : e \in elems}

(* What a directory of the sockets would hold                              *)
Entries == {<<sock[s].key, s>> : s \in Live}
Due     == ToSet(ack_sockets)
Over    == {s \in Live : sock[s].over}
Todo    == IF at \in {"sweep", "free"} THEN SocketsAt(Remaining(utp_sockets, it)) ELSE {}
Phase   == CASE at = "receive" -> "idle" [] at = "acks" -> "acks" [] at = "sweep" -> "pass"
             [] at = "free" -> "closing" [] OTHER -> "closed"

Directory == INSTANCE SocketDirectory WITH
  directory <- Entries, due <- Due, over <- Over, phase <- Phase, todo <- Todo, visiting <- conn

(* The table, the list and the iterators do what the directory promises.   *)
ImplementsDirectory == Directory!Spec

(* utp_issue_deferred_acks comes to its end: its index is back at the      *)
(* first socket with every round, so it relies on send_ack to take that    *)
(* socket off the list.                                                    *)
AcksShrink ==
  at = "acks" => i = 0 /\ \A s \in ToSet(ack_sockets) : s \notin ToSet(Unlisted(s)[2])
=============================================================================

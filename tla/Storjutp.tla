------------------------------ MODULE Storjutp ------------------------------
(***************************************************************************)
(* One Storjutp node (cxx/Storjutp.cpp): the FileInfo objects it allocates *)
(* and deletes, the fileInfos list, the user data pointer libutp keeps for *)
(* each socket, and the callbacks that tie the three together.             *)
(*                                                                         *)
(* libutp appears through the state of each socket and the callbacks it    *)
(* makes in that state; the remote ends appear as the byte streams they    *)
(* send.  A callback and everything libutp does around it is one step, but *)
(* for the handler of the application it may call: the call is a step and  *)
(* the return of the handler, with what the node does after it, another.   *)
(* Where HandlerCalls allows it, a handler calls methods of the node in    *)
(* between, and a method it calls from within stopHash starts the loop     *)
(* again (storjutp.py; module StorjutpPy looks at the threads).            *)
(*                                                                         *)
(* A stream is a sequence of units: HeaderLen units stand for the 40 bytes *)
(* of hash and size, the rest for the file.  A FileInfo is deleted by      *)
(* clearing "live", so a pointer to a deleted object can be told apart.    *)
(***************************************************************************)
EXTENDS Integers, Sequences

CONSTANTS
  Hash,         \* file hashes
  Sock,         \* sockets libutp can allocate
  NumFiles,     \* bound: FileInfo objects ever allocated
  HeaderLen,    \* units in a header (40 bytes in the code)
  MaxSize,      \* bound: units in a file
  NULL,
  MultiSource,  \* BOOLEAN: may two peers send the same hash at a time?
  ShortHeader,  \* BOOLEAN: may a peer end its stream inside the header?
  HandlerCalls, \* where a handler may call methods: in a callback of the
                \* "loop", or called by "stop_hash"
  MaxHandlers   \* bound: handlers under way at a time

ASSUME HeaderAssumption == HeaderLen \in Nat \ {0} /\ MaxSize \in Nat
ASSUME BoundAssumption  == NumFiles \in Nat
ASSUME NullAssumption   == NULL \notin Sock /\ NULL \notin Hash /\ NULL \notin Nat
ASSUME PeerAssumption   == MultiSource \in BOOLEAN /\ ShortHeader \in BOOLEAN
ASSUME HandlerAssumption ==
  HandlerCalls \subseteq {"loop", "stop_hash"} /\ MaxHandlers \in Nat \ {0}

VARIABLES
  heap,       \* [File -> object]: every FileInfo ever allocated
  fileInfos,  \* the list: addresses grow, so its order is the order of File
  next,       \* the next address
  conn,       \* [Sock -> UTPSocket::state]
  userdata,   \* [Sock -> File or NULL]
  peer,       \* [Sock -> stream of the remote end of an accepted socket]
  reports,    \* [File -> messages its handler was given], a history
  handlers,   \* the handlers under way, the innermost first
  node        \* "up"; "down" once destructed; "undefined" once the node
              \* has used a deleted object and may do anything

vars == <<heap, fileInfos, next, conn, userdata, peer, reports, handlers, node>>

File == 1..NumFiles

(* enum CONN_STATE, and "GONE" for a socket that was deleted               *)
ConnState == {"IDLE", "SYN_SENT", "CONNECTED", "CONNECTED_FULL", "GOT_FIN",
              "DESTROY_DELAY", "FIN_SENT", "RESET", "DESTROY", "GONE"}

(* The states in which the application still holds the socket.             *)
Open == {"SYN_SENT", "CONNECTED", "CONNECTED_FULL"}

Connected == {"CONNECTED", "CONNECTED_FULL"}

Message == {"ok", "disconnected from peer", "stopped by user", "error"}

(* A handler under way: whom it returns to (the three of callHandler's     *)
(* callers that are callbacks, "error" from a RST or "timeout"), the object*)
(* it was called for, and the socket of the callback.                      *)
Frame == [from: {"stop_hash", "sent", "eof", "error", "timeout"}, file: File,
          socket: Sock \cup {NULL}]

Unit == Sock \X Int      \* the n-th file unit that came in on a socket

(* pos counts stream units handed to libutp ("send"), header units stored  *)
(* ("unknown"); a "receive" object counts by its data.                     *)
Object == [kind: {"send", "receive", "unknown"}, live: BOOLEAN,
           hash: Hash \cup {NULL}, socket: Sock \cup {NULL}, size: Nat,
           pos: Nat, data: Seq(Unit)]

NewObject(kind, hash, socket, size) ==
  [kind |-> kind, live |-> TRUE, hash |-> hash, socket |-> socket,
   size |-> size, pos |-> 0, data |-> << >>]

(* What the remote end of an accepted socket sends: total units out of a   *)
(* stream of HeaderLen + size, then a FIN.  read counts those processed.   *)
Stream == [hash: Hash, size: 0..MaxSize, total: Nat, read: Nat]

ASSUME StreamAssumption == NULL \notin Stream

Init ==
  /\ heap = [f \in File |-> [NewObject("unknown", NULL, NULL, 0) EXCEPT !.live = FALSE]]
  /\ fileInfos = {}
  /\ next = 1
  /\ conn = [s \in Sock |-> "IDLE"]
  /\ userdata = [s \in Sock |-> NULL]
  /\ peer = [s \in Sock |-> NULL]
  /\ reports = [f \in File |-> << >>]
  /\ handlers = << >>
  /\ node = "up"

-----------------------------------------------------------------------------
(* Storjutp::findFileInfo: the first listed object with this hash          *)
Matches(h) == {f \in fileInfos : heap[f].hash = h}

Found(h) == Matches(h) # {}

FindFileInfo(h) == CHOOSE f \in Matches(h) : \A g \in Matches(h) : f <= g

(* Mutant of IsCompleted: whatever has arrived by the end is the file.     *)
IsCompleted_AtEof(o) == IF o.kind = "send" THEN o.pos = HeaderLen + o.size ELSE TRUE

(* isCompleted: feof of what is sent, size = ftell of what is received     *)
IsCompleted(o) ==
  CASE o.kind = "send"    -> o.pos = HeaderLen + o.size
    [] o.kind = "receive" -> Len(o.data) = o.size
    [] o.kind = "unknown" -> FALSE

(* Mutant of CallHandler: only errors are reported.                        *)
CallHandler_ErrorsOnly(f, message, from, s) ==
  /\ reports' = IF message = "ok" THEN reports ELSE [reports EXCEPT ![f] = Append(@, message)]
  /\ handlers' = <<[from |-> from, file |-> f, socket |-> s]>> \o handlers

(* callHandler: the handler of f is under way.                             *)
CallHandler(f, message, from, s) ==
  /\ reports' = [reports EXCEPT ![f] = Append(@, message)]
  /\ handlers' = <<[from |-> from, file |-> f, socket |-> s]>> \o handlers

(* Every registered object has a handler, an unknown one has none.         *)
HasHandler(f) == heap[f].kind # "unknown"

(* Mutant of DeleteFileInfo: deleted, but still listed.                    *)
DeleteFileInfo_Listed(f) ==
  /\ heap' = [heap EXCEPT ![f].live = FALSE]
  /\ fileInfos' = fileInfos

(* Mutant of ClearedUserdata: utp_set_userdata(socket, NULL) is forgotten. *)
ClearedUserdata_Kept(f) == userdata

(* Storjutp::deleteFileInfo, and the user data of s cleared with it        *)
DeleteFileInfo(f) ==
  /\ heap' = [heap EXCEPT ![f].live = FALSE]
  /\ fileInfos' = fileInfos \ {f}

ClearedUserdata(f) ==
  [s \in Sock |-> IF s = heap[f].socket THEN NULL ELSE userdata[s]]

(* utp_close                                                               *)
Closed(state) ==
  CASE state \in Connected -> "FIN_SENT"
    [] state \in {"SYN_SENT", "GOT_FIN"} -> "DESTROY_DELAY"
    [] OTHER -> "DESTROY"

(* assert(conn->state != ...) at the head of utp_close                     *)
MayClose(state) == state \notin {"IDLE", "DESTROY_DELAY", "FIN_SENT", "DESTROY", "GONE"}

Dangling(s) == userdata[s] # NULL /\ ~heap[userdata[s]].live

(* The application may call a method: no handler is under way, or it is    *)
(* the innermost one that calls.                                           *)
MayCall ==
  /\ node = "up" /\ Len(handlers) < MaxHandlers
  /\ handlers # << >> =>
       (IF Head(handlers).from = "stop_hash" THEN "stop_hash" ELSE "loop") \in HandlerCalls

(* The loop may run: in no handler, or in one that stopHash called if such *)
(* a handler calls methods, each of which starts the loop when it is done. *)
LoopRuns ==
  /\ node = "up" /\ Len(handlers) < MaxHandlers
  /\ handlers # << >> => Head(handlers).from = "stop_hash" /\ "stop_hash" \in HandlerCalls

(* The loop runs and s can hand the node a callback.                       *)
Callback(s) == LoopRuns /\ ~Dangling(s)

(* f was deleted, or its socket was.                                       *)
Freed(f) == ~heap[f].live \/ (heap[f].socket # NULL /\ conn[heap[f].socket] = "GONE")

(* check_timeouts: the socket is deleted in the pass that leaves it in     *)
(* CS_DESTROY.                                                             *)
AfterPass(state, from) == IF from = "timeout" /\ state = "DESTROY" THEN "GONE" ELSE state

(* What the caller of callHandler does next: the object is deleted and,    *)
(* but by stopHash, which has done it before, the socket of the callback   *)
(* closed.                                                                 *)
Drop(f, from, s, state) ==
  /\ DeleteFileInfo(f)
  /\ userdata' = IF from \in {"stop_hash", "eof"} THEN ClearedUserdata(f)
                 ELSE [ClearedUserdata(f) EXCEPT ![s] = NULL]
  /\ conn' = IF from = "stop_hash" THEN conn
             ELSE [conn EXCEPT ![s] = AfterPass(Closed(state), from)]

(* callback_on_error, or the EOF of callback_on_state_change, for the      *)
(* object f of s, which libutp has put into the given state                *)
Ends(f, message, from, s, state) ==
  IF HasHandler(f)
  THEN /\ CallHandler(f, message, from, s)
       /\ conn' = [conn EXCEPT ![s] = state]
       /\ UNCHANGED <<heap, fileInfos, userdata>>
  ELSE Drop(f, from, s, state) /\ UNCHANGED <<reports, handlers>>

-----------------------------------------------------------------------------
(* API calls.  Calls that leave the state alone are not steps: a second    *)
(* registHash of a hash, sendFile of a missing file or to a bad address,   *)
(* stopHash of an unknown hash, getProgress.  (registHash of a file that   *)
(* cannot be opened loses an object nothing else will ever refer to.)      *)

RegistHash(h) ==
  /\ MayCall /\ next \in File
  /\ ~Found(h)
  /\ heap' = [heap EXCEPT ![next] = NewObject("receive", h, NULL, 0)]
  /\ fileInfos' = fileInfos \cup {next}
  /\ next' = next + 1
  /\ UNCHANGED <<conn, userdata, peer, reports, handlers, node>>

SendFile(h, s, size) ==
  /\ MayCall /\ next \in File /\ conn[s] = "IDLE"
  /\ heap' = [heap EXCEPT ![next] = NewObject("send", h, s, size)]
  /\ fileInfos' = fileInfos \cup {next}
  /\ next' = next + 1
  /\ conn' = [conn EXCEPT ![s] = "SYN_SENT"]
  /\ userdata' = [userdata EXCEPT ![s] = next]
  /\ UNCHANGED <<peer, reports, handlers, node>>

(* stopHash, as far as its call of the handler: the socket is closed, the  *)
(* object is still listed and the user data of its socket.                 *)
StopHash(h) ==
  /\ MayCall /\ Found(h)
  /\ LET f == FindFileInfo(h)
         s == heap[f].socket
     IN  /\ ~Freed(f)
         /\ conn' = IF s = NULL THEN conn ELSE [conn EXCEPT ![s] = Closed(@)]
         /\ CallHandler(f, "stopped by user", "stop_hash", NULL)
  /\ UNCHANGED <<heap, fileInfos, userdata, next, peer, node>>

(* The innermost handler returns, and its caller goes on.                  *)
HandlerReturns ==
  /\ handlers # << >> /\ node = "up"
  /\ LET frame == Head(handlers)
     IN  /\ ~Freed(frame.file)
         /\ Drop(frame.file, frame.from, frame.socket, conn[frame.socket])
  /\ handlers' = Tail(handlers)
  /\ UNCHANGED <<next, peer, reports, node>>

Allocated(s) == conn[s] \notin {"IDLE", "GONE"}

(* ~Storjutp: no handler is called; utp_destroy deletes the sockets.       *)
Destruct ==
  /\ MayCall /\ node' = "down"
  /\ heap' = [f \in File |-> IF f \in fileInfos THEN [heap[f] EXCEPT !.live = FALSE]
                             ELSE heap[f]]
  /\ fileInfos' = {}
  /\ conn' = [s \in Sock |-> IF Allocated(s) THEN "GONE" ELSE conn[s]]
  /\ userdata' = [s \in Sock |->
                    IF \E f \in fileInfos : heap[f].socket = s THEN NULL ELSE userdata[s]]
  /\ UNCHANGED <<next, peer, reports, handlers>>

-----------------------------------------------------------------------------
(* Sending: callback_on_state_change for CONNECT and WRITABLE, sendBytes.  *)

(* libutp takes n more units of the stream.  If units are left the socket  *)
(* is full; if none is, the file is reported.                              *)
SendBytes(s, f, n) ==
  /\ n \in 0..(HeaderLen + heap[f].size - heap[f].pos)
  /\ LET sent == [heap[f] EXCEPT !.pos = @ + n]
     IN  /\ heap' = [heap EXCEPT ![f] = sent]
         /\ IF IsCompleted(sent)
            THEN /\ CallHandler(f, "ok", "sent", s)
                 /\ conn' = [conn EXCEPT ![s] = "CONNECTED"]
            ELSE /\ conn' = [conn EXCEPT ![s] = "CONNECTED_FULL"]
                 /\ UNCHANGED <<reports, handlers>>
  /\ UNCHANGED <<fileInfos, userdata, next, peer, node>>

(* The SYN is acknowledged, or the window opened (process_incoming or      *)
(* check_timeouts): libutp takes at least a part of one more packet, which *)
(* may end inside the header.                                              *)
OnWindow(s) ==
  /\ Callback(s) /\ userdata[s] # NULL
  /\ \E n \in 1..(HeaderLen + MaxSize) : SendBytes(s, userdata[s], n)

OnConnect(s)  == conn[s] = "SYN_SENT" /\ OnWindow(s)

OnWritable(s) == conn[s] = "CONNECTED_FULL" /\ OnWindow(s)

-----------------------------------------------------------------------------
(* Receiving: callback_on_accept, callback_on_read, checkHash.             *)

(* The streams still coming in with a given hash                           *)
Incoming(h) == {s \in Sock : peer[s] # NULL /\ conn[s] \in Open /\ peer[s].hash = h}

OnAccept(s, h, size, total) ==
  /\ LoopRuns /\ conn[s] = "IDLE"
  /\ ~MultiSource => Incoming(h) = {}
  /\ total \in (IF ShortHeader THEN 0 ELSE HeaderLen)..(HeaderLen + size)
  /\ conn' = [conn EXCEPT ![s] = "CONNECTED"]
  /\ peer' = [peer EXCEPT ![s] = [hash |-> h, size |-> size, total |-> total, read |-> 0]]
  /\ UNCHANGED <<heap, fileInfos, next, userdata, reports, handlers, node>>

(* The file units that are the stream's units from+1 .. from+n             *)
Body(s, from, n) == [i \in 1..n |-> <<s, from + i - HeaderLen>>]

Readable(s, n) ==
  /\ conn[s] \in Connected /\ peer[s] # NULL
  /\ n \in 1..(peer[s].total - peer[s].read)

Advance(s, n) == peer' = [peer EXCEPT ![s].read = @ + n]

(* fwrite of what arrives for a registered file                            *)
ReadBody(s, n) ==
  /\ Callback(s) /\ Readable(s, n)
  /\ userdata[s] # NULL /\ heap[userdata[s]].kind = "receive"
  /\ heap' = [heap EXCEPT ![userdata[s]].data = @ \o Body(s, peer[s].read, n)]
  /\ Advance(s, n)
  /\ UNCHANGED <<fileInfos, next, conn, userdata, reports, handlers, node>>

(* Mutant of HeaderObject: the size is not taken out of the header.        *)
HeaderObject_NoSize(s) ==
  IF userdata[s] = NULL
  THEN NewObject("unknown", IF peer[s].read = 0 THEN peer[s].hash ELSE NULL, NULL, NULL)
  ELSE heap[userdata[s]]

(* The header object of s: the one it has, or a new one.  A header that    *)
(* does not start the stream is file content and names no hash.            *)
HeaderObject(s) ==
  IF userdata[s] = NULL
  THEN NewObject("unknown", IF peer[s].read = 0 THEN peer[s].hash ELSE NULL,
                 NULL, peer[s].size)
  ELSE heap[userdata[s]]

HeaderAddress(s) == IF userdata[s] = NULL THEN next ELSE userdata[s]

ReadingHeader(s, n) ==
  /\ Callback(s) /\ Readable(s, n)
  /\ userdata[s] # NULL => heap[userdata[s]].kind = "unknown"
  /\ HeaderAddress(s) \in File
  /\ next' = IF userdata[s] = NULL THEN next + 1 ELSE next
  /\ Advance(s, n)

(* putByte takes everything and the header is still incomplete.            *)
ReadHeader(s, n) ==
  /\ ReadingHeader(s, n)
  /\ HeaderObject(s).pos + n < HeaderLen
  /\ heap' = [heap EXCEPT ![HeaderAddress(s)] = [HeaderObject(s) EXCEPT !.pos = @ + n]]
  /\ userdata' = [userdata EXCEPT ![s] = HeaderAddress(s)]
  /\ UNCHANGED <<fileInfos, conn, reports, handlers, node>>

(* checkHash: the first listed object with the hash, if it is to receive   *)
Registered(h) == Found(h) /\ heap[FindFileInfo(h)].kind = "receive"

(* The header is complete and the hash registered: the rest of the read is *)
(* file content.                                                           *)
BindFile(s, n) ==
  LET o    == HeaderObject(s)
      rest == n - (HeaderLen - o.pos)
      f    == FindFileInfo(o.hash)
  IN  /\ ReadingHeader(s, n)
      /\ rest >= 0 /\ Registered(o.hash)
      /\ heap' = [g \in File |->
           CASE g = f -> [heap[f] EXCEPT !.size = o.size, !.socket = s,
                            !.data = @ \o Body(s, peer[s].read + n - rest, rest)]
             [] g = HeaderAddress(s) -> [o EXCEPT !.live = FALSE, !.pos = HeaderLen]
             [] OTHER -> heap[g]]
      /\ userdata' = [userdata EXCEPT ![s] = f]
      /\ UNCHANGED <<fileInfos, conn, reports, handlers, node>>

(* The header is complete and nobody asked for the hash.                   *)
RejectFile(s, n) ==
  LET o == HeaderObject(s)
  IN  /\ ReadingHeader(s, n)
      /\ o.pos + n >= HeaderLen /\ ~Registered(o.hash)
      /\ heap' = [heap EXCEPT ![HeaderAddress(s)] =
                    [o EXCEPT !.live = FALSE, !.pos = HeaderLen]]
      /\ userdata' = [userdata EXCEPT ![s] = NULL]
      /\ conn' = [conn EXCEPT ![s] = Closed(@)]
      /\ UNCHANGED <<fileInfos, reports, handlers, node>>

-----------------------------------------------------------------------------
(* The end of a connection                                                 *)

(* The peer's FIN is next in order: callback_on_state_change for EOF.  The *)
(* FIN of an accepted socket follows its stream; the receiver of a file    *)
(* closes when it rejects or stops it.                                     *)
FinArrives(s) ==
  /\ conn[s] \in Connected
  /\ peer[s] # NULL => peer[s].read = peer[s].total

OnEof(s) ==
  /\ Callback(s) /\ FinArrives(s)
  /\ IF userdata[s] = NULL
     THEN /\ conn' = [conn EXCEPT ![s] = Closed("GOT_FIN")]
          /\ UNCHANGED <<heap, fileInfos, userdata, reports, handlers>>
     ELSE Ends(userdata[s], IF IsCompleted(heap[userdata[s]])
                            THEN "ok" ELSE "disconnected from peer", "eof", s, "GOT_FIN")
  /\ UNCHANGED <<next, peer, node>>

(* callback_on_error on a socket that libutp has put into the given state: *)
(* one without an object stays as it is.                                   *)
OnError(s, from, state) ==
  /\ IF userdata[s] = NULL
     THEN /\ conn' = [conn EXCEPT ![s] = AfterPass(state, from)]
          /\ UNCHANGED <<heap, fileInfos, userdata, reports, handlers>>
     ELSE Ends(userdata[s], "error", from, s, state)
  /\ UNCHANGED <<next, peer, node>>

(* The state of a socket that failed: an unacknowledged FIN ends in        *)
(* CS_DESTROY.                                                             *)
FailedState(s) == IF conn[s] = "FIN_SENT" THEN "DESTROY" ELSE "RESET"

(* A RST can find the socket in any state.                                 *)
OnReset(s) == Callback(s) /\ Allocated(s) /\ OnError(s, "error", FailedState(s))

(* Mutants of Unacked: no timeout for a SYN, none for a FIN.               *)
Unacked_NoSynTimeout(s) == conn[s] \in {"CONNECTED_FULL", "FIN_SENT"}
Unacked_NoFinTimeout(s) == conn[s] \in {"SYN_SENT", "CONNECTED_FULL"}

(* Something this end sent is not acknowledged: always so until a sender   *)
(* has sent everything and after a FIN; never while a receiver reads.      *)
Unacked(s) == conn[s] \in {"SYN_SENT", "CONNECTED_FULL", "FIN_SENT"}

(* check_timeouts gives up.                                                *)
OnTimeout(s) == Callback(s) /\ Unacked(s) /\ OnError(s, "timeout", FailedState(s))

(* check_timeouts when the delay of a closed socket is over.  An error, if *)
(* packets are still unacknowledged, is reported to no object: none has    *)
(* this socket any more.                                                   *)
DelayOver(s) ==
  /\ LoopRuns /\ conn[s] = "DESTROY_DELAY"
  /\ conn' = [conn EXCEPT ![s] = "GONE"]
  /\ UNCHANGED <<heap, fileInfos, next, userdata, peer, reports, handlers, node>>

(* Everything was acknowledged, the FIN included.                          *)
FinAcked(s) ==
  /\ LoopRuns /\ conn[s] = "FIN_SENT"
  /\ conn' = [conn EXCEPT ![s] = "DESTROY"]
  /\ UNCHANGED <<heap, fileInfos, next, userdata, peer, reports, handlers, node>>

(* utp_check_timeouts deletes the socket.                                  *)
Reap(s) ==
  /\ LoopRuns /\ conn[s] = "DESTROY"
  /\ conn' = [conn EXCEPT ![s] = "GONE"]
  /\ UNCHANGED <<heap, fileInfos, next, userdata, peer, reports, handlers, node>>

(* A callback (a read, an EOF, an error) whose user data is a deleted      *)
(* object, a stopHash that would close a deleted socket, or a handler that *)
(* returns to a caller whose object or socket was deleted meanwhile:       *)
(* anything may follow.                                                    *)
UseAfterFree ==
  /\ \/ LoopRuns /\ \E s \in Sock : Dangling(s) /\ Allocated(s)
     \/ MayCall /\ \E h \in Hash : Found(h) /\ Freed(FindFileInfo(h))
     \/ handlers # << >> /\ node # "undefined" /\ Freed(Head(handlers).file)
  /\ node' = "undefined"
  /\ UNCHANGED <<heap, fileInfos, next, conn, userdata, peer, reports, handlers>>

Next ==
  \/ Destruct \/ HandlerReturns \/ UseAfterFree
  \/ \E h \in Hash : RegistHash(h) \/ StopHash(h)
  \/ \E h \in Hash, s \in Sock, size \in 0..MaxSize :
       \/ SendFile(h, s, size)
       \/ \E total \in 0..(HeaderLen + size) : OnAccept(s, h, size, total)
  \/ \E s \in Sock :
       \/ OnConnect(s) \/ OnWritable(s) \/ OnEof(s) \/ OnReset(s) \/ OnTimeout(s)
       \/ FinAcked(s) \/ DelayOver(s) \/ Reap(s)
       \/ \E n \in 1..(HeaderLen + MaxSize) :
            ReadBody(s, n) \/ ReadHeader(s, n) \/ BindFile(s, n) \/ RejectFile(s, n)

Spec == Init /\ [][Next]_vars

-----------------------------------------------------------------------------
(* Properties                                                              *)

(* Every variable has its type.                                            *)
TypeOK ==
  /\ heap \in [File -> Object]
  /\ fileInfos \subseteq File
  /\ next \in 1..(NumFiles + 1)
  /\ conn \in [Sock -> ConnState]
  /\ userdata \in [Sock -> File \cup {NULL}]
  /\ peer \in [Sock -> Stream \cup {NULL}]
  /\ reports \in [File -> Seq(Message)]
  /\ handlers \in Seq(Frame) /\ Len(handlers) <= MaxHandlers
  /\ node \in {"up", "down", "undefined"}

(* The handler of f is under way.                                          *)
Reporting(f) == \E i \in DOMAIN handlers : handlers[i].file = f

(* The pointers between sockets and FileInfo objects agree, also while a   *)
(* handler is under way: the user data of a socket is a live object, of a  *)
(* connection that is open unless the object is being reported, and listed *)
(* and pointing back unless it is still a header; and a listed object that *)
(* has a socket is the user data of that socket.  deleteFileInfo, stopHash *)
(* and every callback rely on it.                                          *)
PointersAgree ==
  node = "up" =>
    /\ \A s \in Sock : userdata[s] # NULL =>
         LET o == heap[userdata[s]]
         IN  /\ o.live /\ (conn[s] \in Open \/ Reporting(userdata[s]))
             /\ o.kind # "unknown" => userdata[s] \in fileInfos /\ o.socket = s
    /\ \A f \in fileInfos :
         /\ heap[f].live /\ heap[f].kind # "unknown"
         /\ heap[f].socket # NULL => userdata[heap[f].socket] = f

(* No callback is ever made with a deleted object as user data, and no     *)
(* method or callback goes on with an object or a socket that was deleted  *)
(* while a handler was under way.                                          *)
NoUseAfterFree == node # "undefined"

(* The assertion at the head of utp_close holds for every call the node    *)
(* can make next: stopHash on the socket of a listed object, a callback    *)
(* when its handler returns, and callback_on_error on a socket with user   *)
(* data after a RST or a timeout.                                          *)
CloseIsLegal ==
  node = "up" =>
    /\ MayCall => \A f \in fileInfos :
         heap[f].socket # NULL => MayClose(conn[heap[f].socket])
    /\ \A i \in DOMAIN handlers :
         handlers[i].from # "stop_hash" => MayClose(conn[handlers[i].socket])
    /\ LoopRuns => \A s \in Sock : userdata[s] # NULL => conn[s] # "FIN_SENT"

(* A handler is called exactly once, before its object is taken off the    *)
(* list: no finished, failed or stopped file is silent, and none is        *)
(* reported twice, be it by two callbacks, by a callback and stopHash or   *)
(* by two calls of stopHash.  (The destructor calls no handler.)           *)
ReportedOnce ==
  \A f \in 1..(next - 1) :
    IF heap[f].kind = "unknown" \/ (f \in fileInfos /\ ~Reporting(f))
    THEN reports[f] = << >>
    ELSE /\ Len(reports[f]) <= 1
         /\ node = "up" => reports[f] # << >>

(* When a receiver is told that all is well, its file is exactly the file  *)
(* of one peer, in order and complete, and it is the file it asked for.    *)
WholeFile ==
  \A f \in File :
    heap[f].kind = "receive" /\ reports[f] = <<"ok">> =>
      LET s == heap[f].socket
      IN  /\ s # NULL
          /\ peer[s].hash = heap[f].hash
          /\ heap[f].data = [i \in 1..peer[s].size |-> <<s, i>>]

-----------------------------------------------------------------------------
(* Fairness.  check_timeouts looks at every socket again and again, so a   *)
(* timeout that stays due happens, and handlers return, be it to something *)
(* that was deleted; nothing is assumed of the network here.               *)
FreedIsUsed ==
  /\ UseAfterFree
  /\ \/ LoopRuns /\ \E s \in Sock : Dangling(s) /\ Unacked(s)
     \/ handlers # << >> /\ Freed(Head(handlers).file)

TimerFairness ==
  /\ \A s \in Sock : WF_vars(OnTimeout(s)) /\ WF_vars(Reap(s)) /\ WF_vars(DelayOver(s))
  /\ WF_vars(HandlerReturns) /\ WF_vars(FreedIsUsed)

(* A peer that goes on sending its stream, up to and with the FIN          *)
PeerStep(s) ==
  \/ peer[s] # NULL /\ OnEof(s)
  \/ \E n \in 1..(HeaderLen + MaxSize) :
       ReadBody(s, n) \/ ReadHeader(s, n) \/ BindFile(s, n) \/ RejectFile(s, n)

LiveSpec == Spec /\ TimerFairness /\ \A s \in Sock : WF_vars(PeerStep(s))

(* Every file that is being sent is reported to its handler, whatever the  *)
(* peer and the network do, unless the node is destructed first.           *)
SenderReported ==
  \A f \in File :
    (f \in fileInfos /\ heap[f].kind = "send") ~> (reports[f] # << >> \/ node # "up")

(* Every file that is being received is reported if its peer lives.        *)
ReceiverReported ==
  \A f \in File :
    (f \in fileInfos /\ heap[f].socket # NULL) ~> (reports[f] # << >> \/ node # "up")

(* A closed connection is eventually given back to libutp's pool, or left  *)
(* behind in RESET by a late RST; it never stays half closed.              *)
ClosedIsFreed ==
  \A s \in Sock :
    (conn[s] \in {"FIN_SENT", "DESTROY_DELAY", "DESTROY"})
      ~> (conn[s] \in {"GONE", "RESET"} \/ node # "up")
=============================================================================

--------------------------- MODULE Storjutp_proofs --------------------------
(***************************************************************************)
(* Proofs about Storjutp, for any hashes, sockets, header length and       *)
(* bounds: its types; if no handler calls a method of the node, the one    *)
(* report of each file whatever the peers do; and then its pointers and    *)
(* the files it receives, if moreover no two peers send a file of the same *)
(* hash at a time and none ends its stream inside the header.  The run on  *)
(* short headers shows what becomes of the pointers otherwise.             *)
(***************************************************************************)
EXTENDS Storjutp, WellFoundedInduction, SequenceTheorems, TLAPS

USE DEF File

-----------------------------------------------------------------------------
(* Type correctness                                                        *)

LEMMA NextFits == ASSUME NEW n \in 1..(NumFiles + 1), n \in File PROVE n + 1 \in 1..(NumFiles + 1)
BY BoundAssumption

(* findFileInfo returns a listed object with the hash it looks for.        *)
LEMMA FindFileInfoFinds ==
  ASSUME TypeOK, NEW h, Found(h)
  PROVE  FindFileInfo(h) \in fileInfos /\ heap[FindFileInfo(h)].hash = h
<1>1. Matches(h) \subseteq Nat /\ Matches(h) # {}
  <2>1. Matches(h) \subseteq fileInfos
    BY DEF Matches
  <2>2. fileInfos \subseteq Nat
    BY BoundAssumption DEF TypeOK
  <2> QED BY <2>1, <2>2 DEF Found
<1>2. \E f \in Matches(h) : \A g \in Matches(h) : <<g, f>> \notin OpToRel(<, Nat)
  BY <1>1, NatLessThanWellFounded, WFMin
<1>3. \E f \in Matches(h) : \A g \in Matches(h) : f <= g
  <2>1. PICK f \in Matches(h) : \A g \in Matches(h) : <<g, f>> \notin OpToRel(<, Nat)
    BY <1>2
  <2>2. ASSUME NEW g \in Matches(h), g < f PROVE FALSE
    <3>1. <<g, f>> \in Nat \X Nat /\ <<g, f>>[1] < <<g, f>>[2]
      BY <1>1, <2>2
    <3> QED BY <2>1, <3>1 DEF OpToRel
  <2> QED BY <1>1, <2>2
<1> QED BY <1>3 DEF FindFileInfo, Matches

LEMMA NewObjectType ==
  ASSUME NEW k \in {"send", "receive", "unknown"}, NEW h \in Hash \cup {NULL},
         NEW s \in Sock \cup {NULL}, NEW n \in Nat
  PROVE  NewObject(k, h, s, n) \in Object
BY DEF NewObject, Object

(* Objects stay objects when they advance or are deleted.                  *)
LEMMA AdvancedObject ==
  ASSUME NEW o \in Object, NEW n \in Nat PROVE [o EXCEPT !.pos = @ + n] \in Object
<1>1. o.pos + n \in Nat
  BY DEF Object
<1> QED BY <1>1 DEF Object

LEMMA DeletedObject ==
  ASSUME NEW o \in Object PROVE [o EXCEPT !.live = FALSE] \in Object
BY DEF Object

LEMMA DeleteType ==
  ASSUME TypeOK, NEW f \in File, DeleteFileInfo(f)
  PROVE  heap' \in [File -> Object] /\ fileInfos' \subseteq File
<1>1. heap[f] \in Object
  BY DEF TypeOK
<1>2. [heap[f] EXCEPT !.live = FALSE] \in Object
  BY <1>1, DeletedObject
<1>3. heap' = [heap EXCEPT ![f] = [heap[f] EXCEPT !.live = FALSE]] /\ fileInfos' = fileInfos \ {f}
  BY DEF DeleteFileInfo
<1> QED BY <1>2, <1>3 DEF TypeOK

LEMMA ClosedType == ASSUME NEW st \in ConnState PROVE Closed(st) \in ConnState
BY DEF Closed, ConnState, Connected

LEMMA ClearedType == ASSUME TypeOK, NEW f \in File PROVE ClearedUserdata(f) \in [Sock -> File \cup {NULL}]
BY DEF TypeOK, ClearedUserdata

LEMMA ReportType ==
  ASSUME TypeOK, NEW f \in File, NEW m \in Message,
         NEW from \in {"stop_hash", "sent", "eof", "error", "timeout"}, NEW s \in Sock \cup {NULL},
         CallHandler(f, m, from, s), Len(handlers) < MaxHandlers
  PROVE  /\ reports' \in [File -> Seq(Message)]
         /\ handlers' \in Seq(Frame) /\ Len(handlers') <= MaxHandlers
<1> DEFINE frame == [from |-> from, file |-> f, socket |-> s]
<1>1. reports' \in [File -> Seq(Message)]
  BY DEF TypeOK, CallHandler
<1>2. frame \in Frame /\ handlers' = <<frame>> \o handlers /\ handlers \in Seq(Frame)
  BY DEF CallHandler, Frame, TypeOK
<1> HIDE DEF frame
<1>3. <<frame>> \in Seq(Frame) /\ Len(<<frame>>) = 1
  BY <1>2
<1>4. handlers' \in Seq(Frame) /\ Len(handlers') = 1 + Len(handlers)
  BY <1>2, <1>3, ConcatProperties
<1>5. Len(handlers) \in Nat
  BY <1>2, LenProperties
<1> QED BY <1>1, <1>4, <1>5, HandlerAssumption

LEMMA DropType ==
  ASSUME TypeOK, NEW f \in File, NEW from, NEW s, NEW st, Drop(f, from, s, st)
  PROVE  /\ heap' \in [File -> Object] /\ fileInfos' \subseteq File
         /\ conn' \in [Sock -> ConnState] /\ userdata' \in [Sock -> File \cup {NULL}]
<1>1. heap' \in [File -> Object] /\ fileInfos' \subseteq File
  BY DeleteType DEF Drop
<1>2. AfterPass(Closed(st), from) \in ConnState
  BY DEF AfterPass, Closed, ConnState
<1>3. conn' \in [Sock -> ConnState]
  BY <1>2 DEF Drop, TypeOK
<1>4. userdata' \in [Sock -> File \cup {NULL}]
  BY ClearedType DEF Drop
<1> QED BY <1>1, <1>3, <1>4

LEMMA EndsType ==
  ASSUME TypeOK, NEW f \in File, NEW m \in Message,
         NEW from \in {"eof", "error", "timeout"}, NEW s \in Sock, NEW st \in ConnState,
         Ends(f, m, from, s, st), Len(handlers) < MaxHandlers, UNCHANGED <<next, peer, node>>
  PROVE  TypeOK'
<1>1. CASE HasHandler(f)
  <2>1. CallHandler(f, m, from, s)
    BY <1>1 DEF Ends
  <2>2. /\ reports' \in [File -> Seq(Message)]
        /\ handlers' \in Seq(Frame) /\ Len(handlers') <= MaxHandlers
    BY <2>1, ReportType
  <2> QED BY <1>1, <2>2 DEF Ends, TypeOK
<1>2. CASE ~HasHandler(f)
  <2>1. Drop(f, from, s, st) /\ UNCHANGED <<reports, handlers>>
    BY <1>2 DEF Ends
  <2>2. /\ heap' \in [File -> Object] /\ fileInfos' \subseteq File
        /\ conn' \in [Sock -> ConnState] /\ userdata' \in [Sock -> File \cup {NULL}]
    BY <2>1, DropType
  <2> QED BY <2>1, <2>2 DEF TypeOK
<1> QED BY <1>1, <1>2

LEMMA BodyType ==
  ASSUME NEW s \in Sock, NEW i \in Nat, NEW n \in Nat PROVE Body(s, i, n) \in Seq(Unit)
BY HeaderAssumption DEF Body, Unit

LEMMA HeaderObjectType ==
  ASSUME TypeOK, NEW s \in Sock, peer[s] # NULL PROVE HeaderObject(s) \in Object
<1>1. peer[s] \in Stream
  BY DEF TypeOK
<1>2. peer[s].hash \in Hash /\ peer[s].size \in Nat
  BY <1>1, HeaderAssumption DEF Stream
<1>3. CASE userdata[s] = NULL
  BY <1>2, <1>3, NewObjectType DEF HeaderObject
<1>4. CASE userdata[s] # NULL
  BY <1>4 DEF HeaderObject, TypeOK
<1> QED BY <1>3, <1>4

LEMMA AdvanceType ==
  ASSUME TypeOK, NEW s \in Sock, NEW n \in Nat, peer[s] # NULL, Advance(s, n)
  PROVE  peer' \in [Sock -> Stream \cup {NULL}]
<1>1. peer[s] \in Stream
  BY DEF TypeOK
<1>2. [peer[s] EXCEPT !.read = @ + n] \in Stream
  BY <1>1 DEF Stream
<1> QED BY <1>2 DEF Advance, TypeOK

LEMMA SendBytesType ==
  ASSUME TypeOK, NEW s \in Sock, NEW f \in File, NEW n \in Nat, SendBytes(s, f, n),
         Len(handlers) < MaxHandlers
  PROVE  TypeOK'
<1> DEFINE sent == [heap[f] EXCEPT !.pos = @ + n]
<1>1. sent \in Object
  <2>1. heap[f] \in Object
    BY DEF TypeOK
  <2> QED BY <2>1, AdvancedObject
<1>2. heap' = [heap EXCEPT ![f] = sent] /\ UNCHANGED <<fileInfos, userdata, next, peer, node>>
  BY DEF SendBytes
<1>3. heap' \in [File -> Object]
  BY <1>1, <1>2 DEF TypeOK
<1>4. CASE IsCompleted(sent)
  <2>1. CallHandler(f, "ok", "sent", s) /\ conn' = [conn EXCEPT ![s] = "CONNECTED"]
    BY <1>4 DEF SendBytes
  <2>2. "ok" \in Message /\ "CONNECTED" \in ConnState
    BY DEF Message, ConnState
  <2>3. /\ reports' \in [File -> Seq(Message)]
        /\ handlers' \in Seq(Frame) /\ Len(handlers') <= MaxHandlers
    BY <2>1, <2>2, ReportType
  <2> QED BY <1>2, <1>3, <2>1, <2>2, <2>3 DEF TypeOK
<1>5. CASE ~IsCompleted(sent)
  <2>1. conn' = [conn EXCEPT ![s] = "CONNECTED_FULL"] /\ UNCHANGED <<reports, handlers>>
    BY <1>5 DEF SendBytes
  <2> QED BY <1>2, <1>3, <2>1 DEF TypeOK, ConnState
<1> QED BY <1>4, <1>5

LEMMA OnErrorType ==
  ASSUME TypeOK, NEW s \in Sock, NEW st \in ConnState, NEW from \in {"error", "timeout"},
         OnError(s, from, st), Len(handlers) < MaxHandlers
  PROVE  TypeOK'
<1>1. CASE userdata[s] = NULL
  <2>1. AfterPass(st, from) \in ConnState
    BY DEF AfterPass, ConnState
  <2> QED BY <1>1, <2>1 DEF OnError, TypeOK
<1>2. CASE userdata[s] # NULL
  <2>1. userdata[s] \in File /\ "error" \in Message
    BY <1>2 DEF TypeOK, Message
  <2>2. Ends(userdata[s], "error", from, s, st) /\ UNCHANGED <<next, peer, node>>
    BY <1>2 DEF OnError
  <2> QED BY <2>1, <2>2, EndsType
<1> QED BY <1>1, <1>2

LEMMA ReadingHeaderType ==
  ASSUME TypeOK, NEW s \in Sock, NEW n \in Nat, ReadingHeader(s, n)
  PROVE  /\ HeaderAddress(s) \in File /\ HeaderObject(s) \in Object
         /\ peer[s] \in Stream /\ next' \in 1..(NumFiles + 1)
         /\ peer' \in [Sock -> Stream \cup {NULL}]
<1>1. peer[s] # NULL /\ HeaderAddress(s) \in File /\ Advance(s, n)
  BY DEF ReadingHeader, Readable
<1>2. next' \in 1..(NumFiles + 1)
  BY <1>1, NextFits DEF ReadingHeader, HeaderAddress, TypeOK
<1> QED BY <1>1, <1>2, HeaderObjectType, AdvanceType DEF TypeOK

LEMMA BindFileType ==
  ASSUME TypeOK, NEW s \in Sock, NEW n \in Nat, BindFile(s, n) PROVE TypeOK'
<1> DEFINE o == HeaderObject(s)
           rest == n - (HeaderLen - o.pos)
           f == FindFileInfo(o.hash)
           from == peer[s].read + n - rest
<1>1. /\ ReadingHeader(s, n) /\ rest >= 0 /\ Registered(o.hash)
      /\ heap' = [g \in File |->
           CASE g = f -> [heap[f] EXCEPT !.size = o.size, !.socket = s,
                            !.data = @ \o Body(s, from, rest)]
             [] g = HeaderAddress(s) -> [o EXCEPT !.live = FALSE, !.pos = HeaderLen]
             [] OTHER -> heap[g]]
      /\ userdata' = [userdata EXCEPT ![s] = f]
      /\ UNCHANGED <<fileInfos, conn, reports, handlers, node>>
  BY DEF BindFile
<1>2. /\ o \in Object /\ peer[s] \in Stream /\ next' \in 1..(NumFiles + 1)
      /\ peer' \in [Sock -> Stream \cup {NULL}]
  BY <1>1, ReadingHeaderType
<1>3. f \in File /\ heap[f] \in Object
  BY <1>1, FindFileInfoFinds DEF Registered, TypeOK
<1>4. o.pos \in Nat /\ o.size \in Nat /\ peer[s].read \in Nat /\ HeaderLen \in Nat
  BY <1>2, HeaderAssumption DEF Object, Stream
<1>6. Body(s, from, rest) \in Seq(Unit)
  <2>1. rest \in Nat /\ from \in Int
    BY <1>1, <1>4
  <2> QED BY <2>1, HeaderAssumption DEF Body, Unit
<1>7. heap[f].data \o Body(s, from, rest) \in Seq(Unit)
  <2>1. heap[f].data \in Seq(Unit)
    BY <1>3 DEF Object
  <2> QED BY <2>1, <1>6
<1>8. [heap[f] EXCEPT !.size = o.size, !.socket = s, !.data = @ \o Body(s, from, rest)] \in Object
  BY <1>3, <1>4, <1>7 DEF Object
<1>9. [o EXCEPT !.live = FALSE, !.pos = HeaderLen] \in Object
  BY <1>2, <1>4 DEF Object
<1>10. heap' \in [File -> Object]
  <2> HIDE DEF o, rest, f, from
  <2> QED BY <1>1, <1>8, <1>9 DEF TypeOK
<1> QED BY <1>1, <1>2, <1>3, <1>10 DEF TypeOK

LEMMA ReadBodyType ==
  ASSUME TypeOK, NEW s \in Sock, NEW n \in Nat, ReadBody(s, n) PROVE TypeOK'
<1>1. peer[s] # NULL /\ userdata[s] \in File /\ Advance(s, n)
  BY DEF ReadBody, Readable, TypeOK
<1>2. peer[s] \in Stream /\ heap[userdata[s]] \in Object
  BY <1>1 DEF TypeOK
<1>3. peer[s].read \in Nat /\ heap[userdata[s]].data \in Seq(Unit)
  BY <1>2 DEF Stream, Object
<1>4. heap[userdata[s]].data \o Body(s, peer[s].read, n) \in Seq(Unit)
  <2>1. Body(s, peer[s].read, n) \in Seq(Unit)
    BY <1>3, BodyType
  <2> QED BY <1>3, <2>1
<1>5. [heap[userdata[s]] EXCEPT !.data = @ \o Body(s, peer[s].read, n)] \in Object
  BY <1>2, <1>4 DEF Object
<1>6. heap' = [heap EXCEPT ![userdata[s]] =
                 [heap[userdata[s]] EXCEPT !.data = @ \o Body(s, peer[s].read, n)]]
  BY DEF ReadBody
<1>7. heap' \in [File -> Object]
  BY <1>1, <1>5, <1>6 DEF TypeOK
<1>8. peer' \in [Sock -> Stream \cup {NULL}]
  BY <1>1, AdvanceType
<1> QED BY <1>7, <1>8 DEF ReadBody, TypeOK

LEMMA HeaderStepType ==
  ASSUME TypeOK, NEW s \in Sock, NEW n \in Nat, ReadHeader(s, n) \/ RejectFile(s, n)
  PROVE  TypeOK'
<1>1. ReadingHeader(s, n)
  BY DEF ReadHeader, RejectFile
<1>2. /\ HeaderAddress(s) \in File /\ HeaderObject(s) \in Object
      /\ next' \in 1..(NumFiles + 1) /\ peer' \in [Sock -> Stream \cup {NULL}]
  BY <1>1, ReadingHeaderType
<1>3. CASE ReadHeader(s, n)
  <2>1. [HeaderObject(s) EXCEPT !.pos = @ + n] \in Object
    BY <1>2, AdvancedObject
  <2> QED BY <1>2, <1>3, <2>1 DEF ReadHeader, TypeOK
<1>4. CASE RejectFile(s, n)
  <2>1. [HeaderObject(s) EXCEPT !.live = FALSE, !.pos = HeaderLen] \in Object
    BY <1>2, HeaderAssumption DEF Object
  <2> QED BY <1>2, <1>4, <2>1, ClosedType DEF RejectFile, TypeOK
<1> QED BY <1>3, <1>4

LEMMA StopHashType == ASSUME TypeOK, NEW h \in Hash, StopHash(h) PROVE TypeOK'
<1> DEFINE f == FindFileInfo(h)
<1>1. f \in File /\ heap[f] \in Object /\ "stopped by user" \in Message
  BY FindFileInfoFinds DEF StopHash, TypeOK, Message
<1>2. conn' \in [Sock -> ConnState]
  BY ClosedType DEF StopHash, TypeOK
<1>3. /\ CallHandler(f, "stopped by user", "stop_hash", NULL) /\ Len(handlers) < MaxHandlers
      /\ UNCHANGED <<heap, fileInfos, userdata, next, peer, node>>
  BY DEF StopHash, MayCall
<1> HIDE DEF f
<1>4. /\ reports' \in [File -> Seq(Message)]
      /\ handlers' \in Seq(Frame) /\ Len(handlers') <= MaxHandlers
  BY <1>1, <1>3, ReportType
<1> QED BY <1>2, <1>3, <1>4 DEF TypeOK

LEMMA HandlerReturnsType == ASSUME TypeOK, HandlerReturns PROVE TypeOK'
<1> DEFINE frame == Head(handlers)
<1>1. handlers \in Seq(Frame) /\ handlers # << >>
  BY DEF HandlerReturns, TypeOK
<1>2. /\ frame \in Frame /\ Tail(handlers) \in Seq(Frame)
      /\ Len(Tail(handlers)) = Len(handlers) - 1 /\ Len(handlers) \in Nat
  BY <1>1, HeadTailProperties, LenProperties
<1>3. /\ Drop(frame.file, frame.from, frame.socket, conn[frame.socket])
      /\ handlers' = Tail(handlers) /\ UNCHANGED <<next, peer, reports, node>>
  BY DEF HandlerReturns
<1>4. frame.file \in File
  BY <1>2 DEF Frame
<1> HIDE DEF frame
<1>5. /\ heap' \in [File -> Object] /\ fileInfos' \subseteq File
      /\ conn' \in [Sock -> ConnState] /\ userdata' \in [Sock -> File \cup {NULL}]
  BY <1>3, <1>4, DropType
<1>6. handlers' \in Seq(Frame) /\ Len(handlers') <= MaxHandlers
  BY <1>2, <1>3, HandlerAssumption DEF TypeOK
<1> QED BY <1>3, <1>5, <1>6 DEF TypeOK

LEMMA OnEofType == ASSUME TypeOK, NEW s \in Sock, OnEof(s) PROVE TypeOK'
<1>1. CASE userdata[s] = NULL
  BY <1>1, ClosedType DEF OnEof, TypeOK, ConnState
<1>2. CASE userdata[s] # NULL
  <2>1. userdata[s] \in File /\ "GOT_FIN" \in ConnState /\ Len(handlers) < MaxHandlers
    BY <1>2 DEF OnEof, Callback, LoopRuns, TypeOK, ConnState
  <2>2. \E m \in Message : Ends(userdata[s], m, "eof", s, "GOT_FIN")
    BY <1>2 DEF OnEof, Message
  <2> QED BY <2>1, <2>2, EndsType DEF OnEof
<1> QED BY <1>1, <1>2

LEMMA RegistHashType == ASSUME TypeOK, NEW h \in Hash, RegistHash(h) PROVE TypeOK'
<1>1. next \in File /\ next + 1 \in 1..(NumFiles + 1)
  BY NextFits DEF RegistHash, TypeOK
<1>2. NewObject("receive", h, NULL, 0) \in Object
  BY NewObjectType
<1> QED BY <1>1, <1>2 DEF RegistHash, TypeOK

LEMMA SendFileType ==
  ASSUME TypeOK, NEW h \in Hash, NEW s \in Sock, NEW size \in 0..MaxSize, SendFile(h, s, size)
  PROVE  TypeOK'
<1>1. next \in File /\ next + 1 \in 1..(NumFiles + 1)
  BY NextFits DEF SendFile, TypeOK
<1>2. NewObject("send", h, s, size) \in Object
  BY HeaderAssumption, NewObjectType
<1> QED BY <1>1, <1>2 DEF SendFile, TypeOK, ConnState

LEMMA OnAcceptType ==
  ASSUME TypeOK, NEW h \in Hash, NEW s \in Sock, NEW size \in 0..MaxSize, NEW total \in Nat,
         OnAccept(s, h, size, total)
  PROVE  TypeOK'
<1>1. [hash |-> h, size |-> size, total |-> total, read |-> 0] \in Stream
  BY DEF Stream
<1> QED BY <1>1 DEF OnAccept, TypeOK, ConnState

LEMMA DestructType == ASSUME TypeOK, Destruct PROVE TypeOK'
<1>1. ASSUME NEW f \in File PROVE [heap[f] EXCEPT !.live = FALSE] \in Object /\ heap[f] \in Object
  BY DeletedObject DEF TypeOK
<1> QED BY <1>1 DEF Destruct, TypeOK, ConnState

LEMMA TypeNext == TypeOK /\ [Next]_vars => TypeOK'
<1> SUFFICES ASSUME TypeOK, [Next]_vars PROVE TypeOK'
  OBVIOUS
<1>1. CASE Destruct
  BY <1>1, DestructType
<1>2. ASSUME NEW h \in Hash, RegistHash(h) PROVE TypeOK'
  BY <1>2, RegistHashType
<1>3. ASSUME NEW h \in Hash, StopHash(h) PROVE TypeOK'
  BY <1>3, StopHashType
<1>4. ASSUME NEW h \in Hash, NEW s \in Sock, NEW size \in 0..MaxSize, SendFile(h, s, size)
      PROVE TypeOK'
  BY <1>4, SendFileType
<1>5. ASSUME NEW h \in Hash, NEW s \in Sock, NEW size \in 0..MaxSize,
             NEW total \in 0..(HeaderLen + size), OnAccept(s, h, size, total)
      PROVE TypeOK'
  <2>1. total \in Nat
    BY HeaderAssumption
  <2> QED BY <1>5, <2>1, OnAcceptType
<1>6. ASSUME NEW s \in Sock, OnConnect(s) \/ OnWritable(s) PROVE TypeOK'
  <2>1. userdata[s] \in File /\ Len(handlers) < MaxHandlers
    BY <1>6 DEF OnConnect, OnWritable, OnWindow, Callback, LoopRuns, TypeOK
  <2>2. \E n \in Nat : SendBytes(s, userdata[s], n)
    BY <1>6, HeaderAssumption DEF OnConnect, OnWritable, OnWindow
  <2> QED BY <2>1, <2>2, SendBytesType
<1>7. ASSUME NEW s \in Sock, OnEof(s) PROVE TypeOK'
  BY <1>7, OnEofType
<1>8. ASSUME NEW s \in Sock, OnReset(s) \/ OnTimeout(s) PROVE TypeOK'
  <2>1. \E from \in {"error", "timeout"} : OnError(s, from, FailedState(s))
    BY <1>8 DEF OnReset, OnTimeout
  <2>2. FailedState(s) \in ConnState /\ Len(handlers) < MaxHandlers
    BY <1>8 DEF OnReset, OnTimeout, Callback, LoopRuns, FailedState, ConnState
  <2> QED BY <2>1, <2>2, OnErrorType
<1>9. CASE HandlerReturns
  BY <1>9, HandlerReturnsType
<1>10. ASSUME NEW s \in Sock, FinAcked(s) \/ Reap(s) \/ DelayOver(s) PROVE TypeOK'
  BY <1>10 DEF FinAcked, Reap, DelayOver, TypeOK, ConnState
<1>11. CASE UseAfterFree
  BY <1>11 DEF UseAfterFree, TypeOK
<1>12. ASSUME NEW s \in Sock, NEW n \in 1..(HeaderLen + MaxSize),
              ReadBody(s, n) \/ ReadHeader(s, n) \/ BindFile(s, n) \/ RejectFile(s, n)
       PROVE TypeOK'
  <2>1. n \in Nat
    BY HeaderAssumption
  <2> QED BY <1>12, <2>1, ReadBodyType, HeaderStepType, BindFileType
<1>13. CASE UNCHANGED vars
  BY <1>13 DEF vars, TypeOK
<1> QED BY <1>1, <1>2, <1>3, <1>4, <1>5, <1>6, <1>7, <1>8, <1>9, <1>10, <1>11, <1>12, <1>13
        DEF Next

LEMMA TypeInit == Init => TypeOK
<1> SUFFICES ASSUME Init PROVE TypeOK
  OBVIOUS
<1>1. [NewObject("unknown", NULL, NULL, 0) EXCEPT !.live = FALSE] \in Object
  BY NewObjectType, DeletedObject
<1> QED BY <1>1, BoundAssumption, HandlerAssumption DEF Init, TypeOK, ConnState

(* Every variable keeps its type, also with peers that send the same hash  *)
(* twice or end inside the header.                                         *)
THEOREM TypeCorrect == Spec => []TypeOK
BY TypeInit, TypeNext, PTL DEF Spec
-----------------------------------------------------------------------------
(* One report for each file                                                *)

(* No handler calls a method of the node, from wherever it is called.      *)
HandlersKeepOut == HandlerCalls = {}

(* The objects in use are the listed ones and the headers; an object not   *)
(* yet allocated, a header and a listed object have no report, unless its  *)
(* handler is under way; then, and when it has left the list, it has one.  *)
(* The handler under way is alone.                                         *)
Ledger ==
  /\ \A f \in File :
       /\ f \in fileInfos => f < next /\ heap[f].live /\ heap[f].kind # "unknown"
       /\ heap[f].live => f < next /\ (heap[f].kind = "unknown" \/ f \in fileInfos)
       /\ (f \in fileInfos /\ ~Reporting(f)) \/ heap[f].kind = "unknown" \/ f >= next
            => reports[f] = << >>
       /\ (f \notin fileInfos \/ Reporting(f)) /\ heap[f].kind # "unknown" /\ f < next =>
            /\ Len(reports[f]) <= 1
            /\ node = "up" => reports[f] # << >>
  /\ Len(handlers) <= 1
  /\ handlers # << >> => Head(handlers).file \in fileInfos

LEMMA LedgerReported == ASSUME TypeOK, Ledger PROVE ReportedOnce
<1>1. \A f \in 1..(next - 1) : f \in File /\ f < next
  BY BoundAssumption DEF TypeOK
<1> QED BY <1>1 DEF Ledger, ReportedOnce

(* Nothing is reported while no handler is under way.                      *)
LEMMA Quiet == ASSUME handlers = << >>, NEW f PROVE ~Reporting(f)
BY DEF Reporting

LEMMA Single ==
  ASSUME NEW S, NEW q \in Seq(S), q # << >>, Len(q) <= 1
  PROVE  Len(q) = 1 /\ DOMAIN q = 1..1 /\ Head(q) = q[1] /\ Head(q) \in S
<1>1. Len(q) \in Nat /\ Len(q) # 0 /\ DOMAIN q = 1..Len(q)
  BY EmptySeq, LenProperties
<1>2. Len(q) = 1 /\ DOMAIN q = 1..1
  BY <1>1
<1>3. Head(q) \in S
  BY HeadTailProperties
<1>4. Head(q) = q[1]
  OBVIOUS
<1> QED BY <1>2, <1>3, <1>4

LEMMA Solo ==
  ASSUME TypeOK, Len(handlers) <= 1, NEW f
  PROVE  Reporting(f) <=> handlers # << >> /\ Head(handlers).file = f
<1>1. handlers \in Seq(Frame)
  BY DEF TypeOK
<1>2. CASE handlers = << >>
  BY <1>2, Quiet
<1>3. CASE handlers # << >>
  <2>1. Head(handlers) = handlers[1] /\ DOMAIN handlers = 1..1
    BY <1>1, <1>3, Single
  <2> QED BY <1>3, <2>1 DEF Reporting
<1> QED BY <1>2, <1>3

(* callHandler where none is under way, and its return                     *)
LEMMA Called ==
  ASSUME handlers = << >>, NEW f \in File, NEW m, NEW from, NEW s, CallHandler(f, m, from, s)
  PROVE  /\ Len(handlers') = 1 /\ handlers' # << >>
         /\ Head(handlers)' = [from |-> from, file |-> f, socket |-> s]
         /\ \A g : Reporting(g)' <=> g = f
<1> DEFINE frame == [from |-> from, file |-> f, socket |-> s]
<1>1. handlers' = <<frame>>
  BY DEF CallHandler
<1>2. frame.file = f
  OBVIOUS
<1> HIDE DEF frame
<1>3. Len(<<frame>>) = 1 /\ <<frame>> # << >> /\ Head(<<frame>>) = frame
      /\ DOMAIN <<frame>> = 1..1 /\ <<frame>>[1] = frame
  OBVIOUS
<1> QED BY <1>1, <1>2, <1>3 DEF Reporting, frame

LEMMA Returned ==
  ASSUME TypeOK, Len(handlers) <= 1, HandlerReturns
  PROVE  handlers' = << >> /\ Head(handlers) \in Frame
<1>1. handlers \in Seq(Frame) /\ handlers # << >> /\ handlers' = Tail(handlers)
  BY DEF HandlerReturns, TypeOK
<1>2. /\ Tail(handlers) \in Seq(Frame) /\ Len(Tail(handlers)) = Len(handlers) - 1
      /\ Head(handlers) \in Frame /\ Len(handlers) \in Nat
  BY <1>1, HeadTailProperties, LenProperties
<1>3. Len(handlers) = 1
  BY <1>1, <1>2, EmptySeq
<1> QED BY <1>1, <1>2, <1>3, EmptySeq

(* What is not a handler waits for the handler under way.                  *)
LEMMA Waiting ==
  ASSUME HandlersKeepOut PROVE (MayCall => handlers = << >>) /\ (LoopRuns => handlers = << >>)
BY DEF HandlersKeepOut, MayCall, LoopRuns

LEMMA LedgerInit == Init => Ledger
<1> SUFFICES ASSUME Init PROVE Ledger
  OBVIOUS
<1>1. Len(handlers) <= 1 /\ handlers = << >>
  BY DEF Init
<1> QED BY <1>1, BoundAssumption DEF Init, Ledger, NewObject

(* The handler of a listed object is called.                               *)
LEMMA LedgerReports ==
  ASSUME TypeOK, Ledger, handlers = << >>, NEW f \in File, heap[f].live, HasHandler(f),
         NEW m, NEW from, NEW s, CallHandler(f, m, from, s),
         \A g \in File : heap'[g].kind = heap[g].kind /\ heap'[g].live = heap[g].live,
         UNCHANGED <<fileInfos, next, node>>
  PROVE  Ledger'
<1>1. f \in fileInfos /\ f < next /\ ~(f >= next) /\ reports[f] = << >>
  <2>1. f \in fileInfos /\ f < next
    BY DEF Ledger, HasHandler
  <2>2. reports[f] = << >>
    BY <2>1, Quiet DEF Ledger
  <2> QED BY <2>1, <2>2, BoundAssumption DEF TypeOK
<1>2. reports'[f] = <<m>> /\ \A g \in File \ {f} : reports'[g] = reports[g]
  BY <1>1 DEF CallHandler, TypeOK
<1>3. Len(<<m>>) <= 1 /\ <<m>> # << >>
  OBVIOUS
<1>4. /\ Len(handlers') = 1 /\ handlers' # << >> /\ Head(handlers').file = f
      /\ \A g : Reporting(g)' <=> g = f
  BY Called
<1>5. \A g : ~Reporting(g)
  BY Quiet
<1>6. ASSUME NEW g \in File
      PROVE /\ g \in fileInfos' => g < next' /\ heap'[g].live /\ heap'[g].kind # "unknown"
            /\ heap'[g].live => g < next' /\ (heap'[g].kind = "unknown" \/ g \in fileInfos')
            /\ (g \in fileInfos' /\ ~Reporting(g)') \/ heap'[g].kind = "unknown" \/ g >= next'
                 => reports'[g] = << >>
            /\ (g \notin fileInfos' \/ Reporting(g)') /\ heap'[g].kind # "unknown" /\ g < next' =>
                 /\ Len(reports'[g]) <= 1
                 /\ node' = "up" => reports'[g] # << >>
  <2>1. CASE g = f
    BY <1>1, <1>2, <1>3, <1>4, <2>1 DEF Ledger
  <2>2. CASE g # f
    BY <1>2, <1>4, <1>5, <2>2 DEF Ledger
  <2> QED BY <2>1, <2>2
<1> QED BY <1>1, <1>4, <1>6 DEF Ledger

(* An object goes: a header, or the one whose handler returns.             *)
LEMMA LedgerDrops ==
  ASSUME TypeOK, Ledger, NEW f \in File, heap[f].live, DeleteFileInfo(f),
         UNCHANGED <<next, reports, node>>, handlers' = << >>,
         \/ handlers = << >> /\ ~HasHandler(f)
         \/ handlers # << >> /\ Head(handlers).file = f
  PROVE  Ledger'
<1>1. /\ heap' = [heap EXCEPT ![f] = [heap[f] EXCEPT !.live = FALSE]] /\ fileInfos' = fileInfos \ {f}
      /\ heap[f] \in Object
  BY DEF DeleteFileInfo, TypeOK
<1>2. /\ heap'[f].kind = heap[f].kind /\ ~heap'[f].live
      /\ \A g \in File \ {f} : heap'[g] = heap[g]
  BY <1>1 DEF TypeOK, Object
<1>3. f < next /\ ~(f >= next)
  BY BoundAssumption DEF Ledger, TypeOK
<1>4. Len(handlers') <= 1 /\ \A g : ~Reporting(g)'
  BY Quiet DEF Reporting
<1>5. \A g \in File \ {f} : ~Reporting(g)
  BY Solo, Quiet DEF Ledger
<1>6. HasHandler(f) => Reporting(f)
  BY Solo DEF Ledger
<1>7. ASSUME NEW g \in File
      PROVE /\ g \in fileInfos' => g < next' /\ heap'[g].live /\ heap'[g].kind # "unknown"
            /\ heap'[g].live => g < next' /\ (heap'[g].kind = "unknown" \/ g \in fileInfos')
            /\ (g \in fileInfos' /\ ~Reporting(g)') \/ heap'[g].kind = "unknown" \/ g >= next'
                 => reports'[g] = << >>
            /\ (g \notin fileInfos' \/ Reporting(g)') /\ heap'[g].kind # "unknown" /\ g < next' =>
                 /\ Len(reports'[g]) <= 1
                 /\ node' = "up" => reports'[g] # << >>
  <2>1. CASE g = f
    BY <1>1, <1>2, <1>3, <1>4, <1>6, <2>1 DEF Ledger, HasHandler
  <2>2. CASE g # f
    BY <1>1, <1>2, <1>4, <1>5, <2>2 DEF Ledger
  <2> QED BY <2>1, <2>2
<1> QED BY <1>4, <1>7 DEF Ledger

(* A header object is made, read into or deleted.                          *)
LEMMA LedgerHeader ==
  ASSUME TypeOK, Ledger, handlers = << >>, NEW a \in File,
         \/ a = next /\ next' = next + 1
         \/ heap[a].live /\ heap[a].kind = "unknown" /\ next' = next,
         \A g \in File \ {a} : heap'[g].kind = heap[g].kind /\ heap'[g].live = heap[g].live,
         heap'[a].kind = "unknown", UNCHANGED <<fileInfos, reports, handlers, node>>
  PROVE  Ledger'
<1>1. a < next' /\ a \notin fileInfos /\ reports[a] = << >> /\ next \in Nat
  BY BoundAssumption DEF Ledger, TypeOK
<1>2. \A g \in File : g < next => g < next'
  BY BoundAssumption DEF TypeOK
<1>3. \A g \in File \ {a} : g < next' => g < next
  BY BoundAssumption DEF TypeOK
<1>4. \A g \in File \ {a} : g >= next' => g >= next
  BY BoundAssumption DEF TypeOK
<1>5. \A g : ~Reporting(g) /\ ~Reporting(g)'
  BY Quiet DEF Reporting
<1>6. ASSUME NEW g \in File
      PROVE /\ g \in fileInfos' => g < next' /\ heap'[g].live /\ heap'[g].kind # "unknown"
            /\ heap'[g].live => g < next' /\ (heap'[g].kind = "unknown" \/ g \in fileInfos')
            /\ (g \in fileInfos' /\ ~Reporting(g)') \/ heap'[g].kind = "unknown" \/ g >= next'
                 => reports'[g] = << >>
            /\ (g \notin fileInfos' \/ Reporting(g)') /\ heap'[g].kind # "unknown" /\ g < next' =>
                 /\ Len(reports'[g]) <= 1
                 /\ node' = "up" => reports'[g] # << >>
  <2>1. CASE g = a
    BY <1>1, <2>1
  <2>2. CASE g # a
    BY <1>2, <1>3, <1>4, <1>5, <2>2 DEF Ledger
  <2> QED BY <2>1, <2>2
<1> QED BY <1>6 DEF Ledger

LEMMA LedgerNew ==
  ASSUME TypeOK, Ledger, handlers = << >>, next \in File, NEW o \in Object,
         o.kind # "unknown", o.live,
         heap' = [heap EXCEPT ![next] = o], fileInfos' = fileInfos \cup {next},
         next' = next + 1, UNCHANGED <<reports, handlers, node>>
  PROVE  Ledger'
<1>1. heap'[next] = o /\ \A g \in File \ {next} : heap'[g] = heap[g]
  BY DEF TypeOK
<1>2. \A g : ~Reporting(g) /\ ~Reporting(g)'
  BY Quiet DEF Reporting
<1> QED BY <1>1, <1>2, BoundAssumption DEF Ledger, TypeOK

LEMMA LedgerSend ==
  ASSUME TypeOK, Ledger, handlers = << >>, NEW s \in Sock, NEW f \in File, heap[f].live,
         HasHandler(f), NEW n \in Nat, SendBytes(s, f, n)
  PROVE  Ledger'
<1> DEFINE sent == [heap[f] EXCEPT !.pos = @ + n]
<1>1. heap' = [heap EXCEPT ![f] = sent] /\ UNCHANGED <<fileInfos, next, node>>
  BY DEF SendBytes
<1>2. \A g \in File : heap'[g].kind = heap[g].kind /\ heap'[g].live = heap[g].live
  BY <1>1 DEF TypeOK, Object
<1>3. CASE IsCompleted(sent)
  <2>1. CallHandler(f, "ok", "sent", s)
    BY <1>3 DEF SendBytes
  <2> QED BY <1>1, <1>2, <2>1, LedgerReports
<1>4. CASE ~IsCompleted(sent)
  <2>1. UNCHANGED <<reports, handlers>>
    BY <1>4 DEF SendBytes
  <2> QED BY <1>1, <1>2, <2>1 DEF Ledger, Reporting
<1> QED BY <1>3, <1>4

LEMMA LedgerSendsHeader ==
  ASSUME TypeOK, Ledger, NEW s \in Sock, NEW f \in File, ~HasHandler(f), NEW n \in Nat,
         SendBytes(s, f, n)
  PROVE  Ledger'
<1> DEFINE sent == [heap[f] EXCEPT !.pos = @ + n]
<1>1. heap' = [heap EXCEPT ![f] = sent] /\ UNCHANGED <<fileInfos, next, node>>
  BY DEF SendBytes
<1>2. \A g \in File : heap'[g].kind = heap[g].kind /\ heap'[g].live = heap[g].live
  BY <1>1 DEF TypeOK, Object
<1>3. sent.kind = "unknown"
  BY DEF HasHandler, TypeOK, Object
<1>4. UNCHANGED <<reports, handlers>>
  BY <1>3 DEF SendBytes, IsCompleted
<1> QED BY <1>1, <1>2, <1>4 DEF Ledger, Reporting

LEMMA LedgerEnds ==
  ASSUME TypeOK, Ledger, handlers = << >>, NEW f \in File, heap[f].live, NEW m, NEW from,
         NEW s, NEW st, Ends(f, m, from, s, st), UNCHANGED <<next, peer, node>>
  PROVE  Ledger'
<1>1. CASE HasHandler(f)
  <2>1. CallHandler(f, m, from, s) /\ UNCHANGED <<heap, fileInfos, next, node>>
    BY <1>1 DEF Ends
  <2>2. \A g \in File : heap'[g].kind = heap[g].kind /\ heap'[g].live = heap[g].live
    BY <2>1
  <2> QED BY <1>1, <2>1, <2>2, LedgerReports
<1>2. CASE ~HasHandler(f)
  <2>1. DeleteFileInfo(f) /\ UNCHANGED <<reports, handlers, next, node>>
    BY <1>2 DEF Ends, Drop
  <2> QED BY <1>2, <2>1, LedgerDrops
<1> QED BY <1>1, <1>2

LEMMA LedgerError ==
  ASSUME TypeOK, Ledger, handlers = << >>, NEW s \in Sock, NEW from, NEW st, ~Dangling(s),
         OnError(s, from, st)
  PROVE  Ledger'
<1>1. CASE userdata[s] = NULL
  BY <1>1 DEF OnError, Ledger, Reporting
<1>2. CASE userdata[s] # NULL
  <2>1. userdata[s] \in File /\ heap[userdata[s]].live
    BY <1>2 DEF Dangling, TypeOK
  <2>2. Ends(userdata[s], "error", from, s, st) /\ UNCHANGED <<next, peer, node>>
    BY <1>2 DEF OnError
  <2> QED BY <2>1, <2>2, LedgerEnds
<1> QED BY <1>1, <1>2

LEMMA LedgerReadsHeader ==
  ASSUME TypeOK, Ledger, handlers = << >>, NEW s \in Sock, NEW n \in Nat,
         ReadHeader(s, n) \/ RejectFile(s, n) \/ BindFile(s, n)
  PROVE  Ledger'
<1> DEFINE a == HeaderAddress(s)
           o == HeaderObject(s)
<1>1. ReadingHeader(s, n) /\ UNCHANGED <<fileInfos, reports, handlers, node>>
  BY DEF ReadHeader, RejectFile, BindFile
<1>2. a \in File /\ o \in Object
  BY <1>1, ReadingHeaderType
<1>3. \/ a = next /\ next' = next + 1
      \/ heap[a].live /\ heap[a].kind = "unknown" /\ next' = next
  BY <1>1 DEF ReadingHeader, Callback, Dangling, HeaderAddress
<1>4. o.kind = "unknown"
  BY <1>1 DEF ReadingHeader, HeaderObject, NewObject
<1> HIDE DEF a, o
<1>5. CASE ReadHeader(s, n) \/ RejectFile(s, n)
  <2>1. \E p \in Object : p.kind = "unknown" /\ heap' = [heap EXCEPT ![a] = p]
    <3>1. CASE ReadHeader(s, n)
      <4>1. heap' = [heap EXCEPT ![a] = [o EXCEPT !.pos = @ + n]]
        BY <3>1 DEF ReadHeader, a, o
      <4>2. [o EXCEPT !.pos = @ + n] \in Object /\ [o EXCEPT !.pos = @ + n].kind = "unknown"
        BY <1>2, <1>4, AdvancedObject DEF Object
      <4> QED BY <4>1, <4>2
    <3>2. CASE RejectFile(s, n)
      <4>1. heap' = [heap EXCEPT ![a] = [o EXCEPT !.live = FALSE, !.pos = HeaderLen]]
        BY <3>2 DEF RejectFile, a, o
      <4>2. /\ [o EXCEPT !.live = FALSE, !.pos = HeaderLen] \in Object
            /\ [o EXCEPT !.live = FALSE, !.pos = HeaderLen].kind = "unknown"
        BY <1>2, <1>4, HeaderAssumption DEF Object
      <4> QED BY <4>1, <4>2
    <3> QED BY <1>5, <3>1, <3>2
  <2>2. heap'[a].kind = "unknown" /\ \A g \in File \ {a} : heap'[g] = heap[g]
    BY <1>2, <2>1 DEF TypeOK
  <2> QED BY <1>1, <1>2, <1>3, <2>2, LedgerHeader
<1>6. CASE BindFile(s, n)
  <2> DEFINE f == FindFileInfo(o.hash)
             rest == n - (HeaderLen - o.pos)
             bound == [heap[f] EXCEPT !.size = o.size, !.socket = s,
                         !.data = @ \o Body(s, peer[s].read + n - rest, rest)]
  <2>1. f \in fileInfos /\ f \in File
    BY <1>6, FindFileInfoFinds DEF BindFile, Registered, TypeOK, o
  <2>2. a \notin fileInfos
    BY <1>2, <1>3, BoundAssumption DEF Ledger, TypeOK
  <2>3. heap' = [g \in File |-> CASE g = f -> bound
                                  [] g = a -> [o EXCEPT !.live = FALSE, !.pos = HeaderLen]
                                  [] OTHER -> heap[g]]
    BY <1>6 DEF BindFile, a, o
  <2>4. bound.kind = heap[f].kind /\ bound.live = heap[f].live
    BY <2>1 DEF TypeOK, Object
  <2>5. [o EXCEPT !.live = FALSE, !.pos = HeaderLen].kind = "unknown"
    BY <1>2, <1>4 DEF Object
  <2> HIDE DEF bound, f
  <2>6. heap'[a].kind = "unknown"
    BY <1>2, <2>1, <2>2, <2>3, <2>5
  <2>7. \A g \in File \ {a} : heap'[g].kind = heap[g].kind /\ heap'[g].live = heap[g].live
    BY <2>3, <2>4
  <2> QED BY <1>1, <1>2, <1>3, <2>6, <2>7, LedgerHeader
<1> QED BY <1>5, <1>6

(* An action other than these three starts where no handler is under way.  *)
Acting ==
  \/ Destruct
  \/ \E h \in Hash : RegistHash(h) \/ StopHash(h)
  \/ \E h \in Hash, s \in Sock, size \in 0..MaxSize :
       \/ SendFile(h, s, size)
       \/ \E total \in 0..(HeaderLen + size) : OnAccept(s, h, size, total)
  \/ \E s \in Sock :
       \/ OnConnect(s) \/ OnWritable(s) \/ OnEof(s) \/ OnReset(s) \/ OnTimeout(s)
       \/ FinAcked(s) \/ DelayOver(s) \/ Reap(s)
       \/ \E n \in 1..(HeaderLen + MaxSize) :
            ReadBody(s, n) \/ ReadHeader(s, n) \/ BindFile(s, n) \/ RejectFile(s, n)

LEMMA NextActs == Next <=> Acting \/ HandlerReturns \/ UseAfterFree
BY DEF Next, Acting

LEMMA ActingAlone == ASSUME HandlersKeepOut, Acting PROVE handlers = << >> /\ node = "up"
<1>1. MayCall \/ LoopRuns => handlers = << >> /\ node = "up"
  BY Waiting DEF MayCall, LoopRuns
<1>2. ASSUME NEW s \in Sock, NEW n, ReadBody(s, n) \/ ReadHeader(s, n) \/ BindFile(s, n) \/ RejectFile(s, n)
      PROVE LoopRuns
  <2>1. ReadingHeader(s, n) => LoopRuns
    BY DEF ReadingHeader, Callback
  <2> QED BY <1>2, <2>1 DEF ReadBody, ReadHeader, BindFile, RejectFile, Callback
<1>3. ASSUME NEW s \in Sock, OnConnect(s) \/ OnWritable(s) \/ OnEof(s) \/ OnReset(s) \/ OnTimeout(s)
      PROVE LoopRuns
  BY <1>3 DEF OnConnect, OnWritable, OnWindow, OnEof, OnReset, OnTimeout, Callback
<1>4. ASSUME NEW s \in Sock, FinAcked(s) \/ DelayOver(s) \/ Reap(s) PROVE LoopRuns
  BY <1>4 DEF FinAcked, DelayOver, Reap
<1>5. ASSUME NEW h \in Hash, RegistHash(h) \/ StopHash(h) PROVE MayCall
  BY <1>5 DEF RegistHash, StopHash
<1>6. ASSUME NEW h, NEW s, NEW size, SendFile(h, s, size) \/ \E total \in 0..(HeaderLen + size) : OnAccept(s, h, size, total)
      PROVE MayCall \/ LoopRuns
  BY <1>6 DEF SendFile, OnAccept
<1>7. Destruct => MayCall
  BY DEF Destruct
<1> QED BY <1>1, <1>2, <1>3, <1>4, <1>5, <1>6, <1>7 DEF Acting

LEMMA LedgerActs == ASSUME TypeOK, Ledger, handlers = << >>, Acting PROVE Ledger'
<1>1. CASE Destruct
  <2>1. \A f \in File : /\ heap'[f].kind = heap[f].kind
                        /\ heap'[f].live => heap[f].live /\ f \notin fileInfos
    <3>1. \A f \in File : heap'[f] = IF f \in fileInfos THEN [heap[f] EXCEPT !.live = FALSE] ELSE heap[f]
      BY <1>1 DEF Destruct
    <3>2. \A f \in File : heap[f] \in Object
      BY DEF TypeOK
    <3> QED BY <3>1, <3>2 DEF Object
  <2>2. fileInfos' = {} /\ node' # "up" /\ UNCHANGED <<next, reports, handlers>>
    BY <1>1 DEF Destruct
  <2>3. \A f : ~Reporting(f) /\ ~Reporting(f)'
    BY <2>2, Quiet DEF Reporting
  <2> QED BY <2>1, <2>2, <2>3 DEF Ledger
<1>2. ASSUME NEW h \in Hash, RegistHash(h) PROVE Ledger'
  <2> DEFINE o == NewObject("receive", h, NULL, 0)
  <2>1. o \in Object /\ o.kind # "unknown" /\ o.live
    BY NewObjectType DEF NewObject
  <2>2. /\ next \in File /\ heap' = [heap EXCEPT ![next] = o]
        /\ fileInfos' = fileInfos \cup {next} /\ next' = next + 1
        /\ UNCHANGED <<reports, handlers, node>>
    BY <1>2 DEF RegistHash
  <2> HIDE DEF o
  <2> QED BY <2>1, <2>2, LedgerNew
<1>3. ASSUME NEW h \in Hash, StopHash(h) PROVE Ledger'
  <2> DEFINE f == FindFileInfo(h)
  <2>1. f \in fileInfos /\ f \in File
    BY <1>3, FindFileInfoFinds DEF StopHash, TypeOK
  <2>2. /\ CallHandler(f, "stopped by user", "stop_hash", NULL)
        /\ UNCHANGED <<heap, fileInfos, next, node>>
    BY <1>3 DEF StopHash
  <2> HIDE DEF f
  <2>3. heap[f].live /\ HasHandler(f)
    BY <2>1 DEF Ledger, HasHandler
  <2>4. \A g \in File : heap'[g].kind = heap[g].kind /\ heap'[g].live = heap[g].live
    BY <2>2
  <2> QED BY <2>1, <2>2, <2>3, <2>4, LedgerReports
<1>4. ASSUME NEW h \in Hash, NEW s \in Sock, NEW size \in 0..MaxSize, SendFile(h, s, size)
      PROVE Ledger'
  <2> DEFINE o == NewObject("send", h, s, size)
  <2>1. o \in Object /\ o.kind # "unknown" /\ o.live
    BY HeaderAssumption, NewObjectType DEF NewObject
  <2>2. /\ next \in File /\ heap' = [heap EXCEPT ![next] = o]
        /\ fileInfos' = fileInfos \cup {next} /\ next' = next + 1
        /\ UNCHANGED <<reports, handlers, node>>
    BY <1>4 DEF SendFile
  <2> HIDE DEF o
  <2> QED BY <2>1, <2>2, LedgerNew
<1>5. ASSUME NEW h \in Hash, NEW s \in Sock, NEW size \in 0..MaxSize,
             NEW total \in 0..(HeaderLen + size), OnAccept(s, h, size, total)
      PROVE Ledger'
  BY <1>5 DEF OnAccept, Ledger, Reporting
<1>6. ASSUME NEW s \in Sock, OnConnect(s) \/ OnWritable(s) PROVE Ledger'
  <2>1. userdata[s] \in File /\ heap[userdata[s]].live
    BY <1>6 DEF OnConnect, OnWritable, OnWindow, Callback, Dangling, TypeOK
  <2>2. PICK n \in Nat : SendBytes(s, userdata[s], n)
    BY <1>6, HeaderAssumption DEF OnConnect, OnWritable, OnWindow
  <2>3. CASE HasHandler(userdata[s])
    BY <2>1, <2>2, <2>3, LedgerSend
  <2>4. CASE ~HasHandler(userdata[s])
    BY <2>1, <2>2, <2>4, LedgerSendsHeader
  <2> QED BY <2>3, <2>4
<1>7. ASSUME NEW s \in Sock, OnEof(s) PROVE Ledger'
  <2>1. CASE userdata[s] = NULL
    BY <1>7, <2>1 DEF OnEof, Ledger, Reporting
  <2>2. CASE userdata[s] # NULL
    <3>1. userdata[s] \in File /\ heap[userdata[s]].live
      BY <1>7, <2>2 DEF OnEof, Callback, Dangling, TypeOK
    <3>2. /\ \E m : Ends(userdata[s], m, "eof", s, "GOT_FIN")
          /\ UNCHANGED <<next, peer, node>>
      BY <1>7, <2>2 DEF OnEof
    <3> QED BY <3>1, <3>2, LedgerEnds
  <2> QED BY <2>1, <2>2
<1>8. ASSUME NEW s \in Sock, OnReset(s) \/ OnTimeout(s) PROVE Ledger'
  <2>1. ~Dangling(s) /\ \E from : OnError(s, from, FailedState(s))
    BY <1>8 DEF OnReset, OnTimeout, Callback
  <2> QED BY <2>1, LedgerError
<1>9. ASSUME NEW s \in Sock, FinAcked(s) \/ Reap(s) \/ DelayOver(s) PROVE Ledger'
  BY <1>9 DEF FinAcked, Reap, DelayOver, Ledger, Reporting
<1>10. ASSUME NEW s \in Sock, NEW n \in 1..(HeaderLen + MaxSize),
              ReadHeader(s, n) \/ RejectFile(s, n) \/ BindFile(s, n)
       PROVE Ledger'
  <2>1. n \in Nat
    BY HeaderAssumption
  <2> QED BY <1>10, <2>1, LedgerReadsHeader
<1>11. ASSUME NEW s \in Sock, NEW n \in 1..(HeaderLen + MaxSize), ReadBody(s, n) PROVE Ledger'
  <2>1. /\ heap' = [heap EXCEPT ![userdata[s]].data = @ \o Body(s, peer[s].read, n)]
        /\ UNCHANGED <<fileInfos, next, reports, handlers, node>>
    BY <1>11 DEF ReadBody
  <2>2. \A g \in File : heap'[g].kind = heap[g].kind /\ heap'[g].live = heap[g].live
    BY <2>1 DEF TypeOK, Object
  <2> QED BY <2>1, <2>2 DEF Ledger, Reporting
<1> QED BY <1>1, <1>2, <1>3, <1>4, <1>5, <1>6, <1>7, <1>8, <1>9, <1>10, <1>11 DEF Acting

LEMMA LedgerNext == ASSUME HandlersKeepOut PROVE TypeOK /\ Ledger /\ [Next]_vars => Ledger'
<1> SUFFICES ASSUME TypeOK, Ledger, [Next]_vars PROVE Ledger'
  OBVIOUS
<1>1. CASE Acting
  BY <1>1, ActingAlone, LedgerActs
<1>2. CASE HandlerReturns
  <2> DEFINE f == Head(handlers).file
  <2>1. handlers' = << >> /\ handlers # << >> /\ f \in File /\ f \in fileInfos
    BY <1>2, Returned DEF Ledger, HandlerReturns, TypeOK
  <2>2. heap[f].live /\ DeleteFileInfo(f) /\ UNCHANGED <<next, reports, node>>
    BY <1>2, <2>1 DEF HandlerReturns, Drop, Ledger
  <2> QED BY <2>1, <2>2, LedgerDrops
<1>3. CASE UseAfterFree \/ UNCHANGED vars
  BY <1>3 DEF UseAfterFree, vars, Ledger, Reporting
<1> QED BY <1>1, <1>2, <1>3, NextActs

(* A handler is called once, before its object leaves the list (stopHash,  *)
(* sendBytes, callback_on_error, callback_on_state_change), with any       *)
(* peers, if no handler calls a method: one that calls stopHash again from *)
(* within stopHash is called again for the same object.                    *)
THEOREM FileReportedOnce == ASSUME HandlersKeepOut PROVE Spec => []ReportedOnce
<1>1. TypeOK /\ Ledger => ReportedOnce
  BY LedgerReported
<1>2. TypeOK /\ Ledger /\ [Next]_vars => Ledger'
  BY LedgerNext
<1> QED BY <1>1, <1>2, TypeInit, TypeNext, LedgerInit, PTL DEF Spec

-----------------------------------------------------------------------------
(* The pointers, with peers that behave                                    *)

PeersBehave == ~MultiSource /\ ~ShortHeader

-----------------------------------------------------------------------------
(* The inductive invariant                                                 *)

(* Only an accepted socket has a peer, which sends a whole header; until a *)
(* header object has been made for it, nothing was read.                   *)
StreamsOK ==
  \A s \in Sock :
    /\ conn[s] \in {"IDLE", "SYN_SENT", "CONNECTED_FULL"} => peer[s] = NULL
    /\ peer[s] # NULL =>
         /\ peer[s].total >= HeaderLen
         /\ conn[s] \in Connected /\ userdata[s] = NULL => peer[s].read = 0

OneSource ==
  \A s, t \in Sock :
    /\ peer[s] # NULL /\ peer[t] # NULL /\ peer[s].hash = peer[t].hash
    /\ conn[s] \in Open /\ conn[t] \in Open
    => s = t

(* A header object has counted what was read from the stream of s.         *)
HeaderOf(s, o) ==
  /\ o.socket = NULL
  /\ peer[s] # NULL /\ o.hash = peer[s].hash /\ o.size = peer[s].size
  /\ o.pos = peer[s].read /\ o.pos < HeaderLen

(* The object of a file, sent on s or received from its peer               *)
FileOf(s, o) ==
  /\ userdata[s] \in fileInfos /\ o.socket = s
  /\ o.kind = "receive" => peer[s] # NULL /\ o.hash = peer[s].hash
  /\ o.kind = "send" => peer[s] = NULL

Attached(s) ==
  /\ heap[userdata[s]].live /\ (conn[s] \in Open \/ Reporting(userdata[s]))
  /\ \A t \in Sock : userdata[t] = userdata[s] => t = s
  /\ heap[userdata[s]].kind = "unknown" => HeaderOf(s, heap[userdata[s]])
  /\ heap[userdata[s]].kind # "unknown" => FileOf(s, heap[userdata[s]])

UserdataOK == \A s \in Sock : userdata[s] # NULL => Attached(s)

ListOK == \A f \in fileInfos : heap[f].socket # NULL => userdata[heap[f].socket] = f

Pointers == StreamsOK /\ OneSource /\ UserdataOK /\ ListOK

(* The caller of the handler under way can go on when it returns: a        *)
(* callback still has its object, and a socket it may close; stopHash has  *)
(* closed the socket.                                                      *)
Pending ==
  handlers # << >> =>
    LET frame == Head(handlers)
        s     == heap[frame.file].socket
    IN  /\ frame.from # "stop_hash" =>
             /\ frame.socket \in Sock /\ userdata[frame.socket] = frame.file
             /\ conn[frame.socket] \in {"CONNECTED", "GOT_FIN", "RESET"}
        /\ frame.from = "stop_hash" /\ s # NULL => conn[s] \in {"FIN_SENT", "DESTROY_DELAY"}

PInv ==
  /\ node # "undefined" /\ (node = "down" => handlers = << >>)
  /\ node = "up" => Pointers /\ Pending

LEMMA PointersInit == Init => PInv
BY BoundAssumption DEF Init, PInv, Pointers, Pending, StreamsOK, OneSource, UserdataOK, ListOK,
                       Connected, Open

(* Where no handler is under way, a socket with an object is open.         *)
LEMMA OpenFacts ==
  ASSUME Pointers, handlers = << >>, NEW s \in Sock, userdata[s] # NULL PROVE conn[s] \in Open
BY Quiet DEF Pointers, UserdataOK, Attached

LEMMA PendingSafe ==
  ASSUME TypeOK, Ledger, Pending, Pointers, handlers # << >>
  PROVE  /\ ~Freed(Head(handlers).file)
         /\ \A i \in DOMAIN handlers :
              handlers[i].from # "stop_hash" => MayClose(conn[handlers[i].socket])
<1> DEFINE frame == Head(handlers)
<1>1. handlers \in Seq(Frame) /\ Len(handlers) <= 1
  BY DEF TypeOK, Ledger
<1>2. frame = handlers[1] /\ frame \in Frame
  BY <1>1, Single
<1>3. DOMAIN handlers = 1..1
  BY <1>1, Single
<1>4. frame.file \in fileInfos /\ frame.file \in File /\ heap[frame.file].live
  BY <1>2 DEF Ledger, Frame
<1>5. frame.from # "stop_hash" =>
        MayClose(conn[frame.socket]) /\ conn[frame.socket] # "GONE"
  BY DEF Pending, MayClose
<1>6. ASSUME heap[frame.file].socket # NULL PROVE conn[heap[frame.file].socket] # "GONE"
  <2>1. CASE frame.from = "stop_hash"
    BY <1>6, <2>1 DEF Pending
  <2>2. CASE frame.from # "stop_hash"
    <3>1. frame.socket \in Sock /\ userdata[frame.socket] = frame.file
      BY <2>2 DEF Pending
    <3>2. Attached(frame.socket)
      BY <1>4, <3>1, NullAssumption, BoundAssumption DEF Pointers, UserdataOK
    <3>3. heap[frame.file].socket = frame.socket
      BY <1>4, <3>1, <3>2 DEF Attached, FileOf, Ledger
    <3> QED BY <1>5, <2>2, <3>3
  <2> QED BY <2>1, <2>2
<1> QED BY <1>2, <1>3, <1>4, <1>5, <1>6 DEF Freed

LEMMA PointersSafe ==
  ASSUME HandlersKeepOut, TypeOK, Ledger, PInv
  PROVE  PointersAgree /\ CloseIsLegal /\ NoUseAfterFree
<1> SUFFICES ASSUME node = "up" PROVE PointersAgree /\ CloseIsLegal
  BY DEF PInv, PointersAgree, CloseIsLegal, NoUseAfterFree
<1>1. Pointers /\ UserdataOK /\ ListOK /\ Pending
  BY DEF PInv, Pointers
<1>2. ASSUME NEW s \in Sock, userdata[s] # NULL
      PROVE /\ heap[userdata[s]].live /\ (conn[s] \in Open \/ Reporting(userdata[s]))
            /\ heap[userdata[s]].kind # "unknown" => userdata[s] \in fileInfos /\ heap[userdata[s]].socket = s
  BY <1>1, <1>2 DEF UserdataOK, Attached, FileOf
<1>3. ASSUME NEW f \in fileInfos
      PROVE /\ heap[f].live /\ heap[f].kind # "unknown"
            /\ heap[f].socket # NULL => userdata[heap[f].socket] = f
  BY <1>1 DEF ListOK, Ledger, TypeOK
<1>4. PointersAgree
  BY <1>2, <1>3 DEF PointersAgree
<1>5. ASSUME MayCall, NEW f \in fileInfos, heap[f].socket # NULL
      PROVE  MayClose(conn[heap[f].socket])
  <2>1. heap[f].socket \in Sock /\ userdata[heap[f].socket] = f /\ f # NULL
    BY <1>3, <1>5, NullAssumption, BoundAssumption DEF TypeOK, Object
  <2>2. conn[heap[f].socket] \in Open
    BY <1>1, <1>5, <2>1, Waiting, OpenFacts
  <2> QED BY <2>2 DEF Open, MayClose
<1>6. ASSUME LoopRuns, NEW s \in Sock, userdata[s] # NULL PROVE conn[s] # "FIN_SENT"
  BY <1>1, <1>6, Waiting, OpenFacts DEF Open
<1>7. ASSUME NEW i \in DOMAIN handlers, handlers[i].from # "stop_hash"
      PROVE  MayClose(conn[handlers[i].socket])
  <2>1. CASE handlers = << >>
    BY <1>7, <2>1
  <2> QED BY <1>1, <1>7, <2>1, PendingSafe
<1> QED BY <1>4, <1>5, <1>6, <1>7 DEF CloseIsLegal

-----------------------------------------------------------------------------
(* How the steps change the pointers                                       *)

NilFacts == NULL \notin Sock /\ NULL \notin File

LEMMA NullFacts == NilFacts
BY NullAssumption, BoundAssumption DEF NilFacts

(* An object that some socket has as user data is listed, or a header.     *)
LEMMA AttachedFacts ==
  ASSUME TypeOK, Ledger, Pointers, NEW s \in Sock, userdata[s] # NULL
  PROVE  /\ userdata[s] \in File /\ userdata[s] < next /\ Attached(s)
         /\ heap[userdata[s]].kind = "unknown" => userdata[s] \notin fileInfos
BY DEF TypeOK, Ledger, Pointers, UserdataOK, Attached

(* deleteFileInfo for the objects in D (one or none), the user data that   *)
(* pointed to them cleared and their sockets closed; or a socket without   *)
(* user data closed.                                                       *)
LEMMA PointersDetach ==
  ASSUME TypeOK, Ledger, Pointers, NEW D \in SUBSET File,
         \A g \in File \ D : ~Reporting(g), handlers' = << >>,
         \A g \in File \ D : heap'[g] = heap[g],
         fileInfos' = fileInfos \ D,
         \A t \in Sock : userdata'[t] = IF userdata[t] \in D THEN NULL ELSE userdata[t],
         \A t \in Sock : \/ conn'[t] = conn[t] /\ userdata[t] \notin D /\ peer'[t] = peer[t]
                        \/ /\ conn'[t] \notin Open \cup {"IDLE"} /\ userdata'[t] = NULL
                           /\ peer'[t] # NULL => peer[t] # NULL /\ peer'[t].total = peer[t].total
  PROVE  Pointers'
<1> USE NullFacts DEF NilFacts
<1>1. \A t \in Sock : conn'[t] \in Open \cup {"IDLE"} =>
        /\ conn'[t] = conn[t] /\ userdata'[t] = userdata[t]
        /\ userdata[t] \notin D /\ peer'[t] = peer[t]
  BY DEF TypeOK
<1>2. StreamsOK'
  BY <1>1 DEF Pointers, StreamsOK, Open, Connected
<1>3. OneSource'
  BY <1>1 DEF Pointers, OneSource, Open
<1>4. ASSUME NEW s \in Sock, userdata'[s] # NULL PROVE Attached(s)'
  <2>1. userdata'[s] = userdata[s] /\ userdata[s] \notin D /\ userdata[s] \in File /\ Attached(s)
    BY <1>4, AttachedFacts
  <2>2. /\ heap'[userdata[s]] = heap[userdata[s]]
        /\ conn'[s] = conn[s] /\ peer'[s] = peer[s]
    BY <1>4, <2>1
  <2>3. \A t \in Sock : userdata'[t] = userdata[s] => userdata[t] = userdata[s]
    BY <2>1
  <2> QED BY <2>1, <2>2, <2>3 DEF Attached, HeaderOf, FileOf
<1>5. ListOK'
  <2> SUFFICES ASSUME NEW f \in fileInfos, f \notin D, heap'[f].socket # NULL
               PROVE  userdata'[heap'[f].socket] = f
    BY DEF ListOK
  <2>1. heap'[f] = heap[f] /\ heap[f].socket \in Sock
    BY DEF TypeOK, Object
  <2>2. userdata[heap[f].socket] = f
    BY <2>1 DEF Pointers, ListOK
  <2> QED BY <2>1, <2>2
<1> QED BY <1>2, <1>3, <1>4, <1>5 DEF Pointers, UserdataOK

(* A new object that no socket has as user data                            *)
LEMMA PointersRegist ==
  ASSUME TypeOK, Ledger, Pointers, next \in File, NEW o \in Object, o.socket = NULL,
         heap' = [heap EXCEPT ![next] = o], fileInfos' = fileInfos \cup {next},
         UNCHANGED <<conn, userdata, peer, handlers, node>>
  PROVE  Pointers'
<1>1. \A g \in File : g # next => heap'[g] = heap[g]
  BY DEF TypeOK
<1>2. next \notin fileInfos /\ heap'[next] = o
  BY BoundAssumption DEF Ledger, TypeOK
<1>3. ASSUME NEW s \in Sock, userdata[s] # NULL PROVE Attached(s)'
  <2>1. userdata[s] \in File /\ userdata[s] # next /\ Attached(s)
    BY <1>3, AttachedFacts, BoundAssumption
  <2> QED BY <1>1, <2>1 DEF Attached, HeaderOf, FileOf, Reporting
<1> QED BY <1>1, <1>2, <1>3 DEF Pointers, StreamsOK, OneSource, UserdataOK, ListOK, TypeOK

(* The object of s, or a new one, becomes the user data of s; the stream   *)
(* of s may advance.                                                       *)
LEMMA PointersMove ==
  ASSUME TypeOK, Ledger, Pointers, NEW s \in Sock, NEW f \in File, UNCHANGED handlers,
         conn[s] \in Open \cup {"IDLE"},
         \A g \in File \ {f, next, userdata[s]} : heap'[g] = heap[g],
         \A g \in File \ {f} : g \in fileInfos' <=> g \in fileInfos, fileInfos' \subseteq File,
         \A t \in Sock \ {s} : userdata[t] # f,
         userdata[s] # f => userdata[s] \notin fileInfos,
         \A t \in Sock \ {s} : conn'[t] = conn[t] /\ peer'[t] = peer[t],
         userdata' = [userdata EXCEPT ![s] = f],
         conn'[s] \in Open, f \in fileInfos' => heap'[f].socket = s,
         conn'[s] # "CONNECTED" => peer'[s] = NULL,
         peer'[s] # NULL =>
           /\ peer'[s].total >= HeaderLen
           /\ \A t \in Sock \ {s} : peer[t] # NULL /\ conn[t] \in Open
                                     => peer[t].hash # peer'[s].hash,
         heap'[f].live,
         heap'[f].kind = "unknown" => HeaderOf(s, heap[f])',
         heap'[f].kind # "unknown" => FileOf(s, heap[f])'
  PROVE  Pointers'
<1> USE NullFacts DEF NilFacts
<1>1. userdata'[s] = f /\ \A t \in Sock \ {s} : userdata'[t] = userdata[t]
  BY DEF TypeOK
<1>2. StreamsOK'
  BY <1>1 DEF Pointers, StreamsOK, Open, Connected
<1>3. OneSource'
  BY <1>1 DEF Pointers, OneSource
<1>4. ASSUME NEW t \in Sock, t # s, userdata[t] # NULL PROVE Attached(t)'
  <2>1. userdata[t] \in File /\ userdata[t] \notin {f, next, userdata[s]} /\ Attached(t)
    BY <1>4, AttachedFacts, BoundAssumption DEF Attached, TypeOK
  <2>2. heap'[userdata[t]] = heap[userdata[t]] /\ conn'[t] = conn[t] /\ peer'[t] = peer[t]
        /\ userdata'[t] = userdata[t] /\ (userdata[t] \in fileInfos' <=> userdata[t] \in fileInfos)
    BY <1>1, <1>4, <2>1
  <2>3. \A u \in Sock : userdata'[u] = userdata[t] => u = t
    BY <1>1, <1>4, <2>1 DEF Attached
  <2> QED BY <1>4, <2>1, <2>2, <2>3 DEF Attached, HeaderOf, FileOf, Reporting
<1>5. Attached(s)'
  BY <1>1 DEF Attached
<1>6. ListOK'
  <2> SUFFICES ASSUME NEW g \in fileInfos', g # f, heap'[g].socket # NULL
               PROVE  userdata'[heap'[g].socket] = g
    BY <1>1 DEF ListOK
  <2>1. g \in fileInfos /\ g \in File /\ g \notin {next, userdata[s]}
    BY BoundAssumption DEF Ledger, TypeOK
  <2>2. heap'[g] = heap[g] /\ heap[g].socket \in Sock
    <3>1. heap'[g] = heap[g]
      BY <2>1
    <3>2. heap[g] \in Object
      BY <2>1 DEF TypeOK
    <3> QED BY <3>1, <3>2 DEF Object
  <2>3. userdata[heap[g].socket] = g
    BY <2>1, <2>2 DEF Pointers, ListOK
  <2> QED BY <1>1, <2>1, <2>2, <2>3
<1> QED BY <1>1, <1>2, <1>3, <1>4, <1>5, <1>6 DEF Pointers, UserdataOK

LEMMA AdvanceFacts ==
  ASSUME TypeOK, NEW s \in Sock, NEW n \in Nat, peer[s] # NULL, Advance(s, n)
  PROVE  /\ peer'[s] # NULL /\ peer'[s].hash = peer[s].hash /\ peer'[s].size = peer[s].size
         /\ peer'[s].total = peer[s].total /\ peer'[s].read = peer[s].read + n
         /\ \A t \in Sock \ {s} : peer'[t] = peer[t]
<1>1. peer[s] \in Stream
  BY DEF TypeOK
<1>2. [peer[s] EXCEPT !.read = @ + n] \in Stream
  BY <1>1 DEF Stream
<1>3. peer' = [peer EXCEPT ![s] = [peer[s] EXCEPT !.read = @ + n]]
  BY DEF Advance
<1>4. peer'[s] = [peer[s] EXCEPT !.read = @ + n] /\ \A t \in Sock \ {s} : peer'[t] = peer[t]
  BY <1>3 DEF TypeOK
<1>5. peer'[s] # NULL
  BY <1>2, <1>4, StreamAssumption
<1> QED BY <1>1, <1>4, <1>5 DEF Stream

(* Clearing the user data of its socket clears every pointer to a listed   *)
(* object; a header object has no socket, and s is cleared by itself.      *)
LEMMA ClearedListed ==
  ASSUME TypeOK, Ledger, Pointers, NEW f \in fileInfos, NEW t \in Sock
  PROVE  ClearedUserdata(f)[t] = IF userdata[t] \in {f} THEN NULL ELSE userdata[t]
<1>1. f \in File /\ heap[f].kind # "unknown" /\ f # NULL
  BY NullAssumption, BoundAssumption DEF TypeOK, Ledger
<1>2. t = heap[f].socket => userdata[t] = f
  BY NullAssumption DEF Pointers, ListOK
<1>3. userdata[t] = f => t = heap[f].socket
  BY <1>1 DEF Pointers, UserdataOK, Attached, FileOf
<1> QED BY <1>2, <1>3 DEF ClearedUserdata

LEMMA ClearedOwn ==
  ASSUME TypeOK, Ledger, Pointers, NEW s \in Sock, userdata[s] # NULL, NEW t \in Sock
  PROVE  [ClearedUserdata(userdata[s]) EXCEPT ![s] = NULL][t]
           = IF userdata[t] \in {userdata[s]} THEN NULL ELSE userdata[t]
<1>1. Attached(s)
  BY DEF Pointers, UserdataOK
<1>2. CASE userdata[s] \in fileInfos
  BY <1>2, ClearedListed DEF ClearedUserdata
<1>3. CASE userdata[s] \notin fileInfos
  <2>1. heap[userdata[s]].socket = NULL
    BY <1>1, <1>3 DEF Attached, FileOf, HeaderOf
  <2> QED BY <1>1, <2>1, NullAssumption DEF ClearedUserdata, Attached
<1> QED BY <1>2, <1>3

LEMMA PointersClose ==
  ASSUME TypeOK, Ledger, Pointers, NEW s \in Sock, NEW c, c \notin Open \cup {"IDLE"},
         handlers = << >>, userdata[s] = NULL, conn' = [conn EXCEPT ![s] = c],
         UNCHANGED <<heap, fileInfos, userdata, peer, handlers, node>>
  PROVE  Pointers'
<1>1. \A t \in Sock : conn'[t] = IF t = s THEN c ELSE conn[t]
  BY DEF TypeOK
<1> DEFINE D == {}
<1>2. /\ D \in SUBSET File /\ fileInfos' = fileInfos \ D
      /\ \A g \in File \ D : heap'[g] = heap[g]
      /\ \A t \in Sock : userdata[t] \notin D
  OBVIOUS
<1>3. \A g : ~Reporting(g)
  BY Quiet
<1> HIDE DEF D
<1> QED BY <1>1, <1>2, <1>3, PointersDetach

(* deleteFileInfo of the user data of s, which is closed                   *)
LEMMA PointersDelete ==
  ASSUME TypeOK, Ledger, Pointers, NEW s \in Sock, NEW c, c \notin Open \cup {"IDLE"},
         userdata[s] # NULL, NEW o \in Object, heap' = [heap EXCEPT ![userdata[s]] = o],
         fileInfos' = fileInfos \ {userdata[s]}, conn' = [conn EXCEPT ![s] = c],
         \/ userdata' = [ClearedUserdata(userdata[s]) EXCEPT ![s] = NULL]
         \/ userdata' = ClearedUserdata(userdata[s]) /\ userdata[s] \in fileInfos,
         \A g \in File : Reporting(g) => g = userdata[s], handlers' = << >>,
         UNCHANGED <<peer, node>>
  PROVE  Pointers'
<1>1. userdata[s] \in File /\ Attached(s)
  BY AttachedFacts
<1>2. \A t \in Sock : conn'[t] = IF t = s THEN c ELSE conn[t]
  BY DEF TypeOK
<1> DEFINE D == {userdata[s]}
<1>3. ASSUME NEW t \in Sock PROVE userdata'[t] = IF userdata[t] \in D THEN NULL ELSE userdata[t]
  <2>1. CASE userdata' = [ClearedUserdata(userdata[s]) EXCEPT ![s] = NULL]
    BY <2>1, ClearedOwn
  <2>2. CASE userdata' = ClearedUserdata(userdata[s]) /\ userdata[s] \in fileInfos
    BY <2>2, ClearedListed
  <2> QED BY <2>1, <2>2
<1>4. /\ D \in SUBSET File /\ fileInfos' = fileInfos \ D
      /\ \A g \in File \ D : heap'[g] = heap[g]
      /\ userdata[s] \in D
  BY <1>1 DEF TypeOK
<1>5. \A t \in Sock \ {s} : userdata[t] \notin D
  BY <1>1 DEF Attached
<1>6. ASSUME NEW g \in File \ D PROVE ~Reporting(g)
  <2>1. g \in File /\ g # userdata[s]
    OBVIOUS
  <2> QED BY <2>1
<1> HIDE DEF D
<1>7. \A t \in Sock : \/ conn'[t] = conn[t] /\ userdata[t] \notin D /\ peer'[t] = peer[t]
                      \/ conn'[t] \notin Open \cup {"IDLE"} /\ userdata'[t] = NULL /\ peer'[t] = peer[t]
  BY <1>2, <1>3, <1>4, <1>5
<1>8. handlers' = << >> /\ TypeOK /\ Ledger /\ Pointers
  OBVIOUS
<1> QED BY ONLY <1>3, <1>4, <1>6, <1>7, <1>8, PointersDetach

(* A handler is called: its object keeps its place, and its socket is      *)
(* closed, or stays connected after the last of what is sent.              *)
LEMMA PointersReports ==
  ASSUME TypeOK, Ledger, Pointers, handlers = << >>, NEW f \in fileInfos, NEW m, NEW from, NEW s,
         CallHandler(f, m, from, s), UNCHANGED <<fileInfos, userdata, peer, node>>,
         \A g \in File \ {f} : heap'[g] = heap[g],
         /\ heap'[f].live = heap[f].live /\ heap'[f].kind = heap[f].kind
         /\ heap'[f].socket = heap[f].socket /\ heap'[f].hash = heap[f].hash,
         \A t \in Sock : \/ conn'[t] = conn[t]
                        \/ /\ userdata[t] = f /\ conn[t] \in Open
                           /\ conn'[t] \notin (Open \ {"CONNECTED"}) \cup {"IDLE"}
  PROVE  Pointers'
<1> USE NullFacts DEF NilFacts
<1>1. f \in File /\ heap[f].kind # "unknown" /\ f # NULL
  BY DEF TypeOK, Ledger
<1>2. \A g : Reporting(g)' <=> g = f
  BY <1>1, Called
<1>3. StreamsOK'
  BY <1>1 DEF Pointers, StreamsOK, Open, Connected
<1>4. OneSource'
  BY DEF Pointers, OneSource, Open
<1>5. ASSUME NEW t \in Sock, userdata[t] # NULL PROVE Attached(t)'
  <2>1. userdata[t] \in File /\ Attached(t) /\ conn[t] \in Open
    BY <1>5, AttachedFacts, OpenFacts
  <2>2. CASE userdata[t] = f
    <3>1. FileOf(t, heap[f])
      BY <1>1, <2>1, <2>2 DEF Attached
    <3>2. FileOf(t, heap[f])'
      BY <2>2, <3>1 DEF FileOf
    <3> QED BY <1>1, <1>2, <2>1, <2>2, <3>2 DEF Attached
  <2>3. CASE userdata[t] # f
    <3>1. heap'[userdata[t]] = heap[userdata[t]] /\ conn'[t] = conn[t]
      BY <2>1, <2>3
    <3> QED BY <2>1, <3>1 DEF Attached, HeaderOf, FileOf
  <2> QED BY <2>2, <2>3
<1>6. ListOK'
  BY DEF Pointers, ListOK, TypeOK
<1> QED BY <1>3, <1>4, <1>5, <1>6 DEF Pointers, UserdataOK

(* What a callback pends on: it has s, whose user data its object is.      *)
LEMMA PendingCalled ==
  ASSUME handlers = << >>, NEW s \in Sock, userdata[s] \in File, NEW m,
         NEW from \in {"sent", "eof", "error", "timeout"}, CallHandler(userdata[s], m, from, s),
         conn'[s] \in {"CONNECTED", "GOT_FIN", "RESET"}, UNCHANGED userdata
  PROVE  Pending'
<1>1. Head(handlers)' = [from |-> from, file |-> userdata[s], socket |-> s]
  BY Called
<1>2. /\ Head(handlers)'.from # "stop_hash" /\ Head(handlers)'.socket = s
      /\ Head(handlers)'.file = userdata[s]
  BY <1>1
<1> QED BY <1>2 DEF Pending

LEMMA PointersReturn ==
  ASSUME TypeOK, Ledger, Pointers, Pending, HandlerReturns PROVE Pointers' /\ Pending'
<1> DEFINE frame == Head(handlers)
           f == frame.file
           o == [heap[f] EXCEPT !.live = FALSE]
<1>1. handlers' = << >> /\ handlers # << >> /\ frame \in Frame /\ f \in fileInfos
  BY Returned DEF Ledger, HandlerReturns
<1>2. /\ Drop(f, frame.from, frame.socket, conn[frame.socket]) /\ UNCHANGED <<peer, node>>
      /\ f \in File /\ f # NULL
  BY <1>1, NullFacts DEF HandlerReturns, NilFacts, Frame
<1>3. /\ o \in Object /\ heap' = [heap EXCEPT ![f] = o] /\ fileInfos' = fileInfos \ {f}
  BY <1>2, DeletedObject DEF Drop, DeleteFileInfo, TypeOK
<1>4. \A g : Reporting(g) => g = f
  BY <1>1, Solo DEF Ledger
<1>5. Pending'
  BY <1>1 DEF Pending
<1>6. CASE frame.from = "stop_hash"
  <2> DEFINE D == {f}
  <2>1. userdata' = ClearedUserdata(f) /\ conn' = conn
    BY <1>2, <1>6 DEF Drop
  <2>2. \A t \in Sock : userdata'[t] = IF userdata[t] \in D THEN NULL ELSE userdata[t]
    BY <1>1, <2>1, ClearedListed
  <2>3. ASSUME NEW t \in Sock, userdata[t] = f PROVE conn[t] \notin Open \cup {"IDLE"}
    <3>1. Attached(t) /\ heap[f].kind # "unknown"
      BY <1>1, <1>2, <2>3 DEF Pointers, UserdataOK, Ledger
    <3>2. heap[f].socket = t
      BY <2>3, <3>1 DEF Attached, FileOf
    <3>3. conn[t] \in {"FIN_SENT", "DESTROY_DELAY"}
      BY <1>1, <1>6, <3>2, NullFacts DEF Pending, NilFacts
    <3> QED BY <3>3 DEF Open
  <2>4. /\ D \in SUBSET File /\ fileInfos' = fileInfos \ D
        /\ \A g \in File \ D : heap'[g] = heap[g] /\ ~Reporting(g)
    BY <1>2, <1>3, <1>4 DEF TypeOK
  <2>5. \A t \in Sock : userdata[t] \in D => userdata[t] = f
    OBVIOUS
  <2> HIDE DEF D, f
  <2> QED BY <1>1, <1>2, <1>5, <2>1, <2>2, <2>3, <2>4, <2>5, PointersDetach
<1>7. CASE frame.from # "stop_hash"
  <2> DEFINE s == frame.socket
             c == AfterPass(Closed(conn[s]), frame.from)
  <2>1. s \in Sock /\ userdata[s] = f /\ conn[s] \in {"CONNECTED", "GOT_FIN", "RESET"}
    BY <1>1, <1>7 DEF Pending
  <2>2. c \notin Open \cup {"IDLE"}
    BY DEF AfterPass, Closed, Open, Connected
  <2>3. /\ \/ userdata' = [ClearedUserdata(f) EXCEPT ![s] = NULL]
           \/ userdata' = ClearedUserdata(f) /\ f \in fileInfos
        /\ conn' = [conn EXCEPT ![s] = c]
    BY <1>1, <1>2, <1>7 DEF Drop
  <2> HIDE DEF s, c, f, o
  <2> QED BY <1>1, <1>2, <1>3, <1>4, <1>5, <2>1, <2>2, <2>3, PointersDelete
<1> QED BY <1>6, <1>7

-----------------------------------------------------------------------------
(* The steps of a node that is up                                          *)

LEMMA PointersSendFile ==
  ASSUME TypeOK, Ledger, Pointers, handlers = << >>, NEW h \in Hash, NEW s \in Sock,
         NEW size \in 0..MaxSize, SendFile(h, s, size)
  PROVE  Pointers'
<1> DEFINE o == NewObject("send", h, s, size)
<1>1. /\ next \in File /\ conn[s] = "IDLE" /\ heap' = [heap EXCEPT ![next] = o]
      /\ fileInfos' = fileInfos \cup {next} /\ userdata' = [userdata EXCEPT ![s] = next]
      /\ conn' = [conn EXCEPT ![s] = "SYN_SENT"] /\ UNCHANGED <<peer, handlers, node>>
  BY DEF SendFile
<1>2. o.live /\ o.kind = "send" /\ o.socket = s
  BY DEF NewObject
<1> HIDE DEF o
<1>3. userdata[s] = NULL
  BY <1>1, OpenFacts DEF Open
<1>4. peer'[s] = NULL
  BY <1>1 DEF Pointers, StreamsOK
<1>5. heap'[next] = o /\ \A g \in File \ {next} : heap'[g] = heap[g]
  BY <1>1 DEF TypeOK
<1>6. conn'[s] = "SYN_SENT" /\ \A t \in Sock \ {s} : conn'[t] = conn[t] /\ peer'[t] = peer[t]
  BY <1>1 DEF TypeOK
<1>7. \A t \in Sock : userdata[t] # next
  <2> SUFFICES ASSUME NEW t \in Sock, userdata[t] = next PROVE FALSE
    OBVIOUS
  <2>1. userdata[t] # NULL /\ next \in Nat
    BY <1>1, NullFacts, BoundAssumption DEF NilFacts
  <2>2. userdata[t] < next
    BY <2>1, AttachedFacts
  <2> QED BY <2>1, <2>2
<1>8. PICK f \in File : f = next
  BY <1>1
<1>9. /\ userdata[s] \notin fileInfos /\ fileInfos' \subseteq File
      /\ \A g \in File \ {f} : g \in fileInfos' <=> g \in fileInfos
      /\ \A g \in File \ {f, next, userdata[s]} : heap'[g] = heap[g]
      /\ heap'[f] = o /\ userdata' = [userdata EXCEPT ![s] = f]
      /\ \A t \in Sock : userdata[t] # f
  BY <1>1, <1>3, <1>5, <1>7, <1>8, NullFacts DEF NilFacts, TypeOK
<1>10. userdata'[s] = f /\ f \in fileInfos'
  BY <1>1, <1>8 DEF TypeOK
<1>11. FileOf(s, heap[f])'
  BY <1>2, <1>4, <1>9, <1>10 DEF FileOf
<1>12. /\ conn'[s] \in Open /\ heap'[f].live /\ heap'[f].socket = s
       /\ heap'[f].kind # "unknown" /\ conn[s] \in Open \cup {"IDLE"}
  BY <1>1, <1>2, <1>6, <1>9 DEF Open
<1> QED BY <1>1, <1>4, <1>6, <1>9, <1>11, <1>12, PointersMove

LEMMA PointersAccept ==
  ASSUME TypeOK, Ledger, Pointers, handlers = << >>, PeersBehave, NEW h \in Hash, NEW s \in Sock,
         NEW size \in 0..MaxSize, NEW total \in Nat, OnAccept(s, h, size, total)
  PROVE  Pointers'
<1> DEFINE p == [hash |-> h, size |-> size, total |-> total, read |-> 0]
<1>1. /\ conn[s] = "IDLE" /\ Incoming(h) = {} /\ total >= HeaderLen
      /\ conn' = [conn EXCEPT ![s] = "CONNECTED"] /\ peer' = [peer EXCEPT ![s] = p]
      /\ UNCHANGED <<heap, fileInfos, userdata, handlers, node>>
  BY HeaderAssumption DEF OnAccept, PeersBehave
<1>2. p.total >= HeaderLen /\ p.read = 0 /\ p.hash = h
  BY <1>1
<1> HIDE DEF p
<1>3. userdata[s] = NULL
  BY <1>1, OpenFacts DEF Open
<1>4. \A t \in Sock \ {s} : conn'[t] = conn[t] /\ peer'[t] = peer[t]
  BY <1>1 DEF TypeOK
<1>5. conn'[s] = "CONNECTED" /\ peer'[s] = p
  BY <1>1 DEF TypeOK
<1>6. StreamsOK'
  BY <1>1, <1>2, <1>4, <1>5 DEF Pointers, StreamsOK
<1>7. OneSource'
  <2>1. \A t \in Sock \ {s} : peer[t] # NULL /\ conn[t] \in Open => peer[t].hash # h
    BY <1>1 DEF Incoming
  <2> QED BY <1>2, <1>4, <1>5, <2>1 DEF Pointers, OneSource
<1>8. ASSUME NEW t \in Sock, userdata'[t] # NULL PROVE Attached(t)'
  <2>1. t # s /\ Attached(t)
    BY <1>1, <1>3, <1>8, AttachedFacts
  <2> QED BY <1>1, <1>4, <2>1 DEF Attached, HeaderOf, FileOf, Reporting
<1>9. ListOK'
  BY <1>1 DEF Pointers, ListOK
<1> QED BY <1>6, <1>7, <1>8, <1>9 DEF Pointers, UserdataOK

LEMMA PointersStopHash ==
  ASSUME TypeOK, Ledger, Pointers, handlers = << >>, NEW h \in Hash, StopHash(h)
  PROVE  Pointers' /\ Pending'
<1> DEFINE f == FindFileInfo(h)
           s == heap[f].socket
<1>1. f \in fileInfos /\ f \in File /\ heap[f] \in Object
  BY FindFileInfoFinds DEF StopHash, TypeOK
<1>2. /\ \E m : CallHandler(f, m, "stop_hash", NULL)
      /\ s = NULL => conn' = conn
      /\ s # NULL => conn' = [conn EXCEPT ![s] = Closed(@)]
      /\ UNCHANGED <<heap, fileInfos, userdata, peer, node>>
  BY DEF StopHash
<1>3. ASSUME s # NULL
      PROVE  /\ s \in Sock /\ userdata[s] = f /\ conn[s] \in Open
             /\ conn'[s] \in {"FIN_SENT", "DESTROY_DELAY"}
  <2>1. s \in Sock /\ userdata[s] = f /\ f # NULL
    BY <1>1, <1>3, NullFacts DEF NilFacts, Pointers, ListOK, Object
  <2>2. conn[s] \in Open
    BY <2>1, OpenFacts
  <2>3. conn'[s] = Closed(conn[s])
    BY <1>2, <1>3, <2>1 DEF TypeOK
  <2> QED BY <2>1, <2>2, <2>3 DEF Closed, Open, Connected
<1>4. \A t \in Sock : \/ conn'[t] = conn[t]
                     \/ /\ userdata[t] = f /\ conn[t] \in Open
                        /\ conn'[t] \notin (Open \ {"CONNECTED"}) \cup {"IDLE"}
  BY <1>2, <1>3 DEF TypeOK, Open
<1>5. /\ Head(handlers)' = [from |-> "stop_hash", file |-> f, socket |-> NULL]
  BY <1>1, <1>2, Called
<1> HIDE DEF f
<1>6. Pointers'
  BY <1>1, <1>2, <1>4, PointersReports
<1>7. Pending'
  BY <1>2, <1>3, <1>5 DEF Pending
<1> QED BY <1>6, <1>7

(* callback_on_error or EOF for the object of s: a handler is called, or a *)
(* header deleted                                                          *)
LEMMA PointersEnds ==
  ASSUME TypeOK, Ledger, Pointers, handlers = << >>, NEW s \in Sock, userdata[s] # NULL,
         NEW m, NEW from \in {"eof", "error", "timeout"}, NEW st \in {"GOT_FIN", "RESET"},
         from = "eof" => HasHandler(userdata[s]),
         Ends(userdata[s], m, from, s, st), UNCHANGED <<next, peer, node>>
  PROVE  Pointers' /\ Pending'
<1> DEFINE f == userdata[s]
           o == [heap[f] EXCEPT !.live = FALSE]
           c == AfterPass(Closed(st), from)
<1>1. f \in File /\ Attached(s) /\ conn[s] \in Open
  BY AttachedFacts, OpenFacts
<1>2. CASE HasHandler(f)
  <2>1. /\ CallHandler(f, m, from, s) /\ conn' = [conn EXCEPT ![s] = st]
        /\ UNCHANGED <<heap, fileInfos, userdata, peer, node>>
    BY <1>2 DEF Ends
  <2>2. f \in fileInfos
    BY <1>1, <1>2 DEF HasHandler, Attached, FileOf
  <2>3. \A t \in Sock : \/ conn'[t] = conn[t]
                       \/ /\ userdata[t] = f /\ conn[t] \in Open
                          /\ conn'[t] \notin (Open \ {"CONNECTED"}) \cup {"IDLE"}
    BY <1>1, <2>1 DEF TypeOK, Open
  <2>4. conn'[s] \in {"CONNECTED", "GOT_FIN", "RESET"}
    BY <2>1 DEF TypeOK
  <2>5. Pending'
    BY <1>1, <2>1, <2>4, PendingCalled
  <2> HIDE DEF f
  <2> QED BY <2>1, <2>2, <2>3, <2>5, PointersReports
<1>3. CASE ~HasHandler(f)
  <2>1. /\ heap' = [heap EXCEPT ![f] = o] /\ fileInfos' = fileInfos \ {f}
        /\ userdata' = [ClearedUserdata(f) EXCEPT ![s] = NULL]
        /\ conn' = [conn EXCEPT ![s] = c] /\ UNCHANGED <<peer, handlers, node>>
    BY <1>3 DEF Ends, Drop, DeleteFileInfo
  <2>2. o \in Object /\ c \notin Open \cup {"IDLE"}
    BY <1>1, DeletedObject DEF TypeOK, AfterPass, Closed, Open, Connected
  <2>3. Pending' /\ handlers' = << >> /\ \A g : ~Reporting(g)
    BY <2>1, Quiet DEF Pending
  <2> HIDE DEF o, c
  <2> QED BY <2>1, <2>2, <2>3, PointersDelete
<1> QED BY <1>2, <1>3

LEMMA PointersError ==
  ASSUME TypeOK, Ledger, Pointers, handlers = << >>, NEW s \in Sock,
         NEW from \in {"error", "timeout"}, OnError(s, from, FailedState(s))
  PROVE  Pointers' /\ Pending'
<1>1. CASE userdata[s] = NULL
  <2> DEFINE c == AfterPass(FailedState(s), from)
  <2>1. c \notin Open \cup {"IDLE"}
    BY DEF AfterPass, FailedState, Open
  <2>2. /\ conn' = [conn EXCEPT ![s] = c]
        /\ UNCHANGED <<heap, fileInfos, userdata, peer, handlers, node>>
    BY <1>1 DEF OnError
  <2> HIDE DEF c
  <2>3. Pending'
    BY <2>2 DEF Pending
  <2> QED BY <1>1, <2>1, <2>2, <2>3, PointersClose
<1>2. CASE userdata[s] # NULL
  <2>1. FailedState(s) = "RESET"
    BY <1>2, OpenFacts DEF FailedState, Open
  <2>2. Ends(userdata[s], "error", from, s, "RESET") /\ UNCHANGED <<next, peer, node>>
    BY <1>2, <2>1 DEF OnError
  <2> QED BY <1>2, <2>2, PointersEnds
<1> QED BY <1>1, <1>2

LEMMA PointersEof ==
  ASSUME TypeOK, Ledger, Pointers, handlers = << >>, NEW s \in Sock, OnEof(s)
  PROVE  Pointers' /\ Pending'
<1>1. UNCHANGED <<next, peer, node>> /\ FinArrives(s)
  BY DEF OnEof
<1>2. CASE userdata[s] = NULL
  <2> DEFINE c == Closed("GOT_FIN")
  <2>1. c \notin Open \cup {"IDLE"}
    BY DEF Closed, Open, Connected
  <2>2. /\ conn' = [conn EXCEPT ![s] = c]
        /\ UNCHANGED <<heap, fileInfos, userdata, peer, handlers, node>>
    BY <1>1, <1>2 DEF OnEof
  <2> HIDE DEF c
  <2>3. Pending'
    BY <2>2 DEF Pending
  <2> QED BY <1>2, <2>1, <2>2, <2>3, PointersClose
<1>3. CASE userdata[s] # NULL
  <2>1. userdata[s] \in File /\ Attached(s)
    BY <1>3, AttachedFacts
  <2>2. HasHandler(userdata[s])
    <3> SUFFICES ASSUME HeaderOf(s, heap[userdata[s]]) PROVE FALSE
      BY <2>1 DEF Attached, HasHandler
    <3>1. peer[s] \in Stream /\ peer[s].read = peer[s].total /\ peer[s].read < HeaderLen
      BY <1>1 DEF HeaderOf, FinArrives, TypeOK
    <3>2. peer[s].total >= HeaderLen
      BY DEF HeaderOf, Pointers, StreamsOK
    <3> QED BY <3>1, <3>2, HeaderAssumption DEF Stream
  <2>3. \E m : Ends(userdata[s], m, "eof", s, "GOT_FIN")
    BY <1>3 DEF OnEof
  <2> QED BY <1>1, <1>3, <2>2, <2>3, PointersEnds
<1> QED BY <1>2, <1>3

(* sendBytes for a file that an accepted socket does not have              *)
LEMMA PointersSendBytes ==
  ASSUME TypeOK, Ledger, Pointers, handlers = << >>, NEW s \in Sock, NEW n \in Nat,
         userdata[s] # NULL, conn[s] \in {"SYN_SENT", "CONNECTED_FULL"},
         SendBytes(s, userdata[s], n)
  PROVE  Pointers' /\ Pending'
<1>1. PICK f \in File : f = userdata[s]
  BY AttachedFacts
<1> DEFINE more == [heap[f] EXCEPT !.pos = @ + n]
<1>2. peer[s] = NULL /\ Attached(s)
  BY AttachedFacts DEF Pointers, StreamsOK
<1>3. /\ heap[f].kind # "unknown" /\ heap[f].kind # "receive" /\ heap[f].live
      /\ heap[f].socket = s /\ f \in fileInfos
  BY <1>1, <1>2 DEF Attached, HeaderOf, FileOf
<1>4. heap[f] \in Object
  BY DEF TypeOK
<1>5. more \in Object /\ more.kind = heap[f].kind /\ more.live /\ more.socket = s
  BY <1>3, <1>4, AdvancedObject DEF Object
<1>6. CASE IsCompleted(more)
  <2>1. /\ CallHandler(f, "ok", "sent", s) /\ heap' = [heap EXCEPT ![f] = more]
        /\ conn' = [conn EXCEPT ![s] = "CONNECTED"]
        /\ UNCHANGED <<fileInfos, userdata, peer, node>>
    BY <1>1, <1>6 DEF SendBytes
  <2>2. heap'[f] = more /\ more.hash = heap[f].hash /\ \A g \in File \ {f} : heap'[g] = heap[g]
    BY <1>4, <2>1 DEF TypeOK, Object
  <2>3. conn'[s] = "CONNECTED" /\ \A t \in Sock \ {s} : conn'[t] = conn[t]
    BY <2>1 DEF TypeOK
  <2>4. conn[s] \in Open
    BY DEF Open
  <2> HIDE DEF more
  <2>5. Pending'
    <3>1. /\ CallHandler(userdata[s], "ok", "sent", s) /\ userdata[s] \in File
          /\ conn'[s] \in {"CONNECTED", "GOT_FIN", "RESET"} /\ UNCHANGED userdata
      BY <1>1, <2>1, <2>3
    <3> QED BY <3>1, PendingCalled
  <2>6. \A t \in Sock : \/ conn'[t] = conn[t]
                       \/ /\ userdata[t] = f /\ conn[t] \in Open
                          /\ conn'[t] \notin (Open \ {"CONNECTED"}) \cup {"IDLE"}
    BY <1>1, <2>3, <2>4
  <2>7. /\ \A g \in File \ {f} : heap'[g] = heap[g]
        /\ heap'[f].live = heap[f].live /\ heap'[f].kind = heap[f].kind
        /\ heap'[f].socket = heap[f].socket /\ heap'[f].hash = heap[f].hash
    BY <1>3, <1>5, <2>2
  <2>8. /\ f \in fileInfos /\ CallHandler(f, "ok", "sent", s)
        /\ UNCHANGED <<fileInfos, userdata, peer, node>>
    BY <1>3, <2>1
  <2>9. Pointers'
    BY <2>6, <2>7, <2>8, PointersReports
  <2> QED BY <2>5, <2>9
<1>7. CASE ~IsCompleted(more)
  <2>1. /\ heap' = [heap EXCEPT ![f] = more] /\ conn' = [conn EXCEPT ![s] = "CONNECTED_FULL"]
        /\ UNCHANGED <<fileInfos, userdata, peer, handlers, node>>
    BY <1>1, <1>7 DEF SendBytes
  <2> HIDE DEF more
  <2>2. /\ conn'[s] = "CONNECTED_FULL"
        /\ \A t \in Sock \ {s} : conn'[t] = conn[t] /\ peer'[t] = peer[t]
        /\ heap'[f] = more /\ \A g \in File \ {f, next, userdata[s]} : heap'[g] = heap[g]
        /\ userdata' = [userdata EXCEPT ![s] = f] /\ fileInfos' \subseteq File
    BY <1>1, <2>1 DEF TypeOK
  <2>3. \A t \in Sock \ {s} : userdata[t] # f
    BY <1>1, <1>2 DEF Attached
  <2>4. FileOf(s, heap[f])'
    BY <1>1, <1>2, <1>3, <1>5, <2>1, <2>2 DEF FileOf
  <2>5. conn[s] \in Open \cup {"IDLE"} /\ conn'[s] \in Open /\ peer'[s] = NULL
    <3>1. peer'[s] = NULL
      BY <1>2, <2>1
    <3> QED BY <2>2, <3>1 DEF Open
  <2>6. /\ heap'[f].live /\ heap'[f].socket = s /\ heap'[f].kind # "unknown"
        /\ userdata[s] # f => userdata[s] \notin fileInfos
        /\ \A g \in File \ {f} : g \in fileInfos' <=> g \in fileInfos
    BY <1>1, <1>3, <1>5, <2>1, <2>2
  <2>7. Pending'
    BY <2>1 DEF Pending
  <2> QED BY <2>1, <2>2, <2>3, <2>4, <2>5, <2>6, <2>7, PointersMove
<1> QED BY <1>6, <1>7

(* A peer whose stream is being read is the only source of its file.       *)
LEMMA SourceFacts ==
  ASSUME TypeOK, Pointers, NEW s \in Sock, NEW n \in Nat, peer[s] # NULL,
         conn[s] \in Connected, Advance(s, n)
  PROVE  /\ conn[s] = "CONNECTED" /\ peer'[s].total >= HeaderLen
         /\ \A t \in Sock \ {s} : peer[t] # NULL /\ conn[t] \in Open
                                   => peer[t].hash # peer'[s].hash
<1>1. conn[s] = "CONNECTED"
  BY DEF Connected, Pointers, StreamsOK
<1>2. peer'[s].total = peer[s].total /\ peer'[s].hash = peer[s].hash
  BY AdvanceFacts
<1>3. peer[s].total >= HeaderLen
  BY DEF Pointers, StreamsOK
<1> QED BY <1>1, <1>2, <1>3 DEF Pointers, OneSource, Open

LEMMA PointersReadBody ==
  ASSUME TypeOK, Ledger, Pointers, handlers = << >>, NEW s \in Sock, NEW n \in Nat, ReadBody(s, n)
  PROVE  Pointers'
<1>1. /\ peer[s] # NULL /\ conn[s] \in Connected /\ Advance(s, n)
      /\ userdata[s] # NULL /\ heap[userdata[s]].kind = "receive"
      /\ UNCHANGED <<fileInfos, conn, userdata, handlers, node>>
  BY DEF ReadBody, Readable
<1>2. PICK f \in File : f = userdata[s]
  BY <1>1, AttachedFacts
<1>3. heap' = [heap EXCEPT ![f].data = @ \o Body(s, peer[s].read, n)]
  BY <1>2 DEF ReadBody
<1>4. Attached(s) /\ heap[f] \in Object
  BY <1>1, AttachedFacts DEF TypeOK
<1>5. /\ heap'[f].kind = "receive" /\ heap'[f].live /\ heap'[f].socket = s
      /\ heap'[f].hash = heap[f].hash
      /\ \A g \in File \ {f, next, userdata[s]} : heap'[g] = heap[g]
  BY <1>1, <1>2, <1>3, <1>4 DEF Attached, FileOf, TypeOK, Object
<1>6. /\ peer'[s] # NULL /\ peer'[s].hash = peer[s].hash
      /\ \A t \in Sock \ {s} : conn'[t] = conn[t] /\ peer'[t] = peer[t]
  BY <1>1, AdvanceFacts
<1>7. FileOf(s, heap[f])'
  BY <1>1, <1>2, <1>4, <1>5, <1>6 DEF FileOf, Attached
<1>8. /\ userdata' = [userdata EXCEPT ![s] = f] /\ fileInfos' \subseteq File
      /\ userdata[s] # f => userdata[s] \notin fileInfos
      /\ \A g \in File \ {f} : g \in fileInfos' <=> g \in fileInfos
      /\ \A t \in Sock \ {s} : userdata[t] # f
  BY <1>1, <1>2, <1>4 DEF Attached, TypeOK
<1>9. /\ conn[s] \in Open \cup {"IDLE"} /\ conn'[s] \in Open /\ conn'[s] = "CONNECTED"
  BY <1>1, SourceFacts DEF Open
<1>10. /\ peer'[s].total >= HeaderLen
       /\ \A t \in Sock \ {s} : peer[t] # NULL /\ conn[t] \in Open
                                 => peer[t].hash # peer'[s].hash
  BY <1>1, SourceFacts
<1>11. heap'[f].kind # "unknown"
  BY <1>5
<1> QED BY <1>1, <1>5, <1>6, <1>7, <1>8, <1>9, <1>10, <1>11, PointersMove

(* What the steps that read a header have in common                        *)
LEMMA ReadingHeaderFacts ==
  ASSUME TypeOK, Ledger, Pointers, NEW s \in Sock, NEW n \in Nat, ReadingHeader(s, n)
  PROVE  /\ peer[s] # NULL /\ conn[s] \in Connected /\ Advance(s, n)
         /\ HeaderAddress(s) \in {next, userdata[s]} /\ HeaderAddress(s) \in File
         /\ HeaderAddress(s) \notin fileInfos /\ userdata[s] \notin fileInfos
         /\ \A t \in Sock \ {s} : userdata[t] # HeaderAddress(s)
         /\ HeaderObject(s) \in Object /\ HeaderObject(s).live
         /\ HeaderObject(s).kind = "unknown" /\ HeaderOf(s, HeaderObject(s))
<1>1. /\ peer[s] # NULL /\ conn[s] \in Connected /\ Advance(s, n) /\ HeaderAddress(s) \in File
      /\ userdata[s] # NULL => heap[userdata[s]].kind = "unknown"
  BY DEF ReadingHeader, Readable
<1>2. HeaderObject(s) \in Object /\ peer[s] \in Stream
  BY ReadingHeaderType
<1>3. CASE userdata[s] = NULL
  <2>1. HeaderAddress(s) = next /\ next \notin fileInfos /\ userdata[s] \notin fileInfos
    <3>1. next \notin fileInfos
      BY BoundAssumption DEF Ledger, TypeOK
    <3>2. userdata[s] \notin fileInfos
      BY <1>3, NullFacts DEF NilFacts, TypeOK
    <3> QED BY <1>3, <3>1, <3>2 DEF HeaderAddress
  <2>2. peer[s].read = 0
    BY <1>1, <1>3 DEF Pointers, StreamsOK
  <2>3. HeaderObject(s) = NewObject("unknown", peer[s].hash, NULL, peer[s].size)
    BY <1>3, <2>2 DEF HeaderObject
  <2>4. /\ HeaderObject(s).live /\ HeaderObject(s).kind = "unknown"
        /\ HeaderObject(s).socket = NULL /\ HeaderObject(s).hash = peer[s].hash
        /\ HeaderObject(s).pos = 0 /\ HeaderObject(s).size = peer[s].size
    BY <2>3 DEF NewObject
  <2>5. \A t \in Sock : userdata[t] # next
    <3> SUFFICES ASSUME NEW t \in Sock, userdata[t] = next PROVE FALSE
      OBVIOUS
    <3>1. userdata[t] # NULL /\ next \in Nat
      BY <1>1, <2>1, NullFacts, BoundAssumption DEF NilFacts
    <3>2. userdata[t] < next
      BY <3>1, AttachedFacts
    <3> QED BY <3>1, <3>2
  <2> QED BY <1>1, <1>2, <2>1, <2>2, <2>4, <2>5, HeaderAssumption DEF HeaderOf
<1>4. CASE userdata[s] # NULL
  <2>1. Attached(s) /\ userdata[s] \notin fileInfos
    BY <1>1, <1>4, AttachedFacts
  <2>2. HeaderAddress(s) = userdata[s] /\ HeaderObject(s) = heap[userdata[s]]
    BY <1>4 DEF HeaderAddress, HeaderObject
  <2> QED BY <1>1, <1>2, <1>4, <2>1, <2>2 DEF Attached
<1> QED BY <1>3, <1>4

LEMMA PointersReadHeader ==
  ASSUME TypeOK, Ledger, Pointers, handlers = << >>, NEW s \in Sock, NEW n \in Nat, ReadHeader(s, n)
  PROVE  Pointers'
<1>1. ReadingHeader(s, n) /\ UNCHANGED <<fileInfos, conn, handlers, node>>
  BY DEF ReadHeader
<1> DEFINE o == HeaderObject(s)
           p == [o EXCEPT !.pos = @ + n]
<1>2. PICK f \in File : f = HeaderAddress(s)
  BY <1>1, ReadingHeaderFacts
<1>3. /\ peer[s] # NULL /\ conn[s] \in Connected /\ Advance(s, n)
      /\ f \in {next, userdata[s]} /\ f \notin fileInfos /\ userdata[s] \notin fileInfos
      /\ \A t \in Sock \ {s} : userdata[t] # f
      /\ o \in Object /\ o.live /\ o.kind = "unknown" /\ HeaderOf(s, o)
  BY <1>1, <1>2, ReadingHeaderFacts
<1>4. p.live /\ p.kind = "unknown" /\ p.socket = o.socket /\ p.hash = o.hash /\ p.pos = o.pos + n
      /\ p.size = o.size
  BY <1>3 DEF Object
<1>5. o.pos + n < HeaderLen /\ heap' = [heap EXCEPT ![f] = p] /\ userdata' = [userdata EXCEPT ![s] = f]
  BY <1>2 DEF ReadHeader
<1> HIDE DEF o, p
<1>6. heap'[f] = p /\ \A g \in File \ {f, next, userdata[s]} : heap'[g] = heap[g]
  BY <1>5 DEF TypeOK
<1>7. /\ peer'[s] # NULL /\ peer'[s].hash = peer[s].hash /\ peer'[s].read = peer[s].read + n
      /\ peer'[s].size = peer[s].size
      /\ \A t \in Sock \ {s} : conn'[t] = conn[t] /\ peer'[t] = peer[t]
  BY <1>1, <1>3, AdvanceFacts
<1>8. HeaderOf(s, heap[f])'
  BY <1>3, <1>4, <1>5, <1>6, <1>7 DEF HeaderOf
<1>9. /\ peer'[s].total >= HeaderLen /\ conn'[s] = "CONNECTED"
      /\ \A t \in Sock \ {s} : peer[t] # NULL /\ conn[t] \in Open
                                => peer[t].hash # peer'[s].hash
  BY <1>1, <1>3, SourceFacts
<1>10. conn[s] \in Open \cup {"IDLE"} /\ conn'[s] \in Open
  BY <1>3, <1>9 DEF Open, Connected
<1>11. /\ \A g \in File \ {f} : g \in fileInfos' <=> g \in fileInfos
       /\ fileInfos' \subseteq File /\ f \notin fileInfos'
       /\ heap'[f].live /\ heap'[f].kind = "unknown"
  BY <1>1, <1>3, <1>4, <1>6 DEF TypeOK
<1> QED BY <1>1, <1>3, <1>5, <1>6, <1>7, <1>8, <1>9, <1>10, <1>11, PointersMove

(* checkHash finds an object that no other socket has: its peer would be a *)
(* second source of the file.                                              *)
LEMMA BoundIsFree ==
  ASSUME TypeOK, Ledger, Pointers, handlers = << >>, NEW s \in Sock, NEW n \in Nat, BindFile(s, n),
         NEW f \in File, f = FindFileInfo(HeaderObject(s).hash)
  PROVE  /\ f \in fileInfos /\ heap[f].kind = "receive" /\ heap[f].live
         /\ heap[f].hash = peer[s].hash
         /\ heap[f].socket = NULL /\ \A t \in Sock : userdata[t] # f
<1>1. ReadingHeader(s, n) /\ Registered(HeaderObject(s).hash)
  BY DEF BindFile
<1>2. f \in fileInfos /\ heap[f].hash = HeaderObject(s).hash /\ heap[f].kind = "receive"
  BY <1>1, FindFileInfoFinds DEF Registered
<1>3. /\ peer[s] # NULL /\ conn[s] \in Open /\ heap[f].hash = peer[s].hash
      /\ userdata[s] \notin fileInfos
  BY <1>1, <1>2, ReadingHeaderFacts DEF HeaderOf, Open, Connected
<1>4. ASSUME NEW t \in Sock, userdata[t] = f PROVE FALSE
  <2>1. userdata[t] # NULL
    BY <1>4, NullFacts DEF NilFacts
  <2>2. FileOf(t, heap[f]) /\ conn[t] \in Open
    BY <1>2, <1>4, <2>1, AttachedFacts, OpenFacts DEF Attached
  <2>3. peer[t] # NULL /\ peer[t].hash = peer[s].hash
    BY <1>2, <1>3, <2>2 DEF FileOf
  <2>4. s = t
    BY <1>3, <2>2, <2>3 DEF Pointers, OneSource
  <2> QED BY <1>2, <1>3, <1>4, <2>4
<1>5. heap[f].socket = NULL
  <2>1. heap[f].socket \in Sock \cup {NULL}
    BY DEF TypeOK, Object
  <2> QED BY <1>2, <1>4, <2>1 DEF Pointers, ListOK
<1> QED BY <1>2, <1>3, <1>4, <1>5 DEF Ledger

LEMMA PointersBindFile ==
  ASSUME TypeOK, Ledger, Pointers, handlers = << >>, NEW s \in Sock, NEW n \in Nat, BindFile(s, n)
  PROVE  Pointers'
<1>1. ReadingHeader(s, n) /\ UNCHANGED <<fileInfos, conn, handlers, node>>
  BY DEF BindFile
<1> DEFINE o == HeaderObject(s)
           rest == n - (HeaderLen - o.pos)
           a == HeaderAddress(s)
<1>2. PICK f \in File : f = FindFileInfo(o.hash)
  BY FindFileInfoFinds DEF BindFile, Registered, TypeOK
<1> DEFINE bound == [heap[f] EXCEPT !.size = o.size, !.socket = s,
                       !.data = @ \o Body(s, peer[s].read + n - rest, rest)]
<1>3. /\ peer[s] # NULL /\ conn[s] \in Connected /\ Advance(s, n)
      /\ a \in {next, userdata[s]} /\ userdata[s] \notin fileInfos
      /\ a \notin fileInfos
  BY <1>1, ReadingHeaderFacts
<1>4. /\ f \in fileInfos /\ heap[f].kind = "receive" /\ heap[f].live
      /\ heap[f].hash = peer[s].hash /\ \A t \in Sock : userdata[t] # f
  BY <1>2, BoundIsFree
<1>5. /\ heap' = [g \in File |-> CASE g = f -> bound
                                  [] g = a -> [o EXCEPT !.live = FALSE, !.pos = HeaderLen]
                                  [] OTHER -> heap[g]]
      /\ userdata' = [userdata EXCEPT ![s] = f]
  BY <1>2 DEF BindFile
<1>6. /\ bound.kind = "receive" /\ bound.live /\ bound.hash = peer[s].hash /\ bound.socket = s
  BY <1>4 DEF TypeOK, Object
<1> HIDE DEF o, bound, a, rest
<1>7. heap'[f] = bound /\ \A g \in File \ {f, next, userdata[s]} : heap'[g] = heap[g]
  BY <1>3, <1>4, <1>5
<1>8. /\ peer'[s] # NULL /\ peer'[s].hash = peer[s].hash
      /\ \A t \in Sock \ {s} : conn'[t] = conn[t] /\ peer'[t] = peer[t]
  BY <1>1, <1>3, AdvanceFacts
<1>9. userdata'[s] = f /\ f \in fileInfos'
  BY <1>1, <1>4, <1>5 DEF TypeOK
<1>10. FileOf(s, heap[f])'
  BY <1>6, <1>7, <1>8, <1>9 DEF FileOf
<1>11. /\ peer'[s].total >= HeaderLen /\ conn'[s] = "CONNECTED"
       /\ \A t \in Sock \ {s} : peer[t] # NULL /\ conn[t] \in Open
                                 => peer[t].hash # peer'[s].hash
  BY <1>1, <1>3, SourceFacts
<1>12. conn[s] \in Open \cup {"IDLE"} /\ conn'[s] \in Open
  BY <1>3, <1>11 DEF Open, Connected
<1>13. /\ \A g \in File \ {f} : g \in fileInfos' <=> g \in fileInfos
       /\ fileInfos' \subseteq File
       /\ heap'[f].live /\ heap'[f].kind # "unknown" /\ heap'[f].socket = s
       /\ userdata' = [userdata EXCEPT ![s] = f] /\ \A t \in Sock \ {s} : userdata[t] # f
  BY <1>1, <1>4, <1>5, <1>6, <1>7 DEF TypeOK
<1> QED BY <1>1, <1>3, <1>7, <1>8, <1>10, <1>11, <1>12, <1>13, PointersMove

LEMMA PointersRejectFile ==
  ASSUME TypeOK, Ledger, Pointers, handlers = << >>, NEW s \in Sock, NEW n \in Nat, RejectFile(s, n)
  PROVE  Pointers'
<1>1. /\ ReadingHeader(s, n) /\ userdata' = [userdata EXCEPT ![s] = NULL]
      /\ conn' = [conn EXCEPT ![s] = Closed(@)] /\ UNCHANGED <<fileInfos, reports, handlers, node>>
  BY DEF RejectFile
<1>2. /\ peer[s] # NULL /\ conn[s] \in Connected /\ Advance(s, n)
      /\ HeaderAddress(s) \in {next, userdata[s]} /\ HeaderAddress(s) \in File
      /\ HeaderAddress(s) \notin fileInfos
      /\ \A t \in Sock \ {s} : userdata[t] # HeaderAddress(s)
  BY <1>1, ReadingHeaderFacts
<1> DEFINE D == {HeaderAddress(s)}
<1>3. conn'[s] \notin Open \cup {"IDLE"} /\ userdata'[s] = NULL
  <2>1. conn'[s] = Closed(conn[s]) /\ userdata'[s] = NULL
    BY <1>1 DEF TypeOK
  <2>2. Closed(conn[s]) = "FIN_SENT"
    BY <1>2 DEF Closed, Connected
  <2> QED BY <2>1, <2>2 DEF Open
<1>4. \A g \in File \ D : heap'[g] = heap[g]
  BY <1>2 DEF RejectFile, TypeOK
<1>5. peer'[s].total = peer[s].total /\ \A t \in Sock \ {s} : peer'[t] = peer[t]
  BY <1>2, AdvanceFacts
<1>6. D \in SUBSET File /\ fileInfos' = fileInfos \ D
  BY <1>1, <1>2
<1>7. userdata[s] \in D \/ userdata[s] = NULL
  BY DEF HeaderAddress
<1>8. \A t \in Sock \ {s} : userdata[t] \notin D /\ userdata'[t] = userdata[t] /\ conn'[t] = conn[t]
  BY <1>1, <1>2 DEF TypeOK
<1> HIDE DEF D
<1>9. \A t \in Sock : userdata'[t] = IF userdata[t] \in D THEN NULL ELSE userdata[t]
  BY <1>3, <1>7, <1>8
<1>10. \A t \in Sock : \/ conn'[t] = conn[t] /\ userdata[t] \notin D /\ peer'[t] = peer[t]
                       \/ /\ conn'[t] \notin Open \cup {"IDLE"} /\ userdata'[t] = NULL
                          /\ peer'[t] # NULL => peer[t] # NULL /\ peer'[t].total = peer[t].total
  <2>1. ASSUME NEW t \in Sock, t # s
        PROVE conn'[t] = conn[t] /\ userdata[t] \notin D /\ peer'[t] = peer[t]
    BY <1>5, <1>8, <2>1
  <2> QED BY <1>2, <1>3, <1>5, <2>1
<1>11. handlers' = << >> /\ \A g : ~Reporting(g)
  BY <1>1, Quiet
<1> QED BY <1>1, <1>4, <1>6, <1>9, <1>10, <1>11, PointersDetach

LEMMA PointersStep ==
  ASSUME TypeOK, Ledger, Pointers, handlers = << >>, PeersBehave, node = "up", Acting
  PROVE  \/ node' = "up" /\ Pointers' /\ Pending'
         \/ node' = "down" /\ handlers' = << >>
<1>1. CASE Destruct
  BY <1>1 DEF Destruct
<1>2. ASSUME NEW h \in Hash, RegistHash(h) PROVE node' = "up" /\ Pointers' /\ Pending'
  <2> DEFINE o == NewObject("receive", h, NULL, 0)
  <2>1. o \in Object /\ o.socket = NULL
    BY NewObjectType DEF NewObject
  <2>2. /\ next \in File /\ heap' = [heap EXCEPT ![next] = o]
        /\ fileInfos' = fileInfos \cup {next} /\ UNCHANGED <<conn, userdata, peer, handlers, node>>
    BY <1>2 DEF RegistHash
  <2> HIDE DEF o
  <2> QED BY <2>1, <2>2, PointersRegist DEF Pending
<1>3. ASSUME NEW h \in Hash, StopHash(h) PROVE node' = "up" /\ Pointers' /\ Pending'
  BY <1>3, PointersStopHash DEF StopHash
<1>4. ASSUME NEW h \in Hash, NEW s \in Sock, NEW size \in 0..MaxSize, SendFile(h, s, size)
      PROVE node' = "up" /\ Pointers' /\ Pending'
  BY <1>4, PointersSendFile DEF SendFile, Pending
<1>5. ASSUME NEW h \in Hash, NEW s \in Sock, NEW size \in 0..MaxSize,
             NEW total \in 0..(HeaderLen + size), OnAccept(s, h, size, total)
      PROVE node' = "up" /\ Pointers' /\ Pending'
  <2>1. total \in Nat
    BY HeaderAssumption
  <2> QED BY <1>5, <2>1, PointersAccept DEF OnAccept, Pending
<1>6. ASSUME NEW s \in Sock, OnConnect(s) \/ OnWritable(s)
      PROVE node' = "up" /\ Pointers' /\ Pending'
  <2>1. /\ userdata[s] # NULL /\ conn[s] \in {"SYN_SENT", "CONNECTED_FULL"}
    BY <1>6 DEF OnConnect, OnWritable, OnWindow
  <2>2. PICK n \in Nat : SendBytes(s, userdata[s], n)
    BY <1>6, HeaderAssumption DEF OnConnect, OnWritable, OnWindow
  <2>3. node' = node
    BY <2>2 DEF SendBytes
  <2> QED BY <2>1, <2>2, <2>3, PointersSendBytes
<1>7. ASSUME NEW s \in Sock, OnEof(s) PROVE node' = "up" /\ Pointers' /\ Pending'
  BY <1>7, PointersEof DEF OnEof
<1>8. ASSUME NEW s \in Sock, OnReset(s) \/ OnTimeout(s)
      PROVE node' = "up" /\ Pointers' /\ Pending'
  <2>1. PICK from \in {"error", "timeout"} : OnError(s, from, FailedState(s))
    BY <1>8 DEF OnReset, OnTimeout
  <2>2. node' = node
    BY <2>1 DEF OnError
  <2> QED BY <2>1, <2>2, PointersError
<1>9. ASSUME NEW s \in Sock, FinAcked(s) \/ Reap(s) \/ DelayOver(s)
      PROVE node' = "up" /\ Pointers' /\ Pending'
  <2>1. userdata[s] = NULL
    BY <1>9, OpenFacts DEF FinAcked, Reap, DelayOver, Open
  <2>2. \E c : /\ c \notin Open \cup {"IDLE"} /\ conn' = [conn EXCEPT ![s] = c]
               /\ UNCHANGED <<heap, fileInfos, userdata, peer, handlers, node>>
    BY <1>9 DEF FinAcked, Reap, DelayOver, Open
  <2> QED BY <2>1, <2>2, PointersClose DEF Pending
<1>10. ASSUME NEW s \in Sock, NEW n \in 1..(HeaderLen + MaxSize),
              ReadBody(s, n) \/ ReadHeader(s, n) \/ BindFile(s, n) \/ RejectFile(s, n)
       PROVE node' = "up" /\ Pointers' /\ Pending'
  <2>1. n \in Nat /\ UNCHANGED <<handlers, node>>
    BY <1>10, HeaderAssumption DEF ReadBody, ReadHeader, BindFile, RejectFile
  <2>2. Pending'
    BY <2>1 DEF Pending
  <2> QED BY <1>10, <2>1, <2>2, PointersReadBody, PointersReadHeader, PointersBindFile,
             PointersRejectFile
<1> QED BY <1>1, <1>2, <1>3, <1>4, <1>5, <1>6, <1>7, <1>8, <1>9, <1>10 DEF Acting

(* Nothing the node goes on with was deleted.                              *)
LEMMA NothingFreed == ASSUME HandlersKeepOut, TypeOK, Ledger, PInv PROVE ~UseAfterFree
<1>1. node # "undefined" /\ (handlers # << >> => node = "up")
  BY DEF PInv, TypeOK
<1>2. MayCall \/ LoopRuns => node = "up" /\ handlers = << >>
  BY Waiting DEF MayCall, LoopRuns
<1>3. node = "up" => Pointers /\ Pending
  BY DEF PInv
<1>4. ASSUME LoopRuns, NEW s \in Sock, Dangling(s) PROVE FALSE
  <2>1. Attached(s)
    BY <1>2, <1>3, <1>4 DEF Dangling, Pointers, UserdataOK
  <2> QED BY <1>4, <2>1 DEF Dangling, Attached
<1>5. ASSUME MayCall, NEW h \in Hash, Found(h), Freed(FindFileInfo(h)) PROVE FALSE
  <2> DEFINE f == FindFileInfo(h)
  <2>1. f \in fileInfos /\ f \in File /\ heap[f].live /\ heap[f] \in Object
    BY <1>5, FindFileInfoFinds DEF TypeOK, Ledger
  <2> HIDE DEF f
  <2>2. heap[f].socket # NULL /\ conn[heap[f].socket] = "GONE"
    BY <1>5, <2>1 DEF Freed, f
  <2>3. userdata[heap[f].socket] = f /\ f # NULL /\ heap[f].socket \in Sock
    BY <1>2, <1>3, <1>5, <2>1, <2>2, NullFacts DEF NilFacts, Pointers, ListOK, Object
  <2>4. conn[heap[f].socket] \in Open
    BY <1>2, <1>3, <1>5, <2>3, OpenFacts
  <2> QED BY <2>2, <2>4 DEF Open
<1>6. ASSUME handlers # << >>, Freed(Head(handlers).file) PROVE FALSE
  BY <1>1, <1>3, <1>6, PendingSafe
<1> QED BY <1>4, <1>5, <1>6 DEF UseAfterFree

LEMMA PointersNext ==
  ASSUME PeersBehave, HandlersKeepOut PROVE TypeOK /\ Ledger /\ PInv /\ [Next]_vars => PInv'
<1> SUFFICES ASSUME TypeOK, Ledger, PInv, [Next]_vars PROVE PInv'
  OBVIOUS
<1>1. CASE Acting
  BY <1>1, ActingAlone, PointersStep DEF PInv
<1>2. CASE HandlerReturns
  BY <1>2, PointersReturn DEF PInv, HandlerReturns
<1>3. CASE UNCHANGED vars
  BY <1>3 DEF vars, PInv, Pointers, Pending, StreamsOK, OneSource, UserdataOK, ListOK, Attached,
              HeaderOf, FileOf, Reporting
<1> QED BY <1>1, <1>2, <1>3, NothingFreed, NextActs

(* The pointers between sockets and objects agree (utp_set_userdata,       *)
(* FileInfo::socket and the list fileInfos), also while a handler is under *)
(* way, with peers that behave and handlers that call no method.           *)
THEOREM PointersAlwaysAgree == ASSUME PeersBehave, HandlersKeepOut PROVE Spec => []PointersAgree
<1>1. TypeOK /\ Ledger /\ PInv => PointersAgree
  BY PointersSafe
<1>2. TypeOK /\ Ledger /\ PInv /\ [Next]_vars => PInv'
  BY PointersNext
<1> QED BY <1>1, <1>2, TypeInit, TypeNext, LedgerInit, LedgerNext, PointersInit, PTL DEF Spec

(* The assertion at the head of utp_close holds for every call of the node *)
(* to it, with peers that behave and handlers that call no method: one     *)
(* that calls stopHash from within stopHash closes its socket again.       *)
THEOREM CloseAlwaysLegal == ASSUME PeersBehave, HandlersKeepOut PROVE Spec => []CloseIsLegal
<1>1. TypeOK /\ Ledger /\ PInv => CloseIsLegal
  BY PointersSafe
<1>2. TypeOK /\ Ledger /\ PInv /\ [Next]_vars => PInv'
  BY PointersNext
<1> QED BY <1>1, <1>2, TypeInit, TypeNext, LedgerInit, LedgerNext, PointersInit, PTL DEF Spec

(* No method or callback goes on with an object or a socket that was       *)
(* deleted, with peers that behave and handlers that call no method; a     *)
(* stream that ends inside the header, or a handler of stopHash that       *)
(* deletes the node, is all it takes otherwise.                            *)
THEOREM NeverUsedAfterFree == ASSUME PeersBehave, HandlersKeepOut PROVE Spec => []NoUseAfterFree
<1>1. TypeOK /\ Ledger /\ PInv => NoUseAfterFree
  BY PointersSafe
<1>2. TypeOK /\ Ledger /\ PInv /\ [Next]_vars => PInv'
  BY PointersNext
<1> QED BY <1>1, <1>2, TypeInit, TypeNext, LedgerInit, LedgerNext, PointersInit, PTL DEF Spec

-----------------------------------------------------------------------------
(* What a receiver has of its file                                         *)

Units(s, n) == [i \in 1..n |-> <<s, i>>]

(* Until a file is bound to a socket it is empty; from then on it is what  *)
(* was read from the peer of that socket after the header.                 *)
FileContents(f) ==
  heap[f].kind = "receive" =>
    /\ heap[f].socket = NULL => heap[f].data = << >> /\ reports[f] # <<"ok">>
    /\ heap[f].socket # NULL =>
         /\ peer[heap[f].socket] # NULL
         /\ peer[heap[f].socket].hash = heap[f].hash
         /\ peer[heap[f].socket].size = heap[f].size
         /\ f \in fileInfos =>
              /\ peer[heap[f].socket].read >= HeaderLen
              /\ heap[f].data = Units(heap[f].socket, peer[heap[f].socket].read - HeaderLen)
         /\ reports[f] = <<"ok">> =>
              heap[f].data = Units(heap[f].socket, peer[heap[f].socket].size)

Contents == \A f \in File : FileContents(f)

LEMMA ContentsInit == Init => Contents
BY DEF Init, Contents, FileContents, NewObject

LEMMA ContentsWhole == ASSUME Contents PROVE WholeFile
BY DEF Contents, FileContents, WholeFile, Units

(* A file keeps what it has if its peer is not read and no "ok" reported.  *)
LEMMA ContentsKept ==
  ASSUME NEW f \in File, FileContents(f),
         heap'[f].kind = heap[f].kind, heap'[f].socket = heap[f].socket,
         heap'[f].hash = heap[f].hash, heap'[f].size = heap[f].size,
         heap'[f].data = heap[f].data,
         reports'[f] = reports[f] \/ reports'[f] # <<"ok">>,
         f \in fileInfos' => f \in fileInfos,
         heap[f].kind = "receive" /\ heap[f].socket # NULL /\ peer[heap[f].socket] # NULL =>
           /\ peer'[heap[f].socket] # NULL
           /\ peer'[heap[f].socket].hash = peer[heap[f].socket].hash
           /\ peer'[heap[f].socket].size = peer[heap[f].socket].size
           /\ f \in fileInfos => peer'[heap[f].socket].read = peer[heap[f].socket].read
  PROVE  FileContents(f)'
BY DEF FileContents

(* Another object changes, or one that is not a received file.             *)
LEMMA ContentsOther ==
  ASSUME NEW f \in File, FileContents(f),
         heap'[f] = heap[f] \/ heap'[f].kind # "receive",
         reports'[f] = reports[f], f \in fileInfos' => f \in fileInfos, UNCHANGED peer
  PROVE  FileContents(f)'
BY DEF FileContents

(* A handler is called, with "ok" only if what was received is whole.      *)
LEMMA ContentsReports ==
  ASSUME TypeOK, Ledger, Contents, handlers = << >>, NEW f \in fileInfos, NEW m, NEW from, NEW s,
         CallHandler(f, m, from, s), UNCHANGED <<fileInfos, peer>>,
         \A g \in File \ {f} : heap'[g] = heap[g],
         IF heap[f].kind = "receive" THEN heap'[f] = heap[f] ELSE heap'[f].kind # "receive",
         heap[f].kind = "receive" =>
           \/ m # "ok"
           \/ /\ heap[f].socket # NULL
              /\ heap[f].data = Units(heap[f].socket, peer[heap[f].socket].size)
  PROVE  Contents'
<1>1. f \in File /\ reports[f] = << >>
  BY Quiet DEF TypeOK, Ledger
<1>2. reports'[f] = <<m>> /\ \A g \in File \ {f} : reports'[g] = reports[g]
  BY <1>1 DEF CallHandler, TypeOK
<1>3. m # "ok" => <<m>> # <<"ok">>
  OBVIOUS
<1>4. ASSUME NEW g \in File, g # f PROVE FileContents(g)'
  BY <1>2, <1>4, ContentsOther DEF Contents
<1>5. FileContents(f)'
  <2>1. CASE heap[f].kind # "receive"
    BY <2>1 DEF FileContents
  <2>2. CASE heap[f].kind = "receive"
    BY <1>1, <1>2, <1>3, <2>2 DEF Contents, FileContents
  <2> QED BY <2>1, <2>2
<1> QED BY <1>4, <1>5 DEF Contents

LEMMA ContentsDeleted ==
  ASSUME TypeOK, Contents, NEW f \in File, DeleteFileInfo(f), UNCHANGED <<peer, reports>>
  PROVE  Contents'
<1> SUFFICES ASSUME NEW g \in File PROVE FileContents(g)'
  BY DEF Contents
<1>1. FileContents(g)
  BY DEF Contents
<1>2. g \in fileInfos' => g \in fileInfos
  BY DEF DeleteFileInfo
<1>3. /\ heap'[g].kind = heap[g].kind /\ heap'[g].socket = heap[g].socket
      /\ heap'[g].hash = heap[g].hash /\ heap'[g].size = heap[g].size
      /\ heap'[g].data = heap[g].data
  <2>1. CASE g = f
    BY <2>1 DEF DeleteFileInfo, TypeOK, Object
  <2>2. CASE g # f
    BY <2>2 DEF DeleteFileInfo, TypeOK
  <2> QED BY <2>1, <2>2
<1> QED BY <1>1, <1>2, <1>3, ContentsKept

(* callback_on_error or EOF for the object f of s                          *)
LEMMA ContentsEnds ==
  ASSUME TypeOK, Ledger, Pointers, Contents, handlers = << >>, NEW s \in Sock, NEW f \in File,
         f = userdata[s], f # NULL, NEW m, NEW from, NEW st, Ends(f, m, from, s, st),
         UNCHANGED <<next, peer, node>>,
         heap[f].kind = "receive" =>
           \/ m # "ok"
           \/ /\ heap[f].socket # NULL
              /\ heap[f].data = Units(heap[f].socket, peer[heap[f].socket].size)
  PROVE  Contents'
<1>1. CASE HasHandler(f)
  <2>1. f \in fileInfos
    BY <1>1, AttachedFacts DEF HasHandler, Attached, FileOf
  <2>2. CallHandler(f, m, from, s) /\ UNCHANGED <<heap, fileInfos, peer>>
    BY <1>1 DEF Ends
  <2> QED BY <2>1, <2>2, ContentsReports
<1>2. CASE ~HasHandler(f)
  BY <1>2, ContentsDeleted DEF Ends, Drop
<1> QED BY <1>1, <1>2

LEMMA ContentsError ==
  ASSUME TypeOK, Ledger, Pointers, Contents, handlers = << >>, NEW s \in Sock, NEW from, NEW st,
         OnError(s, from, st)
  PROVE  Contents'
<1>1. CASE userdata[s] = NULL
  <2>1. UNCHANGED <<heap, fileInfos, reports, peer>>
    BY <1>1 DEF OnError
  <2> QED BY <2>1, ContentsOther DEF Contents
<1>2. CASE userdata[s] # NULL
  <2>1. PICK f \in File : f = userdata[s]
    BY <1>2, AttachedFacts
  <2>2. \E m : Ends(f, m, from, s, st) /\ m # "ok"
    BY <1>2, <2>1 DEF OnError
  <2>3. UNCHANGED <<next, peer, node>>
    BY DEF OnError
  <2> QED BY <1>2, <2>1, <2>2, <2>3, ContentsEnds
<1> QED BY <1>1, <1>2

LEMMA ContentsStopHash ==
  ASSUME TypeOK, Ledger, Contents, handlers = << >>, NEW h \in Hash, StopHash(h) PROVE Contents'
<1>1. PICK f \in File : f = FindFileInfo(h) /\ f \in fileInfos
  BY FindFileInfoFinds DEF StopHash, TypeOK
<1>2. \E m : CallHandler(f, m, "stop_hash", NULL) /\ m # "ok"
  <2>1. CallHandler(f, "stopped by user", "stop_hash", NULL)
    BY <1>1 DEF StopHash
  <2>2. "stopped by user" # "ok"
    OBVIOUS
  <2> QED BY <2>1, <2>2
<1>3. UNCHANGED <<heap, fileInfos, peer>>
  BY DEF StopHash
<1> QED BY <1>1, <1>2, <1>3, ContentsReports

LEMMA UnitsLen == ASSUME NEW s, NEW n \in Nat PROVE Len(Units(s, n)) = n
BY DEF Units

LEMMA UnitsJoin ==
  ASSUME NEW s \in Sock, NEW k \in Nat, NEW n \in Nat
  PROVE  Units(s, k) \o [i \in 1..n |-> <<s, k + i>>] = Units(s, k + n)
<1> DEFINE a == Units(s, k)
           b == [i \in 1..n |-> <<s, k + i>>]
           c == Units(s, k + n)
           d == a \o b
<1>1. a \in Seq(Unit) /\ b \in Seq(Unit) /\ c \in Seq(Unit)
  BY DEF Units, Unit
<1>2. Len(a) = k /\ Len(b) = n /\ Len(c) = k + n
  BY DEF Units
<1>3. \A i \in 1..k : a[i] = <<s, i>>
  BY DEF Units
<1>4. \A i \in 1..n : b[i] = <<s, k + i>>
  OBVIOUS
<1>5. \A i \in 1..(k + n) : c[i] = <<s, i>>
  BY DEF Units
<1> HIDE DEF a, b, c
<1>6. /\ d \in Seq(Unit) /\ Len(d) = k + n
      /\ \A i \in 1..(k + n) : d[i] = IF i <= k THEN a[i] ELSE b[i - k]
  BY <1>1, <1>2, ConcatProperties
<1> HIDE DEF d
<1>7. ASSUME NEW i \in 1..(k + n) PROVE d[i] = c[i]
  <2>1. d[i] = IF i <= k THEN a[i] ELSE b[i - k]
    BY <1>6
  <2>2. i \in Nat /\ i >= 1 /\ i <= k + n
    OBVIOUS
  <2>3. CASE i <= k
    BY <1>3, <1>5, <2>1, <2>2, <2>3
  <2>4. CASE i > k
    <3>1. i - k \in 1..n /\ k + (i - k) = i /\ ~(i <= k)
      BY <2>2, <2>4
    <3> QED BY <1>4, <1>5, <2>1, <3>1
  <2> QED BY <2>2, <2>3, <2>4
<1>8. d = c
  BY <1>1, <1>2, <1>6, <1>7
<1> QED BY <1>8 DEF a, b, c, d

(* EOF: "ok" goes with a file as long as its header said.                  *)
LEMMA ContentsEof ==
  ASSUME TypeOK, Ledger, Pointers, Contents, handlers = << >>, NEW s \in Sock, OnEof(s)
  PROVE  Contents'
<1>1. CASE userdata[s] = NULL
  <2>1. UNCHANGED <<heap, fileInfos, reports, peer>>
    BY <1>1 DEF OnEof
  <2> QED BY <2>1, ContentsOther DEF Contents
<1>2. CASE userdata[s] # NULL
  <2>1. PICK f \in File : f = userdata[s]
    BY <1>2, AttachedFacts
  <2>2. \E m : Ends(f, m, "eof", s, "GOT_FIN") /\ (m # "ok" \/ IsCompleted(heap[f]))
    <3>1. Ends(f, IF IsCompleted(heap[f]) THEN "ok" ELSE "disconnected from peer", "eof", s, "GOT_FIN")
      BY <1>2, <2>1 DEF OnEof
    <3>2. "disconnected from peer" # "ok"
      OBVIOUS
    <3>3. CASE IsCompleted(heap[f])
      BY <3>1, <3>3
    <3>4. CASE ~IsCompleted(heap[f])
      BY <3>1, <3>2, <3>4
    <3> QED BY <3>3, <3>4
  <2>3. UNCHANGED <<next, peer, node>>
    BY DEF OnEof
  <2>4. ASSUME heap[f].kind = "receive", IsCompleted(heap[f])
        PROVE  /\ heap[f].socket # NULL
               /\ heap[f].data = Units(heap[f].socket, peer[heap[f].socket].size)
    <3>1. FileOf(s, heap[f])
      BY <1>2, <2>1, <2>4, AttachedFacts DEF Attached
    <3>2. /\ heap[f].socket = s /\ peer[s] # NULL /\ peer[s].hash = heap[f].hash
          /\ peer[s].size = heap[f].size /\ peer[s].read >= HeaderLen
          /\ heap[f].data = Units(s, peer[s].read - HeaderLen)
      BY <2>1, <2>4, <3>1, NullFacts DEF NilFacts, FileOf, Contents, FileContents
    <3>3. peer[s].read - HeaderLen \in Nat
      <4>1. peer[s] \in Stream
        BY <3>2 DEF TypeOK
      <4> QED BY <3>2, <4>1, HeaderAssumption DEF Stream
    <3>4. Len(heap[f].data) = heap[f].size
      BY <2>4 DEF IsCompleted
    <3> QED BY <3>2, <3>3, <3>4, UnitsLen, NullFacts DEF NilFacts
  <2> QED BY <1>2, <2>1, <2>2, <2>3, <2>4, ContentsEnds
<1> QED BY <1>1, <1>2

LEMMA ContentsSendBytes ==
  ASSUME TypeOK, Ledger, Pointers, Contents, NEW s \in Sock, NEW n \in Nat, userdata[s] # NULL,
         conn[s] \in {"SYN_SENT", "CONNECTED_FULL"}, SendBytes(s, userdata[s], n)
  PROVE  Contents'
<1>1. PICK f \in File : f = userdata[s]
  BY AttachedFacts
<1> DEFINE sent == [heap[f] EXCEPT !.pos = @ + n]
<1>2. heap[f].kind # "receive" /\ heap[f] \in Object
  BY <1>1, AttachedFacts DEF Pointers, StreamsOK, Attached, FileOf, TypeOK
<1>3. sent \in Object /\ sent.kind # "receive"
  BY <1>2, AdvancedObject DEF Object
<1>4. heap' = [heap EXCEPT ![f] = sent] /\ UNCHANGED <<fileInfos, peer>>
  BY <1>1 DEF SendBytes
<1>5. \A g \in File \ {f} : reports'[g] = reports[g]
  BY <1>1 DEF SendBytes, CallHandler, TypeOK
<1> HIDE DEF sent
<1>6. heap'[f].kind # "receive" /\ \A g \in File \ {f} : heap'[g] = heap[g]
  BY <1>3, <1>4 DEF TypeOK
<1>7. ASSUME NEW g \in File, g # f PROVE FileContents(g)'
  BY <1>4, <1>5, <1>6, <1>7, ContentsOther DEF Contents
<1>8. FileContents(f)'
  BY <1>6 DEF FileContents
<1> QED BY <1>7, <1>8 DEF Contents

(* The stream of s goes on; the files of the other streams do not change.  *)
LEMMA ContentsAdvance ==
  ASSUME TypeOK, Pointers, NEW s \in Sock, NEW n \in Nat, peer[s] # NULL, Advance(s, n),
         NEW g \in File, FileContents(g), heap'[g] = heap[g],
         g \in fileInfos => userdata[s] # g, UNCHANGED <<fileInfos, reports>>
  PROVE  FileContents(g)'
<1>1. heap[g].socket = s => g \notin fileInfos
  BY NullAssumption DEF Pointers, ListOK
<1>2. /\ peer'[s] # NULL /\ peer'[s].hash = peer[s].hash /\ peer'[s].size = peer[s].size
      /\ \A t \in Sock \ {s} : peer'[t] = peer[t]
  BY AdvanceFacts
<1>3. heap[g].socket \in Sock \cup {NULL}
  BY DEF TypeOK, Object
<1> QED BY <1>1, <1>2, <1>3, ContentsKept

LEMMA ContentsReadHeader ==
  ASSUME TypeOK, Ledger, Pointers, Contents, handlers = << >>, NEW s \in Sock, NEW n \in Nat,
         ReadHeader(s, n) \/ RejectFile(s, n)
  PROVE  Contents'
<1>1. ReadingHeader(s, n) /\ UNCHANGED <<fileInfos, reports>>
  BY DEF ReadHeader, RejectFile
<1>2. PICK a \in File : a = HeaderAddress(s)
  BY <1>1, ReadingHeaderFacts
<1>3. /\ peer[s] # NULL /\ Advance(s, n) /\ userdata[s] \notin fileInfos
      /\ HeaderObject(s) \in Object /\ HeaderObject(s).kind = "unknown"
  BY <1>1, ReadingHeaderFacts
<1>4. heap'[a].kind = "unknown" /\ \A g \in File \ {a} : heap'[g] = heap[g]
  <2>1. CASE ReadHeader(s, n)
    <3>1. heap' = [heap EXCEPT ![a] = [HeaderObject(s) EXCEPT !.pos = @ + n]]
      BY <1>2, <2>1 DEF ReadHeader
    <3>2. [HeaderObject(s) EXCEPT !.pos = @ + n].kind = "unknown"
      BY <1>3 DEF Object
    <3> QED BY <3>1, <3>2 DEF TypeOK
  <2>2. CASE RejectFile(s, n)
    <3>1. heap' = [heap EXCEPT ![a] = [HeaderObject(s) EXCEPT !.live = FALSE, !.pos = HeaderLen]]
      BY <1>2, <2>2 DEF RejectFile
    <3>2. [HeaderObject(s) EXCEPT !.live = FALSE, !.pos = HeaderLen].kind = "unknown"
      BY <1>3 DEF Object
    <3> QED BY <3>1, <3>2 DEF TypeOK
  <2> QED BY <2>1, <2>2
<1>5. ASSUME NEW g \in File, g # a PROVE FileContents(g)'
  BY <1>1, <1>3, <1>4, <1>5, ContentsAdvance DEF Contents
<1>6. FileContents(a)'
  BY <1>4 DEF FileContents
<1> QED BY <1>5, <1>6 DEF Contents

(* What came with the end of the header is the beginning of the file.      *)
LEMMA ContentsBindFile ==
  ASSUME TypeOK, Ledger, Pointers, Contents, handlers = << >>, NEW s \in Sock, NEW n \in Nat, BindFile(s, n)
  PROVE  Contents'
<1>1. ReadingHeader(s, n) /\ UNCHANGED <<fileInfos, reports>>
  BY DEF BindFile
<1> DEFINE o == HeaderObject(s)
           rest == n - (HeaderLen - o.pos)
<1>2. PICK a \in File : a = HeaderAddress(s)
  BY <1>1, ReadingHeaderFacts
<1>3. PICK f \in File : f = FindFileInfo(o.hash)
  BY FindFileInfoFinds DEF BindFile, Registered, TypeOK
<1> DEFINE bound == [heap[f] EXCEPT !.size = o.size, !.socket = s,
                       !.data = @ \o Body(s, peer[s].read + n - rest, rest)]
<1>4. /\ peer[s] # NULL /\ Advance(s, n) /\ userdata[s] \notin fileInfos /\ a \notin fileInfos
      /\ o \in Object /\ o.kind = "unknown" /\ HeaderOf(s, o)
  BY <1>1, <1>2, ReadingHeaderFacts
<1>5. /\ f \in fileInfos /\ heap[f].kind = "receive" /\ heap[f].hash = peer[s].hash
      /\ heap[f].socket = NULL /\ f # a
  BY <1>3, <1>4, BoundIsFree
<1>6. /\ heap' = [g \in File |-> CASE g = f -> bound
                                  [] g = a -> [o EXCEPT !.live = FALSE, !.pos = HeaderLen]
                                  [] OTHER -> heap[g]]
      /\ rest >= 0
  BY <1>2, <1>3 DEF BindFile
<1>7. [o EXCEPT !.live = FALSE, !.pos = HeaderLen].kind = "unknown"
  BY <1>4 DEF Object
<1>8. /\ heap'[f] = bound /\ heap'[a].kind = "unknown"
      /\ \A g \in File \ {f, a} : heap'[g] = heap[g]
  <2> HIDE DEF bound, o
  <2> QED BY <1>5, <1>6, <1>7
<1>9. ASSUME NEW g \in File, g # f, g # a PROVE FileContents(g)'
  BY <1>1, <1>4, <1>8, <1>9, ContentsAdvance DEF Contents
<1>10. FileContents(a)'
  BY <1>8 DEF FileContents
<1>11. FileContents(f)'
  <2>1. peer[s] \in Stream /\ heap[f] \in Object
    BY <1>4 DEF TypeOK
  <2>2. peer[s].read \in Nat /\ rest \in Nat /\ peer[s].read + n - rest = HeaderLen
    BY <1>4, <1>6, <2>1, HeaderAssumption DEF HeaderOf, Stream
  <2>3. Body(s, HeaderLen, rest) = Units(s, rest)
    <3>1. \A i \in 1..rest : HeaderLen + i - HeaderLen = i
      BY <2>2, HeaderAssumption
    <3> QED BY <3>1 DEF Body, Units
  <2>4. heap[f].data = << >>
    BY <1>5 DEF Contents, FileContents
  <2>5. << >> \o Units(s, rest) = Units(s, rest)
    <3>1. Units(s, rest) \in Seq(Unit)
      BY <2>2 DEF Units, Unit
    <3> QED BY <3>1
  <2>6. /\ bound.kind = "receive" /\ bound.socket = s /\ bound.hash = heap[f].hash
        /\ bound.size = o.size /\ bound.data = Units(s, rest)
    <3>1. heap[f].data \o Body(s, peer[s].read + n - rest, rest) = Units(s, rest)
      BY <2>2, <2>3, <2>4, <2>5
    <3> QED BY <1>5, <2>1, <3>1 DEF Object
  <2>7. o.size = peer[s].size
    BY <1>4 DEF HeaderOf
  <2>8. /\ peer'[s] # NULL /\ peer'[s].hash = peer[s].hash /\ peer'[s].size = peer[s].size
        /\ peer'[s].read = peer[s].read + n
    BY <1>4, AdvanceFacts
  <2>9. reports'[f] # <<"ok">>
    <3>1. reports'[f] = << >>
      BY <1>1, <1>5, Quiet DEF Ledger
    <3> QED BY <3>1
  <2> HIDE DEF bound, rest, o
  <2>10. peer'[s].read >= HeaderLen /\ peer'[s].read - HeaderLen = rest
    BY <2>2, <2>8, HeaderAssumption
  <2>11. heap'[f].data = Units(s, peer'[s].read - HeaderLen)
    BY <1>8, <2>6, <2>10
  <2> QED BY <1>5, <1>8, <2>6, <2>7, <2>8, <2>9, <2>10, <2>11, NullAssumption DEF FileContents
<1> QED BY <1>9, <1>10, <1>11 DEF Contents

LEMMA ContentsReadBody ==
  ASSUME TypeOK, Ledger, Pointers, Contents, handlers = << >>, NEW s \in Sock, NEW n \in Nat, ReadBody(s, n)
  PROVE  Contents'
<1>1. /\ peer[s] # NULL /\ Advance(s, n) /\ userdata[s] # NULL
      /\ heap[userdata[s]].kind = "receive" /\ UNCHANGED <<fileInfos, userdata, reports>>
  BY DEF ReadBody, Readable
<1>2. PICK f \in File : f = userdata[s]
  BY <1>1, AttachedFacts
<1> DEFINE got == peer[s].read - HeaderLen
           o == [heap[f] EXCEPT !.data = @ \o Body(s, peer[s].read, n)]
<1>3. heap' = [heap EXCEPT ![f] = o]
  BY <1>2 DEF ReadBody
<1>4. heap'[f] = o /\ \A g \in File \ {f} : heap'[g] = heap[g]
  BY <1>3 DEF TypeOK
<1>5. ASSUME NEW g \in File, g # f PROVE FileContents(g)'
  BY <1>1, <1>2, <1>4, <1>5, ContentsAdvance DEF Contents
<1>6. FileContents(f)'
  <2>1. f \in fileInfos /\ heap[f].socket = s /\ heap[f].kind = "receive"
    BY <1>1, <1>2, AttachedFacts DEF Attached, FileOf
  <2>2. /\ peer[s].hash = heap[f].hash /\ peer[s].size = heap[f].size
        /\ peer[s].read >= HeaderLen /\ heap[f].data = Units(s, got)
    BY <2>1, NullAssumption DEF Contents, FileContents
  <2>3. peer[s] \in Stream /\ heap[f] \in Object
    BY <1>1 DEF TypeOK
  <2>4. got \in Nat /\ peer[s].read \in Nat /\ peer[s].read = got + HeaderLen
    BY <2>2, <2>3, HeaderAssumption DEF Stream
  <2>5. Units(s, got) \o Body(s, peer[s].read, n) = Units(s, got + n)
    <3> HIDE DEF got
    <3>1. Body(s, peer[s].read, n) = [i \in 1..n |-> <<s, got + i>>]
      <4>1. \A i \in 1..n : peer[s].read + i - HeaderLen = got + i
        BY <2>4, HeaderAssumption
      <4> QED BY <4>1 DEF Body
    <3> QED BY <2>4, <3>1, UnitsJoin
  <2>6. /\ o.kind = "receive" /\ o.socket = s /\ o.hash = heap[f].hash /\ o.size = heap[f].size
        /\ o.data = Units(s, got + n)
    BY <2>1, <2>2, <2>3, <2>5 DEF Object
  <2>7. /\ peer'[s] # NULL /\ peer'[s].hash = peer[s].hash /\ peer'[s].size = peer[s].size
        /\ peer'[s].read = peer[s].read + n
    BY <1>1, AdvanceFacts
  <2>8. reports'[f] # <<"ok">>
    <3>1. reports'[f] = << >>
      BY <1>1, <2>1, Quiet DEF Ledger
    <3> QED BY <3>1
  <2> HIDE DEF got, o
  <2>9. peer'[s].read >= HeaderLen /\ peer'[s].read - HeaderLen = got + n
    BY <2>4, <2>7, HeaderAssumption
  <2> QED BY <1>4, <2>2, <2>6, <2>7, <2>8, <2>9, NullAssumption DEF FileContents
<1> QED BY <1>5, <1>6 DEF Contents

LEMMA ContentsNew ==
  ASSUME TypeOK, Ledger, Contents, next \in File, NEW o \in Object,
         o.kind = "receive" => o.socket = NULL /\ o.data = << >>,
         heap' = [heap EXCEPT ![next] = o], fileInfos' = fileInfos \cup {next},
         UNCHANGED <<peer, reports>>
  PROVE  Contents'
<1>1. PICK f \in File : f = next
  OBVIOUS
<1>2. heap'[f] = o /\ reports'[f] = << >> /\ \A g \in File \ {f} : heap'[g] = heap[g]
  BY <1>1, BoundAssumption DEF Ledger, TypeOK
<1>3. ASSUME NEW g \in File, g # f PROVE FileContents(g)'
  <2>1. heap'[g] = heap[g] /\ reports'[g] = reports[g] /\ (g \in fileInfos' => g \in fileInfos)
    BY <1>1, <1>2, <1>3
  <2> QED BY <2>1, ContentsOther DEF Contents
<1>4. FileContents(f)'
  BY <1>2 DEF FileContents
<1> QED BY <1>3, <1>4 DEF Contents

LEMMA ContentsStep ==
  ASSUME TypeOK, Ledger, Pointers, Contents, handlers = << >>, Acting PROVE Contents'
<1>1. CASE Destruct
  <2> SUFFICES ASSUME NEW f \in File PROVE FileContents(f)'
    BY DEF Contents
  <2>1. heap'[f] = IF f \in fileInfos THEN [heap[f] EXCEPT !.live = FALSE] ELSE heap[f]
    BY <1>1 DEF Destruct
  <2>2. /\ heap'[f].kind = heap[f].kind /\ heap'[f].socket = heap[f].socket
        /\ heap'[f].hash = heap[f].hash /\ heap'[f].size = heap[f].size
        /\ heap'[f].data = heap[f].data
    BY <2>1 DEF TypeOK, Object
  <2>3. fileInfos' = {} /\ UNCHANGED <<peer, reports>>
    BY <1>1 DEF Destruct
  <2> QED BY <2>2, <2>3, ContentsKept DEF Contents
<1>2. ASSUME NEW h \in Hash, RegistHash(h) PROVE Contents'
  <2> DEFINE o == NewObject("receive", h, NULL, 0)
  <2>1. o \in Object /\ o.socket = NULL /\ o.data = << >>
    BY NewObjectType DEF NewObject
  <2>2. /\ next \in File /\ heap' = [heap EXCEPT ![next] = o]
        /\ fileInfos' = fileInfos \cup {next} /\ UNCHANGED <<peer, reports>>
    BY <1>2 DEF RegistHash
  <2> HIDE DEF o
  <2> QED BY <2>1, <2>2, ContentsNew
<1>3. ASSUME NEW h \in Hash, StopHash(h) PROVE Contents'
  BY <1>3, ContentsStopHash
<1>4. ASSUME NEW h \in Hash, NEW s \in Sock, NEW size \in 0..MaxSize, SendFile(h, s, size)
      PROVE Contents'
  <2> DEFINE o == NewObject("send", h, s, size)
  <2>1. o \in Object /\ o.kind # "receive"
    BY HeaderAssumption, NewObjectType DEF NewObject
  <2>2. /\ next \in File /\ heap' = [heap EXCEPT ![next] = o]
        /\ fileInfos' = fileInfos \cup {next} /\ UNCHANGED <<peer, reports>>
    BY <1>4 DEF SendFile
  <2> HIDE DEF o
  <2> QED BY <2>1, <2>2, ContentsNew
<1>5. ASSUME NEW h \in Hash, NEW s \in Sock, NEW size \in 0..MaxSize,
             NEW total \in 0..(HeaderLen + size), OnAccept(s, h, size, total)
      PROVE Contents'
  <2> SUFFICES ASSUME NEW f \in File PROVE FileContents(f)'
    BY DEF Contents
  <2>1. peer[s] = NULL /\ UNCHANGED <<heap, fileInfos, reports>>
    BY <1>5 DEF OnAccept, Pointers, StreamsOK
  <2>2. \A t \in Sock \ {s} : peer'[t] = peer[t]
    BY <1>5 DEF OnAccept, TypeOK
  <2>3. heap[f].socket \in Sock \cup {NULL}
    BY DEF TypeOK, Object
  <2> QED BY <2>1, <2>2, <2>3, ContentsKept DEF Contents
<1>6. ASSUME NEW s \in Sock, OnConnect(s) \/ OnWritable(s) PROVE Contents'
  <2>1. /\ userdata[s] # NULL /\ conn[s] \in {"SYN_SENT", "CONNECTED_FULL"}
    BY <1>6 DEF OnConnect, OnWritable, OnWindow
  <2>2. \E n \in Nat : SendBytes(s, userdata[s], n)
    BY <1>6, HeaderAssumption DEF OnConnect, OnWritable, OnWindow
  <2> QED BY <2>1, <2>2, ContentsSendBytes
<1>7. ASSUME NEW s \in Sock, OnEof(s) PROVE Contents'
  BY <1>7, ContentsEof
<1>8. ASSUME NEW s \in Sock, OnReset(s) \/ OnTimeout(s) PROVE Contents'
  BY <1>8, ContentsError DEF OnReset, OnTimeout
<1>9. ASSUME NEW s \in Sock, FinAcked(s) \/ Reap(s) \/ DelayOver(s) PROVE Contents'
  <2>1. UNCHANGED <<heap, fileInfos, reports, peer>>
    BY <1>9 DEF FinAcked, Reap, DelayOver
  <2> QED BY <2>1, ContentsOther DEF Contents
<1>10. ASSUME NEW s \in Sock, NEW n \in 1..(HeaderLen + MaxSize),
              ReadBody(s, n) \/ ReadHeader(s, n) \/ BindFile(s, n) \/ RejectFile(s, n)
       PROVE Contents'
  <2>1. n \in Nat
    BY HeaderAssumption
  <2> QED BY <1>10, <2>1, ContentsReadBody, ContentsReadHeader, ContentsBindFile
<1> QED BY <1>1, <1>2, <1>3, <1>4, <1>5, <1>6, <1>7, <1>8, <1>9, <1>10 DEF Acting

LEMMA ContentsNext ==
  ASSUME HandlersKeepOut PROVE TypeOK /\ Ledger /\ PInv /\ Contents /\ [Next]_vars => Contents'
<1> SUFFICES ASSUME TypeOK, Ledger, PInv, Contents, [Next]_vars PROVE Contents'
  OBVIOUS
<1>1. CASE Acting
  BY <1>1, ActingAlone, ContentsStep DEF PInv
<1>2. CASE HandlerReturns
  <2>1. Head(handlers).file \in File
    BY <1>2, Returned DEF Ledger, Frame
  <2>2. DeleteFileInfo(Head(handlers).file) /\ UNCHANGED <<peer, reports>>
    BY <1>2 DEF HandlerReturns, Drop
  <2> QED BY <2>1, <2>2, ContentsDeleted
<1>3. CASE UseAfterFree \/ UNCHANGED vars
  <2>1. UNCHANGED <<heap, fileInfos, reports, peer>>
    BY <1>3 DEF UseAfterFree, vars
  <2> QED BY <2>1, ContentsOther DEF Contents
<1> QED BY <1>1, <1>2, <1>3, NextActs

(* A file reported as received is the whole file of one peer, unit by unit *)
(* (fwrite in callback_on_read, isCompleted at EOF), with peers that       *)
(* behave and handlers that call no method.                                *)
THEOREM ReceivedFileIsWhole == ASSUME PeersBehave, HandlersKeepOut PROVE Spec => []WholeFile
<1>1. Contents => WholeFile
  BY ContentsWhole
<1>2. TypeOK /\ Ledger /\ PInv /\ [Next]_vars => PInv'
  BY PointersNext
<1> QED BY <1>1, <1>2, TypeInit, TypeNext, LedgerInit, LedgerNext, PointersInit, ContentsInit,
           ContentsNext, PTL DEF Spec
=============================================================================

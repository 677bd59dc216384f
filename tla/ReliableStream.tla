--------------------------- MODULE ReliableStream ---------------------------
(***************************************************************************)
(* What a uTP connection promises the two applications at its ends         *)
(* ("reliable, ordered delivery", libutp/README.md), seen through the      *)
(* calls and callbacks of libutp/utp.h: utp_write, utp_close, on_read, the *)
(* state change EOF, and on_error.  Module UtpStream implements it.        *)
(***************************************************************************)
EXTENDS Naturals, Sequences

CONSTANTS
  End,     \* the two ends
  Amount   \* [End -> bytes an end can write]

VARIABLES
  written,  \* [End -> bytes the application has written]
  read,     \* [End -> the bytes on_read was given]
  eof,      \* [End -> BOOLEAN]: EOF was posted
  status    \* [End -> "open", "closed" by its application, "done" once the
            \* socket is gone in good order, "failed" after an on_error]

Other(e) == CHOOSE f \in End : f # e

Stream(n) == [i \in 1..n |-> i]

Init ==
  /\ written = [e \in End |-> 0]
  /\ read = [e \in End |-> << >>]
  /\ eof = [e \in End |-> FALSE]
  /\ status = [e \in End |-> "open"]

(* An open end writes more, and may then close.                            *)
Writes(e) ==
  \E n \in written[e]..Amount[e] : written' = [written EXCEPT ![e] = n]

(* An open end reads on in what its peer wrote, no byte twice or out of    *)
(* order, ...                                                              *)
Reads(e) ==
  \E n \in Len(read[e])..written[Other(e)] : read' = [read EXCEPT ![e] = Stream(n)]

(* ... is told EOF only when the peer has closed and everything was read,  *)
(* and then closes.                                                        *)
Ends(e) ==
  /\ status[Other(e)] # "open"
  /\ read'[e] = Stream(written[Other(e)])
  /\ eof' = [eof EXCEPT ![e] = TRUE]
  /\ status' = [status EXCEPT ![e] = "closed"]

Talk(e) ==
  /\ status[e] = "open"
  /\ Writes(e) /\ Reads(e)
  /\ \/ eof' = eof /\ \E st \in {"open", "closed"} : status' = [status EXCEPT ![e] = st]
     \/ Ends(e)

(* A closed end is done when the peer has read everything, or has closed   *)
(* without reading everything, or when it had the EOF itself.              *)
Done(e) ==
  /\ status[e] = "closed"
  /\ \/ read[Other(e)] = Stream(written[e])
     \/ status[Other(e)] # "open" \/ eof[e]
  /\ status' = [status EXCEPT ![e] = "done"]
  /\ UNCHANGED <<written, read, eof>>

Fail(e) ==
  /\ status' = [status EXCEPT ![e] = "failed"]
  /\ UNCHANGED <<written, read, eof>>

Next == \E e \in End : Talk(e) \/ Done(e) \/ Fail(e)

Spec == Init /\ [][Next]_<<written, read, eof, status>>
=============================================================================

-------------------------- MODULE SocketDirectory --------------------------
(***************************************************************************)
(* What a utp_context promises of its sockets, whatever table and lists it *)
(* keeps them in: one socket for a key; acks that are due are sent when    *)
(* they are issued; a pass over the sockets comes to each that is there    *)
(* from its start to its end exactly once, to none that is gone, and       *)
(* deletes those that are over; a context that is destroyed leaves nothing *)
(* behind.  Module UtpContext implements it.                               *)
(***************************************************************************)
CONSTANTS Sock, Key, NULL

VARIABLES
  directory,  \* the pairs of a key and its socket
  due,        \* the sockets whose ack is put off
  over,       \* the sockets that the next pass deletes
  phase,      \* "idle", "acks", "pass", "closing" or "closed"
  todo,       \* the sockets a pass has still to come to
  visiting    \* the socket a pass is at, or NULL

Live == {p[2] : p \in directory}

Init ==
  /\ directory = {} /\ due = {} /\ over = {} /\ phase = "idle" /\ todo = {} /\ visiting = NULL

(* The application and the peers do something between two steps of the     *)
(* context, or in a callback of the pass.                                  *)
Busy == phase = "idle" \/ visiting # NULL

(* A socket made during a pass may or may not be come to.                  *)
Open(k, s) ==
  /\ Busy /\ \A p \in directory : p[1] # k /\ p[2] # s
  /\ directory' = directory \cup {<<k, s>>}
  /\ todo' \in IF phase = "pass" THEN {todo, todo \cup {s}} ELSE {todo}
  /\ UNCHANGED <<due, over, phase, visiting>>

PutOff(s) == due' = due \cup {s} /\ UNCHANGED over
Sent(s)   == due' = due \ {s} /\ UNCHANGED over
End(s)    == over' = over \cup {s} /\ UNCHANGED due

Use(s) ==
  /\ Busy /\ s \in Live
  /\ PutOff(s) \/ Sent(s) \/ End(s)
  /\ UNCHANGED <<directory, phase, todo, visiting>>

IssueAcks ==
  /\ phase = "idle" /\ phase' = "acks"
  /\ UNCHANGED <<directory, due, over, todo, visiting>>

Ack(s) ==
  /\ phase = "acks" /\ s \in due /\ Sent(s)
  /\ UNCHANGED <<directory, phase, todo, visiting>>

(* Acks are issued until none is due.                                      *)
EndAcks ==
  /\ phase = "acks" /\ due = {}
  /\ \/ phase' = "idle" /\ UNCHANGED todo
     \/ phase' = "pass" /\ todo' = Live
  /\ UNCHANGED <<directory, due, over, visiting>>

Start(p) ==
  /\ phase = "idle" /\ phase' = p /\ todo' = Live
  /\ UNCHANGED <<directory, due, over, visiting>>

Forget(s) ==
  /\ directory' = {p \in directory : p[2] # s}
  /\ due' = due \ {s}
  /\ over' = over \ {s}

Visit(s) ==
  /\ phase = "pass" /\ visiting = NULL /\ s \in todo
  /\ visiting' = s /\ todo' = todo \ {s}
  /\ UNCHANGED <<directory, due, over, phase>>

Leave ==
  /\ visiting # NULL /\ visiting' = NULL
  /\ IF visiting \in over THEN Forget(visiting) ELSE UNCHANGED <<directory, due, over>>
  /\ UNCHANGED <<phase, todo>>

EndPass ==
  /\ phase = "pass" /\ visiting = NULL /\ todo = {} /\ phase' = "idle"
  /\ UNCHANGED <<directory, due, over, todo, visiting>>

Free(s) ==
  /\ phase = "closing" /\ s \in todo
  /\ Forget(s) /\ todo' = todo \ {s}
  /\ UNCHANGED <<phase, visiting>>

Closed ==
  /\ phase = "closing" /\ directory = {} /\ phase' = "closed"
  /\ UNCHANGED <<directory, due, over, todo, visiting>>

Next ==
  \/ \E s \in Sock : Use(s) \/ Ack(s) \/ Visit(s) \/ Free(s) \/ \E k \in Key : Open(k, s)
  \/ IssueAcks \/ EndAcks \/ Start("pass") \/ Start("closing")
  \/ Leave \/ EndPass \/ Closed

Spec == Init /\ [][Next]_<<directory, due, over, phase, todo, visiting>>
=============================================================================

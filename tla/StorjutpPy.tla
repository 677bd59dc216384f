----------------------------- MODULE StorjutpPy -----------------------------
(***************************************************************************)
(* The threads around one Storjutp object: class Storjutp of               *)
(* storjutp/storjutp.py, the loop of Storjutp::start it runs in a thread   *)
(* of its own, and the handlers the loop calls back.                       *)
(*                                                                         *)
(* Nothing in the C++ object is locked.  Every method sets the stop flag,  *)
(* joins the loop thread, calls the object and starts a new loop thread.   *)
(* A step is one Python statement or one test of the flag by the loop; a   *)
(* call of the object and an iteration of the loop take time, so that they *)
(* can overlap.                                                            *)
(***************************************************************************)
EXTENDS Naturals, FiniteSets

CONSTANTS
  Caller,        \* application threads that use the object
  Thread,        \* loop threads; an ended one may be reused
  Serialized,    \* BOOLEAN: one method at a time (the application's locking)
  Raising,       \* BOOLEAN: a call of the object may raise (bad arguments)
  HandlerCalls   \* where a handler may call a method of the object: in the
                 \* "loop", or in the thread of a caller of "stop_hash"

ASSUME FlagAssumption ==
  Serialized \in BOOLEAN /\ Raising \in BOOLEAN /\ HandlerCalls \subseteq {"loop", "stop_hash"}
ASSUME ThreadAssumption == Thread # {} /\ Caller \cap Thread = {}
ASSUME NoneAssumption   == "none" \notin Thread /\ "inner" \notin Caller \cup Thread

VARIABLES
  stopFlag,  \* Storjutp::stopFlag
  thread,    \* self.thread
  loop,      \* [Thread -> where a loop thread is]
  pc,        \* [Agent -> the next statement of the method it is in]
  method,    \* [Agent -> that method]
  joining,   \* [Agent -> the thread it joins]
  cobj,      \* the C++ object: "live" or "freed"
  raised     \* the method that ended last raised an exception, a history

vars == <<stopFlag, thread, loop, pc, method, joining, cobj, raised>>

(* Whoever can be inside a method: a caller, a handler in a loop's thread, *)
(* and a handler in the thread of the caller of stop_hash.                 *)
Agent == Caller \cup Thread \cup {"inner"}

(* send_file looks like regist_hash from here.                             *)
Method == {"regist_hash", "stop_hash", "get_progress", "finalize"}

(* "new": a Thread object not yet started.  "test": at while(!stopFlag).   *)
(* "iterate": between two tests.  "handler": in a Python handler.          *)
LoopState == {"none", "new", "test", "iterate", "handler", "ended"}

PC == {"idle", "set", "join", "joining", "call", "calling", "clear", "assign", "start"}

(* utpbinder.init and __init__: the first loop thread runs.                *)
Init ==
  /\ stopFlag = FALSE
  /\ thread \in Thread
  /\ loop = [t \in Thread |-> IF t = thread THEN "test" ELSE "none"]
  /\ pc = [a \in Agent |-> "idle"]
  /\ method = [a \in Agent |-> "none"]
  /\ joining = [a \in Agent |-> "none"]
  /\ cobj = "live"
  /\ raised = FALSE

-----------------------------------------------------------------------------
(* The methods: regist_hash, send_file, stop_hash, get_progress, finalize. *)

Goto(a, label) == pc' = [pc EXCEPT ![a] = label] /\ UNCHANGED method

Leave(a) == pc' = [pc EXCEPT ![a] = "idle"] /\ method' = [method EXCEPT ![a] = "none"]

Enter(a, m) == pc' = [pc EXCEPT ![a] = "set"] /\ method' = [method EXCEPT ![a] = m]

(* After finalize no method is called any more.                            *)
Finalizing == cobj = "freed" \/ \E a \in Agent : method[a] = "finalize"

Begin(c, m) ==
  /\ pc[c] = "idle" /\ ~Finalizing
  /\ Serialized => \A a \in Caller : pc[a] = "idle"
  /\ Enter(c, m)
  /\ UNCHANGED <<stopFlag, thread, loop, joining, cobj, raised>>

(* Mutant of SetFlag: the loop is not told to stop.                        *)
SetFlag_Untold(a) ==
  /\ pc[a] = "set"
  /\ Goto(a, "join")
  /\ UNCHANGED <<stopFlag, thread, loop, joining, cobj, raised>>

(* utpbinder.set_stopflag(self.cobj, 1)                                    *)
SetFlag(a) ==
  /\ pc[a] = "set"
  /\ stopFlag' = TRUE
  /\ Goto(a, "join")
  /\ UNCHANGED <<thread, loop, joining, cobj, raised>>

(* self.thread.join() raises RuntimeError for the current thread and for   *)
(* one that is not started yet.                                            *)
CannotJoin(a) == thread = a \/ loop[thread] = "new"

Join(a) ==
  /\ pc[a] = "join" /\ ~CannotJoin(a)
  /\ joining' = [joining EXCEPT ![a] = thread]
  /\ Goto(a, "joining")
  /\ UNCHANGED <<stopFlag, thread, loop, cobj, raised>>

(* Mutant of JoinRaises: the error is caught and the method goes on.       *)
JoinRaises_Ignored(a) ==
  /\ pc[a] = "join" /\ CannotJoin(a)
  /\ Goto(a, "call")
  /\ UNCHANGED <<stopFlag, thread, loop, joining, cobj, raised>>

JoinRaises(a) ==
  /\ pc[a] = "join" /\ CannotJoin(a)
  /\ Leave(a)
  /\ raised' = TRUE
  /\ UNCHANGED <<stopFlag, thread, loop, joining, cobj>>

(* Mutant of Joined: the join has a timeout.                               *)
Joined_TimesOut(a) ==
  /\ pc[a] = "joining"
  /\ joining' = [joining EXCEPT ![a] = "none"]
  /\ Goto(a, "call")
  /\ UNCHANGED <<stopFlag, thread, loop, cobj, raised>>

Joined(a) ==
  /\ pc[a] = "joining" /\ loop[joining[a]] = "ended"
  /\ joining' = [joining EXCEPT ![a] = "none"]
  /\ Goto(a, "call")
  /\ UNCHANGED <<stopFlag, thread, loop, cobj, raised>>

(* The binding calls the object holding the interpreter lock: two calls do *)
(* not overlap, unless one is in its handler.                              *)
InHandler(a) == pc["inner"] # "idle" /\ pc[a] = "calling" /\ method[a] = "stop_hash"

HasLock == \A b \in Agent : pc[b] = "calling" => InHandler(b)

CallBegins(a) ==
  /\ pc[a] = "call" /\ HasLock
  /\ Goto(a, "calling")
  /\ UNCHANGED <<stopFlag, thread, loop, joining, cobj, raised>>

(* Mutant of CallEnds: finalize also sets self.cobj to None.               *)
CallEnds_NoObject(a) ==
  /\ pc[a] = "calling" /\ (a # "inner" => ~InHandler(a))
  /\ IF method[a] = "finalize" THEN Leave(a) /\ cobj' = "none"
                               ELSE Goto(a, "clear") /\ UNCHANGED cobj
  /\ UNCHANGED <<stopFlag, thread, loop, joining, raised>>

(* It returns to start_thread(), or finalize is done.                      *)
CallEnds(a) ==
  /\ pc[a] = "calling" /\ (a # "inner" => ~InHandler(a))
  /\ IF method[a] = "finalize" THEN Leave(a) /\ cobj' = "freed"
                               ELSE Goto(a, "clear") /\ UNCHANGED cobj
  /\ UNCHANGED <<stopFlag, thread, loop, joining, raised>>

(* The binding raises before it calls the object (an argument of the wrong *)
(* type, a handler that is not callable); finalize passes none of the      *)
(* application's.  Nothing catches the exception, and start_thread() is    *)
(* not reached.                                                            *)
CallRaises(a) ==
  /\ Raising
  /\ pc[a] = "call" /\ HasLock /\ method[a] # "finalize"
  /\ Leave(a)
  /\ raised' = TRUE
  /\ UNCHANGED <<stopFlag, thread, loop, joining, cobj>>

(* Mutant of ClearFlag: start_thread leaves the flag set.                  *)
ClearFlag_Left(a) ==
  /\ pc[a] = "clear"
  /\ Goto(a, "assign")
  /\ UNCHANGED <<stopFlag, thread, loop, joining, cobj, raised>>

(* start_thread: the flag, the Thread object, its start.                   *)
ClearFlag(a) ==
  /\ pc[a] = "clear"
  /\ stopFlag' = FALSE
  /\ Goto(a, "assign")
  /\ UNCHANGED <<thread, loop, joining, cobj, raised>>

Unused(t) == loop[t] \in {"none", "ended"} /\ t # thread
             /\ \A a \in Agent : pc[a] = "joining" => joining[a] # t

(* Mutant of AssignThread: the Thread object made at first is kept.        *)
AssignThread_Kept(a) ==
  /\ pc[a] = "assign"
  /\ Goto(a, "start")
  /\ UNCHANGED <<stopFlag, thread, loop, joining, cobj, raised>>

AssignThread(a) ==
  /\ pc[a] = "assign"
  /\ \E t \in Thread : Unused(t) /\ thread' = t /\ loop' = [loop EXCEPT ![t] = "new"]
  /\ Goto(a, "start")
  /\ UNCHANGED <<stopFlag, joining, cobj, raised>>

(* self.thread.start(): a thread that was started before raises.           *)
StartThread(a) ==
  /\ pc[a] = "start"
  /\ IF loop[thread] = "new"
     THEN loop' = [loop EXCEPT ![thread] = "test"] /\ raised' = FALSE
     ELSE raised' = TRUE /\ UNCHANGED loop
  /\ Leave(a)
  /\ UNCHANGED <<stopFlag, thread, joining, cobj>>

-----------------------------------------------------------------------------
(* Storjutp::start                                                         *)

LoopTest(t) ==
  /\ loop[t] = "test"
  /\ loop' = [loop EXCEPT ![t] = IF stopFlag THEN "ended" ELSE "iterate"]
  /\ UNCHANGED <<stopFlag, thread, pc, method, joining, cobj, raised>>

(* poll, recvfrom and the libutp calls of one iteration are over.          *)
LoopIterated(t) ==
  /\ loop[t] = "iterate"
  /\ loop' = [loop EXCEPT ![t] = "test"]
  /\ UNCHANGED <<stopFlag, thread, pc, method, joining, cobj, raised>>

(* on_finish of HandlerImpl: the handler runs in the loop's thread ...     *)
HandlerBegins(t) ==
  /\ loop[t] = "iterate"
  /\ loop' = [loop EXCEPT ![t] = "handler"]
  /\ UNCHANGED <<stopFlag, thread, pc, method, joining, cobj, raised>>

(* ... where it may call a method ...                                      *)
HandlerMethod(t, m) ==
  /\ "loop" \in HandlerCalls
  /\ loop[t] = "handler" /\ pc[t] = "idle" /\ ~Finalizing
  /\ Enter(t, m)
  /\ UNCHANGED <<stopFlag, thread, loop, joining, cobj, raised>>

(* ... and when it returns or raises the loop goes on.                     *)
HandlerEnds(t) ==
  /\ loop[t] = "handler" /\ pc[t] = "idle"
  /\ loop' = [loop EXCEPT ![t] = "iterate"]
  /\ UNCHANGED <<stopFlag, thread, pc, method, joining, cobj, raised>>

(* The handler that stop_hash tells "stopped by user" calls a method.      *)
(* (Bound: two threads are at hand, for its restart and for c's.)          *)
InnerMethod(c, m) ==
  /\ "stop_hash" \in HandlerCalls
  /\ pc[c] = "calling" /\ method[c] = "stop_hash" /\ pc["inner"] = "idle" /\ ~Finalizing
  /\ \E t, u \in Thread : t # u /\ Unused(t) /\ Unused(u)
  /\ Enter("inner", m)
  /\ UNCHANGED <<stopFlag, thread, loop, joining, cobj, raised>>

MethodStep(a) ==
  \/ SetFlag(a) \/ Join(a) \/ JoinRaises(a) \/ Joined(a) \/ CallBegins(a)
  \/ CallEnds(a) \/ CallRaises(a) \/ ClearFlag(a) \/ AssignThread(a) \/ StartThread(a)

LoopStep(t) == LoopTest(t) \/ LoopIterated(t) \/ HandlerEnds(t)

Next ==
  \/ \E c \in Caller, m \in Method : Begin(c, m) \/ InnerMethod(c, m)
  \/ \E a \in Agent : MethodStep(a)
  \/ \E t \in Thread : LoopStep(t) \/ HandlerBegins(t)
  \/ \E t \in Thread, m \in Method : HandlerMethod(t, m)

Spec == Init /\ [][Next]_vars

(* The interpreter runs every thread.  An iteration of the loop ends, for  *)
(* poll has a timeout; handlers return, and are not called for ever.       *)
LiveSpec ==
  /\ Spec
  /\ \A a \in Agent : WF_vars(MethodStep(a)) /\ SF_vars(CallEnds(a))
  /\ \A t \in Thread :
       WF_vars(LoopTest(t)) /\ SF_vars(HandlerEnds(t)) /\ SF_vars(LoopIterated(t))

-----------------------------------------------------------------------------
TypeOK ==
  /\ stopFlag \in BOOLEAN
  /\ thread \in Thread
  /\ loop \in [Thread -> LoopState]
  /\ pc \in [Agent -> PC]
  /\ method \in [Agent -> Method \cup {"none"}]
  /\ joining \in [Agent -> Thread \cup {"none"}]
  /\ cobj \in {"live", "freed"}
  /\ raised \in BOOLEAN

Active(t) == loop[t] \in {"iterate", "handler"}

(* "run function after stop a thread" (storjutp.py:45): no call of the     *)
(* object overlaps an iteration of a loop, and no loop runs on a freed     *)
(* object.                                                                 *)
Exclusive ==
  /\ \A a \in Agent, t \in Thread : ~(pc[a] = "calling" /\ Active(t))
  /\ cobj = "freed" => \A t \in Thread : ~Active(t)

(* One context, one loop.                                                  *)
OneLoop == \A t, u \in Thread : loop[t] \in {"test", "iterate", "handler"}
             /\ loop[u] \in {"test", "iterate", "handler"} => t = u

(* "and run a thread again in all functions": while nobody is in a method  *)
(* and the object lives, its loop runs and has not been told to stop.      *)
RunsAgain ==
  (\A a \in Agent : pc[a] = "idle") /\ cobj = "live" =>
    ~stopFlag /\ loop[thread] \in {"test", "iterate", "handler"}

(* The same, unless the method that ended last raised: the loop that such  *)
(* a method leaves stopped is back after the next one that does not.       *)
RunsUnlessRaised == ~raised => RunsAgain

(* Neither join() nor start() raises in an application thread: the thread  *)
(* joined was started, the thread started is new.  (In the loop's own      *)
(* thread, a handler that calls a method always fails to join.)            *)
NoRuntimeError ==
  \A a \in Agent \ Thread :
    /\ pc[a] = "join" => ~CannotJoin(a)
    /\ pc[a] = "start" => loop[thread] = "new"

(* A method that was called returns: the join does not wait for ever.      *)
Returns == \A c \in Caller : (pc[c] # "idle") ~> (pc[c] = "idle")
=============================================================================

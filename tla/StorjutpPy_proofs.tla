------------------------- MODULE StorjutpPy_proofs --------------------------
(***************************************************************************)
(* Proofs about StorjutpPy, for any number of callers and loop threads:    *)
(* type correctness, and mutual exclusion of method calls and loops under  *)
(* the discipline the class needs (calls are serialized, and no handler    *)
(* calls a method from within stop_hash), and the restart of the loop.     *)
(***************************************************************************)
EXTENDS StorjutpPy, TLAPS

LEMMA AgentFacts ==
  /\ Caller \subseteq Agent /\ Thread \subseteq Agent /\ "inner" \in Agent
BY DEF Agent

(* Every variable keeps its type, whatever callers and handlers do.        *)
THEOREM TypeCorrect == Spec => []TypeOK
<1>1. Init => TypeOK
  BY DEF Init, TypeOK, LoopState, PC
<1>2. TypeOK /\ [Next]_vars => TypeOK'
  <2> SUFFICES ASSUME TypeOK, [Next]_vars PROVE TypeOK'
    OBVIOUS
  <2> USE AgentFacts DEF TypeOK, LoopState, PC, Method, Goto, Leave, Enter
  <2>1. ASSUME NEW c \in Caller, NEW m \in Method, Begin(c, m) PROVE TypeOK'
    BY <2>1 DEF Begin
  <2>2. ASSUME NEW c \in Caller, NEW m \in Method, InnerMethod(c, m) PROVE TypeOK'
    BY <2>2 DEF InnerMethod
  <2>3. ASSUME NEW a \in Agent, MethodStep(a) PROVE TypeOK'
    <3>1. CASE SetFlag(a)      BY <3>1 DEF SetFlag
    <3>2. CASE Join(a)         BY <3>2 DEF Join
    <3>3. CASE JoinRaises(a)   BY <3>3 DEF JoinRaises
    <3>4. CASE Joined(a)       BY <3>4 DEF Joined
    <3>5. CASE CallBegins(a)   BY <3>5 DEF CallBegins
    <3>6. CASE CallEnds(a)     BY <3>6 DEF CallEnds
    <3>7. CASE CallRaises(a)   BY <3>7 DEF CallRaises
    <3>8. CASE ClearFlag(a)    BY <3>8 DEF ClearFlag
    <3>9. CASE AssignThread(a) BY <3>9 DEF AssignThread
    <3>10. CASE StartThread(a) BY <3>10 DEF StartThread
    <3> QED BY <2>3, <3>1, <3>2, <3>3, <3>4, <3>5, <3>6, <3>7, <3>8, <3>9, <3>10
            DEF MethodStep
  <2>4. ASSUME NEW t \in Thread, LoopStep(t) PROVE TypeOK'
    BY <2>4 DEF LoopStep, LoopTest, LoopIterated, HandlerEnds
  <2>5. ASSUME NEW t \in Thread, HandlerBegins(t) PROVE TypeOK'
    BY <2>5 DEF HandlerBegins
  <2>6. ASSUME NEW t \in Thread, NEW m \in Method, HandlerMethod(t, m) PROVE TypeOK'
    BY <2>6 DEF HandlerMethod
  <2>7. CASE UNCHANGED vars
    BY <2>7 DEF vars
  <2> QED BY <2>1, <2>2, <2>3, <2>4, <2>5, <2>6, <2>7 DEF Next
<1> QED BY <1>1, <1>2, PTL DEF Spec

-----------------------------------------------------------------------------
(* The discipline the application has to keep                              *)
Disciplined == Serialized /\ "stop_hash" \notin HandlerCalls

(* At most one caller is in a method, and nobody is inside stop_hash.      *)
OneCaller ==
  /\ \A c, d \in Caller : pc[c] # "idle" /\ pc[d] # "idle" => c = d
  /\ pc["inner"] = "idle"

(* A handler that calls a method gets no further than the join.            *)
HandlersStuck ==
  \A t \in Thread : /\ pc[t] \in {"idle", "set", "join"}
                    /\ pc[t] # "idle" => loop[t] = "handler"

(* Only the thread the object knows can be a loop that runs or will run.   *)
OnlyKnownRuns ==
  \A t \in Thread : loop[t] \in {"new", "test", "iterate", "handler"} => t = thread

(* From its join on, a caller has the loop stopped.                        *)
Stopped ==
  \A c \in Caller :
    /\ pc[c] = "joining" => joining[c] = thread
    /\ pc[c] \in {"call", "calling", "clear", "assign"} => loop[thread] = "ended"

FreedIsQuiet ==
  cobj = "freed" => loop[thread] = "ended" /\ \A a \in Agent : pc[a] = "idle"

(* A new thread is one that a caller is about to start.                    *)
NewIsStarted == (loop[thread] = "new") <=> (\E c \in Caller : pc[c] = "start")

IInv == /\ TypeOK /\ OneCaller /\ HandlersStuck /\ OnlyKnownRuns /\ Stopped
        /\ FreedIsQuiet /\ NewIsStarted

LEMMA IInvInit == Init => IInv
BY AgentFacts, NoneAssumption, ThreadAssumption
   DEF Init, IInv, TypeOK, LoopState, PC, OneCaller, HandlersStuck, OnlyKnownRuns, Stopped,
       FreedIsQuiet, NewIsStarted

LEMMA IInvExclusive == IInv => Exclusive /\ OneLoop /\ NoRuntimeError
<1> SUFFICES ASSUME IInv PROVE Exclusive /\ OneLoop /\ NoRuntimeError
  OBVIOUS
<1> USE AgentFacts DEF IInv, TypeOK, OneCaller, HandlersStuck, OnlyKnownRuns, Stopped, FreedIsQuiet
<1>1. OneLoop
  BY DEF OneLoop
<1>2. ASSUME NEW a \in Agent, NEW t \in Thread, pc[a] = "calling", Active(t) PROVE FALSE
  <2>1. a \in Caller
    BY <1>2 DEF Agent
  <2>2. loop[thread] = "ended" /\ t = thread
    BY <1>2, <2>1 DEF Active
  <2> QED BY <1>2, <2>2 DEF Active
<1>3. ASSUME cobj = "freed", NEW t \in Thread, Active(t) PROVE FALSE
  BY <1>3 DEF Active
<1>4. NoRuntimeError
  BY ThreadAssumption DEF NoRuntimeError, CannotJoin, NewIsStarted, Agent
<1> QED BY <1>1, <1>2, <1>3, <1>4 DEF Exclusive

LEMMA IInvNext == ASSUME TypeOK', Disciplined PROVE IInv /\ [Next]_vars => IInv'
<1> SUFFICES ASSUME IInv, [Next]_vars PROVE IInv'
  OBVIOUS
<1> USE AgentFacts, ThreadAssumption, NoneAssumption
    DEF IInv, TypeOK, OneCaller, HandlersStuck, OnlyKnownRuns, Stopped, FreedIsQuiet,
        NewIsStarted, Goto, Leave, Enter
<1>1. ASSUME NEW c \in Caller, NEW m \in Method, Begin(c, m) PROVE IInv'
  BY <1>1 DEF Begin, Finalizing, Disciplined
<1>2. ASSUME NEW c \in Caller, NEW m \in Method, InnerMethod(c, m) PROVE IInv'
  BY <1>2 DEF InnerMethod, Disciplined
<1>3. ASSUME NEW a \in Agent, MethodStep(a) PROVE IInv'
  <2>1. CASE SetFlag(a)      BY <2>1 DEF SetFlag
  <2>2. CASE Join(a)
    <3>1. a \in Caller
      BY <2>2 DEF Join, CannotJoin, Agent
    <3> QED BY <2>2, <3>1 DEF Join, CannotJoin
  <2>3. CASE JoinRaises(a)   BY <2>3 DEF JoinRaises
  <2>4. CASE Joined(a)       BY <2>4 DEF Joined, Agent
  <2>5. CASE CallBegins(a)   BY <2>5 DEF CallBegins, Agent
  <2>6. CASE CallEnds(a)     BY <2>6 DEF CallEnds, Agent
  <2>7. CASE CallRaises(a)   BY <2>7 DEF CallRaises, Agent
  <2>8. CASE ClearFlag(a)    BY <2>8 DEF ClearFlag, Agent
  <2>9. CASE AssignThread(a) BY <2>9 DEF AssignThread, Unused, Agent
  <2>10. CASE StartThread(a) BY <2>10 DEF StartThread, Agent
  <2> QED BY <1>3, <2>1, <2>2, <2>3, <2>4, <2>5, <2>6, <2>7, <2>8, <2>9, <2>10
          DEF MethodStep
<1>4. ASSUME NEW t \in Thread, LoopStep(t) PROVE IInv'
  BY <1>4 DEF LoopStep, LoopTest, LoopIterated, HandlerEnds
<1>5. ASSUME NEW t \in Thread, HandlerBegins(t) PROVE IInv'
  BY <1>5 DEF HandlerBegins
<1>6. ASSUME NEW t \in Thread, NEW m \in Method, HandlerMethod(t, m) PROVE IInv'
  BY <1>6 DEF HandlerMethod, Finalizing
<1>7. CASE UNCHANGED vars
  BY <1>7 DEF vars
<1> QED BY <1>1, <1>2, <1>3, <1>4, <1>5, <1>6, <1>7 DEF Next

(* "run function after stop a thread" (storjutp.py:45) holds under that    *)
(* discipline: no method runs beside a loop, and none after finalize.      *)
THEOREM MutualExclusion == ASSUME Disciplined PROVE Spec => []Exclusive
<1>1. Spec => []TypeOK
  BY TypeCorrect
<1>2. TypeOK' /\ IInv /\ [Next]_vars => IInv'
  BY IInvNext
<1>3. IInv => Exclusive
  BY IInvExclusive
<1> QED BY <1>1, <1>2, <1>3, IInvInit, PTL DEF Spec

(* There is never a second loop on the object, however often methods stop  *)
(* one and start another (start_thread).                                   *)
THEOREM NeverTwoLoops == ASSUME Disciplined PROVE Spec => []OneLoop
<1>1. Spec => []TypeOK
  BY TypeCorrect
<1>2. TypeOK' /\ IInv /\ [Next]_vars => IInv'
  BY IInvNext
<1>3. IInv => OneLoop
  BY IInvExclusive
<1> QED BY <1>1, <1>2, <1>3, IInvInit, PTL DEF Spec

(* Neither self.thread.join() nor self.thread.start() raises in a thread   *)
(* of the application under that discipline, ...                           *)
THEOREM ThreadsNeverRaise == ASSUME Disciplined PROVE Spec => []NoRuntimeError
<1>1. Spec => []TypeOK
  BY TypeCorrect
<1>2. TypeOK' /\ IInv /\ [Next]_vars => IInv'
  BY IInvNext
<1>3. IInv => NoRuntimeError
  BY IInvExclusive
<1> QED BY <1>1, <1>2, <1>3, IInvInit, PTL DEF Spec

(* A handler calls a method only from within stop_hash: then its method is *)
(* nested in that call, and the two take turns in starting threads.        *)
NestedOnly == Serialized /\ "loop" \notin HandlerCalls

Nested ==
  /\ \A c, d \in Caller : pc[c] # "idle" /\ pc[d] # "idle" => c = d
  /\ pc["inner"] # "idle" => \E c \in Caller : pc[c] = "calling" /\ method[c] = "stop_hash"
  /\ \A t \in Thread : pc[t] = "idle"
  /\ (loop[thread] = "new") <=> (\E a \in Agent : pc[a] = "start")

LEMMA NestedNext == ASSUME NestedOnly PROVE TypeOK /\ Nested /\ [Next]_vars => Nested'
<1> SUFFICES ASSUME TypeOK, Nested, [Next]_vars PROVE Nested'
  OBVIOUS
<1> USE AgentFacts, ThreadAssumption, NoneAssumption DEF TypeOK, Nested, Goto, Leave, Enter
<1>1. ASSUME NEW c \in Caller, NEW m \in Method, Begin(c, m) PROVE Nested'
  BY <1>1 DEF Begin, NestedOnly
<1>2. ASSUME NEW c \in Caller, NEW m \in Method, InnerMethod(c, m) PROVE Nested'
  BY <1>2 DEF InnerMethod
<1>3. ASSUME NEW a \in Agent, MethodStep(a) PROVE Nested'
  <2>1. CASE SetFlag(a)      BY <2>1 DEF SetFlag
  <2>2. CASE Join(a)         BY <2>2 DEF Join
  <2>3. CASE JoinRaises(a)   BY <2>3 DEF JoinRaises
  <2>4. CASE Joined(a)       BY <2>4 DEF Joined
  <2>5. CASE CallBegins(a)   BY <2>5 DEF CallBegins
  <2>6. CASE CallEnds(a)     BY <2>6 DEF CallEnds, InHandler, Agent
  <2>7. CASE CallRaises(a)   BY <2>7 DEF CallRaises, Agent
  <2>8. CASE ClearFlag(a)    BY <2>8 DEF ClearFlag
  <2>9. CASE AssignThread(a) BY <2>9 DEF AssignThread, Unused, Agent
  <2>10. CASE StartThread(a) BY <2>10 DEF StartThread, Agent
  <2> QED BY <1>3, <2>1, <2>2, <2>3, <2>4, <2>5, <2>6, <2>7, <2>8, <2>9, <2>10
          DEF MethodStep
<1>4. ASSUME NEW t \in Thread, LoopStep(t) PROVE Nested'
  BY <1>4 DEF LoopStep, LoopTest, LoopIterated, HandlerEnds
<1>5. ASSUME NEW t \in Thread, HandlerBegins(t) PROVE Nested'
  BY <1>5 DEF HandlerBegins
<1>6. ASSUME NEW t \in Thread, NEW m \in Method, HandlerMethod(t, m) PROVE Nested'
  BY <1>6 DEF HandlerMethod, NestedOnly
<1>7. CASE UNCHANGED vars
  BY <1>7 DEF vars
<1> QED BY <1>1, <1>2, <1>3, <1>4, <1>5, <1>6, <1>7 DEF Next

(* ... nor if handlers call methods, but only from within stop_hash.       *)
THEOREM NestedNeverRaise == ASSUME NestedOnly PROVE Spec => []NoRuntimeError
<1>1. Spec => []TypeOK
  BY TypeCorrect
<1>2. Init => Nested
  BY AgentFacts, NoneAssumption DEF Init, Nested
<1>3. TypeOK /\ Nested => NoRuntimeError
  BY AgentFacts, ThreadAssumption, NoneAssumption
     DEF TypeOK, Nested, NoRuntimeError, CannotJoin, Agent
<1> QED BY <1>1, <1>2, <1>3, NestedNext, PTL DEF Spec

-----------------------------------------------------------------------------
(* A method starts the loop again, whatever the methods before it left: no *)
(* caller starts it with the flag set, and while no caller is in a method, *)
(* the last one to end having raised nothing, the loop runs and only a     *)
(* handler about to fail in join() can have set the flag.                  *)
LoopIsBack ==
  /\ \A c \in Caller : pc[c] \in {"assign", "start"} => ~stopFlag
  /\ ~raised /\ (\A c \in Caller : pc[c] = "idle") /\ cobj = "live" =>
       /\ loop[thread] \in {"test", "iterate", "handler"}
       /\ stopFlag => pc[thread] = "join"

LEMMA LoopIsBackNext ==
  ASSUME IInv, Disciplined PROVE LoopIsBack /\ [Next]_vars => LoopIsBack'
<1> SUFFICES ASSUME LoopIsBack, [Next]_vars PROVE LoopIsBack'
  OBVIOUS
<1> USE AgentFacts, ThreadAssumption, NoneAssumption
    DEF IInv, TypeOK, OneCaller, HandlersStuck, OnlyKnownRuns, Stopped, NewIsStarted,
        LoopIsBack, Goto, Leave, Enter
<1>1. ASSUME NEW c \in Caller, NEW m \in Method, Begin(c, m) PROVE LoopIsBack'
  BY <1>1 DEF Begin
<1>2. ASSUME NEW c \in Caller, NEW m \in Method, InnerMethod(c, m) PROVE LoopIsBack'
  BY <1>2 DEF InnerMethod, Disciplined
<1>3. ASSUME NEW a \in Agent, MethodStep(a) PROVE LoopIsBack'
  <2>1. CASE SetFlag(a)      BY <2>1 DEF SetFlag, Agent
  <2>2. CASE Join(a)         BY <2>2 DEF Join, CannotJoin, Agent
  <2>3. CASE JoinRaises(a)   BY <2>3 DEF JoinRaises
  <2>4. CASE Joined(a)       BY <2>4 DEF Joined, Agent
  <2>5. CASE CallBegins(a)   BY <2>5 DEF CallBegins, Agent
  <2>6. CASE CallEnds(a)     BY <2>6 DEF CallEnds, Agent
  <2>7. CASE CallRaises(a)   BY <2>7 DEF CallRaises
  <2>8. CASE ClearFlag(a)    BY <2>8 DEF ClearFlag, Agent
  <2>9. CASE AssignThread(a) BY <2>9 DEF AssignThread, Agent
  <2>10. CASE StartThread(a) BY <2>10 DEF StartThread, Agent
  <2> QED BY <1>3, <2>1, <2>2, <2>3, <2>4, <2>5, <2>6, <2>7, <2>8, <2>9, <2>10
          DEF MethodStep
<1>4. ASSUME NEW t \in Thread, LoopStep(t) PROVE LoopIsBack'
  BY <1>4 DEF LoopStep, LoopTest, LoopIterated, HandlerEnds
<1>5. ASSUME NEW t \in Thread, HandlerBegins(t) PROVE LoopIsBack'
  BY <1>5 DEF HandlerBegins
<1>6. ASSUME NEW t \in Thread, NEW m \in Method, HandlerMethod(t, m) PROVE LoopIsBack'
  BY <1>6 DEF HandlerMethod
<1>7. CASE UNCHANGED vars
  BY <1>7 DEF vars
<1> QED BY <1>1, <1>2, <1>3, <1>4, <1>5, <1>6, <1>7 DEF Next

(* "and run a thread again in all functions" (storjutp.py:45), whatever    *)
(* was raised before: whenever no method is under way, the last one to end *)
(* raised nothing and the object lives, its loop runs and has not been     *)
(* told to stop.                                                           *)
THEOREM LoopRunsAgain == ASSUME Disciplined PROVE Spec => []RunsUnlessRaised
<1>1. Spec => []TypeOK
  BY TypeCorrect
<1>2. TypeOK' /\ IInv /\ [Next]_vars => IInv'
  BY IInvNext
<1>3. Init => LoopIsBack
  BY AgentFacts DEF Init, LoopIsBack
<1>4. IInv /\ LoopIsBack /\ [Next]_vars => LoopIsBack'
  BY LoopIsBackNext
<1>5. IInv /\ LoopIsBack => RunsUnlessRaised
  BY AgentFacts DEF IInv, TypeOK, LoopIsBack, RunsUnlessRaised, RunsAgain
<1> QED BY <1>1, <1>2, <1>3, <1>4, <1>5, IInvInit, PTL DEF Spec
=============================================================================

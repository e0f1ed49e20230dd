----------------------------- MODULE WsServerProofs -----------------------------
(***************************************************************************)
(* Proofs about WsServer, for any number of threads and connections.       *)
(***************************************************************************)
EXTENDS WsServer, SequenceFacts, TLAPS

--------------------------------------------------------------------------------
(* The set of connections *)

\* Every actor is somewhere, the threads and stop() are not one, and of those
\* who take the mutex one at most is in the set.
IInv ==
  /\ at \in [Actors -> {"out", "wants", "in"}]
  /\ \A a, b \in Actors : at[a] = "in" /\ at[b] = "in" /\ Locks(a) /\ Locks(b) => a = b

LEMMA InitIInv == Init => IInv
BY DEF Init, IInv

\* An actor that does not go in leaves the invariant as it is.
LEMMA MovesOut ==
  ASSUME IInv, NEW a \in Actors, NEW where \in {"out", "wants"},
         at' = [at EXCEPT ![a] = where]
  PROVE  IInv'
BY DEF IInv, Locks

LEMMA NextIInv == IInv /\ [Next]_vars => IInv'
<1> SUFFICES ASSUME IInv, [Next]_vars PROVE IInv'
  OBVIOUS
<1>1. {"stop", "get_connections"} \subseteq Actors /\ Threads \subseteq Actors
  BY DEF Actors
<1>2. ASSUME UNCHANGED at PROVE IInv'
  BY <1>2 DEF IInv, Locks
<1>3. CASE Start \/ StopAcceptor \/ UNCHANGED vars
  BY <1>2, <1>3 DEF Start, StopAcceptor, vars, set
<1>4. CASE StopService \/ GetConnections
  BY <1>1, <1>4, MovesOut DEF StopService, GetConnections
<1>5. ASSUME NEW a \in Actors, Enter(a) PROVE IInv'
  BY <1>5 DEF Enter, MutexFree, IInv, Locks
<1>6. ASSUME NEW t \in Threads, LeaveHandler(t) PROVE IInv'
  BY <1>1, <1>6, MovesOut DEF LeaveHandler
<1>7. CASE LeaveCopy \/ LeaveStop
  BY <1>1, <1>7, MovesOut DEF LeaveCopy, LeaveStop
<1>8. ASSUME NEW t \in Threads, ThreadStep(t) PROVE IInv'
  <2>1. CASE AcceptDone(t) \/ RunReturns(t)
    <3>1. UNCHANGED at
      BY <2>1 DEF AcceptDone, RunReturns, set
    <3> QED
      BY <1>2, <3>1
  <2>2. CASE HandlerBegins(t)
    BY <1>1, <2>2, MovesOut DEF HandlerBegins
  <2> QED
    BY <1>8, <2>1, <2>2 DEF ThreadStep
<1>9. CASE ClientConnects \/ AcceptFails \/ \E c \in Conns : OperationEnds(c)
  BY <1>2, <1>9 DEF ClientConnects, AcceptFails, OperationEnds, set
<1> QED
  BY <1>3, <1>4, <1>5, <1>6, <1>7, <1>8, <1>9 DEF Next, SetStep

LEMMA IInvImplies == IInv => SetIsGuarded
BY DEF IInv, SetIsGuarded, Locks

\* Handlers on any number of threads and get_connections() are never in the set of
\* connections at once: where two threads are, one of them is in stop().
THEOREM GuardedSet == Spec => []SetIsGuarded
BY InitIInv, NextIInv, IInvImplies, PTL DEF Spec

--------------------------------------------------------------------------------
(* The chains of accepts *)

AcceptHandlers == [runs : {"accept"}, ok : BOOLEAN]
Handlers == AcceptHandlers \cup [runs : {"open", "close"}, conn : Conns]

\* A chain waits for a client or for a thread, and is counted there.
LoopInv ==
  /\ starts \in Nat
  /\ accepts \in Nat
  /\ ready \in Seq(Handlers)
  /\ accepts + CountIn(ready, AcceptHandlers) = starts

\* The handlers of accepts are known by what they run.
LEMMA HandlerTypes ==
  /\ \A ok \in BOOLEAN : AcceptHandler(ok) \in AcceptHandlers
  /\ AcceptHandlers \subseteq Handlers
  /\ \A h \in Handlers : h \in AcceptHandlers <=> h.runs = "accept"
  /\ \A c \in Conns : /\ ConnHandler(c, "open") \in Handlers \ AcceptHandlers
                      /\ ConnHandler(c, "close") \in Handlers \ AcceptHandlers
BY DEF AcceptHandler, ConnHandler, AcceptHandlers, Handlers

LEMMA InitLoopInv == Init => LoopInv
<1> SUFFICES ASSUME Init PROVE LoopInv
  OBVIOUS
<1>1. starts = 0 /\ accepts = 0 /\ ready = <<>>
  BY DEF Init
<1>2. ready \in Seq(Handlers)
  BY <1>1
<1>3. {i \in DOMAIN ready : ready[i] \in AcceptHandlers} = {}
  BY <1>1
<1>4. CountIn(ready, AcceptHandlers) = 0
  BY <1>3, FS_EmptySet DEF CountIn
<1> QED
  BY <1>1, <1>2, <1>4 DEF LoopInv

\* An operation that waited for a client has ended.
LEMMA AcceptEnds ==
  ASSUME LoopInv, accepts > 0, NEW ok \in BOOLEAN, accepts' = accepts - 1,
         ready' = Append(ready, AcceptHandler(ok)), starts' = starts
  PROVE  LoopInv'
<1>1. CountIn(ready', AcceptHandlers) = CountIn(ready, AcceptHandlers) + 1
  BY HandlerTypes, CountAppend DEF LoopInv
<1>2. ready' \in Seq(Handlers)
  BY HandlerTypes, AppendFacts DEF LoopInv
<1>3. CountIn(ready, AcceptHandlers) \in Nat
  BY CountType DEF LoopInv
<1> QED
  BY <1>1, <1>2, <1>3 DEF LoopInv

\* stop() turns the operations that wait into handlers.
LEMMA StopAcceptorLoops ==
  ASSUME LoopInv, StopAcceptor
  PROVE  LoopInv'
<1> DEFINE aborted == [i \in 1 .. accepts |-> AcceptHandler(FALSE)]
<1>1. accepts' = 0 /\ ready' = ready \o aborted /\ starts' = starts
  BY DEF StopAcceptor
<1>2. /\ aborted \in [1 .. accepts -> Handlers]
      /\ \A i \in 1 .. accepts : aborted[i] \in AcceptHandlers
  BY HandlerTypes
<1>3. accepts \in Nat /\ ready \in Seq(Handlers)
  BY DEF LoopInv
<1> HIDE DEF aborted
<1>4. CountIn(ready', AcceptHandlers) = CountIn(ready, AcceptHandlers) + accepts
  BY <1>1, <1>2, <1>3, CountBlock
<1>5. ready' \in Seq(Handlers)
  BY <1>1, <1>2, <1>3, ConcatFacts
<1>6. CountIn(ready, AcceptHandlers) \in Nat
  BY <1>3, CountType
<1> QED
  BY <1>1, <1>4, <1>5, <1>6 DEF LoopInv

\* The handler of an accept begins the next, whether or not the acceptor is open.
LEMMA AcceptDoneLoops ==
  ASSUME LoopInv, NEW t \in Threads, AcceptDone(t)
  PROVE  LoopInv'
<1>1. /\ ready # <<>> /\ Head(ready).runs = "accept" /\ starts' = starts
      /\ Accept(Tail(ready))
  BY DEF AcceptDone, Runs, app
<1>2. /\ ready \in Seq(Handlers) /\ accepts \in Nat /\ starts \in Nat
      /\ accepts + CountIn(ready, AcceptHandlers) = starts
  BY DEF LoopInv
<1>3. Head(ready) \in Handlers /\ Tail(ready) \in Seq(Handlers)
  BY <1>1, <1>2, TailFacts
<1>4. Head(ready) \in AcceptHandlers
  BY <1>1, <1>3, HandlerTypes
<1>5. /\ CountIn(ready, AcceptHandlers) = CountIn(Tail(ready), AcceptHandlers) + 1
      /\ CountIn(Tail(ready), AcceptHandlers) \in Nat
  BY <1>1, <1>2, <1>3, <1>4, CountTail, CountType
<1>6. CASE acceptor = "open"
  <2>1. ready' = Tail(ready) /\ accepts' = accepts + 1
    BY <1>1, <1>6 DEF Accept
  <2>2. /\ CountIn(ready', AcceptHandlers) = CountIn(Tail(ready), AcceptHandlers)
        /\ ready' \in Seq(Handlers)
    BY <1>3, <2>1
  <2> QED
    BY <1>1, <1>2, <1>5, <2>1, <2>2 DEF LoopInv
<1>7. CASE acceptor # "open"
  <2>1. ready' = Append(Tail(ready), AcceptHandler(FALSE)) /\ accepts' = accepts
    BY <1>1, <1>7 DEF Accept
  <2>2. CountIn(ready', AcceptHandlers) = CountIn(Tail(ready), AcceptHandlers) + 1
    <3> DEFINE h == AcceptHandler(FALSE)
               rest == Tail(ready)
    <3>1. h \in Handlers /\ h \in AcceptHandlers /\ rest \in Seq(Handlers)
      BY <1>3, HandlerTypes
    <3> HIDE DEF h, rest
    <3>2. CountIn(Append(rest, h), AcceptHandlers) = CountIn(rest, AcceptHandlers) + 1
      BY <3>1, CountAppend
    <3> QED
      BY <2>1, <3>2 DEF h, rest
  <2>3. ready' \in Seq(Handlers)
    BY <1>3, <2>1, HandlerTypes, AppendFacts
  <2> QED
    BY <1>1, <1>2, <1>5, <2>1, <2>2, <2>3 DEF LoopInv
<1> QED
  BY <1>6, <1>7

\* Other handlers come and go without one.
LEMMA OtherAppended ==
  ASSUME LoopInv, NEW h \in Handlers \ AcceptHandlers, ready' = Append(ready, h),
         UNCHANGED <<starts, accepts>>
  PROVE  LoopInv'
<1>1. CountIn(ready', AcceptHandlers) = CountIn(ready, AcceptHandlers) + 0
  BY CountAppend DEF LoopInv
<1>2. ready' \in Seq(Handlers)
  BY AppendFacts DEF LoopInv
<1>3. CountIn(ready, AcceptHandlers) \in Nat
  BY CountType DEF LoopInv
<1> QED
  BY <1>1, <1>2, <1>3 DEF LoopInv

LEMMA OtherTaken ==
  ASSUME LoopInv, ready # <<>>, Head(ready).runs # "accept", ready' = Tail(ready),
         UNCHANGED <<starts, accepts>>
  PROVE  LoopInv'
<1>1. Head(ready) \in Handlers /\ Tail(ready) \in Seq(Handlers)
  BY TailFacts DEF LoopInv
<1>2. Head(ready) \notin AcceptHandlers
  BY <1>1, HandlerTypes
<1>3. CountIn(ready, AcceptHandlers) = CountIn(Tail(ready), AcceptHandlers) + 0
  BY <1>2, CountTail DEF LoopInv
<1>4. CountIn(Tail(ready), AcceptHandlers) \in Nat
  BY <1>1, CountType
<1> QED
  BY <1>1, <1>3, <1>4 DEF LoopInv

LEMMA NextLoopInv == LoopInv /\ [Next]_vars => LoopInv'
<1> SUFFICES ASSUME LoopInv, [Next]_vars PROVE LoopInv'
  OBVIOUS
<1>1. ASSUME UNCHANGED <<starts, accepts, ready>> PROVE LoopInv'
  BY <1>1 DEF LoopInv, CountIn
<1>2. CASE Start
  <2>1. starts' = starts + 1 /\ accepts' = accepts + 1 /\ ready' = ready
    BY <1>2 DEF Start
  <2>2. CountIn(ready, AcceptHandlers) \in Nat
    BY CountType DEF LoopInv
  <2> QED
    BY <2>1, <2>2 DEF LoopInv
<1>3. CASE StopAcceptor
  BY <1>3, StopAcceptorLoops
<1>4. CASE StopService \/ GetConnections \/ SetStep
  BY <1>1, <1>4 DEF StopService, GetConnections, SetStep, Enter, LeaveHandler, LeaveCopy,
                    LeaveStop, app, service
<1>5. ASSUME NEW t \in Threads, ThreadStep(t) PROVE LoopInv'
  <2>1. CASE AcceptDone(t)
    BY <2>1, AcceptDoneLoops
  <2>2. CASE HandlerBegins(t)
    <3>1. ready # <<>> /\ Head(ready).runs # "accept" /\ ready' = Tail(ready)
      BY <2>2 DEF HandlerBegins, Runs
    <3>2. UNCHANGED <<starts, accepts>>
      BY <2>2 DEF HandlerBegins, app, service
    <3> QED
      BY <3>1, <3>2, OtherTaken
  <2>3. CASE RunReturns(t)
    BY <1>1, <2>3 DEF RunReturns, app
  <2> QED
    BY <1>5, <2>1, <2>2, <2>3 DEF ThreadStep
<1>6. CASE ClientConnects \/ AcceptFails
  BY <1>6, AcceptEnds DEF ClientConnects, AcceptFails, app
<1>7. ASSUME NEW c \in Conns, OperationEnds(c) PROVE LoopInv'
  <2>1. UNCHANGED <<starts, accepts>>
    BY <1>7 DEF OperationEnds, app, service
  <2>2. \/ ready' = Append(ready, ConnHandler(c, "open"))
        \/ ready' = Append(ready, ConnHandler(c, "close"))
    BY <1>7 DEF OperationEnds
  <2> QED
    BY <2>1, <2>2, HandlerTypes, OtherAppended
<1>8. CASE UNCHANGED vars
  BY <1>1, <1>8 DEF vars
<1> QED
  BY <1>2, <1>3, <1>4, <1>5, <1>6, <1>7, <1>8 DEF Next

\* However often the server is started and stopped, and whichever accepts fail, it
\* goes on accepting, in one chain for each start.
THEOREM AcceptsGoOn == Spec => []EveryStartAccepts
<1>1. LoopInv => EveryStartAccepts
  <2> SUFFICES ASSUME LoopInv PROVE EveryStartAccepts
    OBVIOUS
  <2>1. \A i \in DOMAIN ready : ready[i] \in Handlers
    BY LenProperties, ElementOfSeq DEF LoopInv
  <2>2. {i \in DOMAIN ready : ready[i].runs = "accept"}
          = {i \in DOMAIN ready : ready[i] \in AcceptHandlers}
    BY <2>1, HandlerTypes
  <2> QED
    BY <2>2 DEF LoopInv, CountIn, EveryStartAccepts, AcceptLoops
<1> QED
  BY <1>1, InitLoopInv, NextLoopInv, PTL DEF Spec
================================================================================

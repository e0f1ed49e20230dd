-------------------------------- MODULE WsServer --------------------------------
(***************************************************************************)
(* start() and stop() of the WebSocket server (server_ws.hpp), the threads *)
(* that run its handlers (num_threads of them), and the set of connections *)
(* of an Endpoint, which its handlers change and get_connections() copies, *)
(* under connections_mutex, and stop() clears, without it.                 *)
(*                                                                         *)
(* Of a connection two handlers are left, the one that calls               *)
(* connection_open and the one that calls connection_close or              *)
(* connection_error; the others are in module WsConnection.  stop() is     *)
(* called by a thread of the application, get_connections() by another.    *)
(* stop() leaves handlers queued that have not run: they run when the      *)
(* server is started again, and connections go on.                         *)
(*                                                                         *)
(* Two threads in the set at once are undefined, and end the behaviour.    *)
(* That asio's acceptor may be closed while a handler uses it is left out: *)
(* one comes before the other.                                             *)
(***************************************************************************)
EXTENDS Naturals, FiniteSets, SequencesExt

CONSTANTS
  Threads,      \* that call io_service::run(), start()'s own among them
  MaxConns,     \* bound on the connections accepted
  MaxStarts,    \* bound on the calls of start()
  MaxCopies,    \* bound on the calls of get_connections()
  MaxFailures   \* bound on the accepts the system fails

VARIABLES
  starts,       \* calls of start() so far
  running,      \* the threads in run()
  acceptor,     \* is the acceptor open?
  stopped,      \* io_service::stopped()
  stopping,     \* where stop() is
  accepts,      \* accept operations that wait for a client
  ready,        \* handlers that are queued
  conn,         \* the connections
  connections,  \* Endpoint::connections
  at,           \* where an actor is with respect to connections
  handler,      \* what a thread runs
  copies,       \* calls of get_connections() so far
  failures      \* accepts that failed

vars == <<starts, running, acceptor, stopped, stopping, accepts, ready, conn,
          connections, at, handler, copies, failures>>

app == <<starts, stopping, copies>>
service == <<running, acceptor, stopped, accepts, failures>>
set == <<connections, at, handler>>

Conns == 1 .. MaxConns
Actors == Threads \cup {"stop", "get_connections"}

AcceptHandler(ok) == [runs |-> "accept", ok |-> ok]
ConnHandler(c, runs) == [runs |-> runs, conn |-> c]
None == [runs |-> "nothing"]

Init ==
  /\ starts = 0
  /\ running = {}
  /\ acceptor = "closed"
  /\ stopped = FALSE
  /\ stopping = "no"
  /\ accepts = 0
  /\ ready = <<>>
  /\ conn = [c \in Conns |-> "new"]
  /\ connections = {}
  /\ at = [a \in Actors |-> "out"]
  /\ handler = [t \in Threads |-> None]
  /\ copies = 0
  /\ failures = 0

--------------------------------------------------------------------------------
(* The application *)

\* start(), the first time or after it and stop() have returned.
Start ==
  /\ starts < MaxStarts
  /\ running = {}
  /\ acceptor = "closed"
  /\ stopping = "no"
  /\ starts' = starts + 1
  /\ stopped' = FALSE
  /\ acceptor' = "open"
  /\ accepts' = accepts + 1
  /\ running' = Threads
  /\ UNCHANGED <<stopping, copies, failures, ready, conn, set>>

\* acceptor.close(): operations that wait end with operation_aborted.
StopAcceptor ==
  /\ running = Threads
  /\ ~stopped
  /\ stopping = "no"
  /\ stopping' = "closed"
  /\ acceptor' = "closed"
  /\ accepts' = 0
  /\ ready' = ready \o [i \in 1 .. accepts |-> AcceptHandler(FALSE)]
  /\ UNCHANGED <<starts, copies, running, stopped, failures, conn, set>>

\* Mutant of StopService: the service is left to run out of work.
StopServiceForgets ==
  /\ stopping = "closed"
  /\ stopping' = "clearing"
  /\ at' = [at EXCEPT !["stop"] = "wants"]
  /\ UNCHANGED <<starts, copies, service, ready, conn, connections, handler>>

\* io_service.stop(), and on to connections.clear().
StopService ==
  /\ stopping = "closed"
  /\ stopping' = "clearing"
  /\ stopped' = TRUE
  /\ at' = [at EXCEPT !["stop"] = "wants"]
  /\ UNCHANGED <<starts, copies, running, acceptor, accepts, failures, ready, conn,
                 connections, handler>>

GetConnections ==
  /\ copies < MaxCopies
  /\ copies' = copies + 1
  /\ at["get_connections"] = "out"
  /\ at' = [at EXCEPT !["get_connections"] = "wants"]
  /\ UNCHANGED <<starts, stopping, service, ready, conn, connections, handler>>

--------------------------------------------------------------------------------
(* The set of connections *)

\* Mutant of Locks: get_connections() copies the set without the mutex.
LocksHandlers(a) == a \in Threads

\* Who takes connections_mutex.
Locks(a) == a # "stop"

MutexFree == \A b \in Actors : Locks(b) => at[b] # "in"

Undefined == \E a, b \in Actors : a # b /\ at[a] = "in" /\ at[b] = "in"

Enter(a) ==
  /\ at[a] = "wants"
  /\ Locks(a) => MutexFree
  /\ at' = [at EXCEPT ![a] = "in"]
  /\ UNCHANGED <<app, service, ready, conn, connections, handler>>

\* connection_open: insert, onopen.  connection_close and connection_error: erase,
\* onclose or onerror.
LeaveHandler(t) ==
  /\ at[t] = "in"
  /\ at' = [at EXCEPT ![t] = "out"]
  /\ LET c == handler[t].conn
         opens == handler[t].runs = "open"
     IN  /\ connections' = IF opens THEN connections \cup {c} ELSE connections \ {c}
         /\ conn' = [conn EXCEPT ![c] = IF opens THEN "reading" ELSE "ended"]
  /\ handler' = [handler EXCEPT ![t] = None]
  /\ UNCHANGED <<app, service, ready>>

LeaveCopy ==
  /\ at["get_connections"] = "in"
  /\ at' = [at EXCEPT !["get_connections"] = "out"]
  /\ UNCHANGED <<app, service, ready, conn, connections, handler>>

LeaveStop ==
  /\ at["stop"] = "in"
  /\ at' = [at EXCEPT !["stop"] = "out"]
  /\ connections' = {}
  /\ stopping' = "no"
  /\ UNCHANGED <<starts, copies, service, ready, conn, handler>>

--------------------------------------------------------------------------------
(* The threads *)

Runs(t) == t \in running /\ ~stopped /\ handler[t] = None /\ ready # <<>>

\* accept(): on an acceptor that is closed the operation fails at once.
Accept(queue) ==
  IF acceptor = "open" THEN accepts' = accepts + 1 /\ ready' = queue
  ELSE ready' = Append(queue, AcceptHandler(FALSE)) /\ UNCHANGED accepts

\* Mutant of AcceptDone: the next accept is begun after a success only.
AcceptDoneOnSuccess(t) ==
  /\ Runs(t)
  /\ Head(ready).runs = "accept"
  /\ IF Head(ready).ok
     THEN /\ Accept(Tail(ready))
          /\ LET c == Cardinality({d \in Conns : conn[d] # "new"}) + 1
             IN  conn' = [conn EXCEPT ![c] = "handshake"]
     ELSE ready' = Tail(ready) /\ UNCHANGED <<accepts, conn>>
  /\ UNCHANGED <<app, running, acceptor, stopped, failures, set>>

\* The handler of async_accept: whatever the outcome, the next accept is begun.
AcceptDone(t) ==
  /\ Runs(t)
  /\ Head(ready).runs = "accept"
  /\ Accept(Tail(ready))
  /\ IF Head(ready).ok
     THEN LET c == Cardinality({d \in Conns : conn[d] # "new"}) + 1
          IN  conn' = [conn EXCEPT ![c] = "handshake"]
     ELSE UNCHANGED conn
  /\ UNCHANGED <<app, running, acceptor, stopped, failures, set>>

\* Another handler, up to where it wants the mutex.
HandlerBegins(t) ==
  /\ Runs(t)
  /\ Head(ready).runs \in {"open", "close"}
  /\ handler' = [handler EXCEPT ![t] = Head(ready)]
  /\ ready' = Tail(ready)
  /\ at' = [at EXCEPT ![t] = "wants"]
  /\ UNCHANGED <<app, service, conn, connections>>

\* run() returns, and is joined by start().
RunReturns(t) ==
  /\ t \in running
  /\ handler[t] = None
  /\ stopped
  /\ running' = running \ {t}
  /\ UNCHANGED <<app, acceptor, stopped, accepts, failures, ready, conn, set>>

--------------------------------------------------------------------------------
(* The network *)

Accepted == Cardinality({c \in Conns : conn[c] # "new"})
               + Len(SelectSeq(ready, LAMBDA h : h.runs = "accept" /\ h.ok))

ClientConnects ==
  /\ accepts > 0
  /\ Accepted < MaxConns
  /\ accepts' = accepts - 1
  /\ ready' = Append(ready, AcceptHandler(TRUE))
  /\ UNCHANGED <<app, running, acceptor, stopped, failures, conn, set>>

AcceptFails ==
  /\ accepts > 0
  /\ failures < MaxFailures
  /\ failures' = failures + 1
  /\ accepts' = accepts - 1
  /\ ready' = Append(ready, AcceptHandler(FALSE))
  /\ UNCHANGED <<app, running, acceptor, stopped, conn, set>>

\* The handshake was answered; a close message came, or the connection is lost.
OperationEnds(c) ==
  /\ \/ conn[c] = "handshake" /\ conn' = [conn EXCEPT ![c] = "opening"]
                              /\ ready' = Append(ready, ConnHandler(c, "open"))
     \/ conn[c] = "reading" /\ conn' = [conn EXCEPT ![c] = "closing"]
                            /\ ready' = Append(ready, ConnHandler(c, "close"))
  /\ UNCHANGED <<app, service, set>>

ThreadStep(t) == AcceptDone(t) \/ HandlerBegins(t) \/ RunReturns(t)

SetStep == (\E a \in Actors : Enter(a)) \/ (\E t \in Threads : LeaveHandler(t))
              \/ LeaveCopy \/ LeaveStop

Next ==
  /\ ~Undefined
  /\ \/ Start \/ StopAcceptor \/ StopService \/ GetConnections
     \/ SetStep
     \/ \E t \in Threads : ThreadStep(t)
     \/ ClientConnects \/ AcceptFails
     \/ \E c \in Conns : OperationEnds(c)

Spec == Init /\ [][Next]_vars

\* Every thread goes on; the application need not call anything.
FairSpec ==
  /\ Spec
  /\ WF_vars(~Undefined /\ StopService)
  /\ WF_vars(~Undefined /\ SetStep)
  /\ \A t \in Threads : WF_vars(~Undefined /\ ThreadStep(t))

--------------------------------------------------------------------------------
(* Properties *)

\* Where two threads are in the set of connections at once, which is undefined, one
\* of them is in stop(): handlers on several threads and get_connections() keep
\* out of each other's way.
SetIsGuarded ==
  \A a, b \in Actors : a # b /\ at[a] = "in" /\ at[b] = "in" => "stop" \in {a, b}

\* The chains of accepts that go on.
AcceptLoops == accepts + Cardinality({i \in DOMAIN ready : ready[i].runs = "accept"})

\* Once started the server accepts again and again, whatever fails and however
\* often it is stopped.  The accept a stop() aborted is begun anew by its handler
\* after the next start(), which begins one as well: each start adds a chain.
EveryStartAccepts == AcceptLoops = starts

\* start() returns after stop(): no handler keeps a thread, and none waits for the
\* mutex for good.
StartReturns == stopping = "clearing" ~> (running = {} \/ Undefined)
================================================================================

------------------------------ MODULE WsConnection ------------------------------
(***************************************************************************)
(* The life of the connections of the WebSocket server (server_ws.hpp):    *)
(* accept, handshake, the loop that reads messages, the callbacks of the   *)
(* Endpoint, and the timers.  A WSS server (server_wss.hpp) puts a TLS     *)
(* handshake with a timer of its own between the first two.                *)
(*                                                                         *)
(* The server has one io thread (num_threads = 1, what bot.cpp asks for),  *)
(* so that a handler runs to its end before the next one.  Between the     *)
(* completion of an operation and the run of its handler, though, other    *)
(* handlers run: io tells the two apart, and a timer that is due has its   *)
(* handler queued, where neither cancel() nor expires_from_now() reaches   *)
(* it any more.                                                            *)
(*                                                                         *)
(* conn[c] is the state of connection c, a record; the operators below     *)
(* named after the functions of the code map a record to the next one.     *)
(* What the application sends is in module WsSendQueue; of the bytes read  *)
(* only the choices they cause are left.                                   *)
(***************************************************************************)
EXTENDS Naturals, Sequences

CONSTANTS
  MaxConns,         \* bound on the number of connections accepted
  RequestTimeout,   \* timeout_request > 0
  IdleTimeout,      \* timeout_idle > 0
  Sockets           \* the kinds of server that accept connections

ASSUME ConnectionAssumption ==
  /\ MaxConns \in Nat \ {0}
  /\ RequestTimeout \in BOOLEAN
  /\ IdleTimeout \in BOOLEAN
  /\ Sockets \subseteq {"WS", "WSS"}

VARIABLE conn

Conns == 1 .. MaxConns

Phases == {"new", "accept", "tls", "handshake", "upgrade", "head", "length",
           "content", "ended"}
Callbacks == {"onopen", "onclose", "onerror"}

Connection == [
  phase   : Phases,                             \* the handler it waits for
  io      : {"none", "pending", "ok", "err"},   \* the operation begun last
  link    : {"up", "fin", "reset", "shut"},     \* the socket
  tls     : {"off", "armed", "due"},            \* timer of async_handshake
  request : {"off", "armed", "due"},            \* timer of read_handshake
  idle    : {"null", "off", "armed", "due"},    \* Connection::timer_idle
  closed  : BOOLEAN,                            \* Connection::closed
  closes  : Nat,                                \* close frames sent
  member  : BOOLEAN,                            \* in Endpoint::connections
  calls   : Seq(Callbacks),                     \* callbacks run so far
  crashed : BOOLEAN]                            \* a handler took the process down

Fresh == [phase |-> "new", io |-> "none", link |-> "up", tls |-> "off",
          request |-> "off", idle |-> "null", closed |-> FALSE, closes |-> 0, member |-> FALSE,
          calls |-> <<>>, crashed |-> FALSE]

--------------------------------------------------------------------------------
(* What the functions of the server do to the connection they are given. *)

\* Begin the asynchronous operation a phase waits for.
Begin(r, phase) == [r EXCEPT !.phase = phase, !.io = "pending"]

\* Begin no other operation: the connection is left to its last references.
End(r) == [r EXCEPT !.phase = "ended", !.io = "none"]

\* deadline_timer::cancel
Cancelled(timer) == IF timer = "armed" THEN "off" ELSE timer

accept(r) == Begin(r, "accept")

\* Mutant of read_handshake: the timer is made but does not wait.
read_handshakeUntimed(r) == Begin(r, "handshake")

read_handshake(r) ==
  [Begin(r, "handshake") EXCEPT
    !.request = IF RequestTimeout THEN "armed" ELSE "off"]

\* WSS: the TLS handshake comes first.
accepted(r, socket) ==
  IF socket = "WS" THEN read_handshake(r)
  ELSE [Begin(r, "tls") EXCEPT !.tls = IF RequestTimeout THEN "armed" ELSE "off"]

\* Mutant of timer_idle_init: the timer is left out.
timer_idle_initOmitted(r) == r

timer_idle_init(r) == IF IdleTimeout THEN [r EXCEPT !.idle = "armed"] ELSE r

\* A timer that was waiting waits anew; one that is due, or whose handler
\* has run, stays as it is.  Without a timer the pointer is null.
timer_idle_reset(r) ==
  IF IdleTimeout /\ r.idle = "null" THEN [r EXCEPT !.crashed = TRUE] ELSE r

timer_idle_cancel(r) ==
  IF ~IdleTimeout THEN r
  ELSE IF r.idle = "null" THEN [r EXCEPT !.crashed = TRUE]
  ELSE [r EXCEPT !.idle = Cancelled(@)]

\* Mutant of send_close: closed is not looked at.
send_closeAlways(r) == [r EXCEPT !.closed = TRUE, !.closes = @ + 1]

send_close(r) ==
  IF r.closed THEN r ELSE [r EXCEPT !.closed = TRUE, !.closes = @ + 1]

connection_open(r) ==
  [timer_idle_init(r) EXCEPT !.member = TRUE, !.calls = Append(@, "onopen")]

\* Mutant of Forget: the connection is not erased from the set.
ForgetUnnoticed(r, callback) == End([r EXCEPT !.calls = Append(@, callback)])

\* Erase the connection from the Endpoint's set, and say so.
Forget(r, callback) ==
  End([r EXCEPT !.member = FALSE, !.calls = Append(@, callback)])

\* connection_close and connection_error differ in the callback only.
Leave(r, callback) ==
  LET s == timer_idle_cancel(r)
  IN  IF s.crashed THEN s ELSE Forget(s, callback)

connection_close(r) == Leave(r, "onclose")
connection_error(r) == Leave(r, "onerror")

--------------------------------------------------------------------------------

Dead == \E c \in Conns : conn[c].crashed

Init == conn = [c \in Conns |-> IF c = 1 THEN accept(Fresh) ELSE Fresh]

\* The handler of phase runs; io says how the operation ended.
Handles(c, phase) == conn[c].phase = phase /\ conn[c].io \in {"ok", "err"}
Ok(c) == conn[c].io = "ok"

Becomes(c, r) == conn' = [conn EXCEPT ![c] = r]

\* The next connection is accepted at once, as long as the bound lets it.
AcceptDone(c) ==
  /\ Handles(c, "accept")
  /\ \E socket \in Sockets :
       conn' = [d \in Conns |->
                  IF d = c THEN IF Ok(c) THEN accepted(conn[c], socket) ELSE End(conn[c])
                  ELSE IF d = c + 1 THEN accept(Fresh)
                  ELSE conn[d]]

\* Handler of async_handshake.
TlsDone(c) ==
  /\ Handles(c, "tls")
  /\ LET r == [conn[c] EXCEPT !.tls = Cancelled(@)]
     IN  Becomes(c, IF Ok(c) THEN read_handshake(r) ELSE End(r))

\* The request is answered when its path is an endpoint's and it has a key,
\* and otherwise forgotten.
HandshakeDone(c) ==
  /\ Handles(c, "handshake")
  /\ LET r == [conn[c] EXCEPT !.request = Cancelled(@)]
     IN  \/ Becomes(c, End(r))
         \/ Ok(c) /\ Becomes(c, Begin(r, "upgrade"))

UpgradeDone(c) ==
  /\ Handles(c, "upgrade")
  /\ Becomes(c, IF Ok(c) THEN Begin(connection_open(conn[c]), "head")
                ELSE connection_error(conn[c]))

\* The two bytes a message begins with: unmasked, with a length of its own
\* (126, 127), or with the length in it.
HeadDone(c) ==
  /\ Handles(c, "head")
  /\ IF Ok(c)
     THEN \/ Becomes(c, connection_close(send_close(conn[c])))
          \/ Becomes(c, Begin(conn[c], "length"))
          \/ Becomes(c, Begin(conn[c], "content"))
     ELSE Becomes(c, connection_error(conn[c]))

LengthDone(c) ==
  /\ Handles(c, "length")
  /\ Becomes(c, IF Ok(c) THEN Begin(conn[c], "content") ELSE connection_error(conn[c]))

\* Mutant of ContentDone: the return after a close message is missing.
ContentDoneGoesOn(c) ==
  /\ Handles(c, "content")
  /\ IF Ok(c)
     THEN \/ Becomes(c, Begin(connection_close(send_close(conn[c])), "head"))
          \/ Becomes(c, Begin(timer_idle_reset(conn[c]), "head"))
     ELSE Becomes(c, connection_error(conn[c]))

\* A close message ends the loop; a ping (answered by send) and a message
\* (for onmessage, which both endpoints of the bot set) reset the idle timer.
ContentDone(c) ==
  /\ Handles(c, "content")
  /\ IF Ok(c)
     THEN \/ Becomes(c, connection_close(send_close(conn[c])))
          \/ Becomes(c, Begin(timer_idle_reset(conn[c]), "head"))
     ELSE Becomes(c, connection_error(conn[c]))

\* shutdown() and close().  shutdown() throws on a socket the peer has reset, and
\* nothing between here and the thread's start catches it.
Shut(r) ==
  IF r.link = "reset" THEN [r EXCEPT !.crashed = TRUE] ELSE [r EXCEPT !.link = "shut"]

\* Handler of the timers of set_timeout_on_connection.
RequestTimedOut(c) ==
  \/ conn[c].request = "due" /\ Becomes(c, Shut([conn[c] EXCEPT !.request = "off"]))
  \/ conn[c].tls = "due" /\ Becomes(c, Shut([conn[c] EXCEPT !.tls = "off"]))

\* Mutant of IdleTimedOut: the handler waits for the timer again.
IdleTimedOutRearms(c) ==
  /\ conn[c].idle = "due"
  /\ Becomes(c, [send_close(conn[c]) EXCEPT !.idle = "armed"])

\* Mutant of IdleTimedOut: the timer is left in a state nothing else knows.
IdleTimedOutLeft(c) ==
  /\ conn[c].idle = "due"
  /\ Becomes(c, [send_close(conn[c]) EXCEPT !.idle = "expired"])

\* Handler of the idle timer.
IdleTimedOut(c) ==
  /\ conn[c].idle = "due"
  /\ Becomes(c, [send_close(conn[c]) EXCEPT !.idle = "off"])

OperationDone(c) ==
  \/ AcceptDone(c) \/ TlsDone(c) \/ HandshakeDone(c) \/ UpgradeDone(c)
  \/ HeadDone(c) \/ LengthDone(c) \/ ContentDone(c)

--------------------------------------------------------------------------------
(* The network and the clock *)

\* The operation succeeds; after a FIN with what was sent before it.
Succeeds(c) ==
  /\ conn[c].io = "pending"
  /\ conn[c].link \in {"up", "fin"}
  /\ Becomes(c, [conn[c] EXCEPT !.io = "ok"])

\* It fails: reset, closed from this side, or, when it reads, end of file.
Fails(c) ==
  /\ conn[c].io = "pending"
  /\ \/ conn[c].link \in {"reset", "shut"}
     \/ conn[c].link = "fin" /\ conn[c].phase # "upgrade"
  /\ Becomes(c, [conn[c] EXCEPT !.io = "err"])

\* The TLS handshake may fail for a reason of its own.
TlsFails(c) ==
  /\ conn[c].phase = "tls"
  /\ conn[c].io = "pending"
  /\ Becomes(c, [conn[c] EXCEPT !.io = "err"])

AcceptFails(c) ==
  /\ conn[c].phase = "accept"
  /\ conn[c].io = "pending"
  /\ Becomes(c, [conn[c] EXCEPT !.io = "err"])

Connected(c) == conn[c].phase \notin {"new", "accept"}

PeerCloses(c) ==
  /\ Connected(c)
  /\ conn[c].link = "up"
  /\ Becomes(c, [conn[c] EXCEPT !.link = "fin"])

PeerResets(c) ==
  /\ Connected(c)
  /\ conn[c].link \in {"up", "fin"}
  /\ Becomes(c, [conn[c] EXCEPT !.link = "reset"])

RequestExpires(c) ==
  \/ conn[c].request = "armed" /\ Becomes(c, [conn[c] EXCEPT !.request = "due"])
  \/ conn[c].tls = "armed" /\ Becomes(c, [conn[c] EXCEPT !.tls = "due"])

IdleExpires(c) ==
  /\ conn[c].idle = "armed"
  /\ Becomes(c, [conn[c] EXCEPT !.idle = "due"])

Step(c) ==
  \/ OperationDone(c) \/ RequestTimedOut(c) \/ IdleTimedOut(c)
  \/ Succeeds(c) \/ Fails(c) \/ TlsFails(c) \/ AcceptFails(c)
  \/ PeerCloses(c) \/ PeerResets(c)
  \/ RequestExpires(c) \/ IdleExpires(c)

Next == ~Dead /\ \E c \in Conns : Step(c)

Spec == Init /\ [][Next]_conn

\* io_service runs every handler that is ready, and time passes.  The answer
\* to the handshake fits into the socket's buffer.  A peer that is gone has
\* sent a finite amount of data before.  No peer has to send anything, and an
\* idle timer that is reset again and again never expires.
Fairness ==
  \A c \in Conns :
    /\ WF_conn(~Dead /\ OperationDone(c))
    /\ WF_conn(~Dead /\ RequestTimedOut(c))
    /\ WF_conn(~Dead /\ IdleTimedOut(c))
    /\ WF_conn(~Dead /\ RequestExpires(c))
    /\ WF_conn(~Dead /\ conn[c].phase = "upgrade" /\ Succeeds(c))
    /\ SF_conn(~Dead /\ Fails(c))

FairSpec == Spec /\ Fairness

--------------------------------------------------------------------------------
(* Properties *)

TypeOK == conn \in [Conns -> Connection]

\* The Endpoint's callbacks come in one of these orders, whatever the network
\* and the timers do: onerror without onopen when the answer to the handshake
\* could not be written, and nothing at all after onclose or onerror.
CallbackProtocol ==
  \A c \in Conns : conn[c].calls \in
    {<<>>, <<"onopen">>, <<"onopen", "onclose">>, <<"onopen", "onerror">>, <<"onerror">>}

\* get_connections() tells the application what the callbacks told it: a
\* connection is in the set from onopen until onclose or onerror.
MembersAreOpen ==
  \A c \in Conns : conn[c].member <=> conn[c].calls = <<"onopen">>

\* "Send close only once (in case close is initiated by server)": the idle
\* timer, the answer to a close message and the refusal of an unmasked one
\* send one close frame between them.
CloseOnce == \A c \in Conns : conn[c].closes <= 1

\* onclose means that the peer is told: a close frame was sent before it.
CloseIsAnswered ==
  \A c \in Conns : \A i \in DOMAIN conn[c].calls :
    conn[c].calls[i] = "onclose" => conn[c].closes = 1

\* A connection the server is done with waits for nothing: no operation, and
\* no timer that would keep it alive; at most a handler that is already due.
EndedWaitsForNothing ==
  \A c \in Conns : conn[c].phase = "ended" =>
    /\ conn[c].io = "none"
    /\ "armed" \notin {conn[c].tls, conn[c].request, conn[c].idle}

Runs(timer) == timer \in {"armed", "due"}

\* While the server waits for the peer a timer waits too, or its handler is queued,
\* or has run, and then has closed the socket (or the process is down) or sent the
\* close frame.
Timed(r) ==
  /\ RequestTimeout /\ r.phase = "tls" => Runs(r.tls) \/ r.link = "shut" \/ r.crashed
  /\ RequestTimeout /\ r.phase = "handshake"
       => Runs(r.request) \/ r.link = "shut" \/ r.crashed
  /\ IdleTimeout /\ r.phase \in {"head", "length", "content"} => Runs(r.idle) \/ r.closed

\* A peer that stays silent is noticed, in its handshakes and between its messages.
WaitsAreTimed == \A c \in Conns : Timed(conn[c])

\* The process goes down only over a socket the peer has reset; with idle
\* timers also over one the request timer closed while the handshake was being
\* answered (connection_error cancels a timer that was never made).
CrashNeedsLostSocket ==
  \A c \in Conns : conn[c].crashed =>
    conn[c].link = "reset" \/ (IdleTimeout /\ conn[c].link = "shut")

\* "Set timeout on the following boost::asio::async-read or write function"
\* (comment in read_handshake): the timer closes the socket only while a
\* handshake is being read.
TimeoutGuardsRead ==
  [][\A c \in Conns :
       conn[c].link # "shut" /\ conn'[c].link = "shut"
         => conn[c].phase \in {"tls", "handshake"}]_conn

\* A client that never completes its TLS handshake or its request does not keep
\* its connection.
HandshakeEnds ==
  \A c \in Conns :
    conn[c].phase \in {"tls", "handshake"}
      ~> (conn[c].phase \notin {"tls", "handshake"} \/ Dead)

\* A lost connection leaves the endpoint's set, and everything that holds the
\* Connection object goes.
Released(r) ==
  /\ r.phase = "ended"
  /\ r.io = "none"
  /\ ~r.member
  /\ {r.tls, r.request, r.idle} \cap {"armed", "due"} = {}

LostIsReleased ==
  \A c \in Conns : conn[c].link # "up" ~> (Released(conn[c]) \/ Dead)
================================================================================

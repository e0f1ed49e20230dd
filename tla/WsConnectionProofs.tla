--------------------------- MODULE WsConnectionProofs ---------------------------
(***************************************************************************)
(* Proofs about WsConnection, for any number of connections and any choice *)
(* of the timeouts: the invariants of the runs, from one inductive         *)
(* invariant that says of each connection alone what its phase implies.    *)
(***************************************************************************)
EXTENDS WsConnection, SequenceTheorems, TLAPS

--------------------------------------------------------------------------------
(* The inductive invariant *)

\* Before the connection is open the application and its timer know nothing
\* of it.
BeforeOpen(r) ==
  r.phase \in {"new", "accept", "tls", "handshake", "upgrade"} =>
    /\ r.calls = <<>>
    /\ ~r.member
    /\ r.idle = "null"
    /\ r.closes = 0

\* While messages are read the connection is open, and has its timer if there
\* are any.
WhileOpen(r) ==
  r.phase \in {"head", "length", "content"} =>
    /\ r.calls = <<"onopen">>
    /\ r.member
    /\ IF IdleTimeout THEN r.idle # "null" ELSE r.idle = "null"

AfterEnd(r) ==
  r.phase = "ended" =>
    /\ \/ r.calls \in {<<>>, <<"onopen", "onerror">>, <<"onerror">>}
       \/ r.calls = <<"onopen", "onclose">> /\ r.closes = 1
    /\ ~r.member
    /\ r.io = "none"
    /\ r.idle # "armed"

\* The timers of the two handshakes wait only while they go on.
RequestTimer(r) ==
  /\ r.request = "armed" => r.phase = "handshake"
  /\ r.tls = "armed" => r.phase = "tls"

ClosedCounts(r) == r.closes = (IF r.closed THEN 1 ELSE 0)

\* Writing the handshake fails only on a socket that is lost.
UpgradeFails(r) ==
  r.phase = "upgrade" /\ r.io = "err" => r.link \in {"reset", "shut"}

Crash(r) ==
  r.crashed => r.link = "reset" \/ (IdleTimeout /\ r.link = "shut")

Good(r) ==
  /\ BeforeOpen(r)
  /\ WhileOpen(r)
  /\ AfterEnd(r)
  /\ RequestTimer(r)
  /\ ClosedCounts(r)
  /\ UpgradeFails(r)
  /\ Crash(r)

IInv == TypeOK /\ \A c \in Conns : Good(conn[c])

--------------------------------------------------------------------------------
(* The functions of the server keep a good connection good. *)

\* A connection that was not accepted yet is good.
LEMMA FreshGood == Fresh \in Connection /\ Good(Fresh)
<1>1. <<>> \in Seq(Callbacks)
  OBVIOUS
<1>2. Fresh \in Connection
  BY <1>1 DEF Fresh, Connection, Phases
<1> QED
  BY <1>2 DEF Fresh, Good, BeforeOpen, WhileOpen, AfterEnd, RequestTimer, ClosedCounts,
              UpgradeFails, Crash

\* The first and the second callback of a connection.
LEMMA AppendCalls ==
  ASSUME NEW x \in Callbacks, NEW y \in Callbacks
  PROVE  Append(<<>>, x) = <<x>> /\ Append(<<y>>, x) = <<y, x>>
<1>1. <<>> \in Seq(Callbacks) /\ <<y>> \in Seq(Callbacks)
      /\ <<x>> \in Seq(Callbacks) /\ <<y, x>> \in Seq(Callbacks)
  OBVIOUS
<1>2. Append(<<>>, x) = <<x>>
  <2>1. Append(<<>>, x) \in Seq(Callbacks) /\ Len(Append(<<>>, x)) = 1
        /\ Append(<<>>, x)[1] = x
    BY <1>1, AppendProperties, EmptySeq
  <2>2. Len(<<x>>) = 1 /\ <<x>>[1] = x
    OBVIOUS
  <2>3. \A i \in 1 .. 1 : i = 1
    OBVIOUS
  <2> QED
    BY <1>1, <2>1, <2>2, <2>3, SeqEqual
<1>3. Append(<<y>>, x) = <<y, x>>
  <2>1. Append(<<y>>, x) \in Seq(Callbacks) /\ Len(Append(<<y>>, x)) = 2
        /\ Append(<<y>>, x)[1] = y /\ Append(<<y>>, x)[2] = x
    BY <1>1, AppendProperties
  <2>2. Len(<<y, x>>) = 2 /\ <<y, x>>[1] = y /\ <<y, x>>[2] = x
    OBVIOUS
  <2>3. \A i \in 1 .. 2 : i = 1 \/ i = 2
    OBVIOUS
  <2> QED
    BY <1>1, <2>1, <2>2, <2>3, SeqEqual
<1> QED
  BY <1>2, <1>3

\* Beginning an operation keeps the types.
LEMMA BeginType ==
  ASSUME NEW r \in Connection, NEW phase \in Phases
  PROVE  Begin(r, phase) \in Connection
BY DEF Begin, Connection

\* So does a callback.
LEMMA CallType ==
  ASSUME NEW r \in Connection, NEW callback \in Callbacks
  PROVE  Append(r.calls, callback) \in Seq(Callbacks)
BY DEF Connection

\* Accepting a connection makes it wait for its client.
LEMMA AcceptGood ==
  ASSUME NEW r \in Connection, Good(r), r.phase = "new"
  PROVE  accept(r) \in Connection /\ Good(accept(r))
<1>1. accept(r) \in Connection
  BY BeginType DEF accept, Phases
<1> QED
  BY <1>1 DEF accept, Begin, Connection, Good, BeforeOpen, WhileOpen, AfterEnd,
              RequestTimer, ClosedCounts, UpgradeFails, Crash

\* send_close sends a close frame if none was sent.
LEMMA SendCloseGood ==
  ASSUME NEW r \in Connection, Good(r), r.phase \in {"head", "length", "content", "ended"}
  PROVE  /\ send_close(r) \in Connection
         /\ Good(send_close(r))
         /\ send_close(r).closes = 1
         /\ send_close(r).phase = r.phase
         /\ send_close(r).idle = r.idle
<1>1. send_close(r) \in Connection
  <2>1. CASE r.closed
    BY <2>1 DEF send_close
  <2>2. CASE ~r.closed
    <3>1. r.closes + 1 \in Nat
      BY DEF Connection
    <3> QED
      BY <2>2, <3>1 DEF send_close, Connection
  <2> QED
    BY <2>1, <2>2
<1> QED
  BY <1>1 DEF send_close, Connection, Good, BeforeOpen, WhileOpen, AfterEnd,
              RequestTimer, ClosedCounts, UpgradeFails, Crash

\* Reading the handshake begins with a timer that waits, or without one.
LEMMA ReadHandshakeGood ==
  ASSUME NEW r \in Connection, Good(r), r.phase \in {"accept", "tls"}, r.tls # "armed"
  PROVE  read_handshake(r) \in Connection /\ Good(read_handshake(r))
<1>1. read_handshake(r) \in Connection
  BY DEF read_handshake, Begin, Connection, Phases
<1> QED
  BY <1>1 DEF read_handshake, Begin, Connection, Good, BeforeOpen, WhileOpen, AfterEnd,
              RequestTimer, ClosedCounts, UpgradeFails, Crash

\* A connection that was accepted waits for one handshake or the other.
LEMMA AcceptedGood ==
  ASSUME NEW r \in Connection, Good(r), r.phase = "accept", NEW socket
  PROVE  accepted(r, socket) \in Connection /\ Good(accepted(r, socket))
<1>1. CASE socket = "WS"
  <2>1. r.tls # "armed"
    BY DEF Good, RequestTimer
  <2> QED
    BY <1>1, <2>1, ReadHandshakeGood DEF accepted
<1>2. CASE socket # "WS"
  <2>1. accepted(r, socket) \in Connection
    BY <1>2 DEF accepted, Begin, Connection, Phases
  <2> QED
    BY <1>2, <2>1 DEF accepted, Begin, Connection, Good, BeforeOpen, WhileOpen, AfterEnd,
                      RequestTimer, ClosedCounts, UpgradeFails, Crash
<1> QED
  BY <1>1, <1>2

\* Forgetting a connection before it was opened.
LEMMA EndGood ==
  ASSUME NEW r \in Connection, Good(r), r.phase \in {"accept", "tls", "handshake"},
         r.request # "armed", r.tls # "armed"
  PROVE  End(r) \in Connection /\ Good(End(r))
<1>1. End(r) \in Connection
  BY DEF End, Connection, Phases
<1> QED
  BY <1>1 DEF End, Connection, Good, BeforeOpen, WhileOpen, AfterEnd,
              RequestTimer, ClosedCounts, UpgradeFails, Crash

\* The next operation of the loop that reads messages.
LEMMA BeginGood ==
  ASSUME NEW r \in Connection, Good(r), r.phase \in {"head", "length", "content"},
         NEW phase \in {"head", "length", "content"}
  PROVE  Begin(r, phase) \in Connection /\ Good(Begin(r, phase))
<1>1. Begin(r, phase) \in Connection
  BY BeginType DEF Phases
<1> QED
  BY <1>1 DEF Begin, Connection, Good, BeforeOpen, WhileOpen, AfterEnd,
              RequestTimer, ClosedCounts, UpgradeFails, Crash

\* The handshake is answered.
LEMMA OpenGood ==
  ASSUME NEW r \in Connection, Good(r), r.phase = "upgrade"
  PROVE  /\ Begin(connection_open(r), "head") \in Connection
         /\ Good(Begin(connection_open(r), "head"))
<1>1. r.calls = <<>> /\ Append(r.calls, "onopen") = <<"onopen">>
  BY AppendCalls DEF Good, BeforeOpen, Callbacks
<1>2. <<"onopen">> \in Seq(Callbacks)
  BY DEF Callbacks
<1>3. timer_idle_init(r) \in Connection
  BY DEF timer_idle_init, Connection
<1>4. Begin(connection_open(r), "head") \in Connection
  <2>1. timer_idle_init(r).calls = r.calls
    BY DEF timer_idle_init, Connection
  <2> DEFINE i == timer_idle_init(r)
  <2>2. i \in Connection /\ Append(i.calls, "onopen") = <<"onopen">>
    BY <1>1, <1>3, <2>1
  <2>3. connection_open(r) = [i EXCEPT !.member = TRUE, !.calls = Append(@, "onopen")]
    BY DEF connection_open
  <2> HIDE DEF i
  <2> DEFINE m == [i EXCEPT !.member = TRUE]
  <2>4. m \in Connection
    BY <2>2 DEF Connection
  <2>5. connection_open(r) = [m EXCEPT !.calls = <<"onopen">>]
    BY <2>2, <2>3 DEF Connection
  <2> HIDE DEF m
  <2>6. connection_open(r) \in Connection
    BY <1>2, <2>4, <2>5 DEF Connection
  <2> QED
    BY <2>6, BeginType DEF Phases
<1>5. /\ Begin(connection_open(r), "head").calls = <<"onopen">>
      /\ Begin(connection_open(r), "head").member
      /\ Begin(connection_open(r), "head").phase = "head"
      /\ Begin(connection_open(r), "head").io = "pending"
      /\ Begin(connection_open(r), "head").idle = timer_idle_init(r).idle
      /\ Begin(connection_open(r), "head").link = r.link
      /\ Begin(connection_open(r), "head").request = r.request
      /\ Begin(connection_open(r), "head").tls = r.tls
      /\ Begin(connection_open(r), "head").closed = r.closed
      /\ Begin(connection_open(r), "head").closes = r.closes
      /\ Begin(connection_open(r), "head").crashed = r.crashed
  BY <1>1 DEF connection_open, timer_idle_init, Begin, Connection
<1>6. timer_idle_init(r).idle = IF IdleTimeout THEN "armed" ELSE "null"
  BY DEF timer_idle_init, Connection, Good, BeforeOpen
<1> DEFINE o == Begin(connection_open(r), "head")
<1> HIDE DEF o
<1>7. Good(o)
  BY <1>4, <1>5, <1>6 DEF o, Good, BeforeOpen, WhileOpen, AfterEnd, RequestTimer,
                    ClosedCounts, UpgradeFails, Crash
<1> QED
  BY <1>4, <1>7 DEF o

\* A connection that has ended is a connection.
LEMMA EndIsConnection ==
  ASSUME NEW r \in Connection
  PROVE  End(r) \in Connection
<1>1. [r EXCEPT !.phase = "ended"] \in Connection
  BY DEF Connection, Phases
<1>2. ASSUME NEW q \in Connection PROVE [q EXCEPT !.io = "none"] \in Connection
  BY DEF Connection
<1>3. End(r) = [[r EXCEPT !.phase = "ended"] EXCEPT !.io = "none"]
  BY DEF End, Connection
<1> QED
  BY <1>1, <1>2, <1>3

\* What Forget changes.
LEMMA ForgetFields ==
  ASSUME NEW s \in Connection, NEW callback, Append(s.calls, callback) \in Seq(Callbacks)
  PROVE  /\ Forget(s, callback) \in Connection
         /\ Forget(s, callback).phase = "ended"
         /\ Forget(s, callback).io = "none"
         /\ ~Forget(s, callback).member
         /\ Forget(s, callback).calls = Append(s.calls, callback)
         /\ Forget(s, callback).idle = s.idle
         /\ Forget(s, callback).link = s.link
         /\ Forget(s, callback).request = s.request
         /\ Forget(s, callback).tls = s.tls
         /\ Forget(s, callback).closed = s.closed
         /\ Forget(s, callback).closes = s.closes
         /\ Forget(s, callback).crashed = s.crashed
<1> DEFINE m == [s EXCEPT !.member = FALSE, !.calls = Append(@, callback)]
<1>1. /\ m \in Connection
      /\ ~m.member
      /\ m.calls = Append(s.calls, callback)
      /\ m.idle = s.idle
      /\ m.link = s.link
      /\ m.request = s.request
      /\ m.tls = s.tls
      /\ m.closed = s.closed
      /\ m.closes = s.closes
      /\ m.crashed = s.crashed
  BY DEF Connection
<1> HIDE DEF m
<1>2. Forget(s, callback) = End(m)
  BY DEF m, Forget
<1>3. End(m) \in Connection
  BY <1>1, EndIsConnection
<1> QED
  BY <1>1, <1>2, <1>3, SMTT(60) DEF End, Connection

\* An open connection is closed, or has an error.
LEMMA LeaveGood ==
  ASSUME NEW r \in Connection, Good(r), r.phase \in {"head", "length", "content"},
         NEW callback \in {"onclose", "onerror"}, ~r.crashed,
         callback = "onclose" => r.closes = 1
  PROVE  Leave(r, callback) \in Connection /\ Good(Leave(r, callback))
<1>1. r.calls = <<"onopen">> /\ Append(r.calls, callback) = <<"onopen", callback>>
  BY AppendCalls DEF Good, WhileOpen, Callbacks
<1>2. <<"onopen", callback>> \in Seq(Callbacks)
  BY DEF Callbacks
<1> DEFINE s == timer_idle_cancel(r)
<1>3. /\ s \in Connection
      /\ s.idle # "armed"
      /\ ~s.crashed
      /\ s.calls = r.calls
      /\ s.link = r.link
      /\ s.request = r.request
      /\ s.tls = r.tls
      /\ s.closed = r.closed
      /\ s.closes = r.closes
  BY DEF timer_idle_cancel, Cancelled, Connection, Good, WhileOpen
<1> HIDE DEF s
<1>4. Leave(r, callback) = Forget(s, callback)
  BY <1>3 DEF Leave, s
<1> DEFINE l == Forget(s, callback)
<1>5. Append(s.calls, callback) = <<"onopen", callback>>
  BY <1>1, <1>3
<1>6. Append(s.calls, callback) \in Seq(Callbacks)
  BY <1>5, <1>2
<1>7. /\ l \in Connection
      /\ l.phase = "ended"
      /\ l.io = "none"
      /\ ~l.member
      /\ l.calls = Append(s.calls, callback)
      /\ l.idle = s.idle
      /\ l.link = s.link
      /\ l.request = s.request
      /\ l.tls = s.tls
      /\ l.closed = s.closed
      /\ l.closes = s.closes
      /\ l.crashed = s.crashed
  BY <1>3, <1>6, ForgetFields
<1> HIDE DEF l
<1>8. Good(l)
  BY <1>3, <1>7, <1>5 DEF Good, BeforeOpen, WhileOpen, AfterEnd, RequestTimer,
                    ClosedCounts, UpgradeFails, Crash
<1> QED
  BY <1>4, <1>7, <1>8 DEF l

\* The handshake could not be answered: onerror alone is called, and when there
\* are idle timers not even that, since this connection has none yet.
LEMMA UpgradeErrorGood ==
  ASSUME NEW r \in Connection, Good(r), r.phase = "upgrade", r.io = "err", ~r.crashed
  PROVE  connection_error(r) \in Connection /\ Good(connection_error(r))
<1>1. /\ r.calls = <<>>
      /\ r.idle = "null"
      /\ r.link \in {"reset", "shut"}
      /\ r.request # "armed" /\ r.tls # "armed"
      /\ ~r.member
      /\ r.closes = 0
  BY DEF Good, BeforeOpen, UpgradeFails, RequestTimer
<1>2. CASE IdleTimeout
  <2>1. connection_error(r) = [r EXCEPT !.crashed = TRUE]
    BY <1>1, <1>2 DEF connection_error, Leave, timer_idle_cancel, Connection
  <2>2. connection_error(r) \in Connection
    BY <2>1 DEF Connection
  <2> QED
    BY <1>1, <1>2, <2>1, <2>2
       DEF Connection, Good, BeforeOpen, WhileOpen, AfterEnd, RequestTimer, ClosedCounts,
           UpgradeFails, Crash
<1>3. CASE ~IdleTimeout
  <2>1. Append(r.calls, "onerror") = <<"onerror">> /\ <<"onerror">> \in Seq(Callbacks)
    BY <1>1, AppendCalls DEF Callbacks
  <2>2. connection_error(r) = Forget(r, "onerror")
    BY <1>3 DEF connection_error, Leave, timer_idle_cancel
  <2> DEFINE l == Forget(r, "onerror")
  <2>3. /\ l \in Connection
        /\ l.phase = "ended"
        /\ l.io = "none"
        /\ ~l.member
        /\ l.calls = Append(r.calls, "onerror")
        /\ l.idle = r.idle
        /\ l.link = r.link
        /\ l.request = r.request
        /\ l.tls = r.tls
        /\ l.closed = r.closed
        /\ l.closes = r.closes
        /\ l.crashed = r.crashed
    BY <2>1, ForgetFields
  <2> HIDE DEF l
  <2>4. Good(l)
    BY <1>1, <2>1, <2>3 DEF Good, BeforeOpen, WhileOpen, AfterEnd, RequestTimer,
                      ClosedCounts, UpgradeFails, Crash
  <2> QED
    BY <2>2, <2>3, <2>4 DEF l
<1> QED
  BY <1>2, <1>3

--------------------------------------------------------------------------------
(* The invariant is inductive. *)

\* Only connection 1 is being accepted at first.
LEMMA InitIInv == Init => IInv
<1> SUFFICES ASSUME Init PROVE IInv
  OBVIOUS
<1>1. accept(Fresh) \in Connection /\ Good(accept(Fresh))
  BY FreshGood, AcceptGood DEF Fresh
<1>2. \A c \in Conns : conn[c] \in Connection /\ Good(conn[c])
  BY <1>1, FreshGood DEF Init
<1>3. conn \in [Conns -> Connection]
  BY <1>2 DEF Init
<1> QED
  BY <1>2, <1>3 DEF IInv, TypeOK

\* A handler changes its own connection, and leaves it good.
LEMMA BecomesIInv ==
  ASSUME IInv, NEW c \in Conns, NEW r \in Connection, Good(r), Becomes(c, r)
  PROVE  IInv'
<1>1. /\ conn \in [Conns -> Connection]
      /\ \A d \in Conns : Good(conn[d])
  BY DEF IInv, TypeOK
<1>2. conn' = [conn EXCEPT ![c] = r]
  BY DEF Becomes
<1>3. conn' \in [Conns -> Connection]
  BY <1>1, <1>2
<1>4. ASSUME NEW d \in Conns PROVE Good(conn'[d])
  BY <1>1, <1>2
<1> QED
  BY <1>3, <1>4 DEF IInv, TypeOK

\* The handlers of the operations.
LEMMA OperationIInv ==
  ASSUME IInv, ~Dead, NEW c \in Conns, OperationDone(c)
  PROVE  IInv'
<1>1. conn[c] \in Connection /\ Good(conn[c]) /\ ~conn[c].crashed
  BY DEF IInv, TypeOK, Dead
<1>2. CASE AcceptDone(c)
  <2>0. PICK socket \in Sockets :
          conn' = [d \in Conns |->
                     IF d = c THEN IF Ok(c) THEN accepted(conn[c], socket) ELSE End(conn[c])
                     ELSE IF d = c + 1 THEN accept(Fresh)
                     ELSE conn[d]]
    BY <1>2 DEF AcceptDone
  <2> DEFINE r == IF Ok(c) THEN accepted(conn[c], socket) ELSE End(conn[c])
  <2>1. conn[c].phase = "accept" /\ conn[c].request # "armed" /\ conn[c].tls # "armed"
    BY <1>1, <1>2 DEF AcceptDone, Handles, Good, RequestTimer
  <2>2. r \in Connection /\ Good(r)
    BY <1>1, <2>1, AcceptedGood, EndGood
  <2>3. accept(Fresh) \in Connection /\ Good(accept(Fresh))
    BY FreshGood, AcceptGood DEF Fresh
  <2>4. conn' = [d \in Conns |-> IF d = c THEN r
                                 ELSE IF d = c + 1 THEN accept(Fresh) ELSE conn[d]]
    BY <2>0
  <2>5. \A d \in Conns : conn[d] \in Connection /\ Good(conn[d])
    BY DEF IInv, TypeOK
  <2> HIDE DEF r
  <2>6. \A d \in Conns : conn'[d] \in Connection /\ Good(conn'[d])
    BY <2>2, <2>3, <2>4, <2>5
  <2>7. conn' \in [Conns -> Connection]
    BY <2>4, <2>6
  <2> QED
    BY <2>6, <2>7 DEF IInv, TypeOK
<1>3. CASE HandshakeDone(c)
  <2> DEFINE r == [conn[c] EXCEPT !.request = Cancelled(@)]
  <2>1. conn[c].phase = "handshake"
    BY <1>3 DEF HandshakeDone, Handles
  <2>2. /\ r \in Connection
        /\ r.request # "armed" /\ r.tls # "armed"
        /\ r.phase = "handshake"
    BY <1>1, <2>1 DEF Cancelled, Connection, Good, RequestTimer
  <2>3. Good(r)
    BY <1>1, <2>1 DEF Cancelled, Connection, Good, BeforeOpen, WhileOpen, AfterEnd,
                      RequestTimer, ClosedCounts, UpgradeFails, Crash
  <2>4. HandshakeDone(c) =>
          \/ Becomes(c, End(r))
          \/ Becomes(c, Begin(r, "upgrade"))
    BY DEF HandshakeDone
  <2> HIDE DEF r
  <2>5. End(r) \in Connection /\ Good(End(r))
    BY <2>2, <2>3, EndGood
  <2>6. Begin(r, "upgrade") \in Connection /\ Good(Begin(r, "upgrade"))
    <3>1. Begin(r, "upgrade") \in Connection
      BY <2>2, BeginType DEF Phases
    <3> QED
      BY <2>2, <2>3, <3>1
         DEF Begin, Connection, Good, BeforeOpen, WhileOpen, AfterEnd,
             RequestTimer, ClosedCounts, UpgradeFails, Crash
  <2> QED
    BY <1>3, <2>4, <2>5, <2>6, BecomesIInv
<1>9. CASE TlsDone(c)
  <2> DEFINE r == [conn[c] EXCEPT !.tls = Cancelled(@)]
  <2>1. conn[c].phase = "tls"
    BY <1>9 DEF TlsDone, Handles
  <2>2. /\ r \in Connection
        /\ r.request # "armed" /\ r.tls # "armed"
        /\ r.phase = "tls"
    BY <1>1, <2>1 DEF Cancelled, Connection, Good, RequestTimer
  <2>3. Good(r)
    BY <1>1, <2>1 DEF Cancelled, Connection, Good, BeforeOpen, WhileOpen, AfterEnd,
                      RequestTimer, ClosedCounts, UpgradeFails, Crash
  <2>4. TlsDone(c) => Becomes(c, read_handshake(r)) \/ Becomes(c, End(r))
    BY DEF TlsDone
  <2> HIDE DEF r
  <2> QED
    BY <1>9, <2>2, <2>3, <2>4, ReadHandshakeGood, EndGood, BecomesIInv
<1>4. CASE UpgradeDone(c)
  <2>1. conn[c].phase = "upgrade" /\ conn[c].io \in {"ok", "err"}
    BY <1>4 DEF UpgradeDone, Handles
  <2>2. CASE Ok(c)
    BY <1>1, <1>4, <2>1, <2>2, OpenGood, BecomesIInv DEF UpgradeDone
  <2>3. CASE ~Ok(c)
    BY <1>1, <1>4, <2>1, <2>3, UpgradeErrorGood, BecomesIInv DEF UpgradeDone, Ok
  <2> QED
    BY <2>2, <2>3
<1>5. ASSUME conn[c].phase \in {"head", "length", "content"}
      PROVE  /\ connection_error(conn[c]) \in Connection
             /\ Good(connection_error(conn[c]))
             /\ connection_close(send_close(conn[c])) \in Connection
             /\ Good(connection_close(send_close(conn[c])))
             /\ timer_idle_reset(conn[c]) = conn[c]
  <2>1. /\ connection_error(conn[c]) \in Connection
        /\ Good(connection_error(conn[c]))
    BY <1>1, <1>5, LeaveGood DEF connection_error
  <2> DEFINE r == send_close(conn[c])
  <2>2. r \in Connection /\ Good(r) /\ r.closes = 1 /\ r.phase = conn[c].phase
    BY <1>1, <1>5, SendCloseGood
  <2>3. ~r.crashed
    BY <1>1 DEF send_close, Connection
  <2>4. connection_close(r) \in Connection /\ Good(connection_close(r))
    <3> HIDE DEF r
    <3> QED
      BY <1>5, <2>2, <2>3, LeaveGood DEF connection_close
  <2>5. timer_idle_reset(conn[c]) = conn[c]
    BY <1>1, <1>5 DEF timer_idle_reset, Good, WhileOpen
  <2> QED
    BY <2>1, <2>4, <2>5
<1>6. CASE HeadDone(c)
  <2>1. conn[c].phase = "head"
    BY <1>6 DEF HeadDone, Handles
  <2> QED
    BY <1>1, <1>5, <1>6, <2>1, BeginGood, BecomesIInv DEF HeadDone
<1>7. CASE LengthDone(c)
  <2>1. conn[c].phase = "length"
    BY <1>7 DEF LengthDone, Handles
  <2> QED
    BY <1>1, <1>5, <1>7, <2>1, BeginGood, BecomesIInv DEF LengthDone
<1>8. CASE ContentDone(c)
  <2>1. conn[c].phase = "content"
    BY <1>8 DEF ContentDone, Handles
  <2> QED
    BY <1>1, <1>5, <1>8, <2>1, BeginGood, BecomesIInv DEF ContentDone
<1> QED
  BY <1>2, <1>3, <1>4, <1>6, <1>7, <1>8, <1>9 DEF OperationDone

\* The handlers of the timers.
LEMMA TimerIInv ==
  ASSUME IInv, ~Dead, NEW c \in Conns, RequestTimedOut(c) \/ IdleTimedOut(c)
  PROVE  IInv'
<1>1. conn[c] \in Connection /\ Good(conn[c]) /\ ~conn[c].crashed
  BY DEF IInv, TypeOK, Dead
<1> DEFINE spent == [send_close(conn[c]) EXCEPT !.idle = "off"]
<1>2. ASSUME NEW r \in Connection, Good(r) PROVE Shut(r) \in Connection /\ Good(Shut(r))
  <2>1. CASE r.link = "reset"
    <3> DEFINE s == [r EXCEPT !.crashed = TRUE]
    <3>1. /\ s \in Connection /\ s.link = "reset"
          /\ s.phase = r.phase /\ s.calls = r.calls /\ s.member = r.member /\ s.idle = r.idle
          /\ s.closes = r.closes /\ s.closed = r.closed /\ s.io = r.io
          /\ s.request = r.request /\ s.tls = r.tls
      BY <2>1 DEF Connection
    <3> HIDE DEF s
    <3>2. Good(s)
      BY <1>2, <3>1 DEF Good, BeforeOpen, WhileOpen, AfterEnd, RequestTimer, ClosedCounts,
                        UpgradeFails, Crash
    <3> QED
      BY <2>1, <3>1, <3>2 DEF Shut, s
  <2>2. CASE r.link # "reset"
    <3> DEFINE s == [r EXCEPT !.link = "shut"]
    <3>1. /\ s \in Connection /\ s.link = "shut"
          /\ s.phase = r.phase /\ s.calls = r.calls /\ s.member = r.member /\ s.idle = r.idle
          /\ s.closes = r.closes /\ s.closed = r.closed /\ s.io = r.io
          /\ s.request = r.request /\ s.tls = r.tls /\ s.crashed = r.crashed
      BY DEF Connection
    <3> HIDE DEF s
    <3>2. Good(s)
      BY <1>2, <2>2, <3>1 DEF Good, BeforeOpen, WhileOpen, AfterEnd, RequestTimer,
                              ClosedCounts, UpgradeFails, Crash
    <3> QED
      BY <2>2, <3>1, <3>2 DEF Shut, s
  <2> QED
    BY <2>1, <2>2
<1>3. CASE RequestTimedOut(c)
  <2> DEFINE r == [conn[c] EXCEPT !.request = "off"]
             t == [conn[c] EXCEPT !.tls = "off"]
  <2>1. r \in Connection /\ Good(r) /\ t \in Connection /\ Good(t)
    BY <1>1 DEF Connection, Good, BeforeOpen, WhileOpen, AfterEnd, RequestTimer,
                ClosedCounts, UpgradeFails, Crash
  <2>2. Becomes(c, Shut(r)) \/ Becomes(c, Shut(t))
    BY <1>3 DEF RequestTimedOut
  <2> HIDE DEF r, t
  <2> QED
    BY <1>2, <2>1, <2>2, BecomesIInv
<1>4. CASE IdleTimedOut(c)
  <2>1. conn[c].idle = "due" /\ Becomes(c, spent)
    BY <1>4 DEF IdleTimedOut
  <2>2. conn[c].phase \in {"head", "length", "content", "ended"}
    BY <1>1, <2>1 DEF Connection, Phases, Good, BeforeOpen
  <2> DEFINE s == send_close(conn[c])
  <2>3. s \in Connection /\ Good(s) /\ s.phase = conn[c].phase /\ s.idle = "due"
    BY <1>1, <2>1, <2>2, SendCloseGood
  <2> HIDE DEF s
  <2>4. /\ [s EXCEPT !.idle = "off"] \in Connection
        /\ Good([s EXCEPT !.idle = "off"])
    BY <2>2, <2>3 DEF Connection, Good, BeforeOpen, WhileOpen, AfterEnd, RequestTimer,
                      ClosedCounts, UpgradeFails, Crash
  <2>5. spent = [s EXCEPT !.idle = "off"]
    BY DEF s
  <2> HIDE DEF spent
  <2> QED
    BY <2>1, <2>4, <2>5, BecomesIInv
<1> QED
  BY <1>3, <1>4

\* The network and the clock.
LEMMA EnvironmentIInv ==
  ASSUME IInv, NEW c \in Conns,
         \/ Succeeds(c) \/ Fails(c) \/ TlsFails(c) \/ AcceptFails(c)
         \/ PeerCloses(c) \/ PeerResets(c)
         \/ RequestExpires(c) \/ IdleExpires(c)
  PROVE  IInv'
<1> USE DEF Good, BeforeOpen, WhileOpen, AfterEnd, RequestTimer, ClosedCounts,
            UpgradeFails, Crash
<1>1. conn[c] \in Connection /\ Good(conn[c])
  BY DEF IInv, TypeOK
<1>2. CASE Succeeds(c)
  <2>1. /\ [conn[c] EXCEPT !.io = "ok"] \in Connection
        /\ Good([conn[c] EXCEPT !.io = "ok"])
    BY <1>1, <1>2 DEF Succeeds, Connection
  <2> QED
    BY <1>2, <2>1, BecomesIInv DEF Succeeds
<1>3. CASE Fails(c) \/ TlsFails(c) \/ AcceptFails(c)
  <2>1. /\ [conn[c] EXCEPT !.io = "err"] \in Connection
        /\ Good([conn[c] EXCEPT !.io = "err"])
    BY <1>1, <1>3 DEF Fails, TlsFails, AcceptFails, Connection
  <2> QED
    BY <1>3, <2>1, BecomesIInv DEF Fails, TlsFails, AcceptFails
<1>4. CASE PeerCloses(c)
  <2>1. /\ [conn[c] EXCEPT !.link = "fin"] \in Connection
        /\ Good([conn[c] EXCEPT !.link = "fin"])
    BY <1>1, <1>4 DEF PeerCloses, Connection
  <2> QED
    BY <1>4, <2>1, BecomesIInv DEF PeerCloses
<1>5. CASE PeerResets(c)
  <2>1. /\ [conn[c] EXCEPT !.link = "reset"] \in Connection
        /\ Good([conn[c] EXCEPT !.link = "reset"])
    BY <1>1, <1>5 DEF PeerResets, Connection
  <2> QED
    BY <1>5, <2>1, BecomesIInv DEF PeerResets
<1>6. CASE RequestExpires(c)
  <2>1. /\ [conn[c] EXCEPT !.request = "due"] \in Connection
        /\ Good([conn[c] EXCEPT !.request = "due"])
        /\ [conn[c] EXCEPT !.tls = "due"] \in Connection
        /\ Good([conn[c] EXCEPT !.tls = "due"])
    BY <1>1 DEF Connection
  <2> QED
    BY <1>6, <2>1, BecomesIInv DEF RequestExpires
<1>7. CASE IdleExpires(c)
  <2>1. /\ [conn[c] EXCEPT !.idle = "due"] \in Connection
        /\ Good([conn[c] EXCEPT !.idle = "due"])
    BY <1>1, <1>7 DEF IdleExpires, Connection
  <2> QED
    BY <1>7, <2>1, BecomesIInv DEF IdleExpires
<1> QED
  BY <1>2, <1>3, <1>4, <1>5, <1>6, <1>7

\* IInv is inductive.
LEMMA NextIInv == IInv /\ [Next]_conn => IInv'
<1> SUFFICES ASSUME IInv, [Next]_conn PROVE IInv'
  OBVIOUS
<1>1. CASE UNCHANGED conn
  BY <1>1 DEF IInv, TypeOK
<1>2. ASSUME ~Dead, NEW c \in Conns, Step(c) PROVE IInv'
  BY <1>2, OperationIInv, TimerIInv, EnvironmentIInv DEF Step
<1> QED
  BY <1>1, <1>2 DEF Next

--------------------------------------------------------------------------------
(* Theorems *)

\* IInv says what the runs check.
LEMMA IInvImplies ==
  IInv => /\ TypeOK
          /\ CallbackProtocol
          /\ MembersAreOpen
          /\ CloseOnce
          /\ CloseIsAnswered
          /\ EndedWaitsForNothing
          /\ CrashNeedsLostSocket
<1> SUFFICES ASSUME IInv
             PROVE  /\ TypeOK
                    /\ CallbackProtocol
                    /\ MembersAreOpen
                    /\ CloseOnce
                    /\ CloseIsAnswered
                    /\ EndedWaitsForNothing
                    /\ CrashNeedsLostSocket
  OBVIOUS
<1> USE DEF IInv, TypeOK, Good, Connection, Phases
<1>1. ASSUME NEW c \in Conns
      PROVE  /\ conn[c].phase \in {"new", "accept", "tls", "handshake", "upgrade"}
                  => conn[c].calls = <<>> /\ ~conn[c].member
             /\ conn[c].phase \in {"head", "length", "content"}
                  => conn[c].calls = <<"onopen">> /\ conn[c].member
             /\ conn[c].phase = "ended"
                  => /\ ~conn[c].member
                     /\ \/ conn[c].calls \in {<<>>, <<"onopen", "onerror">>, <<"onerror">>}
                        \/ conn[c].calls = <<"onopen", "onclose">> /\ conn[c].closes = 1
             /\ conn[c].phase \in {"new", "accept", "tls", "handshake", "upgrade"}
                  \cup {"head", "length", "content"} \cup {"ended"}
  BY <1>1 DEF BeforeOpen, WhileOpen, AfterEnd
<1>2. CallbackProtocol
  BY <1>1 DEF CallbackProtocol
<1>3. MembersAreOpen
  <2>1. /\ <<>> # <<"onopen">>
        /\ <<"onopen", "onclose">> # <<"onopen">>
        /\ <<"onopen", "onerror">> # <<"onopen">>
        /\ <<"onerror">> # <<"onopen">>
    <3>1. Len(<<>>) = 0 /\ Len(<<"onopen">>) = 1 /\ Len(<<"onopen", "onclose">>) = 2
          /\ Len(<<"onopen", "onerror">>) = 2
      OBVIOUS
    <3>2. <<"onerror">>[1] # <<"onopen">>[1]
      OBVIOUS
    <3> QED
      BY <3>1, <3>2
  <2>2. ASSUME NEW c \in Conns
        PROVE  conn[c].member <=> conn[c].calls = <<"onopen">>
    BY <1>1, <2>1
  <2> QED
    BY <2>2 DEF MembersAreOpen
<1>4. CloseOnce
  BY DEF CloseOnce, ClosedCounts
<1>5. CloseIsAnswered
  BY <1>1 DEF CloseIsAnswered
<1>6. EndedWaitsForNothing
  BY DEF EndedWaitsForNothing, AfterEnd, RequestTimer
<1>7. CrashNeedsLostSocket
  BY DEF CrashNeedsLostSocket, Crash
<1> QED
  BY <1>2, <1>3, <1>4, <1>5, <1>6, <1>7

\* Every run of the server keeps the inductive invariant.
LEMMA Invariance == Spec => []IInv
BY InitIInv, NextIInv, PTL DEF Spec

\* The state of every connection keeps its type.
THEOREM TypeCorrect == Spec => []TypeOK
BY Invariance, IInvImplies, PTL

\* The callbacks of every connection come in the order of the protocol.
THEOREM CallbacksInOrder == Spec => []CallbackProtocol
BY Invariance, IInvImplies, PTL

\* The Endpoint's set of connections agrees with the callbacks.
THEOREM SetAgrees == Spec => []MembersAreOpen
BY Invariance, IInvImplies, PTL

\* A connection gets at most one close frame, and one before onclose.
THEOREM ClosedOnce == Spec => [](CloseOnce /\ CloseIsAnswered)
BY Invariance, IInvImplies, PTL

\* Nothing is left waiting on a connection that ended, and the process goes
\* down only over a lost socket.
THEOREM EndsClean == Spec => [](EndedWaitsForNothing /\ CrashNeedsLostSocket)
BY Invariance, IInvImplies, PTL

--------------------------------------------------------------------------------
(* The timers: an invariant of its own, of one connection again, on top of IInv *)

\* A connection is timed when a timer runs for each wait of its phase; what the
\* functions of the server do to phase and timers, one by one.
LEMMA PhaseTimed ==
  ASSUME NEW r \in Connection
  PROVE  /\ r.phase \notin {"tls", "handshake", "head", "length", "content"} => Timed(r)
         /\ Timed(accept(r))
         /\ Timed(End(r))
         /\ Timed(read_handshake(r))
         /\ \A socket : Timed(accepted(r, socket))
<1>1. r.phase \notin {"tls", "handshake", "head", "length", "content"} => Timed(r)
  BY DEF Timed
<1>2. Timed(accept(r)) /\ Timed(End(r))
  BY DEF accept, Begin, End, Timed, Connection
<1>3. Timed(read_handshake(r))
  BY ConnectionAssumption DEF read_handshake, Begin, Timed, Runs, Connection
<1>4. ASSUME NEW socket PROVE Timed(accepted(r, socket))
  BY <1>3, ConnectionAssumption DEF accepted, Begin, Timed, Runs, Connection
<1> QED
  BY <1>1, <1>2, <1>3, <1>4

\* The idle timer begins to wait when the connection opens.
LEMMA OpenTimed ==
  ASSUME NEW r \in Connection
  PROVE  Timed(Begin(connection_open(r), "head"))
BY DEF connection_open, timer_idle_init, Begin, Timed, Runs, Connection

\* The loop that reads messages leaves the timer as it is.
LEMMA LoopTimed ==
  ASSUME NEW r \in Connection, Timed(r), Good(r), r.phase \in {"head", "length", "content"},
         NEW phase \in {"head", "length", "content"}
  PROVE  Timed(Begin(r, phase)) /\ Timed(Begin(timer_idle_reset(r), phase))
BY DEF Begin, timer_idle_reset, Timed, Runs, Connection

\* A connection that is left waits for nothing.
LEMMA LeaveTimed ==
  ASSUME NEW r \in Connection, Good(r), ~r.crashed, NEW callback,
         r.phase \in {"upgrade", "head", "length", "content"}
  PROVE  Timed(Leave(r, callback))
<1> DEFINE s == timer_idle_cancel(r)
<1>1. CASE s.crashed
  <2>1. Leave(r, callback).phase = r.phase /\ r.phase = "upgrade"
    BY <1>1 DEF Leave, timer_idle_cancel, Connection, Good, WhileOpen
  <2> QED
    BY <2>1 DEF Timed
<1>2. CASE ~s.crashed
  <2>1. Leave(r, callback) = Forget(s, callback)
    BY <1>2 DEF Leave
  <2>2. "phase" \in DOMAIN s
    BY DEF timer_idle_cancel, Connection
  <2> HIDE DEF s
  <2>3. Forget(s, callback).phase = "ended"
    BY <2>2 DEF Forget, End
  <2> QED
    BY <2>1, <2>3 DEF Timed
<1> QED
  BY <1>1, <1>2

\* A step of a connection that is timed leaves it timed.
LEMMA StepTimed ==
  ASSUME IInv, ~Dead, NEW c \in Conns, Timed(conn[c]), Step(c)
  PROVE  Timed(conn'[c])
<1> DEFINE r == conn[c]
           q == conn'[c]
<1>1. /\ r \in Connection /\ Good(r) /\ ~r.crashed
      /\ DOMAIN conn = Conns
  BY DEF IInv, TypeOK, Dead
<1>2. \A t : Becomes(c, t) => q = t
  BY <1>1 DEF Becomes
<1>3. CASE AcceptDone(c)
  <2>1. q = End(r) \/ \E socket : q = accepted(r, socket)
    BY <1>3 DEF AcceptDone
  <2> QED
    BY <1>1, <2>1, PhaseTimed
<1>4. CASE TlsDone(c)
  <2> DEFINE t == [r EXCEPT !.tls = Cancelled(@)]
  <2>1. t \in Connection
    BY <1>1 DEF Cancelled, Connection
  <2>2. q = read_handshake(t) \/ q = End(t)
    BY <1>2, <1>4 DEF TlsDone
  <2> HIDE DEF t
  <2> QED
    BY <2>1, <2>2, PhaseTimed
<1>5. CASE HandshakeDone(c)
  <2> DEFINE t == [r EXCEPT !.request = Cancelled(@)]
  <2>1. t \in Connection
    BY <1>1 DEF Cancelled, Connection
  <2>2. q = End(t) \/ q = Begin(t, "upgrade")
    BY <1>2, <1>5 DEF HandshakeDone
  <2> HIDE DEF t
  <2>3. Begin(t, "upgrade") \in Connection
    BY <2>1, BeginType DEF Phases
  <2>4. Begin(t, "upgrade").phase = "upgrade"
    BY <2>1 DEF Begin, Connection
  <2> QED
    BY <2>1, <2>2, <2>3, <2>4, PhaseTimed
<1>6. CASE UpgradeDone(c)
  <2>1. r.phase = "upgrade"
        /\ (q = Begin(connection_open(r), "head") \/ q = connection_error(r))
    BY <1>2, <1>6 DEF UpgradeDone, Handles
  <2> QED
    BY <1>1, <2>1, OpenTimed, LeaveTimed DEF connection_error
<1>7. CASE HeadDone(c) \/ LengthDone(c) \/ ContentDone(c)
  <2>1. /\ r.phase \in {"head", "length", "content"}
        /\ \/ q = connection_close(send_close(r)) \/ q = connection_error(r)
           \/ \E phase \in {"head", "length", "content"} :
                q = Begin(r, phase) \/ q = Begin(timer_idle_reset(r), phase)
    BY <1>2, <1>7 DEF HeadDone, LengthDone, ContentDone, Handles
  <2>2. CASE q = connection_close(send_close(r))
    <3>1. /\ send_close(r) \in Connection /\ Good(send_close(r))
          /\ send_close(r).phase = r.phase
      BY <1>1, <2>1, SendCloseGood
    <3>2. ~send_close(r).crashed
      BY <1>1 DEF send_close, Connection
    <3> QED
      BY <2>1, <2>2, <3>1, <3>2, LeaveTimed DEF connection_close
  <2>3. CASE q = connection_error(r)
    BY <1>1, <2>1, <2>3, LeaveTimed DEF connection_error
  <2> QED
    BY <1>1, <2>1, <2>2, <2>3, LoopTimed
<1>8. CASE RequestTimedOut(c)
  <2>1. q = Shut([r EXCEPT !.request = "off"]) \/ q = Shut([r EXCEPT !.tls = "off"])
    BY <1>2, <1>8 DEF RequestTimedOut
  <2>2. (q.link = "shut" \/ q.crashed) /\ q.phase = r.phase
        /\ q.idle = r.idle /\ q.closed = r.closed
    BY <1>1, <2>1 DEF Shut, Connection
  <2> QED
    BY <2>2 DEF Timed
<1>9. CASE IdleTimedOut(c)
  <2>1. q = [send_close(r) EXCEPT !.idle = "off"]
    BY <1>2, <1>9 DEF IdleTimedOut
  <2>2. /\ q.closed /\ q.phase = r.phase /\ q.tls = r.tls /\ q.request = r.request
        /\ q.link = r.link /\ q.crashed = r.crashed
    BY <1>1, <2>1 DEF send_close, Connection
  <2> QED
    BY <2>2 DEF Timed
<1>10. CASE \/ Succeeds(c) \/ Fails(c) \/ TlsFails(c) \/ AcceptFails(c)
            \/ PeerCloses(c) \/ PeerResets(c) \/ RequestExpires(c) \/ IdleExpires(c)
  <2>1. /\ q.phase = r.phase /\ q.closed = r.closed /\ q.crashed = r.crashed
        /\ r.link = "shut" => q.link = "shut"
        /\ q.tls = r.tls \/ q.tls = "due"
        /\ q.request = r.request \/ q.request = "due"
        /\ q.idle = r.idle \/ q.idle = "due"
    BY <1>1, <1>2, <1>10 DEF Succeeds, Fails, TlsFails, AcceptFails, PeerCloses, PeerResets,
                            RequestExpires, IdleExpires, Connection
  <2> QED
    BY <2>1 DEF Timed, Runs
<1> QED
  BY <1>3, <1>4, <1>5, <1>6, <1>7, <1>8, <1>9, <1>10 DEF Step, OperationDone

\* It leaves the other connections alone, but that the next one begins to be accepted.
LEMMA OthersTimed ==
  ASSUME IInv, NEW c \in Conns, NEW d \in Conns, d # c, Timed(conn[d]), Step(c)
  PROVE  Timed(conn'[d])
<1>1. DOMAIN conn = Conns
  BY DEF IInv, TypeOK
<1>2. ASSUME NEW t, Becomes(c, t) PROVE conn'[d] = conn[d]
  BY <1>1, <1>2 DEF Becomes
<1>3. CASE AcceptDone(c)
  <2>1. conn'[d] = accept(Fresh) \/ conn'[d] = conn[d]
    BY <1>3 DEF AcceptDone
  <2> QED
    BY <2>1, FreshGood, PhaseTimed
<1>4. CASE ~AcceptDone(c)
  <2>1. \E t : Becomes(c, t)
    BY <1>4 DEF Step, OperationDone, TlsDone, HandshakeDone, UpgradeDone, HeadDone, LengthDone,
               ContentDone, RequestTimedOut, IdleTimedOut, Succeeds, Fails, TlsFails, AcceptFails,
               PeerCloses, PeerResets, RequestExpires, IdleExpires
  <2> QED
    BY <1>2, <2>1
<1> QED
  BY <1>3, <1>4

\* A silent peer is noticed in every phase in which the server waits for it: the
\* part of HandshakeEnds that is no liveness, and as much for the loop that reads
\* messages.
THEOREM WaitsHaveTimers == Spec => []WaitsAreTimed
<1>1. Init => WaitsAreTimed
  <2> SUFFICES ASSUME Init, NEW c \in Conns PROVE Timed(conn[c])
    BY DEF WaitsAreTimed
  <2>1. conn[c] = accept(Fresh) \/ conn[c] = Fresh
    BY DEF Init
  <2>2. Timed(Fresh)
    BY DEF Fresh, Timed
  <2> QED
    BY <2>1, <2>2, FreshGood, PhaseTimed
<1>2. IInv /\ WaitsAreTimed /\ [Next]_conn => WaitsAreTimed'
  <2>1. CASE UNCHANGED conn
    BY <2>1 DEF WaitsAreTimed, Timed
  <2>2. ASSUME IInv, WaitsAreTimed, ~Dead, NEW c \in Conns, Step(c) PROVE WaitsAreTimed'
    BY <2>2, StepTimed, OthersTimed DEF WaitsAreTimed
  <2> QED
    BY <2>1, <2>2 DEF Next
<1> QED
  BY <1>1, <1>2, Invariance, PTL DEF Spec
================================================================================

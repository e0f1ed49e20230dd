------------------------------- MODULE HttpServer -------------------------------
(***************************************************************************)
(* One connection of the HTTP server (server_http.hpp) and the resource    *)
(* the bot gives it (bot.cpp): requests are read, answered and, with       *)
(* keep-alive, followed by others on the same socket.  An HTTPS server     *)
(* (server_https.hpp) does a TLS handshake first, with a timer of its own. *)
(*                                                                         *)
(* The server has one io thread, so that a handler is a step.  The         *)
(* operators named after functions of the code map the server's side of    *)
(* the connection, the record server, to the next one.                     *)
(*                                                                         *)
(* What the client sends is a row of cells: one for the head of a request, *)
(* up to its empty line, and one for each part of its content.  A response *)
(* is a row of units: the first is the head, with the text when there is   *)
(* no file, and the others are those of the file.  A response leaves       *)
(* through the last reference to its Response object: the deleter sends    *)
(* what is in its buffer.                                                  *)
(***************************************************************************)
EXTENDS Naturals, Sequences, FiniteSets

CONSTANTS
  MaxRequests,      \* bound on the requests the client sends
  MaxBody,          \* bound on the cells of a request's content
  MaxFile,          \* bound on the units of a file
  Piece,            \* units of a file sent at a time: the 128 KB of bot.cpp
  RequestTimeout,   \* timeout_request > 0
  ContentTimeout,   \* timeout_content > 0
  Sockets           \* the kinds of server that accept connections

ASSUME HttpAssumption ==
  /\ MaxRequests \in Nat /\ MaxBody \in Nat /\ MaxFile \in Nat
  /\ Piece \in Nat \ {0}
  /\ RequestTimeout \in BOOLEAN
  /\ ContentTimeout \in BOOLEAN
  /\ Sockets \subseteq {"HTTP", "HTTPS"}

VARIABLES
  requests,    \* the requests the client has sent
  stream,      \* cells sent but not read
  link,        \* the socket: "up", "fin" or "reset" by the peer, "shut" here
  server,      \* the connection as the server sees it
  due,         \* is the handler of a timer queued?
  answers,     \* the responses begun, for which request, of how many units
  wire         \* the units the socket took

vars == <<requests, stream, link, server, due, answers, wire>>

\* A request that does not parse, one no resource is for, or one for a file;
\* the length of its content; do its version and header keep the connection?
\* What would not be looked at is fixed.
Request ==
  {q \in [kind : {"bad", "other", "get"}, body : 0 .. MaxBody, keep : BOOLEAN] :
     (q.kind = "bad" => q.body = 0) /\ (q.kind # "get" => q.keep)}

\* What the client has sent: early, before it had the answer to the last one?
SentAs(q, early) == [kind |-> q.kind, body |-> q.body, keep |-> q.keep, early |-> early]
Sent == {SentAs(q, early) : q \in Request, early \in BOOLEAN}
Asked(q) == [kind |-> q.kind, body |-> q.body, keep |-> q.keep]

Cell == [request : Nat, part : {"head", "body"}]
Unit == [answer : Nat, unit : Nat]

Server == [
  phase   : {"tls", "request", "content", "piece", "rest", "ended"},
  io      : {"none", "pending", "ok", "err"},   \* the operation begun last
  timer   : BOOLEAN,         \* does the timer of this phase wait?
  buffer  : Seq(Cell),       \* Request::streambuf
  current : Nat,             \* number of the request, 0 if it is none
  asked   : Request,         \* what was parsed
  need    : Nat,             \* cells of content still to be read
  out     : Seq(Unit),       \* Response::streambuf
  left    : Nat]             \* units of the file not yet read

--------------------------------------------------------------------------------
(* What the functions of the server do *)

\* No other operation: what is left of the connection is freed, its timer too.
End(s) == [s EXCEPT !.phase = "ended", !.io = "none", !.timer = FALSE]

\* Mutant of read_request_and_content: without the timer.
read_request_and_contentUntimed(s) ==
  [s EXCEPT !.phase = "request", !.io = "pending", !.timer = FALSE, !.buffer = <<>>]

\* A new Request, with a buffer of its own.
read_request_and_content(s) ==
  [s EXCEPT !.phase = "request", !.io = "pending", !.timer = RequestTimeout,
            !.buffer = <<>>]

\* accept(): on to the request, or to the TLS handshake.
accepted(s, socket) ==
  IF socket = "HTTP" THEN read_request_and_content(s)
  ELSE [s EXCEPT !.phase = "tls", !.io = "pending", !.timer = RequestTimeout]

read_content(s, length) ==
  [s EXCEPT !.phase = "content", !.io = "pending", !.timer = ContentTimeout,
            !.need = length]

Send(s, phase) == [s EXCEPT !.phase = phase, !.io = "pending"]

\* Units a .. b of answer n.
Units(n, a, b) == [i \in 1 .. (b + 1 - a) |-> [answer |-> n, unit |-> a + i - 1]]

\* Mutant of default_resource_send: the deleter sends after any piece.
default_resource_sendOnce(s, n, units) ==
  LET read == IF s.left < Piece THEN s.left ELSE Piece
      next == units - s.left + 1
  IN  Send([s EXCEPT !.out = @ \o Units(n, next, next + read - 1), !.left = @ - read], "rest")

\* The next piece of the file goes to the buffer.  One of full size is sent,
\* to come back here; after a shorter one, or none, the deleter sends.
default_resource_send(s, n, units) ==
  LET read == IF s.left < Piece THEN s.left ELSE Piece
      next == units - s.left + 1
  IN  Send([s EXCEPT !.out = @ \o Units(n, next, next + read - 1), !.left = @ - read],
           IF read = Piece THEN "piece" ELSE "rest")

\* The response begins with an empty buffer and the timer of its exchange.
write_response(s) == [s EXCEPT !.out = <<>>, !.left = 0, !.timer = ContentTimeout]

--------------------------------------------------------------------------------

Init ==
  /\ requests = <<>>
  /\ stream = <<>>
  /\ link = "up"
  /\ \E socket \in Sockets : server = accepted(
       [phase |-> "request", io |-> "none", timer |-> FALSE, buffer |-> <<>>,
        current |-> 0, asked |-> [kind |-> "bad", body |-> 0, keep |-> TRUE],
        need |-> 0, out |-> <<>>, left |-> 0], socket)
  /\ due = FALSE
  /\ answers = <<>>
  /\ wire = <<>>

\* The handler of phase runs; io says how the operation ended.
Handles(phase) == server.phase = phase /\ server.io \in {"ok", "err"}
Ok == server.io = "ok"

Answer(s, units) == answers' = Append(answers, [request |-> s.current, units |-> units])

\* Handler of async_handshake.
TlsDone ==
  /\ Handles("tls")
  /\ server' = IF Ok THEN read_request_and_content(server) ELSE End(server)
  /\ UNCHANGED <<requests, stream, link, due, answers, wire>>

\* The bot's resource for GET: an exception, of which the response is empty;
\* the text that there is no such file; or the file.
Respond(s) ==
  LET n == Len(answers) + 1
      head == Units(n, 1, 1)
  IN  \/ Answer(s, 0) /\ server' = Send(write_response(s), "rest")
      \/ Answer(s, 1) /\ server' = Send([write_response(s) EXCEPT !.out = head], "rest")
      \/ \E size \in 0 .. MaxFile :
           /\ Answer(s, size + 1)
           /\ server' = default_resource_send(
                [write_response(s) EXCEPT !.out = head, !.left = size], n, size + 1)

find_resource(s) ==
  \/ s.asked.kind = "other" /\ server' = End(s) /\ UNCHANGED answers
  \/ s.asked.kind = "get" /\ Respond(s)

\* Where the head ends that async_read_until looked for.
HeadAt == CHOOSE i \in DOMAIN server.buffer :
  /\ server.buffer[i].part = "head"
  /\ \A j \in 1 .. (i - 1) : server.buffer[j].part # "head"

\* What the head is parsed as: the request it is of, or, when cells that are
\* left over from another request stand before it, anything.
Parsed ==
  IF HeadAt = 1 THEN {Asked(requests[server.buffer[1].request])} ELSE Request

\* Mutant of RequestDone: the head is counted as content.
RequestDoneMiscounts ==
  /\ Handles("request")
  /\ IF Ok
     THEN \E q \in Parsed :
            LET additional == Len(server.buffer)
                s == [server EXCEPT !.asked = q, !.timer = FALSE,
                        !.current = IF HeadAt = 1 THEN server.buffer[1].request ELSE 0]
            IN  \/ q.kind = "bad" /\ server' = End(s) /\ UNCHANGED answers
                \/ /\ q.kind # "bad" /\ q.body > additional
                   /\ server' = read_content(s, q.body - additional)
                   /\ UNCHANGED answers
                \/ q.kind # "bad" /\ q.body <= additional /\ find_resource(s)
     ELSE server' = End(server) /\ UNCHANGED answers
  /\ UNCHANGED <<requests, stream, link, due, wire>>

\* Handler of async_read_until: parse_request, then the rest of the content.
RequestDone ==
  /\ Handles("request")
  /\ IF Ok
     THEN \E q \in Parsed :
            LET additional == Len(server.buffer) - HeadAt
                s == [server EXCEPT !.asked = q, !.timer = FALSE,
                        !.current = IF HeadAt = 1 THEN server.buffer[1].request ELSE 0]
            IN  \/ q.kind = "bad" /\ server' = End(s) /\ UNCHANGED answers
                \/ /\ q.kind # "bad" /\ q.body > additional
                   /\ server' = read_content(s, q.body - additional)
                   /\ UNCHANGED answers
                \/ q.kind # "bad" /\ q.body <= additional /\ find_resource(s)
     ELSE server' = End(server) /\ UNCHANGED answers
  /\ UNCHANGED <<requests, stream, link, due, wire>>

\* Handler of async_read.
ContentDone ==
  /\ Handles("content")
  /\ IF Ok THEN find_resource([server EXCEPT !.timer = FALSE])
           ELSE server' = End(server) /\ UNCHANGED answers
  /\ UNCHANGED <<requests, stream, link, due, wire>>

\* Callback of the file's send: the next piece, or, after an error, nothing,
\* so that the deleter sends what is left in the buffer.
PieceDone ==
  /\ Handles("piece")
  /\ server' = IF Ok
       THEN default_resource_send(server, Len(answers), answers[Len(answers)].units)
       ELSE Send(server, "rest")
  /\ UNCHANGED <<requests, stream, link, due, answers, wire>>

\* Mutant of RestDone: the connection is kept whatever was asked.
RestDoneKeeps ==
  /\ Handles("rest")
  /\ server' = IF Ok THEN read_request_and_content(server) ELSE End(server)
  /\ UNCHANGED <<requests, stream, link, due, answers, wire>>

\* Mutant of RestDone: the loop goes back to the resource, not to the read.
RestDoneRepeats ==
  /\ Handles("rest")
  /\ IF Ok /\ server.asked.keep THEN find_resource(server)
     ELSE server' = End(server) /\ UNCHANGED answers
  /\ UNCHANGED <<requests, stream, link, due, wire>>

\* Callback of the deleter's send.
RestDone ==
  /\ Handles("rest")
  /\ server' = IF Ok /\ server.asked.keep THEN read_request_and_content(server)
                                          ELSE End(server)
  /\ UNCHANGED <<requests, stream, link, due, answers, wire>>

\* Handler of a timer: it closes the socket, whatever is going on there.
TimedOut ==
  /\ due
  /\ due' = FALSE
  /\ link' = "shut"
  /\ stream' = <<>>
  /\ UNCHANGED <<requests, server, answers, wire>>

Handler == TlsDone \/ RequestDone \/ ContentDone \/ PieceDone \/ RestDone \/ TimedOut

--------------------------------------------------------------------------------
(* The client, the network and the clock *)

Pending(phases) == server.phase \in phases /\ server.io = "pending"

\* The client has the whole answer to its last request.
Answered ==
  requests = <<>> \/
  \E i \in DOMAIN answers :
    /\ answers[i].request = Len(requests)
    /\ \E j \in DOMAIN wire : wire[j] = [answer |-> i, unit |-> answers[i].units]

ClientSends(q) ==
  /\ Len(requests) < MaxRequests
  /\ link = "up"
  /\ server.phase \notin {"tls", "ended"}
  /\ requests' = Append(requests, SentAs(q, ~Answered))
  /\ stream' = stream \o [i \in 1 .. (1 + q.body) |->
       [request |-> Len(requests) + 1, part |-> IF i = 1 THEN "head" ELSE "body"]]
  /\ UNCHANGED <<link, server, due, answers, wire>>

Open == link \in {"up", "fin"}

\* The client completes the TLS handshake, or fails it.
Handshake ==
  /\ Pending({"tls"}) /\ Open
  /\ \E io \in {"ok", "err"} : server' = [server EXCEPT !.io = io]
  /\ UNCHANGED <<requests, stream, link, due, answers, wire>>

\* A read up to the end of a head also takes what has come with it.
ReadRequest(k) ==
  /\ Pending({"request"}) /\ Open
  /\ k <= Len(stream)
  /\ \E i \in 1 .. k : stream[i].part = "head"
  /\ server' = [server EXCEPT !.io = "ok", !.buffer = SubSeq(stream, 1, k)]
  /\ stream' = SubSeq(stream, k + 1, Len(stream))
  /\ UNCHANGED <<requests, link, due, answers, wire>>

ReadContent ==
  /\ Pending({"content"}) /\ Open
  /\ server.need <= Len(stream)
  /\ server' = [server EXCEPT !.io = "ok", !.buffer = @ \o SubSeq(stream, 1, server.need)]
  /\ stream' = SubSeq(stream, server.need + 1, Len(stream))
  /\ UNCHANGED <<requests, link, due, answers, wire>>

\* A write of nothing succeeds on any socket.
Write ==
  /\ Pending({"piece", "rest"})
  /\ Open \/ server.out = <<>>
  /\ server' = [server EXCEPT !.io = "ok", !.out = <<>>]
  /\ wire' = wire \o server.out
  /\ UNCHANGED <<requests, stream, link, due, answers>>

\* The end of the stream comes before what the read waits for.
EndOfFile ==
  /\ link = "fin"
  /\ \/ Pending({"tls"})
     \/ Pending({"request"}) /\ \A i \in DOMAIN stream : stream[i].part # "head"
     \/ Pending({"content"}) /\ Len(stream) < server.need

Fail ==
  /\ \/ EndOfFile
     \/ Pending({"tls", "request", "content"}) /\ ~Open
     \/ Pending({"piece", "rest"}) /\ ~Open /\ server.out # <<>>
  /\ server' = [server EXCEPT !.io = "err"]
  /\ UNCHANGED <<requests, stream, link, due, answers, wire>>

PeerCloses ==
  /\ link = "up"
  /\ link' = "fin"
  /\ UNCHANGED <<requests, stream, server, due, answers, wire>>

PeerResets ==
  /\ Open
  /\ link' = "reset"
  /\ stream' = <<>>
  /\ UNCHANGED <<requests, server, due, answers, wire>>

TimerExpires ==
  /\ server.timer
  /\ server' = [server EXCEPT !.timer = FALSE]
  /\ due' = TRUE
  /\ UNCHANGED <<requests, stream, link, answers, wire>>

Next ==
  \/ TlsDone \/ RequestDone \/ ContentDone \/ PieceDone \/ RestDone \/ TimedOut
  \/ \E q \in Request : ClientSends(q)
  \/ \E k \in 1 .. Len(stream) : ReadRequest(k)
  \/ Handshake \/ ReadContent \/ Write \/ Fail
  \/ PeerCloses \/ PeerResets
  \/ TimerExpires

Spec == Init /\ [][Next]_vars

\* Handlers that are ready run, time passes, operations on a closed socket
\* fail and writes of nothing succeed.  The client need not do anything.
Fairness ==
  /\ WF_vars(Handler)
  /\ WF_vars(TimerExpires)
  /\ WF_vars(Fail)
  /\ WF_vars(Write /\ server.out = <<>>)

FairSpec == Spec /\ Fairness

--------------------------------------------------------------------------------
(* Properties *)

TypeOK ==
  /\ requests \in Seq(Sent)
  /\ stream \in Seq(Cell)
  /\ link \in {"up", "fin", "reset", "shut"}
  /\ server \in Server
  /\ due \in BOOLEAN
  /\ answers \in Seq([request : Nat, units : Nat])
  /\ wire \in Seq(Unit)

OnWire == {wire[i] : i \in DOMAIN wire}

\* Unit u of an answer comes before v.
Before(u, v) == u.answer < v.answer \/ (u.answer = v.answer /\ u.unit < v.unit)

\* All units of the answers begun so far.
Promised ==
  UNION {{[answer |-> n, unit |-> u] : u \in 1 .. answers[n].units} : n \in DOMAIN answers}

\* The client reads the answers one after the other, each with its units in
\* order, none twice and none left out, whatever the size of the file; the next
\* request is read only when the answer before it, as long as its Content-Length
\* says, has been written.
AnswersInOrder ==
  /\ \A i, j \in DOMAIN wire : i < j => Before(wire[i], wire[j])
  /\ \A v \in OnWire : v \in Promised /\ \A u \in Promised : Before(u, v) => u \in OnWire
  /\ server.phase = "request" => Promised \subseteq OnWire

\* A client that waits for its answers gets them in the order of its requests.
AnswersMatch ==
  (\A i \in DOMAIN requests : ~requests[i].early) =>
    \A i \in DOMAIN answers : answers[i].request = i

\* A client that does not wait never gets two answers to a request.
NoAnswerTwice ==
  \A i, j \in DOMAIN answers :
    i < j /\ answers[i].request # 0 /\ answers[j].request # 0 =>
      answers[i].request < answers[j].request

\* A resource is called when all of its request's content has been read.
ContentIsComplete ==
  server.phase \in {"piece", "rest"} /\ server.current # 0 =>
    Cardinality({i \in DOMAIN server.buffer :
      server.buffer[i] = [request |-> server.current, part |-> "body"]})
        = requests[server.current].body

\* After the answer to a request that asked for it, the connection ends.
CloseIsObeyed ==
  \A i \in DOMAIN answers :
    answers[i].request # 0 /\ ~requests[answers[i].request].keep =>
      i = Len(answers) /\ server.phase # "request"

Watched == server.timer \/ due \/ link = "shut"

\* A client that sends or takes nothing does not hold the connection: while the
\* server waits for it a timer does too, or its handler is queued, or has closed the
\* socket.  Of a connection that ended nothing is left waiting.
WaitsAreTimed ==
  /\ RequestTimeout /\ server.phase \in {"tls", "request"} => Watched
  /\ ContentTimeout /\ server.phase \in {"content", "piece", "rest"} => Watched
  /\ server.phase = "ended" => server.io = "none" /\ ~server.timer

\* A connection on which no more requests come ends, whatever its client does.
ConnectionEnds == <>(server.phase = "ended")
================================================================================

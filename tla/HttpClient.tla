------------------------------- MODULE HttpClient -------------------------------
(***************************************************************************)
(* One request of the HTTP client (http_client.cpp) for the JSON client    *)
(* (json_client.cpp): a chain of handlers on a thread of its own, which    *)
(* deletes the object when io_service::run() returns.                      *)
(*                                                                         *)
(* The server's response is a row of cells: the status line, one cell for  *)
(* each header, the blank line and the content.  TCP hands them over in    *)
(* pieces of any size, and the server may end the stream after any cell.   *)
(* The content is JSON without a blank line in it.                         *)
(***************************************************************************)
EXTENDS Naturals

CONSTANTS
  MaxEndpoints,   \* bound on the addresses the name resolves to
  MaxHeaders,     \* bound on the headers of the response
  MaxContent      \* bound on the cells of its content

ASSUME ClientAssumption ==
  /\ MaxEndpoints \in Nat \ {0}
  /\ MaxHeaders \in Nat
  /\ MaxContent \in Nat

VARIABLES
  response,    \* what the server answers
  sent,        \* cells of it the server has sent
  link,        \* "up", or ended by the server: "fin", "reset"
  phase,       \* the handler the client waits for
  io,          \* the operation begun last, with its result
  endpoints,   \* addresses not yet tried
  received,    \* cells read from the socket: response_ and what it had before
  consumed,    \* cells taken out of response_
  given,       \* cells in res_
  calls,       \* times the callback was called
  freed,       \* has delete this been run?
  crashed      \* did the callback throw?

serverVars == <<response, sent, link>>
clientVars == <<phase, io, endpoints, received, consumed, given, calls, freed, crashed>>
vars == <<serverVars, clientVars>>

\* Is it HTTP with status 200, how many headers and how much content has it,
\* and is the content JSON (no part of which is JSON itself)?
Response ==
  {r \in [ok : BOOLEAN, headers : 0 .. MaxHeaders, content : 0 .. MaxContent,
          json : BOOLEAN] : r.json => r.content > 0}

Blank == response.headers + 2               \* the cell of the blank line
Total == Blank + response.content

Phases == {"resolve", "connect", "write", "status", "headers", "content", "close", "none"}

Init ==
  /\ response \in Response
  /\ sent = 0
  /\ link = "up"
  /\ phase = "resolve"
  /\ io = "pending"
  /\ endpoints \in 1 .. MaxEndpoints
  /\ received = 0
  /\ consumed = 0
  /\ given = 0
  /\ calls = 0
  /\ freed = FALSE
  /\ crashed = FALSE

--------------------------------------------------------------------------------
(* Handlers *)

Handles(p) == phase = p /\ io \in {"ok", "eof", "err"}
Ok == io = "ok"

\* Begin the operation of a phase, or none: then there is no work left.
Begin(p) == phase' = p /\ io' = "pending"
End == phase' = "none" /\ io' = "none"

handle_resolve ==
  /\ Handles("resolve")
  /\ IF Ok THEN Begin("connect") /\ endpoints' = endpoints - 1
           ELSE End /\ UNCHANGED endpoints
  /\ UNCHANGED <<serverVars, received, consumed, given, calls, freed, crashed>>

handle_connect ==
  /\ Handles("connect")
  /\ \/ Ok /\ Begin("write") /\ UNCHANGED endpoints
     \/ ~Ok /\ endpoints > 0 /\ Begin("connect") /\ endpoints' = endpoints - 1
     \/ ~Ok /\ endpoints = 0 /\ End /\ UNCHANGED endpoints
  /\ UNCHANGED <<serverVars, received, consumed, given, calls, freed, crashed>>

handle_write_request ==
  /\ Handles("write")
  /\ IF Ok THEN Begin("status") ELSE End
  /\ UNCHANGED <<serverVars, endpoints, received, consumed, given, calls, freed, crashed>>

\* An answer that is not HTTP or not 200 ends the request.
handle_read_status_line ==
  /\ Handles("status")
  /\ IF Ok
     THEN consumed' = 1 /\ (IF response.ok THEN Begin("headers") ELSE End)
     ELSE End /\ UNCHANGED consumed
  /\ UNCHANGED <<serverVars, endpoints, received, given, calls, freed, crashed>>

\* Mutant of handle_read_headers: content read with the headers is dropped.
handle_read_headersDrops ==
  /\ Handles("headers")
  /\ IF Ok THEN consumed' = received /\ Begin("content") ELSE End /\ UNCHANGED consumed
  /\ UNCHANGED <<serverVars, endpoints, received, given, calls, freed, crashed>>

\* All headers leave the buffer, and the content that came with them.
handle_read_headers ==
  /\ Handles("headers")
  /\ IF Ok
     THEN /\ consumed' = received
          /\ given' = received - Blank
          /\ Begin("content")
     ELSE End /\ UNCHANGED <<consumed, given>>
  /\ UNCHANGED <<serverVars, endpoints, received, calls, freed, crashed>>

\* The callback of json_client parses the content; it throws when it cannot,
\* and nothing above it catches.
http_cb ==
  /\ calls' = calls + 1
  /\ IF response.json /\ given = response.content
     THEN Begin("close") /\ UNCHANGED crashed
     ELSE End /\ crashed' = TRUE

\* Mutant of handle_read_content: the content is handed over with every read.
handle_read_contentEach ==
  /\ Handles("content")
  /\ \/ /\ Ok /\ given' = given + (received - consumed) /\ consumed' = received
        /\ calls' = calls + 1
        /\ Begin("content") /\ UNCHANGED crashed
     \/ io = "eof" /\ http_cb /\ UNCHANGED <<given, consumed>>
     \/ io = "err" /\ End /\ UNCHANGED <<given, consumed, calls, crashed>>
  /\ UNCHANGED <<serverVars, endpoints, received, freed>>

\* Mutant of handle_read_content: after an error it is tried again.
handle_read_contentRetries ==
  /\ Handles("content")
  /\ \/ /\ Ok /\ given' = given + (received - consumed) /\ consumed' = received
        /\ Begin("content") /\ UNCHANGED <<calls, crashed>>
     \/ io = "eof" /\ http_cb /\ UNCHANGED <<given, consumed>>
     \/ io = "err" /\ Begin("content") /\ UNCHANGED <<given, consumed, calls, crashed>>
  /\ UNCHANGED <<serverVars, endpoints, received, freed>>

handle_read_content ==
  /\ Handles("content")
  /\ \/ /\ Ok /\ given' = given + (received - consumed) /\ consumed' = received
        /\ Begin("content") /\ UNCHANGED <<calls, crashed>>
     \/ io = "eof" /\ http_cb /\ UNCHANGED <<given, consumed>>
     \/ io = "err" /\ End /\ UNCHANGED <<given, consumed, calls, crashed>>
  /\ UNCHANGED <<serverVars, endpoints, received, freed>>

\* The handler posted after the callback: close the socket, stop.
Close ==
  /\ phase = "close"
  /\ End
  /\ UNCHANGED <<serverVars, endpoints, received, consumed, given, calls, freed, crashed>>

\* Without work run() returns, and the thread deletes the object.
RunReturns ==
  /\ phase = "none" /\ ~freed
  /\ freed' = TRUE
  /\ UNCHANGED <<serverVars, phase, io, endpoints, received, consumed, given, calls, crashed>>

Handler ==
  \/ handle_resolve \/ handle_connect \/ handle_write_request
  \/ handle_read_status_line \/ handle_read_headers \/ handle_read_content
  \/ Close \/ RunReturns

--------------------------------------------------------------------------------
(* The server and the network *)

Pending(phases) == phase \in phases /\ io = "pending"

Completes(result) ==
  /\ io' = result
  /\ UNCHANGED <<serverVars, phase, endpoints, consumed, given, calls, freed, crashed>>

\* Resolving, connecting and writing succeed or fail.
OperationEnds(result) ==
  /\ Pending({"resolve", "connect", "write"})
  /\ Completes(result)
  /\ UNCHANGED received

\* What a read waits for is among the first n cells.  For the headers that is
\* "\r\n\r\n", which a blank line right after the status line is not.
Enough(n) ==
  \/ phase = "status" /\ n >= 1
  \/ phase = "headers" /\ response.headers > 0 /\ n >= Blank
  \/ phase = "content" /\ n > received

Read(n) ==
  /\ Pending({"status", "headers", "content"})
  /\ link # "reset" \/ n = received
  /\ n \in received .. sent
  /\ Enough(n)
  /\ Enough(received) => n = received
  /\ received' = n
  /\ Completes("ok")

ReadFails ==
  /\ Pending({"status", "headers", "content"})
  /\ ~Enough(received)
  /\ \/ link = "fin" /\ ~Enough(sent) /\ received' = sent /\ Completes("eof")
     \/ link = "reset" /\ UNCHANGED received /\ Completes("err")

ServerSends ==
  /\ link = "up" /\ sent < Total
  /\ phase \in {"status", "headers", "content"}
  /\ sent' = sent + 1
  /\ UNCHANGED <<response, link, clientVars>>

ServerEnds(how) ==
  /\ link = "up" \/ (link = "fin" /\ how = "reset")
  /\ phase \in {"write", "status", "headers", "content"}
  /\ link' = how
  /\ UNCHANGED <<response, sent, clientVars>>

Next ==
  /\ ~crashed
  /\ \/ handle_resolve \/ handle_connect \/ handle_write_request
     \/ handle_read_status_line \/ handle_read_headers \/ handle_read_content
     \/ Close \/ RunReturns
     \/ OperationEnds("ok") \/ OperationEnds("err")
     \/ \E n \in 0 .. Total : Read(n)
     \/ ReadFails
     \/ ServerSends
     \/ ServerEnds("fin") \/ ServerEnds("reset")

Spec == Init /\ [][Next]_vars

\* The thread runs what is ready; resolving, connecting and writing have the
\* operating system's timeouts; a stream that has ended is read to its end.
\* The server need neither send anything nor end the stream.
Fairness ==
  /\ WF_vars(~crashed /\ Handler)
  /\ WF_vars(~crashed /\ \E result \in {"ok", "err"} : OperationEnds(result))
  /\ WF_vars(~crashed /\ link # "up" /\ \E n \in 0 .. Total : Read(n))
  /\ WF_vars(~crashed /\ ReadFails)

FairSpec == Spec /\ Fairness

--------------------------------------------------------------------------------
(* Properties *)

TypeOK ==
  /\ response \in Response
  /\ sent \in 0 .. Total
  /\ link \in {"up", "fin", "reset"}
  /\ phase \in Phases
  /\ io \in {"none", "pending", "ok", "eof", "err"}
  /\ endpoints \in 0 .. MaxEndpoints
  /\ received \in 0 .. sent
  /\ consumed \in 0 .. received
  /\ given \in 0 .. response.content
  /\ calls \in Nat
  /\ freed \in BOOLEAN
  /\ crashed \in BOOLEAN

\* "Treat all data up until the EOF as the content": the callback is called at
\* most once, only for an answer of status 200 whose stream has ended, and is
\* given all the content the server has sent, however it came, and no header.
CallbackHasAll ==
  /\ calls <= 1
  /\ calls = 1 => /\ response.ok
                  /\ link # "up"
                  /\ consumed = received
                  /\ given = sent - Blank

\* The callback takes the process down only when the server ended the stream
\* early, or sent something that is not JSON.
CrashNeedsBadJson == crashed => ~response.json \/ sent < Total

\* "Read the response headers, which are terminated by a blank line": a whole
\* answer of status 200, of which the stream's end has been read, is not lost.
CompleteIsDelivered ==
  freed /\ calls = 0 /\ link = "fin" /\ received = Total => ~response.ok

\* When the server has ended the stream, the thread ends and the object goes.
EndsWithServer == link # "up" ~> freed \/ crashed
================================================================================

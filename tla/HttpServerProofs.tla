---------------------------- MODULE HttpServerProofs ---------------------------
(***************************************************************************)
(* Theorems about HttpServer: the answers of one connection are written    *)
(* one after the other, each whole, to requests in the order they came,    *)
(* none twice and none after one that closes, for every number of          *)
(* requests, length of content, size of file and size of a piece.          *)
(*                                                                         *)
(* The invariant follows a request through the connection.  StreamInv is   *)
(* about the cells that are read or still to be read, ParseInv about the   *)
(* request at hand, AnswerInv about which requests have been answered,     *)
(* WireInv about what is written of the last answer, and MatchInv about a  *)
(* client that waits.  The proof sorts the steps by what they do to these  *)
(* (Kinds), and takes each part of the invariant over each kind of step.   *)
(***************************************************************************)
EXTENDS HttpServer, SequenceFacts, TLAPS

--------------------------------------------------------------------------------
(* The phases *)

Reading == {"tls", "request", "content"}
Writing == {"piece", "rest"}

--------------------------------------------------------------------------------
(* The cells *)

\* Cells of one request after the other, the content of each behind its head.
Framed(cells) ==
  /\ \A i \in DOMAIN cells : cells[i].request \in DOMAIN requests
  /\ \A i, j \in DOMAIN cells : i < j =>
       /\ cells[i].request <= cells[j].request
       /\ cells[j].part = "head" => cells[i].request < cells[j].request
  /\ \A i, j \in DOMAIN cells : i < j /\ cells[i].part = "head" =>
       (cells[j].request = cells[i].request
          <=> j <= i + requests[cells[i].request].body)

\* The content of every head is there.
Complete(cells) ==
  \A i \in DOMAIN cells : cells[i].part = "head" =>
    i + requests[cells[i].request].body <= Len(cells)

\* The cells read of the request at hand, and those to come.
Cells == server.buffer \o stream

StreamInv ==
  /\ Framed(Cells)
  /\ link = "up" => Complete(Cells)
  /\ server.phase \in {"tls", "request"} =>
       \/ server.buffer = <<>> /\ (server.phase = "request" => server.io # "ok")
       \/ /\ server.phase = "request" /\ server.io = "ok"
          /\ \E i \in DOMAIN server.buffer : server.buffer[i].part = "head"

--------------------------------------------------------------------------------
(* The request that is served *)

Known == server.phase \in {"content"} \cup Writing /\ server.current # 0

\* Its head is where the buffer begins, and how much of its content is there.
ParseInv ==
  /\ server.phase = "content" =>
       server.buffer # <<>> /\ (server.buffer[1].part = "head" => server.current # 0)
  /\ Known =>
       /\ server.current \in DOMAIN requests
       /\ server.buffer # <<>>
       /\ server.buffer[1] = [request |-> server.current, part |-> "head"]
       /\ server.asked = Asked(requests[server.current])
       /\ server.phase = "content" /\ server.io = "pending" =>
            Len(server.buffer) + server.need = 1 + server.asked.body
       /\ server.phase = "content" /\ server.io = "ok" =>
            Len(server.buffer) = 1 + server.asked.body
       /\ server.phase \in Writing => Len(server.buffer) >= 1 + server.asked.body

--------------------------------------------------------------------------------
(* The answers *)

\* The last answer is the one that is written; of those before it none was to a
\* request that closes.  Requests that were answered do not come again.
AnswerInv ==
  /\ server.phase \in Writing =>
       answers # <<>> /\ answers[Len(answers)].request = server.current
  /\ NoAnswerTwice
  /\ \A a \in DOMAIN answers : answers[a].request # 0 =>
       /\ answers[a].request \in DOMAIN requests
       /\ \A j \in DOMAIN stream :
            stream[j].part = "head" => answers[a].request < stream[j].request
       /\ server.phase = "request" => \A j \in DOMAIN server.buffer :
            server.buffer[j].part = "head" => answers[a].request < server.buffer[j].request
       /\ server.phase = "content" /\ server.current # 0 => answers[a].request < server.current
       /\ a < Len(answers) \/ server.phase \in Reading => requests[answers[a].request].keep

--------------------------------------------------------------------------------
(* The units *)

\* The wire has the answers before the last one, and w units of that.
WireUpTo(w) ==
  /\ answers # <<>> => w <= answers[Len(answers)].units
  /\ \A v \in Unit : v \in OnWire <=>
       /\ v.answer \in DOMAIN answers
       /\ v.unit \in 1 .. (IF v.answer < Len(answers) THEN answers[v.answer].units ELSE w)

\* What is in the buffer of the response follows what is on the wire, and what is
\* left of the file follows that.
Written == answers[Len(answers)].units - (server.left + Len(server.out))

WireInv ==
  /\ \A i, j \in DOMAIN wire : i < j => Before(wire[i], wire[j])
  /\ \E w \in Nat : WireUpTo(w)
  /\ server.phase \in Reading =>
       (answers # <<>> => WireUpTo(answers[Len(answers)].units))
  /\ server.phase \in Writing =>
       /\ server.left + Len(server.out) <= answers[Len(answers)].units
       /\ WireUpTo(Written)
       /\ \A i \in DOMAIN server.out :
            server.out[i] = [answer |-> Len(answers), unit |-> Written + i]
       /\ server.io = "ok" => server.out = <<>>
       /\ server.io = "err" => server.out # <<>> /\ ~Open
       /\ server.phase = "rest" => server.left = 0 \/ (server.out # <<>> /\ ~Open)

--------------------------------------------------------------------------------
(* A client that waits *)

NoneEarly == \A i \in DOMAIN requests : ~requests[i].early

\* The cells of requests not answered yet.
NextCells == IF server.phase \in Writing THEN stream ELSE Cells

\* It has one request at most that is not answered, and that is read from its start.
MatchInv ==
  NoneEarly =>
    /\ \A i \in DOMAIN answers : answers[i].request = i
    /\ server.phase # "ended" =>
         /\ \A j \in DOMAIN NextCells : NextCells[j].request = Len(answers) + 1
         /\ NextCells # <<>> => NextCells[1].part = "head"

IInv == TypeOK /\ StreamInv /\ ParseInv /\ AnswerInv /\ WireInv /\ MatchInv

--------------------------------------------------------------------------------
(* The functions of the server, field by field *)

\* No more of the connection but its buffers.
LEMMA EndFields ==
  ASSUME NEW s \in Server
  PROVE  /\ End(s) \in Server
         /\ End(s).phase = "ended"
         /\ End(s).buffer = s.buffer
BY DEF End, Server

LEMMA ReadRequestFields ==
  ASSUME NEW s \in Server
  PROVE  LET r == read_request_and_content(s)
         IN  /\ r \in Server
             /\ r.phase = "request" /\ r.io = "pending" /\ r.buffer = <<>>
<1>1. <<>> \in Seq(Cell)
  OBVIOUS
<1> QED
  BY <1>1, HttpAssumption DEF read_request_and_content, Server

LEMMA ReadContentFields ==
  ASSUME NEW s \in Server, NEW length \in Nat
  PROVE  LET r == read_content(s, length)
         IN  /\ r \in Server
             /\ r.phase = "content" /\ r.io = "pending" /\ r.need = length
             /\ r.buffer = s.buffer /\ r.current = s.current /\ r.asked = s.asked
BY HttpAssumption DEF read_content, Server

LEMMA SendFields ==
  ASSUME NEW s \in Server, NEW phase \in Writing
  PROVE  LET r == Send(s, phase)
         IN  /\ r \in Server
             /\ r.phase = phase /\ r.io = "pending"
             /\ r.out = s.out /\ r.left = s.left
             /\ r.buffer = s.buffer /\ r.current = s.current /\ r.asked = s.asked
BY DEF Send, Server, Writing

LEMMA WriteResponseFields ==
  ASSUME NEW s \in Server
  PROVE  LET r == write_response(s)
         IN  /\ r \in Server
             /\ r.out = <<>> /\ r.left = 0
             /\ r.buffer = s.buffer /\ r.current = s.current /\ r.asked = s.asked
<1>1. <<>> \in Seq(Unit)
  OBVIOUS
<1> QED
  BY <1>1, HttpAssumption DEF write_response, Server

\* Units a .. b of an answer.
LEMMA UnitsFacts ==
  ASSUME NEW n \in Nat, NEW a \in Nat, NEW b \in Int, a > 0, b + 1 - a \in Nat
  PROVE  /\ Units(n, a, b) \in [1 .. (b + 1 - a) -> Unit]
         /\ \A i \in 1 .. (b + 1 - a) : Units(n, a, b)[i] = [answer |-> n, unit |-> a + i - 1]
<1>1. \A i \in 1 .. (b + 1 - a) : [answer |-> n, unit |-> a + i - 1] \in Unit
  BY DEF Unit
<1> QED
  BY <1>1 DEF Units

\* A piece goes behind what the buffer has, and only the last one is shorter.
LEMMA PieceFields ==
  ASSUME NEW s \in Server, NEW n \in Nat, NEW units \in Nat,
         s.left <= units
  PROVE  LET r == default_resource_send(s, n, units)
             read == s.left - r.left
         IN  /\ r \in Server
             /\ r.phase \in Writing /\ r.io = "pending"
             /\ r.left <= s.left
             /\ r.phase = "rest" => r.left = 0
             /\ Len(r.out) = Len(s.out) + read
             /\ \A i \in 1 .. Len(s.out) : r.out[i] = s.out[i]
             /\ \A i \in 1 .. read :
                  r.out[Len(s.out) + i] = [answer |-> n, unit |-> units - s.left + i]
             /\ r.buffer = s.buffer /\ r.current = s.current /\ r.asked = s.asked
<1> DEFINE r == default_resource_send(s, n, units)
           read == IF s.left < Piece THEN s.left ELSE Piece
           next == units - s.left + 1
           block == Units(n, next, next + read - 1)
           phase == IF read = Piece THEN "piece" ELSE "rest"
           t == [s EXCEPT !.out = @ \o block, !.left = @ - read]
<1>1. /\ s.left \in Nat /\ s.out \in Seq(Unit) /\ read \in Nat /\ read <= s.left
      /\ next \in Nat \ {0}
      /\ read # Piece => read = s.left
  BY HttpAssumption DEF Server
<1>2. r = Send(t, phase)
  BY DEF default_resource_send
<1> HIDE DEF next, read
<1>3. /\ block \in [1 .. read -> Unit]
      /\ \A i \in 1 .. read : block[i] = [answer |-> n, unit |-> next + i - 1]
  <2> DEFINE b == next + read - 1
  <2>1. b \in Int /\ b + 1 - next = read /\ next > 0
    BY <1>1
  <2> HIDE DEF b
  <2>2. /\ Units(n, next, b) \in [1 .. (b + 1 - next) -> Unit]
        /\ \A i \in 1 .. (b + 1 - next) :
             Units(n, next, b)[i] = [answer |-> n, unit |-> next + i - 1]
    BY <1>1, <2>1, UnitsFacts
  <2> QED
    BY <2>1, <2>2 DEF b
<1> HIDE DEF block
<1>4. /\ s.out \o block \in Seq(Unit)
      /\ Len(s.out \o block) = Len(s.out) + read
      /\ \A i \in 1 .. Len(s.out) : (s.out \o block)[i] = s.out[i]
      /\ \A i \in 1 .. read : (s.out \o block)[Len(s.out) + i] = block[i]
  <2> DEFINE o == s.out
  <2>1. o \in Seq(Unit) /\ read \in Nat /\ block \in [1 .. read -> Unit]
    BY <1>1, <1>3
  <2> HIDE DEF o
  <2>2. /\ o \o block \in Seq(Unit)
        /\ Len(o \o block) = Len(o) + read
        /\ \A i \in 1 .. Len(o) : (o \o block)[i] = o[i]
        /\ \A i \in 1 .. read : (o \o block)[Len(o) + i] = block[i]
    BY <2>1, ConcatFacts
  <2> QED
    BY <2>2 DEF o
<1>5. /\ t \in Server
      /\ t.out = s.out \o block /\ t.left = s.left - read
      /\ t.buffer = s.buffer /\ t.current = s.current /\ t.asked = s.asked
  <2> DEFINE o == s.out \o block
             l == s.left - read
  <2>1. o \in Seq(Unit) /\ l \in Nat
    BY <1>1, <1>4
  <2>2. t = [s EXCEPT !.out = o, !.left = l]
    OBVIOUS
  <2> HIDE DEF t, o, l
  <2>3. /\ t \in Server /\ t.out = o /\ t.left = l
        /\ t.buffer = s.buffer /\ t.current = s.current /\ t.asked = s.asked
    BY <2>1, <2>2 DEF Server
  <2> QED
    BY <2>3 DEF o, l
<1>6. phase \in Writing
  BY DEF Writing
<1> HIDE DEF t
<1>7. /\ r \in Server /\ r.phase = phase /\ r.io = "pending"
      /\ r.out = t.out /\ r.left = t.left
      /\ r.buffer = t.buffer /\ r.current = t.current /\ r.asked = t.asked
  BY <1>2, <1>5, <1>6, SendFields, SMTT(30)
<1>8. s.left - r.left = read /\ r.left <= s.left
  BY <1>1, <1>5, <1>7
<1>9. r.phase = "rest" => r.left = 0
  BY <1>1, <1>5, <1>7
<1>10. \A i \in 1 .. read : next + i - 1 = units - s.left + i
  BY <1>1 DEF next
<1> HIDE DEF r, phase
<1>11. /\ r \in Server /\ r.phase \in Writing /\ r.io = "pending"
       /\ r.buffer = s.buffer /\ r.current = s.current /\ r.asked = s.asked
  BY <1>5, <1>6, <1>7
<1>12. /\ Len(r.out) = Len(s.out) + (s.left - r.left)
       /\ \A i \in 1 .. Len(s.out) : r.out[i] = s.out[i]
  BY <1>4, <1>5, <1>7, <1>8
<1>13. ASSUME NEW i \in 1 .. (s.left - r.left)
       PROVE  r.out[Len(s.out) + i] = [answer |-> n, unit |-> units - s.left + i]
  <2>1. i \in 1 .. read
    BY <1>8
  <2>2. r.out[Len(s.out) + i] = block[i]
    BY <1>4, <1>5, <1>7, <2>1
  <2>3. block[i] = [answer |-> n, unit |-> next + i - 1]
    BY <1>3, <2>1
  <2> QED
    BY <1>10, <2>1, <2>2, <2>3
<1> QED
  BY <1>8, <1>9, <1>11, <1>12, <1>13 DEF r

--------------------------------------------------------------------------------
(* Rows of cells *)

\* The types that are used most.
LEMMA StateTypes ==
  ASSUME TypeOK
  PROVE  /\ server \in Server
         /\ server.buffer \in Seq(Cell) /\ stream \in Seq(Cell) /\ Cells \in Seq(Cell)
         /\ server.current \in Nat /\ server.need \in Nat /\ server.left \in Nat
         /\ server.asked \in Request
         /\ server.out \in Seq(Unit)
<1>1. server \in Server /\ stream \in Seq(Cell)
  BY DEF TypeOK
<1>2. /\ server.buffer \in Seq(Cell)
      /\ server.current \in Nat /\ server.need \in Nat /\ server.left \in Nat
      /\ server.asked \in Request
      /\ server.out \in Seq(Unit)
  BY <1>1 DEF Server
<1>3. Cells \in Seq(Cell)
  BY <1>1, <1>2, ConcatProperties DEF Cells
<1> QED
  BY <1>1, <1>2, <1>3

\* Of what a request asks for, the length of its content is a number.
LEMMA RequestTypes ==
  ASSUME requests \in Seq(Sent), NEW r \in DOMAIN requests
  PROVE  /\ r \in Nat \ {0}
         /\ requests[r].body \in Nat
         /\ Asked(requests[r]) \in Request
         /\ Asked(requests[r]).body = requests[r].body
         /\ Asked(requests[r]).keep = requests[r].keep
<1>1. r \in 1 .. Len(requests) /\ requests[r] \in Sent
  BY LenProperties, ElementOfSeq
<1>2. PICK q \in Request, early \in BOOLEAN : requests[r] = SentAs(q, early)
  BY <1>1 DEF Sent
<1>3. /\ requests[r].kind = q.kind /\ requests[r].body = q.body /\ requests[r].keep = q.keep
  BY <1>2 DEF SentAs
<1>4. Asked(requests[r]) = q
  BY <1>3 DEF Asked, Request
<1>5. q.body \in Nat
  BY HttpAssumption DEF Request
<1> QED
  BY <1>1, <1>3, <1>4, <1>5

\* What is cut from the front or the end of such a row is one.
LEMMA FramedParts ==
  ASSUME requests \in Seq(Sent), NEW s \in Seq(Cell), NEW t \in Seq(Cell), Framed(s \o t)
  PROVE  Framed(s) /\ Framed(t) /\ (Complete(s \o t) => Complete(t))
<1>1. /\ Len(s) \in Nat /\ Len(t) \in Nat
      /\ DOMAIN s = 1 .. Len(s) /\ DOMAIN t = 1 .. Len(t)
      /\ DOMAIN (s \o t) = 1 .. Len(s) + Len(t)
      /\ Len(s \o t) = Len(s) + Len(t)
  BY LenProperties, ConcatProperties
<1>2. \A i \in 1 .. Len(s) : (s \o t)[i] = s[i] /\ i \in DOMAIN (s \o t)
  BY <1>1, ConcatProperties
<1>3. \A i \in 1 .. Len(t) : (s \o t)[Len(s) + i] = t[i] /\ Len(s) + i \in DOMAIN (s \o t)
  <2> SUFFICES ASSUME NEW i \in 1 .. Len(t)
               PROVE  (s \o t)[Len(s) + i] = t[i] /\ Len(s) + i \in DOMAIN (s \o t)
    OBVIOUS
  <2>1. /\ Len(s) + i \in 1 .. Len(s) + Len(t)
        /\ ~(Len(s) + i <= Len(s)) /\ (Len(s) + i) - Len(s) = i
    BY <1>1
  <2> QED
    BY <1>1, <2>1, ConcatProperties
<1>4. Framed(s)
  BY <1>1, <1>2 DEF Framed
<1>5. Framed(t)
  <2>1. \A i \in DOMAIN t : t[i].request \in DOMAIN requests
    BY <1>1, <1>3 DEF Framed
  <2>2. ASSUME NEW i \in DOMAIN t, NEW j \in DOMAIN t, i < j
        PROVE  /\ t[i].request <= t[j].request
               /\ t[j].part = "head" => t[i].request < t[j].request
               /\ t[i].part = "head" =>
                    (t[j].request = t[i].request <=> j <= i + requests[t[i].request].body)
    <3>1. PICK a, b \in DOMAIN (s \o t) :
            /\ a = Len(s) + i /\ b = Len(s) + j /\ a < b
            /\ (s \o t)[a] = t[i] /\ (s \o t)[b] = t[j]
      <4>1. Len(s) + i < Len(s) + j
        BY <1>1, <2>2
      <4> QED
        BY <1>1, <1>3, <4>1
    <3>2. /\ t[i].request <= t[j].request
          /\ t[j].part = "head" => t[i].request < t[j].request
      BY <3>1 DEF Framed
    <3>3. t[i].part = "head" =>
            (t[j].request = t[i].request
               <=> Len(s) + j <= (Len(s) + i) + requests[t[i].request].body)
      BY <3>1, SMTT(30) DEF Framed
    <3> DEFINE content == requests[t[i].request].body
    <3>4. content \in Nat
      BY <2>1, RequestTypes
    <3>5. Len(s) \in Nat /\ i \in Nat /\ j \in Nat
      BY <1>1
    <3> HIDE DEF content
    <3>6. Len(s) + j <= (Len(s) + i) + content <=> j <= i + content
      BY <3>4, <3>5, SMTT(30)
    <3>7. t[i].part = "head" => (t[j].request = t[i].request <=> j <= i + content)
      BY <3>3, <3>6 DEF content
    <3> QED
      BY <3>2, <3>7 DEF content
  <2> QED
    BY <2>1, <2>2 DEF Framed
<1>6. ASSUME Complete(s \o t), NEW i \in DOMAIN t, t[i].part = "head"
      PROVE  i + requests[t[i].request].body <= Len(t)
  <2>1. (Len(s) + i) + requests[t[i].request].body <= Len(s) + Len(t)
    BY <1>1, <1>3, <1>6 DEF Complete
  <2>2. requests[t[i].request].body \in Nat
    BY <1>5, RequestTypes DEF Framed
  <2> QED
    BY <1>1, <2>1, <2>2
<1> QED
  BY <1>4, <1>5, <1>6 DEF Complete

\* The cells of the next request go behind a row that is complete.
LEMMA FramedGrows ==
  ASSUME requests \in Seq(Sent), NEW q \in Sent, requests' = Append(requests, q),
         NEW s \in Seq(Cell), Framed(s), Complete(s),
         NEW f \in [1 .. (1 + q.body) -> Cell],
         \A i \in 1 .. (1 + q.body) :
           f[i] = [request |-> Len(requests) + 1, part |-> IF i = 1 THEN "head" ELSE "body"],
         Cells' = s \o f
  PROVE  Framed(Cells)' /\ Complete(Cells)'
<1> DEFINE row == s \o f
           last == Len(s)
           next == Len(requests) + 1
<1>1. /\ Len(requests) \in Nat /\ DOMAIN requests = 1 .. Len(requests)
      /\ DOMAIN requests' = 1 .. next
      /\ \A r \in DOMAIN requests : requests'[r] = requests[r]
      /\ requests'[next] = q
      /\ requests' \in Seq(Sent)
  BY LenProperties, AppendFacts
<1>2. q.body \in Nat
  <2>1. next \in DOMAIN requests'
    BY <1>1
  <2>2. \A r \in DOMAIN requests' : requests'[r].body \in Nat
    <3>1. PICK p \in Request, early \in BOOLEAN : q = SentAs(p, early)
      BY DEF Sent
    <3>2. q.body = p.body /\ p.body \in Nat
      BY <3>1, HttpAssumption DEF SentAs, Request
    <3>3. \A r \in DOMAIN requests : requests[r].body \in Nat
      BY RequestTypes
    <3>4. \A r \in DOMAIN requests' : r \in DOMAIN requests \/ r = next
      BY <1>1
    <3> QED
      BY <1>1, <3>2, <3>3, <3>4
  <2> QED
    BY <1>1, <2>1, <2>2
<1>3. /\ last \in Nat /\ DOMAIN s = 1 .. last
      /\ Len(row) = last + (1 + q.body)
      /\ DOMAIN row = 1 .. last + (1 + q.body)
      /\ \A i \in 1 .. last : row[i] = s[i]
      /\ \A i \in 1 .. (1 + q.body) : row[last + i] = f[i]
  <2> DEFINE n == 1 + q.body
  <2>1. n \in Nat /\ f \in [1 .. n -> Cell]
    BY <1>2
  <2> HIDE DEF n
  <2>2. /\ Len(s \o f) = Len(s) + n
        /\ DOMAIN (s \o f) = 1 .. Len(s) + n
        /\ \A i \in 1 .. Len(s) : (s \o f)[i] = s[i]
        /\ \A i \in 1 .. n : (s \o f)[Len(s) + i] = f[i]
    BY <2>1, ConcatFacts
  <2> QED
    BY <2>2, LenProperties DEF n
<1>4. ASSUME NEW i \in DOMAIN row
      PROVE  \/ i \in DOMAIN s /\ row[i] = s[i]
             \/ /\ i \notin DOMAIN s /\ i - last \in 1 .. (1 + q.body)
                /\ row[i] = [request |-> next, part |-> IF i - last = 1 THEN "head" ELSE "body"]
  <2>1. CASE i \in 1 .. last
    BY <1>3, <2>1
  <2>2. CASE i \notin 1 .. last
    <3>1. i - last \in 1 .. (1 + q.body) /\ last + (i - last) = i
      BY <1>2, <1>3, <2>2
    <3>2. row[i] = f[i - last]
      BY <1>3, <3>1
    <3> QED
      BY <1>3, <2>2, <3>1, <3>2
  <2> QED
    BY <2>1, <2>2
<1> HIDE DEF row
<1>5. \A i \in DOMAIN s : /\ s[i].request \in DOMAIN requests
                          /\ s[i].request \in Nat /\ s[i].request < next
                          /\ requests'[s[i].request] = requests[s[i].request]
                          /\ requests[s[i].request].body \in Nat
  <2> SUFFICES ASSUME NEW i \in DOMAIN s
               PROVE  /\ s[i].request \in DOMAIN requests
                      /\ s[i].request \in Nat /\ s[i].request < next
                      /\ requests'[s[i].request] = requests[s[i].request]
                      /\ requests[s[i].request].body \in Nat
    OBVIOUS
  <2>1. s[i].request \in DOMAIN requests
    BY DEF Framed
  <2> QED
    BY <1>1, <2>1, RequestTypes
<1>6. ASSUME NEW i \in DOMAIN row PROVE row[i].request \in DOMAIN requests'
  BY <1>1, <1>4, <1>5
<1>7. ASSUME NEW i \in DOMAIN row, NEW j \in DOMAIN row, i < j
      PROVE  /\ row[i].request <= row[j].request
             /\ row[j].part = "head" => row[i].request < row[j].request
             /\ row[i].part = "head" =>
                  (row[j].request = row[i].request
                     <=> j <= i + requests'[row[i].request].body)
  <2>1. CASE j \in DOMAIN s
    <3>1. i \in DOMAIN s
      BY <1>3, <1>7, <2>1
    <3>2. row[i] = s[i] /\ row[j] = s[j]
      BY <1>4, <2>1, <3>1
    <3>3. requests'[s[i].request] = requests[s[i].request]
      BY <1>5, <3>1
    <3>4. /\ s[i].request <= s[j].request
          /\ s[j].part = "head" => s[i].request < s[j].request
          /\ s[i].part = "head" =>
               (s[j].request = s[i].request <=> j <= i + requests[s[i].request].body)
      BY <1>7, <2>1, <3>1 DEF Framed
    <3> QED
      BY <3>2, <3>3, <3>4
  <2>2. CASE j \notin DOMAIN s /\ i \in DOMAIN s
    <3>1. row[j].request = next /\ row[i] = s[i] /\ row[i].request < next
      BY <1>4, <1>5, <2>2
    <3>2. row[i].part = "head" => ~(j <= i + requests'[row[i].request].body)
      <4>1. s[i].part = "head" => i + requests[s[i].request].body <= last
        BY <2>2 DEF Complete
      <4>2. j > last /\ j \in Nat /\ i \in Nat
        BY <1>2, <1>3, <2>2
      <4> QED
        BY <1>3, <1>5, <2>2, <3>1, <4>1, <4>2
    <3> QED
      BY <1>1, <1>5, <2>2, <3>1, <3>2
  <2>3. CASE j \notin DOMAIN s /\ i \notin DOMAIN s
    <3>1. /\ i - last \in 1 .. (1 + q.body) /\ j - last \in 1 .. (1 + q.body)
          /\ row[i] = [request |-> next, part |-> IF i - last = 1 THEN "head" ELSE "body"]
          /\ row[j] = [request |-> next, part |-> IF j - last = 1 THEN "head" ELSE "body"]
      BY <1>4, <2>3
    <3>2. i \in Nat /\ j \in Nat /\ j - last # 1
      BY <1>2, <1>3, <1>7, <3>1, SMTT(30)
    <3>3. row[j].part = "body" /\ row[i].request = next /\ row[j].request = next
      BY <3>1, <3>2
    <3>4. row[i].part = "head" => i - last = 1
      BY <3>1
    <3>5. row[i].part = "head" => j <= i + q.body
      BY <1>2, <1>3, <3>1, <3>2, <3>4
    <3> QED
      BY <1>1, <3>3, <3>5
  <2> QED
    BY <1>3, <1>7, <2>1, <2>2, <2>3
<1>8. ASSUME NEW i \in DOMAIN row, row[i].part = "head"
      PROVE  i + requests'[row[i].request].body <= Len(row)
  <2>1. CASE i \in DOMAIN s
    <3>1. row[i] = s[i] /\ i + requests[s[i].request].body <= last
      BY <1>4, <1>8, <2>1 DEF Complete
    <3>2. requests'[row[i].request].body = requests[s[i].request].body
          /\ requests[s[i].request].body \in Nat /\ i \in Nat
      BY <1>3, <1>5, <2>1, <3>1
    <3> DEFINE b == requests[s[i].request].body
               c == requests'[row[i].request].body
    <3> HIDE DEF b, c
    <3>3. c = b /\ b \in Nat /\ i \in Nat /\ i + b <= last
      BY <3>1, <3>2 DEF b, c
    <3>4. i + c <= Len(row)
      BY <1>2, <1>3, <3>3
    <3> QED
      BY <3>4 DEF c
  <2>2. CASE i \notin DOMAIN s
    <3>1. i - last \in 1 .. (1 + q.body)
          /\ row[i] = [request |-> next, part |-> IF i - last = 1 THEN "head" ELSE "body"]
      BY <1>4, <2>2
    <3>2. i - last = 1 /\ row[i].request = next
      BY <1>8, <3>1
    <3> QED
      BY <1>1, <1>2, <1>3, <3>1, <3>2, SMTT(30)
  <2> QED
    BY <2>1, <2>2
<1> QED
  <2>1. Cells' = row
    BY DEF row
  <2> HIDE DEF row
  <2> QED
    BY <1>6, <1>7, <1>8, <2>1 DEF Framed, Complete

\* A head that async_read_until found is the first one.
LEMMA HeadAtFacts ==
  ASSUME TypeOK, \E i \in DOMAIN server.buffer : server.buffer[i].part = "head"
  PROVE  /\ HeadAt \in DOMAIN server.buffer
         /\ HeadAt \in Nat \ {0} /\ HeadAt <= Len(server.buffer)
         /\ server.buffer[HeadAt].part = "head"
         /\ server.buffer[1].part = "head" => HeadAt = 1
<1> DEFINE heads == {i \in DOMAIN server.buffer : server.buffer[i].part = "head"}
<1>1. DOMAIN server.buffer = 1 .. Len(server.buffer) /\ Len(server.buffer) \in Nat
  BY StateTypes, LenProperties
<1>2. PICK m \in heads : \A k \in heads : m <= k
  <2>1. heads \subseteq Nat /\ heads # {}
    BY <1>1
  <2> HIDE DEF heads
  <2> QED
    BY <2>1, LeastExists
<1>3. \A j \in 1 .. (m - 1) : server.buffer[j].part # "head"
  <2> SUFFICES ASSUME NEW j \in 1 .. (m - 1), server.buffer[j].part = "head" PROVE FALSE
    OBVIOUS
  <2>1. j \in heads /\ j < m
    BY <1>1, <1>2
  <2> QED
    BY <1>1, <1>2, <2>1
<1>4. /\ HeadAt \in DOMAIN server.buffer
      /\ server.buffer[HeadAt].part = "head"
      /\ \A j \in 1 .. (HeadAt - 1) : server.buffer[j].part # "head"
  BY <1>2, <1>3 DEF HeadAt
<1>5. server.buffer[1].part = "head" => HeadAt = 1
  BY <1>1, <1>4
<1> QED
  BY <1>1, <1>4, <1>5

--------------------------------------------------------------------------------
(* What the handlers come to *)

\* The connection as it is handed on to be answered: with the request its buffer
\* begins with, when that is a head.
Serves(s) ==
  /\ s \in Server
  /\ s.buffer = server.buffer
  /\ s.current # 0 =>
       /\ s.current \in DOMAIN requests
       /\ server.buffer # <<>>
       /\ server.buffer[1] = [request |-> s.current, part |-> "head"]
       /\ s.asked = Asked(requests[s.current])
  /\ server.buffer # <<>>
  /\ server.buffer[1].part = "head" => s.current # 0

\* An answer is begun, and as many units as it has are in the buffer or left.
Answers(s) ==
  /\ server' \in Server
  /\ server'.phase \in Writing /\ server'.io = "pending"
  /\ server'.buffer = s.buffer /\ server'.current = s.current /\ server'.asked = s.asked
  /\ server'.phase = "rest" => server'.left = 0
  /\ answers' = Append(answers, [request |-> s.current,
                                 units |-> server'.left + Len(server'.out)])
  /\ \A i \in DOMAIN server'.out : server'.out[i] = [answer |-> Len(answers) + 1, unit |-> i]

LEMMA RespondAnswers ==
  ASSUME answers \in Seq([request : Nat, units : Nat]), NEW s \in Server, Respond(s)
  PROVE  Answers(s)
<1> DEFINE n == Len(answers) + 1
           w == write_response(s)
           head == Units(n, 1, 1)
           h == [w EXCEPT !.out = head]
<1>1. n \in Nat
  BY LenProperties
<1>2. /\ w \in Server /\ w.out = <<>> /\ w.left = 0
      /\ w.buffer = s.buffer /\ w.current = s.current /\ w.asked = s.asked
  BY WriteResponseFields
<1>3. /\ head \in Seq(Unit) /\ Len(head) = 1 /\ DOMAIN head = 1 .. 1
      /\ head[1] = [answer |-> n, unit |-> 1]
  <2> HIDE DEF n
  <2>1. /\ head \in [1 .. (1 + 1 - 1) -> Unit]
        /\ \A i \in 1 .. (1 + 1 - 1) : head[i] = [answer |-> n, unit |-> 1 + i - 1]
    <3>1. 1 \in Nat /\ 1 \in Int /\ 1 > 0 /\ 1 + 1 - 1 \in Nat
      OBVIOUS
    <3> QED
      BY <1>1, <3>1, UnitsFacts
  <2> HIDE DEF head
  <2>2. head \in [1 .. 1 -> Unit] /\ head[1] = [answer |-> n, unit |-> 1]
    BY <2>1
  <2>3. head \in Seq(Unit) /\ Len(head) = 1
    BY <2>2, BlockFacts
  <2> QED
    BY <2>2, <2>3
<1> HIDE DEF n, w, head
<1>4. /\ h \in Server /\ h.out = head /\ h.left = 0
      /\ h.buffer = s.buffer /\ h.current = s.current /\ h.asked = s.asked
  BY <1>2, <1>3 DEF Server
<1>5. CASE Answer(s, 0) /\ server' = Send(w, "rest")
  <2>1. /\ server' \in Server /\ server'.phase = "rest" /\ server'.io = "pending"
        /\ server'.out = <<>> /\ server'.left = 0
        /\ server'.buffer = s.buffer /\ server'.current = s.current /\ server'.asked = s.asked
    BY <1>2, <1>5, SendFields DEF Writing
  <2>2. Len(server'.out) = 0 /\ DOMAIN server'.out = {}
    BY <2>1
  <2> QED
    BY <1>5, <2>1, <2>2 DEF Answer, Answers, Writing
<1>6. CASE Answer(s, 1) /\ server' = Send(h, "rest")
  <2>1. /\ server' \in Server /\ server'.phase = "rest" /\ server'.io = "pending"
        /\ server'.out = head /\ server'.left = 0
        /\ server'.buffer = s.buffer /\ server'.current = s.current /\ server'.asked = s.asked
    <3> HIDE DEF h
    <3> QED
      BY <1>4, <1>6, SendFields DEF Writing
  <2>2. Len(server'.out) = 1 /\ \A i \in DOMAIN server'.out :
                                  server'.out[i] = [answer |-> n, unit |-> i]
    BY <1>3, <2>1
  <2>3. answers' = Append(answers, [request |-> s.current,
                                    units |-> server'.left + Len(server'.out)])
    <3>1. server'.left + Len(server'.out) = 1
      BY <2>1, <2>2
    <3> QED
      BY <1>6, <3>1 DEF Answer
  <2> QED
    BY <2>1, <2>2, <2>3 DEF Answers, Writing, n
<1>7. ASSUME NEW size \in 0 .. MaxFile, Answer(s, size + 1),
             server' = default_resource_send([w EXCEPT !.out = head, !.left = size],
                                             n, size + 1)
      PROVE  Answers(s)
  <2> DEFINE f == [w EXCEPT !.out = head, !.left = size]
             r == server'
             read == f.left - r.left
  <2>1. size \in Nat
    BY HttpAssumption
  <2>2. /\ f \in Server /\ f.out = head /\ f.left = size
        /\ f.buffer = s.buffer /\ f.current = s.current /\ f.asked = s.asked
    BY <1>2, <1>3, <2>1 DEF Server
  <2> HIDE DEF f
  <2>3. /\ r \in Server
        /\ r.phase \in Writing /\ r.io = "pending"
        /\ r.left <= f.left
        /\ r.phase = "rest" => r.left = 0
        /\ Len(r.out) = Len(f.out) + read
        /\ \A i \in 1 .. Len(f.out) : r.out[i] = f.out[i]
        /\ \A i \in 1 .. read :
             r.out[Len(f.out) + i] = [answer |-> n, unit |-> (size + 1) - f.left + i]
        /\ r.buffer = f.buffer /\ r.current = f.current /\ r.asked = f.asked
    <3> DEFINE u == size + 1
               p == default_resource_send(f, n, u)
    <3>1. f \in Server /\ f.left <= u /\ u \in Nat
      BY <2>1, <2>2
    <3> HIDE DEF u
    <3>2. /\ p \in Server
          /\ p.phase \in Writing /\ p.io = "pending"
          /\ p.left <= f.left
          /\ p.phase = "rest" => p.left = 0
          /\ Len(p.out) = Len(f.out) + (f.left - p.left)
          /\ \A i \in 1 .. Len(f.out) : p.out[i] = f.out[i]
          /\ \A i \in 1 .. (f.left - p.left) :
               p.out[Len(f.out) + i] = [answer |-> n, unit |-> u - f.left + i]
          /\ p.buffer = f.buffer /\ p.current = f.current /\ p.asked = f.asked
      BY <1>1, <3>1, PieceFields
    <3>3. r = p
      BY <1>7 DEF f, u
    <3> HIDE DEF p, r
    <3> QED
      BY <3>2, <3>3 DEF u
  <2>4. r.left \in Nat /\ DOMAIN r.out = 1 .. Len(r.out) /\ read \in Nat
    <3>1. r.left \in Nat /\ r.out \in Seq(Unit)
      BY <2>3 DEF Server
    <3> QED
      BY <2>1, <2>2, <2>3, <3>1, LenProperties
  <2> HIDE DEF r
  <2>5. r.left + Len(r.out) = size + 1
    BY <1>3, <2>1, <2>2, <2>3, <2>4
  <2>6. ASSUME NEW i \in DOMAIN r.out PROVE r.out[i] = [answer |-> n, unit |-> i]
    <3>1. CASE i = 1
      <4>1. 1 \in 1 .. Len(f.out)
        <5>1. Len(f.out) = 1
          BY <1>3, <2>2
        <5> QED
          BY <5>1
      <4> QED
        BY <1>3, <2>2, <2>3, <3>1, <4>1
    <3>2. CASE i # 1
      <4>1. i - 1 \in 1 .. read /\ 1 + (i - 1) = i /\ (size + 1) - size + (i - 1) = i
        BY <1>3, <2>1, <2>2, <2>3, <2>4, <3>2, SMTT(30)
      <4>2. r.out[1 + (i - 1)] = [answer |-> n, unit |-> (size + 1) - size + (i - 1)]
        BY <1>3, <2>2, <2>3, <4>1
      <4> QED
        BY <4>1, <4>2
    <3> QED
      BY <3>1, <3>2
  <2> QED
    BY <1>7, <2>2, <2>3, <2>5, <2>6 DEF Answer, Answers, r, n
<1> QED
  BY <1>5, <1>6, <1>7 DEF Respond, n, w, head

\* A request that no resource is for ends the connection.
LEMMA FindResource ==
  ASSUME answers \in Seq([request : Nat, units : Nat]), NEW s \in Server, find_resource(s)
  PROVE  \/ /\ server' \in Server /\ server'.phase = "ended" /\ server'.buffer = s.buffer
            /\ answers' = answers
         \/ Answers(s)
BY RespondAnswers, EndFields DEF find_resource

\* A request that has been read is answered, or its content is read, or all ends.
LEMMA RequestDoneCases ==
  ASSUME TypeOK, StreamInv, RequestDone
  PROVE  \/ /\ server' \in Server /\ server'.phase = "ended"
            /\ server'.buffer = server.buffer /\ answers' = answers
         \/ \E s \in Server :
              /\ server.io = "ok"
              /\ Serves(s)
              /\ \/ /\ answers' = answers
                    /\ server' \in Server
                    /\ server'.phase = "content" /\ server'.io = "pending"
                    /\ server'.buffer = s.buffer /\ server'.current = s.current
                    /\ server'.asked = s.asked
                    /\ s.current # 0 => Len(s.buffer) + server'.need = 1 + s.asked.body
                 \/ /\ Answers(s)
                    /\ s.current # 0 => Len(s.buffer) >= 1 + s.asked.body
<1>1. /\ server \in Server /\ server.phase = "request"
      /\ answers \in Seq([request : Nat, units : Nat])
      /\ requests \in Seq(Sent)
      /\ server.buffer \in Seq(Cell)
  BY StateTypes DEF TypeOK, RequestDone, Handles
<1>2. CASE ~Ok
  BY <1>1, <1>2, EndFields DEF RequestDone
<1>3. CASE Ok
  <2>1. \E i \in DOMAIN server.buffer : server.buffer[i].part = "head"
    BY <1>1, <1>3 DEF StreamInv, Ok
  <2>2. /\ HeadAt \in DOMAIN server.buffer
        /\ HeadAt \in Nat \ {0} /\ HeadAt <= Len(server.buffer)
        /\ server.buffer[HeadAt].part = "head"
        /\ server.buffer[1].part = "head" => HeadAt = 1
    BY <2>1, HeadAtFacts
  <2> DEFINE current == IF HeadAt = 1 THEN server.buffer[1].request ELSE 0
             additional == Len(server.buffer) - HeadAt
  <2>3. PICK q \in Parsed :
          LET s == [server EXCEPT !.asked = q, !.timer = FALSE, !.current = current]
          IN  \/ q.kind = "bad" /\ server' = End(s) /\ UNCHANGED answers
              \/ /\ q.kind # "bad" /\ q.body > additional
                 /\ server' = read_content(s, q.body - additional)
                 /\ UNCHANGED answers
              \/ q.kind # "bad" /\ q.body <= additional /\ find_resource(s)
    BY <1>3 DEF RequestDone
  <2>4. HeadAt = 1 => /\ server.buffer[1] \in Cell
                      /\ server.buffer[1].request \in DOMAIN requests
                      /\ server.buffer[1].request \in Nat \ {0}
                      /\ q = Asked(requests[server.buffer[1].request])
    <3> SUFFICES ASSUME HeadAt = 1
                 PROVE  /\ server.buffer[1] \in Cell
                        /\ server.buffer[1].request \in DOMAIN requests
                        /\ server.buffer[1].request \in Nat \ {0}
                        /\ q = Asked(requests[server.buffer[1].request])
      OBVIOUS
    <3>1. Framed(server.buffer)
      BY <1>1, StateTypes, FramedParts DEF StreamInv, Cells
    <3>2. server.buffer[1] \in Cell /\ server.buffer[1].request \in DOMAIN requests
      BY <1>1, <2>2, <3>1, LenProperties, ElementOfSeq DEF Framed
    <3>3. server.buffer[1].request \in Nat \ {0}
      BY <1>1, <3>2, RequestTypes
    <3> QED
      BY <2>3, <3>2, <3>3 DEF Parsed
  <2>5. q \in Request /\ q.body \in Nat
    <3>1. q \in Request
      BY <1>1, <2>4, RequestTypes DEF Parsed
    <3> QED
      BY <3>1, HttpAssumption DEF Request
  <2>6. /\ current \in Nat /\ additional \in Nat
        /\ current # 0 => /\ HeadAt = 1
                          /\ server.buffer[1] = [request |-> current, part |-> "head"]
                          /\ current \in DOMAIN requests
                          /\ q = Asked(requests[current])
                          /\ additional = Len(server.buffer) - 1
        /\ server.buffer[1].part = "head" => current # 0
    <3>1. Len(server.buffer) \in Nat
      BY <1>1, LenProperties
    <3> QED
      BY <2>2, <2>4, <3>1 DEF Cell
  <2> HIDE DEF current, additional
  <2> DEFINE s == [server EXCEPT !.asked = q, !.timer = FALSE, !.current = current]
  <2>7. /\ s \in Server /\ s.buffer = server.buffer /\ s.current = current /\ s.asked = q
    BY <1>1, <2>5, <2>6 DEF Server
  <2> HIDE DEF s
  <2>8. Serves(s)
    <3>1. server.buffer # <<>>
      BY <2>2
    <3> QED
      BY <2>6, <2>7, <3>1 DEF Serves
  <2>9. CASE q.kind = "bad" /\ server' = End(s) /\ UNCHANGED answers
    BY <2>7, <2>9, EndFields
  <2>10. CASE /\ q.body > additional
              /\ server' = read_content(s, q.body - additional)
              /\ UNCHANGED answers
    <3>1. q.body - additional \in Nat
      BY <2>5, <2>6, <2>10
    <3>2. /\ server' \in Server
          /\ server'.phase = "content" /\ server'.io = "pending"
          /\ server'.need = q.body - additional
          /\ server'.buffer = s.buffer /\ server'.current = s.current /\ server'.asked = s.asked
      BY <2>7, <2>10, <3>1, ReadContentFields
    <3>3. s.current # 0 => Len(s.buffer) + server'.need = 1 + s.asked.body
      <4>1. Len(server.buffer) \in Nat
        BY <1>1, LenProperties
      <4> QED
        BY <2>5, <2>6, <2>7, <3>2, <4>1
    <3> QED
      BY <1>3, <2>7, <2>8, <2>10, <3>2, <3>3 DEF Ok
  <2>11. CASE q.body <= additional /\ find_resource(s)
    <3>1. s.current # 0 => Len(s.buffer) >= 1 + s.asked.body
      <4>1. Len(server.buffer) \in Nat
        BY <1>1, LenProperties
      <4> QED
        BY <2>5, <2>6, <2>7, <2>11, <4>1
    <3> QED
      BY <1>1, <1>3, <2>7, <2>8, <2>11, <3>1, FindResource DEF Ok
  <2> QED
    BY <2>3, <2>9, <2>10, <2>11 DEF s, current, additional
<1> QED
  BY <1>2, <1>3

\* One whose content has been read is answered, or all ends.
LEMMA ContentDoneCases ==
  ASSUME TypeOK, ParseInv, ContentDone
  PROVE  \/ /\ server' \in Server /\ server'.phase = "ended"
            /\ server'.buffer = server.buffer /\ answers' = answers
         \/ \E s \in Server :
              /\ Serves(s)
              /\ s.current = server.current
              /\ Answers(s)
              /\ s.current # 0 => Len(s.buffer) >= 1 + s.asked.body
<1>1. /\ server \in Server /\ server.phase = "content"
      /\ answers \in Seq([request : Nat, units : Nat])
      /\ requests \in Seq(Sent)
      /\ server.buffer \in Seq(Cell)
  BY StateTypes DEF TypeOK, ContentDone, Handles
<1>2. CASE ~Ok
  BY <1>1, <1>2, EndFields DEF ContentDone
<1>3. CASE Ok
  <2> DEFINE s == [server EXCEPT !.timer = FALSE]
  <2>1. find_resource(s)
    BY <1>3 DEF ContentDone
  <2>2. /\ s \in Server /\ s.buffer = server.buffer
        /\ s.current = server.current /\ s.asked = server.asked
    BY <1>1 DEF Server
  <2> HIDE DEF s
  <2>3. /\ server.buffer # <<>>
        /\ server.buffer[1].part = "head" => server.current # 0
        /\ server.current # 0 =>
             /\ server.current \in DOMAIN requests
             /\ server.buffer[1] = [request |-> server.current, part |-> "head"]
             /\ server.asked = Asked(requests[server.current])
             /\ Len(server.buffer) = 1 + server.asked.body
    BY <1>1, <1>3 DEF ParseInv, Known, Ok
  <2>4. s.current # 0 => Len(s.buffer) >= 1 + s.asked.body
    <3>1. Len(server.buffer) \in Nat
      BY <1>1, LenProperties
    <3> QED
      BY <2>2, <2>3, <3>1
  <2>5. Serves(s)
    BY <2>2, <2>3 DEF Serves
  <2> QED
    BY <1>1, <2>1, <2>2, <2>4, <2>5, FindResource
<1> QED
  BY <1>2, <1>3

--------------------------------------------------------------------------------
(* The kinds of steps *)

\* An operation on the socket ends without data, a timer runs out, or the client
\* closes its side.
Quiet ==
  /\ UNCHANGED <<requests, stream, answers, wire>>
  /\ server'.phase = server.phase /\ server'.buffer = server.buffer
  /\ server'.current = server.current /\ server'.asked = server.asked
  /\ server'.need = server.need
  /\ server'.out = server.out /\ server'.left = server.left
  /\ \/ server'.io = server.io
     \/ server'.io = "ok" /\ server.phase = "tls"
     \/ /\ server'.io = "err" /\ server.io = "pending"
        /\ server.phase \in Writing => server.out # <<>> /\ ~Open
  /\ link' = link \/ (link = "up" /\ link' = "fin")

\* The connection breaks.
Breaks ==
  /\ UNCHANGED <<requests, server, answers, wire>>
  /\ stream' = <<>>
  /\ link' \in {"reset", "shut"}

\* The server is done with it.
Ends ==
  /\ UNCHANGED <<requests, stream, link, answers, wire>>
  /\ server'.phase = "ended" /\ server'.buffer = server.buffer

\* The next request is read.
GoesOn ==
  /\ UNCHANGED <<requests, stream, link, answers, wire>>
  /\ server.phase = "tls" \/ (server.phase = "rest" /\ server.io = "ok" /\ server.asked.keep)
  /\ server'.phase = "request" /\ server'.io = "pending" /\ server'.buffer = <<>>

\* The rest of its content is read.
Waits(s) ==
  /\ UNCHANGED <<requests, stream, link, answers, wire>>
  /\ server.phase = "request" /\ server.io = "ok"
  /\ Serves(s)
  /\ server'.phase = "content" /\ server'.io = "pending"
  /\ server'.buffer = server.buffer
  /\ server'.current = s.current /\ server'.asked = s.asked
  /\ s.current # 0 => Len(server.buffer) + server'.need = 1 + s.asked.body

\* Its answer is begun.
Begins(s) ==
  /\ UNCHANGED <<requests, stream, link, wire>>
  /\ \/ server.phase = "request"
     \/ server.phase = "content" /\ s.current = server.current
  /\ Serves(s)
  /\ s.current # 0 => Len(server.buffer) >= 1 + s.asked.body
  /\ Answers(s)

\* The next piece of its file is sent.
Continues ==
  /\ UNCHANGED <<requests, stream, link, answers, wire>>
  /\ server.phase = "piece" /\ server.io = "ok"
  /\ server'.phase \in Writing /\ server'.io = "pending"
  /\ server'.buffer = server.buffer
  /\ server'.current = server.current /\ server'.asked = server.asked
  /\ server'.phase = "rest" => server'.left = 0
  /\ server'.left + Len(server'.out) = server.left
  /\ \A i \in DOMAIN server'.out :
       server'.out[i] = [answer |-> Len(answers), unit |-> Written + i]

\* The deleter sends, after an error, what the buffer has.
GivesUp ==
  /\ UNCHANGED <<requests, stream, link, answers, wire>>
  /\ server.phase = "piece" /\ server.io = "err"
  /\ server'.phase = "rest" /\ server'.io = "pending"
  /\ server'.buffer = server.buffer
  /\ server'.current = server.current /\ server'.asked = server.asked
  /\ server'.out = server.out /\ server'.left = server.left

\* k cells come to the buffer.
Reads(k) ==
  /\ UNCHANGED <<requests, link, answers, wire>>
  /\ server.phase \in {"request", "content"} /\ server.io = "pending"
  /\ server.phase = "request" => \E i \in 1 .. k : stream[i].part = "head"
  /\ server.phase = "content" => k = server.need
  /\ server'.phase = server.phase /\ server'.io = "ok"
  /\ server'.current = server.current /\ server'.asked = server.asked
  /\ server'.buffer = server.buffer \o SubSeq(stream, 1, k)
  /\ stream' = SubSeq(stream, k + 1, Len(stream))

\* What the buffer of the response has goes to the wire.
Writes ==
  /\ UNCHANGED <<requests, stream, link, answers>>
  /\ server.phase \in Writing /\ server.io = "pending"
  /\ Open \/ server.out = <<>>
  /\ server'.phase = server.phase /\ server'.io = "ok"
  /\ server'.buffer = server.buffer
  /\ server'.current = server.current /\ server'.asked = server.asked
  /\ server'.out = <<>> /\ server'.left = server.left
  /\ wire' = wire \o server.out

Kinds ==
  \/ Quiet \/ Breaks \/ Ends \/ GoesOn
  \/ \E s \in Server : Waits(s) \/ Begins(s)
  \/ Continues \/ GivesUp
  \/ \E k \in 0 .. Len(stream) : Reads(k)
  \/ Writes
  \/ \E q \in Request : ClientSends(q)

LEMMA PieceDoneKinds ==
  ASSUME TypeOK, AnswerInv, WireInv, PieceDone
  PROVE  server' \in Server /\ (Continues \/ GivesUp)
<1> DEFINE units == answers[Len(answers)].units
<1>1. /\ server \in Server /\ server.phase = "piece" /\ server.phase \in Writing
      /\ server.left \in Nat /\ server.out \in Seq(Unit)
      /\ answers \in Seq([request : Nat, units : Nat])
  BY StateTypes DEF TypeOK, PieceDone, Handles, Writing
<1>2. /\ answers # <<>> /\ Len(answers) \in Nat /\ units \in Nat
      /\ server.left + Len(server.out) <= units
      /\ server.io = "ok" => server.out = <<>>
  <2>1. answers # <<>>
    BY <1>1 DEF AnswerInv
  <2>2. Len(answers) \in DOMAIN answers /\ Len(answers) \in Nat
    BY <1>1, <2>1, LenProperties
  <2>3. answers[Len(answers)] \in [request : Nat, units : Nat]
    BY <1>1, <2>2, ElementOfSeq, LenProperties
  <2> QED
    BY <1>1, <2>1, <2>2, <2>3 DEF WireInv
<1> HIDE DEF units
<1>3. CASE Ok
  <2> DEFINE p == default_resource_send(server, Len(answers), units)
             read == server.left - p.left
  <2>1. server' = p
    BY <1>3 DEF PieceDone, units
  <2>2. server.out = <<>> /\ Len(server.out) = 0 /\ server.left <= units
    BY <1>1, <1>2, <1>3 DEF Ok
  <2>3. /\ p \in Server
        /\ p.phase \in Writing /\ p.io = "pending"
        /\ p.left <= server.left
        /\ p.phase = "rest" => p.left = 0
        /\ Len(p.out) = Len(server.out) + read
        /\ \A i \in 1 .. read :
             p.out[Len(server.out) + i]
               = [answer |-> Len(answers), unit |-> units - server.left + i]
        /\ p.buffer = server.buffer /\ p.current = server.current /\ p.asked = server.asked
    <3>1. server \in Server /\ Len(answers) \in Nat /\ units \in Nat /\ server.left <= units
      BY <1>1, <1>2, <2>2
    <3> HIDE DEF p, read
    <3> QED
      BY <3>1, PieceFields DEF p, read
  <2> HIDE DEF p
  <2>4. p.left \in Nat /\ DOMAIN p.out = 1 .. Len(p.out) /\ Len(p.out) \in Nat
    BY <2>3, LenProperties DEF Server
  <2>5. read = Len(p.out) /\ p.left + Len(p.out) = server.left /\ Len(p.out) = read
    BY <1>1, <2>2, <2>3, <2>4
  <2>6. Written = units - server.left
    BY <1>1, <2>2 DEF Written, units
  <2>7. ASSUME NEW i \in DOMAIN p.out
        PROVE  p.out[i] = [answer |-> Len(answers), unit |-> Written + i]
    <3>1. i \in 1 .. read /\ Len(server.out) + i = i
      BY <2>2, <2>4, <2>5
    <3> HIDE DEF read
    <3>2. p.out[Len(server.out) + i]
            = [answer |-> Len(answers), unit |-> units - server.left + i]
      BY <2>3, <3>1 DEF read
    <3> QED
      BY <2>6, <3>1, <3>2
  <2> QED
    BY <1>1, <1>3, <2>1, <2>3, <2>5, <2>7 DEF Continues, PieceDone, Ok
<1>4. CASE ~Ok
  <2>1. server.io = "err" /\ server' = Send(server, "rest")
    BY <1>4 DEF PieceDone, Handles, Ok
  <2> QED
    BY <1>1, <2>1, SendFields DEF GivesUp, PieceDone, Writing
<1> QED
  BY <1>3, <1>4

\* What the client, the network and the clock do.
LEMMA EnvironmentKinds ==
  ASSUME TypeOK, StreamInv,
         Handshake \/ ReadContent \/ Write \/ Fail \/ PeerCloses \/ PeerResets
           \/ TimerExpires \/ TimedOut \/ UNCHANGED vars
             \/ \E k \in 1 .. Len(stream) : ReadRequest(k)
  PROVE  server' \in Server /\ Kinds
<1>1. /\ server \in Server /\ stream \in Seq(Cell) /\ Len(stream) \in Nat
      /\ server.buffer \in Seq(Cell) /\ server.out \in Seq(Unit) /\ server.need \in Nat
  BY StateTypes, LenProperties
<1>2. ASSUME NEW io \in {"ok", "err"}, server' = [server EXCEPT !.io = io]
      PROVE  /\ server' \in Server
             /\ server'.phase = server.phase /\ server'.buffer = server.buffer
             /\ server'.current = server.current /\ server'.asked = server.asked
             /\ server'.need = server.need
             /\ server'.out = server.out /\ server'.left = server.left
             /\ server'.io = io
  BY <1>1, <1>2 DEF Server
<1>3. CASE Handshake
  <2>1. server.phase = "tls" /\ UNCHANGED <<requests, stream, link, answers, wire>>
    BY <1>3 DEF Handshake, Pending
  <2>2. PICK io \in {"ok", "err"} : server' = [server EXCEPT !.io = io]
    BY <1>3 DEF Handshake
  <2> QED
    <3>1. server.io = "pending"
      BY <1>3 DEF Handshake, Pending
    <3> QED
      BY <1>2, <2>1, <2>2, <3>1 DEF Quiet, Kinds, Writing
<1>4. CASE Fail
  <2>1. /\ server.io = "pending"
        /\ server.phase \in Writing => server.out # <<>> /\ ~Open
        /\ server' = [server EXCEPT !.io = "err"]
        /\ UNCHANGED <<requests, stream, link, answers, wire>>
    BY <1>4 DEF Fail, EndOfFile, Pending, Writing
  <2> QED
    BY <1>2, <2>1 DEF Quiet, Kinds
<1>5. CASE TimerExpires
  <2>1. /\ server' = [server EXCEPT !.timer = FALSE]
        /\ UNCHANGED <<requests, stream, link, answers, wire>>
    BY <1>5 DEF TimerExpires
  <2>2. /\ server' \in Server
        /\ server'.phase = server.phase /\ server'.buffer = server.buffer
        /\ server'.current = server.current /\ server'.asked = server.asked
        /\ server'.need = server.need
        /\ server'.out = server.out /\ server'.left = server.left
        /\ server'.io = server.io
    BY <1>1, <2>1 DEF Server
  <2> QED
    BY <2>1, <2>2 DEF Quiet, Kinds
<1>6. CASE PeerCloses \/ UNCHANGED vars
  BY <1>1, <1>6 DEF PeerCloses, vars, Quiet, Kinds
<1>7. CASE PeerResets \/ TimedOut
  BY <1>1, <1>7 DEF PeerResets, TimedOut, Breaks, Kinds
<1>8. ASSUME NEW k \in 1 .. Len(stream), ReadRequest(k)
      PROVE  server' \in Server /\ Kinds
  <2> DEFINE front == SubSeq(stream, 1, k)
  <2>1. /\ server.phase = "request" /\ server.io = "pending"
        /\ \E i \in 1 .. k : stream[i].part = "head"
        /\ server' = [server EXCEPT !.io = "ok", !.buffer = front]
        /\ stream' = SubSeq(stream, k + 1, Len(stream))
        /\ UNCHANGED <<requests, link, answers, wire>>
    BY <1>8 DEF ReadRequest, Pending
  <2>2. front \in Seq(Cell) /\ k \in 0 .. Len(stream)
    <3>1. k \in 0 .. Len(stream)
      BY <1>1
    <3> QED
      BY <1>1, <3>1, CutFacts
  <2>3. server.buffer \o front = front
    <3>1. server.buffer = <<>>
      BY <2>1 DEF StreamInv
    <3> QED
      BY <2>2, <3>1, ConcatEmptySeq
  <2> HIDE DEF front
  <2>4. /\ server' \in Server
        /\ server'.phase = server.phase /\ server'.io = "ok"
        /\ server'.current = server.current /\ server'.asked = server.asked
        /\ server'.buffer = front
    BY <1>1, <2>1, <2>2 DEF Server
  <2>5. Reads(k)
    BY <2>1, <2>3, <2>4 DEF Reads, front
  <2> QED
    BY <2>2, <2>4, <2>5 DEF Kinds
<1>9. CASE ReadContent
  <2> DEFINE k == server.need
             front == SubSeq(stream, 1, k)
             row == server.buffer \o front
  <2>1. /\ server.phase = "content" /\ server.io = "pending"
        /\ k <= Len(stream)
        /\ server' = [server EXCEPT !.io = "ok", !.buffer = row]
        /\ stream' = SubSeq(stream, k + 1, Len(stream))
        /\ UNCHANGED <<requests, link, answers, wire>>
    BY <1>9 DEF ReadContent, Pending
  <2>2. k \in 0 .. Len(stream)
    BY <1>1, <2>1
  <2>3. row \in Seq(Cell)
    <3>1. front \in Seq(Cell)
      BY <1>1, <2>2, CutFacts
    <3> QED
      BY <1>1, <3>1, ConcatProperties
  <2> HIDE DEF row
  <2>4. /\ server' \in Server
        /\ server'.phase = server.phase /\ server'.io = "ok"
        /\ server'.current = server.current /\ server'.asked = server.asked
        /\ server'.buffer = row
    BY <1>1, <2>1, <2>3 DEF Server
  <2>5. Reads(k)
    BY <2>1, <2>4 DEF Reads, row
  <2> QED
    BY <2>2, <2>4, <2>5 DEF Kinds
<1>10. CASE Write
  <2>1. /\ server.phase \in Writing /\ server.io = "pending"
        /\ Open \/ server.out = <<>>
        /\ server' = [server EXCEPT !.io = "ok", !.out = <<>>]
        /\ wire' = wire \o server.out
        /\ UNCHANGED <<requests, stream, link, answers>>
    BY <1>10 DEF Write, Pending, Writing
  <2>2. <<>> \in Seq(Unit)
    OBVIOUS
  <2>3. /\ server' \in Server
        /\ server'.phase = server.phase /\ server'.io = "ok"
        /\ server'.buffer = server.buffer
        /\ server'.current = server.current /\ server'.asked = server.asked
        /\ server'.out = <<>> /\ server'.left = server.left
    BY <1>1, <2>1, <2>2 DEF Server
  <2> QED
    BY <2>1, <2>3 DEF Writes, Kinds
<1> QED
  BY <1>3, <1>4, <1>5, <1>6, <1>7, <1>8, <1>9, <1>10

\* Every step is of one of these kinds.
LEMMA NextKinds ==
  ASSUME TypeOK, StreamInv, ParseInv, AnswerInv, WireInv, [Next]_vars
  PROVE  server' \in Server /\ Kinds
<1>1. server \in Server
  BY DEF TypeOK
<1>2. CASE TlsDone
  BY <1>1, <1>2, ReadRequestFields, EndFields DEF TlsDone, Handles, Ok, GoesOn, Ends, Kinds
<1>3. CASE RestDone
  BY <1>1, <1>3, ReadRequestFields, EndFields DEF RestDone, Handles, Ok, GoesOn, Ends, Kinds
<1>4. CASE RequestDone
  <2>1. /\ UNCHANGED <<requests, stream, link, wire>>
        /\ server.phase = "request"
    BY <1>4 DEF RequestDone, Handles
  <2>2. CASE /\ server' \in Server /\ server'.phase = "ended"
             /\ server'.buffer = server.buffer /\ answers' = answers
    BY <2>1, <2>2 DEF Ends, Kinds
  <2>3. ASSUME NEW s \in Server, server.io = "ok", Serves(s),
               \/ /\ answers' = answers
                  /\ server' \in Server
                  /\ server'.phase = "content" /\ server'.io = "pending"
                  /\ server'.buffer = s.buffer /\ server'.current = s.current
                  /\ server'.asked = s.asked
                  /\ s.current # 0 => Len(s.buffer) + server'.need = 1 + s.asked.body
               \/ /\ Answers(s)
                  /\ s.current # 0 => Len(s.buffer) >= 1 + s.asked.body
        PROVE  server' \in Server /\ Kinds
    <3>1. s.buffer = server.buffer
      BY <2>3 DEF Serves
    <3>2. server' \in Server
      BY <2>3 DEF Answers
    <3>3. Waits(s) \/ Begins(s)
      BY <2>1, <2>3, <3>1 DEF Waits, Begins
    <3> QED
      BY <3>2, <3>3 DEF Kinds
  <2> QED
    BY <1>4, <2>2, <2>3, RequestDoneCases
<1>5. CASE ContentDone
  <2>1. /\ UNCHANGED <<requests, stream, link, wire>>
        /\ server.phase = "content"
    BY <1>5 DEF ContentDone, Handles
  <2>2. CASE /\ server' \in Server /\ server'.phase = "ended"
             /\ server'.buffer = server.buffer /\ answers' = answers
    BY <2>1, <2>2 DEF Ends, Kinds
  <2>3. ASSUME NEW s \in Server, Serves(s), s.current = server.current, Answers(s),
               s.current # 0 => Len(s.buffer) >= 1 + s.asked.body
        PROVE  server' \in Server /\ Kinds
    <3>1. s.buffer = server.buffer /\ server' \in Server
      BY <2>3 DEF Serves, Answers
    <3>2. Begins(s)
      BY <2>1, <2>3, <3>1 DEF Begins
    <3> QED
      BY <3>1, <3>2 DEF Kinds
  <2> QED
    BY <1>5, <2>2, <2>3, ContentDoneCases
<1>6. CASE PieceDone
  BY <1>6, PieceDoneKinds DEF Kinds
<1>7. ASSUME NEW q \in Request, ClientSends(q)
      PROVE  server' \in Server /\ Kinds
  BY <1>1, <1>7 DEF ClientSends, Kinds
<1> QED
  BY <1>2, <1>3, <1>4, <1>5, <1>6, <1>7, EnvironmentKinds DEF Next

--------------------------------------------------------------------------------
(* What each kind of step does to the parts of the invariant *)

\* A row that is framed stays so while the client sends nothing.
LEMMA RowKept ==
  ASSUME UNCHANGED requests, NEW row, Framed(row), Cells' = row
  PROVE  Framed(Cells)' /\ (Complete(row) => Complete(Cells)')
BY DEF Framed, Complete

\* What the buffer and the stream are after a step.
LEMMA CellsAfter ==
  ASSUME TypeOK, StreamInv, Kinds
  PROVE  /\ (Quiet \/ Ends \/ Continues \/ GivesUp \/ Writes
               \/ (\E s \in Server : Waits(s) \/ Begins(s))
               \/ (\E k \in 0 .. Len(stream) : Reads(k))) => Cells' = Cells
         /\ Breaks => Cells' = server.buffer
         /\ GoesOn => Cells' = stream
<1>1. server.buffer \in Seq(Cell) /\ stream \in Seq(Cell)
  BY StateTypes
<1>2. (Quiet \/ Ends \/ Continues \/ GivesUp \/ Writes
         \/ \E s \in Server : Waits(s) \/ Begins(s)) => Cells' = Cells
  BY DEF Quiet, Ends, Continues, GivesUp, Writes, Waits, Begins, Serves, Answers, Cells
<1>3. ASSUME NEW k \in 0 .. Len(stream), Reads(k) PROVE Cells' = Cells
  <2>1. /\ server'.buffer = server.buffer \o SubSeq(stream, 1, k)
        /\ stream' = SubSeq(stream, k + 1, Len(stream))
    BY <1>3 DEF Reads
  <2>2. server.buffer \o stream
          = (server.buffer \o SubSeq(stream, 1, k)) \o SubSeq(stream, k + 1, Len(stream))
    <3>1. \A s, t \in Seq(Cell) : \A n \in 0 .. Len(t) :
            s \o t = (s \o SubSeq(t, 1, n)) \o SubSeq(t, n + 1, Len(t))
      BY CutRow
    <3> QED
      BY <1>1, <3>1
  <2> QED
    BY <2>1, <2>2 DEF Cells
<1>4. Breaks => Cells' = server.buffer
  <2>1. server.buffer \o <<>> = server.buffer
    BY <1>1, ConcatEmptySeq
  <2> QED
    BY <2>1 DEF Breaks, Cells
<1>5. GoesOn => Cells' = stream
  <2>1. <<>> \o stream = stream
    BY <1>1, ConcatEmptySeq
  <2> QED
    BY <2>1 DEF GoesOn, Cells
<1> QED
  BY <1>2, <1>3, <1>4, <1>5

\* The cells of a request that the client sends.
LEMMA SendsFacts ==
  ASSUME TypeOK, StreamInv, NEW q \in Request, ClientSends(q)
  PROVE  /\ \E r \in Sent :
              /\ requests' = Append(requests, r)
              /\ r.early = ~Answered
         /\ \E f \in Seq(Cell) :
              /\ stream' = stream \o f
              /\ Cells' = Cells \o f
              /\ f # <<>> /\ f[1].part = "head"
              /\ \A i \in DOMAIN f : f[i].request = Len(requests) + 1
         /\ UNCHANGED <<link, server, answers, wire>>
         /\ link = "up"
         /\ Framed(Cells)' /\ Complete(Cells)'
<1> DEFINE r == SentAs(q, ~Answered)
           n == 1 + q.body
           next == Len(requests) + 1
           f == [i \in 1 .. n |-> [request |-> next, part |-> IF i = 1 THEN "head" ELSE "body"]]
<1>1. /\ requests' = Append(requests, r)
      /\ stream' = stream \o f
      /\ UNCHANGED <<link, server, answers, wire>>
      /\ link = "up"
  BY DEF ClientSends
<1>2. /\ r \in Sent /\ r.early = ~Answered /\ r.body = q.body
  <2> DEFINE early == ~Answered
  <2>1. early \in BOOLEAN /\ r = SentAs(q, early)
    OBVIOUS
  <2> HIDE DEF early, r
  <2>2. r \in Sent /\ r.early = early /\ r.body = q.body
    BY <2>1 DEF Sent, SentAs
  <2> QED
    BY <2>2 DEF early
<1>3. requests \in Seq(Sent) /\ stream \in Seq(Cell) /\ server.buffer \in Seq(Cell)
      /\ Cells \in Seq(Cell)
  BY StateTypes DEF TypeOK
<1>4. q.body \in Nat /\ n \in Nat \ {0} /\ next \in Nat
  BY <1>3, HttpAssumption, LenProperties DEF Request
<1> HIDE DEF r, next
<1>5. /\ f \in [1 .. n -> Cell]
      /\ \A i \in 1 .. n : f[i] = [request |-> next, part |-> IF i = 1 THEN "head" ELSE "body"]
  BY <1>4 DEF Cell
<1> HIDE DEF n, f
<1>6. f \in Seq(Cell) /\ Len(f) = n
  BY <1>4, <1>5, BlockFacts
<1>7. f # <<>> /\ f[1].part = "head" /\ \A i \in DOMAIN f : f[i].request = next
  <2>1. DOMAIN f = 1 .. n /\ 1 \in 1 .. n
    BY <1>4, <1>5
  <2>2. f # <<>>
    BY <1>4, <1>6, EmptySeq
  <2>3. \A i \in 1 .. n : f[i].request = next
    BY <1>5
  <2>4. f[1].part = "head"
    BY <1>5, <2>1
  <2> QED
    BY <2>1, <2>2, <2>3, <2>4
<1>8. Cells' = Cells \o f
  <2>1. (server.buffer \o stream) \o f = server.buffer \o (stream \o f)
    <3>1. \A s, t, u \in Seq(Cell) : (s \o t) \o u = s \o (t \o u)
      BY ConcatAssociative, SMTT(30)
    <3> QED
      BY <1>3, <1>6, <3>1
  <2> QED
    BY <1>1, <2>1 DEF Cells
<1>9. Framed(Cells)' /\ Complete(Cells)'
  <2> DEFINE row == Cells
  <2>1. Framed(row) /\ Complete(row) /\ row \in Seq(Cell)
    BY <1>1, <1>3 DEF StreamInv
  <2>2. /\ f \in [1 .. (1 + r.body) -> Cell]
        /\ \A i \in 1 .. (1 + r.body) :
             f[i] = [request |-> Len(requests) + 1, part |-> IF i = 1 THEN "head" ELSE "body"]
    BY <1>2, <1>5 DEF n, next
  <2>3. Cells' = row \o f
    BY <1>8
  <2> HIDE DEF row
  <2> QED
    BY <1>1, <1>2, <1>3, <2>1, <2>2, <2>3, FramedGrows
<1> QED
  BY <1>1, <1>2, <1>6, <1>7, <1>8, <1>9 DEF next

LEMMA StreamStep ==
  ASSUME TypeOK, StreamInv, server' \in Server, Kinds
  PROVE  StreamInv'
<1>1. /\ server.buffer \in Seq(Cell) /\ stream \in Seq(Cell) /\ requests \in Seq(Sent)
      /\ Len(stream) \in Nat
  BY StateTypes, LenProperties DEF TypeOK
<1>2. Framed(Cells)' /\ (link' = "up" => Complete(Cells)')
  <2>1. /\ Framed(Cells) /\ (link = "up" => Complete(Cells))
        /\ Framed(server.buffer) /\ Framed(stream)
        /\ link = "up" => Complete(stream)
    BY <1>1, FramedParts DEF StreamInv, Cells
  <2>2. CASE Quiet \/ Ends \/ Continues \/ GivesUp \/ Writes
               \/ (\E s \in Server : Waits(s) \/ Begins(s))
               \/ \E k \in 0 .. Len(stream) : Reads(k)
    <3>1. Cells' = Cells
      BY <2>2, CellsAfter
    <3>2. requests' = requests /\ (link' = "up" => link = "up")
      BY <2>2 DEF Quiet, Ends, Continues, GivesUp, Writes, Waits, Begins, Reads
    <3> QED
      BY <2>1, <3>1, <3>2, RowKept
  <2>3. CASE Breaks
    BY <2>1, <2>3, CellsAfter, RowKept DEF Breaks
  <2>4. CASE GoesOn
    BY <2>1, <2>4, CellsAfter, RowKept DEF GoesOn
  <2>5. CASE \E q \in Request : ClientSends(q)
    BY <2>5, SendsFacts
  <2> QED
    BY <2>2, <2>3, <2>4, <2>5 DEF Kinds
<1>3. (server.phase \in {"tls", "request"} =>
        \/ server.buffer = <<>> /\ (server.phase = "request" => server.io # "ok")
        \/ /\ server.phase = "request" /\ server.io = "ok"
           /\ \E i \in DOMAIN server.buffer : server.buffer[i].part = "head")'
  <2>1. CASE Quiet
    BY <2>1 DEF Quiet, StreamInv
  <2>2. CASE Breaks \/ (\E q \in Request : ClientSends(q))
    BY <2>2 DEF Breaks, ClientSends, StreamInv
  <2>3. CASE Ends \/ GoesOn \/ Continues \/ GivesUp \/ Writes
               \/ \E s \in Server : Waits(s) \/ Begins(s)
    BY <2>3 DEF Ends, GoesOn, Continues, GivesUp, Writes, Waits, Begins, Answers, Writing
  <2>4. ASSUME NEW k \in 0 .. Len(stream), Reads(k), server.phase = "request"
        PROVE  /\ server'.phase = "request" /\ server'.io = "ok"
               /\ \E i \in DOMAIN server'.buffer : server'.buffer[i].part = "head"
    <3> DEFINE front == SubSeq(stream, 1, k)
    <3>1. server.buffer = <<>>
      BY <2>4 DEF StreamInv, Reads
    <3>2. front \in Seq(Cell) /\ Len(front) = k /\ \A i \in 1 .. k : front[i] = stream[i]
      BY <1>1, CutFacts
    <3>3. <<>> \o front = front
      BY <3>2, ConcatEmptySeq
    <3>4. server'.buffer = front
      BY <2>4, <3>1, <3>3 DEF Reads
    <3> HIDE DEF front
    <3>5. DOMAIN front = 1 .. k
      BY <3>2, LenProperties
    <3> QED
      BY <2>4, <3>2, <3>4, <3>5 DEF Reads
  <2>5. CASE \E k \in 0 .. Len(stream) : Reads(k)
    BY <2>4, <2>5 DEF Reads
  <2> QED
    BY <2>1, <2>2, <2>3, <2>5 DEF Kinds
<1> QED
  BY <1>2, <1>3 DEF StreamInv

LEMMA ParseStep ==
  ASSUME TypeOK, StreamInv, ParseInv, server' \in Server, Kinds
  PROVE  ParseInv'
<1>1. /\ server.buffer \in Seq(Cell) /\ stream \in Seq(Cell) /\ requests \in Seq(Sent)
      /\ Len(server.buffer) \in Nat /\ server.need \in Nat /\ server.current \in Nat
      /\ Len(stream) \in Nat
  BY StateTypes, LenProperties DEF TypeOK
<1>2. CASE Quiet
  <2>1. /\ requests' = requests
        /\ server'.phase = server.phase /\ server'.buffer = server.buffer
        /\ server'.current = server.current /\ server'.asked = server.asked
        /\ server'.need = server.need
        /\ server.phase = "content" => server'.io = server.io \/ server'.io = "err"
    BY <1>2 DEF Quiet
  <2> QED
    BY <2>1 DEF ParseInv, Known
<1>3. CASE Breaks
  BY <1>3 DEF Breaks, ParseInv, Known
<1>4. CASE Ends \/ GoesOn
  BY <1>4 DEF Ends, GoesOn, ParseInv, Known, Writing
<1>5. ASSUME NEW s \in Server, Waits(s) PROVE ParseInv'
  BY <1>5 DEF Waits, Serves, ParseInv, Known, Writing
<1>6. ASSUME NEW s \in Server, Begins(s) PROVE ParseInv'
  <2>1. /\ requests' = requests
        /\ server'.phase \in Writing
        /\ server'.buffer = server.buffer
        /\ server'.current = s.current /\ server'.asked = s.asked
        /\ s.current # 0 =>
             /\ s.current \in DOMAIN requests
             /\ server.buffer # <<>>
             /\ server.buffer[1] = [request |-> s.current, part |-> "head"]
             /\ s.asked = Asked(requests[s.current])
             /\ Len(server.buffer) >= 1 + s.asked.body
    BY <1>6 DEF Begins, Serves, Answers
  <2> QED
    BY <2>1 DEF ParseInv, Known, Writing
<1>7. CASE Continues \/ GivesUp \/ Writes
  <2>1. /\ requests' = requests
        /\ server.phase \in Writing /\ server'.phase \in Writing
        /\ server'.buffer = server.buffer
        /\ server'.current = server.current /\ server'.asked = server.asked
    BY <1>7 DEF Continues, GivesUp, Writes, Writing
  <2> QED
    BY <2>1 DEF ParseInv, Known, Writing
<1>8. ASSUME NEW k \in 0 .. Len(stream), Reads(k) PROVE ParseInv'
  <2> DEFINE front == SubSeq(stream, 1, k)
  <2>1. CASE server.phase = "request"
    BY <1>8, <2>1 DEF Reads, ParseInv, Known, Writing
  <2>2. CASE server.phase = "content"
    <3>1. front \in Seq(Cell) /\ Len(front) = server.need
      BY <1>1, <1>8, <2>2, CutFacts DEF Reads
    <3>2. server'.buffer = server.buffer \o front
      BY <1>8 DEF Reads
    <3> HIDE DEF front
    <3>3. server.buffer # <<>>
      BY <2>2 DEF ParseInv
    <3>4. /\ Len(server'.buffer) = Len(server.buffer) + server.need
          /\ server'.buffer[1] = server.buffer[1]
          /\ server'.buffer # <<>>
      <4>1. 1 \in 1 .. Len(server.buffer)
        BY <1>1, <3>3, EmptySeq
      <4>2. 1 \in 1 .. Len(server.buffer) + Len(front) /\ 1 <= Len(server.buffer)
        BY <1>1, <3>1, <4>1
      <4>3. /\ server.buffer \o front \in Seq(Cell)
            /\ Len(server.buffer \o front) = Len(server.buffer) + Len(front)
            /\ (server.buffer \o front)[1] = server.buffer[1]
        BY <1>1, <3>1, <4>2, ConcatProperties
      <4>4. Len(server.buffer \o front) # 0
        BY <1>1, <3>1, <4>1, <4>3
      <4> QED
        BY <3>1, <3>2, <4>3, <4>4, EmptySeq
    <3>5. /\ requests' = requests /\ server.io = "pending"
          /\ server'.phase = "content" /\ server'.io = "ok"
          /\ server'.current = server.current /\ server'.asked = server.asked
      BY <1>8, <2>2 DEF Reads
    <3> QED
      BY <2>2, <3>3, <3>4, <3>5 DEF ParseInv, Known, Writing
  <2> QED
    BY <1>8, <2>1, <2>2 DEF Reads
<1>9. ASSUME NEW q \in Request, ClientSends(q) PROVE ParseInv'
  <2>1. PICK r \in Sent : requests' = Append(requests, r)
    BY <1>9, SendsFacts
  <2>2. /\ DOMAIN requests = 1 .. Len(requests) /\ Len(requests) \in Nat
        /\ DOMAIN requests' = 1 .. Len(requests) + 1
        /\ \A i \in DOMAIN requests : requests'[i] = requests[i] /\ i \in DOMAIN requests'
    BY <1>1, <2>1, AppendFacts, LenProperties
  <2>3. UNCHANGED server
    BY <1>9 DEF ClientSends
  <2> QED
    BY <2>2, <2>3 DEF ParseInv, Known, Asked
<1> QED
  BY <1>2, <1>3, <1>4, <1>5, <1>6, <1>7, <1>8, <1>9 DEF Kinds

\* What follows a head in the buffer is of later requests, or of its own content.
LEMMA BehindTheHead ==
  ASSUME TypeOK, StreamInv, server.buffer # <<>>, server.buffer[1].part = "head",
         NEW j \in DOMAIN stream
  PROVE  LET r == server.buffer[1].request
         IN  /\ stream[j].part = "head" => r < stream[j].request
             /\ stream[j].request = r => Len(server.buffer) + j <= 1 + requests[r].body
<1>1. /\ server.buffer \in Seq(Cell) /\ stream \in Seq(Cell)
      /\ Len(server.buffer) \in Nat /\ Len(stream) \in Nat
      /\ DOMAIN server.buffer = 1 .. Len(server.buffer) /\ DOMAIN stream = 1 .. Len(stream)
  BY StateTypes, LenProperties
<1> DEFINE b == Len(server.buffer)
           row == Cells
<1>2. Len(server.buffer) # 0
  BY <1>1, EmptySeq
<1>3. /\ DOMAIN row = 1 .. b + Len(stream)
      /\ row[1] = server.buffer[1]
      /\ row[b + j] = stream[j]
  <2>1. /\ 1 \in 1 .. b + Len(stream) /\ 1 <= b
        /\ b + j \in 1 .. b + Len(stream) /\ ~(b + j <= b) /\ (b + j) - b = j
    <3>1. b \in Nat \ {0} /\ Len(stream) \in Nat /\ j \in 1 .. Len(stream)
      BY <1>1, <1>2
    <3> HIDE DEF b
    <3>2. 1 \in 1 .. b + Len(stream) /\ 1 <= b
      BY <3>1
    <3>3. b + j \in 1 .. b + Len(stream)
      BY <3>1
    <3>4. ~(b + j <= b) /\ (b + j) - b = j
      BY <3>1
    <3> QED
      BY <3>2, <3>3, <3>4
  <2>2. /\ Len(server.buffer \o stream) = b + Len(stream)
        /\ server.buffer \o stream \in Seq(Cell)
        /\ \A i \in 1 .. b + Len(stream) :
             (server.buffer \o stream)[i] = IF i <= b THEN server.buffer[i] ELSE stream[i - b]
    BY <1>1, ConcatProperties
  <2>3. DOMAIN (server.buffer \o stream) = 1 .. b + Len(stream)
    BY <2>2, LenProperties
  <2> HIDE DEF b
  <2> QED
    BY <2>1, <2>2, <2>3 DEF Cells
<1>4. 1 \in DOMAIN row /\ b + j \in DOMAIN row /\ 1 < b + j
  BY <1>1, <1>2, <1>3
<1>5. Framed(row)
  BY DEF StreamInv
<1> HIDE DEF row, b
<1>6. /\ row[b + j].part = "head" => row[1].request < row[b + j].request
      /\ row[b + j].request = row[1].request => b + j <= 1 + requests[row[1].request].body
  BY <1>3, <1>4, <1>5 DEF Framed
<1> QED
  BY <1>3, <1>6 DEF b

\* An answer that is begun goes behind the others.
LEMMA BeginsFacts ==
  ASSUME TypeOK, StreamInv, NEW s \in Server, Begins(s)
  PROVE  /\ DOMAIN answers = 1 .. Len(answers) /\ Len(answers) \in Nat
         /\ Len(answers') = Len(answers) + 1
         /\ DOMAIN answers' = 1 .. Len(answers) + 1
         /\ \A i \in 1 .. Len(answers) : answers'[i] = answers[i]
         /\ answers'[Len(answers) + 1] = [request |-> s.current,
                                          units |-> server'.left + Len(server'.out)]
         /\ answers' # <<>>
         /\ answers' \in Seq([request : Nat, units : Nat])
         /\ server'.phase \in Writing /\ server.phase \in {"request", "content"}
         /\ server'.left \in Nat /\ Len(server'.out) \in Nat
         /\ s.current \in Nat /\ server'.current = s.current
         /\ s.current # 0 =>
              /\ s.current \in DOMAIN requests
              /\ server.buffer # <<>> /\ server.buffer[1].part = "head"
              /\ server.buffer[1].request = s.current
              /\ \A j \in DOMAIN stream :
                   stream[j].part = "head" => s.current < stream[j].request
<1> DEFINE x == [request |-> s.current, units |-> server'.left + Len(server'.out)]
<1>1. /\ answers \in Seq([request : Nat, units : Nat])
      /\ server' \in Server /\ answers' = Append(answers, x)
      /\ server'.phase \in Writing /\ server.phase \in {"request", "content"}
      /\ server'.current = s.current /\ s.current \in Nat
  BY DEF TypeOK, Begins, Answers, Server
<1>2. /\ server'.left \in Nat /\ Len(server'.out) \in Nat
      /\ x \in [request : Nat, units : Nat]
  <2>1. server'.left \in Nat /\ server'.out \in Seq(Unit)
    BY <1>1 DEF Server
  <2>2. Len(server'.out) \in Nat
    BY <2>1, LenProperties
  <2>3. server'.left + Len(server'.out) \in Nat
    BY <2>1, <2>2
  <2> QED
    BY <1>1, <2>1, <2>2, <2>3
<1> HIDE DEF x
<1>3. /\ DOMAIN answers = 1 .. Len(answers) /\ Len(answers) \in Nat
      /\ Append(answers, x) \in Seq([request : Nat, units : Nat])
      /\ Append(answers, x) # <<>>
      /\ Len(Append(answers, x)) = Len(answers) + 1
      /\ DOMAIN Append(answers, x) = 1 .. Len(answers) + 1
      /\ \A i \in 1 .. Len(answers) : Append(answers, x)[i] = answers[i]
      /\ Append(answers, x)[Len(answers) + 1] = x
  BY <1>1, <1>2, AppendFacts, LenProperties
<1>4. s.current # 0 =>
        /\ s.current \in DOMAIN requests
        /\ server.buffer # <<>> /\ server.buffer[1].part = "head"
        /\ server.buffer[1].request = s.current
  BY DEF Begins, Serves
<1>5. s.current # 0 => \A j \in DOMAIN stream :
        stream[j].part = "head" => s.current < stream[j].request
  BY <1>4, BehindTheHead
<1> QED
  BY <1>1, <1>2, <1>3, <1>4, <1>5 DEF x

\* What AnswerInv says of answer a.
AnswerKept(a) ==
  answers[a].request # 0 =>
    /\ answers[a].request \in DOMAIN requests
    /\ \A j \in DOMAIN stream :
         stream[j].part = "head" => answers[a].request < stream[j].request
    /\ server.phase = "request" => \A j \in DOMAIN server.buffer :
         server.buffer[j].part = "head" => answers[a].request < server.buffer[j].request
    /\ server.phase = "content" /\ server.current # 0 => answers[a].request < server.current
    /\ a < Len(answers) \/ server.phase \in Reading => requests[answers[a].request].keep

LEMMA AnswerStep ==
  ASSUME TypeOK, StreamInv, ParseInv, AnswerInv, server' \in Server, Kinds
  PROVE  AnswerInv'
<1>1. /\ server.buffer \in Seq(Cell) /\ stream \in Seq(Cell) /\ requests \in Seq(Sent)
      /\ answers \in Seq([request : Nat, units : Nat])
      /\ Len(stream) \in Nat /\ Len(answers) \in Nat
      /\ DOMAIN stream = 1 .. Len(stream) /\ DOMAIN answers = 1 .. Len(answers)
  BY StateTypes, LenProperties DEF TypeOK
<1>2. \A a \in DOMAIN answers : AnswerKept(a) /\ answers[a].request \in Nat
  <2>1. \A a \in DOMAIN answers : answers[a] \in [request : Nat, units : Nat]
    BY <1>1, ElementOfSeq
  <2> QED
    BY <2>1 DEF AnswerInv, AnswerKept
<1>3. ASSUME UNCHANGED answers
      PROVE  NoAnswerTwice'
  BY <1>3 DEF AnswerInv, NoAnswerTwice
<1>4. ASSUME UNCHANGED answers,
             server'.phase \in Writing =>
               server.phase \in Writing /\ server'.current = server.current,
             \A a \in DOMAIN answers : AnswerKept(a)'
      PROVE  AnswerInv'
  <2>1. answers' = answers /\ NoAnswerTwice'
    BY <1>3, <1>4
  <2>2. server'.phase \in Writing =>
          answers # <<>> /\ answers[Len(answers)].request = server'.current
    BY <1>4 DEF AnswerInv
  <2> QED
    BY <1>4, <2>1, <2>2 DEF AnswerInv, AnswerKept
<1>5. CASE Quiet \/ Breaks \/ Ends \/ Continues \/ GivesUp \/ Writes
  <2>1. /\ UNCHANGED <<requests, answers>>
        /\ stream' = stream \/ stream' = <<>>
        /\ server'.phase \in Writing =>
             server.phase \in Writing /\ server'.current = server.current
        /\ server'.phase \notin Writing \cup {"ended"} =>
             /\ server'.phase = server.phase
             /\ server'.buffer = server.buffer
             /\ server'.current = server.current
    BY <1>5 DEF Quiet, Breaks, Ends, Continues, GivesUp, Writes, Writing
  <2>2. ASSUME NEW a \in DOMAIN answers PROVE AnswerKept(a)'
    <3>1. stream' = <<>> => DOMAIN stream' = {}
      OBVIOUS
    <3> QED
      BY <1>2, <2>1, <3>1 DEF AnswerKept, Reading, Writing
  <2> QED
    BY <1>4, <2>1, <2>2
<1>6. CASE GoesOn
  <2>1. /\ UNCHANGED <<requests, stream, answers>>
        /\ server'.phase = "request" /\ server'.buffer = <<>> /\ DOMAIN server'.buffer = {}
    BY <1>6 DEF GoesOn
  <2>2. ASSUME NEW a \in DOMAIN answers, answers[a].request # 0
        PROVE  requests[answers[a].request].keep
    <3>1. CASE server.phase = "tls"
      BY <1>2, <2>2, <3>1 DEF AnswerKept, Reading
    <3>2. CASE server.phase = "rest" /\ server.asked.keep
      <4>1. CASE a < Len(answers)
        BY <1>2, <2>2, <4>1 DEF AnswerKept
      <4>2. CASE a = Len(answers)
        <5>1. answers[a].request = server.current
          BY <3>2, <4>2 DEF AnswerInv, Writing
        <5>2. server.asked = Asked(requests[server.current])
          BY <2>2, <3>2, <5>1 DEF ParseInv, Known, Writing
        <5> QED
          BY <3>2, <5>1, <5>2 DEF Asked
      <4> QED
        BY <1>1, <4>1, <4>2
    <3> QED
      BY <1>6, <3>1, <3>2 DEF GoesOn
  <2>3. ASSUME NEW a \in DOMAIN answers PROVE AnswerKept(a)'
    BY <1>2, <2>1, <2>2 DEF AnswerKept
  <2> QED
    BY <1>4, <2>1, <2>3 DEF Writing
<1>7. ASSUME NEW s \in Server, Waits(s) PROVE AnswerInv'
  <2>1. /\ UNCHANGED <<requests, stream, answers>>
        /\ server.phase = "request" /\ server'.phase = "content"
        /\ server'.current = s.current
        /\ s.current # 0 =>
             /\ server.buffer # <<>>
             /\ server.buffer[1] = [request |-> s.current, part |-> "head"]
    BY <1>7 DEF Waits, Serves
  <2>2. s.current # 0 => \A a \in DOMAIN answers :
          answers[a].request # 0 => answers[a].request < s.current
    <3>1. s.current # 0 => 1 \in DOMAIN server.buffer
      BY <1>1, <2>1, EmptySeq, LenProperties
    <3> QED
      BY <1>2, <2>1, <3>1 DEF AnswerKept
  <2>3. ASSUME NEW a \in DOMAIN answers PROVE AnswerKept(a)'
    BY <1>2, <2>1, <2>2 DEF AnswerKept, Reading
  <2> QED
    BY <1>4, <2>1, <2>3 DEF Writing
<1>8. ASSUME NEW s \in Server, Begins(s) PROVE AnswerInv'
  <2> DEFINE n == Len(answers)
  <2>1. /\ UNCHANGED <<requests, stream>>
        /\ Len(answers') = n + 1 /\ DOMAIN answers' = 1 .. n + 1
        /\ \A i \in 1 .. n : answers'[i] = answers[i]
        /\ answers'[n + 1].request = s.current
        /\ answers' # <<>>
        /\ server'.phase \in Writing /\ server'.phase \notin Reading
        /\ server.phase \in Reading
        /\ s.current \in Nat /\ server'.current = s.current
        /\ s.current # 0 =>
             /\ s.current \in DOMAIN requests
             /\ \A j \in DOMAIN stream :
                  stream[j].part = "head" => s.current < stream[j].request
    <3>1. UNCHANGED <<requests, stream>>
      BY <1>8 DEF Begins
    <3>2. /\ Len(answers') = Len(answers) + 1 /\ DOMAIN answers' = 1 .. Len(answers) + 1
          /\ \A i \in 1 .. Len(answers) : answers'[i] = answers[i]
          /\ answers'[Len(answers) + 1]
               = [request |-> s.current, units |-> server'.left + Len(server'.out)]
          /\ answers' # <<>>
          /\ server'.phase \in Writing /\ server.phase \in {"request", "content"}
          /\ s.current \in Nat /\ server'.current = s.current
          /\ s.current # 0 =>
               /\ s.current \in DOMAIN requests
               /\ \A j \in DOMAIN stream :
                    stream[j].part = "head" => s.current < stream[j].request
      BY <1>8, BeginsFacts
    <3> QED
      BY <3>1, <3>2 DEF Writing, Reading
  <2>2. s.current # 0 => \A a \in 1 .. n :
          answers[a].request # 0 => answers[a].request < s.current
    <3>1. CASE server.phase = "request"
      <4>1. s.current # 0 => /\ 1 \in DOMAIN server.buffer
                             /\ server.buffer[1] = [request |-> s.current, part |-> "head"]
        BY <1>1, <1>8, EmptySeq, LenProperties DEF Begins, Serves
      <4> QED
        <5>1. ASSUME NEW a \in 1 .. n, answers[a].request # 0, s.current # 0
              PROVE  answers[a].request < s.current
          <6>1. a \in DOMAIN answers
            BY <1>1
          <6>2. answers[a].request < server.buffer[1].request
            BY <1>2, <3>1, <4>1, <5>1, <6>1 DEF AnswerKept
          <6> QED
            BY <4>1, <5>1, <6>2
        <5> QED
          BY <5>1
    <3>2. CASE server.phase = "content" /\ s.current = server.current
      BY <1>1, <1>2, <3>2 DEF AnswerKept
    <3> QED
      BY <1>8, <3>1, <3>2 DEF Begins
  <2>3. \A a \in 1 .. n : answers[a].request # 0 => requests[answers[a].request].keep
    BY <1>1, <1>2, <2>1 DEF AnswerKept
  <2>4. ASSUME NEW a \in DOMAIN answers' PROVE AnswerKept(a)'
    <3>1. CASE a \in 1 .. n
      BY <1>1, <1>2, <2>1, <2>3, <3>1 DEF AnswerKept, Reading, Writing
    <3>2. CASE a = n + 1
      <4>1. ~(a < Len(answers'))
        BY <1>1, <2>1, <3>2
      <4> QED
        BY <2>1, <3>2, <4>1 DEF AnswerKept, Reading, Writing
    <3> QED
      BY <1>1, <2>1, <3>1, <3>2
  <2>5. NoAnswerTwice'
    <3> SUFFICES ASSUME NEW i \in DOMAIN answers', NEW j \in DOMAIN answers', i < j,
                        answers'[i].request # 0, answers'[j].request # 0
                 PROVE  answers'[i].request < answers'[j].request
      BY DEF NoAnswerTwice
    <3>1. i \in 1 .. n
      BY <1>1, <2>1
    <3>2. CASE j \in 1 .. n
      BY <1>1, <2>1, <3>1, <3>2 DEF AnswerInv, NoAnswerTwice
    <3>3. CASE j = n + 1
      BY <2>1, <2>2, <3>1, <3>3
    <3> QED
      BY <1>1, <2>1, <3>2, <3>3
  <2>6. answers'[Len(answers')].request = server'.current
    BY <2>1
  <2> QED
    BY <2>1, <2>4, <2>5, <2>6 DEF AnswerInv, AnswerKept
<1>9. ASSUME NEW k \in 0 .. Len(stream), Reads(k) PROVE AnswerInv'
  <2> DEFINE front == SubSeq(stream, 1, k)
             rest == SubSeq(stream, k + 1, Len(stream))
  <2>1. /\ UNCHANGED <<requests, answers>>
        /\ server.phase \in {"request", "content"} /\ server'.phase = server.phase
        /\ server'.current = server.current
        /\ stream' = rest
        /\ server'.buffer = server.buffer \o front
    BY <1>9 DEF Reads
  <2>2. /\ front \in Seq(Cell) /\ rest \in Seq(Cell)
        /\ Len(front) = k /\ Len(rest) = Len(stream) - k
        /\ \A i \in 1 .. k : front[i] = stream[i]
        /\ \A i \in 1 .. Len(stream) - k : rest[i] = stream[k + i]
    BY <1>1, CutFacts
  <2>3. server.phase = "request" => server'.buffer = front
    <3>1. server.phase = "request" => server.buffer = <<>>
      BY <1>9 DEF Reads, StreamInv
    <3>2. <<>> \o front = front
      BY <2>2, ConcatEmptySeq
    <3> QED
      BY <2>1, <3>1, <3>2
  <2> HIDE DEF front, rest
  <2>4. DOMAIN front = 1 .. k /\ DOMAIN rest = 1 .. Len(stream) - k
    BY <2>2, LenProperties
  <2>5. /\ \A i \in DOMAIN front : i \in DOMAIN stream
        /\ \A i \in DOMAIN rest : k + i \in DOMAIN stream
    BY <1>1, <2>4
  <2>6. ASSUME NEW a \in DOMAIN answers PROVE AnswerKept(a)'
    <3>1. answers[a].request # 0 =>
            /\ \A j \in DOMAIN rest :
                 rest[j].part = "head" => answers[a].request < rest[j].request
            /\ \A j \in DOMAIN front :
                 front[j].part = "head" => answers[a].request < front[j].request
      <4> SUFFICES ASSUME answers[a].request # 0
                   PROVE  /\ \A j \in DOMAIN rest :
                               rest[j].part = "head" => answers[a].request < rest[j].request
                          /\ \A j \in DOMAIN front :
                               front[j].part = "head" => answers[a].request < front[j].request
        OBVIOUS
      <4>1. \A j \in DOMAIN stream :
              stream[j].part = "head" => answers[a].request < stream[j].request
        BY <1>2 DEF AnswerKept
      <4>2. \A j \in DOMAIN rest : rest[j] = stream[k + j]
        BY <2>2, <2>4
      <4>3. \A j \in DOMAIN front : front[j] = stream[j]
        BY <2>2, <2>4
      <4> QED
        BY <2>5, <4>1, <4>2, <4>3
    <3> QED
      BY <1>2, <2>1, <2>3, <3>1 DEF AnswerKept, Reading
  <2> QED
    BY <1>4, <2>1, <2>6 DEF Writing
<1>10. ASSUME NEW q \in Request, ClientSends(q) PROVE AnswerInv'
  <2>1. PICK r \in Sent : requests' = Append(requests, r)
    BY <1>10, SendsFacts
  <2>2. /\ DOMAIN requests = 1 .. Len(requests) /\ Len(requests) \in Nat
        /\ DOMAIN requests' = 1 .. Len(requests) + 1
        /\ \A i \in DOMAIN requests :
             requests'[i] = requests[i] /\ i \in DOMAIN requests' /\ i < Len(requests) + 1
    BY <1>1, <2>1, AppendFacts, LenProperties
  <2>3. UNCHANGED <<server, answers>>
    BY <1>10 DEF ClientSends
  <2>4. PICK f \in Seq(Cell) : /\ stream' = stream \o f
                               /\ \A i \in DOMAIN f : f[i].request = Len(requests) + 1
    BY <1>10, SendsFacts
  <2>5. \A j \in DOMAIN stream' :
          \/ j \in DOMAIN stream /\ stream'[j] = stream[j]
          \/ stream'[j].request = Len(requests) + 1
    <3>1. /\ Len(f) \in Nat /\ DOMAIN f = 1 .. Len(f)
          /\ DOMAIN (stream \o f) = 1 .. Len(stream) + Len(f)
          /\ \A i \in 1 .. Len(stream) + Len(f) :
               (stream \o f)[i] = IF i <= Len(stream) THEN stream[i] ELSE f[i - Len(stream)]
      BY <1>1, ConcatProperties, LenProperties
    <3> SUFFICES ASSUME NEW j \in 1 .. Len(stream) + Len(f)
                 PROVE  \/ j \in DOMAIN stream /\ (stream \o f)[j] = stream[j]
                        \/ (stream \o f)[j].request = Len(requests) + 1
      BY <2>4, <3>1
    <3>2. CASE j <= Len(stream)
      BY <1>1, <3>1, <3>2
    <3>3. CASE ~(j <= Len(stream))
      <4>1. j - Len(stream) \in DOMAIN f
        BY <1>1, <3>1, <3>3
      <4> QED
        BY <2>4, <3>1, <3>3, <4>1
    <3> QED
      BY <3>2, <3>3
  <2>6. ASSUME NEW a \in DOMAIN answers PROVE AnswerKept(a)'
    BY <1>2, <2>2, <2>3, <2>5 DEF AnswerKept
  <2> QED
    BY <1>4, <2>3, <2>6
<1> QED
  BY <1>5, <1>6, <1>7, <1>8, <1>9, <1>10 DEF Kinds

\* The rows that the cells are made of.
LEMMA CellsParts ==
  ASSUME TypeOK
  PROVE  /\ \A j \in DOMAIN stream : \E i \in DOMAIN Cells : Cells[i] = stream[j]
         /\ \A j \in DOMAIN server.buffer : j \in DOMAIN Cells /\ Cells[j] = server.buffer[j]
         /\ server.buffer # <<>> => 1 \in DOMAIN server.buffer
         /\ stream = <<>> => DOMAIN stream = {}
         /\ stream # <<>> => 1 \in DOMAIN stream
<1>1. /\ server.buffer \in Seq(Cell) /\ stream \in Seq(Cell)
      /\ Len(server.buffer) \in Nat /\ Len(stream) \in Nat
      /\ DOMAIN server.buffer = 1 .. Len(server.buffer) /\ DOMAIN stream = 1 .. Len(stream)
  BY StateTypes, LenProperties
<1> DEFINE b == Len(server.buffer)
           n == Len(stream)
<1>2. /\ Len(server.buffer \o stream) = b + n
      /\ server.buffer \o stream \in Seq(Cell)
      /\ \A i \in 1 .. b + n :
           (server.buffer \o stream)[i] = IF i <= b THEN server.buffer[i] ELSE stream[i - b]
  BY <1>1, ConcatProperties
<1>3. DOMAIN Cells = 1 .. b + n
  BY <1>2, LenProperties DEF Cells
<1>4. ASSUME NEW j \in DOMAIN stream PROVE \E i \in DOMAIN Cells : Cells[i] = stream[j]
  <2> DEFINE i == b + j
  <2>1. i \in 1 .. b + n /\ ~(i <= b) /\ i - b = j
    <3>1. b \in Nat /\ n \in Nat /\ j \in 1 .. n
      BY <1>1
    <3> HIDE DEF b, n
    <3> QED
      BY <3>1
  <2> HIDE DEF i
  <2>2. Cells[i] = stream[j]
    BY <1>2, <2>1 DEF Cells
  <2> QED
    BY <1>3, <2>1, <2>2
<1>5. ASSUME NEW j \in DOMAIN server.buffer
      PROVE  j \in DOMAIN Cells /\ Cells[j] = server.buffer[j]
  <2>1. j \in 1 .. b + n /\ j <= b
    BY <1>1
  <2> QED
    BY <1>2, <1>3, <2>1 DEF Cells
<1>6. stream = <<>> => DOMAIN stream = {}
  OBVIOUS
<1>7. /\ server.buffer # <<>> => 1 \in DOMAIN server.buffer
      /\ stream # <<>> => 1 \in DOMAIN stream
  BY <1>1, EmptySeq
<1> QED
  BY <1>4, <1>5, <1>6, <1>7

LEMMA MatchStep ==
  ASSUME TypeOK, StreamInv, ParseInv, AnswerInv, MatchInv, server' \in Server, Kinds
  PROVE  MatchInv'
<1>1. /\ server.buffer \in Seq(Cell) /\ stream \in Seq(Cell) /\ requests \in Seq(Sent)
      /\ Cells \in Seq(Cell)
      /\ Len(server.buffer) \in Nat /\ Len(stream) \in Nat /\ Len(requests) \in Nat
      /\ DOMAIN stream = 1 .. Len(stream)
      /\ DOMAIN requests = 1 .. Len(requests)
      /\ Len(answers) \in Nat /\ DOMAIN answers = 1 .. Len(answers)
  BY StateTypes, LenProperties DEF TypeOK
<1>2. ASSUME UNCHANGED <<requests, answers>>,
             NoneEarly => server'.phase = "ended" \/ NextCells' = NextCells \/ NextCells' = <<>>,
             server'.phase # "ended" => server.phase # "ended"
      PROVE  MatchInv'
  <2>1. NoneEarly' => NoneEarly
    BY <1>2 DEF NoneEarly
  <2>2. DOMAIN <<>> = {}
    OBVIOUS
  <2> QED
    BY <1>2, <2>1, <2>2 DEF MatchInv
<1>3. CASE Quiet
  <2>1. Cells' = Cells
    BY <1>3, CellsAfter
  <2> QED
    BY <1>2, <1>3, <2>1 DEF Quiet, NextCells
<1>4. CASE Ends
  BY <1>2, <1>4 DEF Ends
<1>5. CASE Continues \/ GivesUp \/ Writes
  BY <1>2, <1>5 DEF Continues, GivesUp, Writes, NextCells, Writing
<1>6. CASE GoesOn
  <2>1. Cells' = stream
    BY <1>6, CellsAfter
  <2>2. server.phase = "tls" => Cells = stream
    <3>1. server.phase = "tls" => server.buffer = <<>>
      BY DEF StreamInv
    <3>2. <<>> \o stream = stream
      BY <1>1, ConcatEmptySeq
    <3> QED
      BY <3>1, <3>2 DEF Cells
  <2>3. NextCells' = NextCells
    BY <1>6, <2>1, <2>2 DEF GoesOn, NextCells, Writing
  <2> QED
    BY <1>2, <1>6, <2>3 DEF GoesOn
<1>7. ASSUME NEW s \in Server, Waits(s) PROVE MatchInv'
  <2>1. Cells' = Cells
    BY <1>7, CellsAfter
  <2> QED
    BY <1>2, <1>7, <2>1 DEF Waits, NextCells, Writing
<1>8. ASSUME NEW k \in 0 .. Len(stream), Reads(k) PROVE MatchInv'
  <2>1. Cells' = Cells
    BY <1>8, CellsAfter
  <2> QED
    BY <1>2, <1>8, <2>1 DEF Reads, NextCells, Writing
<1>9. CASE Breaks
  <2>1. Cells' = server.buffer
    BY <1>9, CellsAfter
  <2>2. /\ UNCHANGED <<requests, answers, server>>
        /\ NextCells' = IF server.phase \in Writing THEN <<>> ELSE server.buffer
    BY <1>9, <2>1 DEF Breaks, NextCells
  <2>3. server.phase \notin Writing => NextCells = Cells
    BY DEF NextCells
  <2>4. NoneEarly' => NoneEarly
    BY <2>2 DEF NoneEarly
  <2>5. DOMAIN <<>> = {}
    OBVIOUS
  <2>6. /\ \A j \in DOMAIN server.buffer : j \in DOMAIN Cells /\ Cells[j] = server.buffer[j]
        /\ server.buffer # <<>> => 1 \in DOMAIN server.buffer
    BY CellsParts
  <2>7. server.buffer # <<>> => Cells # <<>>
    BY <2>5, <2>6
  <2> QED
    BY <2>2, <2>3, <2>4, <2>5, <2>6, <2>7 DEF MatchInv
<1>10. ASSUME NEW s \in Server, Begins(s), NoneEarly'
       PROVE  /\ \A i \in DOMAIN answers' : answers'[i].request = i
              /\ stream = <<>>
  <2> DEFINE n == Len(answers)
  <2>1. /\ Len(answers') = n + 1 /\ DOMAIN answers' = 1 .. n + 1
        /\ \A i \in 1 .. n : answers'[i] = answers[i]
        /\ answers'[n + 1].request = s.current
        /\ server.phase \in {"request", "content"}
    <3>1. /\ Len(answers') = Len(answers) + 1 /\ DOMAIN answers' = 1 .. Len(answers) + 1
          /\ \A i \in 1 .. Len(answers) : answers'[i] = answers[i]
          /\ answers'[Len(answers) + 1]
               = [request |-> s.current, units |-> server'.left + Len(server'.out)]
          /\ server.phase \in {"request", "content"}
      BY <1>10, BeginsFacts
    <3> QED
      BY <3>1
  <2>2. /\ NoneEarly /\ server.phase \notin Writing
    BY <1>10, <2>1 DEF Begins, NoneEarly, Writing
  <2>3. /\ \A i \in DOMAIN answers : answers[i].request = i
        /\ \A j \in DOMAIN Cells : Cells[j].request = n + 1
        /\ Cells # <<>> => Cells[1].part = "head"
    BY <2>1, <2>2 DEF MatchInv, NextCells
  <2>4. /\ server.buffer # <<>>
        /\ server.buffer[1].part = "head" => s.current # 0
        /\ s.current # 0 =>
             /\ server.buffer[1] = [request |-> s.current, part |-> "head"]
             /\ s.current \in DOMAIN requests
             /\ s.asked = Asked(requests[s.current])
             /\ Len(server.buffer) >= 1 + s.asked.body
    BY <1>10 DEF Begins, Serves
  <2>5. 1 \in DOMAIN Cells /\ Cells[1] = server.buffer[1]
    BY <2>4, CellsParts
  <2>6. server.buffer[1].part = "head" /\ server.buffer[1].request = n + 1
    <3>1. Cells # <<>>
      BY <2>5
    <3> QED
      BY <2>3, <2>5, <3>1
  <2>7. s.current = n + 1
    BY <2>4, <2>6
  <2>8. stream = <<>>
    <3> SUFFICES ASSUME stream # <<>> PROVE FALSE
      OBVIOUS
    <3>1. 1 \in DOMAIN stream /\ stream[1].request = n + 1
      BY <2>3, CellsParts
    <3>2. Len(server.buffer) + 1 <= 1 + requests[n + 1].body
      BY <2>4, <2>6, <3>1, BehindTheHead
    <3>3. s.asked.body = requests[n + 1].body /\ requests[n + 1].body \in Nat
      BY <1>1, <2>4, <2>6, <2>7, RequestTypes
    <3> QED
      BY <1>1, <2>4, <2>6, <3>2, <3>3
  <2> QED
    BY <1>1, <2>1, <2>3, <2>7, <2>8
<1>11. ASSUME NEW s \in Server, Begins(s) PROVE MatchInv'
  <2>1. server'.phase \in Writing /\ stream' = stream
    BY <1>11 DEF Begins, Answers
  <2>2. NextCells' = stream
    BY <2>1 DEF NextCells
  <2>3. DOMAIN <<>> = {}
    OBVIOUS
  <2> QED
    BY <1>10, <1>11, <2>2, <2>3 DEF MatchInv
<1>12. ASSUME NEW q \in Request, ClientSends(q) PROVE MatchInv'
  <2> DEFINE n == Len(requests)
  <2>1. PICK r \in Sent : requests' = Append(requests, r) /\ r.early = ~Answered
    BY <1>12, SendsFacts
  <2>2. /\ DOMAIN requests' = 1 .. n + 1
        /\ requests'[n + 1] = r
        /\ \A i \in DOMAIN requests : requests'[i] = requests[i] /\ i \in DOMAIN requests'
    BY <1>1, <2>1, AppendFacts
  <2>3. UNCHANGED <<server, answers>> /\ server.phase # "ended"
    BY <1>12 DEF ClientSends
  <2>4. PICK f \in Seq(Cell) : /\ stream' = stream \o f
                               /\ Cells' = Cells \o f
                               /\ f # <<>> /\ f[1].part = "head"
                               /\ \A i \in DOMAIN f : f[i].request = n + 1
    BY <1>12, SendsFacts
  <2> SUFFICES ASSUME NoneEarly'
               PROVE  /\ \A i \in DOMAIN answers' : answers'[i].request = i
                      /\ server'.phase # "ended" =>
                           /\ \A j \in DOMAIN NextCells' : NextCells'[j].request = Len(answers') + 1
                           /\ NextCells' # <<>> => NextCells'[1].part = "head"
    BY DEF MatchInv
  <2>5. NoneEarly /\ Answered
    <3>1. n + 1 \in DOMAIN requests'
      BY <1>1, <2>2
    <3>2. ~r.early
      BY <2>2, <3>1 DEF NoneEarly
    <3>3. NoneEarly
      BY <2>2 DEF NoneEarly
    <3> QED
      BY <2>1, <3>2, <3>3
  <2>6. /\ \A i \in DOMAIN answers : answers[i].request = i
        /\ \A j \in DOMAIN NextCells : NextCells[j].request = Len(answers) + 1
    BY <2>3, <2>5 DEF MatchInv
  <2>7. Len(answers) = n
    <3>1. Len(answers) <= n
      <4> SUFFICES ASSUME Len(answers) > 0 PROVE Len(answers) <= n
        BY <1>1
      <4>1. Len(answers) \in DOMAIN answers
        BY <1>1
      <4>2. answers[Len(answers)].request = Len(answers) /\ Len(answers) # 0
        <5>1. \A i \in DOMAIN answers : answers[i].request = i
          BY <2>6
        <5>2. Len(answers) # 0
          BY <1>1
        <5> QED
          BY <4>1, <5>1, <5>2
      <4>3. Len(answers) \in DOMAIN requests
        BY <4>1, <4>2 DEF AnswerInv
      <4> QED
        BY <1>1, <4>3
    <3>2. n <= Len(answers)
      <4>1. CASE requests = <<>>
        BY <1>1, <4>1
      <4>2. CASE \E i \in DOMAIN answers : answers[i].request = n
        BY <1>1, <2>6, <4>2
      <4> QED
        BY <2>5, <4>1, <4>2 DEF Answered
    <3>3. n \in Nat /\ Len(answers) \in Nat
      BY <1>1
    <3> HIDE DEF n
    <3> QED
      BY <3>1, <3>2, <3>3
  <2>8. NextCells = <<>>
    <3>1. NextCells \in Seq(Cell)
      BY <1>1 DEF NextCells
    <3>2. \A j \in DOMAIN NextCells : NextCells[j].request \in DOMAIN requests
      <4>1. Framed(Cells) /\ Framed(stream)
        BY <1>1, FramedParts DEF StreamInv, Cells
      <4> QED
        BY <4>1 DEF Framed, NextCells
    <3>3. DOMAIN NextCells = {}
      <4> SUFFICES ASSUME NEW j \in DOMAIN NextCells PROVE FALSE
        OBVIOUS
      <4>1. NextCells[j].request = n + 1 /\ NextCells[j].request \in DOMAIN requests
        BY <2>6, <2>7, <3>2
      <4>2. n + 1 \notin DOMAIN requests
        BY <1>1
      <4> QED
        BY <4>1, <4>2
    <3>4. Len(NextCells) = 0
      <4>1. DOMAIN NextCells = 1 .. Len(NextCells) /\ Len(NextCells) \in Nat
        BY <3>1, LenProperties
      <4> HIDE DEF NextCells
      <4> QED
        BY <3>3, <4>1
    <3> QED
      BY <3>1, <3>4, EmptySeq
  <2>9. NextCells' = f
    <3>1. NextCells' = NextCells \o f
      BY <2>3, <2>4 DEF NextCells
    <3>2. <<>> \o f = f
      BY <2>4, ConcatEmptySeq
    <3> QED
      BY <2>8, <3>1, <3>2
  <2> QED
    BY <2>3, <2>4, <2>6, <2>7, <2>9
<1> QED
  BY <1>3, <1>4, <1>5, <1>6, <1>7, <1>8, <1>9, <1>11, <1>12 DEF Kinds

\* While a request is read, the wire has all of every answer.
LEMMA AllWritten ==
  ASSUME TypeOK, WireInv, server.phase \in Reading, NEW v \in Unit
  PROVE  v \in OnWire <=> v.answer \in DOMAIN answers /\ v.unit \in 1 .. answers[v.answer].units
<1>1. Len(answers) \in Nat /\ DOMAIN answers = 1 .. Len(answers)
  BY LenProperties DEF TypeOK
<1>2. CASE answers = <<>>
  <2>1. DOMAIN answers = {}
    BY <1>2
  <2>2. PICK w \in Nat : WireUpTo(w)
    BY DEF WireInv
  <2> QED
    BY <2>1, <2>2 DEF WireUpTo
<1>3. CASE answers # <<>>
  <2>1. WireUpTo(answers[Len(answers)].units)
    BY <1>3 DEF WireInv
  <2>2. v \in OnWire <=>
          /\ v.answer \in DOMAIN answers
          /\ v.unit \in 1 .. (IF v.answer < Len(answers) THEN answers[v.answer].units
                                                         ELSE answers[Len(answers)].units)
    BY <2>1 DEF WireUpTo
  <2>3. v.answer \in DOMAIN answers => v.answer < Len(answers) \/ v.answer = Len(answers)
    BY <1>1
  <2> QED
    BY <2>2, <2>3
<1> QED
  BY <1>2, <1>3

\* The last answer and what is on the wire of it.
LEMMA WrittenTypes ==
  ASSUME TypeOK, WireInv, AnswerInv, server.phase \in Writing
  PROVE  /\ answers # <<>> /\ Len(answers) \in Nat \ {0}
         /\ Len(answers) \in DOMAIN answers /\ DOMAIN answers = 1 .. Len(answers)
         /\ answers[Len(answers)].units \in Nat
         /\ server.left \in Nat /\ Len(server.out) \in Nat
         /\ DOMAIN server.out = 1 .. Len(server.out)
         /\ Written \in Nat
         /\ Written + (server.left + Len(server.out)) = answers[Len(answers)].units
<1>1. /\ answers # <<>> /\ answers \in Seq([request : Nat, units : Nat])
      /\ server.left + Len(server.out) <= answers[Len(answers)].units
  BY DEF AnswerInv, WireInv, TypeOK
<1>2. /\ Len(answers) \in Nat \ {0} /\ DOMAIN answers = 1 .. Len(answers)
      /\ Len(answers) \in DOMAIN answers
  BY <1>1, EmptySeq, LenProperties
<1>3. answers[Len(answers)] \in [request : Nat, units : Nat]
  BY <1>1, <1>2, ElementOfSeq
<1>4. /\ server.left \in Nat /\ Len(server.out) \in Nat
      /\ DOMAIN server.out = 1 .. Len(server.out)
  BY StateTypes, LenProperties
<1>5. answers[Len(answers)].units \in Nat
  BY <1>3
<1> QED
  BY <1>1, <1>2, <1>4, <1>5 DEF Written

\* An answer that is begun: nothing of it is on the wire.
LEMMA BeginsWire ==
  ASSUME TypeOK, StreamInv, WireInv, NEW s \in Server, Begins(s)
  PROVE  WireInv'
<1> DEFINE n == Len(answers)
           units == server'.left + Len(server'.out)
<1>1. /\ Len(answers') = n + 1 /\ DOMAIN answers' = 1 .. n + 1
      /\ \A i \in 1 .. n : answers'[i] = answers[i]
      /\ answers'[n + 1].units = units
      /\ answers' # <<>>
      /\ server'.phase \in Writing /\ server'.phase \notin Reading /\ server.phase \in Reading
      /\ n \in Nat /\ DOMAIN answers = 1 .. n
      /\ server'.left \in Nat /\ Len(server'.out) \in Nat
  <2>1. /\ Len(answers') = Len(answers) + 1 /\ DOMAIN answers' = 1 .. Len(answers) + 1
        /\ \A i \in 1 .. Len(answers) : answers'[i] = answers[i]
        /\ answers'[Len(answers) + 1]
             = [request |-> s.current, units |-> server'.left + Len(server'.out)]
        /\ answers' # <<>>
        /\ server'.phase \in Writing /\ server.phase \in {"request", "content"}
        /\ Len(answers) \in Nat /\ DOMAIN answers = 1 .. Len(answers)
        /\ server'.left \in Nat /\ Len(server'.out) \in Nat
    BY BeginsFacts
  <2> QED
    BY <2>1 DEF Reading, Writing
<1>2. wire' = wire /\ OnWire' = OnWire
  BY DEF Begins, OnWire
<1>3. /\ server'.io = "pending"
      /\ server'.phase = "rest" => server'.left = 0
      /\ \A i \in DOMAIN server'.out : server'.out[i] = [answer |-> n + 1, unit |-> i]
  BY DEF Begins, Answers
<1>4. Written' = 0 /\ units \in Nat /\ answers'[Len(answers')].units = units
  <2>1. units \in Nat
    BY <1>1
  <2>2. Written' = units - units
    BY <1>1 DEF Written
  <2> QED
    BY <1>1, <2>1, <2>2
<1>5. ASSUME NEW v \in Unit
      PROVE  v \in OnWire' <=>
               /\ v.answer \in DOMAIN answers'
               /\ v.unit \in 1 .. (IF v.answer < Len(answers') THEN answers'[v.answer].units
                                                               ELSE 0)
  <2>1. v \in OnWire <=> v.answer \in 1 .. n /\ v.unit \in 1 .. answers[v.answer].units
    BY <1>1, AllWritten
  <2>2. CASE v.answer \in 1 .. n
    <3>1. v.answer < n + 1 /\ v.answer \in 1 .. n + 1
      BY <1>1, <2>2
    <3> QED
      BY <1>1, <1>2, <2>1, <2>2, <3>1
  <2>3. CASE v.answer \notin 1 .. n
    <3>1. v.answer \in 1 .. n + 1 => ~(v.answer < n + 1)
      BY <1>1, <2>3
    <3>2. v.unit \notin 1 .. 0
      OBVIOUS
    <3> QED
      BY <1>1, <1>2, <2>1, <2>3, <3>1, <3>2
  <2> QED
    BY <2>2, <2>3
<1> HIDE DEF units, n
<1>6. WireUpTo(Written)' /\ \E w \in Nat : WireUpTo(w)'
  <2>1. 0 <= answers'[Len(answers')].units
    BY <1>4
  <2>2. WireUpTo(0)'
    BY <1>5, <2>1 DEF WireUpTo
  <2>3. WireUpTo(Written)'
    BY <1>4, <1>5, <2>1 DEF WireUpTo
  <2> QED
    BY <2>2, <2>3
<1>7. \A i \in DOMAIN server'.out :
        server'.out[i] = [answer |-> Len(answers'), unit |-> Written' + i]
  <2>1. \A i \in DOMAIN server'.out : i \in Nat
    BY <1>1, LenProperties DEF Begins, Answers, Server
  <2> QED
    BY <1>1, <1>3, <1>4, <2>1
<1>8. (\A i, j \in DOMAIN wire : i < j => Before(wire[i], wire[j]))'
  BY <1>2 DEF WireInv, Before
<1>9. server'.left + Len(server'.out) <= answers'[Len(answers')].units
  BY <1>4 DEF units
<1> QED
  BY <1>1, <1>3, <1>6, <1>7, <1>8, <1>9 DEF WireInv

\* What the buffer of the response had follows what was on the wire.
LEMMA WritesWire ==
  ASSUME TypeOK, AnswerInv, WireInv, server' \in Server, Writes
  PROVE  WireInv'
<1> DEFINE n == Len(answers)
           k == Len(server.out)
           old == Len(wire)
           done == Written
<1>1. /\ UNCHANGED answers
      /\ server.phase \in Writing /\ server'.phase = server.phase
      /\ server.phase \notin Reading
      /\ Open \/ server.out = <<>>
      /\ server'.io = "ok" /\ server'.out = <<>> /\ server'.left = server.left
      /\ wire' = wire \o server.out
  BY DEF Writes, Writing, Reading
<1>2. /\ answers # <<>> /\ n \in Nat \ {0} /\ n \in DOMAIN answers /\ DOMAIN answers = 1 .. n
      /\ answers[n].units \in Nat
      /\ server.left \in Nat /\ k \in Nat /\ DOMAIN server.out = 1 .. k
      /\ done \in Nat
      /\ done + (server.left + k) = answers[n].units
  BY <1>1, WrittenTypes
<1>3. /\ WireUpTo(done)
      /\ \A i \in 1 .. k : server.out[i] = [answer |-> n, unit |-> done + i]
      /\ server.phase = "rest" => server.left = 0
  BY <1>1, <1>2 DEF WireInv
<1>4. /\ wire \in Seq(Unit) /\ old \in Nat /\ DOMAIN wire = 1 .. old
      /\ DOMAIN wire' = 1 .. old + k
      /\ \A i \in 1 .. old : wire'[i] = wire[i] /\ wire[i] \in Unit
      /\ \A i \in 1 .. k : wire'[old + i] = server.out[i]
  <2>1. wire \in Seq(Unit) /\ server.out \in Seq(Unit)
    BY StateTypes DEF TypeOK
  <2>2. server.out \in [1 .. k -> Unit]
    BY <1>2, <2>1, LenProperties, SeqDef
  <2> HIDE DEF k
  <2>3. /\ DOMAIN (wire \o server.out) = 1 .. Len(wire) + k
        /\ \A i \in 1 .. Len(wire) : (wire \o server.out)[i] = wire[i]
        /\ \A i \in 1 .. k : (wire \o server.out)[Len(wire) + i] = server.out[i]
    BY <1>2, <2>1, <2>2, ConcatFacts
  <2> QED
    BY <1>1, <2>1, <2>3, LenProperties, ElementOfSeq
<1> HIDE DEF n, k, old, done
<1>5. /\ Written' = done + k
      /\ server'.left + Len(server'.out) <= answers'[Len(answers')].units
      /\ done + k <= answers'[Len(answers')].units
  <2>1. Len(server'.out) = 0 /\ Len(answers') = n /\ answers'[n] = answers[n]
    BY <1>1 DEF n
  <2>2. Written' = answers[n].units - (server.left + 0)
    BY <1>1, <2>1 DEF Written, n
  <2> QED
    BY <1>1, <1>2, <2>1, <2>2
<1>6. \A i \in 1 .. old : wire[i] \in OnWire
  BY <1>4 DEF OnWire
<1>7. ASSUME NEW v \in Unit
      PROVE  v \in OnWire' <=>
               /\ v.answer \in DOMAIN answers
               /\ v.unit \in 1 .. (IF v.answer < n THEN answers[v.answer].units ELSE done + k)
  <2>1. v \in OnWire' <=> \/ v \in OnWire
                          \/ \E i \in 1 .. k : v = [answer |-> n, unit |-> done + i]
    <3>1. ASSUME v \in OnWire'
          PROVE  v \in OnWire \/ \E i \in 1 .. k : v = [answer |-> n, unit |-> done + i]
      <4>1. PICK i \in 1 .. old + k : v = wire'[i]
        BY <1>4, <3>1 DEF OnWire
      <4>2. CASE i \in 1 .. old
        BY <1>4, <1>6, <4>1, <4>2
      <4>3. CASE i \notin 1 .. old
        <5>1. i - old \in 1 .. k /\ old + (i - old) = i
          BY <1>2, <1>4, <4>3
        <5> QED
          BY <1>3, <1>4, <4>1, <5>1
      <4> QED
        BY <4>2, <4>3
    <3>2. ASSUME v \in OnWire PROVE v \in OnWire'
      <4>1. PICK i \in 1 .. old : v = wire[i]
        BY <1>4, <3>2 DEF OnWire
      <4>2. i \in DOMAIN wire' /\ wire'[i] = v
        BY <1>2, <1>4, <4>1
      <4> QED
        BY <4>2 DEF OnWire
    <3>3. ASSUME NEW i \in 1 .. k, v = [answer |-> n, unit |-> done + i] PROVE v \in OnWire'
      <4>1. old + i \in DOMAIN wire' /\ wire'[old + i] = v
        <5>1. old + i \in 1 .. old + k
          BY <1>2, <1>4
        <5>2. wire'[old + i] = server.out[i] /\ server.out[i] = v
          BY <1>3, <1>4, <3>3
        <5> QED
          BY <1>4, <5>1, <5>2
      <4> QED
        BY <4>1 DEF OnWire
    <3> QED
      BY <3>1, <3>2, <3>3
  <2>2. v \in OnWire <=> /\ v.answer \in DOMAIN answers
                         /\ v.unit \in 1 .. (IF v.answer < n THEN answers[v.answer].units ELSE done)
    BY <1>3 DEF WireUpTo, n
  <2>3. CASE v.answer = n
    <3>1. (\E i \in 1 .. k : v = [answer |-> n, unit |-> done + i])
            <=> v.unit \in done + 1 .. done + k
      <4>1. ASSUME NEW i \in 1 .. k, v = [answer |-> n, unit |-> done + i]
            PROVE  v.unit \in done + 1 .. done + k
        BY <1>2, <4>1
      <4>2. ASSUME v.unit \in done + 1 .. done + k
            PROVE  \E i \in 1 .. k : v = [answer |-> n, unit |-> done + i]
        <5>1. v.unit - done \in 1 .. k /\ done + (v.unit - done) = v.unit
          BY <1>2, <4>2
        <5>2. v = [answer |-> n, unit |-> done + (v.unit - done)]
          BY <2>3, <5>1 DEF Unit
        <5> QED
          BY <5>1, <5>2
      <4> QED
        BY <4>1, <4>2
    <3>2. v.unit \in 1 .. done + k <=> v.unit \in 1 .. done \/ v.unit \in done + 1 .. done + k
      BY <1>2
    <3>3. ~(v.answer < n) /\ v.answer \in DOMAIN answers
      BY <1>2, <2>3
    <3> QED
      BY <2>1, <2>2, <3>1, <3>2, <3>3
  <2>4. CASE v.answer # n
    <3>1. v.answer \in DOMAIN answers => v.answer < n
      BY <1>2, <2>4
    <3>2. \A i \in 1 .. k : v # [answer |-> n, unit |-> done + i]
      BY <2>4
    <3> QED
      BY <2>1, <2>2, <3>1, <3>2
  <2> QED
    BY <2>3, <2>4
<1>8. WireUpTo(Written)' /\ \E w \in Nat : WireUpTo(w)'
  <2>1. Len(answers') = n /\ answers' = answers
    BY <1>1 DEF n
  <2>2. WireUpTo(Written)'
    BY <1>5, <1>7, <2>1 DEF WireUpTo
  <2>3. PICK w \in Nat : w = done + k
    BY <1>2
  <2>4. WireUpTo(w)'
    BY <1>5, <1>7, <2>1, <2>3 DEF WireUpTo
  <2> QED
    BY <2>2, <2>4
<1>9. (\A i, j \in DOMAIN wire : i < j => Before(wire[i], wire[j]))'
  <2> SUFFICES ASSUME NEW i \in 1 .. old + k, NEW j \in 1 .. old + k, i < j
               PROVE  Before(wire'[i], wire'[j])
    BY <1>4 DEF Before
  <2>1. CASE j \in 1 .. old
    <3>1. i \in 1 .. old
      BY <1>2, <1>4, <2>1
    <3> QED
      BY <1>4, <2>1, <3>1 DEF WireInv
  <2>2. CASE j \notin 1 .. old
    <3>1. j - old \in 1 .. k /\ old + (j - old) = j
      BY <1>2, <1>4, <2>2
    <3>2. wire'[j] = [answer |-> n, unit |-> done + (j - old)]
      BY <1>3, <1>4, <3>1
    <3>3. CASE i \in 1 .. old
      <4>1. /\ wire'[i] = wire[i] /\ wire[i] \in Unit /\ wire[i] \in OnWire
        BY <1>4, <1>6, <3>3
      <4>2. /\ wire[i].answer \in 1 .. n
            /\ wire[i].unit \in
                 1 .. (IF wire[i].answer < n THEN answers[wire[i].answer].units ELSE done)
        BY <1>2, <1>3, <4>1 DEF WireUpTo, n
      <4>3. wire[i].answer = n => wire[i].unit < done + (j - old)
        BY <1>2, <3>1, <4>2
      <4> QED
        BY <1>2, <3>2, <4>1, <4>2, <4>3 DEF Before
    <3>4. CASE i \notin 1 .. old
      <4>1. i - old \in 1 .. k /\ old + (i - old) = i /\ i - old < j - old
        BY <1>2, <1>4, <3>1, <3>4
      <4>2. wire'[i] = [answer |-> n, unit |-> done + (i - old)]
        BY <1>3, <1>4, <4>1
      <4>3. done + (i - old) < done + (j - old)
        BY <1>2, <3>1, <4>1
      <4> QED
        BY <3>2, <4>2, <4>3 DEF Before
    <3> QED
      BY <3>3, <3>4
  <2> QED
    BY <2>1, <2>2
<1>10. DOMAIN server'.out = {}
  BY <1>1
<1> QED
  BY <1>1, <1>3, <1>5, <1>8, <1>9, <1>10 DEF WireInv

LEMMA WireStep ==
  ASSUME TypeOK, StreamInv, ParseInv, AnswerInv, WireInv, server' \in Server, Kinds
  PROVE  WireInv'
<1>1. ASSUME UNCHANGED <<answers, wire>>
      PROVE  /\ (\A i, j \in DOMAIN wire : i < j => Before(wire[i], wire[j]))'
             /\ \A w : WireUpTo(w)' <=> WireUpTo(w)
  BY <1>1 DEF WireInv, Before, WireUpTo, OnWire
<1>2. ASSUME UNCHANGED <<answers, wire>>, WireUpTo(Written), Written' = Written
      PROVE  WireUpTo(Written)'
  BY <1>2 DEF WireUpTo, OnWire
<1>3. ASSUME UNCHANGED <<answers, wire>>,
             server'.phase \notin Writing,
             server'.phase \in Reading =>
               (answers # <<>> => WireUpTo(answers[Len(answers)].units))
      PROVE  WireInv'
  <2>1. (\E w \in Nat : WireUpTo(w))'
    BY <1>1, <1>3 DEF WireInv
  <2>2. (server.phase \in Reading => (answers # <<>> => WireUpTo(answers[Len(answers)].units)))'
    BY <1>3 DEF WireUpTo, OnWire
  <2> QED
    BY <1>1, <1>3, <2>1, <2>2 DEF WireInv
<1>4. ASSUME UNCHANGED <<answers, wire>>,
             server'.phase \in Writing, server.phase \in Writing,
             server'.left + Len(server'.out) = server.left + Len(server.out),
             \A i \in DOMAIN server'.out :
               server'.out[i] = [answer |-> Len(answers), unit |-> Written + i],
             server'.io = "ok" => server'.out = <<>>,
             server'.io = "err" => server'.out # <<>> /\ ~Open',
             server'.phase = "rest" => server'.left = 0 \/ (server'.out # <<>> /\ ~Open')
      PROVE  WireInv'
  <2>1. Written' = Written
    BY <1>4 DEF Written
  <2>2. WireUpTo(Written)'
    BY <1>2, <1>4, <2>1 DEF WireInv
  <2>3. (\E w \in Nat : WireUpTo(w))'
    BY <1>1, <1>4 DEF WireInv
  <2>4. server'.phase \notin Reading
    BY <1>4 DEF Reading, Writing
  <2>5. server'.left + Len(server'.out) <= answers'[Len(answers')].units
    BY <1>4 DEF WireInv
  <2>6. \A i \in DOMAIN server'.out :
          server'.out[i] = [answer |-> Len(answers'), unit |-> Written' + i]
    BY <1>4, <2>1
  <2> QED
    BY <1>1, <1>4, <2>2, <2>3, <2>4, <2>5, <2>6 DEF WireInv
<1>5. CASE Ends
  BY <1>3, <1>5 DEF Ends, Reading, Writing
<1>6. CASE GoesOn
  <2>1. server.phase = "rest" => WireUpTo(answers[Len(answers)].units)
    <3> SUFFICES ASSUME server.phase = "rest" PROVE WireUpTo(answers[Len(answers)].units)
      OBVIOUS
    <3>1. server.io = "ok" /\ server.phase \in Writing
      BY <1>6 DEF GoesOn, Writing
    <3>2. server.out = <<>> /\ server.left = 0 /\ WireUpTo(Written)
      BY <3>1 DEF WireInv
    <3>3. Written = answers[Len(answers)].units
      BY <3>1, <3>2, WrittenTypes DEF Written
    <3> QED
      BY <3>2, <3>3
  <2>2. server.phase = "tls" => (answers # <<>> => WireUpTo(answers[Len(answers)].units))
    BY DEF WireInv, Reading
  <2> QED
    BY <1>3, <1>6, <2>1, <2>2 DEF GoesOn, Writing
<1>7. ASSUME NEW s \in Server, Waits(s) PROVE WireInv'
  BY <1>3, <1>7 DEF Waits, WireInv, Reading, Writing
<1>8. ASSUME NEW k \in 0 .. Len(stream), Reads(k) PROVE WireInv'
  BY <1>3, <1>8 DEF Reads, WireInv, Reading, Writing
<1>9. CASE Continues
  <2>1. /\ server.phase \in Writing /\ server.out = <<>> /\ server.left \in Nat
    BY <1>9, StateTypes DEF Continues, WireInv, Writing
  <2>2. server'.left + Len(server'.out) = server.left + Len(server.out)
    <3>1. Len(server.out) = 0
      BY <2>1
    <3>2. server'.left + Len(server'.out) = server.left
      BY <1>9 DEF Continues
    <3> QED
      BY <2>1, <3>1, <3>2
  <2> QED
    BY <1>4, <1>9, <2>1, <2>2 DEF Continues
<1>10. CASE GivesUp
  <2>1. /\ server.phase \in Writing
        /\ server.out # <<>> /\ ~Open
        /\ \A i \in DOMAIN server.out :
             server.out[i] = [answer |-> Len(answers), unit |-> Written + i]
    BY <1>10 DEF GivesUp, WireInv, Writing
  <2>2. Open' = Open
    BY <1>10 DEF GivesUp, Open
  <2> QED
    BY <1>4, <1>10, <2>1, <2>2 DEF GivesUp, Writing
<1>11. CASE Quiet \/ Breaks \/ (\E q \in Request : ClientSends(q))
  <2>1. /\ UNCHANGED <<answers, wire>>
        /\ server'.phase = server.phase /\ server'.out = server.out
        /\ server'.left = server.left
        /\ \/ server'.io = server.io
           \/ server'.io = "ok" /\ server.phase \notin Writing
           \/ /\ server'.io = "err"
              /\ server.phase \in Writing => server.out # <<>> /\ ~Open
        /\ ~Open => ~Open'
    BY <1>11 DEF Quiet, Breaks, ClientSends, Open, Writing
  <2>2. CASE server.phase \in Writing
    <3>1. /\ \A i \in DOMAIN server.out :
               server.out[i] = [answer |-> Len(answers), unit |-> Written + i]
          /\ server.io = "ok" => server.out = <<>>
          /\ server.io = "err" => server.out # <<>> /\ ~Open
          /\ server.phase = "rest" => server.left = 0 \/ (server.out # <<>> /\ ~Open)
      BY <2>2 DEF WireInv
    <3> QED
      BY <1>4, <2>1, <2>2, <3>1
  <2>3. CASE server.phase \notin Writing
    BY <1>3, <2>1, <2>3 DEF WireInv
  <2> QED
    BY <2>2, <2>3
<1> QED
  BY <1>5, <1>6, <1>7, <1>8, <1>9, <1>10, <1>11, BeginsWire, WritesWire DEF Kinds

--------------------------------------------------------------------------------
(* The invariant *)

LEMMA TypeStep ==
  ASSUME TypeOK, StreamInv, ParseInv, AnswerInv, WireInv, [Next]_vars
  PROVE  TypeOK'
<1>1. server' \in Server /\ Kinds
  BY NextKinds
<1>2. due' \in BOOLEAN /\ link' \in {"up", "fin", "reset", "shut"}
  <2>1. CASE \/ TlsDone \/ RequestDone \/ ContentDone \/ PieceDone \/ RestDone
             \/ \E q \in Request : ClientSends(q)
             \/ \E k \in 1 .. Len(stream) : ReadRequest(k)
             \/ Handshake \/ ReadContent \/ Write \/ Fail \/ UNCHANGED vars
    <3>1. UNCHANGED <<link, due>>
      BY <2>1 DEF TlsDone, RequestDone, ContentDone, PieceDone, RestDone, ClientSends,
                  ReadRequest, Handshake, ReadContent, Write, Fail, vars
    <3> QED
      BY <3>1 DEF TypeOK
  <2>2. CASE TimedOut \/ PeerCloses \/ PeerResets \/ TimerExpires
    BY <2>2 DEF TimedOut, PeerCloses, PeerResets, TimerExpires, TypeOK
  <2> QED
    BY <2>1, <2>2 DEF Next
<1>3. /\ requests \in Seq(Sent) /\ stream \in Seq(Cell) /\ wire \in Seq(Unit)
      /\ answers \in Seq([request : Nat, units : Nat])
      /\ server.out \in Seq(Unit)
  BY StateTypes DEF TypeOK
<1>4. /\ requests' \in Seq(Sent) /\ stream' \in Seq(Cell) /\ wire' \in Seq(Unit)
      /\ answers' \in Seq([request : Nat, units : Nat])
  <2>1. CASE Quiet \/ Ends \/ GoesOn \/ Continues \/ GivesUp \/ (\E s \in Server : Waits(s))
    BY <1>3, <2>1 DEF Quiet, Ends, GoesOn, Continues, GivesUp, Waits
  <2>2. CASE Breaks
    <3>1. <<>> \in Seq(Cell)
      OBVIOUS
    <3> QED
      BY <1>3, <2>2, <3>1 DEF Breaks
  <2>3. ASSUME NEW s \in Server, Begins(s) PROVE answers' \in Seq([request : Nat, units : Nat])
    BY <2>3, BeginsFacts
  <2>4. CASE \E s \in Server : Begins(s)
    BY <1>3, <2>3, <2>4 DEF Begins
  <2>5. ASSUME NEW k \in 0 .. Len(stream), Reads(k) PROVE stream' \in Seq(Cell)
    BY <1>3, <2>5, CutFacts DEF Reads
  <2>6. CASE \E k \in 0 .. Len(stream) : Reads(k)
    BY <1>3, <2>5, <2>6 DEF Reads
  <2>7. CASE Writes
    <3>1. wire \o server.out \in Seq(Unit)
      BY <1>3, ConcatProperties
    <3> QED
      BY <1>3, <2>7, <3>1 DEF Writes
  <2>8. ASSUME NEW q \in Request, ClientSends(q)
        PROVE  requests' \in Seq(Sent) /\ stream' \in Seq(Cell)
    <3>1. PICK r \in Sent : requests' = Append(requests, r)
      BY <2>8, SendsFacts
    <3>2. PICK f \in Seq(Cell) : stream' = stream \o f
      BY <2>8, SendsFacts
    <3> QED
      BY <1>3, <3>1, <3>2, AppendProperties, ConcatProperties
  <2>9. CASE \E q \in Request : ClientSends(q)
    BY <1>3, <2>8, <2>9 DEF ClientSends
  <2> QED
    BY <1>1, <2>1, <2>2, <2>4, <2>6, <2>7, <2>9 DEF Kinds
<1> QED
  BY <1>1, <1>2, <1>4 DEF TypeOK

LEMMA InitIInv == Init => IInv
<1> SUFFICES ASSUME Init PROVE IInv
  OBVIOUS
<1> DEFINE s == [phase |-> "request", io |-> "none", timer |-> FALSE, buffer |-> <<>>,
                 current |-> 0, asked |-> [kind |-> "bad", body |-> 0, keep |-> TRUE],
                 need |-> 0, out |-> <<>>, left |-> 0]
<1>1. s \in Server
  <2>1. [kind |-> "bad", body |-> 0, keep |-> TRUE] \in Request
    BY HttpAssumption DEF Request
  <2>2. <<>> \in Seq(Cell) /\ <<>> \in Seq(Unit)
    OBVIOUS
  <2> QED
    BY <2>1, <2>2 DEF Server
<1>2. PICK socket \in Sockets : server = accepted(s, socket)
  BY DEF Init
<1> HIDE DEF s
<1>3. s.buffer = <<>>
  BY DEF s
<1>4. /\ server \in Server
      /\ server.phase \in {"tls", "request"} /\ server.io = "pending" /\ server.buffer = <<>>
  <2>1. CASE socket = "HTTP"
    BY <1>1, <1>2, <2>1, ReadRequestFields DEF accepted
  <2>2. CASE socket # "HTTP"
    BY <1>1, <1>2, <1>3, <2>2, HttpAssumption DEF accepted, Server
  <2> QED
    BY <2>1, <2>2
<1>5. /\ requests = <<>> /\ stream = <<>> /\ answers = <<>> /\ wire = <<>>
      /\ link = "up" /\ due = FALSE
  BY DEF Init
<1>6. TypeOK
  <2>1. /\ <<>> \in Seq(Sent) /\ <<>> \in Seq(Cell) /\ <<>> \in Seq(Unit)
        /\ <<>> \in Seq([request : Nat, units : Nat])
    OBVIOUS
  <2> QED
    BY <1>4, <1>5, <2>1 DEF TypeOK
<1>7. Cells = <<>> /\ DOMAIN <<>> = {}
  <2>1. <<>> \in Seq(Cell) /\ DOMAIN <<>> = {}
    OBVIOUS
  <2>2. <<>> \o <<>> = <<>>
    BY <2>1, ConcatEmptySeq
  <2> QED
    BY <1>4, <1>5, <2>1, <2>2 DEF Cells
<1>8. StreamInv
  BY <1>4, <1>7 DEF StreamInv, Framed, Complete
<1>9. ParseInv
  BY <1>4 DEF ParseInv, Known, Writing
<1>10. AnswerInv
  BY <1>4, <1>5, <1>7 DEF AnswerInv, NoAnswerTwice, Writing
<1>11. WireInv
  <2>1. OnWire = {}
    BY <1>5, <1>7 DEF OnWire
  <2>2. WireUpTo(0)
    BY <1>5, <1>7, <2>1 DEF WireUpTo
  <2> QED
    BY <1>4, <1>5, <1>7, <2>2 DEF WireInv, Writing
<1>12. MatchInv
  BY <1>4, <1>5, <1>7 DEF MatchInv, NextCells, Writing
<1> QED
  BY <1>6, <1>8, <1>9, <1>10, <1>11, <1>12 DEF IInv

LEMMA NextIInv == IInv /\ [Next]_vars => IInv'
<1> SUFFICES ASSUME IInv, [Next]_vars PROVE IInv'
  OBVIOUS
<1>1. TypeOK /\ StreamInv /\ ParseInv /\ AnswerInv /\ WireInv /\ MatchInv
  BY DEF IInv
<1>2. server' \in Server /\ Kinds
  BY <1>1, NextKinds
<1> QED
  BY <1>1, <1>2, TypeStep, StreamStep, ParseStep, AnswerStep, WireStep, MatchStep DEF IInv

\* The invariant holds throughout.
LEMMA Invariant == Spec => []IInv
<1>1. Init => IInv
  BY InitIInv
<1>2. IInv /\ [Next]_vars => IInv'
  BY NextIInv
<1> QED
  BY <1>1, <1>2, PTL DEF Spec

--------------------------------------------------------------------------------
(* The theorems *)

\* Every variable has its type, however much the client sends and however long the
\* files are.
THEOREM TypeCorrect == Spec => []TypeOK
<1>1. IInv => TypeOK
  BY DEF IInv
<1> QED
  BY <1>1, Invariant, PTL

\* What is promised, answer by answer.
LEMMA PromisedFacts ==
  ASSUME TypeOK
  PROVE  \A v : v \in Promised <=>
           /\ v \in Unit
           /\ v.answer \in DOMAIN answers
           /\ v.unit \in 1 .. answers[v.answer].units
<1>1. /\ DOMAIN answers = 1 .. Len(answers) /\ Len(answers) \in Nat
      /\ \A n \in DOMAIN answers : answers[n].units \in Nat
  <2>1. answers \in Seq([request : Nat, units : Nat])
    BY DEF TypeOK
  <2>2. \A n \in DOMAIN answers : answers[n] \in [request : Nat, units : Nat]
    BY <2>1, LenProperties, ElementOfSeq
  <2> QED
    BY <2>1, <2>2, LenProperties
<1>2. ASSUME NEW v, v \in Promised
      PROVE  /\ v \in Unit
             /\ v.answer \in DOMAIN answers
             /\ v.unit \in 1 .. answers[v.answer].units
  <2>1. PICK n \in DOMAIN answers : \E u \in 1 .. answers[n].units :
          v = [answer |-> n, unit |-> u]
    BY <1>2 DEF Promised
  <2>2. PICK u \in 1 .. answers[n].units : v = [answer |-> n, unit |-> u]
    BY <2>1
  <2>3. n \in Nat /\ u \in Nat
    BY <1>1
  <2> QED
    BY <2>2, <2>3 DEF Unit
<1>3. ASSUME NEW v, v \in Unit, v.answer \in DOMAIN answers,
             v.unit \in 1 .. answers[v.answer].units
      PROVE  v \in Promised
  <2>1. v = [answer |-> v.answer, unit |-> v.unit]
    BY <1>3 DEF Unit
  <2> QED
    BY <1>3, <2>1 DEF Promised
<1> QED
  BY <1>2, <1>3

\* The client reads the answers one after the other, each whole: AnswersInOrder,
\* for every file, every size of a piece and every number of requests.  WireInv
\* says how far the wire has come in terms of what the server has left to write.
THEOREM AnswersAreInOrder == Spec => []AnswersInOrder
<1>1. ASSUME IInv PROVE AnswersInOrder
  <2>1. TypeOK /\ WireInv
    BY <1>1 DEF IInv
  <2>2. PICK w \in Nat : WireUpTo(w)
    BY <2>1 DEF WireInv
  <2>3. /\ DOMAIN answers = 1 .. Len(answers) /\ Len(answers) \in Nat
        /\ answers # <<>> => answers[Len(answers)].units \in Nat
    <3>1. answers \in Seq([request : Nat, units : Nat])
      BY <2>1 DEF TypeOK
    <3>2. answers # <<>> => Len(answers) \in 1 .. Len(answers)
      BY <3>1, EmptySeq, LenProperties
    <3>3. answers # <<>> => answers[Len(answers)] \in [request : Nat, units : Nat]
      BY <3>1, <3>2, ElementOfSeq
    <3> QED
      BY <3>1, <3>3, LenProperties
  <2>4. ASSUME NEW v \in OnWire
        PROVE  /\ v \in Unit
               /\ v.answer \in DOMAIN answers
               /\ v.unit \in 1 .. (IF v.answer < Len(answers) THEN answers[v.answer].units ELSE w)
    <3>1. v \in Unit
      BY <2>1, ElementOfSeq, LenProperties DEF OnWire, TypeOK
    <3> QED
      BY <2>2, <3>1 DEF WireUpTo
  <2>5. ASSUME NEW v \in OnWire PROVE v \in Promised
    <3>1. CASE v.answer < Len(answers)
      BY <2>1, <2>4, <3>1, PromisedFacts
    <3>2. CASE ~(v.answer < Len(answers))
      <4>1. v.answer = Len(answers) /\ answers # <<>>
        BY <2>3, <2>4, <3>2
      <4>2. w <= answers[Len(answers)].units /\ answers[Len(answers)].units \in Nat
        BY <2>2, <2>3, <4>1 DEF WireUpTo
      <4>3. v.unit \in 1 .. answers[v.answer].units
        BY <2>4, <3>2, <4>1, <4>2
      <4> QED
        BY <2>1, <2>4, <4>3, PromisedFacts
    <3> QED
      BY <3>1, <3>2
  <2>6. ASSUME NEW v \in OnWire, NEW u \in Promised, Before(u, v) PROVE u \in OnWire
    <3>1. /\ u \in Unit /\ u.answer \in DOMAIN answers
          /\ u.unit \in 1 .. answers[u.answer].units
      BY <2>1, PromisedFacts
    <3>2. CASE u.answer < Len(answers)
      BY <2>2, <3>1, <3>2 DEF WireUpTo
    <3>3. CASE ~(u.answer < Len(answers))
      <4>1. u.answer = v.answer /\ u.unit < v.unit /\ ~(v.answer < Len(answers))
        BY <2>3, <2>4, <2>6, <3>1, <3>3 DEF Before
      <4>2. u.unit \in 1 .. w
        BY <2>4, <3>1, <4>1
      <4> QED
        BY <2>2, <3>1, <3>3, <4>2 DEF WireUpTo
    <3> QED
      BY <3>2, <3>3
  <2>7. ASSUME server.phase = "request" PROVE Promised \subseteq OnWire
    <3>1. server.phase \in Reading
      BY <2>7 DEF Reading
    <3> QED
      BY <2>1, <3>1, AllWritten, PromisedFacts
  <2>8. \A i, j \in DOMAIN wire : i < j => Before(wire[i], wire[j])
    BY <2>1 DEF WireInv
  <2> QED
    BY <2>5, <2>6, <2>7, <2>8 DEF AnswersInOrder
<1> QED
  BY <1>1, Invariant, PTL

\* A client that waits for its answers gets them in the order of its requests:
\* what MatchInv adds is that no cell of a request that was answered is left over,
\* so that the next request is read from its head.
THEOREM AnswersAreMatched == Spec => []AnswersMatch
<1>1. IInv => AnswersMatch
  BY DEF IInv, MatchInv, NoneEarly, AnswersMatch
<1> QED
  BY <1>1, Invariant, PTL

\* No request is answered twice, by a client that does not wait either: every head
\* that is still to be read is of a later request.
THEOREM NoneAnsweredTwice == Spec => []NoAnswerTwice
<1>1. IInv => NoAnswerTwice
  BY DEF IInv, AnswerInv
<1> QED
  BY <1>1, Invariant, PTL

\* After the answer to a request that asked for it, the connection ends: the next
\* request is never read.
THEOREM CloseAsAsked == Spec => []CloseIsObeyed
<1>1. ASSUME IInv PROVE CloseIsObeyed
  <2>1. /\ DOMAIN answers = 1 .. Len(answers) /\ Len(answers) \in Nat
        /\ \A a \in DOMAIN answers : answers[a].request # 0 =>
             (a < Len(answers) \/ server.phase \in Reading
                => requests[answers[a].request].keep)
    BY <1>1, LenProperties DEF IInv, AnswerInv, TypeOK
  <2> QED
    BY <2>1 DEF CloseIsObeyed, Reading
<1> QED
  BY <1>1, Invariant, PTL

\* The resource is called with all of the request's content, of any length, in its
\* buffer: the cells behind the head, and no others of that request.
THEOREM ContentHasAllCells == Spec => []ContentIsComplete
<1>1. ASSUME IInv, server.phase \in Writing, server.current # 0
      PROVE  Cardinality({i \in DOMAIN server.buffer :
               server.buffer[i] = [request |-> server.current, part |-> "body"]})
                 = requests[server.current].body
  <2> DEFINE r == server.current
             n == requests[r].body
             b == Len(server.buffer)
             content == {i \in DOMAIN server.buffer :
                           server.buffer[i] = [request |-> r, part |-> "body"]}
  <2>1. /\ TypeOK /\ server.buffer \in Seq(Cell) /\ b \in Nat
        /\ DOMAIN server.buffer = 1 .. b
        /\ requests \in Seq(Sent)
    BY <1>1, StateTypes, LenProperties DEF IInv, TypeOK
  <2>2. /\ r \in DOMAIN requests
        /\ server.buffer[1] = [request |-> r, part |-> "head"]
        /\ b >= 1 + n /\ n \in Nat
    <3>1. /\ r \in DOMAIN requests
          /\ server.buffer[1] = [request |-> r, part |-> "head"]
          /\ server.asked = Asked(requests[r])
          /\ b >= 1 + server.asked.body
      BY <1>1 DEF IInv, ParseInv, Known
    <3> QED
      BY <2>1, <3>1, RequestTypes
  <2>3. Framed(server.buffer)
    BY <1>1, <2>1, StateTypes, FramedParts DEF IInv, StreamInv, Cells
  <2> HIDE DEF n, b
  <2>4. \A i \in DOMAIN server.buffer : i > 1 =>
          (server.buffer[i].request = r <=> i <= 1 + n)
    <3>1. 1 \in DOMAIN server.buffer
      BY <2>1, <2>2
    <3> QED
      BY <2>2, <2>3, <3>1 DEF Framed, n
  <2>5. \A i \in DOMAIN server.buffer :
          i > 1 /\ server.buffer[i].request = r => server.buffer[i].part = "body"
    <3> SUFFICES ASSUME NEW i \in DOMAIN server.buffer, i > 1, server.buffer[i].request = r
                 PROVE  server.buffer[i].part = "body"
      OBVIOUS
    <3>1. 1 \in DOMAIN server.buffer
      BY <2>1, <2>2
    <3>2. server.buffer[i] \in Cell
      BY <2>1, ElementOfSeq DEF b
    <3>3. server.buffer[i].part # "head"
      BY <2>2, <2>3, <3>1, <3>2 DEF Framed, Cell
    <3> QED
      BY <3>2, <3>3 DEF Cell
  <2>6. content = 2 .. (1 + n)
    <3>1. ASSUME NEW i \in content PROVE i \in 2 .. (1 + n)
      <4>1. i # 1
        BY <2>2
      <4> QED
        BY <2>1, <2>2, <2>4, <4>1
    <3>2. ASSUME NEW i \in 2 .. (1 + n) PROVE i \in content
      <4>1. i \in DOMAIN server.buffer /\ i > 1 /\ i <= 1 + n
        BY <2>1, <2>2
      <4>2. /\ server.buffer[i].request = r /\ server.buffer[i].part = "body"
            /\ server.buffer[i] \in Cell
        BY <2>1, <2>4, <2>5, <4>1, ElementOfSeq DEF b
      <4>3. server.buffer[i] = [request |-> r, part |-> "body"]
        BY <4>2 DEF Cell
      <4> QED
        BY <4>1, <4>3
    <3> QED
      BY <3>1, <3>2
  <2>7. Cardinality(2 .. (1 + n)) = n
    <3>1. 2 \in Int /\ 1 + n \in Int /\ (1 + n) - 2 + 1 = n
      BY <2>2
    <3>2. 2 > 1 + n => n = 0
      BY <2>2
    <3> QED
      BY <3>1, <3>2, FS_Interval
  <2> QED
    BY <2>6, <2>7 DEF n
<1>2. IInv => ContentIsComplete
  BY <1>1 DEF ContentIsComplete, Writing
<1> QED
  BY <1>2, Invariant, PTL
--------------------------------------------------------------------------------
(* The timers *)

Fields == {"phase", "io", "timer", "buffer", "current", "asked", "need", "out", "left"}

\* What the functions do to the timer, whatever the other fields are.
LEMMA PlainTimers ==
  ASSUME NEW s, DOMAIN s = Fields
  PROVE  /\ End(s).phase = "ended" /\ End(s).io = "none" /\ ~End(s).timer
         /\ read_request_and_content(s).phase = "request"
         /\ read_request_and_content(s).timer = RequestTimeout
         /\ DOMAIN write_response(s) = Fields /\ write_response(s).timer = ContentTimeout
BY DEF End, read_request_and_content, write_response, Fields

LEMMA ContentTimer ==
  ASSUME NEW s, DOMAIN s = Fields, NEW length
  PROVE  /\ read_content(s, length).phase = "content"
         /\ read_content(s, length).timer = ContentTimeout
BY DEF read_content, Fields

LEMMA SendTimer ==
  ASSUME NEW s, DOMAIN s = Fields, NEW phase
  PROVE  Send(s, phase).phase = phase /\ Send(s, phase).timer = s.timer
BY DEF Send, Fields

LEMMA PieceTimer ==
  ASSUME NEW s, DOMAIN s = Fields, NEW n, NEW units
  PROVE  /\ default_resource_send(s, n, units).phase \in Writing
         /\ default_resource_send(s, n, units).timer = s.timer
BY DEF default_resource_send, Send, Writing, Fields

\* A request that is answered has the timer of its exchange.
LEMMA AnswerTimed ==
  ASSUME NEW s, DOMAIN s = Fields, find_resource(s)
  PROVE  \/ server'.phase = "ended" /\ server'.io = "none" /\ ~server'.timer
         \/ server'.phase \in Writing /\ server'.timer = ContentTimeout
<1>1. CASE s.asked.kind = "other" /\ server' = End(s)
  BY <1>1, PlainTimers
<1>2. CASE Respond(s)
  <2> DEFINE r == write_response(s)
             n == Len(answers) + 1
             head == Units(n, 1, 1)
             plain == [r EXCEPT !.out = head]
             file(size) == [r EXCEPT !.out = head, !.left = size]
  <2>1. \/ server' = Send(r, "rest")
        \/ server' = Send(plain, "rest")
        \/ \E size \in 0 .. MaxFile :
             server' = default_resource_send(file(size), n, size + 1)
    BY <1>2 DEF Respond
  <2>2. DOMAIN r = Fields /\ r.timer = ContentTimeout
    BY PlainTimers
  <2> HIDE DEF r, n, head
  <2>3. DOMAIN plain = Fields /\ plain.timer = ContentTimeout
    BY <2>2 DEF Fields
  <2>4. ASSUME NEW size PROVE DOMAIN file(size) = Fields /\ file(size).timer = ContentTimeout
    BY <2>2 DEF Fields
  <2> HIDE DEF plain, file
  <2> QED
    BY <2>1, <2>2, <2>3, <2>4, SendTimer, PieceTimer DEF Writing
<1> QED
  BY <1>1, <1>2 DEF find_resource

\* Every step keeps the timers: the server goes on waiting for the same, or it
\* ends, or it begins to wait with the timer of the phase it enters.
LEMMA TimedStep ==
  ASSUME TypeOK, WaitsAreTimed, [Next]_vars
  PROVE  WaitsAreTimed'
<1>1. server \in Server /\ DOMAIN server = Fields
  BY DEF TypeOK, Server, Fields
<1>2. ASSUME server'.phase = server.phase, Watched => Watched',
             server.phase = "ended" => server'.io = "none" /\ ~server'.timer
      PROVE  WaitsAreTimed'
  BY <1>2 DEF WaitsAreTimed
<1>3. ASSUME server'.phase = "ended", server'.io = "none", ~server'.timer
      PROVE  WaitsAreTimed'
  BY <1>3 DEF WaitsAreTimed
<1>4. ASSUME server'.phase = "request", server'.timer = RequestTimeout
      PROVE  WaitsAreTimed'
  BY <1>4 DEF WaitsAreTimed, Watched
<1>5. ASSUME server'.phase \in {"content", "piece", "rest"}, server'.timer = ContentTimeout
      PROVE  WaitsAreTimed'
  BY <1>5 DEF WaitsAreTimed, Watched
<1>6. ASSUME server.phase \in Writing, server'.phase \in Writing,
             server'.timer = server.timer, UNCHANGED <<link, due>>
      PROVE  WaitsAreTimed'
  BY <1>6 DEF WaitsAreTimed, Watched, Writing
<1>7. CASE TlsDone
  BY <1>1, <1>3, <1>4, <1>7, PlainTimers DEF TlsDone
<1>8. CASE RequestDone
  <2>1. CASE ~Ok
    BY <1>1, <1>3, <1>8, <2>1, PlainTimers DEF RequestDone
  <2>2. CASE Ok
    <3> DEFINE s(q) == [server EXCEPT !.asked = q, !.timer = FALSE,
                          !.current = IF HeadAt = 1 THEN server.buffer[1].request ELSE 0]
    <3>1. PICK q \in Parsed :
            \/ server' = End(s(q))
            \/ \E length : server' = read_content(s(q), length)
            \/ find_resource(s(q))
      BY <1>8, <2>2 DEF RequestDone
    <3>2. DOMAIN s(q) = Fields
      BY <1>1
    <3> HIDE DEF s
    <3>3. CASE server' = End(s(q))
      BY <1>3, <3>2, <3>3, PlainTimers
    <3>4. CASE \E length : server' = read_content(s(q), length)
      BY <1>5, <3>2, <3>4, ContentTimer
    <3>5. CASE find_resource(s(q))
      BY <1>3, <1>5, <3>2, <3>5, AnswerTimed DEF Writing
    <3> QED
      BY <3>1, <3>3, <3>4, <3>5
  <2> QED
    BY <2>1, <2>2
<1>9. CASE ContentDone
  <2> DEFINE s == [server EXCEPT !.timer = FALSE]
  <2>1. DOMAIN s = Fields /\ (server' = End(server) \/ find_resource(s))
    BY <1>1, <1>9 DEF ContentDone
  <2> HIDE DEF s
  <2> QED
    BY <1>1, <1>3, <1>5, <2>1, PlainTimers, AnswerTimed DEF Writing
<1>10. CASE PieceDone
  BY <1>1, <1>6, <1>10, PieceTimer, SendTimer DEF PieceDone, Handles, Writing
<1>11. CASE RestDone
  BY <1>1, <1>3, <1>4, <1>11, PlainTimers DEF RestDone
<1>12. CASE TimedOut
  BY <1>2, <1>12 DEF TimedOut, WaitsAreTimed, Watched
<1>13. CASE \/ Handshake \/ ReadContent \/ Write \/ Fail
            \/ \E k \in 1 .. Len(stream) : ReadRequest(k)
  <2>1. /\ server.phase # "ended"
        /\ server'.phase = server.phase /\ server'.timer = server.timer
        /\ UNCHANGED <<link, due>>
    BY <1>1, <1>13 DEF Handshake, ReadContent, Write, Fail, ReadRequest, Pending, EndOfFile, Server
  <2> QED
    BY <1>2, <2>1 DEF Watched
<1>14. CASE \/ PeerCloses \/ PeerResets \/ UNCHANGED vars
            \/ \E q \in Request : ClientSends(q)
  <2>1. /\ UNCHANGED <<server, due>>
        /\ link = "shut" => link' = "shut"
    BY <1>14 DEF PeerCloses, PeerResets, ClientSends, Open, vars
  <2> QED
    BY <1>2, <2>1 DEF Watched, WaitsAreTimed
<1>15. CASE TimerExpires
  <2>1. /\ server'.phase = server.phase /\ server'.io = server.io /\ ~server'.timer
        /\ due'
    BY <1>1, <1>15 DEF TimerExpires, Server
  <2> QED
    BY <1>2, <2>1 DEF Watched, WaitsAreTimed
<1> QED
  BY <1>7, <1>8, <1>9, <1>10, <1>11, <1>12, <1>13, <1>14, <1>15 DEF Next

LEMMA InitTimed == Init => WaitsAreTimed
<1> SUFFICES ASSUME Init PROVE WaitsAreTimed
  OBVIOUS
<1> DEFINE s == [phase |-> "request", io |-> "none", timer |-> FALSE, buffer |-> <<>>,
                 current |-> 0, asked |-> [kind |-> "bad", body |-> 0, keep |-> TRUE],
                 need |-> 0, out |-> <<>>, left |-> 0]
<1>1. PICK socket \in Sockets : server = accepted(s, socket)
  BY DEF Init
<1>2. DOMAIN s = Fields
  BY DEF Fields
<1> HIDE DEF s
<1>3. server.phase \in {"tls", "request"} /\ server.timer = RequestTimeout
  BY <1>1, <1>2, PlainTimers DEF accepted, Fields
<1> QED
  BY <1>3 DEF WaitsAreTimed, Watched

\* A client that sends or takes nothing does not hold the connection, with and
\* without TLS: WaitsAreTimed, the part of ConnectionEnds that is no liveness.
THEOREM WaitsHaveTimers == Spec => []WaitsAreTimed
<1>1. TypeOK /\ WaitsAreTimed /\ [Next]_vars => WaitsAreTimed'
  BY TimedStep
<1> QED
  BY <1>1, InitTimed, TypeCorrect, PTL DEF Spec
================================================================================

--------------------------------- MODULE WsEcho ---------------------------------
(***************************************************************************)
(* A connection to the bot's WebSocket server, from the request it begins  *)
(* with to its last frame: the handlers of server_ws.hpp that read         *)
(* (read_handshake, read_message, read_message_content), and what is       *)
(* written for each request and frame by the endpoints of bot.cpp.         *)
(*                                                                         *)
(* The request is read with async_read_until, which takes what the socket  *)
(* has: early bytes of the client's first frames may be in read_buffer     *)
(* already.  read_message asks the socket for as many bytes as the next    *)
(* piece has all the same, and takes the piece from the front of the       *)
(* buffer, so that as many bytes stay in it.                               *)
(*                                                                         *)
(* Timers and lost connections are in module WsConnection, what becomes of *)
(* the bytes written in module WsSendQueue.  SHA-1 is any function: its    *)
(* result is chosen.                                                       *)
(***************************************************************************)
EXTENDS WsFrame, WsHandshake

CONSTANTS
  MaxHeaders,  \* bound on the header lines of a request
  Digests,     \* what SHA-1 may return: five words of eight hexadecimal digits
  Lens,        \* lengths of the frames the client sends
  MaxFrames,   \* bound on their number
  MaxEarly     \* bound on the bytes sent before the handshake was answered

ASSUME EchoAssumption ==
  /\ {MaxHeaders, MaxFrames, MaxEarly} \subseteq Nat
  /\ Digests \subseteq [1 .. 5 -> [1 .. 8 -> 0 .. 15]]
  /\ Lens \subseteq 0 .. Byte ^ 8 - 1

VARIABLES
  request,     \* the lines of the request, up to the empty one: history until frames are read
  digest,      \* the SHA-1 of its key and the magic string
  lines,       \* its lines that are still in read_buffer
  header,      \* Connection::header
  endpoint,    \* the endpoint of the path, "" if there is none
  answer,      \* <<Sec-WebSocket-Accept>>, or <<>>
  frames,      \* what the client sends after it: history
  stream,      \* its bytes
  early,       \* how many of them came with the request
  arrived,     \* how many have come to the socket
  received,    \* how many have come to read_buffer
  consumed,    \* how many have been taken from it
  phase,       \* the handler that comes next
  opcode,      \* fin_rsv_opcode
  length,      \* length
  done,        \* frames the server has handled: history
  out          \* bytes of frames the server has written

upgrade == <<request, digest, lines, header, endpoint, answer>>
client == <<frames, stream, early>>
reading == <<arrived, received, consumed, opcode, length, done, out>>

vars == <<upgrade, client, reading, phase>>

--------------------------------------------------------------------------------
(* The client, by RFC 6455 *)

WireLength(n) ==
  IF n < Half - 2 THEN <<n>>
  ELSE IF n < Byte ^ 2 THEN <<Half - 2, n \div Byte, n % Byte>>
  ELSE <<Half - 1>> \o LengthBytes(n, 8)

WireFrame(op, content) == <<op>> \o WireLength(Len(content)) \o content

MaskKey == <<1, 0, 2, 3>>

Content(n) == [i \in 1 .. n |-> (3 * i + 1) % Byte]

Bytes(f) ==
  LET lengths == WireLength(f.length)
  IN  IF f.masked
      THEN <<f.opcode, Half + Head(lengths)>> \o Tail(lengths) \o MaskKey
             \o Masked(Content(f.length), MaskKey)
      ELSE <<f.opcode>> \o lengths \o Content(f.length)

Frames == [opcode : {Text, Close, Ping, Pong}, masked : BOOLEAN, length : Lens]

\* The bytes up to the end of the i-th frame.
EndOf(i) == Len(FlattenSeq([j \in 1 .. i |-> Bytes(frames[j])]))

--------------------------------------------------------------------------------
(* The request *)

Init ==
  /\ request \in {<<line>> \o more : line \in RequestLines,
                                     more \in BoundedSeq(HeaderLines, MaxHeaders)}
  /\ Ends(request)
  /\ digest \in Digests
  /\ lines = request \o << <<"CR">> >>
  /\ header = <<>>
  /\ endpoint = ""
  /\ answer = <<>>
  /\ frames = <<>> /\ stream = <<>> /\ early = 0
  /\ arrived = 0 /\ received = 0 /\ consumed = 0
  /\ phase = "request"
  /\ opcode = 0 /\ length = 0
  /\ done = 0
  /\ out = <<>>

\* The handler of async_read_until in read_handshake.  A request without an
\* endpoint, or without a key, gets no answer: the connection is let go.
HandshakeDone ==
  /\ phase = "request"
  /\ LET rest == Tail(lines)
         parsed == HasPath(Head(lines))
     IN  /\ lines' = IF parsed THEN After(rest, HeaderEnd(rest)) ELSE rest
         /\ header' = IF parsed THEN Header(Before(rest, HeaderEnd(rest))) ELSE <<>>
         /\ endpoint' = Endpoint(IF parsed THEN Path(Head(lines)) ELSE <<>>)
  /\ IF endpoint' # "" /\ Key \in DOMAIN header'
     THEN answer' = <<Accept(digest)>> /\ phase' = "upgrade"
     ELSE phase' = "dropped" /\ UNCHANGED answer
  /\ UNCHANGED <<request, digest, client, reading>>

\* The handler of async_write in write_handshake: read_message.
UpgradeDone ==
  /\ phase = "upgrade"
  /\ phase' = IF lines = <<>> THEN "head" ELSE "astray"
  /\ request' = <<>> /\ header' = <<>> /\ answer' = <<>>
  /\ digest' = CHOOSE d \in Digests : TRUE
  /\ UNCHANGED <<lines, endpoint, client, reading>>

--------------------------------------------------------------------------------
(* Frames *)

\* What the client sends after its request, once frames are what is read: early
\* bytes of it have been in read_buffer since the request was read.
Send ==
  /\ phase = "head" /\ frames = <<>>
  /\ frames' \in BoundedSeq(Frames, MaxFrames) \ {<<>>}
  /\ stream' = FlattenSeq([i \in DOMAIN frames' |-> Bytes(frames'[i])])
  /\ early' \in 0 .. MaxEarly
  /\ early' <= Len(stream')
  /\ arrived' = early'
  /\ received' = early'
  /\ UNCHANGED <<upgrade, phase, consumed, opcode, length, done, out>>

\* Frames arrive cut anywhere; a cut makes a difference at the end of a frame
\* and as many bytes after it as may be early.
Arrive ==
  /\ \E i \in DOMAIN frames, more \in 0 .. MaxEarly :
       LET n == EndOf(i) + more IN n \in arrived + 1 .. Len(stream) /\ arrived' = n
  /\ UNCHANGED <<upgrade, client, received, consumed, phase, opcode, length, done, out>>

\* async_read with transfer_exactly(n), and the n bytes its handler takes.
Read(n) ==
  /\ received + n <= arrived
  /\ received' = received + n
  /\ consumed' = consumed + n
  /\ UNCHANGED <<upgrade, client, arrived>>

Piece(n) == SubSeq(stream, consumed + 1, consumed + n)

Unmasked == <<4>>    \* "message from client not masked"

Answer(bytes, next) ==
  /\ out' = out \o bytes
  /\ done' = done + 1
  /\ phase' = next

\* The two bytes a frame begins with.
HeadDone ==
  /\ phase = "head"
  /\ Read(2)
  /\ opcode' = Piece(2)[1]
  /\ LET second == Piece(2)[2]
     IN  IF second < Half
         THEN Answer(CloseFrame(ProtocolError, Unmasked), "closed") /\ UNCHANGED length
         ELSE /\ length' = second - Half
              /\ phase' = CASE length' = Mark2 -> "length2"
                            [] length' = Mark8 -> "length8"
                            [] OTHER -> "content"
              /\ UNCHANGED <<done, out>>

\* A length of 2 or 8 bytes.
LengthDone ==
  \E n \in {2, 8} :
    /\ phase = IF n = 2 THEN "length2" ELSE "length8"
    /\ Read(n)
    /\ length' \in Lengths(Piece(n))
    /\ phase' = "content"
    /\ UNCHANGED <<opcode, done, out>>

\* The status and the reason of a close message are sent back.
CloseAnswer(content) ==
  IF length >= 2
  THEN CloseFrame(content[1] * Byte + content[2], SubSeq(content, 3, length))
  ELSE CloseFrame(0, content)

\* onmessage of the endpoints: echo sends the text back, channel keeps quiet.
OnMessage(content) == IF endpoint = "echo" THEN Frame(Text, content) ELSE <<>>

\* The mask and the content.  The endpoint's onmessage gets everything that is
\* neither a close nor a ping.
ContentDone ==
  /\ phase = "content"
  /\ Read(4 + length)
  /\ LET piece == Piece(4 + length)
         content == Masked(SubSeq(piece, 5, 4 + length), SubSeq(piece, 1, 4))
     IN  CASE opcode = Close -> Answer(CloseAnswer(content), "closed")
           [] opcode = Ping -> Answer(Frame(opcode + 1, <<>>), "head")
           [] OTHER -> Answer(OnMessage(content), "head")
  /\ UNCHANGED <<opcode, length>>

ReadDone == HeadDone \/ LengthDone \/ ContentDone

Next == HandshakeDone \/ UpgradeDone \/ Send \/ Arrive \/ ReadDone

Spec == Init /\ [][Next]_vars

\* The io thread runs the handlers.  No client has to send anything.
FairSpec == Spec /\ WF_vars(ReadDone)

--------------------------------------------------------------------------------
(* Properties *)

\* By the RFC: what is due for a frame.
Due(f) ==
  LET content == Content(f.length)
  IN  CASE ~f.masked -> WireFrame(Close, <<ProtocolError \div Byte, ProtocolError % Byte>> \o Unmasked)
        [] f.masked /\ f.opcode = Close ->
             WireFrame(Close, IF f.length < 2 THEN <<0, 0>> \o content ELSE content)
        [] f.masked /\ f.opcode = Ping -> WireFrame(Pong, <<>>)
        [] OTHER -> IF endpoint = "echo" THEN WireFrame(Text, content) ELSE <<>>

\* The echo server's promise on the wire: what it has written is, byte for byte,
\* well-formed frames with what the frames it has read asked for, in their order;
\* bytes that came with the request shift nothing.
EchoMatches == out = FlattenSeq([i \in 1 .. done |-> Due(frames[i])])

\* A frame is handled when it has come, and as many bytes more as were early: a
\* client that sent bytes with its request waits for the answer to its last
\* frame until it sends another.
FramesAreHandled ==
  \A i \in 1 .. MaxFrames :
    (i \in DOMAIN frames /\ arrived >= EndOf(i) + early) ~> (done >= i \/ phase = "closed")

\* By the grammar of HTTP: every line of the header has a colon and ends in "\r\n".
Whole(rows) == \A i \in 2 .. Len(rows) : Contains(rows[i], ":") /\ Last(rows[i]) = "CR"

Asked(line) == HasPath(line) /\ SubSeq(line, 2, 3) \in {<<" ", "/echo">>, <<" ", "/channel/">>}

\* A whole request is answered if and only if it asks for an endpoint and has a
\* key, in small letters: then the key is the value of the first such line, and
\* frames are read from where the request ends.  They are read from within a
\* request only if it has a header line without a colon.
UpgradeAsAsked ==
  phase \in {"upgrade", "dropped"} =>
    /\ Whole(request) =>
         LET keys == SelectSeq(Tail(request), LAMBDA line : IsPrefix(Key \o <<":">>, line))
         IN  /\ (answer # <<>>) <=> (Asked(request[1]) /\ keys # <<>>)
             /\ answer # <<>> =>
                  header[Key] = SelectSeq(keys[1], LAMBDA x : x \in {"k", "l"})
    /\ answer # <<>> /\ lines # <<>> =>
         \E i \in 2 .. Len(request) : ~Contains(request[i], ":")

\* The bytes of the digest, two digits each.
DigestBytes ==
  FlattenSeq([w \in 1 .. 5 |-> [i \in 1 .. 4 |-> 16 * digest[w][2 * i - 1] + digest[w][2 * i]]])

\* "auto sha1=Crypto::SHA1(connection->header["sec-websocket-key"]+ws_magic_string)":
\* what is sent, in Base64, is the SHA-1 itself.
AcceptIsDigest == answer # <<>> => answer = <<Base64(DigestBytes)>>
================================================================================

------------------------------ MODULE TwitchClient ------------------------------
(***************************************************************************)
(* The client the bot makes for a channel (twitch_client.cpp), on top of   *)
(* irc_client (irc_client.cpp): construction, connection, login, and what  *)
(* becomes of the lines it reads (module IrcMessage).                      *)
(*                                                                         *)
(* Two threads are at work.  The one that calls the constructor resolves   *)
(* the host and begins to connect; then the client's own thread runs, and  *)
(* may call virtual functions of an object that is still being made:       *)
(* those of irc_client at first, and then those of twitch_client, which    *)
(* use m_connection, a member set last.                                    *)
(*                                                                         *)
(* How a line is cut off the stream is that of module IrcReader, here with *)
(* lexemes.  Commands are recorded when they are given to send(); how they *)
(* get to the server is in module IrcWriter, how a text gets to the        *)
(* WebSocket in module WsSendQueue.                                        *)
(***************************************************************************)
EXTENDS IrcDispatch

CONSTANTS
  Messages,       \* what the server may say, without "\r\n"
  MaxMessages     \* bound on the messages the server sends

\* A "\n" ends a line; messages have none of their own, nor a "\r".
ASSUME MessagesAssumption ==
  \A m \in Messages :
    m \in Seq({m[i] : i \in DOMAIN m}) /\ \A i \in DOMAIN m : m[i] \notin {"CR", "LF"}

VARIABLES
  made,         \* how far the constructor is
  link,         \* the socket
  said,         \* the messages the server has sent
  stream,       \* lexemes sent but not read
  response,     \* irc_client::response
  reading,      \* async_read_until, or the loop of its handler
  taken,        \* the messages taken whole, and how far the constructor was
  torn,         \* has a part of a message been taken as a line?
  sent,         \* commands given to send()
  forwarded,    \* texts given to WsServer::send
  dead          \* what ended the process, or made it undefined

vars == <<made, link, said, stream, response, reading, taken, torn, sent, forwarded, dead>>

serverVars == <<said, stream>>
takenVars == <<taken, torn>>
clientVars == <<response, reading, takenVars, sent, forwarded>>

EndOfLine == <<"CR", "LF">>

Line(m) == Append(m, "CR")

\* Where read(const std::string&) takes a line, by the line: what getline can
\* cut off is a piece of a message.
Went ==
  [line \in UNION {SubSeqs(m \o EndOfLine) : m \in Messages} |-> read(Message(line))]

Command(name, params) == [name |-> name, params |-> params]

Init ==
  /\ made = "resolving"
  /\ link = "closed"
  /\ said = <<>>
  /\ stream = <<>>
  /\ response = <<>>
  /\ reading = "none"
  /\ taken = <<>>
  /\ torn = FALSE
  /\ sent = <<>>
  /\ forwarded = <<>>
  /\ dead = "no"

--------------------------------------------------------------------------------
(* The thread that makes the client *)

\* irc_client's constructor: the host is found, the connection begun and the
\* client's thread started, or resolve() throws, which nothing catches.
Resolved ==
  /\ made = "resolving"
  /\ \/ made' = "irc_client" /\ link' = "connecting" /\ UNCHANGED dead
     \/ dead' = "resolve" /\ UNCHANGED <<made, link>>
  /\ UNCHANGED <<serverVars, clientVars>>

\* twitch_client's: its virtual functions are in force before its members are.
Constructed ==
  /\ \/ made = "irc_client" /\ made' = "members"
     \/ made = "members" /\ made' = "twitch_client"
  /\ UNCHANGED <<link, serverVars, clientVars, dead>>

--------------------------------------------------------------------------------
(* The client's thread *)

\* connect(): read(), then connected(), which logs in.
Connected ==
  /\ link = "connecting"
  /\ link' = "up"
  /\ reading' = "pending"
  /\ sent' = sent \o <<Command("PASS", <<>>), Command("NICK", <<>>)>>
  /\ UNCHANGED <<made, serverVars, response, takenVars, forwarded, dead>>

ConnectFails ==
  /\ link = "connecting"
  /\ link' = "closed"
  /\ UNCHANGED <<made, serverVars, clientVars, dead>>

\* What the end of the message of the day is answered with.
Reply ==
  <<Command("CAP", <<"tags">>), Command("CAP", <<"membership">>),
    Command("CAP", <<"commands">>), Command("JOIN", <<>>)>>

Pong(params) == <<Command("PONG", params)>>

Does(sends, texts, fate) == [sends |-> sends, texts |-> texts, fate |-> fate]

EndOfMotd == [to |-> "reply", code |-> "RPL_ENDOFMOTD"]

\* Mutant of Take: the target is forwarded instead of the text.
TakeTarget(to) ==
  IF to.to = "privmsg" THEN Does(<<>>, <<to.params[1]>>, "no") ELSE Does(<<>>, <<>>, "no")

\* What a line does, by where read() takes it.  Before the constructor is done
\* irc_client's own reply and privmsg are called, which only print, or those of
\* twitch_client with members that are not there.
Take(to) ==
  CASE to.to \in {"undefined", "terminate"} -> Does(<<>>, <<>>, to.to)
    [] to.to = "ping" -> Does(Pong(to.params), <<>>, "no")
    [] to.to = "privmsg" /\ made = "twitch_client" -> Does(<<>>, <<to.params[2]>>, "no")
    [] to = EndOfMotd /\ made = "twitch_client" -> Does(Reply, <<>>, "no")
    [] (to.to = "privmsg" \/ to = EndOfMotd) /\ made = "members" -> Does(<<>>, <<>>, "early")
    [] OTHER -> Does(<<>>, <<>>, "no")

\* History.  The empty line of a "\n" that comes after its "\r" is left out.
Note(line) ==
  LET whole == \E m \in Messages : line = Line(m)
  IN  /\ taken' = IF whole /\ ~torn THEN Append(taken, [line |-> line, made |-> made]) ELSE taken
      /\ torn' = (torn \/ ~(whole \/ line = <<>>))

\* getline: the line is what is before the first "\n", or all there is.
End == SelectInSeq(response, LAMBDA x : x = "LF")
NextLine == IF End = 0 THEN response ELSE SubSeq(response, 1, End - 1)
Left == IF End = 0 THEN <<>> ELSE From(response, End + 1)

Delimited == \E i \in 2 .. Len(response) : SubSeq(response, i - 1, i) = EndOfLine

\* Mutant of HandleLine: read() is left out after the loop.
HandleLineOnce ==
  /\ reading = "loop" \/ (reading = "pending" /\ Delimited)
  /\ response' = Left
  /\ reading' = IF Left = <<>> THEN "none" ELSE "loop"
  /\ Note(NextLine)
  /\ LET does == Take(Went[NextLine])
     IN  /\ sent' = sent \o does.sends
         /\ forwarded' = forwarded \o does.texts
         /\ dead' = does.fate
  /\ UNCHANGED <<made, link, serverVars>>

\* One round of the handler's loop: getline and read(line).  After the last
\* one, read() again.
HandleLine ==
  /\ reading = "loop" \/ (reading = "pending" /\ Delimited)
  /\ response' = Left
  /\ reading' = IF Left = <<>> THEN "pending" ELSE "loop"
  /\ Note(NextLine)
  /\ LET does == Take(Went[NextLine])
     IN  /\ sent' = sent \o does.sends
         /\ forwarded' = forwarded \o does.texts
         /\ dead' = does.fate
  /\ UNCHANGED <<made, link, serverVars>>

\* The handler is given an error and closes the socket.
ReadFails ==
  /\ reading = "pending"
  /\ ~Delimited
  /\ link \in {"closed", "reset"} \/ (link = "fin" /\ stream = <<>>)
  /\ reading' = "none"
  /\ link' = "closed"
  /\ UNCHANGED <<made, serverVars, response, takenVars, sent, forwarded, dead>>

--------------------------------------------------------------------------------
(* The server and the network *)

Says(m) ==
  /\ link = "up"
  /\ Len(said) < MaxMessages
  /\ said' = Append(said, m)
  /\ stream' = stream \o m \o EndOfLine
  /\ UNCHANGED <<made, link, clientVars, dead>>

Arrive(n) ==
  /\ reading = "pending"
  /\ ~Delimited
  /\ link \in {"up", "fin"}
  /\ response' = response \o SubSeq(stream, 1, n)
  /\ stream' = From(stream, n + 1)
  /\ UNCHANGED <<made, link, said, reading, takenVars, sent, forwarded, dead>>

Ends ==
  /\ link = "up"
  /\ link' \in {"fin", "reset"}
  /\ UNCHANGED <<made, serverVars, clientVars, dead>>

Next ==
  /\ dead = "no"
  /\ \/ Resolved \/ Constructed
     \/ Connected \/ ConnectFails
     \/ HandleLine \/ ReadFails
     \/ \E m \in Messages : Says(m)
     \/ \E n \in 1 .. Len(stream) : Arrive(n)
     \/ Ends

Spec == Init /\ [][Next]_vars

\* Both threads run, and what the server sends arrives.  It need not send
\* anything, and the connection may end at any time.
FairSpec ==
  /\ Spec
  /\ WF_vars(dead = "no" /\ Resolved)
  /\ WF_vars(dead = "no" /\ Constructed)
  /\ WF_vars(dead = "no" /\ (Connected \/ ConnectFails))
  /\ WF_vars(dead = "no" /\ HandleLine)
  /\ WF_vars(dead = "no" /\ \E n \in 1 .. Len(stream) : Arrive(n))

--------------------------------------------------------------------------------
(* Properties *)

\* A message of the channel, and what it says there: all from the last colon on,
\* with its "\r".
IsPrivmsg(m) == Contains(m, "#c")
TextOf(m) ==
  LET colon == SelectLastInSeq(m, LAMBDA x : x = ":") IN From(Line(m), colon + 1)

\* Parsed as it is meant: neither a word in "PR" without a target nor a number no
\* int can hold, and the text is the parameter after the channel.
Understood(m) ==
  LET to == read(Message(Line(m)))
  IN  /\ to.to \notin {"undefined", "terminate"}
      /\ to.to = "privmsg" <=> IsPrivmsg(m)
      /\ IsPrivmsg(m) => to.params[2] = TextOf(m)

AllUnderstood == \A m \in Messages : Understood(m)

\* What was said in the channel and taken since the client is made.
Heard == {i \in DOMAIN taken : IsPrivmsg(said[i]) /\ taken[i].made = "twitch_client"}

\* Unless a line is torn, the lines taken are the messages sent, in their
\* order, and what was said since the client is made is forwarded, each text
\* once and in that order, and nothing else.
ForwardedAsSaid ==
  ~torn =>
    /\ \A i \in DOMAIN taken : taken[i].line = Line(said[i])
    /\ \E of \in [DOMAIN forwarded -> Heard] :
         /\ \A k, l \in DOMAIN forwarded : k < l => of[k] < of[l]
         /\ \A i \in Heard : \E k \in DOMAIN forwarded : of[k] = i
         /\ \A k \in DOMAIN forwarded : forwarded[k] = TextOf(said[of[k]])

\* Whatever the server says, whole messages do not bring the client down: it
\* takes a host that is not found, a line that is torn, or a message that
\* comes while the client is being made.
CrashNeedsTornLine ==
  dead # "no" =>
    \/ made = "resolving"
    \/ torn
    \/ \E i \in DOMAIN taken : taken[i].made = "members"

LoggedIn == Len(sent) >= 2 /\ sent[1].name = "PASS" /\ sent[2].name = "NICK"

\* Whichever thread is first: while the socket is open the client reads, and the
\* first it does with a connection is to log in, before any answer.
ReadsOnceLoggedIn ==
  /\ link \in {"up", "fin", "reset"} => reading # "none"
  /\ reading # "none" \/ sent # <<>> => LoggedIn

\* A client that is still being made answers pings; it joins no channel and forwards
\* nothing, and only between the two constructors can a message be too early for it.
ActsAsMade ==
  /\ made # "twitch_client" =>
       /\ forwarded = <<>>
       /\ \A i \in DOMAIN sent : sent[i].name \in {"PASS", "NICK", "PONG"}
  /\ dead = "early" => made = "members"
  /\ dead = "resolve" => link = "closed" /\ sent = <<>>

Said(first) == Len(SelectSeq(said, LAMBDA m : m[1] = first))
Sent(name) == Len(SelectSeq(sent, LAMBDA c : c.name = name))

\* The server is answered: a PONG for every PING, and a JOIN for the end of
\* the message of the day, unless the line is torn or came early, or the
\* connection or the process ends.
ServerIsAnswered ==
  \A n \in 1 .. MaxMessages : \A pair \in {<<"PI", "PONG">>, <<"376", "JOIN">>} :
    (Said(pair[1]) >= n) ~>
      (Sent(pair[2]) >= n \/ torn \/ link # "up" \/ dead # "no"
        \/ \E i \in DOMAIN taken : taken[i].made # "twitch_client")

\* "Last arg is the only one that may contain inner spaces. More than 15 words
\* means remainder of words are part of 15th arg. Last arg may be indicated by
\* a colon prefix instead": whatever message the server says first, parsing
\* undoes writing, but for an empty parameter that follows the others when no
\* argument could be the last.
ArgumentsKept == said = <<>> => AllKept

\* Whatever line comes first: a message with the arguments it needs is taken
\* where it belongs, with them, text to privmsg, a ping to ping, and no other to
\* either; and a line, be it a message or not, does harm only if it has a
\* command in "PR" without a target or a number no int can hold.  What
\* this server says is parsed as it is meant.
MessagesArrive == said = <<>> => AllArrive /\ AllHarmless /\ AllUnderstood
================================================================================

------------------------------- MODULE IrcMessage -------------------------------
(***************************************************************************)
(* What irc_client makes of one line: the constructor of Message           *)
(* (irc_client.hpp), and where read(const Message&) and message()          *)
(* (irc_client.cpp) take it.                                               *)
(*                                                                         *)
(* A line is a row of lexemes: " ", ":", "@" and "!", which the pattern of *)
(* the constructor looks for, "CR", which getline leaves at the end, and   *)
(* any others, of which only those that begin a command mean something.    *)
(* A numeral is one lexeme.                                                *)
(***************************************************************************)
EXTENDS Naturals, Sequences, SequencesExt

Codes == [n \in {"001", "002", "003", "004", "372", "375"} |-> "ignored"]
           @@ ("376" :> "RPL_ENDOFMOTD") @@ ("421" :> "other")
Overlong == "99999999999"    \* a number no int can hold

\* boost::split and boost::join, by spaces.
Split(line) ==
  FoldLeft(LAMBDA words, x : IF x = " " THEN Append(words, <<>>)
                             ELSE Append(Front(words), Append(Last(words), x)),
           << <<>> >>, line)

Join(words) == Tail(FoldLeft(LAMBDA line, word : line \o <<" ">> \o word, <<>>, words))

Begins(word, x) == word # <<>> /\ word[1] = x
From(s, i) == SubSeq(s, i, Len(s))

--------------------------------------------------------------------------------
(* The pattern: tags, prefix, a command of at least one character,         *)
(* parameters in the middle, and the rest.  An optional part is left out   *)
(* when no command would follow it.                                        *)

\* Tags go on to the first space with something after it.
AfterTags(words) ==
  LET next == SelectInSubSeq(words, 2, Len(words), LAMBDA word : word # <<>>)
  IN  IF Begins(words[1], "@") /\ next # 0 THEN From(words, next) ELSE words

\* nick, nick@host or nick!user@host, of which only user may have spaces.
PrefixEnd(words) ==
  IF Contains(words[1], "!") /\ ~Contains(words[1], "@")
  THEN SelectInSeq(words, LAMBDA word : Contains(word, "@"))
  ELSE 1

AfterPrefix(words) ==
  LET end == PrefixEnd(words)
  IN  IF /\ Begins(words[1], ":")
         /\ end \in 1 .. (Len(words) - 1)
         /\ words[end + 1] # <<>>
      THEN From(words, end + 1)
      ELSE words

\* A parameter in the middle is not empty and does not begin with a colon;
\* there are up to 14 of them, as many as possible.
Middles(words) ==
  LET other == SelectInSubSeq(words, 2, Len(words),
                              LAMBDA word : word = <<>> \/ Begins(word, ":"))
      run == IF other = 0 THEN Tail(words) ELSE SubSeq(words, 2, other - 1)
  IN  SubSeq(run, 1, IF Len(run) < 14 THEN Len(run) ELSE 14)

\* What follows them, without its colon; empty if nothing does.
Rest(words) ==
  LET line == Join(From(words, Len(Middles(words)) + 2))
  IN  IF Len(words) = Len(Middles(words)) + 1 THEN <<>>
      ELSE IF Begins(line, ":") THEN Tail(line) ELSE line

\* Mutant of Params: the middle and the rest are not told apart.
ParamsSplit(words) == Tail(words)

\* The rest is always pushed: the "if" before push_back ends in a semicolon.
Params(words) == Append(Middles(words), Rest(words))

Nothing == [command |-> <<>>, params |-> <<>>]

\* A line the pattern does not match leaves the message empty.
Message(line) ==
  LET words == AfterPrefix(AfterTags(Split(line)))
  IN  IF words[1] = <<>> THEN Nothing
      ELSE [command |-> words[1], params |-> Params(words)]

--------------------------------------------------------------------------------
(* Where a message goes: [to, code] or [to, params].                       *)

To(name, params) == [to |-> name, params |-> params]

\* ping's second parameter is "" by default.
ping(params) == To("ping", IF Len(params) = 1 THEN Append(params, <<>>)
                                              ELSE SubSeq(params, 1, 2))

\* Mutant of privmsg: the text is the last parameter there is.
privmsgLast(params) ==
  IF params = <<>> THEN To("undefined", params) ELSE To("privmsg", <<params[1], Last(params)>>)

\* Mutant of privmsg: off by one.
privmsgShifted(params) ==
  IF Len(params) < 3 THEN To("undefined", params) ELSE To("privmsg", SubSeq(params, 2, 3))

\* A vector read beyond its end.
privmsg(params) ==
  IF Len(params) < 2 THEN To("undefined", params)
                     ELSE To("privmsg", SubSeq(params, 1, 2))

message(m) ==
  IF Begins(m.command, "PR") THEN privmsg(m.params)
  ELSE IF Begins(m.command, "PI") THEN
    IF m.params = <<>> THEN To("nothing", <<>>) ELSE ping(m.params)
  ELSE IF Begins(m.command, "J") THEN To("join", m.params)
  ELSE To("printed", <<>>)

\* stoi reads the digits a command begins with; of its exceptions only
\* invalid_argument is caught.
read(m) ==
  IF Begins(m.command, Overlong) THEN To("terminate", <<>>)
  ELSE IF m.command # <<>> /\ m.command[1] \in DOMAIN Codes
       THEN [to |-> "reply", code |-> Codes[m.command[1]]]
  ELSE message(m)
================================================================================

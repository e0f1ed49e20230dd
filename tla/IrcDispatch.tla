------------------------------ MODULE IrcDispatch ------------------------------
(***************************************************************************)
(* What IrcMessage makes of every line: the messages a server may mean,    *)
(* written as lines by the grammar the comments of irc_client.hpp state,   *)
(* and lines that follow no grammar.  No state is involved; module         *)
(* TwitchClient has the client that reads them.                            *)
(***************************************************************************)
EXTENDS IrcMessage

CONSTANTS
  MaxMiddle,     \* bound on the middle arguments of a message
  MaxLexemes     \* bound on the lexemes of a line without grammar

ASSUME DispatchAssumption == MaxMiddle \in Nat /\ MaxLexemes \in Nat

Commands == {<<"PR", "IVMSG">>, <<"PI", "NG">>, <<"J", "OIN">>, <<"NO", "TICE">>,
             <<"376">>, <<"421">>}

\* Arguments in the middle, and one at the end that may be anything: nothing,
\* a word, a word with a colon of its own, two words.
Middle == {<<"#c">>, <<"a", ":">>}
Trailing == {<<>>, <<"a">>, <<":">>, <<":", "a">>, <<"a", " ", "a">>, <<" ", ":", "a">>}

Meant == [
  tags    : BOOLEAN,
  prefix  : {<<>>, <<"srv">>, <<"n", "@", "h">>, <<"n", "!", "u", "@", "h">>},
  command : Commands,
  middle  : UNION {[1 .. n -> Middle] : n \in 0 .. MaxMiddle} \cup
            {[i \in 1 .. n |-> <<"a">>] : n \in 13 .. 14},
  last    : {<<>>} \cup {<<t>> : t \in Trailing},
  colon   : BOOLEAN]

Arguments(m) == m.middle \o m.last

\* The colon may be left out after 14 arguments, before one without a colon.
ByGrammar(m) ==
  m.colon \/ (m.last # <<>> /\ Len(m.middle) = 14 /\ ~Begins(m.last[1], ":"))

\* How a server writes a message, but for the "\n" that getline takes away.
Written(m) ==
  Join((IF m.tags THEN << <<"@", "a">> >> ELSE <<>>)
       \o (IF m.prefix = <<>> THEN <<>> ELSE << <<":">> \o m.prefix >>)
       \o <<m.command>> \o m.middle
       \o (IF m.last = <<>> THEN <<>>
           ELSE <<(IF m.colon THEN <<":">> ELSE <<>>) \o m.last[1]>>)) \o <<"CR">>

Lexemes == {" ", ":", "@", "!", "PR", "PI", "376", Overlong, "CR"}

--------------------------------------------------------------------------------
(* What is expected of them *)

\* The "\r" stays with the last word.
WithCR(words) == Append(Front(words), Append(Last(words), "CR"))

\* The command and the arguments of a message, and an empty parameter if no
\* argument could be the last.
Kept(m) ==
  LET parsed == Message(Written(m))
  IN  <<parsed.command>> \o parsed.params =
        WithCR(<<m.command>> \o Arguments(m)) \o (IF m.last = <<>> THEN << <<>> >> ELSE <<>>)

\* Where a message with the arguments RFC 2812 asks for goes.
Arrives(m, outcome) ==
  LET args == WithCR(<<m.command>> \o Arguments(m))
  IN  CASE m.command = <<"PR", "IVMSG">> ->
             Len(args) > 2 => outcome = To("privmsg", SubSeq(args, 2, 3))
        [] m.command = <<"PI", "NG">> ->
             /\ Len(args) = 2 => outcome = To("ping", <<args[2], <<>> >>)
             /\ Len(args) > 2 => outcome = To("ping", SubSeq(args, 2, 3))
        [] OTHER -> outcome.to \in {"reply", "join", "printed"}

TargetMissing(words) ==
  \E k \in DOMAIN words :
    /\ Begins(words[k], "PR")
    /\ k = Len(words) \/ words[k + 1] = <<>> \/ Begins(words[k + 1], ":")

\* The client reads beyond the parameters only of lines in which no argument
\* follows a word in "PR" but one that may be the last, and is ended only by a
\* number no int can hold.
Harmless(line) ==
  LET outcome == read(Message(line))
  IN  /\ outcome.to = "undefined" => TargetMissing(Split(line))
      /\ outcome.to = "terminate" => Contains(line, Overlong)

AllKept == \A m \in Meant : ByGrammar(m) => Kept(m)
AllArrive == \A m \in Meant : ByGrammar(m) => Arrives(m, read(Message(Written(m))))
AllHarmless == \A line \in BoundedSeq(Lexemes, MaxLexemes) : Harmless(line)
================================================================================

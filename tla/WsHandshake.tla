------------------------------- MODULE WsHandshake -------------------------------
(***************************************************************************)
(* What the WebSocket server (server_ws.hpp) makes of the request a        *)
(* connection begins with: parse_handshake takes it apart, write_handshake *)
(* looks for an endpoint, generate_handshake computes the answer.  The     *)
(* handlers that call them are in module WsEcho.                           *)
(*                                                                         *)
(* A line is a row of lexemes, without its "\n": " " and ":", which the    *)
(* code looks for, "CR", and any others.                                   *)
(***************************************************************************)
EXTENDS Naturals, Sequences, FiniteSets, SequencesExt

--------------------------------------------------------------------------------
(* parse_handshake *)

Before(line, i) == SubSeq(line, 1, i - 1)
After(line, i) == SubSeq(line, i + 1, Len(line))

Colon(line) == SelectInSeq(line, LAMBDA x : x = ":")
Spaces(line) == {i \in DOMAIN line : line[i] = " "}

\* The path of a line with two spaces; the others leave it empty.
Path(line) ==
  LET first == SelectInSeq(line, LAMBDA x : x = " ")
      second == SelectInSubSeq(line, first + 1, Len(line), LAMBDA x : x = " ")
  IN  SubSeq(line, first + 1, second - 1)

HasPath(line) == Cardinality(Spaces(line)) >= 2

\* Mutant of HeaderEnd: the line that ends the loop is left in the buffer.
HeaderEndStays(lines) == SelectInSeq(lines, LAMBDA line : Colon(line) = 0) - 1

\* The line that ends the loop over the header: the first without a colon.
HeaderEnd(lines) == SelectInSeq(lines, LAMBDA line : Colon(line) = 0)

\* One space before a value is left out, and its last character, be it "\r" or not.
Value(line) ==
  LET value == After(line, Colon(line))
  IN  IF value # <<>> /\ value[1] = " " THEN Tail(value) ELSE value

\* The first line of a name counts; names are compared as they are written.
Header(lines) ==
  FoldLeft(LAMBDA h, line :
             LET name == Before(line, Colon(line))
             IN  IF Value(line) = <<>> \/ name \in DOMAIN h THEN h
                 ELSE h @@ (name :> Front(Value(line))),
           <<>>, lines)

--------------------------------------------------------------------------------
(* generate_handshake *)

\* An integer is printed without leading zeros.
Hex(word) ==
  LET first == SelectInSubSeq(word, 1, 7, LAMBDA digit : digit # 0)
  IN  IF first = 0 THEN <<word[8]>> ELSE SubSeq(word, first, 8)

\* setw holds for the first word only: the others are not filled with zeros.
HexText(words) ==
  words[1] \o FlattenSeq([i \in 1 .. 4 |-> Hex(words[i + 1])])

Ascii(digit) == IF digit < 10 THEN 48 + digit ELSE 87 + digit

\* Crypto::Base64::encode: four digits of six bits, or "=", for three bytes.
Base64(bytes) ==
  LET Octet(i) == IF i <= Len(bytes) THEN bytes[i] ELSE 0
      Sextet(i) ==
        LET b == 3 * ((i - 1) \div 4)
            bits == Octet(b + 1) * 65536 + Octet(b + 2) * 256 + Octet(b + 3)
        IN  (bits \div (64 ^ (3 - ((i - 1) % 4)))) % 64
      digits == (8 * Len(bytes) + 5) \div 6
  IN  [i \in 1 .. 4 * ((Len(bytes) + 2) \div 3) |->
         IF i <= digits THEN <<Sextet(i)>> ELSE <<"=">>]

Key == <<"sec-websocket-key">>

Accept(digest) == Base64([i \in DOMAIN HexText(digest) |-> Ascii(HexText(digest)[i])])

--------------------------------------------------------------------------------

\* The endpoints of the bot, by the paths their patterns match.
Endpoint(path) ==
  CASE path \in {<<"/echo">>, <<"/echo/">>} -> "echo"
    [] path \in {<<"/channel/", "a">>, <<"/channel/", "a", "/">>} -> "channel"
    [] OTHER -> ""

RequestLines == {
  <<"GET", " ", "/echo", " ", "HTTP/1.1", "CR">>,
  <<"GET", " ", "/channel/", "a", "/", " ", "HTTP/1.1", "CR">>,
  <<"GET", " ", "/none", " ", "HTTP/1.1", "CR">>,
  <<"GET", " ", " ", "/echo", " ", "HTTP/1.1", "CR">>,
  <<"GET", " ", "/echo", "CR">>, <<"GET", "CR">>, <<"CR">>}

HeaderLines ==
  {Key \o <<":", " ", "k", "CR">>, Key \o <<":", "l", "CR">>, Key \o <<":", " ", "k">>,
   Key \o <<":", "CR">>, Key \o <<":">>}
  \cup {<<"Sec-WebSocket-Key", ":", " ", "k", "CR">>, <<"host", ":", " ", "h", ":", "p", "CR">>,
        <<"word", "CR">>}

\* async_read_until looks for "\r\n\r\n".
Ends(lines) == Last(Last(lines)) = "CR"
================================================================================

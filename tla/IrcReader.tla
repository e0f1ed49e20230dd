------------------------------- MODULE IrcReader -------------------------------
(***************************************************************************)
(* How irc_client (irc_client.cpp) cuts the stream of its server into the  *)
(* lines it parses: read(), its handler, and close().                      *)
(*                                                                         *)
(* The stream is a row of cells, numbered from 1; a message has LineLength *)
(* of them, the last two of which are "\r" and "\n".  A cell is its        *)
(* number, a line the interval of the cells it was made of.  TCP hands     *)
(* the cells over in pieces of any size.  Everything runs on the one       *)
(* thread of the client, so that a handler is a step.                      *)
(***************************************************************************)
EXTENDS Naturals, FiniteSets

CONSTANTS
  LineLength,    \* cells of a message, "\r\n" among them
  MaxMessages    \* bound on the number of messages the server sends

ASSUME ReaderAssumption ==
  /\ LineLength \in Nat /\ LineLength > 2
  /\ MaxMessages \in Nat

VARIABLES
  received,    \* cells read from the socket: 1 .. received
  consumed,    \* cells taken out of the streambuf response: 1 .. consumed
  lines,       \* the lines handed to read(const std::string&)
  reading,     \* is there an async_read_until, or its handler?
  open         \* is the socket open at both ends?

vars == <<received, consumed, lines, reading, open>>

Line == [first : Nat, last : Nat]

EndsLine(p) == p % LineLength = 0
Unread == (consumed + 1) .. received

Init ==
  /\ received = 0
  /\ consumed = 0
  /\ lines = {}
  /\ reading = TRUE
  /\ open = TRUE

--------------------------------------------------------------------------------

\* async_read_until completes with the first "\r\n" in the buffer, both cells
\* of it, and reads no further.
Delimited == \E p \in Unread : EndsLine(p) /\ p - 1 \in Unread

\* One read of the socket, of any number of cells.
Arrive(n) ==
  /\ reading
  /\ open
  /\ ~Delimited
  /\ n \in (received + 1) .. (MaxMessages * LineLength)
  /\ received' = n
  /\ UNCHANGED <<consumed, lines, reading, open>>

\* What getline takes from the buffer until it is empty: it cuts after "\n"
\* alone, and at the end of the buffer.
Getlines ==
  {l \in [first : {p \in Unread : p = consumed + 1 \/ EndsLine(p - 1)},
          last  : {p \in Unread : p = received \/ EndsLine(p)}] :
     /\ l.first <= l.last
     /\ \A p \in l.first .. (l.last - 1) : ~EndsLine(p)}

\* Mutant of Handle: one getline, and the rest of the buffer is forgotten.
HandleOne ==
  /\ reading
  /\ Delimited
  /\ lines' = lines \cup {l \in Getlines : l.first = consumed + 1}
  /\ consumed' = received
  /\ UNCHANGED <<received, reading, open>>

\* Mutant of Handle: the buffer is taken as one line.
HandleAll ==
  /\ reading
  /\ Delimited
  /\ lines' = lines \cup {[first |-> consumed + 1, last |-> received]}
  /\ consumed' = received
  /\ UNCHANGED <<received, reading, open>>

\* Mutant of Handle: one line, and no other read while the buffer has more.
HandleFirst ==
  /\ reading
  /\ Delimited
  /\ \E l \in Getlines :
       /\ l.first = consumed + 1
       /\ lines' = lines \cup {l}
       /\ consumed' = l.last
  /\ reading' = (consumed' = received)
  /\ UNCHANGED <<received, open>>

\* The handler of async_read_until: all lines, then read() again.
Handle ==
  /\ reading
  /\ Delimited
  /\ lines' = lines \cup Getlines
  /\ consumed' = received
  /\ UNCHANGED <<received, reading, open>>

\* The handler is given an error: no more read().
ReadFails ==
  /\ reading
  /\ ~open
  /\ ~Delimited
  /\ reading' = FALSE
  /\ UNCHANGED <<received, consumed, lines, open>>

\* The server ends the stream, or close() runs.
Close ==
  /\ open
  /\ open' = FALSE
  /\ UNCHANGED <<received, consumed, lines, reading>>

Next ==
  \/ \E n \in 1 .. (MaxMessages * LineLength) : Arrive(n)
  \/ Handle
  \/ ReadFails
  \/ Close

Spec == Init /\ [][Next]_vars

\* The client's thread runs what is ready.  The server need not send anything.
FairSpec == Spec /\ WF_vars(Handle) /\ WF_vars(ReadFails)

--------------------------------------------------------------------------------
(* Properties *)

TypeOK ==
  /\ received \in Nat
  /\ consumed \in Nat
  /\ consumed <= received
  /\ lines \subseteq Line
  /\ reading \in BOOLEAN
  /\ open \in BOOLEAN

\* However the stream is cut into reads, no cell is lost and none is handed
\* over twice: the lines partition what was consumed.
LinesPartition ==
  /\ \A l \in lines : l.first <= l.last /\ l.last <= consumed
  /\ \A p \in 1 .. consumed : Cardinality({l \in lines : p \in l.first .. l.last}) = 1

\* A line is never made of two messages.
OneMessagePerLine ==
  \A l \in lines : \A p \in l.first .. (l.last - 1) : ~EndsLine(p)

\* "We'll match the whole line" (irc_client.hpp): a line that is parsed has all
\* of its message, up to the "\n" that getline takes away, or is the "\n".
LinesAreWhole ==
  \A l \in lines :
    \/ EndsLine(l.first - 1) /\ (EndsLine(l.last) \/ EndsLine(l.last + 1))
    \/ l.first = l.last /\ EndsLine(l.last)

\* A message that has arrived is handed over, all of it but perhaps the "\n",
\* without waiting for the next one.
ArrivedIsHandled ==
  \A m \in 1 .. MaxMessages :
    (received >= m * LineLength) ~> (consumed >= m * LineLength - 1)
================================================================================

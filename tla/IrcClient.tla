------------------------------- MODULE IrcClient -------------------------------
(***************************************************************************)
(* A connection of irc_client (irc_client.cpp): what it reads (module      *)
(* IrcReader) and what it writes (module IrcWriter) on one socket, by the  *)
(* handlers of its one thread.  Commands are answers to lines, and the     *)
(* handler whose read fails closes the socket under the writes.            *)
(***************************************************************************)
EXTENDS IrcReader, Sequences

CONSTANTS
  MaxCommands,    \* bound on the commands sent
  Parts           \* parts of a command

ASSUME ClientAssumption ==
  /\ MaxCommands \in Nat /\ MaxCommands >= 2
  /\ Parts \in Nat \ {0}

VARIABLES
  sent,        \* commands given to send(): 1 .. sent
  waiting,     \* write operations that wait for the socket, the next one first
  handlers,    \* those that have ended, whose handlers are queued
  allocated,   \* commands whose string has not been deleted
  wire,        \* the parts the socket took, in order
  up           \* does the socket still take data?

Writer == INSTANCE IrcWriter

writerVars == <<sent, waiting, handlers, allocated, wire, up>>
clientVars == <<vars, writerVars>>

\* async_connect has completed: read(), then connected().
ClientInit == Init /\ Writer!Init

--------------------------------------------------------------------------------

ReadSome ==
  /\ \E n \in 1 .. (MaxMessages * LineLength) : Arrive(n)
  /\ UNCHANGED writerVars

\* Each line may be answered: by no command, one, or several.
HandleLines ==
  /\ Handle
  /\ \E n \in 0 .. MaxCommands : Writer!Send(n)

WriteSome ==
  /\ \E to \in 1 .. Parts : Writer!Transfer(to)
  /\ UNCHANGED vars

WriteFails == Writer!Fail /\ UNCHANGED vars

WriteHandler == Writer!WriteDone /\ UNCHANGED vars

\* The server sends no more, but may still read; or it resets the connection,
\* or close() runs.
Ends ==
  /\ Close
  /\ up' \in BOOLEAN
  /\ UNCHANGED <<sent, waiting, handlers, allocated, wire>>

\* Mutant of ReadEnds: the socket is left open.
ReadEndsOnly ==
  /\ ReadFails
  /\ UNCHANGED writerVars

\* The handler of read() that is given an error: s->close().
ReadEnds ==
  /\ ReadFails
  /\ up' = FALSE
  /\ UNCHANGED <<sent, waiting, handlers, allocated, wire>>

ClientNext ==
  \/ ReadSome \/ HandleLines \/ Ends \/ ReadEnds
  \/ WriteSome \/ WriteFails \/ WriteHandler

\* The client's thread runs what is ready, and operations of a closed socket
\* fail.  The server need neither send nor read anything.
ClientSpec ==
  /\ ClientInit /\ [][ClientNext]_clientVars
  /\ WF_clientVars(HandleLines)
  /\ WF_clientVars(ReadEnds)
  /\ WF_clientVars(WriteFails)
  /\ WF_clientVars(WriteHandler)

--------------------------------------------------------------------------------
(* Properties *)

\* Writes that are under way at once are mixed by parts, never within one.
PartsInOrder == Writer!PartsInOrder

\* No write reads a string that was deleted, and no string outlives its write.
StringsInUse == Writer!StringsInUse

\* send() allocates a string that only its handler deletes.  Whatever the server
\* does not read, once it sends no more no string is left: the read that fails
\* closes the socket, and that ends every write.
StringsAreFreed == ~open ~> allocated = {}
================================================================================

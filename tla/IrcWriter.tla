------------------------------- MODULE IrcWriter -------------------------------
(***************************************************************************)
(* How the commands of irc_client (irc_client.cpp) reach its server.       *)
(*                                                                         *)
(* Every send() begins an async_write of its own, whatever others are      *)
(* still going on.  Each is a chain of operations of the socket, one at a  *)
(* time, that go on where the last one ended; the socket serves the        *)
(* operations that wait for it in the order they were begun.  The handlers *)
(* run on the one thread of the client, a step each.                       *)
(*                                                                         *)
(* A command is its number in the order of the calls and has Parts parts;  *)
(* an operation takes as many of them as fit into the socket.              *)
(***************************************************************************)
EXTENDS Naturals, Sequences, SequencesExt

CONSTANTS
  MaxCommands,    \* bound on the commands sent
  Parts           \* parts of a command

VARIABLES
  sent,        \* commands given to send(): 1 .. sent
  waiting,     \* operations that wait for the socket, the next one first
  handlers,    \* those that have ended, whose handlers are queued
  allocated,   \* commands whose string has not been deleted
  wire,        \* the parts the socket took, in order
  up           \* does the socket still take data?

Begin(command) == [command |-> command, from |-> 1]

\* connected() has sent PASS and NICK.
Init ==
  /\ sent = 2
  /\ waiting = <<Begin(1), Begin(2)>>
  /\ handlers = <<>>
  /\ allocated = {1, 2}
  /\ wire = <<>>
  /\ up = TRUE

--------------------------------------------------------------------------------

\* A handler of the client calls send(raw) n times: reply() or ping().
Send(n) ==
  /\ sent + n <= MaxCommands
  /\ sent' = sent + n
  /\ waiting' = waiting \o [i \in 1 .. n |-> Begin(sent + i)]
  /\ allocated' = allocated \cup (sent + 1 .. sent + n)
  /\ UNCHANGED <<handlers, wire, up>>

\* The socket takes the parts from .. to of the first command that waits.
Transfer(to) ==
  LET op == Head(waiting)
  IN  /\ up
      /\ waiting # <<>>
      /\ to >= op.from
      /\ waiting' = Tail(waiting)
      /\ wire' = wire \o [i \in 1 .. (to + 1 - op.from) |->
                            [command |-> op.command, part |-> op.from + i - 1]]
      /\ handlers' = Append(handlers,
                            [command |-> op.command, from |-> to + 1, ok |-> TRUE])
      /\ UNCHANGED <<sent, allocated, up>>

\* An operation of a socket that is closed or reset.
Fail ==
  /\ ~up
  /\ waiting # <<>>
  /\ waiting' = Tail(waiting)
  /\ LET op == Head(waiting)
     IN  handlers' = Append(handlers, [command |-> op.command, from |-> op.from, ok |-> FALSE])
  /\ UNCHANGED <<sent, allocated, wire, up>>

\* async_write goes on with what is left.
GoesOn(h) == h.ok /\ h.from <= Parts

\* Mutant of WriteDone: what is left is written again from the start.
WriteDoneRestarts ==
  /\ handlers # <<>>
  /\ handlers' = Tail(handlers)
  /\ LET h == Head(handlers)
     IN  IF GoesOn(h)
         THEN /\ waiting' = Append(waiting, Begin(h.command))
              /\ UNCHANGED allocated
         ELSE /\ allocated' = allocated \ {h.command}
              /\ UNCHANGED waiting
  /\ UNCHANGED <<sent, wire, up>>

\* Mutant of WriteDone: the string is deleted after the first operation.
WriteDoneDeletes ==
  /\ handlers # <<>>
  /\ handlers' = Tail(handlers)
  /\ LET h == Head(handlers)
     IN  /\ allocated' = allocated \ {h.command}
         /\ IF GoesOn(h)
            THEN waiting' = Append(waiting, [command |-> h.command, from |-> h.from])
            ELSE UNCHANGED waiting
  /\ UNCHANGED <<sent, wire, up>>

\* The handler of send(), whatever the error, deletes the string.
WriteDone ==
  /\ handlers # <<>>
  /\ handlers' = Tail(handlers)
  /\ LET h == Head(handlers)
     IN  IF GoesOn(h)
         THEN /\ waiting' = Append(waiting, [command |-> h.command, from |-> h.from])
              /\ UNCHANGED allocated
         ELSE /\ allocated' = allocated \ {h.command}
              /\ UNCHANGED waiting
  /\ UNCHANGED <<sent, wire, up>>

--------------------------------------------------------------------------------
(* Properties *)

\* Has part p of command c come before the j-th on the wire?
Before(j, c, p) == \E i \in 1 .. (j - 1) : wire[i] = [command |-> c, part |-> p]

\* Commands that are under way at once may be mixed on the wire, but their
\* beginnings are in the order of the calls (PASS before NICK), and the parts
\* of each are in order, none of them twice or left out.
PartsInOrder ==
  \A j \in DOMAIN wire :
    /\ ~Before(j, wire[j].command, wire[j].part)
    /\ \A p \in 1 .. (wire[j].part - 1) : Before(j, wire[j].command, p)
    /\ wire[j].part = 1 => \A c \in 1 .. (wire[j].command - 1) : Before(j, c, 1)

\* The string of a command is there as long as the write that reads it goes on,
\* over all of its operations and whichever fails, and no longer.
StringsInUse ==
  allocated = {waiting[i].command : i \in DOMAIN waiting} \cup
                {handlers[i].command : i \in DOMAIN handlers}
================================================================================

------------------------------ MODULE WsSendQueue ------------------------------
(***************************************************************************)
(* The send path of one WebSocket connection (server_ws.hpp): send,        *)
(* send_close, Connection::send_queue and Connection::send_from_queue.     *)
(*                                                                         *)
(* Any thread may call send or send_close.  They build a frame and post    *)
(* its enqueueing to the connection's strand; the strand runs the posted   *)
(* handlers one at a time, in the order posted, on whatever io thread is   *)
(* free.  A "chain" of asynchronous operations writes the frame at the     *)
(* front of send_queue: header, then message, then the next frame.  Every  *)
(* handler of the chain runs on the strand and reaches its frame through   *)
(* send_queue.begin(), so the chain is right only if there is exactly one  *)
(* of it whenever the queue is not empty.                                  *)
(*                                                                         *)
(* The server is the one the bot starts: timeout_idle = 0, so that the     *)
(* idle timer send would reset does not exist (module WsConnection has     *)
(* the timers).  A frame is its number in the order of the posts; the      *)
(* bytes of header and message are abstracted to the two parts.            *)
(***************************************************************************)
EXTENDS Integers, Sequences

CONSTANTS
  Threads,    \* threads that may call send
  Closers,    \* the threads among them that may call send_close: an io thread
              \* in the server's own handlers, or one of the application
  MaxPosts    \* bound on the number of frames posted

ASSUME SendAssumption ==
  /\ Closers \subseteq Threads
  /\ MaxPosts \in Nat

VARIABLES
  frames,     \* the kinds of the frames posted so far; frame n is frames[n]
  closed,     \* Connection::closed
  closing,    \* threads in send_close between closed.load() and closed.store()
  strand,     \* handlers posted to Connection::strand, the next one first
  queue,      \* Connection::send_queue
  inflight,   \* asynchronous writes that have not completed
  wire,       \* the parts the socket took, in order
  up,         \* does the socket still take data?
  acked,      \* frames whose callback was given success
  failed,     \* frames whose callback was given an error
  dropped     \* frames cleared from the queue without a callback

vars == <<frames, closed, closing, strand, queue, inflight, wire, up,
          acked, failed, dropped>>

callVars == <<frames, closed, closing>>
resultVars == <<acked, failed, dropped>>

Kinds == {"data", "close"}
Parts == {"header", "message"}

\* A handler on the strand: enqueueing a frame, starting a chain, or the
\* completion handler of the write of a part.
Task == [run : {"enqueue", "start"} \cup Parts, frame : Nat, ok : BOOLEAN]
Enqueue(n) == [run |-> "enqueue", frame |-> n, ok |-> TRUE]
Start == [run |-> "start", frame |-> 0, ok |-> TRUE]
Completed(part, ok) == [run |-> part, frame |-> 0, ok |-> ok]

Write == [part : Parts, frame : Nat]

Init ==
  /\ frames = <<>>
  /\ closed = FALSE
  /\ closing = {}
  /\ strand = <<>>
  /\ queue = <<>>
  /\ inflight = <<>>
  /\ wire = <<>>
  /\ up = TRUE
  /\ acked = {}
  /\ failed = {}
  /\ dropped = {}

--------------------------------------------------------------------------------
(* Calls, from any thread *)

Post(kind) ==
  /\ Len(frames) < MaxPosts
  /\ frames' = Append(frames, kind)
  /\ strand' = Append(strand, Enqueue(Len(frames) + 1))

\* send with an opcode other than 136.
Send(t) ==
  /\ t \notin closing
  /\ Post("data")
  /\ UNCHANGED <<closed, closing, queue, inflight, wire, up, resultVars>>

\* send_close, first half: closed.load() was FALSE, so the call goes on.
SendCloseLoad(t) ==
  /\ t \notin closing
  /\ ~closed
  /\ closing' = closing \cup {t}
  /\ UNCHANGED <<frames, closed, strand, queue, inflight, wire, up, resultVars>>

\* Mutant of SendCloseStore: closed is never set.
SendCloseForgets(t) ==
  /\ t \in closing
  /\ closing' = closing \ {t}
  /\ Post("close")
  /\ UNCHANGED <<closed, queue, inflight, wire, up, resultVars>>

\* send_close, second half: closed.store(true), then send with opcode 136.
SendCloseStore(t) ==
  /\ t \in closing
  /\ closed' = TRUE
  /\ closing' = closing \ {t}
  /\ Post("close")
  /\ UNCHANGED <<queue, inflight, wire, up, resultVars>>

--------------------------------------------------------------------------------
(* Handlers on the strand: the first one posted runs to its end. *)

Running(run) == strand # <<>> /\ Head(strand).run = run

\* The handler ends: without a post, or with one of send_from_queue.
Return == strand' = Tail(strand)
SendFromQueue == strand' = Append(Tail(strand), Start)

\* Mutant of RunEnqueue: a chain is started for every frame.
RunEnqueueStartsAlways ==
  /\ Running("enqueue")
  /\ queue' = Append(queue, Head(strand).frame)
  /\ SendFromQueue
  /\ UNCHANGED <<callVars, inflight, wire, up, resultVars>>

\* Mutant of RunEnqueue: emplace_front instead of emplace_back.
RunEnqueueInFront ==
  /\ Running("enqueue")
  /\ queue' = <<Head(strand).frame>> \o queue
  /\ IF Len(queue') = 1 THEN SendFromQueue ELSE Return
  /\ UNCHANGED <<callVars, inflight, wire, up, resultVars>>

\* The handler posted by send: queue the frame, start a chain if it is alone.
RunEnqueue ==
  /\ Running("enqueue")
  /\ queue' = Append(queue, Head(strand).frame)
  /\ IF Len(queue') = 1 THEN SendFromQueue ELSE Return
  /\ UNCHANGED <<callVars, inflight, wire, up, resultVars>>

\* Begin to write a part of the frame at the front of the queue.
AsyncWrite(part) ==
  inflight' = Append(inflight, [part |-> part, frame |-> Head(queue)])

\* Mutant of RunStart: the frame leaves the queue before it is written.
RunStartPops ==
  /\ Running("start")
  /\ queue # <<>>
  /\ AsyncWrite("header")
  /\ queue' = Tail(queue)
  /\ Return
  /\ UNCHANGED <<callVars, wire, up, resultVars>>

\* The handler posted by send_from_queue.
RunStart ==
  /\ Running("start")
  /\ queue # <<>>
  /\ AsyncWrite("header")
  /\ Return
  /\ UNCHANGED <<callVars, queue, wire, up, resultVars>>

\* Mutant of GiveUp: only the front frame is erased, as after a success.
GiveUpFrontOnly ==
  /\ failed' = failed \cup {Head(queue)}
  /\ queue' = Tail(queue)
  /\ Return
  /\ UNCHANGED <<callVars, inflight, wire, up, acked, dropped>>

\* A part could not be written: report the front frame, give up the others.
GiveUp ==
  /\ failed' = failed \cup {Head(queue)}
  /\ dropped' = dropped \cup {queue[i] : i \in 2 .. Len(queue)}
  /\ queue' = <<>>
  /\ Return
  /\ UNCHANGED <<callVars, inflight, wire, up, acked>>

\* Mutant of RunHeaderDone: success is reported when the header is out.
RunHeaderDoneReports ==
  /\ Running("header")
  /\ queue # <<>>
  /\ IF Head(strand).ok
     THEN /\ AsyncWrite("message")
          /\ acked' = acked \cup {Head(queue)}
          /\ Return
          /\ UNCHANGED <<callVars, queue, wire, up, failed, dropped>>
     ELSE GiveUp

\* Completion handler of the header's write.
RunHeaderDone ==
  /\ Running("header")
  /\ queue # <<>>
  /\ IF Head(strand).ok
     THEN /\ AsyncWrite("message")
          /\ Return
          /\ UNCHANGED <<callVars, queue, wire, up, resultVars>>
     ELSE GiveUp

\* Mutant of RunMessageDone: the frame is not erased.
RunMessageDoneKeeps ==
  /\ Running("message")
  /\ queue # <<>>
  /\ IF Head(strand).ok
     THEN /\ acked' = acked \cup {Head(queue)}
          /\ SendFromQueue
          /\ UNCHANGED <<callVars, queue, inflight, wire, up, failed, dropped>>
     ELSE GiveUp

\* Completion handler of the message's write.
RunMessageDone ==
  /\ Running("message")
  /\ queue # <<>>
  /\ IF Head(strand).ok
     THEN /\ acked' = acked \cup {Head(queue)}
          /\ queue' = Tail(queue)
          /\ IF Len(queue') > 0 THEN SendFromQueue ELSE Return
          /\ UNCHANGED <<callVars, inflight, wire, up, failed, dropped>>
     ELSE GiveUp

RunStrand == RunEnqueue \/ RunStart \/ RunHeaderDone \/ RunMessageDone

--------------------------------------------------------------------------------
(* The socket: writes complete in the order they were begun; after the     *)
(* connection broke every write fails (what it had written of the part     *)
(* before is of no use to the peer and is left out of wire).               *)

WriteDone ==
  /\ inflight # <<>>
  /\ wire' = IF up THEN Append(wire, Head(inflight)) ELSE wire
  /\ inflight' = Tail(inflight)
  /\ strand' = Append(strand, Completed(Head(inflight).part, up))
  /\ UNCHANGED <<callVars, queue, up, resultVars>>

\* The peer resets the connection, or the socket is closed.
Break ==
  /\ up
  /\ up' = FALSE
  /\ UNCHANGED <<callVars, strand, queue, inflight, wire, resultVars>>

Next ==
  \/ \E t \in Threads : Send(t)
  \/ \E t \in Closers : SendCloseLoad(t) \/ SendCloseStore(t)
  \/ RunStrand
  \/ WriteDone
  \/ Break

Spec == Init /\ [][Next]_vars

\* io_service runs every ready handler; a write completes, because the peer
\* reads or because the connection breaks.  No call has to be made.
Fairness == WF_vars(RunStrand) /\ WF_vars(WriteDone)

FairSpec == Spec /\ Fairness

--------------------------------------------------------------------------------
(* Properties *)

TypeOK ==
  /\ frames \in Seq(Kinds)
  /\ closed \in BOOLEAN
  /\ closing \subseteq Closers
  /\ strand \in Seq(Task)
  /\ queue \in Seq(Nat)
  /\ inflight \in Seq(Write)
  /\ wire \in Seq(Write)
  /\ up \in BOOLEAN
  /\ acked \subseteq Nat
  /\ failed \subseteq Nat
  /\ dropped \subseteq Nat

\* The handlers on the strand that belong to a chain.
ChainTasks == {i \in DOMAIN strand : strand[i].run # "enqueue"}

\* There is one chain when send_queue is not empty and none when it is:
\* exactly one of a posted handler of the chain and a write in flight.  Two
\* chains would write one frame twice and erase a frame of the other; none
\* would leave the queue stuck, since send starts one only at size 1; a
\* handler of a chain on an empty queue dereferences end().
OneChain ==
  /\ Len(inflight) <= 1
  /\ \A i, j \in ChainTasks : i = j
  /\ queue = <<>> <=> (inflight = <<>> /\ ChainTasks = {})
  /\ ~(inflight # <<>> /\ ChainTasks # {})

\* async_write reads the stream of a queued frame by reference: the frame
\* being written is the one at the front until the write has completed, never
\* one that was erased or cleared meanwhile.
BufferAlive ==
  \A i \in DOMAIN inflight : queue # <<>> /\ inflight[i].frame = queue[1]

\* What the peer reads is well framed: a message comes directly after its
\* own header, a header is followed by nothing but its own message, and the
\* frames come in the order of the sends, none of them twice.
WireFramed ==
  /\ \A i \in DOMAIN wire : wire[i].part = "message" =>
       i > 1 /\ wire[i - 1] = [wire[i] EXCEPT !.part = "header"]
  /\ \A i \in DOMAIN wire : wire[i].part = "header" /\ i < Len(wire) =>
       wire[i + 1] = [wire[i] EXCEPT !.part = "message"]
  /\ \A i, j \in DOMAIN wire :
       i < j /\ wire[i].part = wire[j].part => wire[i].frame < wire[j].frame

\* Frames the peer has in full.
OnWire == {wire[i].frame : i \in {j \in DOMAIN wire : wire[j].part = "message"}}

\* The callback tells the truth: success only for a frame that was written
\* in full, an error (or silence, after clear()) only for one that was not.
CallbackTruthful ==
  /\ acked \subseteq OnWire
  /\ OnWire \cap (failed \cup dropped) = {}
  /\ failed \cap dropped = {}

\* "Send close only once" (comment in send_close).
CloseOnce ==
  \A m, n \in DOMAIN frames :
    frames[m] = "close" /\ frames[n] = "close" => m = n

\* The send path delivers frames as OrderedDelivery promises.
Delivery == INSTANCE OrderedDelivery WITH
  accepted <- Len(frames),
  delivered <- OnWire,
  lost <- failed \cup dropped,
  link <- up

DeliverySpec == Delivery!Spec
DeliveryLive == Delivery!LiveSpec
================================================================================

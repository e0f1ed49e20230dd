--------------------------- MODULE WsSendQueueProofs ---------------------------
(***************************************************************************)
(* Theorems about WsSendQueue, for any threads and any number of frames:   *)
(* that one chain of handlers writes at a time, and what a caller of the   *)
(* send path can rely on, whole frames in the order of the calls,          *)
(* callbacks that tell the truth, and that it implements OrderedDelivery.  *)
(*                                                                         *)
(* The invariant of the second part follows each frame through the strand, *)
(* the queue and the wire.  It speaks of the sets of frames that are in    *)
(* each of them, so that the sequences are looked into by its first lemmas *)
(* only.                                                                   *)
(***************************************************************************)
EXTENDS WsSendQueue, SequenceFacts, TLAPS

--------------------------------------------------------------------------------
(* Type correctness *)

\* The handlers and the writes the actions make have their types.
LEMMA TaskTypes ==
  /\ Start \in Task
  /\ \A n \in Nat : Enqueue(n) \in Task
  /\ \A part \in Parts, ok \in BOOLEAN : Completed(part, ok) \in Task
  /\ \A task \in Task : task.frame \in Nat
BY DEF Task, Start, Enqueue, Completed, Parts

\* A write names a part and a frame.
LEMMA WriteTypes ==
  /\ \A part \in Parts, n \in Nat : [part |-> part, frame |-> n] \in Write
  /\ \A w \in Write : w.part \in Parts /\ w.frame \in Nat
BY DEF Write

\* A new connection's variables have their types.
LEMMA InitTypeOK == Init => TypeOK
<1> SUFFICES ASSUME Init PROVE TypeOK
  OBVIOUS
<1>1. /\ frames \in Seq(Kinds)
      /\ strand \in Seq(Task)
      /\ queue \in Seq(Nat)
      /\ inflight \in Seq(Write)
      /\ wire \in Seq(Write)
  BY EmptySeq DEF Init
<1>2. /\ closed \in BOOLEAN
      /\ up \in BOOLEAN
  BY DEF Init
<1>3. /\ closing \subseteq Closers
      /\ acked \subseteq Nat
      /\ failed \subseteq Nat
      /\ dropped \subseteq Nat
  BY DEF Init
<1> QED
  BY <1>1, <1>2, <1>3 DEF TypeOK

\* send posts a handler to the strand.
LEMMA PostType ==
  ASSUME TypeOK, NEW kind \in Kinds, Post(kind)
  PROVE  frames' \in Seq(Kinds) /\ strand' \in Seq(Task)
<1>1. frames \in Seq(Kinds) /\ strand \in Seq(Task)
  BY DEF TypeOK
<1>2. Len(frames) + 1 \in Nat
  BY <1>1, LenProperties
<1>3. Enqueue(Len(frames) + 1) \in Task
  BY <1>2, TaskTypes
<1>4. frames' = Append(frames, kind) /\ strand' = Append(strand, Enqueue(Len(frames) + 1))
  BY DEF Post
<1> QED
  BY <1>1, <1>3, <1>4, AppendProperties

\* A handler that ends leaves a strand of handlers.
LEMMA ReturnType ==
  ASSUME TypeOK, strand # <<>>, Return \/ SendFromQueue
  PROVE  strand' \in Seq(Task)
<1>1. Tail(strand) \in Seq(Task)
  BY HeadTailProperties DEF TypeOK
<1>2. Append(Tail(strand), Start) \in Seq(Task)
  BY <1>1, TaskTypes, AppendProperties
<1> QED
  BY <1>1, <1>2 DEF Return, SendFromQueue

\* A write is begun for a frame of the queue.
LEMMA AsyncWriteType ==
  ASSUME TypeOK, queue # <<>>, NEW part \in Parts, AsyncWrite(part)
  PROVE  inflight' \in Seq(Write)
<1>1. Head(queue) \in Nat
  BY HeadTailProperties DEF TypeOK
<1>2. [part |-> part, frame |-> Head(queue)] \in Write
  BY <1>1, WriteTypes
<1>3. inflight \in Seq(Write)
  BY DEF TypeOK
<1> QED
  BY <1>2, <1>3, AppendProperties DEF AsyncWrite

\* After a failed write the frames given up are frames.
LEMMA GiveUpType ==
  ASSUME TypeOK, strand # <<>>, queue # <<>>, GiveUp
  PROVE  TypeOK'
<1>1. queue \in Seq(Nat) /\ Head(queue) \in Nat
  BY HeadTailProperties DEF TypeOK
<1>2. failed' \subseteq Nat
  BY <1>1 DEF GiveUp, TypeOK
<1>3. {queue[i] : i \in 2 .. Len(queue)} \subseteq Nat
  <2>1. \A i \in 2 .. Len(queue) : i \in 1 .. Len(queue)
    BY <1>1, LenProperties
  <2> QED
    BY <1>1, <2>1, ElementOfSeq
<1>4. dropped' \subseteq Nat
  BY <1>3 DEF GiveUp, TypeOK
<1>5. strand' \in Seq(Task)
  BY ReturnType DEF GiveUp
<1>6. queue' \in Seq(Nat)
  BY EmptySeq DEF GiveUp
<1> QED
  BY <1>2, <1>4, <1>5, <1>6 DEF GiveUp, TypeOK, callVars

\* TypeOK is inductive.
LEMMA NextTypeOK == TypeOK /\ [Next]_vars => TypeOK'
<1> SUFFICES ASSUME TypeOK, [Next]_vars PROVE TypeOK'
  OBVIOUS
<1> USE DEF callVars, resultVars
<1>1. ASSUME NEW t \in Threads, Send(t) PROVE TypeOK'
  <2>1. frames' \in Seq(Kinds) /\ strand' \in Seq(Task)
    BY <1>1, PostType DEF Send, Kinds
  <2> QED
    BY <1>1, <2>1 DEF Send, TypeOK
<1>2. ASSUME NEW t \in Closers, SendCloseLoad(t) PROVE TypeOK'
  BY <1>2 DEF SendCloseLoad, TypeOK
<1>3. ASSUME NEW t \in Closers, SendCloseStore(t) PROVE TypeOK'
  <2>1. frames' \in Seq(Kinds) /\ strand' \in Seq(Task)
    BY <1>3, PostType DEF SendCloseStore, Kinds
  <2> QED
    BY <1>3, <2>1 DEF SendCloseStore, TypeOK
<1>4. CASE RunEnqueue
  <2>1. strand # <<>> /\ (Return \/ SendFromQueue)
    BY <1>4 DEF RunEnqueue, Running
  <2>2. Head(strand).frame \in Nat
    BY <2>1, HeadTailProperties, TaskTypes DEF TypeOK
  <2>3. queue' \in Seq(Nat)
    BY <1>4, <2>2, AppendProperties DEF RunEnqueue, TypeOK
  <2>4. strand' \in Seq(Task)
    BY <2>1, ReturnType
  <2> QED
    BY <1>4, <2>3, <2>4 DEF RunEnqueue, TypeOK
<1>5. CASE RunStart
  <2>1. strand' \in Seq(Task) /\ inflight' \in Seq(Write)
    BY <1>5, ReturnType, AsyncWriteType DEF RunStart, Running, Parts
  <2> QED
    BY <1>5, <2>1 DEF RunStart, TypeOK
<1>6. CASE RunHeaderDone
  <2>1. CASE Head(strand).ok
    <3>1. strand' \in Seq(Task) /\ inflight' \in Seq(Write)
      BY <1>6, <2>1, ReturnType, AsyncWriteType DEF RunHeaderDone, Running, Parts
    <3> QED
      BY <1>6, <2>1, <3>1 DEF RunHeaderDone, TypeOK
  <2>2. CASE ~Head(strand).ok
    BY <1>6, <2>2, GiveUpType DEF RunHeaderDone, Running
  <2> QED
    BY <2>1, <2>2
<1>7. CASE RunMessageDone
  <2>1. CASE Head(strand).ok
    <3>1. strand # <<>> /\ queue # <<>> /\ (Return \/ SendFromQueue)
      BY <1>7, <2>1 DEF RunMessageDone, Running
    <3>2. Head(queue) \in Nat /\ Tail(queue) \in Seq(Nat)
      BY <3>1, HeadTailProperties DEF TypeOK
    <3>3. acked' \subseteq Nat /\ queue' \in Seq(Nat)
      BY <1>7, <2>1, <3>2 DEF RunMessageDone, TypeOK
    <3>4. strand' \in Seq(Task)
      BY <3>1, ReturnType
    <3> QED
      BY <1>7, <2>1, <3>3, <3>4 DEF RunMessageDone, TypeOK
  <2>2. CASE ~Head(strand).ok
    BY <1>7, <2>2, GiveUpType DEF RunMessageDone, Running
  <2> QED
    BY <2>1, <2>2
<1>8. CASE WriteDone
  <2>1. Head(inflight) \in Write /\ Tail(inflight) \in Seq(Write)
    BY <1>8, HeadTailProperties DEF WriteDone, TypeOK
  <2>2. wire' \in Seq(Write)
    BY <1>8, <2>1, AppendProperties DEF WriteDone, TypeOK
  <2>3. Completed(Head(inflight).part, up) \in Task
    BY <2>1, TaskTypes, WriteTypes DEF TypeOK
  <2>4. strand' \in Seq(Task)
    BY <1>8, <2>3, AppendProperties DEF WriteDone, TypeOK
  <2> QED
    BY <1>8, <2>1, <2>2, <2>4 DEF WriteDone, TypeOK
<1>9. CASE Break
  BY <1>9 DEF Break, TypeOK
<1>10. CASE UNCHANGED vars
  BY <1>10 DEF vars, TypeOK
<1> QED
  BY <1>1, <1>2, <1>3, <1>4, <1>5, <1>6, <1>7, <1>8, <1>9, <1>10
     DEF Next, RunStrand

\* Every variable keeps its type.
THEOREM TypeCorrect == Spec => []TypeOK
BY InitTypeOK, NextTypeOK, PTL DEF Spec

--------------------------------------------------------------------------------
(* One chain per connection *)

\* A handler appended to the strand adds to the chain's handlers unless it
\* enqueues.
LEMMA PostChain ==
  ASSUME TypeOK, NEW task \in Task, strand' = Append(strand, task)
  PROVE  ChainTasks' =
           ChainTasks \cup (IF task.run = "enqueue" THEN {} ELSE {Len(strand) + 1})
<1>1. strand \in Seq(Task) /\ DOMAIN strand = 1 .. Len(strand) /\ Len(strand) \in Nat
  BY LenProperties DEF TypeOK
<1>2. /\ DOMAIN strand' = 1 .. Len(strand) + 1
      /\ \A i \in 1 .. Len(strand) : strand'[i] = strand[i]
      /\ strand'[Len(strand) + 1] = task
  BY <1>1, AppendFacts
<1>3. ChainTasks' = {i \in 1 .. Len(strand) + 1 : strand'[i].run # "enqueue"}
  BY <1>2 DEF ChainTasks
<1>4. ChainTasks = {i \in 1 .. Len(strand) : strand[i].run # "enqueue"}
  BY <1>1 DEF ChainTasks
<1>5. 1 .. Len(strand) + 1 = 1 .. Len(strand) \cup {Len(strand) + 1}
  BY <1>1
<1> QED
  BY <1>2, <1>3, <1>4, <1>5

\* A handler that ends moves the others one place up, and send_from_queue puts
\* a handler of the chain behind them.
LEMMA ReturnChain ==
  ASSUME TypeOK, strand # <<>>, Return \/ SendFromQueue
  PROVE  /\ Len(strand) \in Nat \ {0}
         /\ ChainTasks \subseteq 1 .. Len(strand)
         /\ \A i \in 1 .. Len(strand) - 1 : i \in ChainTasks' <=> i + 1 \in ChainTasks
         /\ Return => ChainTasks' \subseteq 1 .. Len(strand) - 1
         /\ SendFromQueue => /\ Len(strand) \in ChainTasks'
                             /\ ChainTasks' \subseteq 1 .. Len(strand)
         /\ 1 \in ChainTasks <=> Head(strand).run # "enqueue"
<1>1. /\ strand \in Seq(Task)
      /\ Len(strand) \in Nat \ {0}
      /\ DOMAIN strand = 1 .. Len(strand)
  BY LenProperties, EmptySeq DEF TypeOK
<1>2. /\ Tail(strand) \in Seq(Task)
      /\ Len(Tail(strand)) = Len(strand) - 1
      /\ DOMAIN Tail(strand) = 1 .. Len(strand) - 1
      /\ \A i \in 1 .. Len(strand) - 1 : Tail(strand)[i] = strand[i + 1]
      /\ Head(strand) = strand[1]
  BY <1>1, TailFacts
<1>3. ChainTasks = {i \in 1 .. Len(strand) : strand[i].run # "enqueue"}
  BY <1>1 DEF ChainTasks
<1>4. CASE Return
  <2>1. ChainTasks' = {i \in 1 .. Len(strand) - 1 : strand[i + 1].run # "enqueue"}
    BY <1>2, <1>4 DEF Return, ChainTasks
  <2>2. ~SendFromQueue
    <3>1. Len(Append(Tail(strand), Start)) = Len(strand)
      BY <1>1, <1>2, TaskTypes, AppendFacts
    <3>2. Len(strand) - 1 # Len(strand)
      BY <1>1, PredecessorDiffers
    <3>3. Len(Tail(strand)) # Len(strand)
      BY <1>2, <3>2
    <3> QED
      BY <1>4, <3>1, <3>3 DEF Return, SendFromQueue
  <2> QED
    BY <1>1, <1>2, <1>3, <2>1, <2>2
<1>5. CASE SendFromQueue
  <2>1. /\ DOMAIN strand' = 1 .. Len(strand)
        /\ \A i \in 1 .. Len(strand) - 1 : strand'[i] = strand[i + 1]
        /\ strand'[Len(strand)] = Start
        /\ Len(strand') = Len(strand)
    BY <1>1, <1>2, <1>5, TaskTypes, AppendFacts DEF SendFromQueue
  <2>2. ChainTasks' = {i \in 1 .. Len(strand) : strand'[i].run # "enqueue"}
    BY <2>1 DEF ChainTasks
  <2>3. ~Return
    <3>1. Len(strand) - 1 # Len(strand)
      BY <1>1, PredecessorDiffers
    <3>2. Len(Tail(strand)) # Len(strand)
      BY <1>2, <3>1
    <3> QED
      BY <2>1, <3>2 DEF Return
  <2>4. Start.run # "enqueue"
    BY DEF Start
  <2> QED
    BY <1>1, <1>2, <1>3, <2>1, <2>2, <2>3, <2>4
<1> QED
  BY <1>4, <1>5

\* When a handler of the chain runs it is the chain: nothing is in flight,
\* and after it only the chain it posted is left.
LEMMA ChainRuns ==
  ASSUME TypeOK, OneChain, strand # <<>>, Head(strand).run # "enqueue",
         Return \/ SendFromQueue
  PROVE  /\ inflight = <<>>
         /\ queue # <<>>
         /\ Return => ChainTasks' = {}
         /\ SendFromQueue => ChainTasks' = {Len(strand)}
<1>1. 1 \in ChainTasks
  BY ReturnChain
<1>2. \A i \in ChainTasks : i = 1
  BY <1>1 DEF OneChain
<1>3. \A i \in 1 .. Len(strand) - 1 : i \notin ChainTasks'
  BY <1>2, ReturnChain
<1>4. Return => ChainTasks' = {}
  BY <1>3, ReturnChain
<1>5. SendFromQueue => ChainTasks' = {Len(strand)}
  BY <1>3, ReturnChain
<1> QED
  BY <1>1, <1>4, <1>5 DEF OneChain

\* A new connection has an empty queue and no chain.
LEMMA InitOneChain == Init => OneChain /\ BufferAlive
<1> SUFFICES ASSUME Init PROVE OneChain /\ BufferAlive
  OBVIOUS
<1>1. DOMAIN strand = {} /\ DOMAIN inflight = {} /\ Len(inflight) = 0
  BY EmptySeq DEF Init
<1> QED
  BY <1>1 DEF Init, OneChain, BufferAlive, ChainTasks

\* A step that leaves the queue and the writes alone and adds no handler of a
\* chain to the strand.
LEMMA PostOneChain ==
  ASSUME TypeOK, OneChain, BufferAlive, NEW kind \in Kinds, Post(kind),
         UNCHANGED <<queue, inflight>>
  PROVE  OneChain' /\ BufferAlive'
<1>1. Len(frames) + 1 \in Nat
  BY LenProperties DEF TypeOK
<1>2. Enqueue(Len(frames) + 1) \in Task /\ Enqueue(Len(frames) + 1).run = "enqueue"
  BY <1>1, TaskTypes DEF Enqueue
<1>3. ChainTasks' = ChainTasks
  BY <1>2, PostChain DEF Post
<1> QED
  BY <1>3 DEF OneChain, BufferAlive

\* A failed write ends the chain and empties the queue.
LEMMA GiveUpOneChain ==
  ASSUME TypeOK, OneChain, strand # <<>>, Head(strand).run # "enqueue", GiveUp
  PROVE  OneChain' /\ BufferAlive'
<1>1. inflight' = <<>> /\ queue' = <<>> /\ ChainTasks' = {}
  BY ChainRuns DEF GiveUp
<1>2. Len(inflight') = 0 /\ DOMAIN inflight' = {}
  BY <1>1, EmptySeq
<1> QED
  BY <1>1, <1>2 DEF OneChain, BufferAlive

\* One handler of the chain begins the next write.
LEMMA AsyncWriteOneChain ==
  ASSUME TypeOK, OneChain, strand # <<>>, Head(strand).run # "enqueue",
         NEW part \in Parts, AsyncWrite(part), Return, UNCHANGED queue
  PROVE  OneChain' /\ BufferAlive'
<1>1. inflight = <<>> /\ queue # <<>> /\ ChainTasks' = {}
  BY ChainRuns
<1>2. /\ queue \in Seq(Nat)
      /\ Head(queue) \in Nat
      /\ Head(queue) = queue[1]
  BY <1>1, TailFacts DEF TypeOK
<1> DEFINE w == [part |-> part, frame |-> Head(queue)]
<1>3. w \in Write
  BY <1>2, WriteTypes
<1>4. inflight' = Append(inflight, w) /\ inflight \in Seq(Write) /\ Len(inflight) = 0
  BY <1>1, EmptySeq DEF AsyncWrite, TypeOK
<1> HIDE DEF w
<1>5. /\ inflight' # <<>>
      /\ Len(inflight') = 1
      /\ DOMAIN inflight' = 1 .. 1
      /\ inflight'[1] = w
  BY <1>3, <1>4, AppendFacts
<1>6. w.frame = queue[1]
  BY <1>2 DEF w
<1>7. OneChain'
  BY <1>1, <1>5 DEF OneChain
<1>8. BufferAlive'
  BY <1>1, <1>5, <1>6 DEF BufferAlive
<1> QED
  BY <1>7, <1>8

\* One chain and live buffers are inductive together with the types.
LEMMA NextOneChain ==
  TypeOK /\ OneChain /\ BufferAlive /\ [Next]_vars => OneChain' /\ BufferAlive'
<1> SUFFICES ASSUME TypeOK, OneChain, BufferAlive, [Next]_vars
             PROVE  OneChain' /\ BufferAlive'
  OBVIOUS
<1>1. ASSUME NEW t \in Threads, Send(t) PROVE OneChain' /\ BufferAlive'
  BY <1>1, PostOneChain DEF Send, Kinds
<1>2. ASSUME NEW t \in Closers, SendCloseLoad(t) PROVE OneChain' /\ BufferAlive'
  BY <1>2 DEF SendCloseLoad, OneChain, BufferAlive, ChainTasks
<1>3. ASSUME NEW t \in Closers, SendCloseStore(t) PROVE OneChain' /\ BufferAlive'
  BY <1>3, PostOneChain DEF SendCloseStore, Kinds
<1>4. CASE RunEnqueue
  <2>1. /\ strand # <<>>
        /\ Head(strand).run = "enqueue"
        /\ Return \/ SendFromQueue
    BY <1>4 DEF RunEnqueue, Running
  <2>2. Head(strand).frame \in Nat /\ queue \in Seq(Nat)
    BY <2>1, HeadTailProperties, TaskTypes DEF TypeOK
  <2>3. /\ queue' # <<>>
        /\ Len(queue') = Len(queue) + 1
        /\ \A i \in 1 .. Len(queue) : queue'[i] = queue[i]
    BY <1>4, <2>2, AppendFacts DEF RunEnqueue
  <2>4. Len(queue) \in Nat /\ (queue # <<>> => Len(queue) # 0)
    BY <2>2, LenProperties, EmptySeq
  <2>5. inflight' = inflight
    BY <1>4 DEF RunEnqueue
  <2>6. CASE queue = <<>>
    <3>1. SendFromQueue
      BY <1>4, <2>3, <2>6, EmptySeq DEF RunEnqueue
    <3>2. ChainTasks = {} /\ inflight = <<>>
      BY <2>6 DEF OneChain
    <3>3. ChainTasks' = {Len(strand)}
      BY <2>1, <3>1, <3>2, ReturnChain
    <3> QED
      BY <2>3, <2>5, <3>2, <3>3 DEF OneChain, BufferAlive
  <2>7. CASE queue # <<>>
    <3>1. Return
      BY <1>4, <2>3, <2>4, <2>7 DEF RunEnqueue
    <3>2. /\ \A i \in ChainTasks' : i + 1 \in ChainTasks /\ i \in Nat
          /\ \A i \in ChainTasks : i # 1
          /\ \A i \in ChainTasks : i - 1 \in ChainTasks'
      BY <2>1, <3>1, ReturnChain
    <3>3. \A i, j \in ChainTasks' : i = j
      BY <3>2 DEF OneChain
    <3>4. ChainTasks' = {} <=> ChainTasks = {}
      BY <3>2
    <3>5. queue'[1] = queue[1]
      BY <2>3, <2>4, <2>7
    <3> QED
      BY <2>3, <2>5, <2>7, <3>3, <3>4, <3>5 DEF OneChain, BufferAlive
  <2> QED
    BY <2>6, <2>7
<1>5. CASE RunStart
  BY <1>5, AsyncWriteOneChain DEF RunStart, Running, Parts
<1>6. CASE RunHeaderDone
  <2>1. CASE Head(strand).ok
    BY <1>6, <2>1, AsyncWriteOneChain DEF RunHeaderDone, Running, Parts
  <2>2. CASE ~Head(strand).ok
    BY <1>6, <2>2, GiveUpOneChain DEF RunHeaderDone, Running
  <2> QED
    BY <2>1, <2>2
<1>7. CASE RunMessageDone
  <2>1. CASE Head(strand).ok
    <3>1. /\ strand # <<>>
          /\ Head(strand).run # "enqueue"
          /\ queue # <<>>
          /\ queue' = Tail(queue)
          /\ inflight' = inflight
          /\ IF Len(queue') > 0 THEN SendFromQueue ELSE Return
      BY <1>7, <2>1 DEF RunMessageDone, Running
    <3>2. inflight' = <<>> /\ (Return => ChainTasks' = {})
                           /\ (SendFromQueue => ChainTasks' = {Len(strand)})
      BY <3>1, ChainRuns
    <3>3. queue' \in Seq(Nat) /\ Len(queue') \in Nat
      BY <3>1, HeadTailProperties, LenProperties DEF TypeOK
    <3>4. queue' = <<>> <=> Len(queue') = 0
      BY <3>3, EmptySeq
    <3>5. Len(inflight') = 0 /\ DOMAIN inflight' = {}
      BY <3>2, EmptySeq
    <3>6. queue' = <<>> <=> ChainTasks' = {}
      <4>1. CASE Len(queue') > 0
        <5>1. Len(queue') # 0
          BY <3>3, <4>1
        <5>2. SendFromQueue
          BY <3>1, <4>1
        <5> QED
          BY <3>2, <3>4, <5>1, <5>2
      <4>2. CASE ~(Len(queue') > 0)
        <5>1. Len(queue') = 0
          BY <3>3, <4>2
        <5> QED
          BY <3>1, <3>2, <3>4, <4>2, <5>1
      <4> QED
        BY <4>1, <4>2
    <3>7. \A i, j \in ChainTasks' : i = j
      BY <3>1, <3>2
    <3> QED
      BY <3>2, <3>5, <3>6, <3>7 DEF OneChain, BufferAlive
  <2>2. CASE ~Head(strand).ok
    BY <1>7, <2>2, GiveUpOneChain DEF RunMessageDone, Running
  <2> QED
    BY <2>1, <2>2
<1>8. CASE WriteDone
  <2> DEFINE done == Completed(Head(inflight).part, up)
  <2>1. /\ inflight # <<>>
        /\ inflight' = Tail(inflight)
        /\ strand' = Append(strand, done)
        /\ queue' = queue
    BY <1>8 DEF WriteDone
  <2>2. inflight \in Seq(Write) /\ Head(inflight) \in Write
    BY <2>1, TailFacts DEF TypeOK
  <2>3. done \in Task /\ done.run # "enqueue"
    BY <2>2, TaskTypes, WriteTypes DEF TypeOK, Completed, Parts
  <2>4. /\ Len(inflight) = 1
        /\ ChainTasks = {}
        /\ queue # <<>>
    <3>1. Len(inflight) \in Nat \ {0} /\ Len(inflight) <= 1
      BY <2>1, <2>2, EmptySeq DEF OneChain
    <3>2. Len(inflight) = 1
      BY <3>1
    <3> QED
      BY <2>1, <3>2 DEF OneChain
  <2>5. Len(inflight') = 0 /\ inflight' \in Seq(Write)
    BY <2>1, <2>2, <2>4, TailFacts
  <2>6. inflight' = <<>> /\ DOMAIN inflight' = {}
    BY <2>5, EmptySeq, LenProperties
  <2> HIDE DEF done
  <2>7. ChainTasks' = {Len(strand) + 1}
    BY <2>1, <2>3, <2>4, PostChain
  <2> QED
    BY <2>1, <2>4, <2>5, <2>6, <2>7 DEF OneChain, BufferAlive
<1>9. CASE Break
  BY <1>9 DEF Break, OneChain, BufferAlive, ChainTasks
<1>10. CASE UNCHANGED vars
  BY <1>10 DEF vars, OneChain, BufferAlive, ChainTasks
<1> QED
  BY <1>1, <1>2, <1>3, <1>4, <1>5, <1>6, <1>7, <1>8, <1>9, <1>10
     DEF Next, RunStrand

\* The send queue is written by exactly one chain whenever it is not empty,
\* however many threads send and however many frames they send.
THEOREM SingleChain == Spec => []OneChain
<1>1. Init => TypeOK /\ OneChain /\ BufferAlive
  BY InitTypeOK, InitOneChain
<1>2. TypeOK /\ OneChain /\ BufferAlive /\ [Next]_vars
        => (TypeOK /\ OneChain /\ BufferAlive)'
  BY NextTypeOK, NextOneChain
<1> QED
  BY <1>1, <1>2, PTL DEF Spec

\* The stream of a frame lives until its write has completed.
THEOREM BuffersAlive == Spec => []BufferAlive
<1>1. Init => TypeOK /\ OneChain /\ BufferAlive
  BY InitTypeOK, InitOneChain
<1>2. TypeOK /\ OneChain /\ BufferAlive /\ [Next]_vars
        => (TypeOK /\ OneChain /\ BufferAlive)'
  BY NextTypeOK, NextOneChain
<1> QED
  BY <1>1, <1>2, PTL DEF Spec

--------------------------------------------------------------------------------
(* The close frame, when the server has one io thread *)

\* A close frame was posted only after closed was set, and nobody is between
\* the load and the store of send_close once it is.
CloseInv ==
  /\ ~closed => \A n \in DOMAIN frames : frames[n] # "close"
  /\ closing # {} => ~closed
  /\ CloseOnce

\* No frame is posted at first.
LEMMA InitCloseInv == Init => CloseInv
<1> SUFFICES ASSUME Init PROVE CloseInv
  OBVIOUS
<1>1. DOMAIN frames = {}
  BY DEF Init
<1> QED
  BY <1>1 DEF Init, CloseInv, CloseOnce

\* CloseInv is inductive when one thread only calls send_close.
LEMMA NextCloseInv ==
  ASSUME NEW io, Closers = {io}, TypeOK, CloseInv, [Next]_vars
  PROVE  CloseInv'
<1>1. /\ frames \in Seq(Kinds)
      /\ DOMAIN frames = 1 .. Len(frames)
      /\ Len(frames) \in Nat
  BY LenProperties DEF TypeOK
<1>2. ASSUME NEW kind \in Kinds, Post(kind)
      PROVE  /\ DOMAIN frames' = DOMAIN frames \cup {Len(frames) + 1}
             /\ \A n \in DOMAIN frames : frames'[n] = frames[n]
             /\ frames'[Len(frames) + 1] = kind
  <2>1. frames' = Append(frames, kind)
    BY <1>2 DEF Post
  <2>2. /\ DOMAIN frames' = 1 .. Len(frames) + 1
        /\ \A n \in 1 .. Len(frames) : frames'[n] = frames[n]
        /\ frames'[Len(frames) + 1] = kind
    BY <1>1, <2>1, AppendFacts
  <2>3. 1 .. Len(frames) + 1 = 1 .. Len(frames) \cup {Len(frames) + 1}
    BY <1>1
  <2> QED
    BY <1>1, <2>2, <2>3
<1>3. ASSUME NEW t \in Threads, Send(t) PROVE CloseInv'
  <2>1. Post("data") /\ "data" \in Kinds /\ UNCHANGED <<closed, closing>>
    BY <1>3 DEF Send, Kinds
  <2>2. /\ DOMAIN frames' = DOMAIN frames \cup {Len(frames) + 1}
        /\ \A n \in DOMAIN frames : frames'[n] = frames[n]
        /\ frames'[Len(frames) + 1] = "data"
    BY <1>2, <2>1
  <2> QED
    BY <2>1, <2>2 DEF CloseInv, CloseOnce
<1>4. ASSUME NEW t \in Closers, SendCloseLoad(t) PROVE CloseInv'
  BY <1>4 DEF SendCloseLoad, CloseInv, CloseOnce
<1>5. ASSUME NEW t \in Closers, SendCloseStore(t) PROVE CloseInv'
  <2>1. Post("close") /\ "close" \in Kinds /\ closed' = TRUE /\ t \in closing
    BY <1>5 DEF SendCloseStore, Kinds
  <2>2. closing' = {}
    BY <1>5 DEF SendCloseStore, TypeOK
  <2>3. \A n \in DOMAIN frames : frames[n] # "close"
    BY <2>1 DEF CloseInv
  <2>4. /\ DOMAIN frames' = DOMAIN frames \cup {Len(frames) + 1}
        /\ \A n \in DOMAIN frames : frames'[n] = frames[n]
    BY <1>2, <2>1
  <2> QED
    BY <2>1, <2>2, <2>3, <2>4 DEF CloseInv, CloseOnce
<1>6. CASE RunStrand \/ WriteDone \/ Break \/ UNCHANGED vars
  <2>1. UNCHANGED <<frames, closed, closing>>
    BY <1>6 DEF RunStrand, RunEnqueue, RunStart, RunHeaderDone, RunMessageDone,
                GiveUp, WriteDone, Break, vars, callVars
  <2> QED
    BY <2>1 DEF CloseInv, CloseOnce
<1> QED
  BY <1>3, <1>4, <1>5, <1>6 DEF Next

\* With one io thread, as the bot configures the server, a connection sends
\* at most one close frame, whoever initiates the close.
THEOREM OneCloseFrame ==
  ASSUME NEW io, Closers = {io}
  PROVE  Spec => []CloseOnce
<1>1. Init => TypeOK /\ CloseInv
  BY InitTypeOK, InitCloseInv
<1>2. TypeOK /\ CloseInv /\ [Next]_vars => (TypeOK /\ CloseInv)'
  BY NextTypeOK, NextCloseInv
<1>3. CloseInv => CloseOnce
  BY DEF CloseInv
<1> QED
  BY <1>1, <1>2, <1>3, PTL DEF Spec

--------------------------------------------------------------------------------
(* Delivery *)

Count == Len(frames)

\* The frames in send_queue, those whose enqueueing is posted, and those that
\* were written in full or given up.
Queued == {queue[i] : i \in DOMAIN queue}
EnqueueTasks == {i \in DOMAIN strand : strand[i].run = "enqueue"}
Posted == {strand[i].frame : i \in EnqueueTasks}
Settled == OnWire \cup failed \cup dropped
WireFrames == {wire[i].frame : i \in DOMAIN wire}

\* The handlers of the chain, of which OneChain allows one.
Chain == {strand[i] : i \in ChainTasks}

\* The frame at the front is on the wire: its header alone; its message too,
\* as its handler has not run yet; its header at least.
HalfOut ==
  \/ \E t \in Chain : t.run = "header" /\ t.ok
  \/ \E i \in DOMAIN inflight : inflight[i].part = "message"
MessageOut == \E t \in Chain : t.run = "message" /\ t.ok
HeaderOut == HalfOut \/ \E t \in Chain : t.run = "message"

\* Frame n was posted before all frames in the queue and on the strand.
Older(n) == (\A q \in Queued : n < q) /\ (\A p \in Posted : n < p)

\* Frames are numbered in the order of the posts, and none is forgotten.
Numbered ==
  /\ Queued \subseteq 1 .. Count
  /\ Posted \subseteq 1 .. Count
  /\ Settled \cup WireFrames \subseteq 1 .. Count
  /\ 1 .. Count \subseteq Settled \cup Queued \cup Posted

\* They stay in that order on the strand and in the queue.
QueueOrdered == \A i, j \in DOMAIN queue : i < j => queue[i] < queue[j]
StrandOrdered ==
  \A i, j \in EnqueueTasks : i < j => strand[i].frame < strand[j].frame
Ordered ==
  /\ QueueOrdered
  /\ StrandOrdered
  /\ \A q \in Queued, p \in Posted : q < p

\* What is settled or on the wire is older, but for the frame at the front.
SettledFirst ==
  \A n \in Settled : Older(n) \/ (queue # <<>> /\ n = queue[1] /\ MessageOut)
WireFirst ==
  \A n \in WireFrames : Older(n) \/ (queue # <<>> /\ n = queue[1] /\ HeaderOut)

\* Where the chain is and what the wire ends with.
MessageLast == wire = <<>> \/ wire[Len(wire)].part = "message"
HeaderLast ==
  wire # <<>> /\ wire[Len(wire)] = [part |-> "header", frame |-> queue[1]]
Stage ==
  /\ \A t \in Chain : ~t.ok => ~up
  /\ up => IF HalfOut THEN HeaderLast ELSE MessageLast
  /\ MessageOut => queue[1] \in OnWire

\* Frames are given up only after the connection broke.
LostWhenDown == failed \cup dropped # {} => ~up

DeliveryInv ==
  /\ Numbered
  /\ Ordered
  /\ SettledFirst
  /\ WireFirst
  /\ Stage
  /\ LostWhenDown
  /\ WireFramed
  /\ CallbackTruthful

--------------------------------------------------------------------------------
(* What the steps of the model do to these sets *)

\* A handler appended to the strand is the last one.
LEMMA PostSets ==
  ASSUME TypeOK, NEW task \in Task, strand' = Append(strand, task)
  PROVE  /\ Posted' = Posted \cup (IF task.run = "enqueue" THEN {task.frame} ELSE {})
         /\ Chain' = Chain \cup (IF task.run = "enqueue" THEN {} ELSE {task})
         /\ StrandOrdered /\ (task.run = "enqueue" => \A p \in Posted : p < task.frame)
              => StrandOrdered'
<1>1. strand \in Seq(Task) /\ DOMAIN strand = 1 .. Len(strand) /\ Len(strand) \in Nat
  BY LenProperties DEF TypeOK
<1>2. /\ DOMAIN strand' = 1 .. Len(strand) + 1
      /\ \A i \in 1 .. Len(strand) : strand'[i] = strand[i]
      /\ strand'[Len(strand) + 1] = task
  BY <1>1, AppendFacts
<1>3. 1 .. Len(strand) + 1 = 1 .. Len(strand) \cup {Len(strand) + 1}
  BY <1>1
<1>4. EnqueueTasks' =
        EnqueueTasks \cup (IF task.run = "enqueue" THEN {Len(strand) + 1} ELSE {})
  BY <1>1, <1>2, <1>3 DEF EnqueueTasks
<1>5. Posted' = Posted \cup (IF task.run = "enqueue" THEN {task.frame} ELSE {})
  BY <1>1, <1>2, <1>4 DEF Posted, EnqueueTasks
<1>6. Chain' = Chain \cup (IF task.run = "enqueue" THEN {} ELSE {task})
  BY <1>1, <1>2, <1>3 DEF Chain, ChainTasks
<1>7. ASSUME StrandOrdered, task.run = "enqueue" => \A p \in Posted : p < task.frame
      PROVE  StrandOrdered'
  <2> SUFFICES ASSUME NEW i \in EnqueueTasks', NEW j \in EnqueueTasks', i < j
               PROVE  strand'[i].frame < strand'[j].frame
    BY DEF StrandOrdered
  <2>1. i \in EnqueueTasks /\ i \in 1 .. Len(strand)
    BY <1>1, <1>2, <1>4 DEF EnqueueTasks
  <2>2. CASE j \in EnqueueTasks
    BY <1>1, <1>2, <1>7, <2>1, <2>2 DEF StrandOrdered, EnqueueTasks
  <2>3. CASE j \notin EnqueueTasks
    <3>1. task.run = "enqueue" /\ strand'[j] = task
      BY <1>2, <1>4, <2>3
    <3>2. strand[i].frame \in Posted /\ strand'[i] = strand[i]
      BY <1>2, <2>1 DEF Posted
    <3> QED
      BY <1>7, <3>1, <3>2
  <2> QED
    BY <2>2, <2>3
<1> QED
  BY <1>5, <1>6, <1>7

\* The handler that ends takes its frame away when it enqueues, and is the chain
\* when it does not; send_from_queue makes a chain that starts.
LEMMA ReturnSets ==
  ASSUME TypeOK, strand # <<>>, Return \/ SendFromQueue
  PROVE  /\ Head(strand) \in Task
         /\ Head(strand).run = "enqueue" =>
              /\ Posted = Posted' \cup {Head(strand).frame}
              /\ StrandOrdered => \A p \in Posted' : Head(strand).frame < p
              /\ Return => Chain' = Chain
              /\ SendFromQueue => Chain' = Chain \cup {Start}
         /\ Head(strand).run # "enqueue" /\ OneChain =>
              /\ Posted = Posted'
              /\ Chain = {Head(strand)}
              /\ Return => Chain' = {}
              /\ SendFromQueue => Chain' = {Start}
         /\ StrandOrdered => StrandOrdered'
<1> DEFINE h == Head(strand)
           more == Len(strand) - 1
<1>1. /\ strand \in Seq(Task)
      /\ Len(strand) \in Nat \ {0}
      /\ DOMAIN strand = 1 .. Len(strand)
      /\ more \in Nat
  BY LenProperties, EmptySeq DEF TypeOK
<1>2. /\ Tail(strand) \in Seq(Task)
      /\ Len(Tail(strand)) = more
      /\ DOMAIN Tail(strand) = 1 .. more
      /\ \A i \in 1 .. more : Tail(strand)[i] = strand[i + 1]
      /\ h = strand[1]
      /\ h \in Task
  BY <1>1, TailFacts
<1>3. /\ DOMAIN strand' = 1 .. more \cup (IF Return THEN {} ELSE {Len(strand)})
      /\ \A i \in 1 .. more : strand'[i] = strand[i + 1]
      /\ ~Return => strand'[Len(strand)] = Start
      /\ Return => ~SendFromQueue
  <2>1. CASE Return
    <3>1. Len(Append(Tail(strand), Start)) = more + 1
      BY <1>2, TaskTypes, AppendFacts
    <3>2. Append(Tail(strand), Start) # Tail(strand)
      <4>1. more + 1 # more
        BY <1>1, SuccessorDiffers
      <4> QED
        BY <1>2, <3>1, <4>1
    <3> QED
      BY <1>2, <2>1, <3>2 DEF Return, SendFromQueue
  <2>2. CASE ~Return
    <3>1. strand' = Append(Tail(strand), Start)
      BY <2>2 DEF SendFromQueue
    <3>2. /\ DOMAIN strand' = 1 .. more + 1
          /\ \A i \in 1 .. more : strand'[i] = Tail(strand)[i]
          /\ strand'[more + 1] = Start
      BY <1>2, <3>1, TaskTypes, AppendFacts
    <3>3. more + 1 = Len(strand) /\ 1 .. more + 1 = 1 .. more \cup {Len(strand)}
      BY <1>1
    <3> QED
      BY <1>2, <2>2, <3>2, <3>3
  <2> QED
    BY <2>1, <2>2
<1>4. Start.run # "enqueue"
  BY DEF Start
<1>5. /\ EnqueueTasks' \subseteq 1 .. more
      /\ \A i \in 1 .. more : i \in EnqueueTasks' <=> i + 1 \in EnqueueTasks
      /\ \A i \in EnqueueTasks : i = 1 \/ i - 1 \in EnqueueTasks'
      /\ 1 \in EnqueueTasks <=> h.run = "enqueue"
  <2>1. EnqueueTasks' = {i \in 1 .. more : strand[i + 1].run = "enqueue"}
    BY <1>1, <1>3, <1>4 DEF EnqueueTasks
  <2>2. EnqueueTasks = {i \in 1 .. Len(strand) : strand[i].run = "enqueue"}
    BY <1>1 DEF EnqueueTasks
  <2> QED
    BY <1>1, <1>2, <2>1, <2>2
<1>6. Posted' = {strand[i].frame : i \in EnqueueTasks \ {1}}
  <2>1. Posted' = {strand'[i].frame : i \in EnqueueTasks'}
    BY DEF Posted
  <2>2. ASSUME NEW i \in EnqueueTasks'
        PROVE  i + 1 \in EnqueueTasks \ {1} /\ strand'[i] = strand[i + 1]
    <3>1. i \in 1 .. more
      BY <1>5
    <3>2. i + 1 # 1
      BY <3>1
    <3> QED
      BY <1>3, <1>5, <3>1, <3>2
  <2>3. ASSUME NEW i \in EnqueueTasks \ {1}
        PROVE  i - 1 \in EnqueueTasks' /\ strand'[i - 1] = strand[i]
    <3>1. i \in 1 .. Len(strand) /\ i # 1
      BY <1>1 DEF EnqueueTasks
    <3>2. i - 1 \in 1 .. more /\ (i - 1) + 1 = i
      BY <1>1, <3>1
    <3> QED
      BY <1>3, <1>5, <3>2
  <2> QED
    BY <2>1, <2>2, <2>3
<1>7. StrandOrdered => StrandOrdered'
  <2> SUFFICES ASSUME StrandOrdered, NEW i \in EnqueueTasks', NEW j \in EnqueueTasks', i < j
               PROVE  strand'[i].frame < strand'[j].frame
    BY DEF StrandOrdered
  <2>1. i \in 1 .. more /\ j \in 1 .. more
    BY <1>5
  <2>2. i + 1 \in EnqueueTasks /\ j + 1 \in EnqueueTasks /\ i + 1 < j + 1
    BY <1>1, <1>5, <2>1
  <2> QED
    BY <1>3, <2>1, <2>2 DEF StrandOrdered
<1>8. ASSUME h.run = "enqueue"
      PROVE  /\ Posted = Posted' \cup {h.frame}
             /\ StrandOrdered => \A p \in Posted' : h.frame < p
             /\ Return => Chain' = Chain
             /\ SendFromQueue => Chain' = Chain \cup {Start}
  <2>1. 1 \in EnqueueTasks
    BY <1>5, <1>8
  <2>2. Posted = Posted' \cup {h.frame}
    <3>1. h.frame = strand[1].frame
      BY <1>2
    <3>2. Posted = {strand[i].frame : i \in EnqueueTasks}
      BY DEF Posted
    <3>3. ASSUME NEW p \in Posted PROVE p \in Posted' \cup {h.frame}
      <4>1. PICK i \in EnqueueTasks : p = strand[i].frame
        BY <3>2
      <4>2. CASE i = 1
        BY <3>1, <4>1, <4>2
      <4>3. CASE i # 1
        BY <1>6, <4>1, <4>3
      <4> QED
        BY <4>2, <4>3
    <3>4. h.frame \in Posted
      BY <2>1, <3>1, <3>2
    <3>5. Posted' \subseteq Posted
      BY <1>6, <3>2
    <3> QED
      BY <3>3, <3>4, <3>5
  <2>3. StrandOrdered => \A p \in Posted' : h.frame < p
    <3> SUFFICES ASSUME StrandOrdered, NEW i \in EnqueueTasks \ {1}
                 PROVE  h.frame < strand[i].frame
      BY <1>6
    <3>1. i \in 1 .. Len(strand) /\ 1 < i
      BY <1>1 DEF EnqueueTasks
    <3> QED
      BY <1>2, <2>1, <3>1 DEF StrandOrdered
  <2>4. Chain' = Chain \cup (IF Return THEN {} ELSE {Start})
    <3>1. ASSUME NEW t \in Chain PROVE t \in Chain'
      <4>1. PICK i \in 1 .. Len(strand) : strand[i] = t /\ t.run # "enqueue"
        BY <1>1 DEF Chain, ChainTasks
      <4>2. i # 1
        BY <1>2, <1>8, <4>1
      <4>3. i - 1 \in 1 .. more /\ (i - 1) + 1 = i
        BY <1>1, <4>1, <4>2
      <4>4. i - 1 \in DOMAIN strand' /\ strand'[i - 1] = t
        BY <1>3, <4>1, <4>3
      <4> QED
        BY <4>1, <4>4 DEF Chain, ChainTasks
    <3>2. ASSUME NEW t \in Chain' PROVE t \in Chain \/ (~Return /\ t = Start)
      <4>1. PICK i \in DOMAIN strand' : strand'[i] = t /\ t.run # "enqueue"
        BY DEF Chain, ChainTasks
      <4>2. CASE i \in 1 .. more
        <5>1. i + 1 \in DOMAIN strand /\ strand[i + 1] = t
          <6>1. i + 1 \in 1 .. Len(strand)
            BY <1>1, <4>2
          <6> QED
            BY <1>1, <1>3, <4>1, <4>2, <6>1
        <5> QED
          BY <4>1, <5>1 DEF Chain, ChainTasks
      <4>3. CASE i \notin 1 .. more
        BY <1>3, <4>1, <4>3
      <4> QED
        BY <4>2, <4>3
    <3>3. ~Return => Start \in Chain'
      BY <1>3, <1>4 DEF Chain, ChainTasks
    <3> QED
      BY <3>1, <3>2, <3>3
  <2> QED
    BY <1>3, <2>2, <2>3, <2>4
<1>9. ASSUME h.run # "enqueue", OneChain
      PROVE  /\ Posted = Posted'
             /\ Chain = {h}
             /\ Return => Chain' = {}
             /\ SendFromQueue => Chain' = {Start}
  <2>1. /\ Return => ChainTasks' = {}
        /\ SendFromQueue => ChainTasks' = {Len(strand)}
    BY <1>9, ChainRuns
  <2>2. ChainTasks = {1}
    <3>1. 1 \in ChainTasks
      BY <1>1, <1>2, <1>9 DEF ChainTasks
    <3> QED
      BY <1>9, <3>1 DEF OneChain
  <2>3. Chain = {h}
    BY <1>2, <2>2 DEF Chain
  <2>4. Return => Chain' = {}
    BY <2>1 DEF Chain
  <2>5. SendFromQueue => Chain' = {Start}
    BY <1>3, <2>1 DEF Chain
  <2>6. Posted = Posted'
    BY <1>5, <1>6, <1>9 DEF Posted
  <2> QED
    BY <2>3, <2>4, <2>5, <2>6
<1> QED
  BY <1>2, <1>7, <1>8, <1>9

\* A frame at the end of the queue.
LEMMA EnqueueSets ==
  ASSUME queue \in Seq(Nat), NEW n \in Nat, queue' = Append(queue, n)
  PROVE  /\ Queued' = Queued \cup {n}
         /\ queue' # <<>>
         /\ queue # <<>> => queue'[1] = queue[1]
         /\ queue = <<>> => queue'[1] = n /\ Queued = {}
         /\ QueueOrdered /\ (\A q \in Queued : q < n) => QueueOrdered'
<1>1. DOMAIN queue = 1 .. Len(queue) /\ Len(queue) \in Nat
  BY LenProperties
<1>2. /\ DOMAIN queue' = 1 .. Len(queue) + 1
      /\ \A i \in 1 .. Len(queue) : queue'[i] = queue[i]
      /\ queue'[Len(queue) + 1] = n
      /\ queue' # <<>>
  BY AppendFacts
<1>3. Queued' = Queued \cup {n}
  BY <1>1, <1>2 DEF Queued
<1>4. queue = <<>> => Len(queue) = 0
  BY EmptySeq
<1>5. queue # <<>> => Len(queue) \in Nat \ {0}
  BY EmptySeq
<1>6. QueueOrdered /\ (\A q \in Queued : q < n) => QueueOrdered'
  BY <1>1, <1>2 DEF QueueOrdered, Queued
<1>7. queue = <<>> => Queued = {}
  BY <1>1, <1>4 DEF Queued
<1> QED
  BY <1>1, <1>2, <1>3, <1>4, <1>5, <1>6, <1>7

\* The front of a queue in order is its least frame.
LEMMA FrontIsOldest ==
  ASSUME queue \in Seq(Nat), queue # <<>>, QueueOrdered
  PROVE  /\ Head(queue) = queue[1]
         /\ queue[1] \in Queued
         /\ \A q \in Queued : q = queue[1] \/ queue[1] < q
         /\ Queued = {queue[1]} \cup {queue[i] : i \in 2 .. Len(queue)}
         /\ queue' = Tail(queue) => /\ Queued' = Queued \ {queue[1]}
                                    /\ QueueOrdered'
<1>1. /\ DOMAIN queue = 1 .. Len(queue)
      /\ Len(queue) \in Nat \ {0}
      /\ \A i \in 1 .. Len(queue) : queue[i] \in Nat
  BY LenProperties, EmptySeq, ElementOfSeq
<1>2. queue[1] \in Queued
  BY <1>1 DEF Queued
<1>3. \A i \in 2 .. Len(queue) : queue[1] < queue[i]
  BY <1>1 DEF QueueOrdered
<1>4. 1 .. Len(queue) = {1} \cup 2 .. Len(queue)
  BY <1>1
<1>5. Queued = {queue[1]} \cup {queue[i] : i \in 2 .. Len(queue)}
  BY <1>1, <1>4 DEF Queued
<1>6. ASSUME queue' = Tail(queue)
      PROVE  Queued' = Queued \ {queue[1]} /\ QueueOrdered'
  <2>1. /\ DOMAIN queue' = 1 .. Len(queue) - 1
        /\ \A i \in 1 .. Len(queue) - 1 : queue'[i] = queue[i + 1]
    BY <1>6, TailFacts
  <2>2. Queued' = {queue[i] : i \in 2 .. Len(queue)}
    <3>1. ASSUME NEW i \in 1 .. Len(queue) - 1
          PROVE  i + 1 \in 2 .. Len(queue)
      BY <1>1
    <3>2. ASSUME NEW i \in 2 .. Len(queue)
          PROVE  i - 1 \in 1 .. Len(queue) - 1 /\ (i - 1) + 1 = i
      BY <1>1
    <3> QED
      <4>1. Queued' = {queue'[i] : i \in 1 .. Len(queue) - 1}
        BY <2>1 DEF Queued
      <4>2. Queued' = {queue[i + 1] : i \in 1 .. Len(queue) - 1}
        BY <2>1, <4>1
      <4>3. ASSUME NEW q
            PROVE  q \in {queue[i + 1] : i \in 1 .. Len(queue) - 1}
                     <=> q \in {queue[i] : i \in 2 .. Len(queue)}
        BY <3>1, <3>2
      <4> QED
        BY <4>2, <4>3
  <2>3. \A i \in 2 .. Len(queue) : queue[i] # queue[1]
    BY <1>1, <1>3
  <2>4. QueueOrdered'
    <3> SUFFICES ASSUME NEW i \in 1 .. Len(queue) - 1, NEW j \in 1 .. Len(queue) - 1, i < j
                 PROVE  queue[i + 1] < queue[j + 1]
      BY <2>1 DEF QueueOrdered
    <3>1. i + 1 \in DOMAIN queue /\ j + 1 \in DOMAIN queue /\ i + 1 < j + 1
      BY <1>1
    <3> QED
      BY <3>1 DEF QueueOrdered
  <2> QED
    BY <1>5, <2>2, <2>3, <2>4
<1>7. Head(queue) = queue[1]
  OBVIOUS
<1> QED
  BY <1>2, <1>3, <1>5, <1>6, <1>7

\* A part the socket took is the last one on the wire.
LEMMA WireSets ==
  ASSUME wire \in Seq(Write), NEW w \in Write, wire' = Append(wire, w)
  PROVE  /\ WireFrames' = WireFrames \cup {w.frame}
         /\ OnWire' = OnWire \cup (IF w.part = "message" THEN {w.frame} ELSE {})
         /\ wire' # <<>>
         /\ wire'[Len(wire')] = w
         /\ WireFramed /\ w.part = "header" /\ MessageLast
              /\ (\A n \in WireFrames : n < w.frame)
            => WireFramed'
         /\ WireFramed /\ w.part = "message" /\ wire # <<>>
              /\ wire[Len(wire)] = [part |-> "header", frame |-> w.frame]
              /\ (\A n \in OnWire : n < w.frame)
            => WireFramed'
<1> DEFINE n == Len(wire)
<1>1. n \in Nat /\ DOMAIN wire = 1 .. n /\ (\A i \in 1 .. n : wire[i] \in Write)
  BY LenProperties, ElementOfSeq
<1>2. /\ DOMAIN wire' = 1 .. n + 1
      /\ Len(wire') = n + 1
      /\ \A i \in 1 .. n : wire'[i] = wire[i]
      /\ wire'[n + 1] = w
      /\ wire' # <<>>
  BY AppendFacts
<1>3. 1 .. n + 1 = 1 .. n \cup {n + 1}
  BY <1>1
<1>4. WireFrames' = WireFrames \cup {w.frame}
  BY <1>1, <1>2, <1>3 DEF WireFrames
<1>5. OnWire' = OnWire \cup (IF w.part = "message" THEN {w.frame} ELSE {})
  <2>1. {j \in DOMAIN wire' : wire'[j].part = "message"} =
          {j \in DOMAIN wire : wire[j].part = "message"}
            \cup (IF w.part = "message" THEN {n + 1} ELSE {})
    BY <1>1, <1>2, <1>3
  <2> QED
    BY <1>1, <1>2, <2>1 DEF OnWire
<1>6. \A v \in Write : /\ [v EXCEPT !.part = "header"] = [part |-> "header", frame |-> v.frame]
                       /\ [v EXCEPT !.part = "message"] = [part |-> "message", frame |-> v.frame]
  BY DEF Write
<1>7. \A i \in 1 .. n : wire[i].part = "message" => wire[i].frame \in OnWire
  BY <1>1 DEF OnWire
<1>8. wire # <<>> => n \in 1 .. n
  BY <1>1, EmptySeq
<1>9. w.part \in {"header", "message"}
  BY WriteTypes DEF Parts
<1> HIDE DEF n
<1>10. ASSUME WireFramed, w.part = "header", MessageLast, \A m \in WireFrames : m < w.frame
       PROVE  WireFramed'
  <2>1. ASSUME NEW i \in DOMAIN wire', wire'[i].part = "message"
        PROVE  i > 1 /\ wire'[i - 1] = [wire'[i] EXCEPT !.part = "header"]
    <3>1. i \in 1 .. n
      BY <1>2, <1>3, <1>10, <2>1
    <3>2. i > 1 /\ wire[i - 1] = [wire[i] EXCEPT !.part = "header"]
      BY <1>1, <1>2, <1>10, <2>1, <3>1 DEF WireFramed
    <3>3. i - 1 \in 1 .. n
      BY <1>1, <3>1, <3>2
    <3> QED
      BY <1>2, <3>1, <3>2, <3>3
  <2>2. ASSUME NEW i \in DOMAIN wire', wire'[i].part = "header", i < Len(wire')
        PROVE  wire'[i + 1] = [wire'[i] EXCEPT !.part = "message"]
    <3>1. i \in 1 .. n
      BY <1>1, <1>2, <2>2
    <3>2. wire[i].part = "header"
      BY <1>2, <2>2, <3>1
    <3>3. i # n
      <4>1. wire # <<>>
        BY <1>1, <3>1, EmptySeq
      <4>2. wire[n].part = "message"
        BY <1>10, <4>1 DEF MessageLast, n
      <4> QED
        BY <3>2, <4>2
    <3>4. i < n /\ i + 1 \in 1 .. n
      BY <1>1, <3>1, <3>3
    <3>5. wire[i + 1] = [wire[i] EXCEPT !.part = "message"]
      BY <1>1, <1>10, <3>1, <3>2, <3>4 DEF WireFramed, n
    <3> QED
      BY <1>2, <3>1, <3>4, <3>5
  <2>3. ASSUME NEW i \in DOMAIN wire', NEW j \in DOMAIN wire', i < j,
               wire'[i].part = wire'[j].part
        PROVE  wire'[i].frame < wire'[j].frame
    <3>1. i \in 1 .. n
      BY <1>1, <1>2, <2>3
    <3>2. CASE j \in 1 .. n
      BY <1>1, <1>2, <1>10, <2>3, <3>1, <3>2 DEF WireFramed
    <3>3. CASE j = n + 1
      <4>1. wire[i].frame \in WireFrames
        BY <1>1, <3>1 DEF WireFrames
      <4> QED
        BY <1>2, <1>10, <3>1, <3>3, <4>1
    <3> QED
      BY <1>2, <1>3, <3>2, <3>3
  <2> QED
    BY <2>1, <2>2, <2>3 DEF WireFramed
<1>11. ASSUME WireFramed, w.part = "message", wire # <<>>,
              wire[Len(wire)] = [part |-> "header", frame |-> w.frame],
              \A m \in OnWire : m < w.frame
       PROVE  WireFramed'
  <2>0. n \in 1 .. n /\ wire[n] = [part |-> "header", frame |-> w.frame]
    BY <1>8, <1>11 DEF n
  <2>1. ASSUME NEW i \in DOMAIN wire', wire'[i].part = "message"
        PROVE  i > 1 /\ wire'[i - 1] = [wire'[i] EXCEPT !.part = "header"]
    <3>1. CASE i \in 1 .. n
      <4>1. i > 1 /\ wire[i - 1] = [wire[i] EXCEPT !.part = "header"]
        BY <1>1, <1>2, <1>11, <2>1, <3>1 DEF WireFramed
      <4>2. i - 1 \in 1 .. n
        BY <1>1, <3>1, <4>1
      <4> QED
        BY <1>2, <3>1, <4>1, <4>2
    <3>2. CASE i = n + 1
      <4>1. i > 1 /\ i - 1 = n
        BY <1>1, <2>0, <3>2
      <4>2. wire'[i] = w /\ wire'[i - 1] = wire[n]
        BY <1>2, <2>0, <3>2, <4>1
      <4> QED
        BY <1>6, <2>0, <4>1, <4>2
    <3> QED
      BY <1>2, <1>3, <3>1, <3>2, SMTT(30)
  <2>2. ASSUME NEW i \in DOMAIN wire', wire'[i].part = "header", i < Len(wire')
        PROVE  wire'[i + 1] = [wire'[i] EXCEPT !.part = "message"]
    <3>1. i \in 1 .. n
      BY <1>1, <1>2, <2>2
    <3>2. CASE i = n
      <4>1. wire'[i] = wire[n] /\ wire'[i + 1] = w
        BY <1>2, <3>1, <3>2
      <4>2. wire[n] \in Write /\ wire[n].frame = w.frame
        BY <1>1, <2>0
      <4>3. w = [part |-> "message", frame |-> w.frame]
        BY <1>11 DEF Write
      <4> QED
        BY <1>6, <4>1, <4>2, <4>3, ZenonT(30)
    <3>3. CASE i # n
      <4>1. i < n /\ i + 1 \in 1 .. n
        BY <1>1, <3>1, <3>3
      <4>2. wire[i + 1] = [wire[i] EXCEPT !.part = "message"]
        BY <1>1, <1>2, <1>11, <2>2, <3>1, <4>1 DEF WireFramed, n
      <4> QED
        BY <1>2, <3>1, <4>1, <4>2
    <3> QED
      BY <3>2, <3>3
  <2>3. ASSUME NEW i \in DOMAIN wire', NEW j \in DOMAIN wire', i < j,
               wire'[i].part = wire'[j].part
        PROVE  wire'[i].frame < wire'[j].frame
    <3>1. i \in 1 .. n
      BY <1>1, <1>2, <2>3
    <3>2. CASE j \in 1 .. n
      BY <1>1, <1>2, <1>11, <2>3, <3>1, <3>2 DEF WireFramed
    <3>3. CASE j = n + 1
      <4>1. wire[i].part = "message"
        BY <1>2, <1>11, <2>3, <3>1, <3>3
      <4>2. wire[i].frame \in OnWire
        BY <1>7, <3>1, <4>1
      <4> QED
        BY <1>2, <1>11, <3>1, <3>3, <4>2
    <3> QED
      BY <1>2, <1>3, <3>2, <3>3
  <2> QED
    BY <2>1, <2>2, <2>3 DEF WireFramed
<1> QED
  BY <1>2, <1>4, <1>5, <1>10, <1>11

\* Steps that leave the wire alone leave alone what is said of it.
LEMMA WireKept ==
  ASSUME wire' = wire
  PROVE  /\ WireFrames' = WireFrames
         /\ OnWire' = OnWire
         /\ MessageLast' = MessageLast
         /\ WireFramed' = WireFramed
BY DEF WireFrames, OnWire, MessageLast, WireFramed

\* The only write in flight is that of the frame at the front.
LEMMA WriteBegins ==
  ASSUME TypeOK, queue # <<>>, inflight = <<>>, NEW part \in Parts, AsyncWrite(part)
  PROVE  /\ DOMAIN inflight' = {1}
         /\ inflight'[1] = [part |-> part, frame |-> queue[1]]
<1>1. Head(queue) = queue[1] /\ Head(queue) \in Nat
  BY TailFacts DEF TypeOK
<1>2. [part |-> part, frame |-> queue[1]] \in Write
  BY <1>1, WriteTypes
<1>3. inflight \in Seq(Write) /\ Len(inflight) = 0
  BY EmptySeq DEF TypeOK
<1>4. inflight' = Append(inflight, [part |-> part, frame |-> queue[1]])
  BY <1>1 DEF AsyncWrite
<1>5. /\ DOMAIN inflight' = 1 .. 0 + 1
      /\ inflight'[0 + 1] = [part |-> part, frame |-> queue[1]]
  BY <1>2, <1>3, <1>4, AppendFacts
<1> QED
  BY <1>5

--------------------------------------------------------------------------------
(* The invariant *)

\* What the steps below assume: the invariants proved so far, and this one.
SendInv == TypeOK /\ OneChain /\ BufferAlive /\ DeliveryInv

\* The types of what DeliveryInv speaks of.
LEMMA SetTypes ==
  ASSUME TypeOK
  PROVE  /\ Count \in Nat
         /\ queue \in Seq(Nat)
         /\ wire \in Seq(Write)
         /\ Queued \subseteq Nat
         /\ Posted \subseteq Nat
         /\ WireFrames \subseteq Nat
         /\ OnWire \subseteq WireFrames
         /\ Settled \subseteq Nat
<1>1. Count \in Nat
  BY LenProperties DEF Count, TypeOK
<1>2. queue \in Seq(Nat) /\ wire \in Seq(Write) /\ strand \in Seq(Task)
  BY DEF TypeOK
<1>3. Queued \subseteq Nat
  BY <1>2, LenProperties, ElementOfSeq DEF Queued
<1>4. Posted \subseteq Nat
  <2>1. \A i \in DOMAIN strand : strand[i] \in Task
    BY <1>2, LenProperties, ElementOfSeq
  <2> QED
    BY <2>1, TaskTypes DEF Posted, EnqueueTasks
<1>5. WireFrames \subseteq Nat
  <2>1. \A i \in DOMAIN wire : wire[i] \in Write
    BY <1>2, LenProperties, ElementOfSeq
  <2> QED
    BY <2>1, WriteTypes DEF WireFrames
<1>6. OnWire \subseteq WireFrames
  BY DEF OnWire, WireFrames
<1>7. Settled \subseteq Nat
  BY <1>5, <1>6 DEF Settled, TypeOK
<1> QED
  BY <1>1, <1>2, <1>3, <1>4, <1>5, <1>6, <1>7

\* With an empty queue nothing is on its way.
LEMMA EmptyQueue ==
  ASSUME TypeOK, OneChain, queue = <<>>
  PROVE  /\ Queued = {}
         /\ Chain = {}
         /\ inflight = <<>>
         /\ DOMAIN inflight = {}
         /\ ~HalfOut /\ ~MessageOut /\ ~HeaderOut
<1>1. inflight = <<>> /\ ChainTasks = {}
  BY DEF OneChain
<1>2. DOMAIN inflight = {} /\ DOMAIN queue = {}
  BY <1>1
<1>3. Chain = {}
  BY <1>1 DEF Chain
<1> QED
  BY <1>1, <1>2, <1>3 DEF Queued, HalfOut, MessageOut, HeaderOut

\* No frame has a number yet.
LEMMA InitDeliveryInv == Init => DeliveryInv
<1> SUFFICES ASSUME Init PROVE DeliveryInv
  OBVIOUS
<1>1. /\ DOMAIN strand = {} /\ DOMAIN queue = {} /\ DOMAIN wire = {}
      /\ DOMAIN inflight = {} /\ Count = 0 /\ wire = <<>>
      /\ failed = {} /\ dropped = {} /\ acked = {} /\ up
  BY EmptySeq DEF Init, Count
<1>2. /\ Queued = {} /\ Posted = {} /\ OnWire = {} /\ WireFrames = {}
      /\ Chain = {} /\ Settled = {}
  BY <1>1 DEF Queued, EnqueueTasks, Posted, OnWire, WireFrames, Chain, ChainTasks, Settled
<1>3. Numbered
  BY <1>1, <1>2 DEF Numbered
<1>4. Ordered
  BY <1>1, <1>2 DEF Ordered, QueueOrdered, StrandOrdered, EnqueueTasks
<1>5. SettledFirst /\ WireFirst
  BY <1>2 DEF SettledFirst, WireFirst
<1>6. Stage /\ LostWhenDown
  BY <1>1, <1>2 DEF Stage, LostWhenDown, HalfOut, MessageOut, MessageLast
<1>7. WireFramed /\ CallbackTruthful
  BY <1>1, <1>2 DEF WireFramed, CallbackTruthful
<1> QED
  BY <1>3, <1>4, <1>5, <1>6, <1>7 DEF DeliveryInv

\* A post adds the last frame, and changes nothing else.
LEMMA PostDelivery ==
  ASSUME SendInv, NEW kind \in Kinds, Post(kind),
         UNCHANGED <<queue, inflight, wire, up, resultVars>>
  PROVE  DeliveryInv' /\ Settled' = Settled /\ Count' = Count + 1
<1> USE DEF SendInv, resultVars
<1>1. Count \in Nat /\ Count + 1 \in Nat /\ Count' = Count + 1
  <2>1. frames \in Seq(Kinds) /\ frames' = Append(frames, kind)
    BY DEF Post, TypeOK
  <2> QED
    BY <2>1, AppendFacts, LenProperties DEF Count
<1>2. Enqueue(Count + 1) \in Task /\ strand' = Append(strand, Enqueue(Count + 1))
  BY <1>1, TaskTypes DEF Post, Count
<1>3. Enqueue(Count + 1).run = "enqueue" /\ Enqueue(Count + 1).frame = Count + 1
  BY DEF Enqueue
<1>4. /\ Queued \subseteq 1 .. Count
      /\ Posted \subseteq 1 .. Count
      /\ Settled \subseteq 1 .. Count
      /\ WireFrames \subseteq 1 .. Count
      /\ 1 .. Count \subseteq Settled \cup Queued \cup Posted
  BY DEF DeliveryInv, Numbered
<1>5. \A n \in 1 .. Count : n < Count + 1
  BY <1>1
<1>6. Ordered
  BY DEF DeliveryInv
<1>7. Posted' = Posted \cup {Count + 1} /\ Chain' = Chain /\ StrandOrdered'
  BY <1>2, <1>3, <1>4, <1>5, <1>6, PostSets DEF Ordered
<1>8. /\ Queued' = Queued /\ Settled' = Settled /\ WireFrames' = WireFrames
      /\ OnWire' = OnWire /\ MessageLast' = MessageLast
      /\ WireFramed' = WireFramed
  BY WireKept DEF Queued, Settled
<1>9. /\ HalfOut' = HalfOut /\ MessageOut' = MessageOut /\ HeaderOut' = HeaderOut
      /\ HeaderLast' = HeaderLast
  BY <1>7 DEF HalfOut, MessageOut, HeaderOut, HeaderLast
<1>10. Numbered'
  <2>1. 1 .. (Count + 1) = 1 .. Count \cup {Count + 1}
    BY <1>1
  <2> QED
    BY <1>1, <1>4, <1>7, <1>8, <2>1, Zenon DEF Numbered
<1>11. Ordered'
  BY <1>4, <1>5, <1>6, <1>7, <1>8 DEF Ordered, QueueOrdered
<1>12. SettledFirst' /\ WireFirst'
  <2>1. \A n \in 1 .. Count : Older(n) => Older(n)'
    BY <1>5, <1>7, <1>8 DEF Older
  <2> QED
    BY <1>4, <1>8, <1>9, <2>1 DEF DeliveryInv, SettledFirst, WireFirst
<1>13. Stage' /\ LostWhenDown' /\ WireFramed' /\ CallbackTruthful'
  BY <1>7, <1>8, <1>9 DEF DeliveryInv, Stage, LostWhenDown, CallbackTruthful
<1> QED
  BY <1>1, <1>8, <1>10, <1>11, <1>12, <1>13 DEF DeliveryInv

\* Steps that move no frame, and leave the socket as it is or broken.
LEMMA IdleDelivery ==
  ASSUME SendInv, UNCHANGED <<frames, strand, queue, inflight, wire, resultVars>>,
         up' => up
  PROVE  DeliveryInv' /\ Settled' = Settled /\ Count' = Count
<1> USE DEF SendInv, resultVars
<1>1. /\ Queued' = Queued /\ Posted' = Posted /\ Settled' = Settled
      /\ WireFrames' = WireFrames /\ OnWire' = OnWire
      /\ MessageLast' = MessageLast /\ WireFramed' = WireFramed
      /\ Chain' = Chain /\ Count' = Count
  BY WireKept DEF Queued, Posted, EnqueueTasks, Settled, Chain, ChainTasks, Count
<1>2. /\ HalfOut' = HalfOut /\ MessageOut' = MessageOut /\ HeaderOut' = HeaderOut
      /\ HeaderLast' = HeaderLast
  BY <1>1 DEF HalfOut, MessageOut, HeaderOut, HeaderLast
<1>3. Numbered' /\ Ordered'
  BY <1>1 DEF DeliveryInv, Numbered, Ordered, QueueOrdered, StrandOrdered, EnqueueTasks
<1>4. SettledFirst' /\ WireFirst'
  BY <1>1, <1>2 DEF DeliveryInv, SettledFirst, WireFirst, Older
<1>5. Stage' /\ LostWhenDown' /\ CallbackTruthful'
  BY <1>1, <1>2 DEF DeliveryInv, Stage, LostWhenDown, CallbackTruthful
<1> QED
  BY <1>1, <1>3, <1>4, <1>5 DEF DeliveryInv

\* A frame goes from the strand to the end of the queue.
LEMMA EnqueueDelivery ==
  ASSUME SendInv, RunEnqueue
  PROVE  DeliveryInv' /\ Settled' = Settled /\ Count' = Count
<1> USE DEF SendInv, resultVars, callVars
<1> DEFINE n == Head(strand).frame
<1>1. /\ strand # <<>> /\ Head(strand).run = "enqueue"
      /\ queue' = Append(queue, n)
      /\ IF Len(queue') = 1 THEN SendFromQueue ELSE Return
      /\ UNCHANGED <<frames, inflight, wire, up, acked, failed, dropped>>
  BY DEF RunEnqueue, Running
<1>2. Return \/ SendFromQueue
  BY <1>1
<1>3. Ordered /\ StrandOrdered
  BY DEF DeliveryInv, Ordered
<1>4. /\ Head(strand) \in Task
      /\ Posted = Posted' \cup {n}
      /\ \A p \in Posted' : n < p
      /\ Return => Chain' = Chain
      /\ SendFromQueue => Chain' = Chain \cup {Start}
      /\ StrandOrdered'
  BY <1>1, <1>2, <1>3, ReturnSets
<1>5. n \in Nat
  BY <1>4, TaskTypes
<1>6. queue \in Seq(Nat)
  BY SetTypes
<1>7. \A q \in Queued : q < n
  BY <1>3, <1>4 DEF Ordered
<1> HIDE DEF n
<1>8. /\ Queued' = Queued \cup {n}
      /\ queue' # <<>>
      /\ queue # <<>> => queue'[1] = queue[1]
      /\ QueueOrdered'
  BY <1>1, <1>3, <1>5, <1>6, <1>7, EnqueueSets DEF Ordered
<1>9. /\ Settled' = Settled /\ WireFrames' = WireFrames /\ OnWire' = OnWire
      /\ MessageLast' = MessageLast /\ WireFramed' = WireFramed /\ Count' = Count
  BY <1>1, WireKept DEF Settled, Count
<1>10. /\ HalfOut' = HalfOut /\ MessageOut' = MessageOut /\ HeaderOut' = HeaderOut
       /\ \A t \in Chain' : t \in Chain \/ t.ok
       /\ queue = <<>> => ~HalfOut /\ ~MessageOut /\ ~HeaderOut
  <2>1. Chain' = Chain \/ Chain' = Chain \cup {Start}
    BY <1>2, <1>4
  <2>2. Start.run = "start" /\ Start.ok
    BY DEF Start
  <2> QED
    BY <1>1, <2>1, <2>2, EmptyQueue DEF HalfOut, MessageOut, HeaderOut
<1>11. Numbered'
  BY <1>4, <1>8, <1>9 DEF DeliveryInv, Numbered
<1>12. Ordered'
  BY <1>3, <1>4, <1>8 DEF Ordered
<1>13. \A m : Older(m) => Older(m)'
  BY <1>4, <1>8 DEF Older
<1>14. SettledFirst' /\ WireFirst'
  BY <1>8, <1>9, <1>10, <1>13 DEF DeliveryInv, SettledFirst, WireFirst
<1>15. Stage'
  BY <1>1, <1>8, <1>9, <1>10 DEF DeliveryInv, Stage, HeaderLast
<1>16. LostWhenDown' /\ CallbackTruthful'
  BY <1>1, <1>9 DEF DeliveryInv, LostWhenDown, CallbackTruthful
<1> QED
  BY <1>9, <1>11, <1>12, <1>14, <1>15, <1>16 DEF DeliveryInv

\* The handler of the chain that runs is the chain, and the frame it is about
\* is older than the others.
LEMMA ChainHandler ==
  ASSUME SendInv, strand # <<>>, Head(strand).run # "enqueue"
  PROVE  /\ Return \/ SendFromQueue =>
              /\ Chain = {Head(strand)}
              /\ Return => Chain' = {}
              /\ SendFromQueue => Chain' = {Start}
              /\ Posted' = Posted
              /\ StrandOrdered'
              /\ inflight = <<>>
         /\ queue # <<>> =>
              /\ Head(queue) = queue[1]
              /\ queue[1] \in Queued
              /\ \A q \in Queued : q = queue[1] \/ queue[1] < q
              /\ Queued = {queue[1]} \cup {queue[i] : i \in 2 .. Len(queue)}
<1> USE DEF SendInv
<1>1. QueueOrdered /\ StrandOrdered /\ queue \in Seq(Nat)
  BY SetTypes DEF DeliveryInv, Ordered
<1>2. queue # <<>> =>
              /\ Head(queue) = queue[1]
              /\ queue[1] \in Queued
              /\ \A q \in Queued : q = queue[1] \/ queue[1] < q
              /\ Queued = {queue[1]} \cup {queue[i] : i \in 2 .. Len(queue)}
  BY <1>1, FrontIsOldest
<1>3. ASSUME Return \/ SendFromQueue
      PROVE  /\ Chain = {Head(strand)}
             /\ Return => Chain' = {}
             /\ SendFromQueue => Chain' = {Start}
             /\ Posted' = Posted
             /\ StrandOrdered'
             /\ inflight = <<>>
  BY <1>1, <1>3, ReturnSets, ChainRuns
<1> QED
  BY <1>2, <1>3

\* The next write of the frame at the front begins: nothing is settled by that.
LEMMA WriteDelivery ==
  ASSUME SendInv, strand # <<>>, queue # <<>>, Return,
         UNCHANGED <<frames, queue, wire, up, resultVars>>,
         \/ Head(strand).run = "start" /\ AsyncWrite("header")
         \/ Head(strand).run = "header" /\ Head(strand).ok /\ AsyncWrite("message")
  PROVE  DeliveryInv' /\ Settled' = Settled /\ Count' = Count
<1> USE DEF SendInv, resultVars
<1>1. Head(strand).run # "enqueue"
  OBVIOUS
<1>2. /\ Chain = {Head(strand)} /\ Chain' = {}
      /\ Posted' = Posted /\ StrandOrdered' /\ inflight = <<>>
  BY <1>1, ChainHandler
<1>3. /\ DOMAIN inflight' = {1}
      /\ inflight'[1].part = IF Head(strand).run = "start" THEN "header" ELSE "message"
  BY <1>2, WriteBegins DEF Parts
<1>4. DOMAIN inflight = {}
  BY <1>2
<1>5. /\ Queued' = Queued /\ Settled' = Settled /\ WireFrames' = WireFrames
      /\ OnWire' = OnWire /\ MessageLast' = MessageLast /\ WireFramed' = WireFramed
      /\ Count' = Count
  BY WireKept DEF Queued, Settled, Count
<1>6. /\ HalfOut' = HalfOut /\ ~MessageOut /\ ~MessageOut' /\ HeaderOut' = HeaderOut
      /\ HeaderLast' = HeaderLast
  BY <1>2, <1>3, <1>4 DEF HalfOut, MessageOut, HeaderOut, HeaderLast
<1>7. Numbered' /\ Ordered'
  BY <1>2, <1>5 DEF DeliveryInv, Numbered, Ordered, QueueOrdered
<1>8. SettledFirst' /\ WireFirst'
  BY <1>2, <1>5, <1>6 DEF DeliveryInv, SettledFirst, WireFirst, Older
<1>9. Stage' /\ LostWhenDown' /\ CallbackTruthful'
  BY <1>2, <1>5, <1>6 DEF DeliveryInv, Stage, LostWhenDown, CallbackTruthful
<1> QED
  BY <1>5, <1>7, <1>8, <1>9 DEF DeliveryInv

\* The front frame is reported and the others are dropped: none was delivered.
LEMMA GiveUpDelivery ==
  ASSUME SendInv, strand # <<>>, queue # <<>>, ~Head(strand).ok, GiveUp,
         Head(strand).run \in {"header", "message"}
  PROVE  /\ DeliveryInv'
         /\ Settled \cap Queued = {}
         /\ Settled' = Settled \cup Queued
         /\ Count' = Count
         /\ ~up
         /\ OnWire' = OnWire
         /\ failed' \cup dropped' = failed \cup dropped \cup Queued
<1> USE DEF SendInv, callVars
<1>1. /\ failed' = failed \cup {Head(queue)}
      /\ dropped' = dropped \cup {queue[i] : i \in 2 .. Len(queue)}
      /\ queue' = <<>>
      /\ Return
      /\ UNCHANGED <<frames, inflight, wire, up, acked>>
  BY DEF GiveUp
<1>2. /\ Chain = {Head(strand)} /\ Chain' = {}
      /\ Posted' = Posted /\ StrandOrdered' /\ inflight = <<>>
      /\ Head(queue) = queue[1]
      /\ queue[1] \in Queued
      /\ \A q \in Queued : q = queue[1] \/ queue[1] < q
      /\ Queued = {queue[1]} \cup {queue[i] : i \in 2 .. Len(queue)}
  BY <1>1, ChainHandler
<1>3. /\ OnWire' = OnWire /\ WireFrames' = WireFrames /\ WireFramed' = WireFramed
      /\ MessageLast' = MessageLast /\ Count' = Count
  BY <1>1, WireKept DEF Count
<1>4. DOMAIN inflight' = {} /\ DOMAIN queue' = {}
  BY <1>1, <1>2
<1>5. Queued' = {} /\ ~HalfOut' /\ ~MessageOut' /\ ~HeaderOut' /\ ~MessageOut /\ ~up
  <2>1. Queued' = {}
    BY <1>4 DEF Queued
  <2>2. ~HalfOut' /\ ~MessageOut' /\ ~HeaderOut' /\ ~MessageOut
    BY <1>2, <1>4 DEF HalfOut, MessageOut, HeaderOut
  <2>3. ~up
    BY <1>2 DEF DeliveryInv, Stage
  <2> QED
    BY <2>1, <2>2, <2>3
<1>6. \A m \in Settled : Older(m)
  BY <1>5 DEF DeliveryInv, SettledFirst
<1>7. Settled \cap Queued = {}
  <2>1. \A m \in Nat : ~(m < m)
    OBVIOUS
  <2> QED
    BY <1>6, <2>1, SetTypes DEF Older
<1>8. failed' \cup dropped' = failed \cup dropped \cup Queued
  BY <1>1, <1>2
<1>9. Settled' = Settled \cup Queued
  BY <1>3, <1>8 DEF Settled
<1>10. Numbered'
  BY <1>2, <1>3, <1>5, <1>9 DEF DeliveryInv, Numbered
<1>11. Ordered'
  BY <1>2, <1>4, <1>5 DEF Ordered, QueueOrdered
<1>12. /\ \A q \in Queued : Older(q)'
       /\ \A m : Older(m) => Older(m)'
  BY <1>2, <1>5 DEF DeliveryInv, Ordered, Older
<1>13. SettledFirst' /\ WireFirst'
  BY <1>2, <1>3, <1>6, <1>9, <1>12 DEF DeliveryInv, SettledFirst, WireFirst
<1>14. Stage' /\ LostWhenDown'
  BY <1>1, <1>2, <1>5 DEF Stage, LostWhenDown
<1>15. CallbackTruthful'
  <2>1. acked' \subseteq OnWire' /\ failed \cap dropped = {}
        /\ OnWire \cap (failed \cup dropped) = {}
    BY <1>1, <1>3 DEF DeliveryInv, CallbackTruthful
  <2>2. OnWire' \cap (failed' \cup dropped') = {}
    BY <1>3, <1>7, <1>8, <2>1 DEF Settled
  <2>3. queue[1] \notin {queue[i] : i \in 2 .. Len(queue)}
    <3>1. queue \in Seq(Nat) /\ QueueOrdered
      BY SetTypes DEF DeliveryInv, Ordered
    <3>2. DOMAIN queue = 1 .. Len(queue) /\ Len(queue) \in Nat
          /\ \A i \in 1 .. Len(queue) : queue[i] \in Nat
      BY <3>1, LenProperties, ElementOfSeq
    <3>3. \A i \in 2 .. Len(queue) : queue[1] < queue[i] /\ queue[i] \in Nat
      BY <3>1, <3>2 DEF QueueOrdered
    <3>4. \A i \in 2 .. Len(queue) : queue[1] # queue[i]
      BY <3>2, <3>3
    <3> QED
      BY <3>4
  <2>4. failed' \cap dropped' = {}
    BY <1>1, <1>2, <1>7, <2>1, <2>3 DEF Settled
  <2> QED
    BY <2>1, <2>2, <2>4 DEF CallbackTruthful
<1> QED
  BY <1>3, <1>5, <1>7, <1>8, <1>9, <1>10, <1>11, <1>13, <1>14, <1>15 DEF DeliveryInv

\* The frame that was written leaves the queue; it has been on the wire already.
LEMMA ReportDelivery ==
  ASSUME SendInv, RunMessageDone, Head(strand).ok
  PROVE  DeliveryInv' /\ Settled' = Settled /\ Count' = Count
<1> USE DEF SendInv, callVars
<1>1. /\ strand # <<>> /\ queue # <<>> /\ Head(strand).run = "message"
      /\ acked' = acked \cup {Head(queue)}
      /\ queue' = Tail(queue)
      /\ Return \/ SendFromQueue
      /\ UNCHANGED <<frames, inflight, wire, up, failed, dropped>>
  BY DEF RunMessageDone, Running
<1>2. /\ Chain = {Head(strand)} /\ Chain' \subseteq {Start}
      /\ Posted' = Posted /\ StrandOrdered' /\ inflight = <<>>
      /\ Head(queue) = queue[1]
      /\ queue[1] \in Queued
      /\ \A q \in Queued : q = queue[1] \/ queue[1] < q
  BY <1>1, ChainHandler
<1>3. Queued' = Queued \ {queue[1]} /\ QueueOrdered'
  BY <1>1, SetTypes, FrontIsOldest DEF DeliveryInv, Ordered
<1>4. /\ OnWire' = OnWire /\ WireFrames' = WireFrames /\ WireFramed' = WireFramed
      /\ MessageLast' = MessageLast /\ Settled' = Settled /\ Count' = Count
  BY <1>1, WireKept DEF Settled, Count
<1>5. /\ MessageOut /\ ~HalfOut /\ ~HalfOut' /\ ~MessageOut' /\ ~HeaderOut'
      /\ \A t \in Chain' : t.ok
  <2>1. DOMAIN inflight = {} /\ DOMAIN inflight' = {}
    BY <1>1, <1>2
  <2>2. Start.run = "start" /\ Start.ok
    BY DEF Start
  <2> QED
    BY <1>1, <1>2, <2>1, <2>2 DEF MessageOut, HalfOut, HeaderOut
<1>6. queue[1] \in OnWire
  BY <1>5 DEF DeliveryInv, Stage
<1>7. \A m : m = queue[1] \/ Older(m) => Older(m)'
  BY <1>2, <1>3 DEF DeliveryInv, Ordered, Older
<1>8. Numbered'
  BY <1>2, <1>3, <1>4, <1>6 DEF DeliveryInv, Numbered, Settled
<1>9. Ordered'
  BY <1>2, <1>3 DEF DeliveryInv, Ordered
<1>10. SettledFirst' /\ WireFirst'
  BY <1>4, <1>7 DEF DeliveryInv, SettledFirst, WireFirst
<1>11. Stage' /\ LostWhenDown'
  BY <1>1, <1>4, <1>5 DEF DeliveryInv, Stage, LostWhenDown
<1>12. CallbackTruthful'
  BY <1>1, <1>2, <1>4, <1>6 DEF DeliveryInv, CallbackTruthful
<1> QED
  BY <1>4, <1>8, <1>9, <1>10, <1>11, <1>12 DEF DeliveryInv

\* A write completes: of the frame at the front, which is delivered when its
\* message was taken.
LEMMA WriteDoneDelivery ==
  ASSUME SendInv, WriteDone
  PROVE  /\ DeliveryInv'
         /\ Count' = Count
         /\ queue # <<>> /\ queue[1] \in Queued
         /\ \A q \in Queued : q = queue[1] \/ queue[1] < q
         /\ ~MessageOut
         /\ OnWire' = OnWire \cup
              (IF up /\ Head(inflight).part = "message" THEN {queue[1]} ELSE {})
<1> USE DEF SendInv, callVars, resultVars
<1> DEFINE w == Head(inflight)
           done == Completed(w.part, up)
<1>1. /\ inflight # <<>>
      /\ wire' = IF up THEN Append(wire, w) ELSE wire
      /\ inflight' = Tail(inflight)
      /\ strand' = Append(strand, done)
      /\ UNCHANGED <<frames, queue, up, acked, failed, dropped>>
  BY DEF WriteDone
<1>2. /\ inflight \in Seq(Write) /\ Len(inflight) = 1 /\ DOMAIN inflight = {1}
      /\ w = inflight[1] /\ w \in Write
      /\ inflight' = <<>> /\ DOMAIN inflight' = {}
  <2>1. /\ inflight \in Seq(Write) /\ Len(inflight) \in Nat \ {0}
        /\ Len(inflight) <= 1 /\ DOMAIN inflight = 1 .. Len(inflight)
    BY <1>1, EmptySeq, LenProperties DEF TypeOK, OneChain
  <2>2. Len(inflight) = 1
    BY <2>1
  <2>3. /\ Tail(inflight) \in Seq(Write) /\ Len(Tail(inflight)) = 0
        /\ w = inflight[1] /\ w \in Write
    BY <1>1, <2>1, <2>2, TailFacts
  <2>4. Tail(inflight) = <<>>
    BY <2>3, EmptySeq
  <2> QED
    BY <1>1, <2>1, <2>2, <2>3, <2>4
<1>3. queue # <<>> /\ w.frame = queue[1] /\ w.part \in {"header", "message"}
  BY <1>2, WriteTypes DEF BufferAlive, Parts
<1>4. Chain = {}
  BY <1>1 DEF OneChain, Chain
<1>5. done \in Task /\ done.run = w.part /\ done.ok = up
  BY <1>3, TaskTypes DEF Completed, TypeOK, Parts
<1>6. /\ queue[1] \in Queued
      /\ \A q \in Queued : q = queue[1] \/ queue[1] < q
  BY <1>3, SetTypes, FrontIsOldest DEF DeliveryInv, Ordered
<1> HIDE DEF w, done
<1>7. /\ Posted' = Posted /\ Chain' = {done} /\ StrandOrdered'
      /\ Queued' = Queued /\ Count' = Count
  BY <1>1, <1>3, <1>4, <1>5, PostSets DEF DeliveryInv, Ordered, Queued, Count
<1>8. \A m : Older(m)' = Older(m)
  BY <1>7 DEF Older
<1>9. Ordered' /\ LostWhenDown'
  BY <1>1, <1>7 DEF DeliveryInv, Ordered, QueueOrdered, LostWhenDown
<1>10. /\ ~MessageOut
       /\ HalfOut <=> w.part = "message"
       /\ HeaderOut <=> w.part = "message"
       /\ HalfOut' <=> w.part = "header" /\ up
       /\ MessageOut' <=> w.part = "message" /\ up
       /\ HeaderOut' <=> w.part = "message" \/ up
  BY <1>2, <1>3, <1>4, <1>5, <1>7 DEF MessageOut, HalfOut, HeaderOut
<1>11. \A m \in Settled : Older(m)
  BY <1>10 DEF DeliveryInv, SettledFirst
<1>12. CASE ~up
  <2>1. wire' = wire
    BY <1>1, <1>12
  <2>2. /\ OnWire' = OnWire /\ WireFrames' = WireFrames /\ WireFramed' = WireFramed
        /\ Settled' = Settled
    BY <1>1, <2>1, WireKept DEF Settled
  <2>3. Numbered'
    BY <1>7, <2>2 DEF DeliveryInv, Numbered
  <2>4. SettledFirst' /\ WireFirst'
    BY <1>1, <1>8, <1>10, <1>11, <1>12, <2>2 DEF DeliveryInv, SettledFirst, WireFirst
  <2>5. Stage' /\ CallbackTruthful'
    BY <1>1, <1>10, <1>12, <2>2 DEF DeliveryInv, Stage, CallbackTruthful
  <2> QED
    BY <1>3, <1>6, <1>7, <1>9, <1>10, <1>12, <2>2, <2>3, <2>4, <2>5 DEF DeliveryInv
<1>13. CASE up
  <2>1. wire' = Append(wire, w) /\ wire \in Seq(Write) /\ w \in Write
    BY <1>1, <1>2, <1>13, SetTypes
  <2>2. /\ WireFrames' = WireFrames \cup {queue[1]}
        /\ OnWire' = OnWire \cup (IF w.part = "message" THEN {queue[1]} ELSE {})
        /\ wire' # <<>>
        /\ wire'[Len(wire')] = w
    BY <1>3, <2>1, WireSets
  <2>3. failed = {} /\ dropped = {}
    BY <1>13 DEF DeliveryInv, LostWhenDown
  <2>4. WireFramed'
    <3>1. CASE w.part = "header"
      <4>1. MessageLast
        BY <1>10, <1>13, <3>1 DEF DeliveryInv, Stage
      <4>2. \A n \in WireFrames : n < w.frame
        BY <1>3, <1>6, <1>10, <3>1 DEF DeliveryInv, WireFirst, Older
      <4> QED
        BY <2>1, <3>1, <4>1, <4>2, WireSets DEF DeliveryInv
    <3>2. CASE w.part = "message"
      <4>1. wire # <<>> /\ wire[Len(wire)] = [part |-> "header", frame |-> w.frame]
        BY <1>3, <1>10, <1>13, <3>2 DEF DeliveryInv, Stage, HeaderLast
      <4>2. \A n \in OnWire : n < w.frame
        BY <1>3, <1>6, <1>11 DEF Settled, Older
      <4> QED
        BY <2>1, <3>2, <4>1, <4>2, WireSets DEF DeliveryInv
    <3> QED
      BY <1>3, <3>1, <3>2
  <2>5. Settled' = Settled \cup (IF w.part = "message" THEN {queue[1]} ELSE {})
    BY <1>1, <2>2 DEF Settled
  <2>6. Numbered'
    BY <1>6, <1>7, <2>2, <2>5 DEF DeliveryInv, Numbered
  <2>7. SettledFirst'
    BY <1>1, <1>3, <1>8, <1>10, <1>11, <1>13, <2>5 DEF SettledFirst
  <2>8. WireFirst'
    BY <1>1, <1>3, <1>8, <1>10, <1>13, <2>2 DEF DeliveryInv, WireFirst
  <2>9. Stage'
    <3>1. w.part = "header" => w = [part |-> "header", frame |-> queue[1]]
      BY <1>2, <1>3 DEF Write
    <3>2. HalfOut' => HeaderLast'
      BY <1>1, <1>10, <2>2, <3>1 DEF HeaderLast
    <3>3. ~HalfOut' => MessageLast'
      BY <1>3, <1>10, <1>13, <2>2 DEF MessageLast
    <3>4. MessageOut' => queue'[1] \in OnWire'
      BY <1>1, <1>10, <2>2
    <3> QED
      BY <1>1, <1>5, <1>7, <1>13, <3>2, <3>3, <3>4 DEF Stage
  <2>10. CallbackTruthful'
    BY <1>1, <2>2, <2>3 DEF DeliveryInv, CallbackTruthful
  <2> QED
    BY <1>3, <1>6, <1>7, <1>9, <1>10, <1>13, <2>2, <2>4, <2>6, <2>7, <2>8, <2>9, <2>10
       DEF DeliveryInv, w
<1> QED
  BY <1>12, <1>13

\* DeliveryInv is inductive together with the types and the place of the chain.
LEMMA NextDeliveryInv == SendInv /\ [Next]_vars => DeliveryInv'
<1> SUFFICES ASSUME SendInv, [Next]_vars PROVE DeliveryInv'
  OBVIOUS
<1>1. ASSUME NEW t \in Threads, Send(t) PROVE DeliveryInv'
  BY <1>1, PostDelivery DEF Send, Kinds
<1>2. ASSUME NEW t \in Closers, SendCloseLoad(t) PROVE DeliveryInv'
  BY <1>2, IdleDelivery DEF SendCloseLoad
<1>3. ASSUME NEW t \in Closers, SendCloseStore(t) PROVE DeliveryInv'
  BY <1>3, PostDelivery DEF SendCloseStore, Kinds
<1>4. CASE RunEnqueue
  BY <1>4, EnqueueDelivery
<1>5. CASE RunStart
  BY <1>5, WriteDelivery DEF RunStart, Running, callVars
<1>6. CASE RunHeaderDone
  BY <1>6, WriteDelivery, GiveUpDelivery DEF RunHeaderDone, Running, callVars
<1>7. CASE RunMessageDone
  BY <1>7, ReportDelivery, GiveUpDelivery DEF RunMessageDone, Running
<1>8. CASE WriteDone
  BY <1>8, WriteDoneDelivery
<1>9. CASE Break
  BY <1>9, IdleDelivery DEF Break, callVars
<1>10. CASE UNCHANGED vars
  BY <1>10, IdleDelivery DEF vars, resultVars
<1> QED
  BY <1>1, <1>2, <1>3, <1>4, <1>5, <1>6, <1>7, <1>8, <1>9, <1>10
     DEF Next, RunStrand

\* The invariant holds in every reachable state.
LEMMA SendInvariant == Spec => []SendInv
<1>1. Init => SendInv
  BY InitTypeOK, InitOneChain, InitDeliveryInv DEF SendInv
<1>2. SendInv /\ [Next]_vars => SendInv'
  BY NextTypeOK, NextOneChain, NextDeliveryInv DEF SendInv
<1> QED
  BY <1>1, <1>2, PTL DEF Spec

\* What the peer reads is whole frames, each header with its own message, in the
\* order of the calls of send, however the writes and the posts interleave.
THEOREM FramesAreWhole == Spec => []WireFramed
<1>1. SendInv => WireFramed
  BY DEF SendInv, DeliveryInv
<1> QED
  BY <1>1, SendInvariant, PTL

\* A callback is given success only for a frame that was written in full, and an
\* error, or nothing, only for one that was not.
THEOREM CallbacksTellTheTruth == Spec => []CallbackTruthful
<1>1. SendInv => CallbackTruthful
  BY DEF SendInv, DeliveryInv
<1> QED
  BY <1>1, SendInvariant, PTL

\* No frame is forgotten: it is on its way, delivered, or given up.
THEOREM NoFrameForgotten ==
  Spec => [](\A n \in 1 .. Len(frames) :
               n \in OnWire \cup failed \cup dropped \cup Queued \cup Posted)
<1>1. SendInv => \A n \in 1 .. Len(frames) :
                   n \in OnWire \cup failed \cup dropped \cup Queued \cup Posted
  BY DEF SendInv, DeliveryInv, Numbered, Settled, Count
<1> QED
  BY <1>1, SendInvariant, PTL

--------------------------------------------------------------------------------
(* The refinement of OrderedDelivery *)

\* What OrderedDelivery calls outstanding is on the strand or in the queue.
LEMMA OutstandingFrames ==
  ASSUME SendInv
  PROVE  /\ Delivery!Outstanding = (1 .. Count) \ Settled
         /\ Delivery!Outstanding \subseteq Queued \cup Posted
<1>1. Delivery!Outstanding = (1 .. Count) \ Settled
  BY DEF Delivery!Outstanding, Settled, Count
<1>2. 1 .. Count \subseteq Settled \cup Queued \cup Posted
  BY DEF SendInv, DeliveryInv, Numbered
<1> QED
  BY <1>1, <1>2

\* A post is an Accept.
LEMMA PostIsAccept ==
  ASSUME SendInv, NEW kind \in Kinds, Post(kind),
         UNCHANGED <<queue, inflight, wire, up, resultVars>>
  PROVE  Delivery!Next
<1>1. Len(frames)' = Len(frames) + 1
  BY PostDelivery DEF Count
<1>2. OnWire' = OnWire
  BY WireKept
<1> QED
  BY <1>1, <1>2 DEF Delivery!Next, Delivery!Accept, resultVars

\* A completed message is a Deliver: the frame at the front is the oldest.
LEMMA WriteDoneDelivers ==
  ASSUME SendInv, WriteDone
  PROVE  Delivery!Next \/ UNCHANGED Delivery!vars
<1>1. /\ Count' = Count
      /\ queue # <<>> /\ queue[1] \in Queued
      /\ \A q \in Queued : q = queue[1] \/ queue[1] < q
      /\ ~MessageOut
      /\ OnWire' = OnWire \cup
           (IF up /\ Head(inflight).part = "message" THEN {queue[1]} ELSE {})
  BY WriteDoneDelivery
<1>2. UNCHANGED <<up, failed, dropped>> /\ Len(frames)' = Len(frames)
  BY DEF WriteDone, callVars, resultVars
<1>3. CASE up /\ Head(inflight).part = "message"
  <2>1. queue[1] \in 1 .. Count /\ queue[1] \in Nat
    BY <1>1, SetTypes DEF SendInv, DeliveryInv, Numbered
  <2>2. queue[1] \notin Settled
    <3>1. \A m \in Settled : Older(m)
      BY <1>1 DEF SendInv, DeliveryInv, SettledFirst
    <3>2. ~(queue[1] < queue[1])
      BY <2>1
    <3> QED
      BY <1>1, <3>1, <3>2 DEF Older
  <2>3. \A p \in Posted : queue[1] < p
    BY <1>1 DEF SendInv, DeliveryInv, Ordered
  <2>4. \A m \in Delivery!Outstanding : queue[1] <= m
    <3>1. Queued \subseteq Nat /\ Posted \subseteq Nat
      BY SetTypes DEF SendInv
    <3>2. \A m \in Queued \cup Posted : queue[1] <= m
      BY <1>1, <2>1, <2>3, <3>1
    <3> QED
      BY <3>2, OutstandingFrames
  <2>5. queue[1] \in Delivery!Outstanding
    BY <2>1, <2>2, OutstandingFrames
  <2>6. Delivery!Deliver
    BY <1>1, <1>2, <1>3, <2>4, <2>5 DEF Delivery!Deliver
  <2> QED
    BY <2>6 DEF Delivery!Next
<1>4. CASE ~(up /\ Head(inflight).part = "message")
  BY <1>1, <1>2, <1>4 DEF Delivery!vars
<1> QED
  BY <1>3, <1>4

\* A failed write is a Lose: of all frames in the queue, which are the oldest.
LEMMA GiveUpLoses ==
  ASSUME SendInv, strand # <<>>, queue # <<>>, ~Head(strand).ok, GiveUp,
         Head(strand).run \in {"header", "message"}
  PROVE  Delivery!Next
<1>1. /\ Settled \cap Queued = {}
      /\ Count' = Count
      /\ ~up
      /\ OnWire' = OnWire
      /\ failed' \cup dropped' = failed \cup dropped \cup Queued
  BY GiveUpDelivery
<1>2. UNCHANGED <<frames, up>>
  BY DEF GiveUp, callVars
<1>3. Queued \in SUBSET Delivery!Outstanding
  BY <1>1, OutstandingFrames DEF SendInv, DeliveryInv, Numbered
<1>4. Queued # {}
  BY ChainHandler
<1>5. \A s \in Queued, m \in Delivery!Outstanding \ Queued : s < m
  BY OutstandingFrames DEF SendInv, DeliveryInv, Ordered
<1>6. Delivery!Lose
  BY <1>1, <1>2, <1>3, <1>4, <1>5 DEF Delivery!Lose
<1> QED
  BY <1>6 DEF Delivery!Next

\* Every step of the send path is one of OrderedDelivery, or changes nothing there.
LEMMA NextDelivers ==
  SendInv /\ [Next]_vars => Delivery!Next \/ UNCHANGED Delivery!vars
<1> SUFFICES ASSUME SendInv, [Next]_vars
             PROVE  Delivery!Next \/ UNCHANGED Delivery!vars
  OBVIOUS
<1>1. ASSUME NEW t \in Threads, Send(t) PROVE Delivery!Next
  BY <1>1, PostIsAccept DEF Send, Kinds
<1>2. ASSUME NEW t \in Closers, SendCloseStore(t) PROVE Delivery!Next
  BY <1>2, PostIsAccept DEF SendCloseStore, Kinds
<1>3. ASSUME UNCHANGED <<frames, wire, up, failed, dropped>>
      PROVE  UNCHANGED Delivery!vars
  BY <1>3, WireKept DEF Delivery!vars
<1>4. ASSUME NEW t \in Closers, SendCloseLoad(t) PROVE UNCHANGED Delivery!vars
  BY <1>3, <1>4 DEF SendCloseLoad, resultVars
<1>5. CASE RunEnqueue \/ RunStart
  BY <1>3, <1>5 DEF RunEnqueue, RunStart, callVars, resultVars
<1>6. CASE RunHeaderDone
  <2>1. CASE Head(strand).ok
    BY <1>3, <1>6, <2>1 DEF RunHeaderDone, callVars, resultVars
  <2>2. CASE ~Head(strand).ok
    BY <1>6, <2>2, GiveUpLoses DEF RunHeaderDone, Running
  <2> QED
    BY <2>1, <2>2
<1>7. CASE RunMessageDone
  <2>1. CASE Head(strand).ok
    BY <1>3, <1>7, <2>1 DEF RunMessageDone, callVars
  <2>2. CASE ~Head(strand).ok
    BY <1>7, <2>2, GiveUpLoses DEF RunMessageDone, Running
  <2> QED
    BY <2>1, <2>2
<1>8. CASE WriteDone
  BY <1>8, WriteDoneDelivers
<1>9. CASE Break
  <2>1. OnWire' = OnWire
    BY <1>9, WireKept DEF Break
  <2> QED
    BY <1>9, <2>1 DEF Break, callVars, resultVars, Delivery!Next, Delivery!Cut
<1>10. CASE UNCHANGED vars
  BY <1>3, <1>10 DEF vars
<1> QED
  BY <1>1, <1>2, <1>4, <1>5, <1>6, <1>7, <1>8, <1>9, <1>10 DEF Next, RunStrand

\* The send path delivers frames as OrderedDelivery promises: the oldest one first,
\* each once and whole, and after a failure none.
THEOREM ImplementsDelivery == Spec => DeliverySpec
<1>1. Init => Delivery!Init
  <2> SUFFICES ASSUME Init PROVE Delivery!Init
    OBVIOUS
  <2>1. OnWire = {}
    BY DEF Init, OnWire
  <2>2. Len(frames) = 0
    BY EmptySeq DEF Init
  <2> QED
    BY <2>1, <2>2 DEF Init, Delivery!Init
<1>2. SendInv /\ [Next]_vars => [Delivery!Next]_(Delivery!vars)
  BY NextDelivers
<1> QED
  BY <1>1, <1>2, SendInvariant, PTL DEF Spec, DeliverySpec, Delivery!Spec
================================================================================

---------------------------- MODULE IrcClientProofs ----------------------------
(***************************************************************************)
(* Proofs about IrcClient, for lines and commands of any length and any    *)
(* number of them.  Whatever pieces the stream arrives in, getline neither *)
(* loses nor repeats a cell, and never puts two messages into a line       *)
(* (IrcReader); what is read does not depend on what is written meanwhile; *)
(* and writes that are under way at once keep their commands in order      *)
(* (IrcWriter).                                                            *)
(***************************************************************************)
EXTENDS IrcClient, SequenceFacts, FiniteSetTheorems, WellFoundedInduction, TLAPS

--------------------------------------------------------------------------------
(* Cutting the buffer *)

\* The lines cut from the buffer lie in it.
LEMMA GetlinesType ==
  ASSUME received \in Nat, consumed \in Nat, NEW l \in Getlines
  PROVE  /\ l \in Line
         /\ l.first \in Unread
         /\ l.last \in Unread
         /\ l.first <= l.last
BY DEF Getlines, Line, Unread

\* Every cell of the buffer gets into a line.
LEMMA GetlinesCover ==
  ASSUME received \in Nat, consumed \in Nat, NEW p \in Unread
  PROVE  \E l \in Getlines : p \in l.first .. l.last
<1> DEFINE F == {q \in Unread : q <= p /\ (q = consumed + 1 \/ EndsLine(q - 1))}
           L == {q \in Unread : p <= q /\ (q = received \/ EndsLine(q))}
<1>1. Unread \subseteq 0 .. received /\ Unread \subseteq Nat
  BY DEF Unread
<1>2. consumed + 1 \in F /\ received \in L
  BY DEF Unread
<1>3. PICK f \in F : \A q \in F : q <= f
  <2>1. F \subseteq 0 .. received /\ F # {}
    BY <1>1, <1>2
  <2> HIDE DEF F
  <2> QED
    BY <2>1, GreatestExists
<1>4. PICK e \in L : \A q \in L : e <= q
  <2>1. L \subseteq Nat /\ L # {}
    BY <1>1, <1>2
  <2> HIDE DEF L
  <2> QED
    BY <2>1, LeastExists
<1>5. f \in Nat /\ e \in Nat /\ f <= p /\ p <= e /\ p \in Nat
  BY <1>1, <1>3, <1>4
<1>6. ASSUME NEW q \in f .. (e - 1) PROVE ~EndsLine(q)
  <2>1. q \in Nat /\ f <= q /\ q < e
    BY <1>5
  <2>2. CASE p <= q
    <3>1. q \in Unread
      BY <1>4, <1>5, <2>1, <2>2 DEF Unread
    <3> QED
      BY <1>4, <1>5, <2>1, <2>2, <3>1
  <2>3. CASE q < p
    <3>1. q + 1 \in Unread /\ q + 1 <= p /\ (q + 1) - 1 = q
      BY <1>3, <1>5, <2>1, <2>3 DEF Unread
    <3> QED
      BY <1>3, <1>5, <2>1, <3>1
  <2> QED
    BY <1>5, <2>1, <2>2, <2>3
<1>7. [first |-> f, last |-> e] \in Getlines
  BY <1>3, <1>4, <1>5, <1>6 DEF Getlines
<1> QED
  BY <1>5, <1>7

\* No cell gets into two.
LEMMA GetlinesDisjoint ==
  ASSUME received \in Nat, consumed \in Nat, NEW p \in Nat,
         NEW k \in Getlines, NEW l \in Getlines,
         p \in k.first .. k.last, p \in l.first .. l.last
  PROVE  k = l
<1> DEFINE Types(m) == /\ m.first \in Nat
                       /\ m.last \in Nat
                       /\ consumed + 1 <= m.first
                       /\ m.last <= received
                       /\ m.first <= p
                       /\ p <= m.last
<1>1. Types(k) /\ Types(l)
  BY GetlinesType DEF Unread, Line
<1>2. ASSUME NEW a \in Getlines, NEW b \in Getlines, Types(a), Types(b)
      PROVE  ~(a.first < b.first) /\ ~(a.last < b.last)
  <2>1. /\ b.first = consumed + 1 \/ EndsLine(b.first - 1)
        /\ a.last = received \/ EndsLine(a.last)
        /\ \A q \in a.first .. (a.last - 1) : ~EndsLine(q)
        /\ \A q \in b.first .. (b.last - 1) : ~EndsLine(q)
    BY DEF Getlines
  <2>2. ~(a.first < b.first)
    <3> SUFFICES ASSUME a.first < b.first PROVE FALSE
      OBVIOUS
    <3>1. b.first - 1 \in a.first .. (a.last - 1)
      BY <1>2
    <3>2. b.first # consumed + 1
      BY <1>2
    <3> QED
      BY <2>1, <3>1, <3>2
  <2>3. ~(a.last < b.last)
    <3> SUFFICES ASSUME a.last < b.last PROVE FALSE
      OBVIOUS
    <3>1. a.last \in b.first .. (b.last - 1)
      BY <1>2
    <3>2. a.last # received
      BY <1>2
    <3> QED
      BY <2>1, <3>1, <3>2
  <2> QED
    BY <2>2, <2>3
<1>3. k.first = l.first /\ k.last = l.last
  <2>1. ~(k.first < l.first) /\ ~(l.first < k.first) /\ ~(k.last < l.last) /\ ~(l.last < k.last)
    BY <1>1, <1>2
  <2> QED
    BY <1>1, <2>1
<1> QED
  BY <1>3, GetlinesType DEF Line

--------------------------------------------------------------------------------
(* The invariant of the reader *)

\* The bounds of the lines, with those TypeOK leaves out.
Bounds ==
  \A l \in lines : l.first \in Nat \ {0} /\ l.last \in Nat /\ l.first <= l.last /\ l.last <= consumed

\* Every consumed cell is in a line, and in one.
Partition ==
  /\ \A p \in 1 .. consumed : \E l \in lines : p \in l.first .. l.last
  /\ \A p \in 1 .. consumed, k, l \in lines :
       p \in k.first .. k.last /\ p \in l.first .. l.last => k = l

IInv == TypeOK /\ Bounds /\ Partition /\ OneMessagePerLine

\* Nothing is consumed at first.
LEMMA InitIInv == Init => IInv
BY DEF Init, IInv, TypeOK, Bounds, Partition, OneMessagePerLine

\* The handler hands over the lines of the buffer.
LEMMA HandleIInv ==
  ASSUME IInv, Handle
  PROVE  IInv'
<1>1. /\ received \in Nat
      /\ consumed \in Nat
      /\ consumed <= received
      /\ lines \subseteq Line
  BY DEF IInv, TypeOK
<1>2. /\ consumed' = received
      /\ received' = received
      /\ lines' = lines \cup Getlines
      /\ UNCHANGED <<reading, open>>
  BY DEF Handle
<1>3. \A l \in Getlines : /\ l \in Line
                          /\ l.first \in (consumed + 1) .. received
                          /\ l.last \in (consumed + 1) .. received
                          /\ l.first <= l.last
  BY <1>1, GetlinesType DEF Unread
<1>4. TypeOK'
  BY <1>1, <1>2, <1>3 DEF IInv, TypeOK
<1>5. Bounds'
  BY <1>1, <1>2, <1>3 DEF IInv, Bounds
<1>6. OneMessagePerLine'
  <2>1. \A l \in Getlines : \A p \in l.first .. (l.last - 1) : ~EndsLine(p)
    BY DEF Getlines
  <2> QED
    BY <1>2, <2>1 DEF IInv, OneMessagePerLine, EndsLine
<1>7. ASSUME NEW p \in 1 .. received, p <= consumed
      PROVE  /\ \E l \in lines' : p \in l.first .. l.last
             /\ \A k, l \in lines' : p \in k.first .. k.last /\ p \in l.first .. l.last => k = l
  <2>1. p \in 1 .. consumed
    BY <1>1, <1>7
  <2>2. \A l \in Getlines : p \notin l.first .. l.last
    BY <1>1, <1>3, <1>7
  <2> QED
    BY <1>2, <2>1, <2>2 DEF IInv, Partition
<1>8. ASSUME NEW p \in 1 .. received, ~(p <= consumed)
      PROVE  /\ \E l \in lines' : p \in l.first .. l.last
             /\ \A k, l \in lines' : p \in k.first .. k.last /\ p \in l.first .. l.last => k = l
  <2>1. p \in Unread /\ p \in Nat
    BY <1>1, <1>8 DEF Unread
  <2>2. \A l \in lines : p \notin l.first .. l.last
    BY <1>1, <1>8 DEF IInv, Bounds
  <2>3. \E l \in Getlines : p \in l.first .. l.last
    BY <1>1, <2>1, GetlinesCover
  <2>4. \A k, l \in Getlines : p \in k.first .. k.last /\ p \in l.first .. l.last => k = l
    BY <1>1, <2>1, GetlinesDisjoint
  <2> QED
    BY <1>2, <2>2, <2>3, <2>4
<1>9. Partition'
  BY <1>2, <1>7, <1>8 DEF Partition
<1> QED
  BY <1>4, <1>5, <1>6, <1>9 DEF IInv

\* IInv is inductive.
LEMMA NextIInv == IInv /\ [Next]_vars => IInv'
<1> SUFFICES ASSUME IInv, [Next]_vars PROVE IInv'
  OBVIOUS
<1>1. ASSUME NEW n \in 1 .. (MaxMessages * LineLength), Arrive(n) PROVE IInv'
  <2>1. received' \in Nat /\ consumed <= received'
    BY <1>1, ReaderAssumption DEF Arrive, IInv, TypeOK
  <2> QED
    BY <1>1, <2>1 DEF Arrive, IInv, TypeOK, Bounds, Partition, OneMessagePerLine, EndsLine
<1>2. CASE Handle
  BY <1>2, HandleIInv
<1>3. CASE ReadFails \/ Close \/ UNCHANGED vars
  BY <1>3 DEF ReadFails, Close, vars, IInv, TypeOK, Bounds, Partition, OneMessagePerLine,
              EndsLine
<1> QED
  BY <1>1, <1>2, <1>3 DEF Next

--------------------------------------------------------------------------------
(* What the lines of a reader are *)

\* A set with exactly one element that has a property has one such element.
LEMMA PartitionCounts == IInv => LinesPartition
<1> SUFFICES ASSUME IInv PROVE LinesPartition
  OBVIOUS
<1>1. ASSUME NEW p \in 1 .. consumed
      PROVE  Cardinality({l \in lines : p \in l.first .. l.last}) = 1
  <2>1. PICK l \in lines : p \in l.first .. l.last
    BY DEF IInv, Partition
  <2>2. {k \in lines : p \in k.first .. k.last} = {l}
    BY <2>1 DEF IInv, Partition
  <2> QED
    BY <2>2, FS_Singleton
<1> QED
  BY <1>1 DEF IInv, Bounds, LinesPartition

\* The lines handed over are the stream, cut: no cell lost, none twice.
THEOREM StreamIsPartitioned == Spec => [](TypeOK /\ LinesPartition)
<1>1. IInv => TypeOK /\ LinesPartition
  BY PartitionCounts DEF IInv
<1> QED
  BY <1>1, InitIInv, NextIInv, PTL DEF Spec

\* No line is made of two messages.
THEOREM MessagesStayApart == Spec => []OneMessagePerLine
<1>1. IInv => OneMessagePerLine
  BY DEF IInv
<1> QED
  BY <1>1, InitIInv, NextIInv, PTL DEF Spec

--------------------------------------------------------------------------------
(* A connection is a reader *)

\* Every step of a connection is one of the reader, or leaves it alone.
THEOREM ClientReads == ClientSpec => Spec
<1>1. ClientInit => Init
  BY DEF ClientInit
<1>2. [ClientNext]_clientVars => [Next]_vars
  <2>1. ReadSome => Next
    BY DEF ReadSome, Next
  <2>2. HandleLines => Next
    BY DEF HandleLines, Next
  <2>3. ReadEnds => Next
    BY DEF ReadEnds, Next
  <2>4. Ends => Next
    BY DEF Ends, Next
  <2>5. WriteSome \/ WriteFails \/ WriteHandler => UNCHANGED vars
    BY DEF WriteSome, WriteFails, WriteHandler
  <2>6. UNCHANGED clientVars => UNCHANGED vars
    BY DEF clientVars
  <2> QED
    BY <2>1, <2>2, <2>3, <2>4, <2>5, <2>6 DEF ClientNext
<1> QED
  BY <1>1, <1>2, PTL DEF ClientSpec, Spec

\* However the answers are written, the lines a connection hands over partition
\* what it has read, and none is made of two messages.
THEOREM ClientLines == ClientSpec => [](LinesPartition /\ OneMessagePerLine)
  BY ClientReads, StreamIsPartitioned, MessagesStayApart, PTL

--------------------------------------------------------------------------------
(* The order of the parts on the wire *)

Op == [command : Nat, from : Nat \ {0}]
Handler == [command : Nat, from : Nat \ {0}, ok : BOOLEAN]
WirePart == [command : Nat, part : Nat \ {0}]

\* Part p of command c is on the wire.
OnWire(c, p) == \E i \in DOMAIN wire : wire[i] = [command |-> c, part |-> p]

\* The operation goes on where what is on the wire of its command ends.
Continues(op) == \A p \in Nat \ {0} : OnWire(op.command, p) <=> p < op.from

WriterTypes ==
  /\ sent \in Nat
  /\ waiting \in Seq(Op)
  /\ handlers \in Seq(Handler)
  /\ wire \in Seq(WirePart)
  /\ up \in BOOLEAN
  /\ \A i \in DOMAIN waiting : waiting[i].command \in 1 .. sent
  /\ \A i \in DOMAIN handlers : handlers[i].command \in 1 .. sent

\* A command has one operation or handler at most.
OneOperation ==
  /\ \A i, j \in DOMAIN waiting : waiting[i].command = waiting[j].command => i = j
  /\ \A i, j \in DOMAIN handlers : handlers[i].command = handlers[j].command => i = j
  /\ \A i \in DOMAIN waiting, j \in DOMAIN handlers :
       waiting[i].command # handlers[j].command

\* Every operation continues its command; so would the next one of its write
\* when one was successful, and that one does not begin the command.
AllContinue ==
  /\ \A i \in DOMAIN waiting : Continues(waiting[i])
  /\ \A i \in DOMAIN handlers :
       handlers[i].ok => Continues(handlers[i]) /\ handlers[i].from > 1

\* Nothing of a command is on the wire before it is sent.
NothingEarly == \A i \in DOMAIN wire : wire[i].command \in 1 .. sent

\* The commands not begun wait in the order of the calls, none is passed over.
BeginInOrder ==
  /\ \A i, j \in DOMAIN waiting :
       i < j /\ waiting[i].from = 1 /\ waiting[j].from = 1
         => waiting[i].command < waiting[j].command
  /\ up => \A c \in 1 .. sent :
       \/ OnWire(c, 1)
       \/ \E i \in DOMAIN waiting : waiting[i] = [command |-> c, from |-> 1]

\* A socket that is closed at one end at least does not open again.
ClosedStays == open => up

WriterInv ==
  /\ WriterTypes
  /\ OneOperation
  /\ AllContinue
  /\ NothingEarly
  /\ BeginInOrder
  /\ ClosedStays
  /\ PartsInOrder

--------------------------------------------------------------------------------
(* It is inductive *)

\* PASS and NICK wait, nothing is on the wire.
LEMMA InitWriterInv == ClientInit => WriterInv
<1> SUFFICES ASSUME ClientInit PROVE WriterInv
  OBVIOUS
<1>1. /\ sent = 2 /\ handlers = <<>> /\ wire = <<>> /\ up = TRUE
      /\ waiting = <<[command |-> 1, from |-> 1], [command |-> 2, from |-> 1]>>
  BY DEF ClientInit, Writer!Init, Writer!Begin
<1>2. /\ DOMAIN waiting = 1 .. 2 /\ DOMAIN handlers = {} /\ DOMAIN wire = {}
      /\ waiting[1] = [command |-> 1, from |-> 1]
      /\ waiting[2] = [command |-> 2, from |-> 1]
  BY <1>1
<1>3. waiting \in Seq(Op) /\ handlers \in Seq(Handler) /\ wire \in Seq(WirePart)
  BY <1>1, EmptySeq DEF Op
<1>4. WriterTypes /\ OneOperation /\ NothingEarly
  BY <1>1, <1>2, <1>3 DEF WriterTypes, OneOperation, NothingEarly
<1>5. AllContinue
  BY <1>2 DEF AllContinue, Continues, OnWire
<1>6. BeginInOrder
  <2>1. \A c \in 1 .. sent : \E i \in DOMAIN waiting : waiting[i] = [command |-> c, from |-> 1]
    BY <1>1, <1>2
  <2> QED
    BY <1>2, <2>1 DEF BeginInOrder
<1>7. ClosedStays
  BY <1>1 DEF ClosedStays
<1>8. PartsInOrder
  BY <1>2 DEF PartsInOrder, Writer!PartsInOrder
<1> QED
  BY <1>4, <1>5, <1>6, <1>7, <1>8 DEF WriterInv

\* What the reader does, and a socket that closes, leave the commands alone.
LEMMA SocketWriterInv ==
  ASSUME WriterInv, UNCHANGED <<sent, waiting, handlers, wire>>,
         up' \in BOOLEAN, up' => up, open' => up'
  PROVE  WriterInv'
<1>1. WriterTypes' /\ OneOperation' /\ NothingEarly'
  BY DEF WriterInv, WriterTypes, OneOperation, NothingEarly
<1>2. AllContinue' /\ BeginInOrder'
  BY DEF WriterInv, AllContinue, Continues, BeginInOrder, OnWire
<1>3. ClosedStays' /\ PartsInOrder'
  BY DEF WriterInv, ClosedStays, PartsInOrder, Writer!PartsInOrder, Writer!Before
<1> QED
  BY <1>1, <1>2, <1>3 DEF WriterInv

\* Commands that are sent begin behind all that wait.
LEMMA SendWriterInv ==
  ASSUME WriterInv, NEW n \in Nat, Writer!Send(n), UNCHANGED open
  PROVE  WriterInv'
<1> DEFINE block == [i \in 1 .. n |-> Writer!Begin(sent + i)]
           last == Len(waiting)
<1>1. /\ sent \in Nat /\ waiting \in Seq(Op) /\ last \in Nat
      /\ DOMAIN waiting = 1 .. last
  BY LenProperties DEF WriterInv, WriterTypes
<1>2. /\ sent' = sent + n
      /\ waiting' = waiting \o block
      /\ UNCHANGED <<handlers, wire, up>>
  BY DEF Writer!Send
<1>3. block \in [1 .. n -> Op]
  BY <1>1 DEF Writer!Begin, Op
<1>4. /\ waiting' \in Seq(Op)
      /\ DOMAIN waiting' = 1 .. last + n
      /\ \A i \in 1 .. last : waiting'[i] = waiting[i]
      /\ \A i \in 1 .. n : waiting'[last + i] = block[i]
  <2> HIDE DEF block, last
  <2>1. waiting \in Seq(Op)
    BY <1>1
  <2>2. /\ waiting \o block \in Seq(Op)
        /\ DOMAIN (waiting \o block) = 1 .. Len(waiting) + n
        /\ \A i \in 1 .. Len(waiting) : (waiting \o block)[i] = waiting[i]
        /\ \A i \in 1 .. n : (waiting \o block)[Len(waiting) + i] = block[i]
    BY <1>3, <2>1, ConcatFacts
  <2> QED
    BY <1>2, <2>2 DEF last
<1>5. ASSUME NEW i \in DOMAIN waiting'
      PROVE  \/ i \in DOMAIN waiting /\ waiting'[i] = waiting[i]
             \/ /\ i \in last + 1 .. last + n
                /\ waiting'[i] = [command |-> sent + (i - last), from |-> 1]
  <2>1. CASE i \in 1 .. last
    BY <1>1, <1>4, <2>1
  <2>2. CASE i \notin 1 .. last
    <3>1. i - last \in 1 .. n /\ last + (i - last) = i /\ i \in last + 1 .. last + n
      BY <1>1, <1>4, <2>2
    <3>2. waiting'[i] = block[i - last]
      BY <1>4, <3>1
    <3>3. block[i - last] = [command |-> sent + (i - last), from |-> 1]
      BY <3>1 DEF Writer!Begin
    <3> QED
      BY <3>1, <3>2, <3>3
  <2> QED
    BY <2>1, <2>2
<1> HIDE DEF block
<1>6. /\ \A i \in DOMAIN waiting : waiting[i].command \in 1 .. sent
      /\ \A i \in DOMAIN handlers : handlers[i].command \in 1 .. sent
      /\ \A i \in DOMAIN wire : wire[i].command \in 1 .. sent
  BY DEF WriterInv, WriterTypes, NothingEarly
<1>7. \A c \in 1 .. sent : c \in Nat /\ c <= sent /\ c \in 1 .. sent'
  BY <1>1, <1>2
<1>8. \A i \in DOMAIN waiting' :
        i \notin DOMAIN waiting => /\ waiting'[i].command \in 1 .. sent'
                                   /\ waiting'[i].command > sent
                                   /\ waiting'[i].from = 1
                                   /\ waiting'[i].command = sent + (i - last)
  <2> SUFFICES ASSUME NEW i \in DOMAIN waiting', i \notin DOMAIN waiting
               PROVE  /\ waiting'[i].command \in 1 .. sent'
                      /\ waiting'[i].command > sent
                      /\ waiting'[i].from = 1
                      /\ waiting'[i].command = sent + (i - last)
    OBVIOUS
  <2>1. i - last \in 1 .. n
    BY <1>1, <1>4
  <2>2. waiting'[i].command = sent + (i - last) /\ waiting'[i].from = 1
    BY <1>5
  <2> QED
    BY <1>1, <1>2, <2>1, <2>2
<1>9. WriterTypes'
  BY <1>1, <1>2, <1>4, <1>5, <1>6, <1>7, <1>8, SMTT(30) DEF WriterInv, WriterTypes
<1>10. OneOperation'
  <2>1. ASSUME NEW i \in DOMAIN waiting', NEW j \in DOMAIN waiting',
               waiting'[i].command = waiting'[j].command
        PROVE  i = j
    <3>1. CASE i \in DOMAIN waiting /\ j \in DOMAIN waiting
      BY <1>4, <1>1, <2>1, <3>1 DEF WriterInv, OneOperation
    <3>2. CASE i \notin DOMAIN waiting /\ j \notin DOMAIN waiting
      BY <1>1, <1>4, <1>8, <2>1, <3>2
    <3>3. CASE i \in DOMAIN waiting /\ j \notin DOMAIN waiting
      BY <1>1, <1>5, <1>6, <1>7, <1>8, <2>1, <3>3, SMTT(30)
    <3>4. CASE i \notin DOMAIN waiting /\ j \in DOMAIN waiting
      BY <1>1, <1>5, <1>6, <1>7, <1>8, <2>1, <3>4
    <3> QED
      BY <3>1, <3>2, <3>3, <3>4
  <2>2. ASSUME NEW i \in DOMAIN waiting', NEW j \in DOMAIN handlers
        PROVE  waiting'[i].command # handlers[j].command
    <3>1. CASE i \in DOMAIN waiting
      BY <1>1, <1>4, <3>1 DEF WriterInv, OneOperation
    <3>2. CASE i \notin DOMAIN waiting
      BY <1>1, <1>6, <1>7, <1>8, <3>2
    <3> QED
      BY <3>1, <3>2
  <2> QED
    BY <1>2, <2>1, <2>2 DEF WriterInv, OneOperation
<1>11. AllContinue'
  <2>1. \A c, p : OnWire(c, p)' = OnWire(c, p)
    BY <1>2 DEF OnWire
  <2>2. ASSUME NEW i \in DOMAIN waiting' PROVE Continues(waiting[i])'
    <3>1. CASE i \in DOMAIN waiting
      BY <1>1, <1>4, <2>1, <3>1 DEF WriterInv, AllContinue, Continues
    <3>2. CASE i \notin DOMAIN waiting
      <4>1. \A p \in Nat \ {0} : ~OnWire(waiting'[i].command, p)
        BY <1>1, <1>6, <1>7, <1>8, <3>2 DEF OnWire
      <4> QED
        BY <1>8, <2>1, <3>2, <4>1 DEF Continues
    <3> QED
      BY <3>1, <3>2
  <2>3. ASSUME NEW i \in DOMAIN handlers, handlers[i].ok
        PROVE  Continues(handlers[i])' /\ handlers[i].from > 1
    BY <1>2, <2>1, <2>3 DEF WriterInv, AllContinue, Continues
  <2> QED
    BY <1>2, <2>2, <2>3 DEF AllContinue
<1>12. NothingEarly'
  BY <1>2, <1>6, <1>7 DEF NothingEarly
<1>13. BeginInOrder'
  <2>1. ASSUME NEW i \in DOMAIN waiting', NEW j \in DOMAIN waiting', i < j,
               waiting'[i].from = 1, waiting'[j].from = 1
        PROVE  waiting'[i].command < waiting'[j].command
    <3>1. CASE i \in DOMAIN waiting /\ j \in DOMAIN waiting
      BY <1>1, <1>4, <2>1, <3>1 DEF WriterInv, BeginInOrder
    <3>2. CASE i \notin DOMAIN waiting /\ j \notin DOMAIN waiting
      BY <1>1, <1>4, <1>8, <2>1, <3>2
    <3>3. CASE i \in DOMAIN waiting /\ j \notin DOMAIN waiting
      <4>1. waiting'[i].command <= sent /\ waiting'[i].command \in Nat
        BY <1>1, <1>4, <1>6, <1>7, <3>3
      <4>2. waiting'[j].command > sent /\ waiting'[j].command \in Nat
        BY <1>1, <1>2, <1>8, <3>3
      <4> QED
        BY <1>1, <4>1, <4>2
    <3>4. CASE i \notin DOMAIN waiting /\ j \in DOMAIN waiting
      BY <1>1, <1>4, <2>1, <3>4
    <3> QED
      BY <3>1, <3>2, <3>3, <3>4
  <2>2. ASSUME up', NEW c \in 1 .. sent'
        PROVE  \/ OnWire(c, 1)'
               \/ \E i \in DOMAIN waiting' : waiting'[i] = [command |-> c, from |-> 1]
    <3>1. CASE c \in 1 .. sent
      <4>1. \/ OnWire(c, 1)
            \/ \E i \in DOMAIN waiting : waiting[i] = [command |-> c, from |-> 1]
        BY <1>2, <2>2, <3>1 DEF WriterInv, BeginInOrder
      <4>2. \A i \in DOMAIN waiting : i \in DOMAIN waiting' /\ waiting'[i] = waiting[i]
        BY <1>1, <1>2, <1>4
      <4>3. OnWire(c, 1) => OnWire(c, 1)'
        BY <1>2 DEF OnWire
      <4> QED
        BY <4>1, <4>2, <4>3
    <3>2. CASE c \notin 1 .. sent
      <4>1. c - sent \in 1 .. n /\ sent + (c - sent) = c
        BY <1>1, <1>2, <3>2
      <4>2. waiting'[last + (c - sent)] = block[c - sent] /\ last + (c - sent) \in DOMAIN waiting'
        BY <1>1, <1>4, <4>1
      <4>3. block[c - sent] = [command |-> c, from |-> 1]
        BY <4>1 DEF block, Writer!Begin
      <4> QED
        BY <4>2, <4>3
    <3> QED
      BY <3>1, <3>2
  <2> QED
    BY <2>1, <2>2 DEF BeginInOrder
<1>14. ClosedStays' /\ PartsInOrder'
  BY <1>2 DEF WriterInv, ClosedStays, PartsInOrder, Writer!PartsInOrder, Writer!Before
<1> QED
  BY <1>9, <1>10, <1>11, <1>12, <1>13, <1>14 DEF WriterInv

\* The operation the socket has served, or has ended, leaves for the handlers.
LEMMA OperationEnds ==
  ASSUME WriterInv, waiting # <<>>, NEW h \in Handler, h.command = Head(waiting).command,
         waiting' = Tail(waiting), handlers' = Append(handlers, h), sent' = sent
  PROVE  /\ waiting' \in Seq(Op) /\ handlers' \in Seq(Handler)
         /\ 1 \in DOMAIN waiting /\ waiting[1] = Head(waiting)
         /\ \A i \in DOMAIN waiting' :
              /\ i + 1 \in DOMAIN waiting
              /\ waiting'[i] = waiting[i + 1]
              /\ waiting'[i].command # h.command
         /\ \A i \in DOMAIN waiting :
              i = 1 \/ (i - 1 \in DOMAIN waiting' /\ waiting'[i - 1] = waiting[i])
         /\ \A i \in DOMAIN handlers' :
              \/ /\ i \in DOMAIN handlers
                 /\ handlers'[i] = handlers[i]
                 /\ handlers'[i].command # h.command
              \/ i = Len(handlers) + 1 /\ i \notin DOMAIN handlers /\ handlers'[i] = h
         /\ OneOperation'
         /\ \A i, j \in DOMAIN waiting' :
              i < j /\ waiting'[i].from = 1 /\ waiting'[j].from = 1
                => waiting'[i].command < waiting'[j].command
<1> DEFINE last == Len(waiting)
<1>1. /\ waiting \in Seq(Op) /\ handlers \in Seq(Handler)
      /\ last \in Nat \ {0}
      /\ DOMAIN waiting = 1 .. last
      /\ DOMAIN handlers = 1 .. Len(handlers)
      /\ Len(handlers) \in Nat
  BY LenProperties, EmptySeq DEF WriterInv, WriterTypes
<1>2. /\ waiting' \in Seq(Op)
      /\ DOMAIN waiting' = 1 .. last - 1
      /\ \A i \in 1 .. last - 1 : waiting'[i] = waiting[i + 1]
      /\ waiting[1] = Head(waiting)
  BY <1>1, TailFacts
<1>3. /\ handlers' \in Seq(Handler)
      /\ DOMAIN handlers' = 1 .. Len(handlers) + 1
      /\ \A i \in 1 .. Len(handlers) : handlers'[i] = handlers[i]
      /\ handlers'[Len(handlers) + 1] = h
  BY <1>1, AppendFacts
<1>4. /\ \A i, j \in DOMAIN waiting : waiting[i].command = waiting[j].command => i = j
      /\ \A i, j \in DOMAIN handlers : handlers[i].command = handlers[j].command => i = j
      /\ \A i \in DOMAIN waiting, j \in DOMAIN handlers :
           waiting[i].command # handlers[j].command
  BY DEF WriterInv, OneOperation
<1>5. ASSUME NEW i \in DOMAIN waiting'
      PROVE  /\ i + 1 \in DOMAIN waiting
             /\ waiting'[i] = waiting[i + 1]
             /\ waiting'[i].command # h.command
  <2>1. i \in 1 .. last - 1 /\ i + 1 \in 1 .. last /\ i + 1 # 1
    BY <1>1, <1>2
  <2> QED
    BY <1>1, <1>2, <1>4, <2>1
<1>6. ASSUME NEW i \in DOMAIN waiting, i # 1
      PROVE  i - 1 \in DOMAIN waiting' /\ waiting'[i - 1] = waiting[i]
  <2>1. i - 1 \in 1 .. last - 1 /\ (i - 1) + 1 = i
    BY <1>1, <1>6
  <2> QED
    BY <1>2, <2>1
<1>7. ASSUME NEW i \in DOMAIN handlers'
      PROVE  \/ /\ i \in DOMAIN handlers
                /\ handlers'[i] = handlers[i]
                /\ handlers'[i].command # h.command
             \/ i = Len(handlers) + 1 /\ i \notin DOMAIN handlers /\ handlers'[i] = h
  <2>1. CASE i \in DOMAIN handlers
    BY <1>1, <1>2, <1>3, <1>4, <2>1, SMTT(30)
  <2>2. CASE i \notin DOMAIN handlers
    <3>1. i = Len(handlers) + 1
      BY <1>1, <1>3, <2>2
    <3> QED
      BY <1>3, <2>2, <3>1
  <2> QED
    BY <2>1, <2>2
<1>8. OneOperation'
  <2>1. ASSUME NEW i \in DOMAIN waiting', NEW j \in DOMAIN waiting',
               waiting'[i].command = waiting'[j].command
        PROVE  i = j
    <3>1. i + 1 = j + 1
      BY <1>4, <1>5, <2>1
    <3> QED
      BY <1>1, <1>2, <3>1
  <2>2. ASSUME NEW i \in DOMAIN handlers', NEW j \in DOMAIN handlers',
               handlers'[i].command = handlers'[j].command
        PROVE  i = j
    BY <1>4, <1>7, <2>2
  <2>3. ASSUME NEW i \in DOMAIN waiting', NEW j \in DOMAIN handlers'
        PROVE  waiting'[i].command # handlers'[j].command
    BY <1>4, <1>5, <1>7
  <2> QED
    BY <2>1, <2>2, <2>3 DEF OneOperation
<1>9. ASSUME NEW i \in DOMAIN waiting', NEW j \in DOMAIN waiting', i < j,
             waiting'[i].from = 1, waiting'[j].from = 1
      PROVE  waiting'[i].command < waiting'[j].command
  <2>1. i + 1 < j + 1
    BY <1>1, <1>2, <1>9
  <2> QED
    BY <1>5, <1>9, <2>1 DEF WriterInv, BeginInOrder
<1>10. 1 \in DOMAIN waiting
  BY <1>1
<1> HIDE DEF last
<1> QED
  BY <1>2, <1>3, <1>5, <1>6, <1>7, <1>8, <1>9, <1>10

\* The type of what waits, and where it continues, once an operation has ended.
LEMMA EndKeepsTypes ==
  ASSUME WriterInv, waiting # <<>>, NEW h \in Handler, h.command = Head(waiting).command,
         waiting' = Tail(waiting), handlers' = Append(handlers, h), sent' = sent,
         wire' \in Seq(WirePart), up' = up
  PROVE  WriterTypes'
<1>1. \A i \in DOMAIN waiting' : waiting'[i].command \in 1 .. sent
  BY OperationEnds DEF WriterInv, WriterTypes
<1>2. \A i \in DOMAIN handlers' : handlers'[i].command \in 1 .. sent
  BY OperationEnds DEF WriterInv, WriterTypes
<1>3. waiting' \in Seq(Op) /\ handlers' \in Seq(Handler)
  BY OperationEnds
<1> QED
  BY <1>1, <1>2, <1>3 DEF WriterInv, WriterTypes

\* An operation that fails has put nothing on the wire.
LEMMA FailWriterInv ==
  ASSUME WriterInv, Writer!Fail, UNCHANGED open
  PROVE  WriterInv'
<1> DEFINE h == [command |-> Head(waiting).command, from |-> Head(waiting).from, ok |-> FALSE]
<1>1. /\ waiting # <<>> /\ ~up
      /\ waiting' = Tail(waiting)
      /\ handlers' = Append(handlers, h)
      /\ UNCHANGED <<sent, wire, up>>
  BY DEF Writer!Fail
<1>2. Head(waiting) \in Op
  BY <1>1, TailFacts DEF WriterInv, WriterTypes
<1>3. h \in Handler /\ h.command = Head(waiting).command /\ ~h.ok
  BY <1>2 DEF Op, Handler
<1> HIDE DEF h
<1>4. WriterTypes'
  BY <1>1, <1>3, EndKeepsTypes DEF WriterInv, WriterTypes
<1>5. /\ OneOperation'
      /\ \A i \in DOMAIN waiting' : i + 1 \in DOMAIN waiting /\ waiting'[i] = waiting[i + 1]
      /\ \A i \in DOMAIN handlers' :
           \/ i \in DOMAIN handlers /\ handlers'[i] = handlers[i]
           \/ handlers'[i] = h
      /\ \A i, j \in DOMAIN waiting' :
           i < j /\ waiting'[i].from = 1 /\ waiting'[j].from = 1
             => waiting'[i].command < waiting'[j].command
  BY <1>1, <1>3, OperationEnds
<1>6. AllContinue'
  <2>1. \A c, p : OnWire(c, p)' = OnWire(c, p)
    BY <1>1 DEF OnWire
  <2> QED
    BY <1>3, <1>5, <2>1 DEF WriterInv, AllContinue, Continues
<1>7. BeginInOrder'
  BY <1>1, <1>5 DEF BeginInOrder
<1>8. NothingEarly' /\ ClosedStays' /\ PartsInOrder'
  BY <1>1 DEF WriterInv, NothingEarly, ClosedStays, PartsInOrder, Writer!PartsInOrder,
              Writer!Before
<1> QED
  BY <1>4, <1>5, <1>6, <1>7, <1>8 DEF WriterInv

\* What is left of a command waits again, behind all others.
LEMMA WriteDoneWriterInv ==
  ASSUME WriterInv, Writer!WriteDone, UNCHANGED open
  PROVE  WriterInv'
<1> DEFINE h == Head(handlers)
           rest == [command |-> h.command, from |-> h.from]
           last == Len(waiting)
           left == Len(handlers)
<1>1. /\ handlers # <<>>
      /\ handlers' = Tail(handlers)
      /\ UNCHANGED <<sent, wire, up>>
      /\ \/ Writer!GoesOn(h) /\ waiting' = Append(waiting, rest)
         \/ ~Writer!GoesOn(h) /\ waiting' = waiting
  BY DEF Writer!WriteDone
<1>2. /\ waiting \in Seq(Op) /\ handlers \in Seq(Handler) /\ sent \in Nat
      /\ last \in Nat /\ left \in Nat \ {0}
      /\ DOMAIN waiting = 1 .. last
      /\ DOMAIN handlers = 1 .. left
  BY <1>1, LenProperties, EmptySeq DEF WriterInv, WriterTypes
<1>3. /\ handlers' \in Seq(Handler)
      /\ DOMAIN handlers' = 1 .. left - 1
      /\ \A i \in 1 .. left - 1 : handlers'[i] = handlers[i + 1]
      /\ handlers[1] = h
      /\ h \in Handler
  BY <1>1, <1>2, TailFacts
<1>4. \A i \in DOMAIN handlers' : i + 1 \in DOMAIN handlers /\ handlers'[i] = handlers[i + 1]
  BY <1>2, <1>3
<1>5. /\ 1 \in DOMAIN handlers
      /\ h.command \in 1 .. sent
      /\ \A i \in DOMAIN waiting : waiting[i].command # h.command
      /\ \A i \in DOMAIN handlers' : handlers'[i].command # h.command
  <2>1. 1 \in DOMAIN handlers
    BY <1>2
  <2>2. \A i \in DOMAIN handlers' : i + 1 # 1
    BY <1>2, <1>3
  <2>3. h.command \in 1 .. sent /\ \A i \in DOMAIN waiting : waiting[i].command # h.command
    BY <1>3, <2>1 DEF WriterInv, WriterTypes, OneOperation
  <2>4. \A i \in DOMAIN handlers' : handlers'[i].command # h.command
    BY <1>3, <1>4, <2>1, <2>2 DEF WriterInv, OneOperation
  <2> QED
    BY <2>1, <2>3, <2>4
<1>6. rest \in Op
  BY <1>3 DEF Op, Handler
<1>7. /\ waiting' \in Seq(Op)
      /\ \A i \in DOMAIN waiting' :
           \/ i \in DOMAIN waiting /\ waiting'[i] = waiting[i]
           \/ /\ i \notin DOMAIN waiting /\ i = last + 1
              /\ waiting'[i] = rest
              /\ Writer!GoesOn(h)
      /\ \A i \in DOMAIN waiting : i \in DOMAIN waiting' /\ waiting'[i] = waiting[i]
  <2>1. CASE Writer!GoesOn(h) /\ waiting' = Append(waiting, rest)
    <3>1. /\ waiting' \in Seq(Op)
          /\ DOMAIN waiting' = 1 .. last + 1
          /\ \A i \in 1 .. last : waiting'[i] = waiting[i]
          /\ waiting'[last + 1] = rest
      BY <1>2, <1>6, <2>1, AppendFacts
    <3>2. 1 .. last + 1 = 1 .. last \cup {last + 1} /\ last + 1 \notin 1 .. last
      BY <1>2
    <3> QED
      BY <1>2, <2>1, <3>1, <3>2
  <2>2. CASE waiting' = waiting
    BY <1>2, <2>2
  <2> QED
    BY <1>1, <2>1, <2>2
<1>8. Writer!GoesOn(h) => Continues(h) /\ h.from > 1
  BY <1>3, <1>5 DEF Writer!GoesOn, WriterInv, AllContinue
<1>9. rest.command = h.command /\ rest.from = h.from
  OBVIOUS
<1> HIDE DEF h, rest, last, left
<1>10. WriterTypes'
  BY <1>1, <1>3, <1>4, <1>5, <1>7, <1>9 DEF WriterInv, WriterTypes
<1>11. OneOperation'
  <2>1. \A i, j \in DOMAIN waiting' : waiting'[i].command = waiting'[j].command => i = j
    BY <1>5, <1>7, <1>9 DEF WriterInv, OneOperation
  <2>2. ASSUME NEW i \in DOMAIN handlers', NEW j \in DOMAIN handlers',
               handlers'[i].command = handlers'[j].command
        PROVE  i = j
    <3>1. i + 1 = j + 1
      BY <1>4, <2>2 DEF WriterInv, OneOperation
    <3> QED
      BY <1>2, <1>3, <3>1
  <2>3. \A i \in DOMAIN waiting', j \in DOMAIN handlers' :
          waiting'[i].command # handlers'[j].command
    BY <1>4, <1>5, <1>7, <1>9 DEF WriterInv, OneOperation
  <2> QED
    BY <2>1, <2>2, <2>3 DEF OneOperation
<1>12. AllContinue'
  <2>1. \A c, p : OnWire(c, p)' = OnWire(c, p)
    BY <1>1 DEF OnWire
  <2>2. \A i \in DOMAIN waiting' : Continues(waiting[i])'
    BY <1>7, <1>8, <1>9, <2>1 DEF WriterInv, AllContinue, Continues
  <2>3. \A i \in DOMAIN handlers' :
          handlers'[i].ok => Continues(handlers[i])' /\ handlers'[i].from > 1
    BY <1>4, <2>1 DEF WriterInv, AllContinue, Continues
  <2> QED
    BY <2>2, <2>3 DEF AllContinue
<1>13. BeginInOrder'
  <2>1. ASSUME NEW i \in DOMAIN waiting', NEW j \in DOMAIN waiting', i < j,
               waiting'[i].from = 1, waiting'[j].from = 1
        PROVE  waiting'[i].command < waiting'[j].command
    <3>1. ~(rest.from = 1 /\ Writer!GoesOn(h))
      BY <1>3, <1>8, <1>9 DEF Handler
    <3> QED
      BY <1>7, <2>1, <3>1 DEF WriterInv, BeginInOrder
  <2>2. ASSUME up', NEW c \in 1 .. sent'
        PROVE  \/ OnWire(c, 1)'
               \/ \E i \in DOMAIN waiting' : waiting'[i] = [command |-> c, from |-> 1]
    <3>1. OnWire(c, 1)' = OnWire(c, 1)
      BY <1>1 DEF OnWire
    <3> QED
      BY <1>1, <1>7, <2>2, <3>1 DEF WriterInv, BeginInOrder
  <2> QED
    BY <2>1, <2>2 DEF BeginInOrder
<1>14. NothingEarly' /\ ClosedStays' /\ PartsInOrder'
  BY <1>1 DEF WriterInv, NothingEarly, ClosedStays, PartsInOrder, Writer!PartsInOrder,
              Writer!Before
<1> QED
  BY <1>10, <1>11, <1>12, <1>13, <1>14 DEF WriterInv

\* The operation the socket serves.
LEMMA TransferTypes ==
  ASSUME WriterInv, NEW to \in Nat, Writer!Transfer(to)
  PROVE  /\ Head(waiting).from \in Nat \ {0}
         /\ Head(waiting).command \in Nat
         /\ to >= Head(waiting).from
<1>1. waiting # <<>> /\ to >= Head(waiting).from
  BY DEF Writer!Transfer
<1>2. waiting \in Seq(Op)
  BY DEF WriterInv, WriterTypes
<1>3. Head(waiting) \in Op
  BY <1>1, <1>2, TailFacts
<1> QED
  BY <1>1, <1>3 DEF Op

\* What the socket takes goes on the wire where the command left off.
LEMMA TransferWire ==
  ASSUME WriterInv, NEW to \in Nat, Writer!Transfer(to)
  PROVE  LET op == Head(waiting)
             last == Len(wire)
         IN  /\ wire' \in Seq(WirePart)
             /\ last \in Nat
             /\ \A j \in DOMAIN wire : j <= last /\ j \in DOMAIN wire' /\ wire'[j] = wire[j]
             /\ \A j \in DOMAIN wire' : j \notin DOMAIN wire =>
                  /\ j - last \in 1 .. (to + 1 - op.from)
                  /\ wire'[j] = [command |-> op.command, part |-> op.from + (j - last) - 1]
             /\ \A p \in op.from .. to :
                  /\ last + (p + 1 - op.from) \in DOMAIN wire'
                  /\ wire'[last + (p + 1 - op.from)] = [command |-> op.command, part |-> p]
<1> DEFINE op == Head(waiting)
           last == Len(wire)
           block == [i \in 1 .. (to + 1 - op.from) |->
                       [command |-> op.command, part |-> op.from + i - 1]]
<1>1. wire' = wire \o block
  BY DEF Writer!Transfer
<1>2. wire \in Seq(WirePart)
  BY DEF WriterInv, WriterTypes
<1>3. /\ op.command \in Nat /\ op.from \in Nat \ {0} /\ to + 1 - op.from \in Nat
      /\ last \in Nat /\ DOMAIN wire = 1 .. last
  <2>1. op.from \in Nat \ {0} /\ op.command \in Nat /\ to >= op.from
    BY TransferTypes
  <2> HIDE DEF op
  <2> QED
    BY <1>2, <2>1, LenProperties
<1>4. block \in [1 .. (to + 1 - op.from) -> WirePart]
  BY <1>3 DEF WirePart
<1>5. /\ wire' \in Seq(WirePart)
      /\ DOMAIN wire' = 1 .. last + (to + 1 - op.from)
      /\ \A j \in 1 .. last : wire'[j] = wire[j]
      /\ \A i \in 1 .. (to + 1 - op.from) : wire'[last + i] = block[i]
  <2> DEFINE count == to + 1 - op.from
  <2>1. count \in Nat /\ block \in [1 .. count -> WirePart]
    BY <1>3, <1>4
  <2> HIDE DEF block, count
  <2>2. /\ wire \o block \in Seq(WirePart)
        /\ DOMAIN (wire \o block) = 1 .. Len(wire) + count
        /\ \A i \in 1 .. Len(wire) : (wire \o block)[i] = wire[i]
        /\ \A i \in 1 .. count : (wire \o block)[Len(wire) + i] = block[i]
    BY <1>2, <2>1, ConcatFacts
  <2> QED
    BY <1>1, <2>2 DEF count
<1>6. \A i \in 1 .. (to + 1 - op.from) :
        block[i] = [command |-> op.command, part |-> op.from + i - 1]
  OBVIOUS
<1> HIDE DEF block
<1>7. ASSUME NEW j \in DOMAIN wire', j \notin DOMAIN wire
      PROVE  /\ j - last \in 1 .. (to + 1 - op.from)
             /\ wire'[j] = [command |-> op.command, part |-> op.from + (j - last) - 1]
  <2>1. j - last \in 1 .. (to + 1 - op.from) /\ last + (j - last) = j
    BY <1>3, <1>5, <1>7
  <2> QED
    BY <1>5, <1>6, <2>1
<1>8. ASSUME NEW p \in op.from .. to
      PROVE  /\ last + (p + 1 - op.from) \in DOMAIN wire'
             /\ wire'[last + (p + 1 - op.from)] = [command |-> op.command, part |-> p]
  <2> HIDE DEF op, last
  <2>1. /\ p + 1 - op.from \in 1 .. (to + 1 - op.from)
        /\ op.from + (p + 1 - op.from) - 1 = p
        /\ last + (p + 1 - op.from) \in 1 .. last + (to + 1 - op.from)
    BY <1>3, SMTT(30)
  <2> QED
    BY <1>5, <1>6, <2>1
<1>9. \A j \in DOMAIN wire : j <= last /\ j \in DOMAIN wire' /\ wire'[j] = wire[j]
  BY <1>3, <1>5
<1> QED
  BY <1>3, <1>5, <1>7, <1>8, <1>9

\* So what is on the wire of a command is what was there, and these parts.
LEMMA TransferOnWire ==
  ASSUME WriterInv, NEW to \in Nat, Writer!Transfer(to), NEW c \in Nat, NEW p \in Nat \ {0}
  PROVE  OnWire(c, p)' <=>
           OnWire(c, p) \/ (c = Head(waiting).command /\ p \in Head(waiting).from .. to)
<1> DEFINE op == Head(waiting)
           last == Len(wire)
<1>1. op.from \in Nat /\ op.command \in Nat
  BY TransferTypes
<1>2. last \in Nat
  BY TransferWire
<1>3. ASSUME OnWire(c, p) PROVE OnWire(c, p)'
  BY <1>3, TransferWire DEF OnWire
<1>4. ASSUME c = op.command, p \in op.from .. to PROVE OnWire(c, p)'
  BY <1>4, TransferWire DEF OnWire
<1>5. ASSUME OnWire(c, p)', ~OnWire(c, p) PROVE c = op.command /\ p \in op.from .. to
  <2>1. PICK j \in DOMAIN wire' : wire'[j] = [command |-> c, part |-> p]
    BY <1>5 DEF OnWire
  <2>2. j \notin DOMAIN wire
    BY <1>5, <2>1, TransferWire DEF OnWire
  <2>3. /\ j - last \in 1 .. (to + 1 - op.from)
        /\ [command |-> c, part |-> p] = [command |-> op.command, part |-> op.from + (j - last) - 1]
    BY <2>1, <2>2, TransferWire
  <2>4. c = op.command /\ p = op.from + (j - last) - 1
    BY <2>3
  <2> QED
    BY <1>1, <2>3, <2>4
<1> QED
  BY <1>3, <1>4, <1>5

\* The beginning of a command is put on the wire behind those of all before it.
LEMMA TransferPartsInOrder ==
  ASSUME WriterInv, NEW to \in Nat, Writer!Transfer(to)
  PROVE  PartsInOrder'
<1> DEFINE op == Head(waiting)
           last == Len(wire)
<1>1. /\ up /\ waiting # <<>>
      /\ waiting \in Seq(Op) /\ op \in Op /\ op.from \in Nat \ {0} /\ op.command \in Nat
      /\ DOMAIN waiting = 1 .. Len(waiting) /\ Len(waiting) \in Nat \ {0}
      /\ waiting[1] = op /\ 1 \in DOMAIN waiting
      /\ sent \in Nat /\ op.command \in 1 .. sent
      /\ DOMAIN wire = 1 .. last
  <2>1. up /\ waiting # <<>> /\ waiting \in Seq(Op) /\ wire \in Seq(WirePart) /\ sent \in Nat
    BY DEF WriterInv, WriterTypes, Writer!Transfer
  <2>2. /\ Len(waiting) \in Nat \ {0} /\ DOMAIN waiting = 1 .. Len(waiting)
        /\ waiting[1] = op /\ op \in Op /\ DOMAIN wire = 1 .. last
    BY <2>1, TailFacts, LenProperties
  <2>3. 1 \in DOMAIN waiting
    BY <2>2
  <2>4. op.command \in 1 .. sent
    BY <2>2, <2>3 DEF WriterInv, WriterTypes
  <2> QED
    BY <2>1, <2>2, <2>3, <2>4 DEF Op
<1>2. /\ wire' \in Seq(WirePart) /\ last \in Nat
      /\ \A j \in DOMAIN wire : j <= last /\ j \in DOMAIN wire' /\ wire'[j] = wire[j]
      /\ \A j \in DOMAIN wire' : j \notin DOMAIN wire =>
           /\ j - last \in 1 .. (to + 1 - op.from)
           /\ wire'[j] = [command |-> op.command, part |-> op.from + (j - last) - 1]
      /\ \A p \in op.from .. to :
           /\ last + (p + 1 - op.from) \in DOMAIN wire'
           /\ wire'[last + (p + 1 - op.from)] = [command |-> op.command, part |-> p]
  BY TransferWire
<1>3. DOMAIN wire' = 1 .. Len(wire') /\ Len(wire') \in Nat
  BY <1>2, LenProperties
<1>4. \A p \in Nat \ {0} : OnWire(op.command, p) <=> p < op.from
  BY <1>1 DEF WriterInv, AllContinue, Continues
<1> SUFFICES ASSUME NEW j \in DOMAIN wire'
             PROVE  /\ ~Writer!Before(j, wire[j].command, wire[j].part)'
                    /\ \A p \in 1 .. (wire'[j].part - 1) : Writer!Before(j, wire[j].command, p)'
                    /\ wire'[j].part = 1 =>
                         \A c \in 1 .. (wire'[j].command - 1) : Writer!Before(j, c, 1)'
  BY DEF PartsInOrder, Writer!PartsInOrder
<1>5. CASE j \in DOMAIN wire
  <2>1. \A i \in 1 .. (j - 1) : i \in DOMAIN wire /\ wire'[i] = wire[i]
    BY <1>1, <1>2, <1>5
  <2>2. \A c, p : Writer!Before(j, c, p)' = Writer!Before(j, c, p)
    BY <2>1 DEF Writer!Before
  <2>3. wire'[j] = wire[j]
    BY <1>2, <1>5
  <2> QED
    BY <1>5, <2>2, <2>3 DEF WriterInv, PartsInOrder, Writer!PartsInOrder, Writer!Before
<1>6. CASE j \notin DOMAIN wire
  <2> DEFINE part == op.from + (j - last) - 1
  <2>1. /\ j - last \in 1 .. (to + 1 - op.from)
        /\ wire'[j] = [command |-> op.command, part |-> part]
    BY <1>2, <1>6
  <2>2. /\ j \in Nat /\ j > last /\ part \in op.from .. to
        /\ wire'[j].command = op.command /\ wire'[j].part = part
    BY <1>1, <1>2, <1>3, <2>1, SMTT(30)
  <2>3. ASSUME NEW c \in Nat, NEW p \in Nat \ {0}, OnWire(c, p)
        PROVE  \E i \in 1 .. (j - 1) : wire'[i] = [command |-> c, part |-> p]
    <3>1. PICK i \in DOMAIN wire : wire[i] = [command |-> c, part |-> p]
      BY <2>3 DEF OnWire
    <3>2. i \in 1 .. (j - 1)
      BY <1>1, <1>2, <2>2
    <3> QED
      BY <1>2, <3>1, <3>2
  <2>4. ~\E i \in 1 .. (j - 1) : wire'[i] = [command |-> op.command, part |-> part]
    <3> SUFFICES ASSUME NEW i \in 1 .. (j - 1),
                        wire'[i] = [command |-> op.command, part |-> part]
                 PROVE  FALSE
      OBVIOUS
    <3>1. i \in DOMAIN wire'
      BY <1>3, <2>2
    <3>2. CASE i \in DOMAIN wire
      <4>1. OnWire(op.command, part)
        BY <1>2, <3>2 DEF OnWire
      <4>2. part \in Nat \ {0} /\ ~(part < op.from)
        BY <1>1, <2>2
      <4> QED
        BY <1>4, <4>1, <4>2
    <3>3. CASE i \notin DOMAIN wire
      <4>1. wire'[i] = [command |-> op.command, part |-> op.from + (i - last) - 1]
        BY <1>2, <3>1, <3>3
      <4>2. part = op.from + (i - last) - 1
        BY <4>1
      <4> DEFINE from == op.from
      <4>3. from \in Nat /\ last \in Nat /\ i \in Nat /\ j \in Nat /\ i < j
        BY <1>1, <1>2, <2>2, SMTT(30)
      <4>4. from + (j - last) - 1 = from + (i - last) - 1
        BY <4>2
      <4> HIDE DEF from, last
      <4> QED
        BY <4>3, <4>4
    <3> QED
      BY <3>2, <3>3
  <2>5. ASSUME NEW p \in 1 .. (part - 1)
        PROVE  \E i \in 1 .. (j - 1) : wire'[i] = [command |-> op.command, part |-> p]
    <3>1. CASE p < op.from
      <4>1. p \in Nat \ {0}
        BY <2>2
      <4> QED
        BY <1>1, <1>4, <2>3, <3>1, <4>1
    <3>2. CASE ~(p < op.from)
      <4> HIDE DEF op, last
      <4>1. p \in op.from .. to /\ p < part
        BY <1>1, <2>2, <3>2
      <4>2. /\ op.from \in Nat /\ last \in Nat /\ j \in Nat /\ p \in Int
            /\ op.from <= p /\ p < op.from + (j - last) - 1
        BY <1>1, <1>2, <2>2, <4>1
      <4>3. last + (p + 1 - op.from) \in 1 .. (j - 1)
        BY <4>2
      <4> QED
        BY <1>2, <4>1, <4>3
    <3> QED
      BY <3>1, <3>2
  <2>6. ASSUME part = 1, NEW c \in 1 .. (op.command - 1)
        PROVE  \E i \in 1 .. (j - 1) : wire'[i] = [command |-> c, part |-> 1]
    <3>1. c \in 1 .. sent /\ c \in Nat /\ c < op.command /\ op.from = 1
      <4> HIDE DEF op, last
      <4>1. op.from <= part /\ part = 1 /\ op.from \in Nat \ {0}
        BY <1>1, <2>2, <2>6
      <4> QED
        BY <1>1, <4>1
    <3>2. ASSUME NEW i \in DOMAIN waiting, waiting[i] = [command |-> c, from |-> 1] PROVE FALSE
      <4>1. waiting[i].command = c /\ waiting[i].from = 1
        BY <3>2
      <4>2. i # 1
        BY <1>1, <3>1, <4>1
      <4>3. 1 < i
        BY <1>1, <4>2
      <4>4. op.command < c
        BY <1>1, <3>1, <4>1, <4>3 DEF WriterInv, BeginInOrder
      <4> QED
        BY <1>1, <3>1, <4>4
    <3>3. OnWire(c, 1)
      BY <1>1, <3>1, <3>2 DEF WriterInv, BeginInOrder
    <3> QED
      BY <2>3, <3>1, <3>3
  <2> HIDE DEF part
  <2> QED
    BY <2>2, <2>4, <2>5, <2>6 DEF Writer!Before
<1> QED
  BY <1>5, <1>6

\* An operation that takes parts of its command leaves the rest to the next.
LEMMA TransferWriterInv ==
  ASSUME WriterInv, NEW to \in Nat, Writer!Transfer(to), UNCHANGED open
  PROVE  WriterInv'
<1> DEFINE op == Head(waiting)
           h == [command |-> op.command, from |-> to + 1, ok |-> TRUE]
<1>1. /\ up /\ waiting # <<>> /\ to >= op.from
      /\ waiting' = Tail(waiting)
      /\ handlers' = Append(handlers, h)
      /\ UNCHANGED <<sent, up>>
  BY DEF Writer!Transfer
<1>2. op.from \in Nat \ {0} /\ op.command \in Nat
  BY TransferTypes
<1>3. h \in Handler /\ h.command = op.command /\ h.ok /\ h.from = to + 1 /\ h.from > 1
  BY <1>1, <1>2 DEF Handler
<1> HIDE DEF h
<1>4. WriterTypes'
  BY <1>1, <1>3, EndKeepsTypes, TransferWire
<1>5. /\ OneOperation'
      /\ waiting' \in Seq(Op) /\ handlers' \in Seq(Handler)
      /\ 1 \in DOMAIN waiting /\ waiting[1] = op
      /\ \A i \in DOMAIN waiting' :
           /\ i + 1 \in DOMAIN waiting
           /\ waiting'[i] = waiting[i + 1]
           /\ waiting'[i].command # op.command
      /\ \A i \in DOMAIN waiting :
           i = 1 \/ (i - 1 \in DOMAIN waiting' /\ waiting'[i - 1] = waiting[i])
      /\ \A i \in DOMAIN handlers' :
           \/ /\ i \in DOMAIN handlers
              /\ handlers'[i] = handlers[i]
              /\ handlers'[i].command # op.command
           \/ handlers'[i] = h
      /\ \A i, j \in DOMAIN waiting' :
           i < j /\ waiting'[i].from = 1 /\ waiting'[j].from = 1
             => waiting'[i].command < waiting'[j].command
  BY <1>1, <1>3, OperationEnds
<1>6. \A c \in Nat, p \in Nat \ {0} :
        OnWire(c, p)' <=> OnWire(c, p) \/ (c = op.command /\ p \in op.from .. to)
  BY TransferOnWire
<1>7. AllContinue'
  <2>1. ASSUME NEW i \in DOMAIN waiting' PROVE Continues(waiting[i])'
    <3>1. waiting'[i].command \in Nat /\ waiting'[i].command # op.command
      BY <1>4, <1>5 DEF WriterTypes
    <3>2. Continues(waiting[i + 1]) /\ waiting'[i] = waiting[i + 1]
      BY <1>5 DEF WriterInv, AllContinue
    <3> QED
      BY <1>6, <3>1, <3>2 DEF Continues
  <2>2. ASSUME NEW i \in DOMAIN handlers', handlers'[i].ok
        PROVE  Continues(handlers[i])' /\ handlers'[i].from > 1
    <3>1. CASE /\ i \in DOMAIN handlers
               /\ handlers'[i] = handlers[i]
               /\ handlers'[i].command # op.command
      <4>1. handlers'[i].command \in Nat
        BY <1>4 DEF WriterTypes
      <4>2. Continues(handlers[i]) /\ handlers[i].from > 1
        BY <2>2, <3>1 DEF WriterInv, AllContinue
      <4> QED
        BY <1>6, <3>1, <4>1, <4>2 DEF Continues
    <3>2. CASE handlers'[i] = h
      <4>1. Continues(op)
        BY <1>5 DEF WriterInv, AllContinue
      <4>2. \A p \in Nat \ {0} : (p < op.from \/ p \in op.from .. to) <=> p < to + 1
        BY <1>1, <1>2
      <4>3. ASSUME NEW c \in Nat, c = op.command, NEW p \in Nat \ {0}
            PROVE  OnWire(c, p)' <=> p < to + 1
        BY <1>6, <4>1, <4>2, <4>3 DEF Continues
      <4>4. handlers'[i].command = op.command /\ handlers'[i].from = to + 1
        BY <1>3, <3>2
      <4> QED
        BY <1>2, <1>3, <3>2, <4>3, <4>4 DEF Continues
    <3> QED
      BY <1>5, <3>1, <3>2
  <2> QED
    BY <2>1, <2>2 DEF AllContinue
<1>8. NothingEarly'
  <2>1. op.command \in 1 .. sent
    BY <1>5 DEF WriterInv, WriterTypes
  <2>2. \A j \in DOMAIN wire' :
          \/ j \in DOMAIN wire /\ wire'[j] = wire[j]
          \/ wire'[j].command = op.command
    <3>1. \A j \in DOMAIN wire : wire'[j] = wire[j]
      BY TransferWire
    <3>2. \A j \in DOMAIN wire' : j \notin DOMAIN wire =>
            wire'[j] = [command |-> op.command, part |-> op.from + (j - Len(wire)) - 1]
      BY TransferWire
    <3> QED
      BY <3>1, <3>2
  <2> QED
    BY <1>1, <2>1, <2>2 DEF WriterInv, NothingEarly
<1>9. BeginInOrder'
  <2> SUFFICES ASSUME NEW c \in 1 .. sent
               PROVE  \/ OnWire(c, 1)'
                      \/ \E i \in DOMAIN waiting' : waiting'[i] = [command |-> c, from |-> 1]
    BY <1>1, <1>5 DEF BeginInOrder
  <2>1. c \in Nat
    BY DEF WriterInv, WriterTypes
  <2>2. CASE OnWire(c, 1)
    BY <1>6, <2>1, <2>2
  <2>3. CASE ~OnWire(c, 1)
    <3>1. PICK i \in DOMAIN waiting : waiting[i] = [command |-> c, from |-> 1]
      BY <1>1, <2>3 DEF WriterInv, BeginInOrder
    <3>2. CASE i = 1
      <4>1. c = op.command /\ op.from = 1 /\ 1 \in op.from .. to
        BY <1>1, <1>2, <1>5, <3>1, <3>2
      <4> QED
        BY <1>6, <2>1, <4>1
    <3>3. CASE i # 1
      BY <1>5, <3>1, <3>3
    <3> QED
      BY <3>2, <3>3
  <2> QED
    BY <2>2, <2>3
<1>10. ClosedStays'
  BY <1>1 DEF WriterInv, ClosedStays
<1>11. PartsInOrder'
  BY TransferPartsInOrder
<1> QED
  BY <1>4, <1>5, <1>7, <1>8, <1>9, <1>10, <1>11 DEF WriterInv

\* No step of a connection breaks it.
LEMMA NextWriterInv == WriterInv /\ [ClientNext]_clientVars => WriterInv'
<1> SUFFICES ASSUME WriterInv, [ClientNext]_clientVars PROVE WriterInv'
  OBVIOUS
<1>1. up \in BOOLEAN /\ (open => up)
  BY DEF WriterInv, WriterTypes, ClosedStays
<1>2. CASE ReadSome
  BY <1>1, <1>2, SocketWriterInv DEF ReadSome, Arrive, writerVars
<1>3. CASE HandleLines
  <2>1. PICK n \in 0 .. MaxCommands : Writer!Send(n)
    BY <1>3 DEF HandleLines
  <2>2. UNCHANGED open
    BY <1>3 DEF HandleLines, Handle
  <2> QED
    BY <2>1, <2>2, ClientAssumption, SendWriterInv
<1>4. CASE WriteSome
  <2>1. PICK to \in 1 .. Parts : Writer!Transfer(to)
    BY <1>4 DEF WriteSome
  <2>2. UNCHANGED open
    BY <1>4 DEF WriteSome, vars
  <2> QED
    BY <2>1, <2>2, ClientAssumption, TransferWriterInv
<1>5. CASE WriteFails
  BY <1>5, FailWriterInv DEF WriteFails, vars
<1>6. CASE WriteHandler
  BY <1>6, WriteDoneWriterInv DEF WriteHandler, vars
<1>7. CASE Ends
  BY <1>1, <1>7, SocketWriterInv DEF Ends, Close
<1>8. CASE ReadEnds
  BY <1>1, <1>8, SocketWriterInv DEF ReadEnds, ReadFails
<1>9. CASE UNCHANGED clientVars
  BY <1>1, <1>9, SocketWriterInv DEF clientVars, vars, writerVars
<1> QED
  BY <1>2, <1>3, <1>4, <1>5, <1>6, <1>7, <1>8, <1>9 DEF ClientNext

\* However the server reads, commands begin on the wire in the order of the calls
\* of send(), and the parts of each are there in order, none twice or left out.
THEOREM CommandsInOrder == ClientSpec => []PartsInOrder
<1>1. WriterInv => PartsInOrder
  BY DEF WriterInv
<1> QED
  BY <1>1, InitWriterInv, NextWriterInv, PTL DEF ClientSpec

--------------------------------------------------------------------------------
(* The strings *)

Waiting == {waiting[i].command : i \in DOMAIN waiting}
Ended == {handlers[i].command : i \in DOMAIN handlers}
StringsInv == allocated = Waiting \cup Ended

\* The handlers of the client allocate for what they begin, and delete what no
\* operation uses.
LEMMA NextStringsInv ==
  WriterInv /\ StringsInv /\ [ClientNext]_clientVars => StringsInv'
<1> SUFFICES ASSUME WriterInv, StringsInv, [ClientNext]_clientVars PROVE StringsInv'
  OBVIOUS
<1> USE DEF StringsInv
<1>1. /\ waiting \in Seq(Op) /\ handlers \in Seq(Handler) /\ sent \in Nat
      /\ DOMAIN waiting = 1 .. Len(waiting) /\ Len(waiting) \in Nat
      /\ DOMAIN handlers = 1 .. Len(handlers) /\ Len(handlers) \in Nat
  BY LenProperties DEF WriterInv, WriterTypes
<1>2. ASSUME NEW n \in Nat, Writer!Send(n) PROVE StringsInv'
  <2> DEFINE block == [i \in 1 .. n |-> Writer!Begin(sent + i)]
  <2>1. /\ waiting' = waiting \o block
        /\ allocated' = allocated \cup (sent + 1 .. sent + n)
        /\ UNCHANGED handlers
    BY <1>2 DEF Writer!Send
  <2>2. block \in [1 .. n -> Op]
    BY <1>1 DEF Writer!Begin, Op
  <2>3. \A i \in 1 .. n : block[i].command = sent + i
    BY DEF Writer!Begin
  <2> HIDE DEF block
  <2>4. /\ DOMAIN (waiting \o block) = 1 .. Len(waiting) + n
        /\ \A i \in 1 .. Len(waiting) : (waiting \o block)[i] = waiting[i]
        /\ \A i \in 1 .. n : (waiting \o block)[Len(waiting) + i] = block[i]
    BY <1>1, <2>2, ConcatFacts
  <2>5. ASSUME NEW c \in Waiting' PROVE c \in Waiting \cup (sent + 1 .. sent + n)
    <3>1. PICK i \in 1 .. Len(waiting) + n : (waiting \o block)[i].command = c
      BY <2>1, <2>4 DEF Waiting
    <3>2. CASE i \in 1 .. Len(waiting)
      BY <1>1, <2>4, <3>1, <3>2 DEF Waiting
    <3>3. CASE i \notin 1 .. Len(waiting)
      <4>1. i - Len(waiting) \in 1 .. n /\ Len(waiting) + (i - Len(waiting)) = i
        BY <1>1, <3>3
      <4>2. c = sent + (i - Len(waiting))
        BY <2>3, <2>4, <3>1, <4>1
      <4> QED
        BY <1>1, <4>1, <4>2
    <3> QED
      BY <3>2, <3>3
  <2>6. ASSUME NEW c \in Waiting PROVE c \in Waiting'
    <3>1. PICK i \in 1 .. Len(waiting) : waiting[i].command = c
      BY <1>1 DEF Waiting
    <3>2. i \in DOMAIN waiting' /\ waiting'[i].command = c
      BY <1>1, <2>1, <2>4, <3>1
    <3> QED
      BY <3>2 DEF Waiting
  <2>7. ASSUME NEW c \in sent + 1 .. sent + n PROVE c \in Waiting'
    <3>1. /\ c - sent \in 1 .. n /\ sent + (c - sent) = c
          /\ Len(waiting) + (c - sent) \in 1 .. Len(waiting) + n
      BY <1>1
    <3>2. /\ Len(waiting) + (c - sent) \in DOMAIN waiting'
          /\ waiting'[Len(waiting) + (c - sent)].command = c
      BY <2>1, <2>3, <2>4, <3>1
    <3> QED
      BY <3>2 DEF Waiting
  <2> QED
    BY <2>1, <2>5, <2>6, <2>7 DEF Ended
<1>3. ASSUME NEW h \in Handler, h.command = Head(waiting).command, waiting # <<>>,
             waiting' = Tail(waiting), handlers' = Append(handlers, h),
             sent' = sent, allocated' = allocated
      PROVE  StringsInv'
  <2>1. /\ 1 \in DOMAIN waiting /\ waiting[1] = Head(waiting)
        /\ \A i \in DOMAIN waiting' : i + 1 \in DOMAIN waiting /\ waiting'[i] = waiting[i + 1]
        /\ \A i \in DOMAIN waiting :
             i = 1 \/ (i - 1 \in DOMAIN waiting' /\ waiting'[i - 1] = waiting[i])
    BY <1>3, OperationEnds
  <2>2. Waiting = Waiting' \cup {h.command}
    <3>1. \A c \in Waiting' : c \in Waiting
      BY <2>1 DEF Waiting
    <3>2. h.command \in Waiting
      BY <1>3, <2>1 DEF Waiting
    <3>3. ASSUME NEW c \in Waiting, c # h.command PROVE c \in Waiting'
      <4>1. PICK i \in DOMAIN waiting : waiting[i].command = c
        BY DEF Waiting
      <4>2. i # 1
        BY <1>3, <2>1, <3>3, <4>1
      <4>3. i - 1 \in DOMAIN waiting' /\ waiting'[i - 1].command = c
        BY <2>1, <4>1, <4>2
      <4> QED
        BY <4>3 DEF Waiting
    <3> QED
      BY <3>1, <3>2, <3>3
  <2>3. /\ DOMAIN handlers' = 1 .. Len(handlers) + 1
        /\ \A i \in 1 .. Len(handlers) : handlers'[i] = handlers[i]
        /\ handlers'[Len(handlers) + 1] = h
    BY <1>1, <1>3, AppendFacts
  <2>4. 1 .. Len(handlers) + 1 = 1 .. Len(handlers) \cup {Len(handlers) + 1}
    BY <1>1
  <2>5. Ended' = Ended \cup {h.command}
    BY <1>1, <2>3, <2>4 DEF Ended
  <2> QED
    BY <1>3, <2>2, <2>5
<1>4. ASSUME NEW to \in Nat, Writer!Transfer(to) PROVE StringsInv'
  <2> DEFINE h == [command |-> Head(waiting).command, from |-> to + 1, ok |-> TRUE]
  <2>1. h \in Handler /\ h.command = Head(waiting).command
    BY <1>4, TransferTypes DEF Handler
  <2>2. /\ waiting # <<>> /\ waiting' = Tail(waiting) /\ handlers' = Append(handlers, h)
        /\ sent' = sent /\ allocated' = allocated
    BY <1>4 DEF Writer!Transfer
  <2> HIDE DEF h
  <2> QED
    BY <1>3, <2>1, <2>2
<1>5. ASSUME Writer!Fail PROVE StringsInv'
  <2> DEFINE h == [command |-> Head(waiting).command, from |-> Head(waiting).from, ok |-> FALSE]
  <2>1. /\ waiting # <<>> /\ waiting' = Tail(waiting) /\ handlers' = Append(handlers, h)
        /\ sent' = sent /\ allocated' = allocated
    BY <1>5 DEF Writer!Fail
  <2>2. Head(waiting) \in Op
    BY <1>1, <2>1, TailFacts
  <2>3. h \in Handler /\ h.command = Head(waiting).command
    BY <2>2 DEF Op, Handler
  <2> HIDE DEF h
  <2> QED
    BY <1>3, <2>1, <2>3
<1>6. ASSUME Writer!WriteDone PROVE StringsInv'
  <2> DEFINE h == Head(handlers)
             rest == [command |-> h.command, from |-> h.from]
  <2>1. /\ handlers # <<>> /\ handlers' = Tail(handlers)
        /\ \/ waiting' = Append(waiting, rest) /\ allocated' = allocated
           \/ waiting' = waiting /\ allocated' = allocated \ {h.command}
    BY <1>6 DEF Writer!WriteDone
  <2>2. /\ Len(handlers) \in Nat \ {0}
        /\ DOMAIN handlers' = 1 .. Len(handlers) - 1
        /\ \A i \in 1 .. Len(handlers) - 1 : handlers'[i] = handlers[i + 1]
        /\ handlers[1] = h /\ h \in Handler
    BY <1>1, <2>1, TailFacts
  <2>3. /\ 1 \in DOMAIN handlers
        /\ \A i \in DOMAIN handlers' :
             i + 1 \in DOMAIN handlers /\ handlers'[i] = handlers[i + 1] /\ i + 1 # 1
        /\ \A i \in DOMAIN handlers :
             i = 1 \/ (i - 1 \in DOMAIN handlers' /\ handlers'[i - 1] = handlers[i])
    <3>1. \A i \in 1 .. Len(handlers) - 1 : i + 1 \in 1 .. Len(handlers) /\ i + 1 # 1
      BY <2>2
    <3>2. \A i \in 1 .. Len(handlers) :
            i = 1 \/ (i - 1 \in 1 .. Len(handlers) - 1 /\ (i - 1) + 1 = i)
      BY <2>2
    <3>3. 1 \in 1 .. Len(handlers)
      BY <2>2
    <3> QED
      BY <1>1, <2>2, <3>1, <3>2, <3>3
  <2>4. Ended = Ended' \cup {h.command}
    BY <2>2, <2>3 DEF Ended
  <2>5. h.command \notin Ended'
    BY <2>2, <2>3 DEF Ended, WriterInv, OneOperation
  <2>6. h.command \notin Waiting
    BY <2>2, <2>3 DEF Waiting, WriterInv, OneOperation
  <2>7. CASE waiting' = Append(waiting, rest) /\ allocated' = allocated
    <3>1. rest \in Op /\ rest.command = h.command
      BY <2>2 DEF Op, Handler
    <3> HIDE DEF rest
    <3>2. /\ DOMAIN waiting' = 1 .. Len(waiting) + 1
          /\ \A i \in 1 .. Len(waiting) : waiting'[i] = waiting[i]
          /\ waiting'[Len(waiting) + 1] = rest
      BY <1>1, <2>7, <3>1, AppendFacts
    <3>3. 1 .. Len(waiting) + 1 = 1 .. Len(waiting) \cup {Len(waiting) + 1}
      BY <1>1
    <3>4. Waiting' = Waiting \cup {h.command}
      BY <1>1, <3>1, <3>2, <3>3 DEF Waiting
    <3> QED
      BY <2>4, <2>7, <3>4
  <2>8. CASE waiting' = waiting /\ allocated' = allocated \ {h.command}
    <3>1. Waiting' = Waiting
      BY <2>8 DEF Waiting
    <3> QED
      BY <2>4, <2>5, <2>6, <2>8, <3>1
  <2> QED
    BY <2>1, <2>7, <2>8
<1>7. ASSUME UNCHANGED <<waiting, handlers, allocated>> PROVE StringsInv'
  BY <1>7 DEF Waiting, Ended
<1>8. CASE ReadSome \/ Ends \/ ReadEnds \/ UNCHANGED clientVars
  BY <1>7, <1>8 DEF ReadSome, Ends, ReadEnds, clientVars, writerVars
<1>9. CASE HandleLines
  BY <1>2, <1>9, ClientAssumption DEF HandleLines
<1>10. CASE WriteSome
  BY <1>4, <1>10, ClientAssumption DEF WriteSome
<1>11. CASE WriteFails \/ WriteHandler
  BY <1>5, <1>6, <1>11 DEF WriteFails, WriteHandler
<1> QED
  BY <1>8, <1>9, <1>10, <1>11 DEF ClientNext

\* A string is allocated as long as its write goes on: none is read after it was
\* deleted, and none is left once its write has ended.
THEOREM StringsLiveAsWrites == ClientSpec => []StringsInUse
<1>1. ClientInit => StringsInv
  <2> SUFFICES ASSUME ClientInit PROVE StringsInv
    OBVIOUS
  <2>1. /\ waiting = <<[command |-> 1, from |-> 1], [command |-> 2, from |-> 1]>>
        /\ handlers = <<>> /\ allocated = {1, 2}
    BY DEF ClientInit, Writer!Init, Writer!Begin
  <2>2. /\ DOMAIN waiting = {1, 2} /\ DOMAIN handlers = {}
        /\ waiting[1].command = 1 /\ waiting[2].command = 2
    BY <2>1
  <2> QED
    BY <2>1, <2>2 DEF StringsInv, Waiting, Ended
<1>2. StringsInv => StringsInUse
  BY DEF StringsInv, StringsInUse, Writer!StringsInUse, Waiting, Ended
<1> QED
  BY <1>1, <1>2, InitWriterInv, NextWriterInv, NextStringsInv, PTL DEF ClientSpec
================================================================================

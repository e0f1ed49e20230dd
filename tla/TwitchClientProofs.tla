--------------------------- MODULE TwitchClientProofs ---------------------------
(***************************************************************************)
(* Theorems about TwitchClient: whatever pieces the stream arrives in and  *)
(* however far the constructor is, texts are forwarded as they were said,  *)
(* and whole messages do not bring the client down, for any messages that  *)
(* are parsed as they are meant and any number of them.                    *)
(*                                                                         *)
(* The invariant says where in the bytes not yet taken each message not    *)
(* yet taken begins.  The handler's loop either takes the first of them    *)
(* whole, or what is left of the end of the last one, or tears it.         *)
(***************************************************************************)
EXTENDS TwitchClient, SequenceFacts, TLAPS

--------------------------------------------------------------------------------
(* The invariant *)

Stage == {"resolving", "irc_client", "members", "twitch_client"}

\* What the server may say, by the lexeme.
Lexeme == {"CR", "LF"} \cup UNION {{m[i] : i \in DOMAIN m} : m \in Messages}

\* What is not yet taken.
Unread == response \o stream

TypeOK ==
  /\ made \in Stage
  /\ said \in Seq(Messages)
  /\ stream \in Seq(Lexeme)
  /\ response \in Seq(Lexeme)
  /\ taken \in Seq([line : Seq(Lexeme), made : Stage])
  /\ torn \in BOOLEAN
  /\ reading = "loop" => response # <<>>

\* The lexemes of row from position p on are those of message m.
Spells(row, p, m) ==
  /\ \A i \in 1 .. Len(m) : row[p + i - 1] = m[i]
  /\ row[p + Len(m)] = "CR"
  /\ row[p + Len(m) + 1] = "LF"

\* The messages from the first one on are all of row, and begin at start.  When the
\* message before was taken without its "\n", that is still there.
Layout(start, first, messages, row) ==
  /\ \A k \in first .. Len(messages) + 1 : start[k] \in 1 .. Len(row) + 1
  /\ \A j, k \in first .. Len(messages) + 1 : j <= k => start[j] <= start[k]
  /\ \A k \in first .. Len(messages) :
       /\ start[k + 1] = start[k] + Len(messages[k]) + 2
       /\ Spells(row, start[k], messages[k])
  /\ start[Len(messages) + 1] = Len(row) + 1
  /\ \/ start[first] = 1
     \/ start[first] = 2 /\ row[1] = "LF" /\ first > 1

LaidOut(first, messages, row) == \E start \in [Nat -> Nat] : Layout(start, first, messages, row)

StreamInv ==
  ~torn =>
    /\ Len(taken) <= Len(said)
    /\ \A i \in DOMAIN taken : taken[i].line = Line(said[i])
    /\ LaidOut(Len(taken) + 1, said, Unread)

\* What may be forwarded.
Texts == {TextOf(m) : m \in Messages}

IInv ==
  /\ TypeOK
  /\ StreamInv
  /\ ~torn => forwarded \in Seq(Texts)
  /\ ForwardedAsSaid
  /\ CrashNeedsTornLine

--------------------------------------------------------------------------------
(* One line *)

\* Messages have no line ends in them.
LEMMA MessageTypes ==
  ASSUME NEW m \in Messages
  PROVE  /\ m \in Seq(Lexeme) /\ Len(m) \in Nat
         /\ \A i \in 1 .. Len(m) : m[i] \notin {"CR", "LF"}
<1> DEFINE S == {m[i] : i \in DOMAIN m}
<1>1. m \in Seq(S) /\ \A i \in DOMAIN m : m[i] \notin {"CR", "LF"}
  BY MessagesAssumption
<1>2. S \subseteq Lexeme
  BY DEF Lexeme
<1> HIDE DEF S
<1>3. /\ Len(m) \in Nat /\ DOMAIN m = 1 .. Len(m)
      /\ m \in [1 .. Len(m) -> S]
  BY <1>1, LenProperties
<1>4. m \in [1 .. Len(m) -> Lexeme]
  BY <1>2, <1>3
<1>5. m \in Seq(Lexeme)
  BY <1>3, <1>4, BlockFacts
<1> QED
  BY <1>1, <1>3, <1>5

LEMMA EndTypes ==
  /\ EndOfLine \in Seq(Lexeme) /\ Len(EndOfLine) = 2
  /\ EndOfLine[1] = "CR" /\ EndOfLine[2] = "LF"
<1>1. "CR" \in Lexeme /\ "LF" \in Lexeme
  BY DEF Lexeme
<1> QED
  BY <1>1 DEF EndOfLine

LEMMA LineTypes ==
  ASSUME NEW m \in Messages
  PROVE  /\ Line(m) \in Seq(Lexeme) /\ Len(Line(m)) = Len(m) + 1
         /\ \A i \in 1 .. Len(m) : Line(m)[i] = m[i]
         /\ Line(m)[Len(m) + 1] = "CR"
<1>1. "CR" \in Lexeme
  BY DEF Lexeme
<1> QED
  BY <1>1, MessageTypes, AppendFacts DEF Line

\* An empty line, which the pattern does not match, is printed.
LEMMA EmptySplit == Split(<<>>) = << <<>> >>
<1> DEFINE step(words, x) == IF x = " " THEN Append(words, <<>>)
                             ELSE Append(Front(words), Append(Last(words), x))
           body(f, s) == IF s = {} THEN << <<>> >>
                         ELSE LET x == Max(s) IN step(f[s \ {x}], <<>>[x])
           iter == CHOOSE f : f = [s \in SUBSET {} |-> body(f, s)]
<1>1. DOMAIN <<>> = {}
  OBVIOUS
<1>2. Split(<<>>) = iter[{}]
  BY <1>1 DEF Split, FoldLeft, MapThenFoldSet
<1> QED
  BY <1>2

LEMMA EmptyLine == read(Message(<<>>)) = To("printed", <<>>)
<1>1. AfterTags(<< <<>> >>) = << <<>> >>
  BY DEF AfterTags, Begins
<1>2. AfterPrefix(<< <<>> >>) = << <<>> >>
  BY DEF AfterPrefix, Begins
<1>3. Message(<<>>) = Nothing
  BY EmptySplit, <1>1, <1>2 DEF Message
<1> QED
  BY <1>3 DEF read, message, Begins, Nothing

\* getline takes what is before the first "\n".
LEMMA EndFacts ==
  ASSUME response \in Seq(Lexeme)
  PROVE  /\ End \in 0 .. Len(response)
         /\ End = 0 => \A i \in 1 .. Len(response) : response[i] # "LF"
         /\ End # 0 => response[End] = "LF" /\ \A i \in 1 .. End - 1 : response[i] # "LF"
<1> DEFINE I == {i \in 1 .. Len(response) : response[i] = "LF"}
<1>1. End = IF I # {} THEN Min(I) ELSE 0
  BY DEF End, SelectInSeq
<1>2. Len(response) \in Nat
  BY LenProperties
<1>3. CASE I = {}
  BY <1>1, <1>2, <1>3
<1>4. CASE I # {}
  <2>1. I \subseteq 1 .. Len(response) /\ I \subseteq Nat
    BY <1>2
  <2> HIDE DEF I
  <2>2. \E x \in I : \A y \in I : x <= y
    BY <1>4, <2>1, LeastExists
  <2>3. Min(I) \in I /\ \A y \in I : Min(I) <= y
    BY <2>2 DEF Min
  <2>4. End \in I /\ \A y \in I : End <= y
    BY <1>1, <1>4, <2>3
  <2>5. \A i \in 1 .. End - 1 : i \notin I
    BY <1>2, <2>1, <2>4
  <2> USE DEF I
  <2> QED
    BY <1>2, <2>1, <2>4, <2>5
<1> QED
  BY <1>3, <1>4

\* Lines that are whole, or empty, are ones Went knows.
LEMMA WentFacts ==
  ASSUME NEW m \in Messages
  PROVE  Went[Line(m)] = read(Message(Line(m))) /\ Went[<<>>] = read(Message(<<>>))
<1> DEFINE row == m \o EndOfLine
<1>1. m \in Seq(Lexeme) /\ EndOfLine \in Seq(Lexeme) /\ Len(m) \in Nat /\ Len(EndOfLine) = 2
  <2>1. m \in Seq(Lexeme)
    BY MessageTypes
  <2>2. EndOfLine \in Seq(Lexeme) /\ Len(EndOfLine) = 2
    BY EndTypes
  <2> QED
    BY <2>1, <2>2, LenProperties
<1>2. /\ row \in Seq(Lexeme) /\ Len(row) = Len(m) + 2
      /\ \A i \in 1 .. Len(m) : row[i] = m[i]
      /\ row[Len(m) + 1] = "CR"
  <2>1. /\ row \in Seq(Lexeme) /\ Len(row) = Len(m) + Len(EndOfLine)
        /\ \A i \in 1 .. Len(m) + Len(EndOfLine) :
             row[i] = IF i <= Len(m) THEN m[i] ELSE EndOfLine[i - Len(m)]
    BY <1>1, ConcatProperties
  <2> HIDE DEF row
  <2>2. (Len(m) + 1) - Len(m) = 1 /\ Len(m) + 1 \in 1 .. Len(m) + Len(EndOfLine)
    BY <1>1
  <2> QED
    BY <1>1, <2>1, <2>2, EndTypes
<1> HIDE DEF row
<1>3. Line(m) = SubSeq(row, 1, Len(m) + 1)
  <2>1. /\ Line(m) \in Seq(Lexeme) /\ Len(Line(m)) = Len(m) + 1
        /\ \A i \in 1 .. Len(m) : Line(m)[i] = m[i]
        /\ Line(m)[Len(m) + 1] = "CR"
    BY LineTypes
  <2>2. /\ SubSeq(row, 1, Len(m) + 1) \in Seq(Lexeme)
        /\ Len(SubSeq(row, 1, Len(m) + 1)) = Len(m) + 1
        /\ \A i \in 1 .. Len(m) + 1 : SubSeq(row, 1, Len(m) + 1)[i] = row[i]
    <3>1. Len(m) + 1 \in 0 .. Len(row)
      BY <1>1, <1>2
    <3> QED
      BY <1>2, <3>1, CutFacts
  <2> QED
    <3>1. ASSUME NEW i \in 1 .. Len(Line(m))
          PROVE  Line(m)[i] = SubSeq(row, 1, Len(m) + 1)[i]
      <4>1. i \in 1 .. Len(m) \/ i = Len(m) + 1
        BY <1>1, <2>1
      <4>2. i \in 1 .. Len(m) + 1
        BY <2>1
      <4> QED
        BY <1>2, <2>1, <2>2, <4>1, <4>2
    <3>2. Len(Line(m)) = Len(SubSeq(row, 1, Len(m) + 1))
      BY <2>1, <2>2
    <3> QED
      BY <2>1, <2>2, <3>1, <3>2, SeqEqual, Zenon
<1>4. SubSeq(row, 0 + 1, 0) = <<>>
  BY SubSeqEmpty
<1>5. SubSeq(row, 0 + 1, Len(m) + 1) \in SubSeqs(row) /\ SubSeq(row, 0 + 1, 0) \in SubSeqs(row)
  BY <1>1, <1>2, SMTT(30) DEF SubSeqs
<1>6. Line(m) = SubSeq(row, 0 + 1, Len(m) + 1)
  BY <1>3
<1>7. Line(m) \in SubSeqs(row) /\ <<>> \in SubSeqs(row)
  BY <1>4, <1>5, <1>6, Zenon
<1> QED
  BY <1>7 DEF Went, row

\* What a whole message does, and what an empty line does.
LEMMA TakeWhole ==
  ASSUME AllUnderstood, NEW m \in Messages
  PROVE  LET does == Take(Went[Line(m)])
         IN  /\ does.fate = "no" \/ (does.fate = "early" /\ made = "members")
             /\ does.texts = IF IsPrivmsg(m) /\ made = "twitch_client"
                             THEN <<TextOf(m)>> ELSE <<>>
<1> DEFINE to == read(Message(Line(m)))
<1>1. /\ to.to \notin {"undefined", "terminate"}
      /\ to.to = "privmsg" <=> IsPrivmsg(m)
      /\ IsPrivmsg(m) => to.params[2] = TextOf(m)
  BY DEF AllUnderstood, Understood
<1>2. Went[Line(m)] = to
  BY WentFacts
<1>3. to = EndOfMotd => to.to = "reply"
  BY DEF EndOfMotd
<1> HIDE DEF to
<1>4. CASE to.to = "ping"
  BY <1>1, <1>2, <1>4 DEF Take, Does
<1>5. CASE to.to = "privmsg"
  <2>1. to # EndOfMotd
    BY <1>3, <1>5
  <2>2. CASE made = "twitch_client"
    <3>1. Take(to) = Does(<<>>, <<to.params[2]>>, "no")
      BY <1>1, <1>5, <2>1, <2>2 DEF Take
    <3> QED
      BY <1>1, <1>2, <1>5, <2>2, <3>1 DEF Does
  <2>3. CASE made # "twitch_client"
    BY <1>1, <1>2, <1>5, <2>1, <2>3 DEF Take, Does
  <2> QED
    BY <2>2, <2>3
<1>6. CASE to.to \notin {"ping", "privmsg"}
  <2>1. CASE to = EndOfMotd /\ made = "twitch_client"
    <3>1. Take(to) = Does(Reply, <<>>, "no")
      BY <1>1, <1>6, <2>1 DEF Take
    <3> QED
      BY <1>1, <1>2, <1>6, <3>1 DEF Does
  <2>2. CASE ~(to = EndOfMotd /\ made = "twitch_client")
    BY <1>1, <1>2, <1>6, <2>2 DEF Take, Does
  <2> QED
    BY <2>1, <2>2
<1> QED
  BY <1>4, <1>5, <1>6

LEMMA TakeEmpty ==
  ASSUME Messages # {}
  PROVE  Take(Went[<<>>]).fate = "no" /\ Take(Went[<<>>]).texts = <<>>
<1>1. Went[<<>>] = To("printed", <<>>)
  BY WentFacts, EmptyLine
<1>2. To("printed", <<>>).to = "printed" /\ To("printed", <<>>) # EndOfMotd
  <2>1. To("printed", <<>>).to = "printed" /\ EndOfMotd.to = "reply"
    BY DEF To, EndOfMotd
  <2> QED
    BY <2>1
<1> QED
  BY <1>1, <1>2 DEF Take, Does

--------------------------------------------------------------------------------
(* The stream *)

\* What is left of row when cut lexemes are taken off its front.
IsLeft(rest, row, cut) ==
  /\ Len(rest) = Len(row) - cut
  /\ \A i \in 1 .. Len(row) - cut : rest[i] = row[cut + i]

\* They are those before message next, but for the "\n" of the last of them.
Cuts(start, first, next, messages, row, rest, cut) ==
  /\ messages \in Seq(Messages)
  /\ row \in Seq(Lexeme)
  /\ rest \in Seq(Lexeme)
  /\ first \in Nat \ {0} /\ next \in Nat /\ first <= next /\ next <= Len(messages) + 1
  /\ cut \in 0 .. Len(row)
  /\ IsLeft(rest, row, cut)
  /\ start \in [Nat -> Nat]
  /\ Layout(start, first, messages, row)
  /\ \/ start[next] = cut + 1
     \/ start[next] = cut + 2 /\ row[cut + 1] = "LF" /\ next > 1

\* The messages after them stay where they are.
LEMMA CutLayout ==
  ASSUME NEW start, NEW first, NEW next, NEW messages, NEW row, NEW rest, NEW cut,
         Cuts(start, first, next, messages, row, rest, cut)
  PROVE  LaidOut(next, messages, rest)
<1> DEFINE s == [k \in Nat |-> IF start[k] >= cut THEN start[k] - cut ELSE 0]
           n == Len(messages)
           w == Len(row)
           l == Len(rest)
<1> HIDE DEF s
<1>1. /\ n \in Nat /\ w \in Nat /\ l \in Nat /\ cut \in Nat /\ cut <= w /\ l = w - cut
      /\ first \in Nat \ {0} /\ next \in Nat /\ first <= next /\ next <= n + 1
  <2>1. n \in Nat /\ w \in Nat /\ l \in Nat
    BY LenProperties DEF Cuts
  <2> QED
    BY <2>1 DEF Cuts, IsLeft
<1> HIDE DEF n, w, l
<1>0. /\ \A k \in Nat : start[k] \in Nat
      /\ \A k \in first .. n + 1 : start[k] \in 1 .. w + 1
      /\ \A j, k \in first .. n + 1 : j <= k => start[j] <= start[k]
      /\ start[n + 1] = w + 1
      /\ start[next] \in {cut + 1, cut + 2}
      /\ start[next] = cut + 2 => row[cut + 1] = "LF" /\ next > 1
  <2>1. Layout(start, first, messages, row)
    BY DEF Cuts
  <2>2. cut + 1 # cut + 2
    BY <1>1
  <2> QED
    BY <1>1, <2>1, <2>2 DEF Cuts, Layout, n, w
<1>2. \A k \in next .. n + 1 :
        /\ k \in Nat /\ start[k] \in 1 .. w + 1 /\ start[k] >= cut + 1
        /\ s[k] = start[k] - cut
  <2> SUFFICES ASSUME NEW k \in next .. n + 1
               PROVE  /\ k \in Nat /\ start[k] \in 1 .. w + 1 /\ start[k] >= cut + 1
                      /\ s[k] = start[k] - cut
    OBVIOUS
  <2>1. k \in Nat /\ k \in first .. n + 1 /\ next \in first .. n + 1 /\ next <= k
    BY <1>1
  <2>2. /\ start[k] \in 1 .. w + 1 /\ start[next] \in 1 .. w + 1
        /\ start[next] <= start[k]
    BY <1>0, <2>1
  <2>3. start[next] >= cut + 1
    BY <1>0, <1>1
  <2>4. s[k] = IF start[k] >= cut THEN start[k] - cut ELSE 0
    BY <2>1 DEF s
  <2> QED
    BY <1>1, <2>1, <2>2, <2>3, <2>4
<1>3. s \in [Nat -> Nat]
  BY <1>0, <1>1 DEF s
<1>4. \A k \in next .. n + 1 : s[k] \in 1 .. l + 1
  BY <1>1, <1>2
<1>5. \A j, k \in next .. n + 1 : j <= k => s[j] <= s[k]
  <2> SUFFICES ASSUME NEW j \in next .. n + 1, NEW k \in next .. n + 1, j <= k
               PROVE  s[j] <= s[k]
    OBVIOUS
  <2>1. j \in first .. n + 1 /\ k \in first .. n + 1
    BY <1>1
  <2>2. start[j] <= start[k]
    BY <1>0, <2>1
  <2> QED
    BY <1>1, <1>2, <2>2
<1>6. ASSUME NEW k \in next .. n
      PROVE  s[k + 1] = s[k] + Len(messages[k]) + 2 /\ Spells(rest, s[k], messages[k])
  <2> DEFINE c == Len(messages[k])
  <2>1. /\ k \in first .. n /\ k \in next .. n + 1 /\ k + 1 \in next .. n + 1
        /\ k \in 1 .. n
    BY <1>1
  <2>2. start[k + 1] = start[k] + c + 2 /\ Spells(row, start[k], messages[k])
    <3>1. Layout(start, first, messages, row)
      BY DEF Cuts
    <3> QED
      BY <2>1, <3>1 DEF Layout, n
  <2>3. c \in Nat
    <3>1. messages \in Seq(Messages) /\ k \in 1 .. Len(messages)
      BY <2>1 DEF Cuts, n
    <3>2. messages[k] \in Messages
      BY <3>1, ElementOfSeq
    <3> QED
      BY <3>2, MessageTypes
  <2> HIDE DEF c
  <2>4. /\ s[k] = start[k] - cut /\ s[k + 1] = start[k + 1] - cut
        /\ start[k] \in Nat /\ start[k] >= cut + 1 /\ start[k + 1] \in 1 .. w + 1
    BY <1>2, <2>1
  <2>5. ASSUME NEW i \in 0 .. c + 1
        PROVE  rest[s[k] + i] = row[start[k] + i]
    <3>1. s[k] + i \in 1 .. w - cut /\ cut + (s[k] + i) = start[k] + i
      BY <1>1, <2>2, <2>3, <2>4
    <3> QED
      BY <3>1 DEF Cuts, IsLeft, w
  <2>6. Spells(rest, s[k], messages[k])
    <3>1. ASSUME NEW i \in 1 .. c
          PROVE  rest[s[k] + i - 1] = messages[k][i]
      <4>1. /\ i - 1 \in 0 .. c + 1
            /\ s[k] + i - 1 = s[k] + (i - 1) /\ start[k] + i - 1 = start[k] + (i - 1)
        BY <1>1, <2>3, <2>4
      <4>2. row[start[k] + i - 1] = messages[k][i]
        BY <2>2 DEF Spells, c
      <4> QED
        BY <2>5, <4>1, <4>2
    <3>2. rest[s[k] + c] = "CR"
      <4>1. c \in 0 .. c + 1
        BY <2>3
      <4>2. row[start[k] + c] = "CR"
        BY <2>2 DEF Spells, c
      <4> QED
        BY <2>5, <4>1, <4>2
    <3>3. rest[s[k] + c + 1] = "LF"
      <4>1. /\ c + 1 \in 0 .. c + 1
            /\ s[k] + c + 1 = s[k] + (c + 1) /\ start[k] + c + 1 = start[k] + (c + 1)
        BY <1>1, <2>3, <2>4
      <4>2. row[start[k] + c + 1] = "LF"
        BY <2>2 DEF Spells, c
      <4> QED
        BY <2>5, <4>1, <4>2
    <3> QED
      BY <3>1, <3>2, <3>3 DEF Spells, c
  <2>7. s[k + 1] = s[k] + c + 2
    BY <1>1, <2>2, <2>3, <2>4
  <2> QED
    BY <2>6, <2>7 DEF c
<1>7. s[n + 1] = l + 1
  <2>1. n + 1 \in next .. n + 1
    BY <1>1
  <2> QED
    BY <1>0, <1>1, <1>2, <2>1
<1>8. s[next] = 1 \/ (s[next] = 2 /\ rest[1] = "LF" /\ next > 1)
  <2>1. next \in next .. n + 1
    BY <1>1
  <2>2. s[next] = start[next] - cut /\ start[next] \in 1 .. w + 1
    BY <1>2, <2>1
  <2>3. CASE start[next] = cut + 1
    BY <1>1, <2>2, <2>3
  <2>4. CASE start[next] = cut + 2
    <3>1. 1 \in 1 .. w - cut
      BY <1>1, <2>2, <2>4
    <3>2. rest[1] = row[cut + 1]
      BY <3>1 DEF Cuts, IsLeft, w
    <3>3. s[next] = 2
      BY <1>1, <2>2, <2>4
    <3> QED
      BY <1>0, <2>4, <3>2, <3>3
  <2> QED
    BY <1>0, <2>3, <2>4
<1>9. Layout(s, next, messages, rest)
  BY <1>4, <1>5, <1>6, <1>7, <1>8 DEF Layout, n, l
<1> QED
  BY <1>3, <1>9 DEF LaidOut

\* What rest has when message m follows row.
Follows(start, first, messages, row, rest, m) ==
  /\ messages \in Seq(Messages)
  /\ m \in Messages
  /\ first \in Nat \ {0} /\ first <= Len(messages) + 1
  /\ row \in Seq(Lexeme) /\ rest \in Seq(Lexeme)
  /\ Len(rest) = Len(row) + Len(m) + 2
  /\ \A i \in 1 .. Len(row) : rest[i] = row[i]
  /\ Spells(rest, Len(row) + 1, m)
  /\ start \in [Nat -> Nat]
  /\ Layout(start, first, messages, row)

\* The new message begins where the others end.
LEMMA SaidLayout ==
  ASSUME NEW start, NEW first, NEW messages, NEW row, NEW rest, NEW m,
         Follows(start, first, messages, row, rest, m)
  PROVE  LaidOut(first, Append(messages, m), rest)
<1> DEFINE n == Len(messages)
           w == Len(row)
           c == Len(m)
           new == Append(messages, m)
           s == [start EXCEPT ![n + 2] = w + c + 3]
<1>1. n \in Nat /\ w \in Nat /\ c \in Nat
  <2>1. n \in Nat /\ w \in Nat
    BY LenProperties DEF Follows
  <2>2. m \in Messages
    BY DEF Follows
  <2> QED
    BY <2>1, <2>2, MessageTypes
<1> HIDE DEF s
<1>2. /\ first \in Nat \ {0} /\ first <= n + 1 /\ Len(rest) = w + c + 2
      /\ \A i \in 1 .. w : rest[i] = row[i]
      /\ Spells(rest, w + 1, m)
  BY DEF Follows
<1>3. /\ Len(new) = n + 1 /\ new[n + 1] = m
      /\ \A k \in 1 .. n : new[k] = messages[k]
  BY AppendFacts DEF Follows
<1>4. /\ \A k \in Nat : start[k] \in Nat
      /\ \A k \in first .. n + 1 : start[k] \in 1 .. w + 1
      /\ \A j, k \in first .. n + 1 : j <= k => start[j] <= start[k]
      /\ start[n + 1] = w + 1
      /\ start[first] = 1 \/ (start[first] = 2 /\ row[1] = "LF" /\ first > 1)
  BY DEF Follows, Layout
<1>5. /\ s \in [Nat -> Nat]
      /\ s[n + 2] = w + c + 3
      /\ \A k \in first .. n + 1 : s[k] = start[k]
  <2>0. start \in [Nat -> Nat]
    BY DEF Follows
  <2>2. \A k \in first .. n + 1 : k \in Nat /\ k # n + 2
    BY <1>1, <1>2
  <2> HIDE DEF n, w, c
  <2>1. n + 2 \in Nat /\ w + c + 3 \in Nat
    BY <1>1
  <2> QED
    BY <2>0, <2>1, <2>2 DEF s
<1> HIDE DEF n, w, c, new
<1>6. \A k \in first .. n + 2 : k \in first .. n + 1 \/ k = n + 2
  BY <1>1, <1>2
<1>7. \A k \in first .. n + 2 : s[k] \in 1 .. w + c + 3
  <2>1. \A k \in first .. n + 1 : s[k] \in 1 .. w + c + 3
    BY <1>1, <1>4, <1>5
  <2>2. w + c + 3 \in 1 .. w + c + 3
    BY <1>1
  <2> QED
    BY <1>5, <1>6, <2>1, <2>2
<1>8. \A j, k \in first .. n + 2 : j <= k => s[j] <= s[k]
  <2> SUFFICES ASSUME NEW j \in first .. n + 2, NEW k \in first .. n + 2, j <= k
               PROVE  s[j] <= s[k]
    OBVIOUS
  <2>1. CASE k = n + 2
    BY <1>1, <1>5, <1>7, <2>1
  <2>2. CASE k # n + 2
    <3>1. j \in first .. n + 1 /\ k \in first .. n + 1
      BY <1>1, <1>2, <2>2
    <3> QED
      BY <1>4, <1>5, <3>1
  <2> QED
    BY <2>1, <2>2
<1>9. ASSUME NEW k \in first .. n + 1
      PROVE  s[k + 1] = s[k] + Len(new[k]) + 2 /\ Spells(rest, s[k], new[k])
  <2>1. CASE k = n + 1
    <3>1. /\ k + 1 = n + 2 /\ n + 1 \in first .. n + 1
      BY <1>1, <1>2, <2>1
    <3>2. s[k] = w + 1 /\ s[k + 1] = w + c + 3 /\ new[k] = m
      BY <1>3, <1>4, <1>5, <2>1, <3>1
    <3>3. w + c + 3 = (w + 1) + c + 2
      BY <1>1
    <3> QED
      BY <1>2, <3>2, <3>3 DEF c
  <2>2. CASE k # n + 1
    <3>1. /\ k \in 1 .. n /\ k \in first .. n /\ k \in first .. n + 1 /\ k + 1 \in first .. n + 1
      BY <1>1, <1>2, <2>2
    <3> DEFINE d == Len(messages[k])
    <3>2. start[k + 1] = start[k] + d + 2 /\ Spells(row, start[k], messages[k])
      <4>1. Layout(start, first, messages, row)
        BY DEF Follows
      <4> QED
        BY <3>1, <4>1 DEF Layout, n
    <3>3. d \in Nat
      <4>1. messages \in Seq(Messages) /\ k \in 1 .. Len(messages)
        BY <3>1 DEF Follows, n
      <4>2. messages[k] \in Messages
        BY <4>1, ElementOfSeq
      <4> QED
        BY <4>2, MessageTypes
    <3> HIDE DEF d
    <3>4. s[k] = start[k] /\ s[k + 1] = start[k + 1] /\ new[k] = messages[k]
      BY <1>3, <1>5, <3>1
    <3>5. start[k] \in 1 .. w + 1 /\ start[k + 1] \in 1 .. w + 1
      BY <1>4, <3>1
    <3>6. \A i \in 0 .. d + 1 : start[k] + i \in 1 .. w
      BY <1>1, <3>2, <3>3, <3>5
    <3>7. \A i \in 0 .. d + 1 : rest[start[k] + i] = row[start[k] + i]
      BY <1>2, <3>6
    <3>8. Spells(rest, start[k], messages[k])
      <4>1. ASSUME NEW i \in 1 .. d
            PROVE  rest[start[k] + i - 1] = messages[k][i]
        <5>1. i - 1 \in 0 .. d + 1 /\ start[k] + i - 1 = start[k] + (i - 1)
          BY <3>3, <3>5
        <5>2. row[start[k] + i - 1] = messages[k][i]
          BY <3>2 DEF Spells, d
        <5> QED
          BY <3>7, <5>1, <5>2
      <4>2. /\ d \in 0 .. d + 1 /\ d + 1 \in 0 .. d + 1
            /\ start[k] + d + 1 = start[k] + (d + 1)
        BY <3>3, <3>5
      <4>3. row[start[k] + d] = "CR" /\ row[start[k] + d + 1] = "LF"
        BY <3>2 DEF Spells, d
      <4>4. rest[start[k] + d] = "CR" /\ rest[start[k] + d + 1] = "LF"
        BY <3>7, <4>2, <4>3
      <4> QED
        BY <4>1, <4>4 DEF Spells, d
    <3> QED
      BY <3>2, <3>4, <3>8 DEF d
  <2> QED
    BY <2>1, <2>2
<1>10. s[first] = 1 \/ (s[first] = 2 /\ rest[1] = "LF" /\ first > 1)
  <2>1. first \in first .. n + 1
    BY <1>1, <1>2
  <2>2. s[first] = start[first] /\ start[first] \in 1 .. w + 1
    BY <1>4, <1>5, <2>1
  <2>3. start[first] = 2 => 1 \in 1 .. w
    BY <1>1, <2>2
  <2> QED
    BY <1>2, <1>4, <2>2, <2>3
<1>11. Layout(s, first, new, rest)
  <2>1. /\ Len(new) + 1 = n + 2 /\ Len(rest) + 1 = w + c + 3
    BY <1>1, <1>2, <1>3
  <2> QED
    BY <1>3, <1>5, <1>7, <1>8, <1>9, <1>10, <2>1 DEF Layout
<1> QED
  BY <1>5, <1>11 DEF LaidOut, new

LEMMA UnreadFacts ==
  ASSUME TypeOK
  PROVE  /\ Len(response) \in Nat /\ Len(stream) \in Nat
         /\ Unread \in Seq(Lexeme) /\ Len(Unread) = Len(response) + Len(stream)
         /\ \A i \in 1 .. Len(response) : Unread[i] = response[i]
         /\ \A i \in 1 .. Len(stream) : Unread[Len(response) + i] = stream[i]
<1>1. /\ response \in Seq(Lexeme) /\ stream \in Seq(Lexeme)
      /\ Len(response) \in Nat /\ Len(stream) \in Nat
  BY LenProperties DEF TypeOK
<1>2. /\ Unread \in Seq(Lexeme) /\ Len(Unread) = Len(response) + Len(stream)
      /\ \A i \in 1 .. Len(response) + Len(stream) :
           Unread[i] = IF i <= Len(response) THEN response[i] ELSE stream[i - Len(response)]
  BY <1>1, ConcatProperties DEF Unread
<1>3. ASSUME NEW i \in 1 .. Len(stream) PROVE Unread[Len(response) + i] = stream[i]
  <2>1. /\ Len(response) + i \in 1 .. Len(response) + Len(stream)
        /\ ~(Len(response) + i <= Len(response))
        /\ (Len(response) + i) - Len(response) = i
    BY <1>1
  <2> QED
    BY <1>2, <2>1
<1> QED
  BY <1>1, <1>2, <1>3

\* The lexemes that getline takes.
Cut == IF End = 0 THEN Len(response) ELSE End

LEMMA GetlineFacts ==
  ASSUME TypeOK
  PROVE  /\ Left \in Seq(Lexeme) /\ NextLine \in Seq(Lexeme)
         /\ Left \o stream \in Seq(Lexeme)
         /\ Cut \in 0 .. Len(Unread)
         /\ IsLeft(Left \o stream, Unread, Cut)
         /\ Len(NextLine) = IF End = 0 THEN Len(response) ELSE End - 1
         /\ \A i \in 1 .. Len(NextLine) : NextLine[i] = Unread[i]
<1> DEFINE L == Len(response)
           T == Len(stream)
<1>1. /\ L \in Nat /\ T \in Nat
      /\ Unread \in Seq(Lexeme) /\ Len(Unread) = L + T
      /\ \A i \in 1 .. L : Unread[i] = response[i]
      /\ \A i \in 1 .. T : Unread[L + i] = stream[i]
  BY UnreadFacts
<1>2. response \in Seq(Lexeme) /\ stream \in Seq(Lexeme)
  BY DEF TypeOK
<1>3. End \in 0 .. L
  BY <1>2, EndFacts
<1>4. /\ Left \in Seq(Lexeme) /\ NextLine \in Seq(Lexeme)
      /\ Len(Left) = L - Cut
      /\ \A i \in 1 .. L - Cut : Left[i] = response[Cut + i]
      /\ Len(NextLine) = IF End = 0 THEN L ELSE End - 1
      /\ \A i \in 1 .. Len(NextLine) : NextLine[i] = response[i]
      /\ Cut \in 0 .. L
  <2>1. CASE End = 0
    <3>1. Left = <<>> /\ NextLine = response /\ Cut = L
      BY <2>1 DEF Left, NextLine, Cut
    <3>2. Left \in Seq(Lexeme) /\ Len(Left) = 0
      BY <3>1
    <3>3. L - Cut = 0 /\ Cut \in 0 .. L
      BY <1>1, <3>1
    <3> QED
      BY <1>2, <2>1, <3>1, <3>2, <3>3
  <2>2. CASE End # 0
    <3>1. /\ Left = SubSeq(response, End + 1, L) /\ NextLine = SubSeq(response, 1, End - 1)
          /\ Cut = End /\ End - 1 \in 0 .. L
      BY <1>1, <1>3, <2>2 DEF Left, NextLine, Cut, From
    <3>2. /\ Left \in Seq(Lexeme) /\ Len(Left) = L - End
          /\ \A i \in 1 .. L - End : Left[i] = response[End + i]
      BY <1>2, <1>3, <3>1, CutFacts
    <3>3. /\ NextLine \in Seq(Lexeme) /\ Len(NextLine) = End - 1
          /\ \A i \in 1 .. End - 1 : NextLine[i] = response[i]
      BY <1>2, <3>1, CutFacts
    <3> QED
      BY <1>3, <2>2, <3>1, <3>2, <3>3
  <2> QED
    BY <2>1, <2>2
<1>5. \A i \in 1 .. Len(NextLine) : NextLine[i] = Unread[i]
  <2>1. \A i \in 1 .. Len(NextLine) : i \in 1 .. L
    BY <1>1, <1>3, <1>4
  <2> QED
    BY <1>1, <1>4, <2>1
<1>6. /\ Left \o stream \in Seq(Lexeme) /\ Len(Left \o stream) = L - Cut + T
      /\ \A i \in 1 .. L - Cut + T : (Left \o stream)[i] =
           IF i <= L - Cut THEN Left[i] ELSE stream[i - (L - Cut)]
  <2>1. /\ Left \o stream \in Seq(Lexeme) /\ Len(Left \o stream) = Len(Left) + Len(stream)
        /\ \A i \in 1 .. Len(Left) + Len(stream) : (Left \o stream)[i] =
             IF i <= Len(Left) THEN Left[i] ELSE stream[i - Len(Left)]
    BY <1>2, <1>4, ConcatProperties
  <2>2. Len(Left) = L - Cut
    BY <1>4
  <2> QED
    BY <2>1, <2>2, Zenon
<1> DEFINE rest == Left \o stream
<1> HIDE DEF L, T, rest
<1>7. ASSUME NEW i \in 1 .. L + T - Cut PROVE rest[i] = Unread[Cut + i]
  <2>1. i \in 1 .. L - Cut + T
    BY <1>1, <1>4
  <2>2. CASE i <= L - Cut
    <3>1. i \in 1 .. L - Cut /\ Cut + i \in 1 .. L
      BY <1>1, <1>4, <2>1, <2>2
    <3>2. rest[i] = Left[i]
      BY <1>6, <2>1, <2>2 DEF rest
    <3> QED
      BY <1>1, <1>4, <3>1, <3>2
  <2>3. CASE ~(i <= L - Cut)
    <3>1. i - (L - Cut) \in 1 .. T /\ L + (i - (L - Cut)) = Cut + i
      BY <1>1, <1>4, <2>1, <2>3
    <3>2. rest[i] = stream[i - (L - Cut)]
      BY <1>6, <2>1, <2>3 DEF rest
    <3> QED
      BY <1>1, <3>1, <3>2
  <2> QED
    BY <2>2, <2>3
<1>8. IsLeft(rest, Unread, Cut)
  <2>1. Len(rest) = L + T - Cut
    BY <1>1, <1>4, <1>6 DEF rest
  <2>2. Len(Unread) - Cut = L + T - Cut
    BY <1>1, <1>4
  <2> QED
    BY <1>7, <2>1, <2>2 DEF IsLeft
<1>9. Cut \in 0 .. Len(Unread)
  BY <1>1, <1>4
<1> QED
  BY <1>4, <1>5, <1>6, <1>8, <1>9 DEF L, rest

\* getline takes what is left of the last message, or the next one whole, or
\* tears that.
LEMMA LineTaken ==
  ASSUME TypeOK, response # <<>>, Len(taken) <= Len(said),
         LaidOut(Len(taken) + 1, said, Unread)
  PROVE  \/ /\ NextLine = <<>> /\ Messages # {}
            /\ LaidOut(Len(taken) + 1, said, Left \o stream)
         \/ /\ Len(taken) < Len(said) /\ NextLine = Line(said[Len(taken) + 1])
            /\ LaidOut(Len(taken) + 2, said, Left \o stream)
         \/ NextLine # <<>> /\ \A m \in Messages : NextLine # Line(m)
<1> DEFINE t == Len(taken)
           n == Len(said)
           L == Len(response)
           w == Len(Unread)
           rest == Left \o stream
<1>1. PICK start \in [Nat -> Nat] : Layout(start, t + 1, said, Unread)
  BY DEF LaidOut
<1>2. /\ t \in Nat /\ n \in Nat /\ t <= n /\ L \in Nat /\ L # 0 /\ w \in Nat /\ w >= L
  <2>1. /\ t \in Nat /\ n \in Nat /\ L \in Nat /\ L # 0
    BY LenProperties, EmptySeq DEF TypeOK
  <2>2. w = L + Len(stream) /\ Len(stream) \in Nat
    BY UnreadFacts
  <2>3. t <= n
    OBVIOUS
  <2>4. w \in Nat /\ w >= L
    BY <2>1, <2>2
  <2> QED
    BY <2>1, <2>3, <2>4, Zenon
<1>3. /\ End \in 0 .. L
      /\ End = 0 => \A i \in 1 .. L : Unread[i] # "LF"
      /\ End # 0 => Unread[End] = "LF" /\ \A i \in 1 .. End - 1 : Unread[i] # "LF"
  <2>1. /\ End \in 0 .. L
        /\ End = 0 => \A i \in 1 .. L : response[i] # "LF"
        /\ End # 0 => response[End] = "LF" /\ \A i \in 1 .. End - 1 : response[i] # "LF"
    BY EndFacts DEF TypeOK
  <2>2. \A i \in 1 .. L : Unread[i] = response[i]
    BY UnreadFacts
  <2>3. \A i \in 1 .. End - 1 : i \in 1 .. L
    BY <1>2, <2>1
  <2>4. End # 0 => End \in 1 .. L
    BY <2>1
  <2> QED
    BY <2>1, <2>2, <2>3, <2>4
<1>4. /\ said \in Seq(Messages) /\ Unread \in Seq(Lexeme) /\ rest \in Seq(Lexeme)
      /\ Cut \in 0 .. w /\ IsLeft(rest, Unread, Cut)
      /\ NextLine \in Seq(Lexeme)
      /\ Len(NextLine) = IF End = 0 THEN L ELSE End - 1
      /\ \A i \in 1 .. Len(NextLine) : NextLine[i] = Unread[i]
  BY UnreadFacts, GetlineFacts DEF TypeOK
<1> HIDE DEF t, n, L, w, rest
<1>0. t + 1 \in Nat \ {0} /\ t + 2 \in Nat /\ t + 1 <= t + 1 /\ t + 1 <= t + 2
  <2>1. t \in Nat
    BY <1>2
  <2> QED
    BY <2>1
<1>5. ASSUME NEW next \in {t + 1, t + 2}, next <= n + 1,
             \/ start[next] = Cut + 1
             \/ start[next] = Cut + 2 /\ Unread[Cut + 1] = "LF" /\ next > 1
      PROVE  LaidOut(next, said, rest)
  <2>1. /\ t + 1 \in Nat \ {0} /\ next \in Nat /\ t + 1 <= next /\ next <= n + 1
    <3>1. CASE next = t + 1
      BY <1>0, <1>5, <3>1
    <3>2. CASE next = t + 2
      BY <1>0, <1>5, <3>2
    <3> QED
      BY <1>5, <3>1, <3>2
  <2>2. Cuts(start, t + 1, next, said, Unread, rest, Cut)
    BY <1>1, <1>4, <1>5, <2>1 DEF Cuts, n, w
  <2> QED
    BY <2>2, CutLayout
<1>6. start[t + 1] \in 1 .. w + 1 /\ start[n + 1] = w + 1
  <2>1. t + 1 \in t + 1 .. n + 1
    BY <1>2
  <2> QED
    BY <1>1, <2>1 DEF Layout, n, w
<1>7. CASE start[t + 1] = 2
  <2>1. Unread[1] = "LF" /\ t + 1 > 1
    <3>1. 2 # 1
      OBVIOUS
    <3> QED
      BY <1>1, <1>7, <3>1 DEF Layout
  <2>2. End = 1
    <3>1. 1 \in 1 .. L /\ (End # 0 /\ End # 1 => 1 \in 1 .. End - 1)
      BY <1>2, <1>3
    <3> QED
      BY <1>3, <2>1, <3>1
  <2>3. NextLine = <<>>
    BY <1>4, <2>2, EmptySeq
  <2>4. Cut = 1
    BY <2>2 DEF Cut
  <2>5. LaidOut(t + 1, said, rest)
    <3>1. start[t + 1] = Cut + 1 /\ t + 1 <= n + 1 /\ t + 1 \in {t + 1, t + 2}
      BY <1>2, <1>7, <2>4
    <3> QED
      BY <1>5, <3>1
  <2>6. Messages # {}
    <3>1. 1 \in 1 .. Len(said)
      BY <1>2, <2>1 DEF n
    <3>2. said[1] \in Messages
      BY <1>4, <3>1, ElementOfSeq
    <3> QED
      BY <3>2
  <2> QED
    BY <2>3, <2>5, <2>6 DEF t, rest
<1>8. CASE start[t + 1] = 1
  <2>1. t < n
    <3>1. w + 1 # 1
      BY <1>2
    <3>2. t # n
      BY <1>6, <1>8, <3>1
    <3>3. t \in Nat /\ n \in Nat /\ t <= n
      BY <1>2
    <3> QED
      BY <3>2, <3>3
  <2> DEFINE m == said[t + 1]
             c == Len(m)
  <2>2. m \in Messages
    <3>1. t + 1 \in 1 .. Len(said)
      BY <1>2, <2>1 DEF n
    <3> QED
      BY <1>4, <3>1, ElementOfSeq
  <2>3. c \in Nat /\ \A i \in 1 .. c : m[i] \notin {"CR", "LF"}
    BY <2>2, MessageTypes
  <2>4. start[t + 2] = c + 3 /\ Spells(Unread, 1, m)
    <3>1. t + 1 \in t + 1 .. n /\ (t + 1) + 1 = t + 2
      BY <1>2, <2>1
    <3>2. start[(t + 1) + 1] = start[t + 1] + c + 2 /\ Spells(Unread, start[t + 1], m)
      BY <1>1, <3>1 DEF Layout, n
    <3>3. 1 + c + 2 = c + 3
      BY <2>3
    <3> QED
      BY <1>8, <3>1, <3>2, <3>3
  <2> HIDE DEF c, m
  <2>5. c + 3 <= w + 1
    <3>1. t + 2 \in t + 1 .. n + 1
      BY <1>2, <2>1
    <3>2. start[t + 2] \in 1 .. w + 1
      BY <1>1, <3>1 DEF Layout, n, w
    <3> QED
      BY <1>2, <2>3, <2>4, <3>2
  <2>6. /\ \A i \in 1 .. c : Unread[i] = m[i]
        /\ Unread[c + 1] = "CR" /\ Unread[c + 2] = "LF"
    <3>1. /\ \A i \in 1 .. c : Unread[1 + i - 1] = m[i]
          /\ Unread[1 + c] = "CR" /\ Unread[1 + c + 1] = "LF"
      BY <2>4 DEF Spells, c
    <3>2. /\ \A i \in 1 .. c : 1 + i - 1 = i
          /\ 1 + c = c + 1 /\ 1 + c + 1 = c + 2
      BY <2>3
    <3> QED
      BY <3>1, <3>2
  <2>7. /\ End # 0 => End = c + 2
        /\ End = 0 => L <= c + 1
    <3>1. End # 0 => End >= c + 2
      <4>1. \A i \in 1 .. c + 1 : Unread[i] # "LF"
        <5>1. \A i \in 1 .. c + 1 : i \in 1 .. c \/ i = c + 1
          BY <2>3
        <5> QED
          BY <2>3, <2>6, <5>1
      <4>2. End # 0 /\ ~(End >= c + 2) => End \in 1 .. c + 1
        BY <1>2, <1>3, <2>3
      <4> QED
        BY <1>3, <4>1, <4>2
    <3>2. End # 0 => End <= c + 2
      <4>1. End # 0 /\ ~(End <= c + 2) => c + 2 \in 1 .. End - 1
        BY <1>2, <1>3, <2>3
      <4> QED
        BY <1>3, <2>6, <4>1
    <3>3. End = 0 => L <= c + 1
      <4>1. ~(L <= c + 1) => c + 2 \in 1 .. L
        BY <1>2, <2>3
      <4> QED
        BY <1>3, <2>6, <4>1
    <3> QED
      BY <1>2, <1>3, <2>3, <3>1, <3>2, <3>3
  <2>8. CASE Len(NextLine) = c + 1
    <3>1. NextLine = Line(m)
      <4>1. /\ Line(m) \in Seq(Lexeme) /\ Len(Line(m)) = c + 1
            /\ \A i \in 1 .. c : Line(m)[i] = m[i]
            /\ Line(m)[c + 1] = "CR"
        BY <2>2, LineTypes DEF c
      <4>2. ASSUME NEW i \in 1 .. Len(NextLine) PROVE NextLine[i] = Line(m)[i]
        <5>1. i \in 1 .. c \/ i = c + 1
          BY <2>3, <2>8
        <5> QED
          BY <1>4, <2>6, <4>1, <5>1
      <4> QED
        BY <1>4, <2>8, <4>1, <4>2, SeqEqual, Zenon
    <3>2. Cut = c + 2 \/ (Cut = c + 1 /\ Unread[Cut + 1] = "LF")
      <4>1. CASE End = 0
        <5>1. Cut = c + 1 /\ Cut + 1 = c + 2
          <6>1. Cut = L /\ L = c + 1
            BY <1>4, <2>8, <4>1 DEF Cut, L
          <6> QED
            BY <2>3, <6>1
        <5> QED
          BY <2>6, <5>1
      <4>2. CASE End # 0
        BY <2>7, <4>2 DEF Cut
      <4> QED
        BY <4>1, <4>2
    <3>3. LaidOut(t + 2, said, rest)
      <4>1. /\ t + 2 \in {t + 1, t + 2} /\ t + 2 <= n + 1 /\ t + 2 > 1
        BY <1>2, <2>1
      <4>2. \/ start[t + 2] = Cut + 1
            \/ start[t + 2] = Cut + 2 /\ Unread[Cut + 1] = "LF"
        <5>1. (c + 2) + 1 = c + 3 /\ (c + 1) + 2 = c + 3
          BY <2>3
        <5> QED
          BY <2>4, <3>2, <5>1 DEF c
      <4> QED
        BY <1>5, <4>1, <4>2
    <3> QED
      BY <2>1, <3>1, <3>3 DEF m, t, n, rest
  <2>9. CASE Len(NextLine) # c + 1
    <3>1. Len(NextLine) \in 1 .. c
      <4>1. CASE End = 0
        <5>1. Len(NextLine) = L /\ L <= c + 1
          BY <1>4, <2>7, <4>1
        <5> QED
          BY <1>2, <2>3, <2>9, <5>1
      <4>2. CASE End # 0
        <5>1. Len(NextLine) = (c + 2) - 1
          BY <1>4, <2>7, <4>2
        <5> QED
          BY <2>3, <2>9, <5>1
      <4> QED
        BY <4>1, <4>2
    <3>2. NextLine[Len(NextLine)] # "CR"
      <4>1. NextLine[Len(NextLine)] = m[Len(NextLine)]
        <5>1. Len(NextLine) \in 1 .. Len(NextLine)
          BY <3>1
        <5> QED
          BY <1>4, <2>6, <3>1, <5>1
      <4> QED
        BY <2>3, <3>1, <4>1
    <3>3. ASSUME NEW o \in Messages PROVE NextLine # Line(o)
      <4>1. Line(o)[Len(Line(o))] = "CR"
        BY LineTypes
      <4> QED
        BY <3>2, <4>1
    <3>4. NextLine # <<>>
      <4>1. Len(<<>>) = 0
        OBVIOUS
      <4>2. Len(NextLine) # 0
        BY <3>1
      <4> QED
        BY <4>1, <4>2
    <3> QED
      BY <3>3, <3>4
  <2> QED
    BY <2>8, <2>9
<1> QED
  BY <1>1, <1>7, <1>8 DEF Layout

--------------------------------------------------------------------------------
(* The texts *)

LEMMA ForwardsGoOn ==
  ASSUME \A i \in DOMAIN taken' : taken'[i].line = Line(said'[i]),
         NEW of \in [DOMAIN forwarded' -> Heard'],
         \A k, l \in DOMAIN forwarded' : k < l => of[k] < of[l],
         \A i \in Heard' : \E k \in DOMAIN forwarded' : of[k] = i,
         \A k \in DOMAIN forwarded' : forwarded'[k] = TextOf(said'[of[k]])
  PROVE  ForwardedAsSaid'
BY DEF ForwardedAsSaid

\* A message that is taken is forwarded if it is heard, after those before it.
LEMMA ForwardsNext ==
  ASSUME TypeOK, ~torn, ForwardedAsSaid, forwarded \in Seq(Texts),
         Len(taken) < Len(said), said' = said,
         taken' = Append(taken, [line |-> Line(said[Len(taken) + 1]), made |-> made]),
         forwarded' = forwarded \o (IF IsPrivmsg(said[Len(taken) + 1]) /\ made = "twitch_client"
                                    THEN <<TextOf(said[Len(taken) + 1])>> ELSE <<>>)
  PROVE  ForwardedAsSaid' /\ forwarded' \in Seq(Texts)
<1> DEFINE t == Len(taken)
           m == said[t + 1]
           F == Len(forwarded)
           heard == IsPrivmsg(m) /\ made = "twitch_client"
<1>1. /\ t \in Nat /\ F \in Nat
      /\ DOMAIN taken = 1 .. t /\ DOMAIN forwarded = 1 .. F
      /\ \A i \in 1 .. t : taken[i] \in [line : Seq(Lexeme), made : Stage]
  BY LenProperties, ElementOfSeq DEF TypeOK
<1>2. m \in Messages
  <2>1. t + 1 \in 1 .. Len(said)
    <3>1. Len(said) \in Nat
      BY LenProperties DEF TypeOK
    <3> QED
      BY <1>1, <3>1
  <2> QED
    BY <2>1, ElementOfSeq DEF TypeOK
<1>3. /\ DOMAIN taken' = 1 .. t + 1
      /\ \A i \in 1 .. t : taken'[i] = taken[i]
      /\ taken'[t + 1] = [line |-> Line(m), made |-> made]
  <2>1. [line |-> Line(m), made |-> made] \in [line : Seq(Lexeme), made : Stage]
    BY <1>2, LineTypes DEF TypeOK
  <2>2. taken \in Seq([line : Seq(Lexeme), made : Stage])
    BY DEF TypeOK
  <2> QED
    BY <2>1, <2>2, AppendFacts
<1>4. /\ \A i \in 1 .. t : taken[i].line = Line(said[i])
      /\ \E of \in [1 .. F -> Heard] :
           /\ \A k, l \in 1 .. F : k < l => of[k] < of[l]
           /\ \A i \in Heard : \E k \in 1 .. F : of[k] = i
           /\ \A k \in 1 .. F : forwarded[k] = TextOf(said[of[k]])
  BY <1>1 DEF ForwardedAsSaid
<1>5. Heard' = IF heard THEN Heard \cup {t + 1} ELSE Heard
  <2>1. \A i \in 1 .. t + 1 : i \in 1 .. t \/ i = t + 1
    BY <1>1
  <2>2. \A i \in 1 .. t : i \in 1 .. t + 1
    BY <1>1
  <2>3. t + 1 \in 1 .. t + 1 /\ t + 1 \notin 1 .. t
    BY <1>1
  <2>4. ASSUME NEW i \in 1 .. t PROVE i \in Heard' <=> i \in Heard
    BY <1>1, <1>3, <2>2, <2>4 DEF Heard
  <2>5. t + 1 \in Heard' <=> heard
    BY <1>3, <2>3 DEF Heard
  <2>6. Heard \subseteq 1 .. t /\ Heard' \subseteq 1 .. t + 1
    BY <1>1, <1>3 DEF Heard
  <2> HIDE DEF heard
  <2>7. ASSUME NEW i \in Heard' PROVE i \in Heard \/ (heard /\ i = t + 1)
    BY <2>1, <2>4, <2>5, <2>6
  <2>8. Heard \subseteq Heard'
    BY <2>4, <2>6
  <2> QED
    BY <2>5, <2>7, <2>8
<1>6. \A i \in DOMAIN taken' : taken'[i].line = Line(said'[i])
  <2>1. \A i \in 1 .. t + 1 : i \in 1 .. t \/ i = t + 1
    BY <1>1
  <2> QED
    BY <1>3, <1>4, <2>1
<1>7. PICK of \in [1 .. F -> Heard] :
        /\ \A k, l \in 1 .. F : k < l => of[k] < of[l]
        /\ \A i \in Heard : \E k \in 1 .. F : of[k] = i
        /\ \A k \in 1 .. F : forwarded[k] = TextOf(said[of[k]])
  BY <1>4
<1>8. CASE ~heard
  <2>1. forwarded' = forwarded
    BY <1>8, ConcatEmptySeq
  <2>2. Heard' = Heard
    BY <1>5, <1>8
  <2>3. of \in [DOMAIN forwarded' -> Heard']
    BY <1>1, <1>7, <2>1, <2>2
  <2>4. /\ \A k, l \in DOMAIN forwarded' : k < l => of[k] < of[l]
        /\ \A i \in Heard' : \E k \in DOMAIN forwarded' : of[k] = i
        /\ \A k \in DOMAIN forwarded' : forwarded'[k] = TextOf(said'[of[k]])
    BY <1>1, <1>7, <2>1, <2>2
  <2>5. ForwardedAsSaid'
    BY <1>6, <2>3, <2>4, ForwardsGoOn
  <2> QED
    BY <2>1, <2>5
<1>9. CASE heard
  <2>1. /\ forwarded' \in Seq(Texts)
        /\ DOMAIN forwarded' = 1 .. F + 1
        /\ \A k \in 1 .. F : forwarded'[k] = forwarded[k]
        /\ forwarded'[F + 1] = TextOf(m)
    <3>1. TextOf(m) \in Texts
      BY <1>2 DEF Texts
    <3>2. forwarded' = Append(forwarded, TextOf(m))
      <4>1. forwarded' = forwarded \o <<TextOf(m)>>
        BY <1>9
      <4> QED
        BY <3>1, <4>1, AppendIsConcat
    <3> HIDE DEF m
    <3> QED
      BY <3>1, <3>2, AppendFacts
  <2> DEFINE new == [k \in 1 .. F + 1 |-> IF k \in 1 .. F THEN of[k] ELSE t + 1]
  <2>2. /\ \A k \in 1 .. F + 1 : k \in 1 .. F \/ k = F + 1
        /\ \A k \in 1 .. F : k \in 1 .. F + 1
        /\ F + 1 \in 1 .. F + 1 /\ F + 1 \notin 1 .. F
    BY <1>1
  <2>3. Heard' = Heard \cup {t + 1}
    BY <1>5, <1>9
  <2>4. /\ new \in [1 .. F + 1 -> Heard']
        /\ \A k \in 1 .. F : new[k] = of[k]
        /\ new[F + 1] = t + 1
    BY <2>2, <2>3
  <2> HIDE DEF new
  <2>5. ASSUME NEW k \in 1 .. F + 1, NEW l \in 1 .. F + 1, k < l
        PROVE  new[k] < new[l]
    <3>1. k \in 1 .. F
      BY <1>1, <2>5
    <3>2. of[k] \in 1 .. t /\ new[k] = of[k]
      <4>1. Heard \subseteq 1 .. t
        BY <1>1 DEF Heard
      <4> QED
        BY <2>4, <3>1, <4>1
    <3>3. CASE l \in 1 .. F
      BY <1>7, <2>4, <2>5, <3>1, <3>3
    <3>4. CASE l = F + 1
      <4>1. new[l] = t + 1
        BY <2>4, <3>4
      <4> QED
        BY <1>1, <3>2, <4>1
    <3> QED
      BY <2>2, <3>3, <3>4
  <2>6. ASSUME NEW i \in Heard' PROVE \E k \in 1 .. F + 1 : new[k] = i
    <3>1. CASE i = t + 1
      BY <2>2, <2>4, <3>1
    <3>2. CASE i \in Heard
      <4>1. PICK k \in 1 .. F : of[k] = i
        BY <1>7, <3>2
      <4> QED
        BY <2>2, <2>4, <4>1
    <3> QED
      BY <2>3, <3>1, <3>2
  <2>7. ASSUME NEW k \in 1 .. F + 1 PROVE forwarded'[k] = TextOf(said[new[k]])
    BY <1>7, <2>1, <2>2, <2>4
  <2>8. new \in [DOMAIN forwarded' -> Heard']
    BY <2>1, <2>4
  <2>9. /\ \A k, l \in DOMAIN forwarded' : k < l => new[k] < new[l]
        /\ \A i \in Heard' : \E k \in DOMAIN forwarded' : new[k] = i
        /\ \A k \in DOMAIN forwarded' : forwarded'[k] = TextOf(said'[new[k]])
    BY <2>1, <2>5, <2>6, <2>7
  <2>10. ForwardedAsSaid'
    BY <1>6, <2>8, <2>9, ForwardsGoOn
  <2> QED
    BY <2>1, <2>10
<1> QED
  BY <1>8, <1>9

--------------------------------------------------------------------------------
(* The steps *)

LEMMA InitIInv == Init => IInv
<1> SUFFICES ASSUME Init PROVE IInv
  OBVIOUS
<1>1. TypeOK
  <2>1. /\ said = <<>> /\ stream = <<>> /\ response = <<>> /\ taken = <<>>
        /\ made = "resolving" /\ torn = FALSE /\ reading = "none"
    BY DEF Init
  <2>2. <<>> \in Seq(Messages) /\ <<>> \in Seq(Lexeme)
    OBVIOUS
  <2>3. <<>> \in Seq([line : Seq(Lexeme), made : Stage])
    OBVIOUS
  <2> QED
    BY <2>1, <2>2, <2>3 DEF TypeOK, Stage
<1>2. /\ Len(taken) = 0 /\ Len(said) = 0 /\ Len(Unread) = 0 /\ DOMAIN taken = {}
      /\ forwarded = <<>> /\ DOMAIN forwarded = {}
  BY DEF Init, Unread
<1>3. LaidOut(1, said, Unread)
  <2> DEFINE start == [k \in Nat |-> 1]
  <2>1. start \in [Nat -> Nat] /\ start[1] = 1
    OBVIOUS
  <2> HIDE DEF start
  <2>2. /\ 1 .. Len(said) + 1 = {1} /\ 1 .. Len(said) = {} /\ Len(said) + 1 = 1
        /\ Len(Unread) + 1 = 1 /\ 1 \in 1 .. 1
    BY <1>2
  <2>3. Layout(start, 1, said, Unread)
    BY <2>1, <2>2 DEF Layout
  <2> QED
    BY <2>1, <2>3 DEF LaidOut
<1>4. StreamInv
  BY <1>2, <1>3 DEF StreamInv
<1>5. forwarded \in Seq(Texts)
  BY <1>2
<1>6. ForwardedAsSaid
  <2> DEFINE of == [k \in {} |-> 0]
  <2>1. Heard = {}
    BY <1>2 DEF Heard
  <2>2. of \in [DOMAIN forwarded -> Heard]
    BY <1>2, <2>1
  <2> HIDE DEF of
  <2>3. \A i \in Heard : FALSE
    BY <2>1
  <2> QED
    BY <1>2, <2>2, <2>3 DEF ForwardedAsSaid
<1>7. CrashNeedsTornLine
  BY DEF Init, CrashNeedsTornLine
<1> QED
  BY <1>1, <1>4, <1>5, <1>6, <1>7 DEF IInv

\* Steps that leave the stream, the lines taken and the texts as they are.
LEMMA OtherSteps ==
  ASSUME IInv,
         UNCHANGED <<said, stream, response, taken, torn, forwarded>>,
         made' \in Stage, reading' = "loop" => reading = "loop",
         dead' = "no" \/ (dead' = "resolve" /\ made' = "resolving")
  PROVE  IInv'
<1>1. TypeOK'
  BY DEF IInv, TypeOK
<1>2. StreamInv'
  BY DEF IInv, StreamInv, LaidOut, Layout, Spells, Unread
<1>3. ForwardedAsSaid'
  BY DEF IInv, ForwardedAsSaid, Heard
<1>4. CrashNeedsTornLine'
  BY DEF CrashNeedsTornLine
<1> QED
  BY <1>1, <1>2, <1>3, <1>4 DEF IInv

LEMMA SaysStep ==
  ASSUME IInv, NEW m \in Messages, Says(m), dead = "no"
  PROVE  IInv'
<1> DEFINE new == stream \o m \o EndOfLine
           w == Len(Unread)
           c == Len(m)
           rest == response \o new
<1>1. /\ said' = Append(said, m) /\ stream' = new
      /\ UNCHANGED <<made, response, reading, taken, torn, forwarded, dead>>
  BY DEF Says, clientVars, takenVars
<1>2. TypeOK
  BY DEF IInv
<1>3. /\ m \in Seq(Lexeme) /\ c \in Nat
      /\ EndOfLine \in Seq(Lexeme) /\ Len(EndOfLine) = 2
      /\ EndOfLine[1] = "CR" /\ EndOfLine[2] = "LF"
  BY MessageTypes, EndTypes
<1>4. /\ response \in Seq(Lexeme) /\ stream \in Seq(Lexeme) /\ said \in Seq(Messages)
      /\ Unread \in Seq(Lexeme) /\ w \in Nat
  BY <1>2, UnreadFacts, LenProperties DEF TypeOK
<1>5. new \in Seq(Lexeme) /\ rest = (Unread \o m) \o EndOfLine
  <2>1. stream \o m \in Seq(Lexeme)
    BY <1>3, <1>4, ConcatProperties, Zenon
  <2>2. new \in Seq(Lexeme)
    BY <1>3, <2>1, ConcatProperties, Zenon
  <2>9. \A s, t, u \in Seq(Lexeme) : (s \o t) \o u = s \o (t \o u)
    BY ConcatAssociative
  <2>10. /\ response \in Seq(Lexeme) /\ stream \in Seq(Lexeme) /\ m \in Seq(Lexeme)
        /\ EndOfLine \in Seq(Lexeme)
    BY <1>3, <1>4
  <2> HIDE DEF new, rest
  <2>3. (response \o (stream \o m)) \o EndOfLine = response \o ((stream \o m) \o EndOfLine)
    <3> DEFINE t == stream \o m
    <3>1. t \in Seq(Lexeme)
      BY <2>1
    <3> HIDE DEF t
    <3>2. (response \o t) \o EndOfLine = response \o (t \o EndOfLine)
      BY <2>9, <2>10, <3>1, SMTT(30)
    <3> QED
      BY <3>2 DEF t
  <2>4. (response \o stream) \o m = response \o (stream \o m)
    BY <2>9, <2>10, ZenonT(30)
  <2>5. response \o stream = Unread
    BY DEF Unread
  <2>6. Unread \o m = response \o (stream \o m)
    BY <2>4, <2>5
  <2>7. new = (stream \o m) \o EndOfLine
    BY DEF new
  <2>8. rest = (Unread \o m) \o EndOfLine
    BY <2>3, <2>6, <2>7 DEF rest
  <2> QED
    BY <2>2, <2>8
<1>6. TypeOK'
  <2>1. said' \in Seq(Messages)
    BY <1>1, <1>4, AppendFacts
  <2> QED
    BY <1>1, <1>2, <1>5, <2>1 DEF TypeOK
<1>7. ASSUME ~torn
      PROVE  /\ Len(taken) <= Len(said) /\ Len(said) \in Nat /\ Len(taken) \in Nat
             /\ DOMAIN taken = 1 .. Len(taken)
             /\ \A i \in DOMAIN taken : taken[i].line = Line(said[i])
             /\ LaidOut(Len(taken) + 1, said, Unread)
  BY <1>2, <1>7, LenProperties DEF IInv, StreamInv, TypeOK
<1>8. /\ Len(said') = Len(said) + 1
      /\ \A i \in 1 .. Len(said) : said'[i] = said[i]
  BY <1>1, <1>4, AppendFacts
<1>9. ASSUME ~torn PROVE \A i \in DOMAIN taken : said'[i] = said[i]
  <2>1. \A i \in 1 .. Len(taken) : i \in 1 .. Len(said)
    BY <1>7, <1>9
  <2> QED
    BY <1>7, <1>8, <1>9, <2>1
<1>10. ASSUME ~torn PROVE LaidOut(Len(taken) + 1, said', rest)
  <2> HIDE DEF rest, new
  <2>1. PICK start \in [Nat -> Nat] : Layout(start, Len(taken) + 1, said, Unread)
    BY <1>7, <1>10 DEF LaidOut
  <2>2. /\ Unread \o m \in Seq(Lexeme) /\ Len(Unread \o m) = w + c
        /\ \A i \in 1 .. w + c : (Unread \o m)[i] = IF i <= w THEN Unread[i] ELSE m[i - w]
    BY <1>3, <1>4, ConcatProperties
  <2> DEFINE front == Unread \o m
  <2> HIDE DEF front
  <2>3. /\ rest \in Seq(Lexeme) /\ Len(rest) = Len(front) + Len(EndOfLine)
        /\ \A i \in 1 .. Len(front) + Len(EndOfLine) :
             rest[i] = IF i <= Len(front) THEN front[i] ELSE EndOfLine[i - Len(front)]
    <3>1. front \in Seq(Lexeme) /\ EndOfLine \in Seq(Lexeme)
      BY <1>3, <2>2 DEF front
    <3>2. rest = front \o EndOfLine
      BY <1>5 DEF front
    <3> QED
      BY <3>1, <3>2, ConcatProperties
  <2> HIDE DEF w, c
  <2>0. w \in Nat /\ c \in Nat
    BY <1>3, <1>4
  <2>4. /\ Len(front) = w + c /\ Len(rest) = w + c + 2
        /\ \A i \in 1 .. w + c : front[i] = IF i <= w THEN Unread[i] ELSE m[i - w]
        /\ \A i \in 1 .. w + c + 2 :
             rest[i] = IF i <= w + c THEN front[i] ELSE EndOfLine[i - (w + c)]
    BY <1>3, <2>2, <2>3 DEF front
  <2>5. \A i \in 1 .. w : rest[i] = Unread[i]
    <3>1. \A i \in 1 .. w : i \in 1 .. w + c /\ i \in 1 .. w + c + 2 /\ i <= w /\ i <= w + c
      BY <2>0
    <3> QED
      BY <2>4, <3>1
  <2>6. Spells(rest, w + 1, m)
    <3>1. ASSUME NEW i \in 1 .. c PROVE rest[w + 1 + i - 1] = m[i]
      <4>1. /\ w + 1 + i - 1 = w + i /\ w + i \in 1 .. w + c /\ w + i \in 1 .. w + c + 2
            /\ w + i <= w + c /\ ~(w + i <= w) /\ (w + i) - w = i
        BY <2>0
      <4> QED
        BY <2>4, <4>1
    <3>2. /\ w + 1 + c = w + c + 1 /\ w + c + 1 \in 1 .. w + c + 2
          /\ w + 1 + c + 1 = w + c + 2 /\ w + c + 2 \in 1 .. w + c + 2
          /\ ~(w + c + 1 <= w + c) /\ (w + c + 1) - (w + c) = 1
          /\ ~(w + c + 2 <= w + c) /\ (w + c + 2) - (w + c) = 2
      BY <2>0
    <3>3. rest[w + 1 + c] = "CR" /\ rest[w + 1 + c + 1] = "LF"
      BY <1>3, <2>4, <3>2
    <3> QED
      BY <3>1, <3>3 DEF Spells, c
  <2>7. Len(taken) + 1 \in Nat \ {0} /\ Len(taken) + 1 <= Len(said) + 1
    <3> DEFINE t == Len(taken)
               n == Len(said)
    <3>1. t \in Nat /\ n \in Nat /\ t <= n
      BY <1>7, <1>10
    <3> HIDE DEF t, n
    <3>2. t + 1 \in Nat \ {0} /\ t + 1 <= n + 1
      BY <3>1
    <3> QED
      BY <3>2 DEF t, n
  <2>8. Follows(start, Len(taken) + 1, said, Unread, rest, m)
    BY <1>4, <2>1, <2>3, <2>4, <2>5, <2>6, <2>7 DEF Follows, w, c
  <2> QED
    BY <1>1, <2>8, SaidLayout
<1>11. StreamInv'
  <2> SUFFICES ASSUME ~torn
               PROVE  /\ Len(taken) <= Len(said')
                      /\ \A i \in DOMAIN taken : taken[i].line = Line(said'[i])
                      /\ LaidOut(Len(taken) + 1, said', rest)
    BY <1>1 DEF StreamInv, Unread, LaidOut, Layout, Spells
  <2>1. Len(taken) <= Len(said')
    BY <1>7, <1>8
  <2> QED
    BY <1>7, <1>9, <1>10, <2>1
<1>12. ForwardedAsSaid'
  <2> SUFFICES ASSUME ~torn PROVE ForwardedAsSaid'
    BY <1>1 DEF ForwardedAsSaid
  <2>1. Heard' = Heard
    BY <1>1, <1>9 DEF Heard
  <2>2. \A i \in Heard : said'[i] = said[i]
    BY <1>9 DEF Heard
  <2>3. \A of \in [DOMAIN forwarded -> Heard] : \A k \in DOMAIN forwarded :
          said'[of[k]] = said[of[k]]
    BY <2>2
  <2>4. ForwardedAsSaid
    BY DEF IInv
  <2>5. PICK of \in [DOMAIN forwarded -> Heard] :
          /\ \A k, l \in DOMAIN forwarded : k < l => of[k] < of[l]
          /\ \A i \in Heard : \E k \in DOMAIN forwarded : of[k] = i
          /\ \A k \in DOMAIN forwarded : forwarded[k] = TextOf(said[of[k]])
    BY <2>4 DEF ForwardedAsSaid
  <2>6. \A i \in DOMAIN taken' : taken'[i].line = Line(said'[i])
    BY <1>1, <1>7, <1>9
  <2>7. of \in [DOMAIN forwarded' -> Heard'] /\ forwarded' = forwarded
    BY <1>1, <2>1
  <2>8. \A k \in DOMAIN forwarded' : forwarded'[k] = TextOf(said'[of[k]])
    BY <2>3, <2>5, <2>7
  <2> QED
    BY <2>1, <2>5, <2>6, <2>7, <2>8, ForwardsGoOn
<1>13. CrashNeedsTornLine'
  BY <1>1 DEF CrashNeedsTornLine
<1> QED
  BY <1>1, <1>6, <1>11, <1>12, <1>13 DEF IInv

\* What arrives only moves from one part of what is not yet taken to the other.
LEMMA ArriveStep ==
  ASSUME IInv, NEW n \in 1 .. Len(stream), Arrive(n), dead = "no"
  PROVE  IInv'
<1> DEFINE front == SubSeq(stream, 1, n)
           rest == SubSeq(stream, n + 1, Len(stream))
<1>1. /\ response' = response \o front /\ stream' = rest
      /\ reading = "pending"
      /\ UNCHANGED <<made, said, reading, taken, torn, forwarded, dead>>
  BY DEF Arrive, takenVars, From
<1>2. TypeOK
  BY DEF IInv
<1>3. /\ response \in Seq(Lexeme) /\ stream \in Seq(Lexeme)
      /\ n \in 0 .. Len(stream)
  <2>1. Len(stream) \in Nat
    BY <1>2, LenProperties DEF TypeOK
  <2> QED
    BY <1>2, <2>1 DEF TypeOK
<1>4. /\ front \in Seq(Lexeme) /\ rest \in Seq(Lexeme)
      /\ response \o stream = (response \o front) \o rest
  BY <1>3, CutFacts, CutRow
<1> HIDE DEF front, rest
<1>5. response \o front \in Seq(Lexeme)
  BY <1>3, <1>4, ConcatProperties
<1>6. TypeOK'
  BY <1>1, <1>2, <1>4, <1>5 DEF TypeOK
<1>7. Unread' = Unread
  BY <1>1, <1>4 DEF Unread
<1>8. StreamInv'
  <2>1. ASSUME ~torn
        PROVE  LaidOut(Len(taken) + 1, said', Unread')
    BY <1>1, <1>7, <2>1 DEF IInv, StreamInv
  <2> QED
    BY <1>1, <2>1 DEF IInv, StreamInv
<1>9. ForwardedAsSaid'
  BY <1>1 DEF IInv, ForwardedAsSaid, Heard
<1>10. CrashNeedsTornLine'
  BY <1>1 DEF CrashNeedsTornLine
<1> QED
  BY <1>1, <1>6, <1>8, <1>9, <1>10 DEF IInv

\* A round of the loop: the line is the next message, or empty, or it is torn.
LEMMA HandleLineStep ==
  ASSUME AllUnderstood, IInv, HandleLine, dead = "no"
  PROVE  IInv'
<1> DEFINE line == NextLine
           does == Take(Went[NextLine])
           entry == [line |-> line, made |-> made]
           whole == \E m \in Messages : line = Line(m)
<1>1. /\ response' = Left
      /\ reading' = IF Left = <<>> THEN "pending" ELSE "loop"
      /\ taken' = IF whole /\ ~torn THEN Append(taken, entry) ELSE taken
      /\ torn' = (torn \/ ~(whole \/ line = <<>>))
      /\ forwarded' = forwarded \o does.texts
      /\ dead' = does.fate
      /\ UNCHANGED <<made, said, stream>>
  BY DEF HandleLine, Note, serverVars
<1>2. TypeOK
  BY DEF IInv
<1>3. /\ Left \in Seq(Lexeme) /\ line \in Seq(Lexeme)
  BY <1>2, GetlineFacts
<1>4. response # <<>>
  <2>1. CASE reading = "loop"
    BY <1>2, <2>1 DEF TypeOK
  <2>2. CASE Delimited
    <3>1. PICK i \in 2 .. Len(response) : TRUE
      BY <2>2 DEF Delimited
    <3>2. response = <<>> => Len(response) = 0
      OBVIOUS
    <3> QED
      BY <3>1, <3>2
  <2> QED
    BY <2>1, <2>2 DEF HandleLine
<1>5. TypeOK'
  <2>1. entry \in [line : Seq(Lexeme), made : Stage]
    BY <1>2, <1>3 DEF TypeOK
  <2>2. Append(taken, entry) \in Seq([line : Seq(Lexeme), made : Stage])
    BY <1>2, <2>1, AppendFacts DEF TypeOK
  <2> HIDE DEF entry, whole, line, does
  <2>3. taken' \in Seq([line : Seq(Lexeme), made : Stage])
    BY <1>1, <1>2, <2>2 DEF TypeOK
  <2>4. torn' \in BOOLEAN
    <3>1. torn \in BOOLEAN
      BY <1>2 DEF TypeOK
    <3> QED
      BY <1>1, <3>1
  <2> QED
    BY <1>1, <1>2, <1>3, <2>3, <2>4 DEF TypeOK
<1>6. CASE torn
  <2>1. torn'
    BY <1>1, <1>6
  <2> QED
    BY <1>5, <2>1 DEF IInv, StreamInv, ForwardedAsSaid, CrashNeedsTornLine
<1>7. CASE ~torn
  <2>1. /\ Len(taken) <= Len(said)
        /\ \A i \in DOMAIN taken : taken[i].line = Line(said[i])
        /\ LaidOut(Len(taken) + 1, said, Unread)
        /\ forwarded \in Seq(Texts) /\ ForwardedAsSaid
    BY <1>7 DEF IInv, StreamInv
  <2>2. CASE torn'
    BY <1>5, <2>2 DEF IInv, StreamInv, ForwardedAsSaid, CrashNeedsTornLine
  <2>3. CASE /\ ~torn' /\ line = <<>> /\ Messages # {}
             /\ LaidOut(Len(taken) + 1, said, Left \o stream)
    <3>1. does.fate = "no" /\ does.texts = <<>>
      BY <2>3, TakeEmpty
    <3>2. ~whole
      <4>1. ASSUME NEW m \in Messages PROVE Line(m) # <<>>
        <5>1. Len(Line(m)) = Len(m) + 1 /\ Len(m) \in Nat
          BY LineTypes, MessageTypes
        <5>2. Line(m) = <<>> => Len(Line(m)) = 0
          OBVIOUS
        <5>3. Len(m) + 1 # 0
          BY <5>1
        <5> QED
          BY <5>1, <5>2, <5>3
      <4> QED
        BY <2>3, <4>1
    <3> HIDE DEF whole, does, entry, line
    <3>3. /\ taken' = taken /\ dead' = "no" /\ forwarded' = forwarded
          /\ Unread' = Left \o stream
      <4>1. forwarded \o <<>> = forwarded
        BY <2>1, ConcatEmptySeq
      <4> QED
        BY <1>1, <3>1, <3>2, <4>1 DEF Unread
    <3>4. StreamInv'
      BY <1>1, <2>1, <2>3, <3>3 DEF StreamInv
    <3>5. ForwardedAsSaid'
      <4>1. UNCHANGED <<taken, forwarded, said>>
        BY <1>1, <3>3
      <4>2. Heard' = Heard
        BY <4>1 DEF Heard
      <4> QED
        BY <1>7, <2>1, <2>3, <4>1, <4>2 DEF ForwardedAsSaid
    <3>6. CrashNeedsTornLine'
      BY <3>3 DEF CrashNeedsTornLine
    <3> QED
      BY <1>5, <2>1, <3>3, <3>4, <3>5, <3>6 DEF IInv
  <2>4. CASE /\ ~torn' /\ Len(taken) < Len(said) /\ line = Line(said[Len(taken) + 1])
             /\ LaidOut(Len(taken) + 2, said, Left \o stream)
    <3> DEFINE t == Len(taken)
               m == said[t + 1]
    <3>1. m \in Messages
      <4>1. t + 1 \in 1 .. Len(said)
        <5>1. t \in Nat /\ Len(said) \in Nat
          BY <1>2, LenProperties DEF TypeOK
        <5> QED
          BY <2>4, <5>1
      <4> QED
        BY <1>2, <4>1, ElementOfSeq DEF TypeOK
    <3>2. /\ does.fate = "no" \/ (does.fate = "early" /\ made = "members")
          /\ does.texts = IF IsPrivmsg(m) /\ made = "twitch_client" THEN <<TextOf(m)>> ELSE <<>>
      BY <2>4, <3>1, TakeWhole
    <3>3. whole
      BY <2>4, <3>1
    <3> HIDE DEF whole, does
    <3>4. /\ taken' = Append(taken, [line |-> Line(m), made |-> made])
          /\ Unread' = Left \o stream
      BY <1>1, <1>7, <2>4, <3>3 DEF Unread
    <3>5. ForwardedAsSaid' /\ forwarded' \in Seq(Texts)
      BY <1>1, <1>2, <1>7, <2>1, <2>4, <3>2, <3>4, ForwardsNext
    <3>6. /\ Len(taken') = t + 1 /\ t \in Nat
          /\ t + 1 \in DOMAIN taken' /\ taken'[t + 1].made = made
      <4>1. [line |-> Line(m), made |-> made] \in [line : Seq(Lexeme), made : Stage]
        BY <1>2, <3>1, LineTypes DEF TypeOK
      <4>2. taken \in Seq([line : Seq(Lexeme), made : Stage])
        BY <1>2 DEF TypeOK
      <4>3. t \in Nat
        BY <4>2, LenProperties
      <4>4. /\ Len(taken') = t + 1 /\ DOMAIN taken' = 1 .. t + 1
            /\ taken'[t + 1] = [line |-> Line(m), made |-> made]
        BY <3>4, <4>1, <4>2, AppendFacts
      <4> QED
        BY <4>3, <4>4
    <3>7. StreamInv'
      <4>1. Len(taken') <= Len(said') /\ Len(taken') + 1 = t + 2
        <5>1. Len(said) \in Nat
          BY <1>2, LenProperties DEF TypeOK
        <5> QED
          BY <1>1, <2>4, <3>6, <5>1
      <4>2. \A i \in DOMAIN taken' : taken'[i].line = Line(said'[i])
        BY <2>4, <3>5 DEF ForwardedAsSaid
      <4>3. LaidOut(Len(taken') + 1, said', Unread')
        BY <1>1, <2>4, <3>4, <4>1
      <4> QED
        BY <4>1, <4>2, <4>3 DEF StreamInv
    <3>8. CrashNeedsTornLine'
      BY <1>1, <3>2, <3>6 DEF CrashNeedsTornLine
    <3> QED
      BY <1>5, <3>5, <3>7, <3>8 DEF IInv
  <2>5. CASE line # <<>> /\ \A m \in Messages : line # Line(m)
    <3>1. torn'
      BY <1>1, <2>5
    <3> QED
      BY <2>2, <3>1
  <2> QED
    BY <1>2, <1>4, <2>1, <2>2, <2>3, <2>4, <2>5, LineTaken
<1> QED
  BY <1>6, <1>7

LEMMA NextIInv ==
  ASSUME AllUnderstood
  PROVE  IInv /\ [Next]_vars => IInv'
<1> SUFFICES ASSUME IInv, [Next]_vars PROVE IInv'
  OBVIOUS
<1> USE DEF serverVars, clientVars, takenVars
<1>1. made \in Stage
  BY DEF IInv, TypeOK
<1>2. CASE dead = "no" /\ Resolved
  BY <1>2, OtherSteps DEF Resolved, Stage
<1>3. CASE dead = "no" /\ Constructed
  BY <1>3, OtherSteps DEF Constructed, Stage
<1>4. CASE dead = "no" /\ Connected
  BY <1>1, <1>4, OtherSteps DEF Connected
<1>5. CASE dead = "no" /\ ConnectFails
  BY <1>1, <1>5, OtherSteps DEF ConnectFails
<1>6. CASE dead = "no" /\ HandleLine
  BY <1>6, HandleLineStep
<1>7. CASE dead = "no" /\ ReadFails
  BY <1>1, <1>7, OtherSteps DEF ReadFails
<1>8. ASSUME dead = "no", NEW m \in Messages, Says(m)
      PROVE  IInv'
  BY <1>8, SaysStep
<1>9. ASSUME dead = "no", NEW n \in 1 .. Len(stream), Arrive(n)
      PROVE  IInv'
  BY <1>9, ArriveStep
<1>10. CASE dead = "no" /\ Ends
  BY <1>1, <1>10, OtherSteps DEF Ends
<1>11. CASE UNCHANGED vars
  <2>1. UNCHANGED <<made, said, stream, response, reading, taken, torn, forwarded, dead>>
    BY <1>11 DEF vars
  <2>2. TypeOK'
    BY <2>1 DEF IInv, TypeOK
  <2>3. StreamInv'
    BY <2>1 DEF IInv, StreamInv, LaidOut, Layout, Spells, Unread
  <2>4. ForwardedAsSaid'
    BY <2>1 DEF IInv, ForwardedAsSaid, Heard
  <2>5. CrashNeedsTornLine'
    BY <2>1 DEF IInv, CrashNeedsTornLine
  <2> QED
    BY <2>1, <2>2, <2>3, <2>4, <2>5 DEF IInv
<1> QED
  BY <1>2, <1>3, <1>4, <1>5, <1>6, <1>7, <1>8, <1>9, <1>10, <1>11 DEF Next

--------------------------------------------------------------------------------
(* Theorems *)

\* Unless a line is torn, the lines taken are the messages the server sent, in
\* their order, and what was said in the channel since the client is made is
\* forwarded to the WebSocket, each text once and in that order (read and the
\* handler of read() in irc_client.cpp, privmsg in twitch_client.cpp).
THEOREM TextsAreForwarded ==
  ASSUME AllUnderstood
  PROVE  Spec => []ForwardedAsSaid
<1>1. IInv /\ [Next]_vars => IInv'
  BY NextIInv
<1>2. IInv => ForwardedAsSaid
  BY DEF IInv
<1> QED
  BY InitIInv, <1>1, <1>2, PTL DEF Spec

\* Messages that are taken whole, and are parsed as they are meant, end the
\* process only if one comes while the constructor of twitch_client is at its
\* members.
THEOREM WholeLinesDoNoHarm ==
  ASSUME AllUnderstood
  PROVE  Spec => []CrashNeedsTornLine
<1>1. IInv /\ [Next]_vars => IInv'
  BY NextIInv
<1>2. IInv => CrashNeedsTornLine
  BY DEF IInv
<1> QED
  BY InitIInv, <1>1, <1>2, PTL DEF Spec

--------------------------------------------------------------------------------
(* The constructors and the login, whatever the server says *)

\* The commands the client gives to send(), with parameters in S.
CommandsWith(S) == [name : {"PASS", "NICK", "PONG", "CAP", "JOIN"}, params : S]

StageInv ==
  /\ ReadsOnceLoggedIn
  /\ ActsAsMade
  /\ link = "connecting" => reading = "none" /\ sent = <<>>
  /\ made = "resolving" => link = "closed" /\ reading = "none" /\ sent = <<>>
  /\ \E S : sent \in Seq(CommandsWith(S))

\* What a line may do, be it parsed as it is meant or not.
LEMMA TakeCases ==
  ASSUME NEW to
  PROVE  /\ \/ Take(to).sends = <<>>
            \/ \E params : Take(to).sends = Pong(params)
            \/ made = "twitch_client" /\ Take(to).sends = Reply
         /\ made # "twitch_client" => Take(to).texts = <<>>
         /\ Take(to).fate \in {"no", "undefined", "terminate"}
              \/ (Take(to).fate = "early" /\ made = "members")
BY DEF Take, Does

\* What follows the login leaves it where it is.
LEMMA SendMore ==
  ASSUME NEW S, NEW old \in Seq(S), Len(old) >= 2, NEW more \in Seq(S)
  PROVE  /\ old \o more \in Seq(S)
         /\ Len(old \o more) >= 2
         /\ (old \o more)[1] = old[1] /\ (old \o more)[2] = old[2]
         /\ \A i \in DOMAIN (old \o more) :
              \/ i \in DOMAIN old /\ (old \o more)[i] = old[i]
              \/ \E k \in DOMAIN more : (old \o more)[i] = more[k]
<1> DEFINE new == old \o more
<1>1. /\ new \in Seq(S) /\ Len(new) = Len(old) + Len(more)
      /\ \A i \in 1 .. Len(old) + Len(more) :
           new[i] = IF i <= Len(old) THEN old[i] ELSE more[i - Len(old)]
  BY ConcatProperties
<1>2. /\ Len(old) \in Nat /\ Len(more) \in Nat
      /\ DOMAIN old = 1 .. Len(old) /\ DOMAIN more = 1 .. Len(more)
      /\ DOMAIN new = 1 .. Len(new)
  BY <1>1, LenProperties
<1> HIDE DEF new
<1>3. Len(new) >= 2 /\ new[1] = old[1] /\ new[2] = old[2]
  BY <1>1, <1>2
<1>4. ASSUME NEW i \in DOMAIN new
      PROVE  \/ i \in DOMAIN old /\ new[i] = old[i]
             \/ \E k \in DOMAIN more : new[i] = more[k]
  <2>1. CASE i <= Len(old)
    BY <1>1, <1>2, <2>1
  <2>2. CASE ~(i <= Len(old))
    <3>1. i - Len(old) \in 1 .. Len(more)
      BY <1>1, <1>2, <2>2
    <3> QED
      BY <1>1, <1>2, <2>2, <3>1
  <2> QED
    BY <2>1, <2>2
<1> QED
  BY <1>1, <1>3, <1>4 DEF new

\* A line is answered within what the stage of the constructor allows.
LEMMA HandleLineStage ==
  ASSUME StageInv, HandleLine, dead = "no"
  PROVE  StageInv'
<1> DEFINE does == Take(Went[NextLine])
<1>1. /\ sent' = sent \o does.sends /\ forwarded' = forwarded \o does.texts
      /\ dead' = does.fate
      /\ reading # "none" /\ reading' # "none"
      /\ UNCHANGED <<made, link>>
  BY DEF HandleLine
<1>2. /\ \/ does.sends = <<>>
         \/ \E params : does.sends = Pong(params)
         \/ made = "twitch_client" /\ does.sends = Reply
      /\ made # "twitch_client" => does.texts = <<>>
      /\ does.fate \in {"no", "undefined", "terminate"}
           \/ (does.fate = "early" /\ made = "members")
  BY TakeCases
<1> HIDE DEF does
<1>3. LoggedIn
  BY <1>1 DEF StageInv, ReadsOnceLoggedIn
<1>4. link # "connecting" /\ made # "resolving"
  BY <1>1 DEF StageInv
<1>5. PICK S : /\ sent \in Seq(CommandsWith(S)) /\ does.sends \in Seq(CommandsWith(S))
               /\ \A k \in DOMAIN does.sends :
                    made = "twitch_client" \/ does.sends[k].name = "PONG"
  <2>1. PICK T : sent \in Seq(CommandsWith(T))
    BY DEF StageInv
  <2>2. CASE does.sends = <<>>
    <3>1. does.sends \in Seq(CommandsWith(T)) /\ DOMAIN does.sends = {}
      BY <2>2
    <3> QED
      BY <2>1, <3>1
  <2>3. ASSUME NEW params, does.sends = Pong(params)
        PROVE  \E S : /\ sent \in Seq(CommandsWith(S)) /\ does.sends \in Seq(CommandsWith(S))
                      /\ \A k \in DOMAIN does.sends :
                           made = "twitch_client" \/ does.sends[k].name = "PONG"
    <3> DEFINE U == T \cup {params}
    <3>1. CommandsWith(T) \subseteq CommandsWith(U)
      BY DEF CommandsWith
    <3>2. sent \in Seq(CommandsWith(U))
      BY <2>1, <3>1, SeqMonotonic
    <3>3. Command("PONG", params) \in CommandsWith(U) /\ Command("PONG", params).name = "PONG"
      BY DEF Command, CommandsWith
    <3>4. /\ does.sends \in Seq(CommandsWith(U))
          /\ \A k \in DOMAIN does.sends : does.sends[k].name = "PONG"
      BY <2>3, <3>3 DEF Pong
    <3> QED
      BY <3>2, <3>4
  <2>4. CASE made = "twitch_client" /\ does.sends = Reply
    <3> DEFINE U == T \cup {<<"tags">>, <<"membership">>, <<"commands">>, <<>>}
    <3>1. CommandsWith(T) \subseteq CommandsWith(U)
      BY DEF CommandsWith
    <3>2. sent \in Seq(CommandsWith(U))
      BY <2>1, <3>1, SeqMonotonic
    <3>3. /\ Command("CAP", <<"tags">>) \in CommandsWith(U)
          /\ Command("CAP", <<"membership">>) \in CommandsWith(U)
          /\ Command("CAP", <<"commands">>) \in CommandsWith(U)
          /\ Command("JOIN", <<>>) \in CommandsWith(U)
      BY DEF Command, CommandsWith
    <3>4. does.sends \in Seq(CommandsWith(U))
      BY <2>4, <3>3 DEF Reply
    <3> QED
      BY <2>4, <3>2, <3>4
  <2> QED
    BY <1>2, <2>2, <2>3, <2>4
<1>6. /\ LoggedIn'
      /\ sent' \in Seq(CommandsWith(S))
      /\ \A i \in DOMAIN sent' : \/ i \in DOMAIN sent /\ sent'[i] = sent[i]
                               \/ \E k \in DOMAIN does.sends : sent'[i] = does.sends[k]
  <2> DEFINE more == does.sends
             new == sent \o more
  <2>1. sent \in Seq(CommandsWith(S)) /\ more \in Seq(CommandsWith(S)) /\ Len(sent) >= 2
    BY <1>3, <1>5 DEF LoggedIn
  <2>2. sent' = new
    BY <1>1
  <2> HIDE DEF more
  <2>3. /\ new \in Seq(CommandsWith(S)) /\ Len(new) >= 2
        /\ new[1] = sent[1] /\ new[2] = sent[2]
        /\ \A i \in DOMAIN new : \/ i \in DOMAIN sent /\ new[i] = sent[i]
                               \/ \E k \in DOMAIN more : new[i] = more[k]
    BY <2>1, SendMore
  <2> HIDE DEF new
  <2>4. LoggedIn'
    BY <1>3, <2>2, <2>3 DEF LoggedIn
  <2> QED
    BY <2>2, <2>3, <2>4 DEF more
<1>7. made # "twitch_client" => forwarded' = <<>>
  <2>1. made # "twitch_client" => forwarded = <<>>
    BY DEF StageInv, ActsAsMade
  <2>2. <<>> \o <<>> = <<>>
    BY ConcatEmptySeq
  <2> QED
    BY <1>1, <1>2, <2>1, <2>2
<1>8. made # "twitch_client" =>
        \A i \in DOMAIN sent' : sent'[i].name \in {"PASS", "NICK", "PONG"}
  BY <1>5, <1>6 DEF StageInv, ActsAsMade
<1>9. ReadsOnceLoggedIn'
  BY <1>1, <1>6 DEF ReadsOnceLoggedIn
<1>10. ActsAsMade'
  BY <1>1, <1>2, <1>7, <1>8 DEF ActsAsMade
<1> QED
  BY <1>1, <1>4, <1>6, <1>9, <1>10 DEF StageInv

\* The login is the first that is sent.
LEMMA ConnectedStage ==
  ASSUME StageInv, Connected, dead = "no"
  PROVE  StageInv'
<1> DEFINE login == <<Command("PASS", <<>>), Command("NICK", <<>>)>>
<1>1. sent = <<>> /\ made # "resolving"
  BY DEF StageInv, Connected
<1>2. /\ login \in Seq(CommandsWith({<<>>})) /\ Len(login) = 2 /\ DOMAIN login = 1 .. 2
      /\ login[1].name = "PASS" /\ login[2].name = "NICK"
  <2>1. Command("PASS", <<>>) \in CommandsWith({<<>>}) /\ Command("NICK", <<>>) \in CommandsWith({<<>>})
    BY DEF Command, CommandsWith
  <2> QED
    BY <2>1 DEF Command
<1>3. sent' = login
  <2>1. sent' = <<>> \o login
    BY <1>1 DEF Connected
  <2> HIDE DEF login
  <2> QED
    BY <1>2, <2>1, ConcatEmptySeq
<1> HIDE DEF login
<1>4. LoggedIn'
  BY <1>2, <1>3 DEF LoggedIn
<1>5. \A i \in DOMAIN sent' : sent'[i].name \in {"PASS", "NICK", "PONG"}
  BY <1>2, <1>3
<1>6. link' = "up" /\ reading' = "pending" /\ UNCHANGED <<made, forwarded, dead>>
  BY DEF Connected
<1>7. ReadsOnceLoggedIn'
  BY <1>4, <1>6 DEF ReadsOnceLoggedIn
<1>8. ActsAsMade'
  BY <1>5, <1>6 DEF StageInv, ActsAsMade
<1> QED
  BY <1>1, <1>2, <1>3, <1>6, <1>7, <1>8 DEF StageInv

\* While the socket is open the client reads, and it logs in before anything else;
\* what it does agrees with how far its constructor is, of which the connection's
\* thread knows nothing (twitch_client.cpp, irc_client.cpp).  No message has to be
\* parsed as it is meant.
THEOREM StagesAgree == Spec => [](ReadsOnceLoggedIn /\ ActsAsMade)
<1>1. Init => StageInv
  <2> SUFFICES ASSUME Init PROVE StageInv
    OBVIOUS
  <2>1. <<>> \in Seq(CommandsWith({})) /\ DOMAIN <<>> = {}
    OBVIOUS
  <2> QED
    BY <2>1 DEF Init, StageInv, ReadsOnceLoggedIn, ActsAsMade
<1>2. StageInv /\ [Next]_vars => StageInv'
  <2> SUFFICES ASSUME StageInv, [Next]_vars PROVE StageInv'
    OBVIOUS
  <2> USE DEF ReadsOnceLoggedIn, ActsAsMade, LoggedIn, clientVars, takenVars, serverVars
  <2>1. CASE UNCHANGED vars
    BY <2>1 DEF vars, StageInv
  <2>2. CASE dead = "no" /\ Resolved
    BY <2>2 DEF Resolved, StageInv
  <2>3. CASE dead = "no" /\ Constructed
    BY <2>3 DEF Constructed, StageInv
  <2>4. CASE dead = "no" /\ Connected
    BY <2>4, ConnectedStage
  <2>5. CASE dead = "no" /\ HandleLine
    BY <2>5, HandleLineStage
  <2>6. CASE dead = "no" /\ (ConnectFails \/ ReadFails \/ Ends)
    BY <2>6 DEF ConnectFails, ReadFails, Ends, StageInv
  <2>7. CASE dead = "no" /\ \E m \in Messages : Says(m)
    BY <2>7 DEF Says, StageInv
  <2>8. CASE dead = "no" /\ \E n \in 1 .. Len(stream) : Arrive(n)
    BY <2>8 DEF Arrive, StageInv
  <2> QED
    BY <2>1, <2>2, <2>3, <2>4, <2>5, <2>6, <2>7, <2>8 DEF Next
<1>3. StageInv => ReadsOnceLoggedIn /\ ActsAsMade
  BY DEF StageInv
<1> QED
  BY <1>1, <1>2, <1>3, PTL DEF Spec
================================================================================

--------------------------- MODULE SuperviseProofs ---------------------------
(***************************************************************************)
(* What supervise promises of a task's output, for any number of lines, any*)
(* capacity of the channels and any number of refused pushes: the channels *)
(* stay within their bound, the lines of a source arrive in order, and the *)
(* terminal report comes after the last of them.                           *)
(*                                                                         *)
(* The argument is about one sequence, Stream: a line that enters the log  *)
(* channel is appended to it, moving lines from there to the batch and to  *)
(* the server leaves it as it is, and only a refused push takes a piece    *)
(* out of its middle.                                                      *)
(***************************************************************************)
EXTENDS Supervise, SequenceTheorems, TLAPS

-----------------------------------------------------------------------------
(* Sequences of lines *)

\* A channel's first line and the rest of it
LEMMA FirstAndRest ==
    ASSUME NEW q \in Seq(Lines), q # <<>>
    PROVE  /\ Head(q) \in Lines /\ Tail(q) \in Seq(Lines) /\ Head(q) = q[1]
           /\ Len(q) \in Nat \ {0} /\ Len(Tail(q)) = Len(q) - 1
           /\ \A i \in 1 .. Len(Tail(q)) : Tail(q)[i] = q[i + 1]
           /\ <<Head(q)>> \o Tail(q) = q
<1>1. /\ Head(q) \in Lines /\ Tail(q) \in Seq(Lines) /\ Head(q) = q[1]
      /\ Len(q) \in Nat \ {0} /\ Len(Tail(q)) = Len(q) - 1
      /\ \A i \in 1 .. Len(Tail(q)) : Tail(q)[i] = q[i + 1]
  BY HeadTailProperties, EmptySeq
<1> DEFINE h == Head(q)
           tl == Tail(q)
<1>2. <<h>> \in Seq(Lines)
  BY <1>1
<1>3. Len(<<h>>) = 1 /\ <<h>>[1] = h
  OBVIOUS
<1> HIDE DEF h, tl
<1>4. <<h>> \o tl \in Seq(Lines) /\ Len(<<h>> \o tl) = 1 + Len(tl)
  BY <1>1, <1>2, <1>3, ConcatProperties DEF tl
<1>5. ASSUME NEW i \in 1 .. 1 + Len(tl)
      PROVE  (<<h>> \o tl)[i] = q[i]
  <2>1. (<<h>> \o tl)[i] = IF i =< 1 THEN <<h>>[i] ELSE tl[i - 1]
    BY <1>1, <1>2, <1>3, ConcatProperties DEF tl
  <2>2. CASE i = 1
    BY <1>1, <1>3, <2>1, <2>2 DEF h
  <2>3. CASE i # 1
    <3>1. i - 1 \in 1 .. Len(tl) /\ (i - 1) + 1 = i /\ ~(i =< 1)
      BY <1>1, <2>3 DEF tl
    <3>2. tl[i - 1] = q[(i - 1) + 1]
      BY <1>1, <3>1 DEF tl
    <3> QED
      BY <2>1, <3>1, <3>2
  <2> QED
    BY <2>2, <2>3
<1>6. Len(q) = 1 + Len(tl)
  BY <1>1 DEF tl
<1>7. <<h>> \o tl = q
  BY <1>4, <1>5, <1>6, SeqEqual
<1> QED
  BY <1>1, <1>7 DEF h, tl

\* Concatenation, of lines
LEMMA Associative ==
    ASSUME NEW x \in Seq(Lines), NEW y \in Seq(Lines), NEW z \in Seq(Lines)
    PROVE  (x \o y) \o z = x \o (y \o z)
  BY ConcatAssociative

\* rx.recv(): the line goes from one end to the other of the same sequence
LEMMA MoveAlong ==
    ASSUME NEW a \in Seq(Lines), NEW b \in Seq(Lines), NEW c \in Seq(Lines), c # <<>>
    PROVE  (a \o Append(b, Head(c))) \o Tail(c) = (a \o b) \o c
<1> DEFINE h == Head(c)
           tl == Tail(c)
<1>1. h \in Lines /\ tl \in Seq(Lines) /\ <<h>> \o tl = c
  BY FirstAndRest
<1>2. <<h>> \in Seq(Lines)
  BY <1>1
<1> HIDE DEF h, tl
<1>3. Append(b, h) = b \o <<h>>
  BY <1>1, AppendIsConcat
<1>4. a \o (b \o <<h>>) = (a \o b) \o <<h>>
  BY <1>2, ConcatAssociative
<1>5. a \o b \in Seq(Lines)
  BY ConcatProperties
<1>6. ((a \o b) \o <<h>>) \o tl = (a \o b) \o (<<h>> \o tl)
  BY <1>1, <1>2, <1>5, Associative
<1> QED
  BY <1>1, <1>3, <1>4, <1>6 DEF h, tl

\* A line that enters the log channel comes last
LEMMA EnterLast ==
    ASSUME NEW a \in Seq(Lines), NEW b \in Seq(Lines), NEW c \in Seq(Lines), NEW x \in Lines
    PROVE  (a \o b) \o Append(c, x) = Append((a \o b) \o c, x)
<1>1. <<x>> \in Seq(Lines)
  OBVIOUS
<1>2. a \o b \in Seq(Lines) /\ (a \o b) \o c \in Seq(Lines)
  BY ConcatProperties
<1>3. Append(c, x) = c \o <<x>> /\ Append((a \o b) \o c, x) = ((a \o b) \o c) \o <<x>>
  BY <1>2, AppendIsConcat
<1> QED
  BY <1>1, <1>2, <1>3, ConcatAssociative

\* Taking a piece out of the middle keeps what there is in its order
LEMMA DropMiddle ==
    ASSUME NEW a \in Seq(Lines), NEW b \in Seq(Lines), NEW c \in Seq(Lines)
    PROVE  /\ Ordered((a \o b) \o c) => Ordered(a \o c)
           /\ \A i \in DOMAIN (a \o c) : \E j \in DOMAIN ((a \o b) \o c) :
                 (a \o c)[i] = ((a \o b) \o c)[j]
<1> DEFINE whole == (a \o b) \o c
           left == a \o c
           k == Len(a)
           m == Len(b)
           n == Len(c)
           at(i) == IF i =< k THEN i ELSE i + m
<1>1. k \in Nat /\ m \in Nat /\ n \in Nat
  OBVIOUS
<1>2. a \o b \in Seq(Lines) /\ Len(a \o b) = k + m
  BY ConcatProperties
<1>3. /\ left \in Seq(Lines) /\ Len(left) = k + n /\ DOMAIN left = 1 .. k + n
      /\ whole \in Seq(Lines) /\ Len(whole) = (k + m) + n /\ DOMAIN whole = 1 .. (k + m) + n
  BY <1>2, ConcatProperties, LenProperties
<1>4. \A i \in 1 .. k + n : left[i] = IF i =< k THEN a[i] ELSE c[i - k]
  BY ConcatProperties
<1>5. \A i \in 1 .. (k + m) + n :
          whole[i] = IF i =< k + m THEN (a \o b)[i] ELSE c[i - (k + m)]
  BY <1>2, ConcatProperties
<1>6. \A i \in 1 .. k + m : (a \o b)[i] = IF i =< k THEN a[i] ELSE b[i - k]
  BY ConcatProperties
<1> HIDE DEF whole, left, k, m, n
<1>7. ASSUME NEW i \in 1 .. k + n
      PROVE  at(i) \in 1 .. (k + m) + n /\ whole[at(i)] = left[i]
  <2>1. CASE i =< k
    <3>1. i \in 1 .. k + m /\ i \in 1 .. (k + m) + n /\ i =< k + m
      BY <1>1, <2>1
    <3>2. whole[i] = a[i]
      BY <1>5, <1>6, <2>1, <3>1
    <3>3. left[i] = a[i]
      BY <1>4, <2>1
    <3> QED
      BY <2>1, <3>1, <3>2, <3>3
  <2>2. CASE ~(i =< k)
    <3>1. /\ i + m \in 1 .. (k + m) + n /\ ~(i + m =< k + m)
          /\ (i + m) - (k + m) = i - k
      BY <1>1, <2>2
    <3> QED
      BY <1>4, <1>5, <2>2, <3>1
  <2> QED
    BY <2>1, <2>2
<1>8. \A i, j \in 1 .. k + n : i < j => at(i) < at(j)
  BY <1>1
<1> HIDE DEF at
<1>9. Ordered(whole) => Ordered(left)
  BY <1>3, <1>7, <1>8 DEF Ordered
<1>10. \A i \in DOMAIN left : \E j \in DOMAIN whole : left[i] = whole[j]
  BY <1>3, <1>7
<1> QED
  BY <1>9, <1>10 DEF whole, left

\* A line that comes last and is later than those of its source
LEMMA OrderedAppend ==
    ASSUME NEW q \in Seq(Lines), Ordered(q), NEW x \in Lines,
           \A i \in DOMAIN q : q[i][1] = x[1] => q[i][2] < x[2]
    PROVE  Ordered(Append(q, x))
<1>1. /\ Append(q, x) \in Seq(Lines) /\ Len(Append(q, x)) = Len(q) + 1
      /\ \A i \in 1 .. Len(q) : Append(q, x)[i] = q[i]
      /\ Append(q, x)[Len(q) + 1] = x
  BY AppendProperties
<1>2. DOMAIN q = 1 .. Len(q) /\ DOMAIN Append(q, x) = 1 .. Len(q) + 1 /\ Len(q) \in Nat
  BY <1>1, LenProperties
<1> DEFINE z == Append(q, x)
<1> HIDE DEF z
<1>3. ASSUME NEW i \in 1 .. Len(q) + 1, NEW j \in 1 .. Len(q) + 1, i < j, z[i][1] = z[j][1]
      PROVE  z[i][2] < z[j][2]
  <2>1. i \in 1 .. Len(q) /\ z[i] = q[i]
    BY <1>1, <1>2, <1>3 DEF z
  <2>2. CASE j \in 1 .. Len(q)
    <3>1. z[j] = q[j]
      BY <1>1, <2>2 DEF z
    <3> QED
      BY <1>2, <1>3, <2>1, <2>2, <3>1 DEF Ordered
  <2>3. CASE j = Len(q) + 1
    <3>1. z[j] = x
      BY <1>1, <2>3 DEF z
    <3> QED
      BY <1>2, <1>3, <2>1, <3>1
  <2> QED
    BY <1>2, <2>2, <2>3
<1>4. Ordered(z)
  BY <1>2, <1>3 DEF Ordered, z
<1> QED
  BY <1>4 DEF z

\* Lines that are there stay there
LEMMA HasMore ==
    ASSUME NEW q \in Seq(Lines), NEW x \in Lines, NEW src, NEW k \in Nat, Has(q, src, k)
    PROVE  /\ Has(Append(q, x), src, k)
           /\ x = <<src, k + 1>> => Has(Append(q, x), src, k + 1)
<1> DEFINE z == Append(q, x)
<1>1. /\ z \in Seq(Lines) /\ Len(z) = Len(q) + 1
      /\ \A i \in 1 .. Len(q) : z[i] = q[i]
      /\ z[Len(q) + 1] = x
  BY AppendProperties
<1>2. DOMAIN q = 1 .. Len(q) /\ DOMAIN z = 1 .. Len(q) + 1 /\ Len(q) \in Nat
  BY <1>1, LenProperties
<1> HIDE DEF z
<1>3. 1 .. Len(q) \subseteq 1 .. Len(q) + 1
  BY <1>2
<1>4. Has(z, src, k)
  BY <1>1, <1>2, <1>3 DEF Has
<1>5. ASSUME x = <<src, k + 1>>
      PROVE  Has(z, src, k + 1)
  <2>1. SUFFICES ASSUME NEW n \in 1 .. k + 1
                 PROVE  \E i \in DOMAIN z : z[i] = <<src, n>>
    BY DEF Has
  <2>2. CASE n \in 1 .. k
    BY <1>4, <2>2 DEF Has
  <2>3. CASE n = k + 1
    BY <1>1, <1>2, <1>5, <2>3
  <2> QED
    BY <2>2, <2>3
<1> QED
  BY <1>4, <1>5 DEF z

-----------------------------------------------------------------------------
(* The inductive invariant, step by step *)

\* What the steps below need of TypeOK
LEMMA TypeFacts ==
    ASSUME TypeOK
    PROVE  /\ vlog \in Seq(Lines) /\ log \in Seq(Lines)
           /\ pending \in Seq(Lines) /\ pushed \in Seq(Lines)
           /\ Stream \in Seq(Lines)
           /\ refused \in Nat /\ MaxLines \in Nat /\ MaxRefused \in Nat
           /\ Capacity \in Nat /\ Len(vlog) \in Nat
           /\ \A s \in Sources : /\ buffer[s] \in Seq(Lines) /\ Len(buffer[s]) \in Nat
                                 /\ written[s] \in Nat /\ Taken(s) \in Int /\ Logged(s) \in Int
<1>1. MaxLines \in Nat /\ MaxRefused \in Nat /\ Capacity \in Nat
  BY SuperviseAssumption
<1>2. /\ vlog \in Seq(Lines) /\ log \in Seq(Lines)
      /\ pending \in Seq(Lines) /\ pushed \in Seq(Lines)
  BY DEF TypeOK
<1>3. Stream \in Seq(Lines)
  BY <1>2, ConcatProperties DEF Stream
<1>4. \A q \in Seq(Lines) : Len(q) \in Nat
  OBVIOUS
<1>5. \A s \in Sources : buffer[s] \in Seq(Lines) /\ written[s] \in Nat
  BY <1>1 DEF TypeOK
<1>6. refused \in Nat
  BY <1>1 DEF TypeOK
<1>7. \A s \in Sources : Taken(s) \in Int /\ Logged(s) \in Int
  BY <1>2, <1>4, <1>5 DEF Taken, Logged
<1> QED
  BY <1>1, <1>2, <1>3, <1>4, <1>5, <1>6, <1>7

\* A line has a source and a number
LEMMA LineParts ==
    ASSUME NEW x \in Lines
    PROVE  x[1] \in Sources /\ x[2] \in 1 .. MaxLines /\ x = <<x[1], x[2]>>
  BY DEF Lines

\* hub.register is done, and nothing is started
LEMMA InitIInv == Init => IInv
<1> SUFFICES ASSUME Init PROVE IInv
  OBVIOUS
<1>1. <<>> \in Seq(Lines) /\ Len(<<>>) = 0 /\ DOMAIN <<>> = {} /\ <<>> \o <<>> = <<>>
  OBVIOUS
<1>2. MaxLines \in Nat /\ MaxRefused \in Nat /\ Capacity \in Nat \ {0}
  BY SuperviseAssumption
<1>3. forward \in {"none", "off"} /\ inhub \in BOOLEAN /\ sub \in {"none", "watcher"}
  BY DEF Init
<1>4. TypeOK
  BY <1>1, <1>2, <1>3 DEF Init, TypeOK
<1>5. PhaseOK
  BY <1>3 DEF Init, PhaseOK, Pipes, Sources
<1>6. \A s \in Sources : Taken(s) = 0 /\ Logged(s) = 0 /\ buffer[s] = <<>>
  BY <1>1 DEF Init, Taken, Logged
<1>7. BuffersOK
  BY <1>1, <1>6 DEF Init, BuffersOK
<1>8. Stream = <<>>
  BY <1>1 DEF Init, Stream
<1>9. StreamOK
  BY <1>1, <1>6, <1>8 DEF StreamOK, Ordered, Has, Sources
<1> QED
  BY <1>4, <1>5, <1>7, <1>9 DEF IInv

\* The line that enters the log channel is the next of its source
LEMMA EnterStep ==
    ASSUME IInv, NEW s \in Sources, NEW x \in Lines, x = <<s, Logged(s) + 1>>,
           log' = Append(log, x), UNCHANGED <<pending, pushed, refused>>,
           \A q \in Sources : Logged(q)' = IF q = s THEN Logged(q) + 1 ELSE Logged(q)
    PROVE  StreamOK'
<1>1. /\ log \in Seq(Lines) /\ pending \in Seq(Lines) /\ pushed \in Seq(Lines)
      /\ Stream \in Seq(Lines) /\ \A q \in Sources : Logged(q) \in Int
  BY TypeFacts DEF IInv
<1>2. Stream' = Append(Stream, x)
  BY <1>1, EnterLast DEF Stream
<1>3. /\ Ordered(Stream)
      /\ \A q \in Sources : \A i \in DOMAIN Stream :
            Stream[i][1] = q => Stream[i][2] =< Logged(q)
      /\ refused = 0 => \A p \in Pipes : Has(Stream, p, Logged(p))
      /\ \A q \in Sources : Logged(q) \in Nat
  BY <1>1 DEF IInv, StreamOK, BuffersOK
<1> DEFINE z == Append(Stream, x)
<1>4. /\ z \in Seq(Lines) /\ DOMAIN z = 1 .. Len(Stream) + 1 /\ Len(Stream) \in Nat
      /\ DOMAIN Stream = 1 .. Len(Stream)
      /\ \A i \in 1 .. Len(Stream) : z[i] = Stream[i]
      /\ z[Len(Stream) + 1] = x
  BY <1>1, AppendProperties, LenProperties
<1>5. \A i \in DOMAIN Stream : Stream[i] \in Lines
  BY <1>1, ElementOfSeq, LenProperties
<1>6. \A i \in DOMAIN Stream : Stream[i][1] \in Sources /\ Stream[i][2] \in Nat
  <2>1. MaxLines \in Nat
    BY SuperviseAssumption
  <2> QED
    BY <1>5, <2>1, LineParts
<1>7. x[1] = s /\ x[2] = Logged(s) + 1
  OBVIOUS
<1>8. Ordered(z)
  <2>1. \A i \in DOMAIN Stream : Stream[i][1] = x[1] => Stream[i][2] < x[2]
    BY <1>3, <1>6, <1>7
  <2> QED
    BY <1>1, <1>3, <2>1, OrderedAppend
<1> HIDE DEF z
<1>9. ASSUME NEW q \in Sources, NEW i \in DOMAIN z, z[i][1] = q
      PROVE  z[i][2] =< Logged(q)'
  <2>1. Logged(q) \in Nat /\ Logged(q)' = IF q = s THEN Logged(q) + 1 ELSE Logged(q)
    BY <1>3
  <2>2. CASE i \in 1 .. Len(Stream)
    <3>1. z[i] = Stream[i] /\ Stream[i][2] \in Nat
      BY <1>4, <1>6, <2>2
    <3>2. Stream[i][2] =< Logged(q)
      BY <1>3, <1>4, <1>9, <2>2, <3>1
    <3> QED
      BY <2>1, <3>1, <3>2
  <2>3. CASE i = Len(Stream) + 1
    <3>1. z[i] = x /\ q = s
      BY <1>4, <1>7, <1>9, <2>3
    <3> QED
      BY <1>7, <2>1, <3>1
  <2> QED
    BY <1>4, <2>2, <2>3
<1>10. ASSUME refused = 0, NEW p \in Pipes
       PROVE  Has(z, p, Logged(p)')
  <2>1. p \in Sources /\ Logged(p) \in Nat /\ Has(Stream, p, Logged(p))
    BY <1>3, <1>10 DEF Sources
  <2>2. /\ Has(z, p, Logged(p))
        /\ x = <<p, Logged(p) + 1>> => Has(z, p, Logged(p) + 1)
    BY <1>1, <2>1, HasMore DEF z
  <2>3. CASE p = s
    BY <2>1, <2>2, <2>3
  <2>4. CASE p # s
    BY <2>1, <2>2, <2>4
  <2> QED
    BY <2>3, <2>4
<1>11. Stream' = z
  BY <1>2 DEF z
<1> QED
  BY <1>8, <1>9, <1>10, <1>11 DEF StreamOK

\* Nothing enters: what leaves is moved along, or the batch is dropped
LEMMA LeaveStep ==
    ASSUME IInv, \A q \in Sources : Logged(q)' = Logged(q),
           \/ Stream' = Stream /\ refused' = refused
           \/ Stream' = pushed \o log /\ refused' # 0
    PROVE  StreamOK'
<1>1. /\ log \in Seq(Lines) /\ pending \in Seq(Lines) /\ pushed \in Seq(Lines)
  BY TypeFacts DEF IInv
<1>2. /\ Ordered(Stream)
      /\ \A q \in Sources : \A i \in DOMAIN Stream :
            Stream[i][1] = q => Stream[i][2] =< Logged(q)
      /\ refused = 0 => \A p \in Pipes : Has(Stream, p, Logged(p))
  BY DEF IInv, StreamOK
<1>3. CASE Stream' = Stream /\ refused' = refused
  BY <1>2, <1>3 DEF StreamOK, Sources
<1>4. CASE Stream' = pushed \o log /\ refused' # 0
  <2>1. /\ Ordered(pushed \o log)
        /\ \A i \in DOMAIN (pushed \o log) : \E j \in DOMAIN Stream :
              (pushed \o log)[i] = Stream[j]
    BY <1>1, <1>2, DropMiddle DEF Stream
  <2> DEFINE left == pushed \o log
  <2>2. Stream' = left /\ Ordered(left)
    BY <1>4, <2>1
  <2>3. \A i \in DOMAIN left : \E j \in DOMAIN Stream : left[i] = Stream[j]
    BY <2>1
  <2> HIDE DEF left
  <2>4. ASSUME NEW q \in Sources, NEW i \in DOMAIN left, left[i][1] = q
        PROVE  left[i][2] =< Logged(q)'
    <3>1. PICK j \in DOMAIN Stream : left[i] = Stream[j]
      BY <2>3
    <3>2. Stream[j][2] =< Logged(q)
      BY <1>2, <2>4, <3>1
    <3> QED
      BY <3>1, <3>2
  <2> QED
    BY <1>4, <2>2, <2>4 DEF StreamOK
<1> QED
  BY <1>3, <1>4
-----------------------------------------------------------------------------
(* Types *)

\* What a channel or a buffer is after a line enters it
LEMMA Longer ==
    ASSUME NEW q \in Seq(Lines), NEW x \in Lines
    PROVE  /\ Append(q, x) \in Seq(Lines) /\ Len(q) \in Nat /\ Len(Append(q, x)) = Len(q) + 1
           /\ \A i \in 1 .. Len(q) : Append(q, x)[i] = q[i]
           /\ Append(q, x)[Len(q) + 1] = x
           /\ DOMAIN q = 1 .. Len(q) /\ DOMAIN Append(q, x) = 1 .. Len(q) + 1
  BY AppendProperties, LenProperties

\* A source that writes has written less than all of them may
LEMMA RoomToWrite ==
    ASSUME TypeOK, NEW s \in Sources, Write(s)
    PROVE  written[s] < MaxLines
<1>1. /\ written["stdout"] \in Nat /\ written["stderr"] \in Nat /\ written["vsock"] \in Nat
      /\ MaxLines \in Nat
  BY SuperviseAssumption DEF TypeOK, Sources, Pipes
<1>2. written["stdout"] + written["stderr"] + written["vsock"] < MaxLines
  BY DEF Write
<1>3. s = "stdout" \/ s = "stderr" \/ s = "vsock"
  BY DEF Sources, Pipes
<1> QED
  BY <1>1, <1>2, <1>3

\* Every action keeps the type invariant and the bound on the channels
LEMMA TypeStep == TypeOK /\ Next => TypeOK'
<1> SUFFICES ASSUME TypeOK, Next PROVE TypeOK'
  OBVIOUS
<1> USE DEF TypeOK, process, pumps
<1>1. /\ vlog \in Seq(Lines) /\ log \in Seq(Lines)
      /\ pending \in Seq(Lines) /\ pushed \in Seq(Lines)
      /\ MaxLines \in Nat /\ MaxRefused \in Nat /\ Capacity \in Nat
  BY TypeFacts
<1>2. <<>> \in Seq(Lines) /\ Len(<<>>) = 0
  OBVIOUS
<1>3. ASSUME NEW s \in Sources, Write(s) PROVE TypeOK'
  <2>1. written[s] \in 0 .. MaxLines /\ written[s] + 1 \in 0 .. MaxLines
    <3>1. written[s] < MaxLines
      BY <1>3, RoomToWrite
    <3> QED
      BY <1>1, <3>1
  <2>2. written' = [written EXCEPT ![s] = @ + 1] /\ written'[s] = written[s] + 1
    BY <1>3 DEF Write
  <2>3. <<s, written'[s]>> \in Lines
    BY <1>1, <2>1, <2>2 DEF Lines
  <2>4. Append(buffer[s], <<s, written'[s]>>) \in Seq(Lines)
    BY <2>3, Longer
  <2>5. buffer' \in [Sources -> Seq(Lines)]
    BY <1>3, <2>4 DEF Write
  <2>6. written' \in [Sources -> 0 .. MaxLines]
    BY <2>1, <2>2
  <2> QED
    BY <1>3, <2>5, <2>6 DEF Write
<1>4. CASE Dial
  BY <1>4 DEF Dial
<1>5. CASE Die
  BY <1>5 DEF Die
<1>6. CASE Handshake
  BY <1>6 DEF Handshake
<1>7. CASE HandleFrame
  <2>1. "vsock" \in Sources /\ buffer["vsock"] \in Seq(Lines) /\ buffer["vsock"] # <<>>
    BY <1>7 DEF HandleFrame, Sources
  <2>2. Head(buffer["vsock"]) \in Lines /\ Tail(buffer["vsock"]) \in Seq(Lines)
    BY <2>1, FirstAndRest
  <2>3. /\ Append(vlog, Head(buffer["vsock"])) \in Seq(Lines) /\ Len(vlog) \in Nat
        /\ Len(Append(vlog, Head(buffer["vsock"]))) = Len(vlog) + 1
    BY <1>1, <2>2, Longer
  <2>4. vlog' \in Seq(Lines) /\ Len(vlog') =< Capacity
    <3>1. CASE Room(vlog) /\ vlog' = Append(vlog, Head(buffer["vsock"]))
      BY <1>1, <2>3, <3>1 DEF Room
    <3>2. CASE vlog' = vlog
      BY <1>1, <3>2
    <3> QED
      BY <1>7, <3>1, <3>2 DEF HandleFrame
  <2>5. buffer' \in [Sources -> Seq(Lines)]
    BY <1>7, <2>1, <2>2 DEF HandleFrame
  <2>6. conn' \in {"none", "dialled", "open", "closed"}
    BY <1>7 DEF HandleFrame
  <2> QED
    BY <1>7, <2>4, <2>5, <2>6 DEF HandleFrame
<1>8. CASE Complete
  BY <1>8 DEF Complete, Notified
<1>9. CASE Subscribe
  BY <1>9 DEF Subscribe
<1>10. ASSUME NEW p \in Pipes, Pump(p) PROVE TypeOK'
  <2>1. p \in Sources /\ buffer[p] \in Seq(Lines)
    BY DEF Sources
  <2>2. CASE buffer[p] # <<>> /\ Room(log) /\ log' = Append(log, Head(buffer[p]))
             /\ buffer' = [buffer EXCEPT ![p] = Tail(@)] /\ pump' = pump
    <3>1. Head(buffer[p]) \in Lines /\ Tail(buffer[p]) \in Seq(Lines)
      BY <2>1, <2>2, FirstAndRest
    <3>2. /\ Append(log, Head(buffer[p])) \in Seq(Lines) /\ Len(log) \in Nat
          /\ Len(Append(log, Head(buffer[p]))) = Len(log) + 1
      BY <1>1, <3>1, Longer
    <3>3. log' \in Seq(Lines) /\ Len(log') =< Capacity
      BY <1>1, <2>2, <3>2 DEF Room
    <3>4. buffer' \in [Sources -> Seq(Lines)]
      BY <2>1, <2>2, <3>1
    <3> QED
      BY <1>10, <2>2, <3>3, <3>4 DEF Pump
  <2>3. CASE pump' = [pump EXCEPT ![p] = "ended"] /\ UNCHANGED <<log, buffer>>
    BY <1>10, <2>3 DEF Pump
  <2> QED
    BY <1>10, <2>2, <2>3 DEF Pump
<1>11. CASE Forward
  <2>1. CASE vlog # <<>> /\ Room(log) /\ log' = Append(log, Head(vlog))
             /\ vlog' = Tail(vlog) /\ forward' = forward
    <3>1. /\ Head(vlog) \in Lines /\ Tail(vlog) \in Seq(Lines)
          /\ Len(vlog) \in Nat /\ Len(Tail(vlog)) = Len(vlog) - 1
      BY <1>1, <2>1, FirstAndRest
    <3>2. /\ Append(log, Head(vlog)) \in Seq(Lines) /\ Len(log) \in Nat
          /\ Len(Append(log, Head(vlog))) = Len(log) + 1
      BY <1>1, <3>1, Longer
    <3>3. /\ log' \in Seq(Lines) /\ Len(log') =< Capacity
          /\ vlog' \in Seq(Lines) /\ Len(vlog') =< Capacity
      BY <1>1, <2>1, <3>1, <3>2 DEF Room
    <3> QED
      BY <1>11, <2>1, <3>3 DEF Forward
  <2>2. CASE forward' = "done" /\ UNCHANGED <<log, vlog>>
    BY <1>11, <2>2 DEF Forward
  <2> QED
    BY <1>11, <2>1, <2>2 DEF Forward
<1>12. CASE Spawn
  BY <1>12 DEF Spawn
<1>13. CASE SpawnFails
  BY <1>13 DEF SpawnFails
<1>14. CASE StartPumps
  BY <1>14 DEF StartPumps, Pipes
<1>15. CASE Receive
  <2>1. /\ Head(log) \in Lines /\ Tail(log) \in Seq(Lines)
        /\ Len(log) \in Nat /\ Len(Tail(log)) = Len(log) - 1
    BY <1>1, <1>15, FirstAndRest DEF Receive
  <2>2. Append(pending, Head(log)) \in Seq(Lines)
    BY <1>1, <2>1, Longer
  <2>3. log' \in Seq(Lines) /\ Len(log') =< Capacity /\ pending' \in Seq(Lines)
    BY <1>1, <1>15, <2>1, <2>2 DEF Receive
  <2> QED
    BY <1>15, <2>3 DEF Receive
<1>16. ASSUME Flush
       PROVE  pending' \in Seq(Lines) /\ pushed' \in Seq(Lines) /\ refused' \in 0 .. MaxRefused
  <2>1. pushed \o pending \in Seq(Lines)
    BY <1>1, ConcatProperties
  <2> QED
    <3>1. CASE pushed' = pushed \o pending /\ refused' = refused
      BY <1>1, <1>2, <1>16, <2>1, <3>1 DEF Flush
    <3>2. CASE refused < MaxRefused /\ pushed' = pushed /\ refused' = refused + 1
      <4>1. refused + 1 \in 0 .. MaxRefused
        BY <1>1, <3>2
      <4> QED
        BY <1>1, <1>2, <1>16, <3>2, <4>1 DEF Flush
    <3> QED
      BY <1>16, <3>1, <3>2 DEF Flush
<1>17. CASE FlushBatch
  BY <1>16, <1>17 DEF FlushBatch
<1>18. CASE Drain
  BY <1>16, <1>18 DEF Drain
<1>19. CASE ReportExit
  BY <1>19 DEF ReportExit
<1>20. CASE CleanUp
  BY <1>20 DEF CleanUp
<1>21. ASSUME NEW p \in Pipes, Close(p) PROVE TypeOK'
  BY <1>21 DEF Close
<1>22. ASSUME NEW p \in Pipes, PumpBreaks(p) PROVE TypeOK'
  BY <1>22 DEF PumpBreaks
<1> QED
  BY <1>3, <1>4, <1>5, <1>6, <1>7, <1>8, <1>9, <1>10, <1>11, <1>12, <1>13, <1>14,
     <1>15, <1>17, <1>18, <1>19, <1>20, <1>21, <1>22 DEF Next, ExecuteTask
-----------------------------------------------------------------------------
(* Phases *)

(***************************************************************************)
(* Outside supervise nothing holds a line or a sender of the log channel;  *)
(* a pump ends at the end of its pipe, which is read by then, or at a read *)
(* that fails, and supervise is left only when both pumps have ended.      *)
(***************************************************************************)
LEMMA PhaseStep == TypeOK /\ PhaseOK /\ Next => PhaseOK'
<1> SUFFICES ASSUME TypeOK, PhaseOK, Next PROVE PhaseOK'
  OBVIOUS
<1> USE DEF PhaseOK, process, pumps
<1>1. Pipes \subseteq Sources /\ "vsock" \notin Pipes
  BY DEF Pipes, Sources
<1>2. /\ pump \in [Pipes -> {"off", "reading", "ended"}]
      /\ buffer \in [Sources -> Seq(Lines)] /\ written \in [Sources -> 0 .. MaxLines]
      /\ step \in {"spawning", "running", "supervising", "waiting", "reported", "done"}
      /\ child \in {"none", "alive", "exited"}
  BY DEF TypeOK
<1>3. ASSUME NEW s \in Sources, Write(s) PROVE PhaseOK'
  BY <1>1, <1>2, <1>3 DEF Write
<1>4. CASE Dial
  BY <1>4 DEF Dial
<1>5. CASE Die
  BY <1>5 DEF Die
<1>6. CASE Handshake
  BY <1>6 DEF Handshake
<1>7. CASE HandleFrame
  BY <1>1, <1>2, <1>7 DEF HandleFrame
<1>8. CASE Complete
  BY <1>8 DEF Complete
<1>9. CASE Subscribe
  BY <1>9 DEF Subscribe
<1>10. ASSUME NEW p \in Pipes, Pump(p) PROVE PhaseOK'
  BY <1>1, <1>2, <1>10 DEF Pump
<1>11. CASE Forward
  BY <1>2, <1>11 DEF Forward
<1>12. CASE Spawn
  BY <1>2, <1>12 DEF Spawn
<1>13. CASE SpawnFails
  BY <1>2, <1>13 DEF SpawnFails
<1>14. CASE StartPumps
  BY <1>2, <1>14 DEF StartPumps
<1>15. CASE Receive
  BY <1>15 DEF Receive
<1>16. CASE FlushBatch
  BY <1>16 DEF FlushBatch, Flush
<1>17. CASE Drain
  BY <1>2, <1>17 DEF Drain, Flush, LogHeld
<1>18. CASE ReportExit
  BY <1>18 DEF ReportExit
<1>19. CASE CleanUp
  BY <1>19 DEF CleanUp
<1>20. ASSUME NEW p \in Pipes, Close(p) PROVE PhaseOK'
  BY <1>2, <1>20 DEF Close
<1>21. ASSUME NEW p \in Pipes, PumpBreaks(p) PROVE PhaseOK'
  BY <1>2, <1>21 DEF PumpBreaks
<1> QED
  BY <1>3, <1>4, <1>5, <1>6, <1>7, <1>8, <1>9, <1>10, <1>11, <1>12, <1>13, <1>14,
     <1>15, <1>16, <1>17, <1>18, <1>19, <1>20, <1>21 DEF Next, ExecuteTask
-----------------------------------------------------------------------------
(* Buffers and the stream *)

\* A step that touches neither the buffers nor the vsock channel
LEMMA Untouched ==
    ASSUME BuffersOK, UNCHANGED <<written, buffer, vlog>>
    PROVE  BuffersOK' /\ \A q \in Sources : Logged(q)' = Logged(q)
  BY DEF BuffersOK, Logged, Taken

\* A step that leaves the stream alone too
LEMMA Quiet ==
    ASSUME IInv, UNCHANGED <<written, buffer, vlog, log, pending, pushed, refused>>
    PROVE  BuffersOK' /\ StreamOK'
<1>1. BuffersOK' /\ \A q \in Sources : Logged(q)' = Logged(q)
  BY Untouched DEF IInv
<1>2. Stream' = Stream /\ refused' = refused
  BY DEF Stream
<1> QED
  BY <1>1, <1>2, LeaveStep

\* The guest writes: its line waits behind those of its buffer
LEMMA WriteStep == ASSUME IInv, NEW s \in Sources, Write(s) PROVE BuffersOK' /\ StreamOK'
<1>1. /\ \A q \in Sources : /\ buffer[q] \in Seq(Lines) /\ Len(buffer[q]) \in Nat
                            /\ written[q] \in Nat
      /\ buffer \in [Sources -> Seq(Lines)] /\ written \in [Sources -> 0 .. MaxLines]
      /\ Len(vlog) \in Nat /\ MaxLines \in Nat
  BY TypeFacts DEF IInv, TypeOK
<1>2. written[s] + 1 \in 1 .. MaxLines
  <2>1. written[s] < MaxLines
    BY RoomToWrite DEF IInv
  <2> QED
    BY <1>1, <2>1
<1>3. \A q \in Sources : written'[q] = IF q = s THEN written[q] + 1 ELSE written[q]
  BY <1>1 DEF Write
<1> DEFINE x == <<s, written[s] + 1>>
<1>4. x \in Lines
  BY <1>2 DEF Lines
<1>5. \A q \in Sources : buffer'[q] = IF q = s THEN Append(buffer[q], x) ELSE buffer[q]
  BY <1>1, <1>3 DEF Write
<1>6. /\ Len(Append(buffer[s], x)) = Len(buffer[s]) + 1
      /\ \A i \in 1 .. Len(buffer[s]) : Append(buffer[s], x)[i] = buffer[s][i]
      /\ Append(buffer[s], x)[Len(buffer[s]) + 1] = x
      /\ DOMAIN buffer[s] = 1 .. Len(buffer[s])
      /\ DOMAIN Append(buffer[s], x) = 1 .. Len(buffer[s]) + 1
  BY <1>1, <1>4, Longer
<1>7. vlog' = vlog /\ Stream' = Stream /\ refused' = refused
  BY DEF Write, Stream
<1>8. \A q \in Sources : Taken(q)' = Taken(q)
  <2> SUFFICES ASSUME NEW q \in Sources PROVE written'[q] - Len(buffer'[q]) = Taken(q)
    BY DEF Taken
  <2>1. CASE q = s
    <3>1. buffer'[q] = Append(buffer[s], x) /\ written'[q] = written[s] + 1
      BY <1>3, <1>5, <2>1
    <3>2. Len(buffer'[q]) = Len(buffer[s]) + 1
      BY <1>6, <3>1
    <3>3. \A k, m \in Nat : (k + 1) - (m + 1) = k - m
      OBVIOUS
    <3>4. Len(buffer[s]) \in Nat /\ written[s] \in Nat
      BY <1>1
    <3> QED
      BY <2>1, <3>1, <3>2, <3>3, <3>4 DEF Taken
  <2>2. CASE q # s
    BY <1>3, <1>5, <2>2 DEF Taken
  <2> QED
    BY <2>1, <2>2
<1>9. \A q \in Sources : Logged(q)' = Logged(q)
  BY <1>7, <1>8 DEF Logged
<1>10. /\ \A q \in Sources : Logged(q) >= 0
       /\ \A q \in Sources : \A i \in DOMAIN buffer[q] : buffer[q][i] = <<q, Taken(q) + i>>
       /\ \A i \in DOMAIN vlog : vlog[i] = <<"vsock", Logged("vsock") + i>>
  BY DEF IInv, BuffersOK
<1>11. ASSUME NEW q \in Sources, NEW i \in DOMAIN buffer'[q]
       PROVE  buffer'[q][i] = <<q, Taken(q) + i>>
  <2>1. CASE q # s
    BY <1>5, <1>10, <1>11, <2>1
  <2>2. CASE q = s
    <3>1. buffer'[q] = Append(buffer[s], x) /\ i \in 1 .. Len(buffer[s]) + 1
      BY <1>5, <1>6, <1>11, <2>2
    <3>2. CASE i \in 1 .. Len(buffer[s])
      BY <1>6, <1>10, <2>2, <3>1, <3>2
    <3>3. CASE i = Len(buffer[s]) + 1
      <4>1. Taken(s) + i = written[s] + 1
        BY <1>1, <3>3 DEF Taken
      <4> QED
        BY <1>6, <2>2, <3>1, <3>3, <4>1
    <3> QED
      BY <1>1, <3>1, <3>2, <3>3
  <2> QED
    BY <2>1, <2>2
<1>12. "vsock" \in Sources
  BY DEF Sources
<1>13. BuffersOK'
  BY <1>7, <1>8, <1>9, <1>10, <1>11, <1>12 DEF BuffersOK
<1>14. StreamOK'
  BY <1>7, <1>9, LeaveStep
<1> QED
  BY <1>13, <1>14

\* The handler hands the oldest line of the connection to the vsock channel
LEMMA FrameStep == ASSUME IInv, HandleFrame PROVE BuffersOK' /\ StreamOK'
<1>1. /\ \A q \in Sources : /\ buffer[q] \in Seq(Lines) /\ Len(buffer[q]) \in Nat
                            /\ written[q] \in Nat /\ Taken(q) \in Int /\ Logged(q) \in Int
      /\ buffer \in [Sources -> Seq(Lines)]
      /\ vlog \in Seq(Lines) /\ Len(vlog) \in Nat
  BY TypeFacts DEF IInv, TypeOK
<1>2. CASE UNCHANGED <<vlog, buffer>>
  BY <1>2, Quiet DEF HandleFrame
<1>3. CASE vlog' = Append(vlog, Head(buffer["vsock"]))
           /\ buffer' = [buffer EXCEPT !["vsock"] = Tail(@)]
  <2> DEFINE v == "vsock"
             x == Head(buffer["vsock"])
  <2>1. v \in Sources /\ buffer[v] \in Seq(Lines) /\ buffer[v] # <<>>
    BY <1>1 DEF HandleFrame, Sources
  <2>2. /\ x \in Lines /\ x = buffer[v][1] /\ Len(buffer[v]) \in Nat \ {0}
        /\ Tail(buffer[v]) \in Seq(Lines) /\ Len(Tail(buffer[v])) = Len(buffer[v]) - 1
        /\ \A i \in 1 .. Len(Tail(buffer[v])) : Tail(buffer[v])[i] = buffer[v][i + 1]
    BY <2>1, FirstAndRest
  <2>3. \A q \in Sources : DOMAIN buffer[q] = 1 .. Len(buffer[q])
    BY <1>1, LenProperties
  <2>4. DOMAIN Tail(buffer[v]) = 1 .. Len(buffer[v]) - 1
    BY <2>2, LenProperties
  <2>5. /\ Len(vlog') = Len(vlog) + 1 /\ DOMAIN vlog' = 1 .. Len(vlog) + 1
        /\ DOMAIN vlog = 1 .. Len(vlog) /\ \A i \in 1 .. Len(vlog) : vlog'[i] = vlog[i]
        /\ vlog'[Len(vlog) + 1] = x
    BY <1>1, <1>3, <2>2, Longer
  <2>6. /\ \A q \in Sources : Logged(q) >= 0
        /\ \A q \in Sources : \A i \in DOMAIN buffer[q] : buffer[q][i] = <<q, Taken(q) + i>>
        /\ \A i \in DOMAIN vlog : vlog[i] = <<"vsock", Logged("vsock") + i>>
    BY DEF IInv, BuffersOK
  <2>7. /\ \A q \in Sources : buffer'[q] = IF q = v THEN Tail(buffer[q]) ELSE buffer[q]
        /\ written' = written /\ Stream' = Stream /\ refused' = refused
    BY <1>1, <1>3 DEF HandleFrame, Stream
  <2>8. \A q \in Sources : Taken(q)' = IF q = v THEN Taken(q) + 1 ELSE Taken(q)
    <3> SUFFICES ASSUME NEW q \in Sources
                 PROVE  written[q] - Len(buffer'[q]) = IF q = v THEN Taken(q) + 1 ELSE Taken(q)
      BY <2>7 DEF Taken
    <3>1. CASE q = v
      <4>1. Len(buffer'[q]) = Len(buffer[v]) - 1
        BY <2>2, <2>7, <3>1
      <4>2. \A k, m \in Nat : k - (m - 1) = (k - m) + 1
        OBVIOUS
      <4>3. Len(buffer[v]) \in Nat /\ written[v] \in Nat
        BY <1>1, <2>1
      <4> QED
        BY <3>1, <4>1, <4>2, <4>3 DEF Taken
    <3>2. CASE q # v
      BY <2>7, <3>2 DEF Taken
    <3> QED
      BY <3>1, <3>2
  <2>9. \A q \in Sources : Logged(q)' = Logged(q)
    BY <1>1, <2>5, <2>8 DEF Logged
  <2>10. ASSUME NEW q \in Sources, NEW i \in DOMAIN buffer'[q]
         PROVE  buffer'[q][i] = <<q, Taken(q)' + i>>
    <3>1. CASE q # v
      BY <2>6, <2>7, <2>8, <2>10, <3>1
    <3>2. CASE q = v
      <4>1. /\ buffer'[q] = Tail(buffer[v]) /\ i \in 1 .. Len(Tail(buffer[v]))
            /\ i + 1 \in 1 .. Len(buffer[v])
        <5>1. buffer'[q] = Tail(buffer[v])
          BY <2>7, <3>2
        <5>2. i \in 1 .. Len(buffer[v]) - 1
          BY <2>4, <2>10, <5>1
        <5> QED
          BY <2>2, <5>1, <5>2
      <4>2. buffer[v][i + 1] = <<v, Taken(v) + (i + 1)>>
        BY <2>1, <2>3, <2>6, <4>1
      <4>3. Taken(v) + (i + 1) = Taken(q)' + i
        BY <1>1, <2>1, <2>2, <2>8, <3>2, <4>1
      <4> QED
        BY <2>2, <3>2, <4>1, <4>2, <4>3
    <3> QED
      BY <3>1, <3>2
  <2>11. ASSUME NEW i \in DOMAIN vlog'
         PROVE  vlog'[i] = <<"vsock", Logged("vsock") + i>>
    <3>1. CASE i \in 1 .. Len(vlog)
      BY <2>5, <2>6, <3>1
    <3>2. CASE i = Len(vlog) + 1
      <4>1. 1 \in DOMAIN buffer[v] /\ x = <<v, Taken(v) + 1>>
        BY <2>1, <2>2, <2>3, <2>6
      <4>2. Logged("vsock") + i = Taken(v) + 1
        BY <1>1, <2>1, <3>2 DEF Logged
      <4> QED
        BY <2>5, <3>2, <4>1, <4>2
    <3> QED
      BY <1>1, <2>5, <2>11, <3>1, <3>2
  <2>12. BuffersOK'
    BY <2>1, <2>6, <2>9, <2>10, <2>11 DEF BuffersOK
  <2>13. StreamOK'
    BY <2>7, <2>9, LeaveStep
  <2> QED
    BY <2>12, <2>13
<1> QED
  BY <1>2, <1>3 DEF HandleFrame
\* A pump sends the oldest line of its pipe, or ends
LEMMA PumpStep == ASSUME IInv, NEW p \in Pipes, Pump(p) PROVE BuffersOK' /\ StreamOK'
<1>1. /\ \A q \in Sources : /\ buffer[q] \in Seq(Lines) /\ Len(buffer[q]) \in Nat
                            /\ written[q] \in Nat /\ Taken(q) \in Int /\ Logged(q) \in Int
      /\ buffer \in [Sources -> Seq(Lines)]
  BY TypeFacts DEF IInv, TypeOK
<1>2. CASE UNCHANGED <<log, buffer>>
  BY <1>2, Quiet DEF Pump
<1>3. CASE /\ buffer[p] # <<>> /\ log' = Append(log, Head(buffer[p]))
           /\ buffer' = [buffer EXCEPT ![p] = Tail(@)]
  <2> DEFINE x == Head(buffer[p])
  <2>1. p \in Sources /\ p # "vsock" /\ buffer[p] \in Seq(Lines) /\ buffer[p] # <<>>
    BY <1>1, <1>3 DEF Sources, Pipes
  <2>2. /\ x \in Lines /\ x = buffer[p][1] /\ Len(buffer[p]) \in Nat \ {0}
        /\ Tail(buffer[p]) \in Seq(Lines) /\ Len(Tail(buffer[p])) = Len(buffer[p]) - 1
        /\ \A i \in 1 .. Len(Tail(buffer[p])) : Tail(buffer[p])[i] = buffer[p][i + 1]
    BY <2>1, FirstAndRest
  <2>3. /\ \A q \in Sources : DOMAIN buffer[q] = 1 .. Len(buffer[q])
        /\ DOMAIN Tail(buffer[p]) = 1 .. Len(buffer[p]) - 1
    BY <1>1, <2>2, LenProperties
  <2>4. /\ \A q \in Sources : Logged(q) >= 0
        /\ \A q \in Sources : \A i \in DOMAIN buffer[q] : buffer[q][i] = <<q, Taken(q) + i>>
        /\ \A i \in DOMAIN vlog : vlog[i] = <<"vsock", Logged("vsock") + i>>
    BY DEF IInv, BuffersOK
  <2>5. /\ \A q \in Sources : buffer'[q] = IF q = p THEN Tail(buffer[q]) ELSE buffer[q]
        /\ UNCHANGED <<written, vlog, pending, pushed, refused>>
    BY <1>1, <1>3 DEF Pump
  <2>6. \A q \in Sources : Taken(q)' = IF q = p THEN Taken(q) + 1 ELSE Taken(q)
    <3> SUFFICES ASSUME NEW q \in Sources
                 PROVE  written[q] - Len(buffer'[q]) = IF q = p THEN Taken(q) + 1 ELSE Taken(q)
      BY <2>5 DEF Taken
    <3>1. CASE q = p
      <4>1. Len(buffer'[q]) = Len(buffer[p]) - 1
        BY <2>2, <2>5, <3>1
      <4>2. \A k, m \in Nat : k - (m - 1) = (k - m) + 1
        OBVIOUS
      <4>3. Len(buffer[p]) \in Nat /\ written[p] \in Nat
        BY <1>1, <2>1
      <4> QED
        BY <3>1, <4>1, <4>2, <4>3 DEF Taken
    <3>2. CASE q # p
      BY <2>5, <3>2 DEF Taken
    <3> QED
      BY <3>1, <3>2
  <2>7. \A q \in Sources : Logged(q)' = IF q = p THEN Logged(q) + 1 ELSE Logged(q)
    BY <1>1, <2>1, <2>5, <2>6 DEF Logged
  <2>8. ASSUME NEW q \in Sources, NEW i \in DOMAIN buffer'[q]
        PROVE  buffer'[q][i] = <<q, Taken(q)' + i>>
    <3>1. CASE q # p
      BY <2>4, <2>5, <2>6, <2>8, <3>1
    <3>2. CASE q = p
      <4>1. buffer'[q] = Tail(buffer[p])
        BY <2>5, <3>2
      <4>2. i \in 1 .. Len(buffer[p]) - 1
        BY <2>3, <2>8, <4>1
      <4>3. i \in 1 .. Len(Tail(buffer[p])) /\ i + 1 \in 1 .. Len(buffer[p])
        BY <2>2, <4>2
      <4>4. buffer[p][i + 1] = <<p, Taken(p) + (i + 1)>>
        BY <2>1, <2>3, <2>4, <4>3
      <4>5. Taken(p) + (i + 1) = Taken(q)' + i
        BY <1>1, <2>1, <2>2, <2>6, <3>2, <4>3
      <4> QED
        BY <2>2, <3>2, <4>1, <4>3, <4>4, <4>5
    <3> QED
      BY <3>1, <3>2
  <2>9. BuffersOK'
    <3>1. "vsock" \in Sources /\ \A q \in Sources : Logged(q)' >= 0
      BY <1>1, <2>4, <2>7 DEF Sources
    <3>2. \A i \in DOMAIN vlog' : vlog'[i] = <<"vsock", Logged("vsock")' + i>>
      BY <2>1, <2>4, <2>5, <2>7, <3>1
    <3> QED
      BY <2>8, <3>1, <3>2 DEF BuffersOK
  <2>10. x = <<p, Logged(p) + 1>>
    <3>1. 1 \in DOMAIN buffer[p] /\ x = <<p, Taken(p) + 1>>
      BY <2>1, <2>2, <2>3, <2>4
    <3>2. Logged(p) = Taken(p)
      BY <1>1, <2>1 DEF Logged
    <3> QED
      BY <3>1, <3>2
  <2>11. StreamOK'
    BY <1>3, <2>1, <2>2, <2>5, <2>7, <2>10, EnterStep
  <2> QED
    BY <2>9, <2>11
<1> QED
  BY <1>2, <1>3 DEF Pump

\* The forwarder sends the oldest line of the vsock channel, or ends
LEMMA ForwardStep == ASSUME IInv, Forward PROVE BuffersOK' /\ StreamOK'
<1>1. /\ \A q \in Sources : Taken(q) \in Int /\ Logged(q) \in Int
      /\ vlog \in Seq(Lines)
  BY TypeFacts DEF IInv
<1>2. CASE UNCHANGED <<log, vlog>>
  BY <1>2, Quiet DEF Forward
<1>3. CASE vlog # <<>> /\ log' = Append(log, Head(vlog)) /\ vlog' = Tail(vlog)
  <2> DEFINE v == "vsock"
             x == Head(vlog)
  <2>1. /\ x \in Lines /\ x = vlog[1] /\ Len(vlog) \in Nat \ {0}
        /\ Tail(vlog) \in Seq(Lines) /\ Len(Tail(vlog)) = Len(vlog) - 1
        /\ \A i \in 1 .. Len(Tail(vlog)) : Tail(vlog)[i] = vlog[i + 1]
    BY <1>1, <1>3, FirstAndRest
  <2>2. DOMAIN vlog = 1 .. Len(vlog) /\ DOMAIN Tail(vlog) = 1 .. Len(vlog) - 1
    BY <1>1, <2>1, LenProperties
  <2>3. /\ \A q \in Sources : Logged(q) >= 0
        /\ \A q \in Sources : \A i \in DOMAIN buffer[q] : buffer[q][i] = <<q, Taken(q) + i>>
        /\ \A i \in DOMAIN vlog : vlog[i] = <<v, Logged(v) + i>>
    BY DEF IInv, BuffersOK
  <2>4. UNCHANGED <<written, buffer, pending, pushed, refused>> /\ v \in Sources
    BY DEF Forward, Sources
  <2>5. \A q \in Sources : Taken(q)' = Taken(q)
    BY <2>4 DEF Taken
  <2>6. \A q \in Sources : Logged(q)' = IF q = v THEN Logged(q) + 1 ELSE Logged(q)
    <3>1. Len(vlog') = Len(vlog) - 1
      BY <1>3, <2>1
    <3> HIDE <1>3
    <3>2. \A k \in Int : \A m \in Nat : k - (m - 1) = (k - m) + 1
      OBVIOUS
    <3> QED
      BY <1>1, <2>1, <2>5, <3>1, <3>2 DEF Logged
  <2>7. ASSUME NEW i \in DOMAIN vlog'
        PROVE  vlog'[i] = <<v, Logged(v)' + i>>
    <3>1. i \in 1 .. Len(vlog) - 1
      BY <1>3, <2>2, <2>7
    <3>2. i \in 1 .. Len(Tail(vlog)) /\ i + 1 \in 1 .. Len(vlog)
      BY <2>1, <3>1
    <3>3. vlog[i + 1] = <<v, Logged(v) + (i + 1)>>
      BY <2>2, <2>3, <3>2
    <3>4. Logged(v) + (i + 1) = Logged(v)' + i
      BY <1>1, <2>1, <2>4, <2>6, <3>1
    <3> QED
      BY <1>3, <2>1, <3>2, <3>3, <3>4
  <2>8. BuffersOK'
    <3>1. \A q \in Sources : Logged(q)' >= 0
      BY <1>1, <2>3, <2>6
    <3> QED
      BY <2>3, <2>4, <2>5, <2>7, <3>1 DEF BuffersOK
  <2>9. x = <<v, Logged(v) + 1>>
    BY <2>1, <2>2, <2>3
  <2>10. StreamOK'
    BY <1>3, <2>1, <2>4, <2>6, <2>9, EnterStep
  <2> QED
    BY <2>8, <2>10
<1> QED
  BY <1>2, <1>3 DEF Forward

\* rx.recv(): from the log channel to the batch
LEMMA ReceiveStep == ASSUME IInv, Receive PROVE BuffersOK' /\ StreamOK'
<1>1. /\ log \in Seq(Lines) /\ pending \in Seq(Lines) /\ pushed \in Seq(Lines)
  BY TypeFacts DEF IInv
<1>2. log # <<>> /\ log' = Tail(log) /\ pending' = Append(pending, Head(log))
      /\ pushed' = pushed /\ refused' = refused
  BY DEF Receive
<1>3. Stream' = Stream
  BY <1>1, <1>2, MoveAlong DEF Stream
<1>4. BuffersOK' /\ \A q \in Sources : Logged(q)' = Logged(q)
  BY Untouched DEF IInv, Receive
<1> QED
  BY <1>2, <1>3, <1>4, LeaveStep

\* flush_logs: from the batch to the server, or lost
LEMMA FlushStep ==
    ASSUME IInv, Flush, UNCHANGED <<written, buffer, vlog, log>>
    PROVE  BuffersOK' /\ StreamOK'
<1>1. /\ log \in Seq(Lines) /\ pending \in Seq(Lines) /\ pushed \in Seq(Lines)
      /\ refused \in Nat
  BY TypeFacts DEF IInv
<1>2. BuffersOK' /\ \A q \in Sources : Logged(q)' = Logged(q)
  BY Untouched DEF IInv
<1>3. pushed \o <<>> = pushed /\ (pushed \o pending) \o <<>> = pushed \o pending
  <2>1. pushed \o pending \in Seq(Lines)
    BY <1>1, ConcatProperties
  <2> QED
    BY <1>1, <2>1, ConcatEmptySeq
<1>4. pending' = <<>> /\ log' = log
  BY DEF Flush
<1>5. CASE pushed' = pushed \o pending /\ refused' = refused
  <2>1. Stream' = Stream
    BY <1>3, <1>4, <1>5 DEF Stream
  <2> QED
    BY <1>2, <1>5, <2>1, LeaveStep
<1>6. CASE pushed' = pushed /\ refused' = refused + 1
  <2>1. Stream' = pushed \o log
    BY <1>3, <1>4, <1>6 DEF Stream
  <2>2. refused' # 0
    BY <1>1, <1>6
  <2> QED
    BY <1>2, <2>1, <2>2, LeaveStep
<1> QED
  BY <1>5, <1>6 DEF Flush

-----------------------------------------------------------------------------
(* The theorems *)

\* Each action keeps the types, the phases, and what the buffers and the stream hold
LEMMA Step == IInv /\ [Next]_vars => IInv'
<1> SUFFICES ASSUME IInv, [Next]_vars PROVE IInv'
  OBVIOUS
<1>1. CASE UNCHANGED vars
  <2>1. TypeOK' /\ PhaseOK'
    BY <1>1 DEF vars, process, pumps, IInv, TypeOK, PhaseOK
  <2>2. BuffersOK' /\ StreamOK'
    BY <1>1, Quiet DEF vars
  <2> QED
    BY <2>1, <2>2 DEF IInv
<1>2. CASE Next
  <2>1. TypeOK' /\ PhaseOK'
    BY <1>2, TypeStep, PhaseStep DEF IInv
  <2> SUFFICES BuffersOK' /\ StreamOK'
    BY <2>1 DEF IInv
  <2>2. ASSUME NEW s \in Sources, Write(s) PROVE BuffersOK' /\ StreamOK'
    BY <2>2, WriteStep
  <2>3. CASE HandleFrame
    BY <2>3, FrameStep
  <2>4. ASSUME NEW p \in Pipes, Pump(p) PROVE BuffersOK' /\ StreamOK'
    BY <2>4, PumpStep
  <2>5. CASE Forward
    BY <2>5, ForwardStep
  <2>6. CASE Receive
    BY <2>6, ReceiveStep
  <2>7. CASE FlushBatch
    BY <2>7, FlushStep DEF FlushBatch
  <2>8. CASE Drain
    BY <2>8, FlushStep DEF Drain
  <2>9. CASE Dial \/ Die \/ Handshake \/ Complete \/ Subscribe
    BY <2>9, Quiet DEF Dial, Die, Handshake, Complete, Subscribe
  <2>11. ASSUME NEW p \in Pipes, Close(p) \/ PumpBreaks(p) PROVE BuffersOK' /\ StreamOK'
    BY <2>11, Quiet DEF Close, PumpBreaks
  <2>10. CASE Spawn \/ SpawnFails \/ StartPumps \/ ReportExit \/ CleanUp
    BY <2>10, Quiet DEF Spawn, SpawnFails, StartPumps, ReportExit, CleanUp
  <2> QED
    BY <1>2, <2>2, <2>3, <2>4, <2>5, <2>6, <2>7, <2>8, <2>9, <2>10, <2>11
       DEF Next, ExecuteTask
<1> QED
  BY <1>1, <1>2

(***************************************************************************)
(* The invariant of one task on its agent holds for every capacity, every  *)
(* number of lines and every number of refused pushes, with a guest that   *)
(* has a connection and one that has none.                                 *)
(***************************************************************************)
THEOREM Invariance == Spec => []IInv
  BY InitIInv, Step, PTL DEF Spec

(***************************************************************************)
(* Variables have their types, and no channel is ever over its capacity.   *)
(***************************************************************************)
THEOREM TypeCorrect == Spec => []TypeOK
<1>1. IInv => TypeOK
  BY DEF IInv
<1> QED
  BY <1>1, Invariance, PTL

(***************************************************************************)
(* The lines of one source reach the server in the order it wrote them:    *)
(* the pumps and the forwarder feed one channel, and what leaves it passes *)
(* through the batch in turn; a push that fails leaves a gap and moves     *)
(* nothing.                                                                *)
(***************************************************************************)
THEOREM LinesInOrder == Spec => []OrderKept
<1>1. IInv => OrderKept
  BY DEF IInv, StreamOK, OrderKept
<1> QED
  BY <1>1, Invariance, PTL

(***************************************************************************)
(* When the task's terminal state is reported, every line that was read of *)
(* its output is with the server, unless a push failed, and every line was *)
(* read, unless a read of that pipe failed: supervise leaves its loop only *)
(* when the channel is empty and both pumps dropped their senders, and a   *)
(* pump does so only at the end of its pipe or at a read that fails.       *)
(***************************************************************************)
THEOREM NothingIsMissing == Spec => []OutputFirst
<1>1. ASSUME IInv PROVE OutputFirst
  <2> SUFFICES ASSUME step \in {"reported", "done"}, NEW p \in Pipes
               PROVE  /\ refused = 0 => Has(pushed, p, Taken(p))
                      /\ p \notin broken => Taken(p) = written[p]
    BY DEF OutputFirst
  <2>1. /\ pushed \in Seq(Lines) /\ written[p] \in Nat /\ p \in Sources /\ p # "vsock"
        /\ Len(buffer[p]) \in Nat /\ Taken(p) \in Int
    BY <1>1, TypeFacts DEF IInv, Sources, Pipes
  <2>2. ASSUME refused = 0 PROVE Has(pushed, p, Taken(p))
    <3>1. log = <<>> /\ pending = <<>>
      BY <1>1 DEF IInv, PhaseOK
    <3>2. Stream = pushed
      <4>1. pushed \o <<>> = pushed
        BY <2>1, ConcatEmptySeq
      <4> QED
        BY <3>1, <4>1 DEF Stream
    <3>3. Logged(p) = Taken(p)
      BY <2>1 DEF Logged
    <3> QED
      BY <1>1, <2>2, <3>2, <3>3 DEF IInv, StreamOK
  <2>3. ASSUME p \notin broken PROVE Taken(p) = written[p]
    <3>1. buffer[p] = <<>>
      BY <1>1, <2>1, <2>3 DEF IInv, PhaseOK
    <3>2. Len(buffer[p]) = 0
      BY <3>1
    <3> QED
      BY <2>1, <3>2 DEF Taken
  <2> QED
    BY <2>2, <2>3
<1> QED
  BY <1>1, Invariance, PTL
=============================================================================

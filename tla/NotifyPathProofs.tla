--------------------------- MODULE NotifyPathProofs ---------------------------
(***************************************************************************)
(* The way of a notification.  First its FIFO, for every number of lines,  *)
(* every text, every size of a read and every cutting of reads and writes: *)
(* what the runner's splitting returns, that lines are queued in order and *)
(* none twice, and that every queued line ends with one whole line of one  *)
(* writer.  Then the path: the FIFO and the pipe together are one channel, *)
(* with what RoomPipeProofs proves of the pipe.                            *)
(***************************************************************************)
EXTENDS NotifyPath, WellFoundedInduction, TLAPS

Bytes == [line : Nat, char : {"a", "h", "t", "nl", "?"}]

\* What has been begun and not yet been queued or lost, in the order the runner will
\* see it: the buffer, the FIFO, and what the writer has still to write.
Stream == buffer \o fifo \o todo

\* How much of it has been written.
Written == Len(buffer) + Len(fifo)

\* b may come before c: lines do not mix, and a newline ends its line.
Before(b, c) == b.line < c.line \/ (b.line = c.line /\ b.char # "nl")
Ordered(w)   == \A i, j \in 1 .. Len(w) : i < j => Before(w[i], w[j])
NoNewline(s) == \A i \in 1 .. Len(s) : s[i].char # "nl"

Typed == /\ begun \in 0 .. Lines
         /\ writer \in {"none", "opening", "open"} /\ reader \in {"closed", "open", "eof"}
         /\ hup \in BOOLEAN
         /\ todo \in Seq(Bytes) /\ fifo \in Seq(Bytes) /\ buffer \in Seq(Bytes)
         /\ queue \in Seq(Seq(Bytes))
         /\ complete \subseteq 1 .. begun /\ window \subseteq 1 .. Lines
         /\ torn \subseteq 1 .. Lines /\ restarts \in 0 .. MaxRestart

\* The writer writes its own line, newline last, and a line not begun yet is neither
\* complete nor seen anywhere.
WriterInv == /\ writer = "none" => todo = <<>>
             /\ writer = "opening" => Len(todo) = Len(Text) + 1
             /\ writer # "none" => begun # 0
             /\ begun \in complete => todo = <<>>
             /\ \A i \in 1 .. Len(todo) : todo[i].line = begun
             /\ todo # <<>> => todo[Len(todo)].char = "nl"
             /\ writer = "opening" => \A i \in 1 .. Written : Stream[i].line < begun

StreamInv == /\ \A i \in 1 .. Len(Stream) : Stream[i].line \in 1 .. begun
             /\ Ordered(Stream)
             /\ NoNewline(buffer)
             /\ Len(Stream) <= begun * (Len(Text) + 1)

\* What is queued comes before all that is not.
QueueInv == /\ \A i \in 1 .. Len(queue) : \A p \in 1 .. Len(queue[i]) :
                   /\ queue[i][p].line \in 1 .. begun
                   /\ \A k \in 1 .. Len(Stream) : queue[i][p].line < Stream[k].line
            /\ \A i, j \in 1 .. Len(queue) : i < j =>
                   \A p \in 1 .. Len(queue[i]), r \in 1 .. Len(queue[j]) :
                       queue[i][p].line < queue[j][r].line

IInv == Typed /\ WriterInv /\ StreamInv /\ QueueInv
-----------------------------------------------------------------------------
\* Before a newline there is the whole of its line, or as much of it as there is room
\* for when the line is one of T.
WholeBefore(w, p, T) ==
    /\ w[p].line \notin T => Len(Text) < p
    /\ \A i \in 1 .. Len(Text) : Len(Text) < (p - 1) + i =>
           w[(p - 1 - Len(Text)) + i] \in Shown(w[p].line, Text[i])

\* The line q ends as line n does; T are the torn lines, C the complete ones.
EndsAs(q, n, T, C) ==
    /\ n \notin T => Len(Text) <= Len(q)
    /\ \A j \in 1 .. Len(Text) : Len(Text) < Len(q) + j =>
           q[Len(q) - Len(Text) + j] \in Shown(n, Text[j])
    /\ \A b \in Content(q) : b.line \in C => b.line = n

WholeInv ==
    /\ \A p \in 1 .. Len(Stream) : Stream[p].char = "nl" => WholeBefore(Stream, p, torn)
    /\ \A p \in 1 .. Written : Stream[p].char = "nl" => Stream[p].line \in complete

\* A complete line that is still to be queued has its newline ahead ...
NewlineAhead ==
    \A p \in 1 .. Len(Stream) : Stream[p].line \in complete =>
        \E q \in p .. Len(Stream) : Stream[q].line = Stream[p].line /\ Stream[q].char = "nl"

\* ... so that from an end of file on, the buffer holds parts of killed writers only.
Remains ==
    reader # "open" => \A i \in 1 .. Len(buffer) :
        buffer[i].line \notin complete /\ (writer # "none" => buffer[i].line < begun)

WInv == IInv /\ WholeInv /\ NewlineAhead /\ Remains /\ LinesIntact
-----------------------------------------------------------------------------
Less == {p \in Nat \X Nat : p[1] < p[2]}

\* Induction over the natural numbers, for a property given as a set: the library's
\* theorem for operators cannot be instantiated by the provers.
LEMMA Induct ==
    ASSUME NEW T, 0 \in T, \A n \in Nat : n \in T => n + 1 \in T
    PROVE  \A n \in Nat : n \in T
<1> SUFFICES ASSUME NEW n \in Nat, n \notin T
             PROVE  FALSE
  OBVIOUS
<1> DEFINE Missing == Nat \ T
<1>1. IsWellFoundedOn(Less, Nat)
  BY NatLessThanWellFounded DEF OpToRel, Less
<1>2. Missing \subseteq Nat /\ n \in Missing
  OBVIOUS
<1>3. PICK m \in Missing : \A k \in Missing : <<k, m>> \notin Less
  <2> HIDE DEF Missing
  <2>1. QED
    BY <1>1, <1>2, WFMin
<1>4. m # 0 /\ m - 1 \in Nat
  OBVIOUS
<1>5. m - 1 \in Missing
  BY <1>4
<1>6. <<m - 1, m>> \in Less
  BY <1>4 DEF Less
<1>7. QED
  BY <1>3, <1>5, <1>6
-----------------------------------------------------------------------------
\* After the first n bytes of w: what is left over begins after the k-th byte, and
\* the x-th line queued goes from from[x] to the newline at to[x].
Cuts(w, n, got, k, from, to) ==
    /\ got \in [rest : Seq(Bytes), lines : Seq(Seq(Bytes))]
    /\ k \in 0 .. n /\ (k = 0 \/ w[k].char = "nl")
    /\ \A i \in k + 1 .. n : w[i].char # "nl"
    /\ got.rest = SubSeq(w, k + 1, n)
    /\ from \in Seq(Nat) /\ Len(from) = Len(got.lines)
    /\ to \in Seq(Nat) /\ Len(to) = Len(got.lines)
    /\ \A x \in 1 .. Len(got.lines) :
           /\ 1 <= from[x] /\ from[x] < to[x] /\ to[x] <= k
           /\ from[x] = 1 \/ w[from[x] - 1].char = "nl"
           /\ w[to[x]].char = "nl"
           /\ \A i \in from[x] .. to[x] - 1 : w[i].char # "nl"
           /\ got.lines[x] = SubSeq(w, from[x], to[x] - 1)
    /\ \A x, y \in 1 .. Len(got.lines) : x < y => to[x] < from[y]

\* One byte more keeps them.
LEMMA CutsStep ==
    ASSUME NEW w \in Seq(Bytes), NEW n \in Nat, n < Len(w),
           NEW got, NEW k, NEW from, NEW to, Cuts(w, n, got, k, from, to)
    PROVE  \E k2, from2, to2 : Cuts(w, n + 1, WithByte(got, w[n + 1]), k2, from2, to2)
<1> DEFINE b == w[n + 1]
           new == WithByte(got, b)
<1>1. /\ n + 1 \in 1 .. Len(w) /\ b \in Bytes /\ k \in 0 .. n
      /\ got \in [rest : Seq(Bytes), lines : Seq(Seq(Bytes))]
      /\ got.rest = SubSeq(w, k + 1, n) /\ Len(got.rest) = n - k
  BY DEF Cuts
<1> DEFINE m == Len(got.lines)
<1>0. /\ m \in Nat /\ Len(from) = m /\ Len(to) = m
      /\ from \in Seq(Nat) /\ to \in Seq(Nat)
      /\ \A x \in 1 .. m : from[x] \in Nat /\ to[x] \in Nat /\ to[x] <= k
  <2>1. /\ from \in Seq(Nat) /\ Len(from) = m /\ to \in Seq(Nat) /\ Len(to) = m
        /\ \A x \in 1 .. m : to[x] <= k
    BY DEF Cuts
  <2>2. m \in Nat
    BY <2>1
  <2> HIDE DEF m
  <2>3. QED
    BY <2>1, <2>2
<1>2. CASE b.char # "nl"
  <2>1. new = [rest |-> Append(got.rest, b), lines |-> got.lines]
    BY <1>1, <1>2 DEF WithByte
  <2>2. Append(got.rest, b) \in Seq(Bytes)
    BY <1>1
  <2>3. Append(got.rest, b) = SubSeq(w, k + 1, n + 1)
    BY <1>1
  <2>4. new \in [rest : Seq(Bytes), lines : Seq(Seq(Bytes))] /\ new.lines = got.lines
    BY <1>1, <2>1, <2>2
  <2>5. \A i \in k + 1 .. n + 1 : w[i].char # "nl"
    BY <1>1, <1>2 DEF Cuts
  <2>6. Cuts(w, n + 1, new, k, from, to)
    <3> HIDE DEF new
    <3>1. k \in 0 .. n + 1 /\ new.rest = SubSeq(w, k + 1, n + 1)
      BY <1>1, <2>1, <2>3
    <3>2. QED
      BY <2>4, <2>5, <3>1 DEF Cuts
  <2>7. QED
    BY <2>6
<1>3. CASE b.char = "nl" /\ got.rest = <<>>
  <2>1. new = [rest |-> <<>>, lines |-> got.lines]
    BY <1>3 DEF WithByte
  <2>2. new \in [rest : Seq(Bytes), lines : Seq(Seq(Bytes))] /\ new.lines = got.lines
    BY <1>1, <2>1
  <2>3. Cuts(w, n + 1, new, n + 1, from, to)
    <3> HIDE DEF new
    <3>1. n + 1 \in 0 .. n + 1 /\ new.rest = SubSeq(w, (n + 1) + 1, n + 1)
      BY <1>1, <2>1
    <3>2. \A x \in 1 .. Len(got.lines) : to[x] <= n + 1
      <4>1. ASSUME NEW x \in 1 .. m
            PROVE  to[x] <= n + 1
        <5> HIDE DEF m, new, b
        <5>1. to[x] \in Nat /\ to[x] <= k /\ k \in 0 .. n
          BY <1>0, <1>1
        <5>2. QED
          BY <5>1
      <4>2. QED
        BY <4>1
    <3>3. \A i \in (n + 1) + 1 .. n + 1 : w[i].char # "nl"
      OBVIOUS
    <3>4. QED
      BY <1>3, <2>2, <3>1, <3>2, <3>3 DEF Cuts
  <2>4. QED
    BY <2>3
<1>4. CASE b.char = "nl" /\ got.rest # <<>>
  <2> DEFINE f2 == Append(from, k + 1)
             t2 == Append(to, n + 1)
  <2>1. new = [rest |-> <<>>, lines |-> Append(got.lines, got.rest)]
    BY <1>4 DEF WithByte
  <2>2. /\ new \in [rest : Seq(Bytes), lines : Seq(Seq(Bytes))]
        /\ Len(new.lines) = Len(got.lines) + 1 /\ new.rest = <<>>
        /\ \A x \in 1 .. Len(got.lines) : new.lines[x] = got.lines[x]
        /\ new.lines[Len(got.lines) + 1] = got.rest
    BY <1>1, <2>1
  <2>3. k < n
    BY <1>1, <1>4
  <2>4. m \in Nat /\ Len(new.lines) = m + 1
    BY <1>0, <2>2
  <2>5. /\ f2 \in Seq(Nat) /\ Len(f2) = Len(new.lines)
        /\ t2 \in Seq(Nat) /\ Len(t2) = Len(new.lines)
        /\ \A x \in 1 .. m : f2[x] = from[x] /\ t2[x] = to[x]
        /\ f2[m + 1] = k + 1 /\ t2[m + 1] = n + 1
    <3> HIDE DEF m, new
    <3>1. k + 1 \in Nat /\ n + 1 \in Nat
      BY <1>1
    <3>2. /\ from \in Seq(Nat) /\ Len(from) = m /\ to \in Seq(Nat) /\ Len(to) = m
          /\ m \in Nat /\ Len(new.lines) = m + 1
      BY <1>0, <2>4
    <3>3. f2 \in Seq(Nat) /\ Len(f2) = m + 1 /\ f2[m + 1] = k + 1
          /\ \A x \in 1 .. m : f2[x] = from[x]
      BY <3>1, <3>2
    <3>4. t2 \in Seq(Nat) /\ Len(t2) = m + 1 /\ t2[m + 1] = n + 1
          /\ \A x \in 1 .. m : t2[x] = to[x]
      BY <3>1, <3>2
    <3>5. QED
      BY <3>2, <3>3, <3>4
  <2>6. ASSUME NEW x \in 1 .. Len(new.lines)
        PROVE  /\ 1 <= f2[x] /\ f2[x] < t2[x] /\ t2[x] <= n + 1
               /\ f2[x] = 1 \/ w[f2[x] - 1].char = "nl"
               /\ w[t2[x]].char = "nl"
               /\ \A i \in f2[x] .. t2[x] - 1 : w[i].char # "nl"
               /\ new.lines[x] = SubSeq(w, f2[x], t2[x] - 1)
    <3> HIDE DEF new, f2, t2, m
    <3>1. CASE x \in 1 .. m
      <4>1. f2[x] = from[x] /\ t2[x] = to[x] /\ new.lines[x] = got.lines[x]
        BY <2>2, <2>5, <3>1 DEF m
      <4>2. from[x] \in Nat /\ to[x] \in Nat
        BY <1>0, <3>1
      <4>3. /\ 1 <= from[x] /\ from[x] < to[x] /\ to[x] <= k
            /\ from[x] = 1 \/ w[from[x] - 1].char = "nl"
            /\ w[to[x]].char = "nl"
            /\ \A i \in from[x] .. to[x] - 1 : w[i].char # "nl"
            /\ got.lines[x] = SubSeq(w, from[x], to[x] - 1)
        BY <3>1 DEF Cuts, m
      <4>4. to[x] <= n + 1
        BY <1>1, <4>2, <4>3
      <4>5. QED
        BY <4>1, <4>3, <4>4
    <3>2. CASE x = m + 1
      <4>1. f2[x] = k + 1 /\ t2[x] = n + 1 /\ new.lines[x] = SubSeq(w, k + 1, n)
        BY <1>1, <2>2, <2>5, <3>2 DEF m
      <4>2. /\ k = 0 \/ w[k].char = "nl"
            /\ \A i \in k + 1 .. n : w[i].char # "nl"
        BY DEF Cuts
      <4>3. /\ 1 <= k + 1 /\ k + 1 < n + 1 /\ n + 1 <= n + 1
            /\ (k + 1) - 1 = k /\ (n + 1) - 1 = n
        BY <1>1, <2>3
      <4>4. QED
        BY <1>4, <4>1, <4>2, <4>3
    <3>3. QED
      BY <2>4, <3>1, <3>2
  <2>7. ASSUME NEW x \in 1 .. Len(new.lines), NEW y \in 1 .. Len(new.lines), x < y
        PROVE  t2[x] < f2[y]
    <3> HIDE DEF new, f2, t2, m
    <3>1. x \in 1 .. m /\ t2[x] = to[x] /\ to[x] \in Nat
      <4>1. x \in 1 .. m
        BY <2>4, <2>7
      <4>2. to[x] \in Nat
        BY <1>0, <4>1
      <4>3. QED
        BY <2>5, <4>1, <4>2
    <3>2. CASE y \in 1 .. m
      BY <2>5, <2>7, <3>1, <3>2 DEF Cuts, m
    <3>3. CASE y = m + 1
      <4>1. to[x] <= k /\ f2[y] = k + 1
        BY <1>0, <2>5, <3>1, <3>3
      <4>2. QED
        BY <1>1, <3>1, <4>1
    <3>4. QED
      BY <2>4, <3>2, <3>3
  <2>8. Cuts(w, n + 1, new, n + 1, f2, t2)
    <3> HIDE DEF new, f2, t2
    <3>1. n + 1 \in 0 .. n + 1 /\ new.rest = SubSeq(w, (n + 1) + 1, n + 1)
      <4>1. SubSeq(w, (n + 1) + 1, n + 1) = <<>> /\ n + 1 \in 0 .. n + 1
        BY <1>1
      <4>2. new.rest = <<>>
        BY <2>2
      <4>3. QED
        BY <4>1, <4>2
    <3>2. \A i \in (n + 1) + 1 .. n + 1 : w[i].char # "nl"
      OBVIOUS
    <3>3. QED
      BY <1>4, <2>2, <2>5, <2>6, <2>7, <3>1, <3>2 DEF Cuts
  <2>9. QED
    BY <2>8
<1>5. QED
  BY <1>2, <1>3, <1>4

\* What is left over, and every line queued, is a piece of what was looked at,
\* between two newlines.
LEMMA SplitCuts ==
    ASSUME NEW rest \in Seq(Bytes), NoNewline(rest), NEW s \in Seq(Bytes)
    PROVE  \E k, from, to :
               Cuts(rest \o s, Len(rest \o s), SplitLines(rest, s), k, from, to)
<1> DEFINE w == rest \o s
           base == [rest |-> rest, lines |-> <<>>]
           Step(g, i) == IF i = 0 THEN base ELSE WithByte(g[i - 1], s[i])
           Upto(g, n) == g = [i \in 0 .. n |-> Step(g, i)]
           Exists == {n \in Nat : n <= Len(s) => \E g : Upto(g, n)}
           Split == CHOOSE g : Upto(g, Len(s))
           Cut(n) == \E k, from, to : Cuts(w, Len(rest) + n, Split[n], k, from, to)
           IsCut == {n \in Nat : n <= Len(s) => Cut(n)}
<1>1. /\ w \in Seq(Bytes) /\ Len(w) = Len(rest) + Len(s)
      /\ Len(s) \in Nat /\ Len(rest) \in Nat
      /\ \A i \in 1 .. Len(rest) : w[i] = rest[i]
      /\ \A i \in 1 .. Len(s) : w[Len(rest) + i] = s[i]
  OBVIOUS
<1>2. 0 \in Exists
  <2>1. Upto([i \in 0 .. 0 |-> base], 0)
    OBVIOUS
  <2>2. QED
    BY <2>1
<1>3. ASSUME NEW n \in Nat, n \in Exists
      PROVE  n + 1 \in Exists
  <2> HIDE DEF Upto
  <2> SUFFICES ASSUME n + 1 <= Len(s)
               PROVE  \E g : Upto(g, n + 1)
    OBVIOUS
  <2> USE DEF Upto
  <2>1. n <= Len(s)
    BY <1>1
  <2>2. PICK g : Upto(g, n)
    BY <1>3, <2>1
  <2> DEFINE h == [i \in 0 .. n + 1 |-> IF i = n + 1 THEN WithByte(g[n], s[n + 1]) ELSE g[i]]
  <2>3. ASSUME NEW i \in 0 .. n + 1
        PROVE  h[i] = Step(h, i)
    <3>1. CASE i = n + 1
      BY <3>1
    <3>2. CASE i # n + 1
      <4>1. i \in 0 .. n /\ h[i] = g[i] /\ (i # 0 => h[i - 1] = g[i - 1])
        BY <3>2
      <4>2. g[i] = Step(g, i)
        <5> HIDE DEF h, Step
        <5>1. QED
          BY <2>2, <4>1
      <4>3. QED
        <5> HIDE DEF h
        <5>1. QED
          BY <4>1, <4>2
    <3>3. QED
      BY <3>1, <3>2
  <2>4. Upto(h, n + 1)
    <3> HIDE DEF Step
    <3>1. QED
      BY <2>3
  <2>5. QED
    BY <2>4
<1>4. Len(s) \in Exists
  <2> HIDE DEF Exists
  <2>1. QED
    BY <1>1, <1>2, <1>3, Induct
<1>5. Upto(Split, Len(s))
  <2>1. \E g : Upto(g, Len(s))
    BY <1>1, <1>4
  <2> HIDE DEF Upto
  <2>2. QED
    BY <2>1
<1>6. SplitLines(rest, s) = Split[Len(s)]
  BY DEF SplitLines
<1>7. Split[0] = base /\ \A n \in Nat : n + 1 <= Len(s) => Split[n + 1] = WithByte(Split[n], s[n + 1])
  <2> HIDE DEF Split
  <2>1. \A i \in 0 .. Len(s) : Split[i] = Step(Split, i)
    <3> HIDE DEF Step
    <3>1. QED
      BY <1>5
  <2>2. Split[0] = base
    BY <1>1, <2>1
  <2>3. ASSUME NEW n \in Nat, n + 1 <= Len(s)
        PROVE  Split[n + 1] = WithByte(Split[n], s[n + 1])
    <3>1. n + 1 \in 0 .. Len(s) /\ n + 1 # 0 /\ (n + 1) - 1 = n
      BY <1>1, <2>3
    <3>2. QED
      BY <2>1, <3>1
  <2>4. QED
    BY <2>2, <2>3
<1> HIDE DEF Split
<1>8. 0 \in IsCut
  <2>1. base \in [rest : Seq(Bytes), lines : Seq(Seq(Bytes))] /\ Len(base.lines) = 0
    OBVIOUS
  <2>2. SubSeq(w, 1, Len(rest)) = rest
    BY <1>1
  <2>3. \A i \in 1 .. Len(rest) : w[i].char # "nl"
    BY <1>1 DEF NoNewline
  <2>4. Cuts(w, Len(rest), base, 0, <<>>, <<>>)
    <3> HIDE DEF w
    <3>1. <<>> \in Seq(Nat) /\ Len(<<>>) = 0 /\ 1 .. 0 = {}
      OBVIOUS
    <3>2. 0 \in 0 .. Len(rest) /\ 0 + 1 = 1
      BY <1>1
    <3>3. QED
      BY <2>1, <2>2, <2>3, <3>1, <3>2 DEF Cuts
  <2>5. Len(rest) + 0 = Len(rest)
    BY <1>1
  <2>6. QED
    <3> HIDE DEF w
    <3>1. QED
      BY <1>7, <2>4, <2>5
<1>9. ASSUME NEW n \in Nat, n \in IsCut
      PROVE  n + 1 \in IsCut
  <2> HIDE DEF w
  <2> SUFFICES ASSUME n + 1 <= Len(s)
               PROVE  Cut(n + 1)
    OBVIOUS
  <2>1. n <= Len(s) /\ Len(rest) + n \in Nat /\ Len(rest) + n < Len(w)
    BY <1>1
  <2>2. PICK k, from, to : Cuts(w, Len(rest) + n, Split[n], k, from, to)
    BY <1>9, <2>1
  <2>3. \E k2, from2, to2 :
            Cuts(w, (Len(rest) + n) + 1, WithByte(Split[n], w[(Len(rest) + n) + 1]),
                 k2, from2, to2)
    BY <1>1, <2>1, <2>2, CutsStep
  <2>4. (Len(rest) + n) + 1 = Len(rest) + (n + 1) /\ n + 1 \in 1 .. Len(s)
    BY <1>1
  <2>5. w[Len(rest) + (n + 1)] = s[n + 1]
    BY <1>1, <2>4
  <2>6. Split[n + 1] = WithByte(Split[n], s[n + 1])
    BY <1>7
  <2>7. QED
    BY <2>3, <2>4, <2>5, <2>6
<1>10. Len(s) \in IsCut
  <2> HIDE DEF IsCut
  <2>1. QED
    BY <1>1, <1>8, <1>9, Induct
<1>11. QED
  BY <1>1, <1>6, <1>10

\* b is c, or what decoding makes of it when it is half of a character.
Became(b, c) == b = c \/ (c.char \notin {"a", "nl"} /\ b = Byte(c.line, "?"))

\* Decoding leaves bytes where they are, newlines newlines, and text of one-byte
\* characters alone.
LEMMA DecodedBytes ==
    ASSUME NEW s \in Seq(Bytes)
    PROVE  /\ Decoded(s) \in Seq(Bytes) /\ Len(Decoded(s)) = Len(s)
           /\ \A i \in 1 .. Len(s) : /\ Decoded(s)[i].line = s[i].line
                                     /\ Decoded(s)[i].char = "nl" <=> s[i].char = "nl"
                                     /\ Became(Decoded(s)[i], s[i])
<1> DEFINE lone(i) == \/ s[i].char = "h" /\ ~(i < Len(s) /\ s[i + 1].char = "t")
                      \/ s[i].char = "t" /\ ~(i > 1 /\ s[i - 1].char = "h")
           d == [i \in 1 .. Len(s) |-> IF lone(i) THEN Byte(s[i].line, "?") ELSE s[i]]
<1>1. Decoded(s) = d
  BY DEF Decoded
<1>2. ASSUME NEW i \in 1 .. Len(s)
      PROVE  /\ d[i] \in Bytes /\ d[i].line = s[i].line
             /\ d[i].char = "nl" <=> s[i].char = "nl"
             /\ Became(d[i], s[i])
  <2>1. s[i] \in Bytes
    OBVIOUS
  <2>2. d[i] = IF lone(i) THEN Byte(s[i].line, "?") ELSE s[i]
    OBVIOUS
  <2>3. lone(i) => s[i].char \in {"h", "t"}
    OBVIOUS
  <2> HIDE DEF d, lone
  <2>4. QED
    BY <2>1, <2>2, <2>3 DEF Bytes, Byte, Became
<1>3. d \in Seq(Bytes) /\ Len(d) = Len(s)
  <2>1. \A i \in 1 .. Len(s) : d[i] \in Bytes
    BY <1>2
  <2>2. Len(s) \in Nat
    OBVIOUS
  <2> HIDE DEF lone
  <2>3. QED
    BY <2>1, <2>2
<1> HIDE DEF d
<1>4. QED
  BY <1>1, <1>2, <1>3

\* Where what is where in three sequences put together.
LEMMA Three ==
    ASSUME NEW a \in Seq(Bytes), NEW b \in Seq(Bytes), NEW c \in Seq(Bytes),
           NEW w, w = a \o b \o c
    PROVE  /\ w \in Seq(Bytes) /\ Len(w) = Len(a) + Len(b) + Len(c)
           /\ Len(a) \in Nat /\ Len(b) \in Nat /\ Len(c) \in Nat
           /\ \A i \in 1 .. Len(a) : w[i] = a[i]
           /\ \A i \in 1 .. Len(b) : w[Len(a) + i] = b[i]
           /\ \A i \in 1 .. Len(c) : w[Len(a) + Len(b) + i] = c[i]
OBVIOUS

\* Where what is where in two sequences put together.
LEMMA Two ==
    ASSUME NEW a \in Seq(Bytes), NEW b \in Seq(Bytes)
    PROVE  /\ a \o b \in Seq(Bytes) /\ Len(a \o b) = Len(a) + Len(b)
           /\ Len(a) \in Nat /\ Len(b) \in Nat
           /\ \A i \in 1 .. Len(a) : (a \o b)[i] = a[i]
           /\ \A i \in 1 .. Len(b) : (a \o b)[Len(a) + i] = b[i]
OBVIOUS

-----------------------------------------------------------------------------
\* What is not queued, in one piece.
StreamIs == /\ Stream \in Seq(Bytes) /\ Len(Stream) \in Nat
            /\ Len(Stream) = Written + Len(todo) /\ Written = Len(buffer) + Len(fifo)
            /\ Written \in Nat /\ Len(todo) \in Nat
            /\ Len(buffer) \in Nat /\ Len(fifo) \in Nat
            /\ \A i \in 1 .. Len(buffer) : Stream[i] = buffer[i]
            /\ \A i \in 1 .. Len(fifo) : Stream[Len(buffer) + i] = fifo[i]
            /\ \A i \in 1 .. Len(todo) : Stream[Written + i] = todo[i]

\* The stream is a sequence of bytes: first the buffer, then the FIFO, then the writer's rest.
LEMMA StreamSeq == Typed => StreamIs
BY Three DEF Typed, Stream, Written, StreamIs

\* The same of the next state.
LEMMA StreamSeqNext == Typed' => StreamIs'
BY Three DEF Typed, Stream, Written, StreamIs

\* v is what is left of w: f says where each of its bytes comes from.
Remainder(v, w, f) ==
    /\ f \in [1 .. Len(v) -> 1 .. Len(w)] /\ Len(v) <= Len(w)
    /\ \A i, j \in 1 .. Len(v) : i < j => f[i] < f[j]
    /\ \A i \in 1 .. Len(v) : /\ v[i].line = w[f[i]].line
                              /\ v[i].char = "nl" <=> w[f[i]].char = "nl"

\* What is true of the stream is true of what is left of it.
LEMMA StreamRemains ==
    ASSUME Typed, Typed', StreamInv, begun' = begun, NoNewline(buffer'),
           NEW f, Remainder(Stream', Stream, f)
    PROVE  StreamInv'
<1> DEFINE v == Stream'
           w == Stream
<1>1. w \in Seq(Bytes) /\ v \in Seq(Bytes) /\ Len(w) \in Nat /\ Len(v) \in Nat
  BY StreamSeq, StreamSeqNext DEF StreamIs
<1>2. /\ f \in [1 .. Len(v) -> 1 .. Len(w)] /\ Len(v) <= Len(w)
      /\ \A i, j \in 1 .. Len(v) : i < j => f[i] < f[j]
  BY DEF Remainder
<1> HIDE DEF v, w
<1>3. ASSUME NEW i \in 1 .. Len(v)
      PROVE  /\ f[i] \in 1 .. Len(w) /\ v[i].line = w[f[i]].line
             /\ v[i].char = "nl" <=> w[f[i]].char = "nl"
             /\ v[i] \in Bytes /\ w[f[i]] \in Bytes
  <2>1. f[i] \in 1 .. Len(w)
    BY <1>2
  <2>2. QED
    BY <1>1, <2>1 DEF Remainder, v, w
<1>4. \A i \in 1 .. Len(v) : v[i].line \in 1 .. begun
  BY <1>3 DEF StreamInv, w
<1>5. Ordered(v)
  <2> SUFFICES ASSUME NEW i \in 1 .. Len(v), NEW j \in 1 .. Len(v), i < j
               PROVE  Before(v[i], v[j])
    BY DEF Ordered
  <2>1. Before(w[f[i]], w[f[j]])
    <3>1. f[i] < f[j]
      BY <1>2
    <3>2. QED
      BY <1>3, <3>1 DEF StreamInv, Ordered, w
  <2>2. QED
    BY <1>3, <2>1 DEF Before
<1>6. Len(v) <= begun * (Len(Text) + 1)
  <2>1. Len(w) <= begun * (Len(Text) + 1)
    BY DEF StreamInv, w
  <2>2. begun \in Nat /\ Len(Text) \in Nat
    BY FifoAssumption DEF Typed, FifoAssumption
  <2>3. begun * (Len(Text) + 1) \in Nat
    BY <2>2
  <2>4. QED
    BY <1>1, <1>2, <2>1, <2>3
<1>7. QED
  BY <1>4, <1>5, <1>6 DEF StreamInv, v

\* What is queued still comes before it.
LEMMA QueueRemains ==
    ASSUME QueueInv, begun' = begun, queue' = queue, NEW f, Remainder(Stream', Stream, f)
    PROVE  QueueInv'
<1>1. ASSUME NEW i \in 1 .. Len(queue), NEW p \in 1 .. Len(queue[i]),
             NEW j \in 1 .. Len(Stream')
      PROVE  queue[i][p].line < Stream'[j].line
  <2>1. f[j] \in 1 .. Len(Stream) /\ Stream'[j].line = Stream[f[j]].line
    BY DEF Remainder
  <2>2. QED
    BY <2>1 DEF QueueInv
<1>2. QED
  BY <1>1 DEF QueueInv

Joined(a, b, c) == a \o b \o c

\* Writing moves bytes from the writer to the FIFO: the whole stays what it is.
LEMMA Moved ==
    ASSUME NEW a \in Seq(Bytes), NEW b \in Seq(Bytes), NEW c \in Seq(Bytes),
           NEW n \in 1 .. Len(c)
    PROVE  /\ b \o SubSeq(c, 1, n) \in Seq(Bytes) /\ SubSeq(c, n + 1, Len(c)) \in Seq(Bytes)
           /\ Len(b \o SubSeq(c, 1, n)) = Len(b) + n
           /\ Len(SubSeq(c, n + 1, Len(c))) = Len(c) - n
           /\ \A i \in 1 .. Len(c) - n : SubSeq(c, n + 1, Len(c))[i] = c[n + i]
           /\ Joined(a, b \o SubSeq(c, 1, n), SubSeq(c, n + 1, Len(c))) = Joined(a, b, c)
<1> DEFINE x == SubSeq(c, 1, n)
           y == SubSeq(c, n + 1, Len(c))
           l == a \o (b \o x) \o y
           r == a \o b \o c
<1>1. /\ x \in Seq(Bytes) /\ Len(x) = n /\ \A i \in 1 .. n : x[i] = c[i]
      /\ n \in Nat /\ Len(c) \in Nat /\ n <= Len(c)
  OBVIOUS
<1>2. y \in Seq(Bytes) /\ Len(y) = Len(c) - n /\ \A i \in 1 .. Len(y) : y[i] = c[n + i]
  OBVIOUS
<1> HIDE DEF x, y
<1>3. /\ b \o x \in Seq(Bytes) /\ Len(b \o x) = Len(b) + n /\ Len(b) \in Nat /\ Len(a) \in Nat
      /\ \A i \in 1 .. Len(b) : (b \o x)[i] = b[i]
      /\ \A i \in 1 .. n : (b \o x)[Len(b) + i] = x[i]
  <2>1. x \in Seq(Bytes) /\ Len(x) = n
    BY <1>1
  <2>2. QED
    BY <2>1, Two, Zenon
<1>4. /\ l \in Seq(Bytes) /\ Len(l) = Len(a) + Len(b) + Len(c)
      /\ \A i \in 1 .. Len(a) : l[i] = a[i]
      /\ \A i \in 1 .. Len(b) : l[Len(a) + i] = b[i]
      /\ \A i \in 1 .. n : l[Len(a) + Len(b) + i] = c[i]
      /\ \A i \in 1 .. Len(c) - n : l[Len(a) + Len(b) + n + i] = c[n + i]
  <2> DEFINE bx == b \o x
  <2>1. /\ bx \in Seq(Bytes) /\ Len(bx) = Len(b) + n
        /\ \A i \in 1 .. Len(b) : bx[i] = b[i]
        /\ \A i \in 1 .. n : bx[Len(b) + i] = x[i]
    BY <1>3
  <2> HIDE DEF bx
  <2>2. l = a \o bx \o y
    BY DEF bx
  <2> HIDE DEF l
  <2>3. /\ l \in Seq(Bytes) /\ Len(l) = Len(a) + Len(bx) + Len(y)
        /\ \A i \in 1 .. Len(a) : l[i] = a[i]
        /\ \A i \in 1 .. Len(bx) : l[Len(a) + i] = bx[i]
        /\ \A i \in 1 .. Len(y) : l[Len(a) + Len(bx) + i] = y[i]
    <3>1. bx \in Seq(Bytes) /\ y \in Seq(Bytes)
      BY <1>2, <2>1
    <3>2. QED
      BY <2>2, <3>1, Three
  <2>4. l \in Seq(Bytes) /\ Len(l) = Len(a) + Len(b) + Len(c)
    BY <1>1, <1>2, <1>3, <2>1, <2>2, <2>3
  <2>5. \A i \in 1 .. Len(b) : l[Len(a) + i] = b[i]
    BY <1>1, <1>3, <2>1, <2>2, <2>3
  <2>6. ASSUME NEW i \in 1 .. n
        PROVE  l[Len(a) + Len(b) + i] = c[i]
    <3>1. Len(b) + i \in 1 .. Len(bx) /\ Len(a) + (Len(b) + i) = Len(a) + Len(b) + i
      BY <1>1, <1>3, <2>1
    <3>2. l[Len(a) + (Len(b) + i)] = bx[Len(b) + i]
      BY <2>2, <2>3, <3>1
    <3>3. QED
      BY <1>1, <2>1, <3>1, <3>2
  <2>7. ASSUME NEW i \in 1 .. Len(c) - n
        PROVE  l[Len(a) + Len(b) + n + i] = c[n + i]
    <3>1. i \in 1 .. Len(y) /\ Len(a) + Len(bx) + i = Len(a) + Len(b) + n + i
      BY <1>1, <1>2, <1>3, <2>1
    <3>2. QED
      BY <1>2, <2>2, <2>3, <3>1
  <2>8. QED
    BY <2>2, <2>3, <2>4, <2>5, <2>6, <2>7
<1>5. /\ r \in Seq(Bytes) /\ Len(r) = Len(a) + Len(b) + Len(c)
      /\ \A i \in 1 .. Len(a) : r[i] = a[i]
      /\ \A i \in 1 .. Len(b) : r[Len(a) + i] = b[i]
      /\ \A i \in 1 .. Len(c) : r[Len(a) + Len(b) + i] = c[i]
  BY Three
<1> HIDE DEF l, r
<1>6. ASSUME NEW i \in 1 .. Len(l)
      PROVE  l[i] = r[i]
  <2>1. CASE i <= Len(a)
    BY <1>3, <1>4, <1>5, <2>1
  <2>2. CASE Len(a) < i /\ i <= Len(a) + Len(b)
    <3>1. i - Len(a) \in 1 .. Len(b) /\ Len(a) + (i - Len(a)) = i
      BY <1>3, <2>2
    <3>2. QED
      BY <1>4, <1>5, <3>1
  <2>3. CASE Len(a) + Len(b) < i /\ i <= Len(a) + Len(b) + n
    <3> DEFINE e == i - (Len(a) + Len(b))
    <3>1. e \in 1 .. n /\ e \in 1 .. Len(c) /\ Len(a) + Len(b) + e = i
      BY <1>1, <1>3, <2>3
    <3> HIDE DEF e
    <3>2. l[Len(a) + Len(b) + e] = c[e] /\ r[Len(a) + Len(b) + e] = c[e]
      BY <1>4, <1>5, <3>1, Zenon
    <3>3. QED
      BY <3>1, <3>2, Zenon
  <2>4. CASE Len(a) + Len(b) + n < i
    <3> DEFINE e == i - (Len(a) + Len(b) + n)
    <3>1. /\ e \in 1 .. Len(c) - n /\ n + e \in 1 .. Len(c)
          /\ Len(a) + Len(b) + n + e = i /\ Len(a) + Len(b) + (n + e) = i
      BY <1>1, <1>3, <1>4, <2>4
    <3> HIDE DEF e
    <3>2. l[Len(a) + Len(b) + n + e] = c[n + e] /\ r[Len(a) + Len(b) + (n + e)] = c[n + e]
      BY <1>4, <1>5, <3>1, Zenon
    <3>3. QED
      BY <3>1, <3>2, Zenon
  <2>5. QED
    BY <1>3, <1>4, <2>1, <2>2, <2>3, <2>4
<1>7. l = r
  BY <1>4, <1>5, <1>6
<1>8. QED
  BY <1>1, <1>2, <1>3, <1>7 DEF x, y, l, r, Joined
-----------------------------------------------------------------------------
\* A byte has the line and the character it is made of.
LEMMA ByteParts == \A n, c : Byte(n, c).line = n /\ Byte(n, c).char = c
BY DEF Byte

\* The line a writer begins with.
LEMMA NewLine ==
    ASSUME NEW n \in Nat, NEW t, t = Line(n) \o <<Byte(n, "nl")>>
    PROVE  /\ t \in Seq(Bytes) /\ Len(t) = Len(Text) + 1 /\ Len(Text) \in Nat
           /\ \A i \in 1 .. Len(Text) : /\ t[i] = Byte(n, Text[i])
                                        /\ Text[i] \in {"a", "h", "t"}
           /\ t[Len(Text) + 1] = Byte(n, "nl")
<1>1. Text \in Seq({"a", "h", "t"}) /\ Len(Text) \in Nat
  BY FifoAssumption DEF FifoAssumption
<1>2. \A i \in 1 .. Len(Text) : Text[i] \in {"a", "h", "t"}
  BY <1>1
<1>3. ASSUME NEW i \in 1 .. Len(Text)
      PROVE  Byte(n, Text[i]) \in Bytes
  BY <1>2 DEF Byte, Bytes
<1>4. Byte(n, "nl") \in Bytes
  BY DEF Byte, Bytes
<1> DEFINE l == Line(n)
           b == Byte(n, "nl")
<1>5. l \in Seq(Bytes) /\ Len(l) = Len(Text) /\ \A i \in 1 .. Len(Text) : l[i] = Byte(n, Text[i])
  BY <1>1, <1>3 DEF Line
<1>6. t = l \o <<b>> /\ b \in Bytes
  BY <1>4
<1> HIDE DEF l, b
<1>7. /\ t \in Seq(Bytes) /\ Len(t) = Len(l) + 1
      /\ \A i \in 1 .. Len(l) : t[i] = l[i]
      /\ t[Len(l) + 1] = b
  <2> DEFINE u == <<b>>
  <2>1. u \in Seq(Bytes) /\ Len(u) = 1 /\ u[1] = b
    BY <1>6
  <2>2. t = l \o u
    BY <1>6
  <2> HIDE DEF u
  <2>3. /\ t \in Seq(Bytes) /\ Len(t) = Len(l) + 1
        /\ \A i \in 1 .. Len(l) : t[i] = l[i]
        /\ \A i \in 1 .. Len(u) : t[Len(l) + i] = u[i]
    <3>1. l \in Seq(Bytes) /\ u \in Seq(Bytes)
      BY <1>5, <2>1
    <3>2. /\ l \o u \in Seq(Bytes) /\ Len(l \o u) = Len(l) + Len(u)
          /\ \A i \in 1 .. Len(l) : (l \o u)[i] = l[i]
          /\ \A i \in 1 .. Len(u) : (l \o u)[Len(l) + i] = u[i]
      BY <3>1, Two, Zenon
    <3>3. QED
      BY <2>1, <2>2, <3>2
  <2>4. QED
    BY <2>1, <2>3
<1>8. QED
  BY <1>1, <1>2, <1>5, <1>7 DEF b

\* Nothing has been begun when the runner starts.
LEMMA Initially == Init => IInv
<1> SUFFICES ASSUME Init
             PROVE  IInv
  OBVIOUS
<1>1. Typed
  <2>1. begun \in 0 .. Lines /\ complete \subseteq 1 .. begun /\ window \subseteq 1 .. Lines
    BY FifoAssumption DEF Init, FifoAssumption
  <2>2. /\ todo \in Seq(Bytes) /\ fifo \in Seq(Bytes) /\ buffer \in Seq(Bytes)
        /\ queue \in Seq(Seq(Bytes))
    BY DEF Init
  <2>3. torn \subseteq 1 .. Lines /\ restarts \in 0 .. MaxRestart
    BY FifoAssumption DEF Init, FifoAssumption
  <2>4. QED
    BY <2>1, <2>2, <2>3 DEF Init, Typed
<1>2. Len(Stream) = 0 /\ Written = 0 /\ Len(buffer) = 0 /\ Len(queue) = 0
  BY <1>1, StreamSeq DEF Init, StreamIs
<1>3. Len(Text) \in Nat
  BY FifoAssumption DEF FifoAssumption
<1>4. WriterInv
  BY <1>2 DEF Init, WriterInv
<1>5. StreamInv
  <2>1. begun * (Len(Text) + 1) = 0
    BY <1>3 DEF Init
  <2>2. QED
    BY <1>2, <2>1 DEF StreamInv, Ordered, NoNewline
<1>6. QED
  BY <1>1, <1>2, <1>4, <1>5 DEF IInv, QueueInv

\* A new line comes after all that is on its way.
LEMMA StepStart == ASSUME IInv, Start PROVE IInv'
<1> DEFINE new == begun + 1
           l == Len(Text)
<1>1. /\ Typed /\ begun \in Nat /\ begun < Lines /\ Lines \in Nat
      /\ todo = <<>> /\ begun' = new /\ writer' = "opening"
      /\ UNCHANGED <<reader, buffer, queue, fifo, hup, complete, window, torn, restarts>>
  BY FifoAssumption DEF Start, IInv, Typed, WriterInv, readerVars, restarting,
     FifoAssumption
<1>2. /\ todo' \in Seq(Bytes) /\ Len(todo') = l + 1 /\ l \in Nat
      /\ \A i \in 1 .. l : todo'[i] = Byte(new, Text[i]) /\ Text[i] \in {"a", "h", "t"}
      /\ todo'[l + 1] = Byte(new, "nl")
  <2>1. todo' = Line(new) \o <<Byte(new, "nl")>> /\ new \in Nat
    BY <1>1 DEF Start
  <2> HIDE DEF new
  <2>2. QED
    BY <2>1, NewLine
<1>3. Typed'
  BY <1>1, <1>2 DEF Typed
<1>4. /\ Len(Stream) = Written /\ Written \in Nat
      /\ Written' = Written /\ Len(Stream') = Written + (l + 1)
  <2>1. Len(Stream) = Written + Len(todo) /\ Written \in Nat
    BY <1>1, StreamSeq DEF StreamIs
  <2>2. Len(Stream') = Written' + Len(todo')
    BY <1>3, StreamSeqNext DEF StreamIs
  <2>3. Written' = Written
    BY <1>1 DEF Written
  <2>4. QED
    BY <1>1, <1>2, <2>1, <2>2, <2>3
<1>5. \A i \in 1 .. Written : Stream'[i] = Stream[i]
  <2>1. Stream = buffer \o fifo \o todo /\ Stream' = buffer \o fifo \o todo'
    BY <1>1 DEF Stream
  <2>2. /\ buffer \in Seq(Bytes) /\ fifo \in Seq(Bytes) /\ todo \in Seq(Bytes)
        /\ todo' \in Seq(Bytes)
    BY <1>1, <1>2 DEF Typed
  <2>3. Written = Len(buffer) + Len(fifo)
    BY DEF Written
  <2>4. QED
    BY <2>1, <2>2, <2>3
<1>6. ASSUME NEW i \in 1 .. Len(Stream'), Written < i
      PROVE  /\ i - Written \in 1 .. Len(todo') /\ Stream'[i] = todo'[i - Written]
             /\ Stream'[i].line = new
             /\ Stream'[i].char = "nl" <=> i = Len(Stream')
  <2> DEFINE e == i - Written
  <2>1. e \in 1 .. l + 1 /\ Written + e = i
    BY <1>2, <1>4, <1>6
  <2> HIDE DEF e
  <2>2. Stream'[i] = todo'[e]
    <3>1. \A i2 \in 1 .. Len(todo') : Stream'[Written' + i2] = todo'[i2]
      BY <1>3, StreamSeqNext DEF StreamIs
    <3>2. e \in 1 .. Len(todo') /\ Written' + e = i
      BY <1>2, <1>4, <2>1
    <3>3. QED
      BY <3>1, <3>2
  <2>3. todo'[e].line = new /\ (todo'[e].char = "nl" <=> e = l + 1)
    <3> HIDE DEF new, l
    <3>1. CASE e = l + 1
      BY <1>2, <3>1 DEF Byte
    <3>2. CASE e # l + 1
      <4>1. e \in 1 .. l
        BY <1>2, <2>1, <3>2
      <4>2. QED
        <5>1. todo'[e] = Byte(new, Text[e]) /\ Text[e] # "nl"
          BY <1>2, <4>1
        <5>2. QED
          BY <3>2, <5>1, ByteParts
    <3>3. QED
      BY <3>1, <3>2
  <2>4. QED
    BY <1>2, <1>4, <2>1, <2>2, <2>3 DEF e
<1>7. \A i \in 1 .. Written : Stream'[i].line \in 1 .. begun
  BY <1>4, <1>5 DEF IInv, StreamInv
<1> HIDE DEF new, l
<1>8. WriterInv'
  <2>1. ASSUME NEW i \in 1 .. Len(todo')
        PROVE  todo'[i].line = begun'
    <3>1. i \in 1 .. l \/ i = l + 1
      BY <1>2
    <3>2. todo'[i] \in {Byte(new, c) : c \in {"a", "h", "t", "nl"}}
      BY <1>2, <3>1
    <3>3. QED
      BY <1>1, <3>2, ByteParts
  <2>2. todo' # <<>> /\ todo'[Len(todo')].char = "nl"
    BY <1>2 DEF Byte
  <2>3. begun' \notin complete'
    BY <1>1 DEF Typed, new
  <2>4. \A i \in 1 .. Written' : Stream'[i].line < begun'
    BY <1>1, <1>4, <1>7 DEF new
  <2>5. begun' # 0
    BY <1>1 DEF new
  <2>6. QED
    BY <1>1, <1>2, <2>1, <2>2, <2>3, <2>4, <2>5 DEF WriterInv, l
<1>9. StreamInv'
  <2>1. \A i \in 1 .. Len(Stream') : Stream'[i].line \in 1 .. begun'
    BY <1>1, <1>2, <1>4, <1>6, <1>7 DEF new
  <2>2. ASSUME NEW i \in 1 .. Len(Stream'), NEW j \in 1 .. Len(Stream'), i < j
        PROVE  Before(Stream'[i], Stream'[j])
    <3>1. CASE j <= Written
      <4>1. i \in 1 .. Len(Stream) /\ j \in 1 .. Len(Stream)
        BY <1>4, <2>2, <3>1
      <4>2. Before(Stream[i], Stream[j])
        BY <2>2, <4>1 DEF IInv, StreamInv, Ordered
      <4>3. QED
        BY <1>4, <1>5, <4>1, <4>2
    <3>2. CASE i <= Written /\ Written < j
      <4>1. Stream'[i].line \in 1 .. begun /\ Stream'[j].line = new
        BY <1>4, <1>6, <1>7, <3>2
      <4>2. QED
        BY <1>1, <4>1 DEF Before, new
    <3>3. CASE Written < i
      <4>1. i # Len(Stream') /\ Written < j
        BY <1>2, <1>4, <2>2, <3>3
      <4>2. QED
        BY <1>6, <2>2, <3>3, <4>1 DEF Before
    <3>4. QED
      BY <1>2, <1>4, <3>1, <3>2, <3>3
  <2>3. Len(Stream') <= begun' * (Len(Text) + 1)
    <3>1. Len(Stream) <= begun * (Len(Text) + 1)
      BY DEF IInv, StreamInv
    <3>2. (begun + 1) * (l + 1) = begun * (l + 1) + (l + 1)
      BY <1>1, <1>2
    <3>3. begun * (l + 1) \in Nat
      BY <1>1, <1>2
    <3>4. QED
      BY <1>1, <1>2, <1>4, <3>1, <3>2, <3>3 DEF new, l
  <2>4. NoNewline(buffer')
    BY <1>1 DEF IInv, StreamInv
  <2>5. QED
    BY <2>1, <2>2, <2>3, <2>4 DEF StreamInv, Ordered
<1>10. QueueInv'
  <2>1. ASSUME NEW i \in 1 .. Len(queue), NEW p \in 1 .. Len(queue[i])
        PROVE  /\ queue[i][p].line \in 1 .. begun'
               /\ \A k \in 1 .. Len(Stream') : queue[i][p].line < Stream'[k].line
    <3>1. queue[i][p].line \in 1 .. begun
      BY DEF IInv, QueueInv
    <3>2. ASSUME NEW k \in 1 .. Len(Stream')
          PROVE  queue[i][p].line < Stream'[k].line
      <4>1. CASE k <= Written
        <5>1. k \in 1 .. Len(Stream) /\ Stream'[k] = Stream[k]
          BY <1>4, <1>5, <4>1
        <5>2. QED
          BY <5>1 DEF IInv, QueueInv
      <4>2. CASE Written < k
        BY <1>1, <1>6, <3>1, <4>2 DEF new
      <4>3. QED
        BY <1>2, <1>4, <4>1, <4>2
    <3>3. QED
      BY <1>1, <3>1, <3>2 DEF new
  <2>2. QED
    BY <1>1, <2>1 DEF IInv, QueueInv
<1>11. QED
  BY <1>3, <1>8, <1>9, <1>10 DEF IInv

\* Opening changes no byte.
LEMMA StepOpen == ASSUME IInv, Open PROVE IInv'
<1>1. /\ Typed /\ writer = "opening" /\ writer' = "open" /\ hup' = TRUE
      /\ window' \subseteq window \cup {begun}
      /\ UNCHANGED <<begun, todo, reader, buffer, queue, fifo, complete, torn, restarts>>
  BY DEF Open, IInv, readerVars, restarting
<1>2. begun \in 1 .. Lines
  BY <1>1, FifoAssumption DEF IInv, Typed, WriterInv, FifoAssumption
<1>3. Typed'
  BY <1>1, <1>2 DEF Typed
<1>4. Stream' = Stream /\ Written' = Written
  BY <1>1 DEF Stream, Written
<1>5. WriterInv'
  BY <1>1, <1>2 DEF IInv, WriterInv
<1>6. StreamInv'
  BY <1>1, <1>4 DEF IInv, StreamInv
<1>7. QueueInv'
  BY <1>1, <1>4 DEF IInv, QueueInv
<1>8. QED
  BY <1>3, <1>5, <1>6, <1>7 DEF IInv

\* What a writer moves into the FIFO, it moves out of what it has still to write.
LEMMA MovedHere ==
    ASSUME Typed, NEW n \in 1 .. Len(todo)
    PROVE  /\ fifo \o SubSeq(todo, 1, n) \in Seq(Bytes)
           /\ SubSeq(todo, n + 1, Len(todo)) \in Seq(Bytes)
           /\ Len(fifo \o SubSeq(todo, 1, n)) = Len(fifo) + n
           /\ Len(SubSeq(todo, n + 1, Len(todo))) = Len(todo) - n
           /\ \A i \in 1 .. Len(todo) - n : SubSeq(todo, n + 1, Len(todo))[i] = todo[n + i]
           /\ Joined(buffer, fifo \o SubSeq(todo, 1, n), SubSeq(todo, n + 1, Len(todo)))
                  = Joined(buffer, fifo, todo)
<1>1. buffer \in Seq(Bytes) /\ fifo \in Seq(Bytes) /\ todo \in Seq(Bytes)
  BY DEF Typed
<1>2. QED
  BY <1>1, Moved

\* Where a write leaves the stream.
LEMMA WriteEffect ==
    ASSUME Typed, NEW n \in 1 .. Len(todo),
           fifo' = fifo \o SubSeq(todo, 1, n), todo' = SubSeq(todo, n + 1, Len(todo)),
           buffer' = buffer
    PROVE  /\ Stream' = Stream /\ Written' = Written + n
           /\ fifo' \in Seq(Bytes) /\ todo' \in Seq(Bytes) /\ Len(todo') = Len(todo) - n
           /\ \A i \in 1 .. Len(todo') : todo'[i] = todo[n + i]
           /\ n \in Nat /\ Len(todo) \in Nat /\ n <= Len(todo)
<1>1. buffer \in Seq(Bytes) /\ fifo \in Seq(Bytes) /\ todo \in Seq(Bytes)
  BY DEF Typed
<1>2. /\ fifo' \in Seq(Bytes) /\ todo' \in Seq(Bytes)
      /\ Len(fifo') = Len(fifo) + n /\ Len(todo') = Len(todo) - n
      /\ \A i \in 1 .. Len(todo) - n : todo'[i] = todo[n + i]
      /\ Joined(buffer, fifo', todo') = Joined(buffer, fifo, todo)
  BY MovedHere
<1>3. Len(buffer) \in Nat /\ Len(fifo) \in Nat /\ n \in Nat /\ Len(todo) \in Nat
  BY <1>1
<1>4. Stream' = Stream
  BY <1>2 DEF Stream, Joined
<1>5. Written' = Written + n
  BY <1>2, <1>3 DEF Written
<1>6. QED
  BY <1>2, <1>3, <1>4, <1>5

\* A write leaves the stream as it is; the line is complete when nothing is left of it.
LEMMA StepWrite == ASSUME IInv, Write PROVE IInv'
<1>1. /\ Typed /\ writer = "open" /\ HasReader
      /\ complete' \subseteq complete \cup {begun}
      /\ complete' # complete => todo' = <<>>
      /\ UNCHANGED <<begun, writer, reader, buffer, queue, hup, window, torn, restarts>>
  BY DEF Write, IInv, readerVars, restarting
<1>2. PICK n \in 1 .. Len(todo) : /\ fifo' = fifo \o SubSeq(todo, 1, n)
                                  /\ todo' = SubSeq(todo, n + 1, Len(todo))
  BY DEF Write
<1>3. /\ Stream' = Stream /\ Written' = Written + n
      /\ fifo' \in Seq(Bytes) /\ todo' \in Seq(Bytes) /\ Len(todo') = Len(todo) - n
      /\ \A i \in 1 .. Len(todo') : todo'[i] = todo[n + i]
      /\ n \in Nat /\ Len(todo) \in Nat /\ n <= Len(todo)
  BY <1>1, <1>2, WriteEffect
<1>4. begun \in 1 .. Lines
  BY <1>1, FifoAssumption DEF IInv, Typed, WriterInv, FifoAssumption
<1>5. Typed'
  BY <1>1, <1>3, <1>4 DEF Typed
<1>6. WriterInv'
  <2>1. begun \in complete' => todo' = <<>>
    BY <1>1, <1>2 DEF IInv, WriterInv
  <2>2. ASSUME NEW i \in 1 .. Len(todo')
        PROVE  todo'[i].line = begun
    <3>1. n + i \in 1 .. Len(todo) /\ todo'[i] = todo[n + i]
      BY <1>3
    <3>2. QED
      BY <3>1 DEF IInv, WriterInv
  <2>3. ASSUME todo' # <<>>
        PROVE  todo'[Len(todo')].char = "nl"
    <3>1. Len(todo') \in 1 .. Len(todo') /\ n + Len(todo') = Len(todo)
      BY <1>3, <2>3
    <3>2. todo'[Len(todo')] = todo[Len(todo)] /\ todo # <<>>
      BY <1>3, <3>1
    <3>3. QED
      BY <3>2 DEF IInv, WriterInv
  <2>4. QED
    BY <1>1, <1>4, <2>1, <2>2, <2>3 DEF WriterInv
<1>7. StreamInv' /\ QueueInv'
  BY <1>1, <1>3 DEF IInv, StreamInv, QueueInv
<1>8. QED
  BY <1>5, <1>6, <1>7 DEF IInv

\* What is in the FIFO, or what its writer still had to write, may be lost.
LEMMA StreamDrops ==
    ASSUME Typed, Typed', buffer' = buffer, fifo' \in {fifo, <<>>}, todo' \in {todo, <<>>}
    PROVE  /\ Written' <= Written
           /\ \E f : /\ Remainder(Stream', Stream, f)
                     /\ \A i \in 1 .. Len(Stream') : Stream'[i] = Stream[f[i]]
                     /\ \A i \in 1 .. Written' : f[i] = i
                     /\ \A i \in 1 .. Len(Stream') : Written' < i => f[i] = (i - Written') + Written
<1> DEFINE f == [i \in 1 .. Len(Stream') |-> IF i <= Written' THEN i ELSE (i - Written') + Written]
<1>1. /\ Len(Stream) = Written + Len(todo) /\ Written = Len(buffer) + Len(fifo)
      /\ Written \in Nat /\ Len(todo) \in Nat /\ Len(buffer) \in Nat /\ Len(fifo) \in Nat
      /\ \A i \in 1 .. Len(buffer) : Stream[i] = buffer[i]
      /\ \A i \in 1 .. Len(fifo) : Stream[Len(buffer) + i] = fifo[i]
      /\ \A i \in 1 .. Len(todo) : Stream[Written + i] = todo[i]
  BY StreamSeq DEF StreamIs
<1>2. /\ Len(Stream') = Written' + Len(todo') /\ Written' = Len(buffer) + Len(fifo')
      /\ Written' \in Nat /\ Len(todo') \in Nat /\ Len(fifo') \in Nat
      /\ \A i \in 1 .. Len(buffer) : Stream'[i] = buffer[i]
      /\ \A i \in 1 .. Len(fifo') : Stream'[Len(buffer) + i] = fifo'[i]
      /\ \A i \in 1 .. Len(todo') : Stream'[Written' + i] = todo'[i]
  BY StreamSeqNext DEF StreamIs
<1>3. /\ Len(fifo') <= Len(fifo) /\ \A i \in 1 .. Len(fifo') : fifo'[i] = fifo[i]
      /\ Len(todo') <= Len(todo) /\ \A i \in 1 .. Len(todo') : todo'[i] = todo[i]
  <2>1. Len(<<>>) = 0
    OBVIOUS
  <2>2. fifo' = fifo \/ (fifo' = <<>> /\ Len(fifo') = 0)
    BY <2>1
  <2>3. todo' = todo \/ (todo' = <<>> /\ Len(todo') = 0)
    BY <2>1
  <2>4. QED
    BY <1>1, <2>2, <2>3
<1>4. Written' <= Written
  BY <1>1, <1>2, <1>3
<1>5. ASSUME NEW i \in 1 .. Len(Stream')
      PROVE  f[i] \in 1 .. Len(Stream) /\ Stream'[i] = Stream[f[i]]
  <2>1. CASE i <= Len(buffer)
    BY <1>1, <1>2, <1>4, <2>1
  <2>2. CASE Len(buffer) < i /\ i <= Written'
    <3> DEFINE e == i - Len(buffer)
    <3>1. e \in 1 .. Len(fifo') /\ e \in 1 .. Len(fifo) /\ Len(buffer) + e = i
      BY <1>1, <1>2, <1>3, <2>2
    <3> HIDE DEF e
    <3>2. Stream'[i] = Stream[i]
      BY <1>1, <1>2, <1>3, <3>1
    <3>3. QED
      BY <1>1, <1>2, <1>4, <2>2, <3>2
  <2>3. CASE Written' < i
    <3> DEFINE e == i - Written'
    <3>1. e \in 1 .. Len(todo') /\ e \in 1 .. Len(todo) /\ Written' + e = i
      BY <1>1, <1>2, <1>3, <2>3
    <3>2. f[i] = Written + e
      BY <1>1, <1>2, <2>3
    <3> HIDE DEF e, f
    <3>3. Stream'[i] = Stream[Written + e]
      <4>1. Stream'[Written' + e] = todo'[e] /\ todo'[e] = todo[e] /\ Stream[Written + e] = todo[e]
        BY <1>1, <1>2, <1>3, <3>1, Zenon
      <4>2. QED
        BY <3>1, <4>1, Zenon
    <3>4. QED
      BY <1>1, <3>1, <3>2, <3>3
  <2>4. QED
    BY <1>2, <2>1, <2>2, <2>3
<1>6. \A i, j \in 1 .. Len(Stream') : i < j => f[i] < f[j]
  BY <1>1, <1>2, <1>4
<1>7. /\ \A i \in 1 .. Written' : f[i] = i
      /\ \A i \in 1 .. Len(Stream') : Written' < i => f[i] = (i - Written') + Written
  BY <1>2
<1>8. Remainder(Stream', Stream, f)
  <2>1. f \in [1 .. Len(Stream') -> 1 .. Len(Stream)]
    <3>1. \A i \in 1 .. Len(Stream') : f[i] \in 1 .. Len(Stream)
      BY <1>5
    <3>2. QED
      BY <3>1
  <2>2. Len(Stream') <= Len(Stream)
    BY <1>1, <1>2, <1>3, <1>4
  <2> HIDE DEF f
  <2>3. QED
    BY <1>5, <1>6, <2>1, <2>2 DEF Remainder
<1> HIDE DEF f
<1>9. QED
  BY <1>4, <1>5, <1>7, <1>8

\* The writer's end, with the FIFO's contents when it had the last descriptor.
LEMMA StepClose == ASSUME IInv, Close PROVE IInv'
<1>1. /\ Typed /\ writer' = "none" /\ todo' = <<>> /\ fifo' \in {fifo, <<>>}
      /\ UNCHANGED <<begun, reader, buffer, queue, hup, complete, window, torn, restarts>>
  BY DEF Close, IInv, readerVars, restarting
<1>2. Typed'
  <2>1. fifo' \in Seq(Bytes) /\ todo' \in Seq(Bytes)
    <3>1. <<>> \in Seq(Bytes) /\ fifo \in Seq(Bytes) /\ todo \in Seq(Bytes)
      BY <1>1 DEF Typed
    <3>2. QED
      BY <1>1, <3>1
  <2>2. QED
    BY <1>1, <2>1 DEF Typed
<1>3. PICK f : Remainder(Stream', Stream, f)
  BY <1>1, <1>2, StreamDrops
<1>4. WriterInv'
  BY <1>1 DEF WriterInv
<1>5. StreamInv'
  BY <1>1, <1>2, <1>3, StreamRemains DEF IInv, StreamInv
<1>6. QueueInv'
  BY <1>1, <1>3, QueueRemains DEF IInv
<1>7. QED
  BY <1>2, <1>4, <1>5, <1>6 DEF IInv

\* The runner closes: what nobody has open is lost.
LEMMA StepCloseFd == ASSUME IInv, CloseFd PROVE IInv'
<1>1. /\ Typed /\ reader' = "closed" /\ fifo' \in {fifo, <<>>}
      /\ UNCHANGED <<begun, todo, writer, buffer, queue, hup, complete, window, torn, restarts>>
  BY DEF CloseFd, IInv, writerVars, restarting
<1>2. Typed'
  <2>1. fifo' \in Seq(Bytes) /\ todo' \in Seq(Bytes)
    <3>1. <<>> \in Seq(Bytes) /\ fifo \in Seq(Bytes) /\ todo \in Seq(Bytes)
      BY <1>1 DEF Typed
    <3>2. QED
      BY <1>1, <3>1
  <2>2. QED
    BY <1>1, <2>1 DEF Typed
<1>3. PICK f : /\ Remainder(Stream', Stream, f) /\ Written' <= Written
               /\ \A i \in 1 .. Written' : f[i] = i
  BY <1>1, <1>2, StreamDrops
<1>4. WriterInv'
  <2>1. ASSUME writer = "opening", NEW i \in 1 .. Written'
        PROVE  Stream'[i].line < begun
    <3>1. /\ i \in 1 .. Written /\ i \in 1 .. Len(Stream')
      BY <1>1, <1>2, <1>3, StreamSeq, StreamSeqNext DEF StreamIs
    <3>2. Stream'[i].line = Stream[i].line
      BY <1>3, <3>1 DEF Remainder
    <3>3. QED
      BY <2>1, <3>1, <3>2 DEF IInv, WriterInv
  <2>2. QED
    BY <1>1, <2>1 DEF IInv, WriterInv
<1>5. StreamInv'
  BY <1>1, <1>2, <1>3, StreamRemains DEF IInv, StreamInv
<1>6. QueueInv'
  BY <1>1, <1>3, QueueRemains DEF IInv
<1>7. QED
  BY <1>2, <1>4, <1>5, <1>6 DEF IInv

\* What a restart leaves of the stream: all but its first m bytes.
SuffixIs(m) == /\ m \in Nat /\ Written' \in Nat /\ Len(Stream') \in Nat
               /\ Written = m + Written' /\ Len(Stream) = m + Len(Stream')
               /\ \A i \in 1 .. Len(Stream') : m + i \in 1 .. Len(Stream)
                                               /\ Stream'[i] = Stream[m + i]

\* A restart takes the buffer away, or all that is written.
LEMMA RestartEffect ==
    ASSUME IInv, Restart
    PROVE  /\ Typed' /\ \E m \in Nat : SuffixIs(m)
                        /\ IF writer = "open" THEN m = Len(buffer) ELSE m = Written
<1>1. /\ Typed /\ buffer' = <<>> /\ reader' = "closed"
      /\ fifo' = IF writer = "open" THEN fifo ELSE <<>>
      /\ restarts < MaxRestart /\ restarts' = restarts + 1
      /\ torn' = torn \cup Numbers(buffer)
      /\ window' = window \cup Numbers(buffer) \cup Numbers(fifo)
      /\ UNCHANGED <<begun, todo, writer, queue, hup, complete>>
  BY DEF Restart, IInv, writerVars
<1>2. /\ Len(Stream) = Written + Len(todo) /\ Written = Len(buffer) + Len(fifo)
      /\ Written \in Nat /\ Len(todo) \in Nat /\ Len(buffer) \in Nat /\ Len(fifo) \in Nat
      /\ \A i \in 1 .. Len(buffer) : Stream[i] = buffer[i]
      /\ \A i \in 1 .. Len(fifo) : Stream[Len(buffer) + i] = fifo[i]
      /\ \A i \in 1 .. Len(todo) : Stream[Written + i] = todo[i]
  BY <1>1, StreamSeq DEF StreamIs
<1>3. Numbers(buffer) \subseteq 1 .. Lines /\ Numbers(fifo) \subseteq 1 .. Lines
  <2>1. buffer \in Seq(Bytes) /\ fifo \in Seq(Bytes) /\ begun \in 0 .. Lines /\ Lines \in Nat
    BY <1>1, FifoAssumption DEF Typed, FifoAssumption
  <2>2. ASSUME NEW i \in 1 .. Len(buffer)
        PROVE  buffer[i].line \in 1 .. Lines
    <3>1. i \in 1 .. Len(Stream) /\ Stream[i] = buffer[i]
      BY <1>2
    <3>2. buffer[i].line \in 1 .. begun
      BY <3>1 DEF IInv, StreamInv
    <3>3. QED
      BY <2>1, <3>2
  <2>3. ASSUME NEW i \in 1 .. Len(fifo)
        PROVE  fifo[i].line \in 1 .. Lines
    <3>1. Len(buffer) + i \in 1 .. Len(Stream) /\ Stream[Len(buffer) + i] = fifo[i]
      BY <1>2
    <3>2. fifo[i].line \in 1 .. begun
      BY <3>1 DEF IInv, StreamInv
    <3>3. QED
      BY <2>1, <3>2
  <2>4. /\ \A b \in Content(buffer) : b.line \in 1 .. Lines
        /\ \A b \in Content(fifo) : b.line \in 1 .. Lines
    BY <2>1, <2>2, <2>3 DEF Content, ToSet
  <2>5. QED
    BY <2>4 DEF Numbers
<1>4. Typed'
  <2>1. fifo' \in Seq(Bytes) /\ buffer' \in Seq(Bytes)
    <3>1. <<>> \in Seq(Bytes) /\ fifo \in Seq(Bytes)
      BY <1>1 DEF Typed
    <3>2. QED
      BY <1>1, <3>1
  <2>2. torn' \subseteq 1 .. Lines /\ window' \subseteq 1 .. Lines
    BY <1>1, <1>3 DEF Typed
  <2>3. restarts' \in 0 .. MaxRestart
    BY <1>1, FifoAssumption DEF Typed, FifoAssumption
  <2>4. QED
    BY <1>1, <2>1, <2>2, <2>3 DEF Typed
<1>5. /\ Len(Stream') = Written' + Len(todo) /\ Written' = Len(fifo')
      /\ Written' \in Nat /\ Len(fifo') \in Nat
      /\ \A i \in 1 .. Len(fifo') : Stream'[i] = fifo'[i]
      /\ \A i \in 1 .. Len(todo) : Stream'[Written' + i] = todo[i]
  <2>1. /\ Len(Stream') = Written' + Len(todo') /\ Written' = Len(buffer') + Len(fifo')
        /\ Written' \in Nat /\ Len(fifo') \in Nat
        /\ \A i \in 1 .. Len(fifo') : Stream'[Len(buffer') + i] = fifo'[i]
        /\ \A i \in 1 .. Len(todo') : Stream'[Written' + i] = todo'[i]
    BY <1>4, StreamSeqNext DEF StreamIs
  <2>2. Len(buffer') = 0 /\ todo' = todo
    BY <1>1
  <2>3. Written' = Len(fifo') /\ \A i \in 1 .. Len(fifo') : Len(buffer') + i = i
    BY <2>1, <2>2
  <2>4. QED
    BY <2>1, <2>2, <2>3
<1> DEFINE m == IF writer = "open" THEN Len(buffer) ELSE Written
<1>6. /\ m \in Nat /\ Written = m + Written' /\ Len(Stream) = m + Len(Stream')
      /\ Len(Stream') \in Nat
      /\ \A i \in 1 .. Len(fifo') : Stream[m + i] = fifo'[i]
  <2>1. CASE writer = "open"
    <3>1. /\ Written = Len(buffer) + Len(fifo) /\ Len(Stream) = Written + Len(todo)
          /\ Len(Stream') = Written' + Len(todo) /\ Written' = Len(fifo')
          /\ Len(buffer) \in Nat /\ Len(fifo) \in Nat /\ Len(todo) \in Nat
      BY <1>2, <1>5
    <3>2. fifo' = fifo /\ m = Len(buffer)
      BY <1>1, <2>1
    <3> HIDE DEF m
    <3>3. Len(fifo') = Len(fifo)
      BY <3>2
    <3>4. m \in Nat /\ Written = m + Written' /\ Len(Stream) = m + Len(Stream')
          /\ Len(Stream') \in Nat
      BY <3>1, <3>2, <3>3
    <3>5. \A i \in 1 .. Len(fifo') : Stream[m + i] = fifo'[i]
      BY <1>2, <3>2
    <3>6. QED
      BY <3>4, <3>5
  <2>2. CASE writer # "open"
    <3>1. Len(fifo') = 0
      BY <1>1, <2>2
    <3>2. QED
      BY <1>2, <1>5, <2>2, <3>1
  <2>3. QED
    BY <2>1, <2>2
<1> HIDE DEF m
<1>7. ASSUME NEW i \in 1 .. Len(Stream')
      PROVE  m + i \in 1 .. Len(Stream) /\ Stream'[i] = Stream[m + i]
  <2>1. m + i \in 1 .. Len(Stream)
    BY <1>6
  <2>2. CASE i <= Written'
    <3>1. i \in 1 .. Len(fifo')
      BY <1>5, <2>2
    <3>2. QED
      BY <1>5, <1>6, <2>1, <3>1
  <2>3. CASE Written' < i
    <3> DEFINE e == i - Written'
    <3>1. /\ Len(Stream') = Written' + Len(todo) /\ Written' \in Nat /\ Len(todo) \in Nat
          /\ m \in Nat /\ Written = m + Written'
      BY <1>2, <1>5, <1>6
    <3>2. e \in 1 .. Len(todo) /\ Written' + e = i /\ Written + e = m + i
      <4>1. \A a, t, k \in Nat : k <= a + t /\ a < k => k - a \in 1 .. t /\ a + (k - a) = k
        OBVIOUS
      <4>2. \A a, b, k \in Nat : (b + a) + (k - a) = b + k
        OBVIOUS
      <4>3. i \in Nat /\ i <= Written' + Len(todo)
        BY <3>1
      <4>4. e \in 1 .. Len(todo) /\ Written' + e = i
        BY <2>3, <3>1, <4>1, <4>3, Zenon
      <4>5. Written + e = m + i
        BY <3>1, <4>2, <4>3, Zenon
      <4>6. QED
        BY <4>4, <4>5
    <3> HIDE DEF e
    <3>3. Stream'[Written' + e] = todo[e] /\ Stream[Written + e] = todo[e]
      BY <1>2, <1>5, <3>2
    <3>4. QED
      BY <2>1, <3>2, <3>3
  <2>4. QED
    BY <1>5, <2>2, <2>3
<1>8. SuffixIs(m)
  BY <1>5, <1>6, <1>7 DEF SuffixIs
<1>9. QED
  BY <1>4, <1>6, <1>8 DEF m

\* A restart takes bytes from the front of the stream and none from the writer.
LEMMA StepRestart == ASSUME IInv, Restart PROVE IInv'
<1>1. /\ Typed /\ buffer' = <<>> /\ UNCHANGED <<begun, todo, writer, queue, complete>>
  BY DEF Restart, IInv, writerVars
<1>2. PICK m \in Nat : /\ SuffixIs(m)
                       /\ IF writer = "open" THEN m = Len(buffer) ELSE m = Written
  BY RestartEffect
<1>3. Typed'
  BY RestartEffect
<1>4. /\ Written' \in Nat /\ Len(Stream') \in Nat /\ Len(Stream) = m + Len(Stream')
      /\ \A i \in 1 .. Len(Stream') : m + i \in 1 .. Len(Stream) /\ Stream'[i] = Stream[m + i]
      /\ writer # "open" => Written' = 0
  <2>1. SuffixIs(m)
    BY <1>2
  <2>2. Written' \in Nat /\ m \in Nat /\ Written = m + Written'
    BY <2>1 DEF SuffixIs
  <2>3. ASSUME writer # "open" PROVE Written' = 0
    <3>1. m = Written
      BY <1>2, <2>3
    <3>2. QED
      BY <2>2, <3>1
  <2>4. QED
    BY <2>1, <2>3 DEF SuffixIs
<1> DEFINE f == [i \in 1 .. Len(Stream') |-> m + i]
<1>5. Remainder(Stream', Stream, f)
  <2>1. f \in [1 .. Len(Stream') -> 1 .. Len(Stream)]
    BY <1>4
  <2>2. \A i, j \in 1 .. Len(Stream') : i < j => f[i] < f[j]
    BY <1>4
  <2>3. \A i \in 1 .. Len(Stream') : Stream'[i] = Stream[f[i]]
    BY <1>4
  <2>4. Len(Stream') <= Len(Stream)
    BY <1>4
  <2> HIDE DEF f
  <2>5. QED
    BY <2>1, <2>2, <2>3, <2>4 DEF Remainder
<1> HIDE DEF f
<1>6. NoNewline(buffer')
  BY <1>1 DEF NoNewline
<1>7. StreamInv'
  BY <1>1, <1>3, <1>5, <1>6, StreamRemains DEF IInv
<1>8. QueueInv'
  BY <1>1, <1>5, QueueRemains DEF IInv
<1>9. WriterInv'
  BY <1>1, <1>4 DEF IInv, WriterInv
<1>10. QED
  BY <1>3, <1>7, <1>8, <1>9 DEF IInv

\* Opening for reading, and reading end of file, move no byte.
LEMMA StepReopen == ASSUME IInv, Reopen \/ ReadEof PROVE IInv'
<1>1. /\ Typed /\ reader' \in {"open", "eof"} /\ hup' \in BOOLEAN
      /\ UNCHANGED <<begun, todo, writer, buffer, queue, fifo, complete, window, torn, restarts>>
  BY DEF Reopen, ReadEof, IInv, writerVars, restarting, Typed
<1>2. Stream' = Stream /\ Written' = Written
  BY <1>1 DEF Stream, Written
<1>3. QED
  BY <1>1, <1>2 DEF IInv, Typed, WriterInv, StreamInv, QueueInv
-----------------------------------------------------------------------------
\* v's bytes are those of the stream from its k-th on, or what they became.
SameFrom(v, k) == \A i \in 1 .. Len(v) :
                      /\ v[i].line = Stream[k + i].line
                      /\ v[i].char = "nl" <=> Stream[k + i].char = "nl"
                      /\ Became(v[i], Stream[k + i])

\* What one read does: w is the buffer with what was read.
ReadIs(w, lines, k, from, to) ==
    /\ w \in Seq(Bytes) /\ Len(w) <= Written /\ SameFrom(w, 0)
    /\ Cuts(w, Len(w), [rest |-> buffer', lines |-> lines], k, from, to)
    /\ queue' = queue \o lines
    /\ Written = Written' + k /\ Len(Stream) = Len(Stream') + k
    /\ SameFrom(Stream', k)

\* One read takes the FIFO's first bytes, at least one, and leaves the others.
LEMMA TakenBytes ==
    ASSUME Typed, fifo # <<>>
    PROVE  \E n \in 1 .. Len(fifo) :
               /\ Taken \in Seq(Bytes) /\ Len(Taken) = n /\ \A i \in 1 .. n : Taken[i] = fifo[i]
               /\ Left \in Seq(Bytes) /\ Len(Left) = Len(fifo) - n
               /\ \A i \in 1 .. Len(Left) : Left[i] = fifo[n + i]
<1> DEFINE n == IF Len(fifo) < ReadMax THEN Len(fifo) ELSE ReadMax
<1>1. fifo \in Seq(Bytes) /\ Len(fifo) \in Nat \ {0} /\ ReadMax \in Nat \ {0}
  BY FifoAssumption DEF Typed, FifoAssumption
<1>2. n \in 1 .. Len(fifo)
  BY <1>1
<1> HIDE DEF n
<1>3. Taken = SubSeq(fifo, 1, n)
  BY DEF Taken, n
<1>4. Taken \in Seq(Bytes) /\ Len(Taken) = n /\ \A i \in 1 .. n : Taken[i] = fifo[i]
  BY <1>1, <1>2, <1>3
<1>5. Left = SubSeq(fifo, n + 1, Len(fifo))
  BY <1>4 DEF Left
<1>6. /\ Left \in Seq(Bytes) /\ Len(Left) = Len(fifo) - n
      /\ \A i \in 1 .. Len(Left) : Left[i] = fifo[n + i]
  BY <1>1, <1>2, <1>5
<1>7. QED
  BY <1>2, <1>4, <1>6

\* What a read does to the stream: the queued lines and their newlines go from its front,
\* halves of characters are replaced, all else keeps its order.
LEMMA ReadEffect ==
    ASSUME Typed, NoNewline(buffer), Read
    PROVE  Typed' /\ \E w, lines, k, from, to : ReadIs(w, lines, k, from, to)
<1> DEFINE d == Decoded(Taken)
           w == buffer \o d
           got == SplitLines(buffer, d)
           lines == got.lines
<1>1. /\ fifo # <<>> /\ queue' = queue \o lines /\ buffer' = got.rest /\ fifo' = Left
      /\ UNCHANGED <<begun, todo, writer, reader, hup, complete, window, torn, restarts>>
  BY DEF Read, ReadWith, writerVars, restarting
<1>2. PICK n \in 1 .. Len(fifo) :
          /\ Taken \in Seq(Bytes) /\ Len(Taken) = n /\ \A i \in 1 .. n : Taken[i] = fifo[i]
          /\ Left \in Seq(Bytes) /\ Len(Left) = Len(fifo) - n
          /\ \A i \in 1 .. Len(Left) : Left[i] = fifo[n + i]
  BY <1>1, TakenBytes
<1>3. /\ d \in Seq(Bytes) /\ Len(d) = n
      /\ \A i \in 1 .. n : /\ d[i].line = fifo[i].line
                           /\ d[i].char = "nl" <=> fifo[i].char = "nl"
                           /\ Became(d[i], fifo[i])
  BY <1>2, DecodedBytes
<1>4. /\ Len(Stream) = Written + Len(todo) /\ Written = Len(buffer) + Len(fifo)
      /\ Written \in Nat /\ Len(todo) \in Nat /\ Len(buffer) \in Nat /\ Len(fifo) \in Nat
      /\ \A i \in 1 .. Len(buffer) : Stream[i] = buffer[i]
      /\ \A i \in 1 .. Len(fifo) : Stream[Len(buffer) + i] = fifo[i]
      /\ \A i \in 1 .. Len(todo) : Stream[Written + i] = todo[i]
  BY StreamSeq DEF StreamIs
<1> HIDE DEF d
<1>5. /\ w \in Seq(Bytes) /\ Len(w) = Len(buffer) + n
      /\ \A i \in 1 .. Len(buffer) : w[i] = buffer[i]
      /\ \A i \in 1 .. n : w[Len(buffer) + i] = d[i]
  <2>1. buffer \in Seq(Bytes) /\ d \in Seq(Bytes)
    BY <1>3 DEF Typed
  <2>2. /\ buffer \o d \in Seq(Bytes) /\ Len(buffer \o d) = Len(buffer) + Len(d)
        /\ \A i \in 1 .. Len(buffer) : (buffer \o d)[i] = buffer[i]
        /\ \A i \in 1 .. Len(d) : (buffer \o d)[Len(buffer) + i] = d[i]
    BY <2>1, Two, Zenon
  <2>3. QED
    BY <1>3, <2>2
<1>6. PICK k, from, to : Cuts(w, Len(w), got, k, from, to)
  <2>1. buffer \in Seq(Bytes) /\ d \in Seq(Bytes)
    BY <1>3 DEF Typed
  <2>2. QED
    BY <2>1, SplitCuts
<1> HIDE DEF w, got
<1>7. /\ got \in [rest : Seq(Bytes), lines : Seq(Seq(Bytes))]
      /\ k \in 0 .. Len(w) /\ got.rest = SubSeq(w, k + 1, Len(w))
  BY <1>6 DEF Cuts
<1>8. /\ buffer' \in Seq(Bytes) /\ Len(buffer') = Len(w) - k
      /\ \A i \in 1 .. Len(buffer') : buffer'[i] = w[k + i]
  <2>1. w \in Seq(Bytes) /\ k \in 0 .. Len(w)
    BY <1>5, <1>7
  <2>2. buffer' = SubSeq(w, k + 1, Len(w))
    BY <1>1, <1>7
  <2>3. QED
    BY <2>1, <2>2
<1>9. queue' \in Seq(Seq(Bytes))
  BY <1>1, <1>7 DEF Typed
<1>10. Typed'
  BY <1>1, <1>2, <1>8, <1>9 DEF Typed
<1>11. /\ Len(Stream') = Written' + Len(todo') /\ Written' = Len(buffer') + Len(fifo')
       /\ \A i \in 1 .. Len(buffer') : Stream'[i] = buffer'[i]
       /\ \A i \in 1 .. Len(fifo') : Stream'[Len(buffer') + i] = fifo'[i]
       /\ \A i \in 1 .. Len(todo') : Stream'[Written' + i] = todo'[i]
  BY <1>10, StreamSeqNext DEF StreamIs
<1>12. /\ k \in Nat /\ n \in Nat /\ n <= Len(fifo) /\ k <= Len(w) /\ Len(w) = Len(buffer) + n
       /\ Len(buffer') = Len(w) - k /\ Len(fifo') = Len(fifo) - n
       /\ Written' = Written - k /\ Len(Stream') = Len(Stream) - k
  <2>1. n \in Nat /\ n <= Len(fifo) /\ Len(w) \in Nat
    BY <1>4, <1>5
  <2>2. k \in Nat /\ k <= Len(w)
    BY <1>7, <2>1
  <2>3. Len(fifo') = Len(fifo) - n /\ Len(todo') = Len(todo)
    BY <1>1, <1>2
  <2>4. Written' = (Len(w) - k) + (Len(fifo) - n) /\ Len(Stream') = Written' + Len(todo)
    BY <1>8, <1>11, <2>3
  <2>5. QED
    BY <1>4, <1>5, <1>8, <2>1, <2>2, <2>3, <2>4
<1>13. SameFrom(w, 0)
  <2> SUFFICES ASSUME NEW i \in 1 .. Len(w)
               PROVE  /\ w[i].line = Stream[i].line
                      /\ w[i].char = "nl" <=> Stream[i].char = "nl"
                      /\ Became(w[i], Stream[i])
    <3>1. \A i \in 1 .. Len(w) : 0 + i = i
      BY <1>12
    <3>2. QED
      BY <3>1 DEF SameFrom
  <2>1. CASE i <= Len(buffer)
    BY <1>4, <1>5, <1>12, <2>1 DEF Became
  <2>2. CASE Len(buffer) < i
    <3> DEFINE e == i - Len(buffer)
    <3>1. e \in 1 .. n /\ e \in 1 .. Len(fifo) /\ Len(buffer) + e = i
      BY <1>4, <1>12, <2>2
    <3> HIDE DEF e
    <3>2. w[i] = d[e] /\ Stream[i] = fifo[e]
      BY <1>4, <1>5, <3>1
    <3>3. QED
      BY <1>3, <3>1, <3>2
  <2>3. QED
    BY <1>4, <1>12, <2>1, <2>2
<1>14. SameFrom(Stream', k)
  <2> SUFFICES ASSUME NEW i \in 1 .. Len(Stream')
               PROVE  /\ Stream'[i].line = Stream[k + i].line
                      /\ Stream'[i].char = "nl" <=> Stream[k + i].char = "nl"
                      /\ Became(Stream'[i], Stream[k + i])
    BY DEF SameFrom
  <2>1. CASE i <= Len(buffer')
    <3>1. i \in 1 .. Len(buffer') /\ k + i \in 1 .. Len(w)
      BY <1>12, <1>4, <2>1
    <3>2. Stream'[i] = w[k + i]
      BY <1>8, <1>11, <3>1
    <3>3. 0 + (k + i) = k + i
      BY <1>12
    <3>4. QED
      BY <1>13, <3>1, <3>2, <3>3 DEF SameFrom
  <2>2. CASE Len(buffer') < i /\ i <= Written'
    <3> DEFINE e == i - Len(buffer')
    <3>1. /\ e \in 1 .. Len(fifo') /\ Len(buffer') + e = i
          /\ n + e \in 1 .. Len(fifo) /\ Len(buffer) + (n + e) = k + i
      <4>1. /\ Len(buffer) \in Nat /\ Len(fifo) \in Nat /\ i \in Nat
            /\ Written' = Len(buffer') + Len(fifo')
        BY <1>4, <1>11
      <4>2. QED
        BY <1>12, <2>2, <4>1
    <3> HIDE DEF e
    <3>2. Stream'[i] = fifo'[e] /\ fifo'[e] = fifo[n + e] /\ Stream[k + i] = fifo[n + e]
      BY <1>1, <1>2, <1>4, <1>11, <3>1
    <3>3. QED
      BY <3>2 DEF Became
  <2>3. CASE Written' < i
    <3> DEFINE e == i - Written'
    <3>1. /\ e \in 1 .. Len(todo) /\ Written' + e = i /\ Written + e = k + i
      <4>1. Len(todo') = Len(todo)
        BY <1>1
      <4>2. QED
        BY <1>4, <1>11, <1>12, <2>3, <4>1
    <3> HIDE DEF e
    <3>2. Stream'[i] = todo[e] /\ Stream[k + i] = todo[e]
      BY <1>1, <1>4, <1>11, <3>1
    <3>3. QED
      BY <3>2 DEF Became
  <2>4. QED
    BY <1>4, <1>12, <2>1, <2>2, <2>3
<1>15. Cuts(w, Len(w), [rest |-> buffer', lines |-> lines], k, from, to)
  <2>1. got = [rest |-> buffer', lines |-> lines]
    BY <1>1, <1>7
  <2>2. QED
    BY <1>6, <2>1
<1>16. ReadIs(w, lines, k, from, to)
  <2>1. Len(w) <= Written /\ Written = Written' + k /\ Len(Stream) = Len(Stream') + k
    BY <1>4, <1>12
  <2>2. QED
    BY <1>1, <1>5, <1>13, <1>14, <1>15, <2>1 DEF ReadIs
<1>17. QED
  BY <1>10, <1>16

\* The types of what a read gives, and where its lines end.
LEMMA ReadTypes ==
    ASSUME Typed, NEW w, NEW lines, NEW k, NEW from, NEW to, ReadIs(w, lines, k, from, to)
    PROVE  /\ w \in Seq(Bytes) /\ Len(w) \in Nat /\ k \in 0 .. Len(w)
           /\ Len(w) <= Written /\ Written <= Len(Stream)
           /\ Written \in Nat /\ Len(Stream) \in Nat
           /\ lines \in Seq(Seq(Bytes)) /\ Len(lines) \in Nat
           /\ \A x \in 1 .. Len(lines) :
                  /\ from[x] \in Nat /\ to[x] \in Nat
                  /\ 1 <= from[x] /\ from[x] < to[x] /\ to[x] <= k
                  /\ Len(lines[x]) = to[x] - from[x]
                  /\ \A p \in 1 .. Len(lines[x]) : lines[x][p] = w[(from[x] - 1) + p]
<1>1. w \in Seq(Bytes) /\ Len(w) \in Nat /\ Len(w) <= Written
  BY DEF ReadIs
<1>2. Written \in Nat /\ Len(Stream) \in Nat /\ Written <= Len(Stream)
  BY StreamSeq DEF StreamIs
<1>3. /\ k \in 0 .. Len(w) /\ lines \in Seq(Seq(Bytes)) /\ Len(lines) \in Nat
      /\ from \in Seq(Nat) /\ Len(from) = Len(lines)
      /\ to \in Seq(Nat) /\ Len(to) = Len(lines)
  <2>1. [rest |-> buffer', lines |-> lines] \in [rest : Seq(Bytes), lines : Seq(Seq(Bytes))]
    BY DEF ReadIs, Cuts
  <2>2. lines \in Seq(Seq(Bytes))
    BY <2>1
  <2>3. QED
    BY <2>2 DEF ReadIs, Cuts
<1>4. ASSUME NEW x \in 1 .. Len(lines)
      PROVE  /\ from[x] \in Nat /\ to[x] \in Nat
             /\ 1 <= from[x] /\ from[x] < to[x] /\ to[x] <= k
             /\ Len(lines[x]) = to[x] - from[x]
             /\ \A p \in 1 .. Len(lines[x]) : lines[x][p] = w[(from[x] - 1) + p]
  <2>1. from[x] \in Nat /\ to[x] \in Nat
    BY <1>3
  <2>2. /\ 1 <= from[x] /\ from[x] < to[x] /\ to[x] <= k
        /\ lines[x] = SubSeq(w, from[x], to[x] - 1)
    BY DEF ReadIs, Cuts
  <2> DEFINE a == from[x]
             b == to[x] - 1
  <2>3. a \in 1 .. Len(w) /\ b \in 1 .. Len(w) /\ a <= b
    <3>1. /\ Len(w) \in Nat /\ k \in Nat /\ k <= Len(w)
          /\ a \in Nat /\ b = to[x] - 1 /\ to[x] \in Nat /\ 1 <= a /\ a < to[x] /\ to[x] <= k
      BY <1>1, <1>3, <2>1, <2>2
    <3> HIDE DEF a, b
    <3>2. QED
      BY <3>1
  <2>4. lines[x] = SubSeq(w, a, b)
    BY <2>2
  <2>5. to[x] - from[x] = (b - a) + 1
    BY <2>1
  <2> HIDE DEF a, b
  <2>6. Len(lines[x]) = (b - a) + 1 /\ \A p \in 1 .. (b - a) + 1 : lines[x][p] = w[(a - 1) + p]
    BY <1>1, <2>3, <2>4
  <2>7. QED
    BY <2>1, <2>2, <2>5, <2>6 DEF a
<1>5. QED
  BY <1>1, <1>2, <1>3, <1>4

\* A place within a piece of a sequence is a place of the sequence.
LEMMA Within ==
    \A a, b, k, l, p \in Nat : 1 <= a /\ b <= k /\ k <= l /\ 1 <= p /\ p <= b - a =>
        (a - 1) + p \in 1 .. l /\ (a - 1) + p < b
OBVIOUS

\* A line queued by a read is of the stream, up to a newline in what is gone from it.
LEMMA ReadLines ==
    ASSUME IInv, NEW w, NEW lines, NEW k, NEW from, NEW to, ReadIs(w, lines, k, from, to),
           NEW x \in 1 .. Len(lines), NEW p \in 1 .. Len(lines[x])
    PROVE  /\ lines[x][p].line \in 1 .. begun
           /\ lines[x][p].line <= Stream[to[x]].line
           /\ lines[x][p].line = Stream[(from[x] - 1) + p].line
<1> DEFINE c == (from[x] - 1) + p
<1>1. /\ from[x] \in Nat /\ to[x] \in Nat /\ 1 <= from[x] /\ from[x] < to[x] /\ to[x] <= k
      /\ Len(lines[x]) = to[x] - from[x] /\ lines[x][p] = w[c]
      /\ Len(w) \in Nat /\ k \in Nat /\ k <= Len(w)
      /\ Len(w) <= Len(Stream) /\ Len(Stream) \in Nat
  <2>1. Typed
    BY DEF IInv
  <2>2. /\ Len(w) \in Nat /\ k \in 0 .. Len(w) /\ Len(w) <= Written /\ Written <= Len(Stream)
        /\ Written \in Nat /\ Len(Stream) \in Nat
    BY <2>1, ReadTypes
  <2>3. /\ from[x] \in Nat /\ to[x] \in Nat /\ 1 <= from[x] /\ from[x] < to[x] /\ to[x] <= k
        /\ Len(lines[x]) = to[x] - from[x]
        /\ lines[x][p] = w[c]
    BY <2>1, ReadTypes
  <2> HIDE DEF c
  <2>4. k \in Nat /\ k <= Len(w) /\ Len(w) <= Len(Stream)
    BY <2>2
  <2>5. QED
    BY <2>2, <2>3, <2>4
<1>2. /\ c \in 1 .. Len(w) /\ c < to[x] /\ 0 + c = c
      /\ c \in 1 .. Len(Stream) /\ to[x] \in 1 .. Len(Stream)
  <2>1. p \in Nat /\ 1 <= p /\ p <= to[x] - from[x]
    BY <1>1
  <2>2. c \in 1 .. Len(w) /\ c < to[x]
    BY <1>1, <2>1, Within
  <2> HIDE DEF c
  <2>3. QED
    BY <1>1, <2>2
<1> HIDE DEF c
<1>3. w[c].line = Stream[c].line
  BY <1>2 DEF ReadIs, SameFrom
<1>4. Stream[c].line \in 1 .. begun /\ Stream[to[x]].line \in 1 .. begun
  BY <1>2 DEF IInv, StreamInv
<1>5. Before(Stream[c], Stream[to[x]])
  BY <1>2 DEF IInv, StreamInv, Ordered
<1>6. begun \in Nat
  BY DEF IInv, Typed
<1>7. Stream[c].line <= Stream[to[x]].line
  BY <1>4, <1>5, <1>6 DEF Before
<1>8. lines[x][p].line = Stream[c].line
  BY <1>1, <1>3
<1>9. QED
  BY <1>4, <1>7, <1>8 DEF c

\* ... and all that comes after that newline is of later lines.
LEMMA AfterNewline ==
    ASSUME IInv, NEW w, NEW lines, NEW k, NEW from, NEW to, ReadIs(w, lines, k, from, to),
           NEW x \in 1 .. Len(lines), NEW c \in 1 .. Len(Stream), to[x] < c
    PROVE  Stream[to[x]].line < Stream[c].line
<1>1. /\ to[x] \in 1 .. Len(w) /\ to[x] \in 1 .. Len(Stream) /\ 0 + to[x] = to[x]
  <2>1. /\ to[x] \in Nat /\ 1 <= from[x] /\ from[x] \in Nat /\ from[x] < to[x] /\ to[x] <= k
        /\ k \in 0 .. Len(w) /\ Len(w) \in Nat /\ Len(w) <= Written /\ Written <= Len(Stream)
        /\ Written \in Nat /\ Len(Stream) \in Nat
    BY ReadTypes DEF IInv
  <2>2. QED
    BY <2>1
<1>2. w[to[x]].char = "nl"
  BY DEF ReadIs, Cuts
<1>3. Stream[to[x]].char = "nl"
  BY <1>1, <1>2 DEF ReadIs, SameFrom
<1>4. Before(Stream[to[x]], Stream[c])
  BY <1>1 DEF IInv, StreamInv, Ordered
<1>5. QED
  BY <1>3, <1>4 DEF Before

\* A read takes lines from the front of the stream and puts them behind those queued before.
LEMMA StepRead == ASSUME IInv, Read PROVE IInv'
<1>1. Typed /\ NoNewline(buffer)
  BY DEF IInv, StreamInv
<1>2. Typed'
  BY <1>1, ReadEffect
<1>3. PICK w, lines, k, from, to : ReadIs(w, lines, k, from, to)
  BY <1>1, ReadEffect
<1>4. UNCHANGED <<begun, todo, writer, reader, hup, complete, window, torn, restarts>>
  BY DEF Read, ReadWith, writerVars, restarting
<1>5. /\ w \in Seq(Bytes) /\ Len(w) \in Nat /\ k \in 0 .. Len(w) /\ k \in Nat
      /\ Len(w) <= Written /\ Written <= Len(Stream) /\ Written \in Nat /\ Len(Stream) \in Nat
      /\ lines \in Seq(Seq(Bytes)) /\ Len(lines) \in Nat
      /\ \A x \in 1 .. Len(lines) : to[x] \in Nat /\ to[x] <= k
  <2>1. /\ w \in Seq(Bytes) /\ Len(w) \in Nat /\ k \in 0 .. Len(w)
        /\ Len(w) <= Written /\ Written <= Len(Stream) /\ Written \in Nat /\ Len(Stream) \in Nat
        /\ lines \in Seq(Seq(Bytes)) /\ Len(lines) \in Nat
        /\ \A x \in 1 .. Len(lines) : to[x] \in Nat /\ to[x] <= k
    BY <1>1, <1>3, ReadTypes
  <2>2. QED
    BY <2>1
<1>6. /\ queue' = queue \o lines /\ Written = Written' + k
      /\ Len(Stream) = Len(Stream') + k /\ Len(Stream') \in Nat /\ Written' \in Nat
  BY <1>2, <1>3, StreamSeqNext DEF ReadIs, StreamIs
<1>7. \A i \in 1 .. Len(Stream') :
          /\ Stream'[i].line = Stream[k + i].line
          /\ Stream'[i].char = "nl" <=> Stream[k + i].char = "nl"
          /\ k + i \in 1 .. Len(Stream)
  BY <1>3, <1>5, <1>6 DEF ReadIs, SameFrom
<1>8. WriterInv'
  <2>1. ASSUME writer = "opening", NEW i \in 1 .. Written'
        PROVE  Stream'[i].line < begun
    <3>1. i \in 1 .. Len(Stream') /\ k + i \in 1 .. Written
      BY <1>2, <1>5, <1>6, StreamSeqNext DEF StreamIs
    <3>2. QED
      BY <1>7, <2>1, <3>1 DEF IInv, WriterInv
  <2>2. QED
    BY <1>4, <2>1 DEF IInv, WriterInv
<1>9. StreamInv'
  <2> DEFINE f == [i \in 1 .. Len(Stream') |-> k + i]
  <2>1. f \in [1 .. Len(Stream') -> 1 .. Len(Stream)]
    BY <1>7
  <2>2. Len(Stream') <= Len(Stream)
    BY <1>5, <1>6
  <2>3. \A i, j \in 1 .. Len(Stream') : i < j => f[i] < f[j]
    BY <1>5
  <2>4. Remainder(Stream', Stream, f)
    BY <1>7, <2>1, <2>2, <2>3 DEF Remainder
  <2>5. NoNewline(buffer')
    <3>1. buffer' = SubSeq(w, k + 1, Len(w)) /\ \A i \in k + 1 .. Len(w) : w[i].char # "nl"
      <4>1. [rest |-> buffer', lines |-> lines].rest = buffer'
        OBVIOUS
      <4>2. QED
        BY <1>3, <4>1 DEF ReadIs, Cuts
    <3>2. Len(buffer') = Len(w) - k /\ \A i \in 1 .. Len(w) - k : buffer'[i] = w[k + i]
      BY <1>5, <3>1
    <3>3. ASSUME NEW i \in 1 .. Len(buffer')
          PROVE  buffer'[i].char # "nl"
      <4>1. i \in 1 .. Len(w) - k /\ k + i \in k + 1 .. Len(w)
        BY <1>5, <3>2
      <4>2. buffer'[i] = w[k + i]
        BY <3>2, <4>1
      <4>3. QED
        BY <3>1, <4>1, <4>2
    <3>4. QED
      BY <3>3 DEF NoNewline
  <2>6. begun' = begun /\ StreamInv
    BY <1>4 DEF IInv
  <2> HIDE DEF f
  <2>7. QED
    BY <1>1, <1>2, <2>4, <2>5, <2>6, StreamRemains
<1>10. QueueInv'
  <2> DEFINE m == Len(queue)
  <2>1. /\ m \in Nat /\ Len(queue') = m + Len(lines)
        /\ \A i \in 1 .. m : queue'[i] = queue[i]
        /\ \A x \in 1 .. Len(lines) : queue'[m + x] = lines[x]
    <3>1. queue \in Seq(Seq(Bytes))
      BY <1>1 DEF Typed
    <3>2. lines \in Seq(Seq(Bytes)) /\ queue' = queue \o lines
      BY <1>5, <1>6, Zenon
    <3>3. QED
      BY <3>1, <3>2
  <2> HIDE DEF m
  <2>2. \A i \in 1 .. Len(queue') : i \in 1 .. m \/ (i - m \in 1 .. Len(lines) /\ m + (i - m) = i)
    BY <1>5, <2>1
  <2>3. begun \in Nat
    BY <1>1 DEF Typed
  \* Old entries come before the whole stream.
  <2>4. ASSUME NEW i \in 1 .. m, NEW p \in 1 .. Len(queue[i])
        PROVE  /\ queue[i][p].line \in 1 .. begun
               /\ \A c \in 1 .. Len(Stream) : queue[i][p].line < Stream[c].line
    BY <2>4 DEF IInv, QueueInv, m
  \* New ones are of lines of it, before what is left.
  <2>5. ASSUME NEW x \in 1 .. Len(lines), NEW p \in 1 .. Len(lines[x])
        PROVE  /\ lines[x][p].line \in 1 .. begun
               /\ lines[x][p].line <= Stream[to[x]].line
               /\ lines[x][p].line = Stream[(from[x] - 1) + p].line
               /\ (from[x] - 1) + p \in 1 .. Len(Stream)
               /\ \A c \in 1 .. Len(Stream) : to[x] < c => lines[x][p].line < Stream[c].line
    <3>1. /\ lines[x][p].line \in 1 .. begun
          /\ lines[x][p].line <= Stream[to[x]].line
          /\ lines[x][p].line = Stream[(from[x] - 1) + p].line
      BY <1>3, ReadLines
    <3>2. (from[x] - 1) + p \in 1 .. Len(Stream) /\ to[x] \in 1 .. Len(Stream)
      <4>1. /\ from[x] \in Nat /\ to[x] \in Nat /\ 1 <= from[x] /\ from[x] < to[x] /\ to[x] <= k
            /\ Len(lines[x]) = to[x] - from[x]
        BY <1>1, <1>3, ReadTypes
      <4>2. k <= Len(Stream) /\ k \in Nat /\ Len(Stream) \in Nat
        BY <1>5
      <4>3. p \in Nat /\ 1 <= p /\ p <= to[x] - from[x]
        BY <4>1
      <4>4. (from[x] - 1) + p \in 1 .. Len(Stream)
        BY <4>1, <4>2, <4>3, Within
      <4>5. to[x] \in 1 .. Len(Stream)
        BY <4>1, <4>2
      <4>6. QED
        BY <4>4, <4>5
    <3>3. ASSUME NEW c \in 1 .. Len(Stream), to[x] < c
          PROVE  lines[x][p].line < Stream[c].line
      <4>1. Stream[to[x]].line < Stream[c].line
        BY <1>3, <3>3, AfterNewline
      <4>2. Stream[to[x]].line \in 1 .. begun /\ Stream[c].line \in 1 .. begun
        BY <3>2 DEF IInv, StreamInv
      <4>3. QED
        BY <2>3, <3>1, <4>1, <4>2
    <3>4. QED
      BY <3>1, <3>2, <3>3
  <2>6. ASSUME NEW i \in 1 .. Len(queue'), NEW p \in 1 .. Len(queue'[i])
        PROVE  /\ queue'[i][p].line \in 1 .. begun
               /\ \A c \in 1 .. Len(Stream') : queue'[i][p].line < Stream'[c].line
    <3>1. CASE i \in 1 .. m
      BY <1>7, <2>1, <2>4, <3>1
    <3>2. CASE i - m \in 1 .. Len(lines) /\ m + (i - m) = i
      <4> DEFINE x == i - m
      <4>1. x \in 1 .. Len(lines) /\ queue'[i] = lines[x]
        BY <2>1, <3>2
      <4> HIDE DEF x
      <4>2. queue'[i][p].line \in 1 .. begun
        BY <2>5, <4>1
      <4>3. ASSUME NEW c \in 1 .. Len(Stream')
            PROVE  queue'[i][p].line < Stream'[c].line
        <5>1. k + c \in 1 .. Len(Stream) /\ Stream'[c].line = Stream[k + c].line
          BY <1>7
        <5>2. to[x] \in Nat /\ to[x] <= k /\ k \in Nat
          BY <1>5, <4>1
        <5>3. c \in Nat /\ 1 <= c
          BY <1>6
        <5>4. to[x] < k + c
          BY <5>2, <5>3
        <5>5. QED
          BY <2>5, <4>1, <5>1, <5>4
      <4>4. QED
        BY <4>2, <4>3
    <3>3. QED
      BY <2>2, <3>1, <3>2
  <2>7. ASSUME NEW i \in 1 .. Len(queue'), NEW j \in 1 .. Len(queue'), i < j,
               NEW p \in 1 .. Len(queue'[i]), NEW r \in 1 .. Len(queue'[j])
        PROVE  queue'[i][p].line < queue'[j][r].line
    <3>1. CASE j \in 1 .. m
      <4>1. i \in 1 .. m
        BY <2>1, <2>7, <3>1
      <4>2. QED
        BY <2>1, <2>7, <3>1, <4>1 DEF IInv, QueueInv, m
    <3>2. CASE j - m \in 1 .. Len(lines) /\ m + (j - m) = j
      <4> DEFINE y == j - m
                 c == (from[y] - 1) + r
      <4>1. y \in 1 .. Len(lines) /\ queue'[j] = lines[y]
        BY <2>1, <3>2
      <4> HIDE DEF y
      <4>2. c \in 1 .. Len(Stream) /\ queue'[j][r].line = Stream[c].line
        BY <2>5, <4>1
      <4>3. CASE i \in 1 .. m
        <5> HIDE DEF c
        <5>1. QED
          BY <2>1, <2>4, <4>2, <4>3
      <4>4. CASE i - m \in 1 .. Len(lines) /\ m + (i - m) = i
        <5> DEFINE x == i - m
        <5>1. x \in 1 .. Len(lines) /\ queue'[i] = lines[x] /\ x < y
          BY <2>1, <2>7, <4>4 DEF y
        <5> HIDE DEF x
        <5>2. to[x] < from[y]
          BY <1>3, <4>1, <5>1 DEF ReadIs, Cuts
        <5>3. to[x] < c
          <6>1. from[y] \in Nat /\ to[x] \in Nat /\ r \in Nat /\ 1 <= r
            BY <1>1, <1>3, <4>1, <5>1, ReadTypes
          <6>2. QED
            BY <5>2, <6>1
        <5> HIDE DEF c
        <5>4. QED
          BY <2>5, <4>2, <5>1, <5>3
      <4>5. QED
        BY <2>2, <4>3, <4>4
    <3>3. QED
      BY <2>2, <3>1, <3>2
  <2>8. QED
    BY <1>4, <2>6, <2>7 DEF QueueInv
<1>11. QED
  BY <1>2, <1>8, <1>9, <1>10 DEF IInv
-----------------------------------------------------------------------------
\* Every step keeps the invariant.
LEMMA InvStep == IInv /\ [Next]_vars => IInv'
<1> SUFFICES ASSUME IInv, [Next]_vars
             PROVE  IInv'
  OBVIOUS
<1>1. CASE Start
  BY <1>1, StepStart
<1>2. CASE Open
  BY <1>2, StepOpen
<1>3. CASE Write
  BY <1>3, StepWrite
<1>4. CASE Close
  BY <1>4, StepClose
<1>5. CASE Reopen \/ ReadEof
  BY <1>5, StepReopen
<1>6. CASE Read
  BY <1>6, StepRead
<1>7. CASE CloseFd
  BY <1>7, StepCloseFd
<1>8. CASE UNCHANGED vars
  <2>1. UNCHANGED <<begun, todo, writer, fifo, reader, hup, buffer, queue, complete, window,
                    torn, restarts>>
    BY <1>8 DEF vars, writerVars, readerVars, restarting
  <2>2. Stream' = Stream /\ Written' = Written
    BY <2>1 DEF Stream, Written
  <2>3. Typed' /\ WriterInv' /\ StreamInv' /\ QueueInv'
    BY <2>1, <2>2 DEF IInv, Typed, WriterInv, StreamInv, QueueInv
  <2>4. QED
    BY <2>3 DEF IInv
<1>9. CASE Restart
  BY <1>9, StepRestart
<1>10. QED
  BY <1>1, <1>2, <1>3, <1>4, <1>5, <1>6, <1>7, <1>8, <1>9 DEF Next, Writing, Reading

\* So it holds in every state.
LEMMA Always == Spec => []IInv
BY Initially, InvStep, PTL DEF Spec

\* The bytes between a writer and the queue are never more than its lines have.
LEMMA TypesHold == IInv => TypeOK
<1> SUFFICES ASSUME IInv
             PROVE  TypeOK
  OBVIOUS
<1>1. Typed
  BY DEF IInv
<1>2. Len(todo) + Len(fifo) + Len(buffer) = Len(Stream) /\ Len(Stream) \in Nat
  BY <1>1, StreamSeq DEF StreamIs
<1>3. begun \in Nat /\ Lines \in Nat /\ begun <= Lines /\ Len(Text) + 1 \in Nat
  BY <1>1, FifoAssumption DEF Typed, FifoAssumption
<1>4. begun * (Len(Text) + 1) <= Lines * (Len(Text) + 1)
  <2> DEFINE l == Len(Text) + 1
             more == Lines - begun
  <2>1. l \in Nat /\ more \in Nat /\ Lines = begun + more
    BY <1>3
  <2> HIDE DEF l, more
  <2>2. (begun + more) * l = begun * l + more * l /\ more * l \in Nat /\ begun * l \in Nat
    BY <1>3, <2>1
  <2>3. begun * l <= Lines * l
    BY <2>1, <2>2
  <2>4. QED
    BY <2>3 DEF l
<1>5. Len(Stream) <= begun * (Len(Text) + 1)
  BY DEF IInv, StreamInv
<1>6. Len(Stream) <= Lines * (Len(Text) + 1)
  <2> DEFINE u == begun * (Len(Text) + 1)
             v == Lines * (Len(Text) + 1)
  <2>1. u \in Nat /\ v \in Nat
    BY <1>3
  <2>2. Len(Stream) <= u /\ u <= v
    BY <1>4, <1>5
  <2> HIDE DEF u, v
  <2>3. Len(Stream) <= v
    BY <1>2, <2>1, <2>2
  <2>4. QED
    BY <2>3 DEF v
<1>7. complete \subseteq 1 .. Lines
  BY <1>1, <1>3 DEF Typed
<1>8. Len(todo) + Len(fifo) + Len(buffer) <= Lines * (Len(Text) + 1)
  BY <1>2, <1>6
<1>9. QED
  BY <1>1, <1>7, <1>8 DEF Typed, TypeOK

\* Lines leave the FIFO in the order they were begun in.
LEMMA OrderHolds == IInv => InOrder
<1> SUFFICES ASSUME IInv, NEW i \in 1 .. Len(queue), NEW j \in 1 .. Len(queue), i < j,
                    NEW b \in Content(queue[i]), NEW c \in Content(queue[j])
             PROVE  b.line < c.line
  BY DEF InOrder
<1>1. queue[i] \in Seq(Bytes) /\ queue[j] \in Seq(Bytes)
  BY DEF IInv, Typed
<1>2. PICK p \in 1 .. Len(queue[i]) : b = queue[i][p]
  BY <1>1 DEF Content, ToSet
<1>3. PICK r \in 1 .. Len(queue[j]) : c = queue[j][r]
  BY <1>1 DEF Content, ToSet
<1>4. QED
  BY <1>2, <1>3 DEF IInv, QueueInv

\* The runner's and the writers' variables have their types, and no more is between
\* a writer and the queue than the writers' lines have bytes (notify.sh writes one
\* line at a time; the runner's buffer is never filled twice from one byte).
THEOREM TypeCorrect == Spec => []TypeOK
BY Always, TypesHold, PTL

\* However the reads cut what is written, whichever writers are killed and however
\* often the FIFO is closed and opened again: lines reach the queue of the sender in
\* the order notify.sh wrote them in, and none of them twice.
THEOREM QueuedInOrder == Spec => []InOrder
BY Always, OrderHolds, PTL
-----------------------------------------------------------------------------
\* A byte of a line is not a newline, nor does decoding make it one.
LEMMA ShownByte ==
    ASSUME NEW n, NEW c \in {"a", "h", "t"}, NEW b \in Shown(n, c)
    PROVE  b.line = n /\ b.char # "nl" /\ (c = "a" => b.char = "a")
BY ByteParts DEF Shown

\* What is shown of a byte is still shown when it is decoded.
LEMMA StaysShown ==
    ASSUME NEW n, NEW c \in {"a", "h", "t"}, NEW b \in Shown(n, c), NEW e, Became(e, b)
    PROVE  e \in Shown(n, c)
<1>1. CASE e = b
  BY <1>1
<1>2. CASE b.char \notin {"a", "nl"} /\ e = Byte(b.line, "?")
  BY <1>2, ShownByte DEF Shown
<1>3. QED
  BY <1>1, <1>2 DEF Became

\* A text is a sequence of bytes other than a newline.
LEMMA TextBytes == Len(Text) \in Nat /\ \A i \in 1 .. Len(Text) : Text[i] \in {"a", "h", "t"}
BY FifoAssumption DEF FifoAssumption

\* A whole line stays whole where its bytes go together.
LEMMA WholeStays ==
    ASSUME NEW v, NEW p \in Nat, NEW w, NEW q \in Nat, NEW T, NEW U, WholeBefore(w, q, T),
           v[p].line \notin U => Len(Text) < p, v[p].line = w[q].line,
           \A i \in 1 .. Len(Text) : Len(Text) < (p - 1) + i =>
               /\ Len(Text) < (q - 1) + i
               /\ Became(v[(p - 1 - Len(Text)) + i], w[(q - 1 - Len(Text)) + i])
    PROVE  WholeBefore(v, p, U)
<1>1. ASSUME NEW i \in 1 .. Len(Text), Len(Text) < (p - 1) + i
      PROVE  v[(p - 1 - Len(Text)) + i] \in Shown(v[p].line, Text[i])
  <2>1. w[(q - 1 - Len(Text)) + i] \in Shown(w[q].line, Text[i])
    BY <1>1 DEF WholeBefore
  <2>2. QED
    BY <1>1, <2>1, TextBytes, StaysShown
<1>2. QED
  BY <1>1 DEF WholeBefore

\* ... and where they stay in their place.
LEMMA WholeSame ==
    ASSUME NEW v, NEW w, NEW p, NEW T, WholeBefore(w, p, T), v[p] = w[p],
           \A i \in 1 .. Len(Text) : Len(Text) < (p - 1) + i =>
               v[(p - 1 - Len(Text)) + i] = w[(p - 1 - Len(Text)) + i]
    PROVE  WholeBefore(v, p, T)
BY DEF WholeBefore

\* What LinesIntact says.
LEMMA IntactIs ==
    LinesIntact <=> \A i \in 1 .. Len(queue) :
        Len(queue[i]) # 0 /\ \E n \in complete : EndsAs(queue[i], n, torn, complete)
BY DEF LinesIntact, EndsAs

\* The same of the next state.
LEMMA IntactIsNext ==
    LinesIntact' <=> \A i \in 1 .. Len(queue') :
        Len(queue'[i]) # 0 /\ \E n \in complete' : EndsAs(queue'[i], n, torn', complete')
BY DEF LinesIntact, EndsAs

\* Nothing is complete at the start.
LEMMA WholeInitially == Init => WInv
<1> SUFFICES ASSUME Init
             PROVE  WInv
  OBVIOUS
<1>1. IInv
  BY Initially
<1>2. Len(Stream) = 0 /\ Written = 0 /\ Len(buffer) = 0 /\ Len(queue) = 0
  BY <1>1, StreamSeq DEF Init, IInv, StreamIs
<1>3. QED
  BY <1>1, <1>2 DEF WInv, WholeInv, NewlineAhead, Remains, LinesIntact

\* What a new line does to the stream.
LEMMA StartEffect ==
    ASSUME IInv, Start
    PROVE  /\ Written' = Written /\ Len(Stream) = Written /\ Written \in Nat
           /\ Len(Stream') = Written + (Len(Text) + 1)
           /\ \A i \in 1 .. Written : Stream'[i] = Stream[i]
           /\ \A i \in 1 .. Len(Text) : Stream'[Written + i] = Byte(begun + 1, Text[i])
           /\ Stream'[Written + (Len(Text) + 1)] = Byte(begun + 1, "nl")
<1>1. /\ Typed /\ begun \in Nat /\ todo = <<>> /\ UNCHANGED <<buffer, fifo>>
      /\ todo' = Line(begun + 1) \o <<Byte(begun + 1, "nl")>>
  BY DEF Start, IInv, Typed, WriterInv, readerVars
<1>2. Typed'
  BY StepStart DEF IInv
<1>3. /\ Len(todo') = Len(Text) + 1 /\ Len(Text) \in Nat
      /\ \A i \in 1 .. Len(Text) : todo'[i] = Byte(begun + 1, Text[i])
      /\ todo'[Len(Text) + 1] = Byte(begun + 1, "nl")
  <2>1. begun + 1 \in Nat
    BY <1>1
  <2>2. QED
    BY <1>1, <2>1, NewLine
<1>4. /\ Len(Stream) = Written + Len(todo) /\ Written \in Nat /\ Written = Len(buffer) + Len(fifo)
      /\ Len(buffer) \in Nat /\ Len(fifo) \in Nat
      /\ \A i \in 1 .. Len(buffer) : Stream[i] = buffer[i]
      /\ \A i \in 1 .. Len(fifo) : Stream[Len(buffer) + i] = fifo[i]
  BY <1>1, StreamSeq DEF StreamIs
<1>5. Written' = Written
  BY <1>1 DEF Written
<1>6. /\ Len(Stream') = Written + Len(todo')
      /\ \A i \in 1 .. Len(buffer) : Stream'[i] = buffer[i]
      /\ \A i \in 1 .. Len(fifo) : Stream'[Len(buffer) + i] = fifo[i]
      /\ \A i \in 1 .. Len(todo') : Stream'[Written + i] = todo'[i]
  BY <1>1, <1>2, <1>5, StreamSeqNext DEF StreamIs
<1>7. Len(Stream) = Written
  BY <1>1, <1>4
<1>8. ASSUME NEW i \in 1 .. Written
      PROVE  Stream'[i] = Stream[i]
  <2>1. CASE i <= Len(buffer)
    BY <1>4, <1>6, <2>1
  <2>2. CASE Len(buffer) < i
    <3> DEFINE e == i - Len(buffer)
    <3>1. e \in 1 .. Len(fifo) /\ Len(buffer) + e = i
      BY <1>4, <2>2
    <3> HIDE DEF e
    <3>2. QED
      BY <1>4, <1>6, <3>1
  <2>3. QED
    BY <1>4, <2>1, <2>2
<1>9. \A i \in 1 .. Len(Text) : Stream'[Written + i] = Byte(begun + 1, Text[i])
  <2>1. \A i \in 1 .. Len(Text) : i \in 1 .. Len(todo')
    BY <1>3
  <2>2. QED
    BY <1>3, <1>6, <2>1
<1>10. Stream'[Written + (Len(Text) + 1)] = Byte(begun + 1, "nl")
  <2>1. Len(Text) + 1 \in 1 .. Len(todo')
    BY <1>3
  <2>2. QED
    BY <1>3, <1>6, <2>1
<1>11. QED
  BY <1>3, <1>4, <1>5, <1>6, <1>7, <1>8, <1>9, <1>10

\* A new line goes behind the others, whole and not complete.
LEMMA WholeStart == ASSUME WInv, Start PROVE WInv'
<1> DEFINE l == Len(Text)
           n == begun + 1
<1>1. IInv /\ IInv'
  BY StepStart DEF WInv
<1>2. /\ Written' = Written /\ Len(Stream) = Written /\ Written \in Nat
      /\ Len(Stream') = Written + (l + 1)
      /\ \A i \in 1 .. Written : Stream'[i] = Stream[i]
      /\ \A i \in 1 .. l : Stream'[Written + i] = Byte(n, Text[i])
      /\ Stream'[Written + (l + 1)] = Byte(n, "nl")
  BY <1>1, StartEffect
<1>3. l \in Nat /\ \A i \in 1 .. l : Text[i] \in {"a", "h", "t"}
  BY TextBytes
<1>4. /\ begun \in Nat /\ begun' = n /\ complete \subseteq 1 .. begun
      /\ UNCHANGED <<reader, buffer, queue, complete, torn>>
  BY <1>1 DEF Start, IInv, Typed, readerVars, restarting
\* Where a byte of the new stream is.
<1>5. ASSUME NEW p \in 1 .. Len(Stream')
      PROVE  \/ p \in 1 .. Written
             \/ Stream'[p].line = n /\ (Stream'[p].char = "nl" => p = Written + (l + 1))
  <2> SUFFICES ASSUME Written < p
               PROVE  Stream'[p].line = n /\ (Stream'[p].char = "nl" => p = Written + (l + 1))
    BY <1>2
  <2> DEFINE e == p - Written
  <2>1. e \in 1 .. l + 1 /\ p = Written + e
    BY <1>2, <1>3
  <2> HIDE DEF e, l, n
  <2>2. CASE e = l + 1
    BY <1>2, <2>1, <2>2, ByteParts
  <2>3. CASE e \in 1 .. l
    <3>1. Stream'[p] = Byte(n, Text[e]) /\ Text[e] # "nl"
      BY <1>2, <1>3, <2>1, <2>3
    <3>2. QED
      BY <3>1, ByteParts
  <2>4. QED
    BY <1>3, <2>1, <2>2, <2>3
<1> HIDE DEF l, n
<1>6. WholeInv'
  <2>1. ASSUME NEW p \in 1 .. Len(Stream'), Stream'[p].char = "nl"
        PROVE  WholeBefore(Stream', p, torn)
    <3>1. CASE p \in 1 .. Written
      <4>1. Stream'[p] = Stream[p] /\ p \in 1 .. Len(Stream)
        BY <1>2, <3>1
      <4>2. WholeBefore(Stream, p, torn) /\ (Stream[p].line \notin torn => l < p)
        BY <2>1, <4>1 DEF WInv, WholeInv, WholeBefore, l
      <4>3. ASSUME NEW i \in 1 .. l, l < (p - 1) + i
            PROVE  Stream'[(p - 1 - l) + i] = Stream[(p - 1 - l) + i]
        <5>1. (p - 1 - l) + i \in 1 .. Written
          BY <1>2, <1>3, <3>1, <4>3
        <5>2. QED
          BY <1>2, <5>1
      <4>4. QED
        BY <4>1, <4>2, <4>3, WholeSame DEF l
    <3>2. CASE p = Written + (l + 1)
      <4>1. l < p /\ Stream'[p].line = n
        BY <1>2, <1>3, <3>2, ByteParts
      <4>2. ASSUME NEW i \in 1 .. l
            PROVE  Stream'[(p - 1 - l) + i] \in Shown(n, Text[i])
        <5>1. (p - 1 - l) + i = Written + i
          BY <1>2, <1>3, <3>2
        <5>2. QED
          BY <1>2, <5>1 DEF Shown
      <4>3. QED
        BY <4>1, <4>2 DEF WholeBefore, l
    <3>3. QED
      BY <1>5, <2>1, <3>1, <3>2
  <2>2. ASSUME NEW p \in 1 .. Written', Stream'[p].char = "nl"
        PROVE  Stream'[p].line \in complete'
    BY <1>2, <1>4, <2>2 DEF WInv, WholeInv
  <2>3. torn' = torn
    BY <1>4
  <2>4. QED
    BY <2>1, <2>2, <2>3 DEF WholeInv
<1>7. NewlineAhead'
  <2> SUFFICES ASSUME NEW p \in 1 .. Len(Stream'), Stream'[p].line \in complete
               PROVE  \E q \in p .. Len(Stream') :
                          Stream'[q].line = Stream'[p].line /\ Stream'[q].char = "nl"
    BY <1>4 DEF NewlineAhead
  <2>1. p \in 1 .. Written
    <3>1. Stream'[p].line # n
      BY <1>4 DEF n
    <3>2. QED
      BY <1>5, <3>1
  <2>2. PICK q \in p .. Len(Stream) : Stream[q].line = Stream[p].line /\ Stream[q].char = "nl"
    <3>1. p \in 1 .. Len(Stream) /\ Stream[p].line \in complete
      BY <1>2, <2>1
    <3>2. QED
      BY <3>1 DEF WInv, NewlineAhead
  <2>3. q \in 1 .. Written /\ q \in p .. Len(Stream')
    BY <1>2, <1>3, <2>1, <2>2
  <2>4. Stream'[q] = Stream[q] /\ Stream'[p] = Stream[p]
    BY <1>2, <2>1, <2>3
  <2>5. QED
    BY <2>2, <2>3, <2>4
<1>8. Remains'
  <2> SUFFICES ASSUME reader # "open", NEW i \in 1 .. Len(buffer)
               PROVE  buffer[i].line \notin complete /\ buffer[i].line < begun'
    BY <1>4 DEF Remains
  <2>1. buffer[i].line \notin complete
    BY DEF WInv, Remains
  <2>2. i \in 1 .. Len(Stream) /\ Stream[i] = buffer[i]
    <3>1. Typed
      BY <1>1 DEF IInv
    <3>2. QED
      BY <3>1, StreamSeq DEF StreamIs
  <2>3. buffer[i].line \in 1 .. begun
    BY <1>1, <2>2 DEF IInv, StreamInv
  <2>4. QED
    BY <1>4, <2>1, <2>3 DEF n
<1>9. LinesIntact'
  BY <1>4 DEF WInv, LinesIntact
<1>10. QED
  BY <1>1, <1>6, <1>7, <1>8, <1>9 DEF WInv

\* Opening moves no byte.
LEMMA WholeOpen == ASSUME WInv, Open PROVE WInv'
<1>1. IInv /\ IInv'
  BY StepOpen DEF WInv
<1>2. /\ writer = "opening" /\ writer' = "open"
      /\ UNCHANGED <<begun, todo, reader, buffer, queue, fifo, complete, torn>>
  BY DEF Open, readerVars, restarting
<1>3. Stream' = Stream /\ Written' = Written
  BY <1>2 DEF Stream, Written
<1>4. WholeInv' /\ NewlineAhead' /\ LinesIntact'
  BY <1>2, <1>3 DEF WInv, WholeInv, NewlineAhead, LinesIntact, WholeBefore
<1>5. Remains'
  BY <1>2 DEF WInv, Remains
<1>6. QED
  BY <1>1, <1>4, <1>5 DEF WInv

\* Of what a writer has still to write only the last byte is a newline.
LEMMA NewlineLast ==
    ASSUME IInv, NEW i \in 1 .. Len(todo), todo[i].char = "nl"
    PROVE  i = Len(todo)
<1> SUFFICES ASSUME i # Len(todo)
             PROVE  FALSE
  OBVIOUS
<1> DEFINE j == Len(todo)
<1>1. Typed /\ begun \in Nat
  BY DEF IInv, Typed
<1>2. /\ j \in Nat /\ Written \in Nat /\ Len(Stream) = Written + j
      /\ \A e \in 1 .. j : Stream[Written + e] = todo[e]
  BY <1>1, StreamSeq DEF StreamIs
<1>3. i \in 1 .. j /\ j \in 1 .. j /\ i < j
  BY <1>2
<1>4. Stream[Written + i] = todo[i] /\ Stream[Written + j] = todo[j]
  BY <1>2, <1>3
<1>5. /\ Written + i \in 1 .. Len(Stream) /\ Written + j \in 1 .. Len(Stream)
      /\ Written + i < Written + j
  <2> HIDE DEF j
  <2>1. QED
    BY <1>2, <1>3
<1>6. Before(todo[i], todo[j])
  BY <1>4, <1>5 DEF IInv, StreamInv, Ordered
<1>7. todo[i].line = begun /\ todo[j].line = begun
  BY <1>3 DEF IInv, WriterInv
<1>8. QED
  BY <1>1, <1>6, <1>7 DEF Before

\* A write that ends a line makes it complete, whole in the FIFO or the buffer.
LEMMA WholeWrite == ASSUME WInv, Write PROVE WInv'
<1>1. IInv /\ IInv' /\ Typed
  BY StepWrite DEF WInv, IInv
<1>2. /\ writer = "open" /\ HasReader
      /\ complete' = IF todo' = <<>> THEN complete \cup {begun} ELSE complete
      /\ UNCHANGED <<begun, writer, reader, buffer, queue, torn>>
  BY DEF Write, readerVars, restarting
<1>3. PICK n \in 1 .. Len(todo) : /\ fifo' = fifo \o SubSeq(todo, 1, n)
                                  /\ todo' = SubSeq(todo, n + 1, Len(todo))
  BY DEF Write
<1>4. /\ Stream' = Stream /\ Written' = Written + n /\ Len(todo') = Len(todo) - n
      /\ n \in Nat /\ n # 0 /\ Len(todo) \in Nat /\ n <= Len(todo) /\ todo' \in Seq(Bytes)
  <2>1. /\ Stream' = Stream /\ Written' = Written + n
        /\ todo' \in Seq(Bytes) /\ Len(todo') = Len(todo) - n
        /\ n \in Nat /\ Len(todo) \in Nat /\ n <= Len(todo)
    BY <1>1, <1>2, <1>3, WriteEffect
  <2>2. n # 0
    OBVIOUS
  <2>3. QED
    BY <2>1, <2>2
<1>5. /\ Written \in Nat /\ Len(Stream) = Written + Len(todo) /\ Len(buffer) \in Nat
      /\ Written = Len(buffer) + Len(fifo) /\ Len(fifo) \in Nat
      /\ \A i \in 1 .. Len(todo) : Stream[Written + i] = todo[i]
      /\ \A i \in 1 .. Len(buffer) : Stream[i] = buffer[i]
  BY <1>1, StreamSeq DEF StreamIs
<1>6. /\ \A i \in 1 .. Len(todo) : todo[i].line = begun
      /\ todo[Len(todo)].char = "nl" /\ begun \notin complete
  <2>1. todo # <<>>
    BY <1>4
  <2>2. QED
    BY <1>1, <2>1 DEF IInv, WriterInv
<1>7. WholeInv'
  <2>1. ASSUME NEW p \in 1 .. Written', Stream[p].char = "nl"
        PROVE  Stream[p].line \in complete'
    <3>1. CASE p <= Written
      <4>1. p \in 1 .. Written
        BY <1>5, <3>1
      <4>2. QED
        BY <1>2, <2>1, <4>1 DEF WInv, WholeInv
    <3>2. CASE Written < p
      <4> DEFINE e == p - Written
      <4>1. e \in 1 .. n /\ e \in 1 .. Len(todo) /\ Written + e = p
        BY <1>4, <1>5, <3>2
      <4> HIDE DEF e
      <4>2. Stream[p] = todo[e]
        BY <1>5, <4>1
      <4>3. e = Len(todo)
        BY <1>1, <2>1, <4>1, <4>2, NewlineLast
      <4>4. todo' = <<>>
        BY <1>4, <4>1, <4>3
      <4>5. QED
        BY <1>2, <1>6, <4>1, <4>2, <4>4
    <3>3. QED
      BY <1>4, <1>5, <3>1, <3>2
  <2>2. torn' = torn
    BY <1>2
  <2>3. QED
    BY <1>4, <2>1, <2>2 DEF WInv, WholeInv
<1>8. NewlineAhead'
  <2> SUFFICES ASSUME NEW p \in 1 .. Len(Stream), Stream[p].line \in complete'
               PROVE  \E q \in p .. Len(Stream) :
                          Stream[q].line = Stream[p].line /\ Stream[q].char = "nl"
    BY <1>4 DEF NewlineAhead
  <2>1. CASE Stream[p].line \in complete
    BY <2>1 DEF WInv, NewlineAhead
  <2>2. CASE Stream[p].line = begun
    <3>1. Len(Stream) \in p .. Len(Stream) /\ Stream[Len(Stream)] = todo[Len(todo)]
      <4>1. Len(todo) \in 1 .. Len(todo)
        BY <1>4
      <4>2. Stream[Written + Len(todo)] = todo[Len(todo)]
        BY <1>5, <4>1
      <4>3. Len(Stream) = Written + Len(todo)
        BY <1>5
      <4>4. Len(Stream) \in p .. Len(Stream)
        <5>1. Len(Stream) \in Nat
          BY <1>4, <1>5
        <5>2. QED
          BY <5>1
      <4>5. QED
        BY <4>2, <4>3, <4>4
    <3>2. todo[Len(todo)].line = begun
      BY <1>4, <1>6
    <3>3. QED
      BY <1>6, <2>2, <3>1, <3>2
  <2>3. QED
    BY <1>2, <2>1, <2>2
<1>9. Remains'
  <2> SUFFICES ASSUME reader # "open", NEW i \in 1 .. Len(buffer)
               PROVE  buffer[i].line \notin complete' /\ buffer[i].line < begun
    BY <1>2 DEF Remains
  <2>1. buffer[i].line \notin complete /\ buffer[i].line < begun
    BY <1>2 DEF WInv, Remains
  <2>2. begun \in Nat
    BY <1>1 DEF Typed
  <2>3. buffer[i].line # begun
    <3>1. i \in 1 .. Len(Stream) /\ Stream[i] = buffer[i]
      BY <1>4, <1>5
    <3>2. buffer[i].line \in 1 .. begun
      BY <1>1, <3>1 DEF IInv, StreamInv
    <3>3. QED
      BY <2>1, <2>2, <3>2
  <2>4. QED
    BY <1>2, <2>1, <2>3
<1>10. LinesIntact'
  <2> SUFFICES ASSUME NEW i \in 1 .. Len(queue)
               PROVE  /\ Len(queue[i]) # 0
                      /\ \E m \in complete' : EndsAs(queue[i], m, torn, complete')
    BY <1>2, IntactIsNext
  <2>1. Len(queue[i]) # 0 /\ \E m \in complete : EndsAs(queue[i], m, torn, complete)
    BY IntactIs DEF WInv
  <2>2. \A m \in complete : m \in complete'
    BY <1>2
  <2>3. ASSUME NEW b \in Content(queue[i])
        PROVE  b.line # begun
    <3>1. PICK r \in 1 .. Len(queue[i]) : b = queue[i][r]
      <4>1. queue[i] \in Seq(Bytes)
        BY <1>1 DEF Typed
      <4>2. QED
        BY <4>1 DEF Content, ToSet
    <3>2. Written + 1 \in 1 .. Len(Stream) /\ 1 \in 1 .. Len(todo)
      BY <1>4, <1>5
    <3>3. queue[i][r].line < Stream[Written + 1].line
      BY <1>1, <3>2 DEF IInv, QueueInv
    <3>4. Stream[Written + 1].line = begun
      BY <1>5, <1>6, <3>2
    <3>5. queue[i][r].line \in 1 .. begun /\ begun \in Nat
      <4>1. queue[i][r].line \in 1 .. begun
        BY <1>1 DEF IInv, QueueInv
      <4>2. begun \in Nat
        BY <1>1 DEF Typed
      <4>3. QED
        BY <4>1, <4>2
    <3>6. QED
      BY <3>1, <3>3, <3>4, <3>5
  <2>4. \A m \in complete : EndsAs(queue[i], m, torn, complete)
                                => EndsAs(queue[i], m, torn, complete')
    BY <1>2, <2>3 DEF EndsAs
  <2>5. QED
    BY <2>1, <2>2, <2>4
<1>11. QED
  BY <1>1, <1>7, <1>8, <1>9, <1>10 DEF WInv

\* When the stream loses its end, whole lines stay whole.
LEMMA WholePrefix ==
    ASSUME Typed, WholeInv, Len(Stream') = Written', Written' \in Nat, Written' <= Written,
           \A i \in 1 .. Len(Stream') : Stream'[i] = Stream[i], complete' = complete,
           torn' = torn
    PROVE  WholeInv'
<1>1. Written \in Nat /\ Len(Stream) \in Nat /\ Written <= Len(Stream)
  BY StreamSeq DEF StreamIs
<1>2. \A i \in 1 .. Len(Stream') : i \in 1 .. Len(Stream) /\ i \in 1 .. Written
  BY <1>1
<1>3. ASSUME NEW p \in 1 .. Len(Stream'), Stream'[p].char = "nl"
      PROVE  WholeBefore(Stream', p, torn)
  <2>1. Stream'[p] = Stream[p]
    OBVIOUS
  <2>2. WholeBefore(Stream, p, torn) /\ (Stream[p].line \notin torn => Len(Text) < p)
    BY <1>2, <1>3, <2>1 DEF WholeInv, WholeBefore
  <2>3. ASSUME NEW i \in 1 .. Len(Text), Len(Text) < (p - 1) + i
        PROVE  Stream'[(p - 1 - Len(Text)) + i] = Stream[(p - 1 - Len(Text)) + i]
    <3>1. (p - 1 - Len(Text)) + i \in 1 .. Len(Stream')
      BY <1>1, <1>2, <2>3, TextBytes
    <3>2. QED
      BY <3>1
  <2>4. QED
    BY <2>1, <2>2, <2>3, WholeSame
<1>4. ASSUME NEW p \in 1 .. Written', Stream'[p].char = "nl"
      PROVE  Stream'[p].line \in complete'
  <2>1. p \in 1 .. Written /\ Stream'[p] = Stream[p]
    BY <1>2
  <2>2. QED
    BY <1>4, <2>1 DEF WholeInv
<1>5. QED
  BY <1>3, <1>4 DEF WholeInv

\* A killed writer leaves a part that is not complete; what is complete is before it.
LEMMA WholeClose == ASSUME WInv, Close PROVE WInv'
<1>1. IInv /\ IInv' /\ Typed /\ Typed'
  BY StepClose DEF WInv, IInv
<1>2. /\ writer' = "none" /\ todo' = <<>> /\ Len(todo') = 0
      /\ fifo' = IF HasReader THEN fifo ELSE <<>>
      /\ UNCHANGED <<begun, reader, buffer, queue, complete, torn>>
  BY DEF Close, readerVars, restarting
<1>3. /\ Written \in Nat /\ Len(Stream) = Written + Len(todo) /\ Len(todo) \in Nat
      /\ \A i \in 1 .. Len(todo) : Stream[Written + i] = todo[i]
  BY <1>1, StreamSeq DEF StreamIs
<1>4. /\ Written' \in Nat /\ Len(Stream') = Written' /\ Written' = Len(buffer) + Len(fifo')
      /\ \A i \in 1 .. Len(buffer) : Stream'[i] = buffer[i]
  BY <1>1, <1>2, StreamSeqNext DEF StreamIs
<1>5. Written' <= Written /\ \A i \in 1 .. Len(Stream') : Stream'[i] = Stream[i]
  <2>1. PICK f : /\ Written' <= Written
                 /\ \A i \in 1 .. Len(Stream') : Stream'[i] = Stream[f[i]]
                 /\ \A i \in 1 .. Written' : f[i] = i
    BY <1>1, <1>2, StreamDrops
  <2>2. QED
    BY <1>4, <2>1
<1>6. WholeInv'
  BY <1>1, <1>2, <1>4, <1>5, WholePrefix DEF WInv
<1>7. NewlineAhead'
  <2> SUFFICES ASSUME NEW p \in 1 .. Len(Stream'), Stream'[p].line \in complete
               PROVE  \E q \in p .. Len(Stream') :
                          Stream'[q].line = Stream'[p].line /\ Stream'[q].char = "nl"
    BY <1>2 DEF NewlineAhead
  <2>1. CASE HasReader
    <3>1. Written' = Written
      BY <1>2, <2>1 DEF Written
    <3>2. PICK q \in p .. Len(Stream) : Stream[q].line = Stream[p].line /\ Stream[q].char = "nl"
      <4>1. p \in 1 .. Len(Stream) /\ Stream'[p] = Stream[p]
        BY <1>3, <1>4, <1>5
      <4>2. QED
        BY <4>1 DEF WInv, NewlineAhead
    <3>3. q <= Written
      <4> SUFFICES ASSUME Written < q
                   PROVE  FALSE
        BY <1>3
      <4> DEFINE e == q - Written
      <4>1. e \in 1 .. Len(todo) /\ Written + e = q
        BY <1>3
      <4> HIDE DEF e
      <4>2. Stream[q].line = begun
        BY <1>1, <1>3, <4>1 DEF IInv, WriterInv
      <4>3. begun \in complete
        BY <1>5, <3>2, <4>2
      <4>4. todo = <<>>
        BY <1>1, <4>3 DEF IInv, WriterInv
      <4>5. QED
        BY <4>1, <4>4
    <3>4. q \in p .. Len(Stream') /\ q \in 1 .. Len(Stream')
      BY <1>3, <1>4, <3>1, <3>2, <3>3
    <3>5. QED
      BY <1>5, <3>2, <3>4
  <2>2. CASE ~HasReader
    <3>1. p \in 1 .. Len(buffer) /\ Stream'[p] = buffer[p]
      <4>1. Len(fifo') = 0 /\ Len(buffer) \in Nat
        BY <1>1, <1>2, <2>2 DEF Typed
      <4>2. QED
        BY <1>4, <4>1
    <3>2. reader # "open"
      BY <2>2 DEF HasReader
    <3>3. QED
      BY <3>1, <3>2 DEF WInv, Remains
  <2>3. QED
    BY <2>1, <2>2
<1>8. Remains' /\ LinesIntact'
  <2>1. LinesIntact'
    BY <1>2 DEF WInv, LinesIntact
  <2>2. Remains'
    BY <1>2 DEF WInv, Remains
  <2>3. QED
    BY <2>1, <2>2
<1>9. QED
  BY <1>1, <1>6, <1>7, <1>8 DEF WInv

\* What a killed writer left in the FIFO is lost before the next writer's line, of
\* which no byte is written yet.
LEMMA WholeCloseFd == ASSUME WInv, CloseFd PROVE WInv'
<1>1. IInv /\ IInv' /\ Typed /\ Typed'
  BY StepCloseFd DEF WInv, IInv
<1>2. /\ reader = "eof" /\ reader' = "closed"
      /\ fifo' = IF writer = "open" THEN fifo ELSE <<>>
      /\ UNCHANGED <<begun, todo, writer, buffer, queue, complete, torn>>
  BY DEF CloseFd, writerVars, restarting
<1>3. Remains' /\ LinesIntact'
  BY <1>2 DEF WInv, Remains, LinesIntact
<1>4. CASE writer = "open"
  <2>1. Stream' = Stream /\ Written' = Written
    BY <1>2, <1>4 DEF Stream, Written
  <2>2. WholeInv' /\ NewlineAhead'
    BY <1>2, <2>1 DEF WInv, WholeInv, NewlineAhead, WholeBefore
  <2>3. QED
    BY <1>1, <1>3, <2>2 DEF WInv
<1>5. CASE writer # "open"
  <2>1. /\ Written' \in Nat /\ Len(Stream') = Written' + Len(todo) /\ Len(todo) \in Nat
        /\ Written' = Len(buffer) /\ Len(buffer) \in Nat
        /\ \A i \in 1 .. Len(buffer) : Stream'[i] = buffer[i]
        /\ \A i \in 1 .. Len(todo) : Stream'[Written' + i] = todo[i]
    <3>1. Len(fifo') = 0
      BY <1>2, <1>5
    <3>2. /\ Written' \in Nat /\ Len(Stream') = Written' + Len(todo') /\ Len(todo') \in Nat
          /\ Written' = Len(buffer') + Len(fifo') /\ Len(buffer') \in Nat
          /\ \A i \in 1 .. Len(buffer') : Stream'[i] = buffer'[i]
          /\ \A i \in 1 .. Len(todo') : Stream'[Written' + i] = todo'[i]
      BY <1>1, StreamSeqNext DEF StreamIs
    <3>3. QED
      BY <1>2, <3>1, <3>2
  <2>2. /\ Written \in Nat /\ Len(Stream) = Written + Len(todo)
        /\ \A i \in 1 .. Len(todo) : Stream[Written + i] = todo[i]
    BY <1>1, StreamSeq DEF StreamIs
  <2>3. ASSUME NEW p \in 1 .. Len(Stream')
        PROVE  \/ p \in 1 .. Len(buffer) /\ Stream'[p] = buffer[p]
               \/ \E e \in 1 .. Len(todo) : p = Written' + e /\ Stream'[p] = todo[e]
    <3>1. CASE p <= Len(buffer)
      BY <2>1, <3>1
    <3>2. CASE Len(buffer) < p
      <4> DEFINE e == p - Written'
      <4>1. e \in 1 .. Len(todo) /\ p = Written' + e
        BY <2>1, <3>2
      <4> HIDE DEF e
      <4>2. Stream'[p] = todo[e]
        BY <2>1, <4>1
      <4>3. QED
        BY <4>1, <4>2
    <3>3. QED
      BY <2>1, <3>1, <3>2
  <2>4. \A i \in 1 .. Len(buffer) : buffer[i].char # "nl" /\ buffer[i].line \notin complete
    BY <1>1, <1>2 DEF WInv, Remains, IInv, StreamInv, NoNewline
  <2>5. ASSUME NEW p \in 1 .. Len(Stream'), Stream'[p].char = "nl"
        PROVE  WholeBefore(Stream', p, torn)
    <3>1. PICK e \in 1 .. Len(todo) : p = Written' + e /\ Stream'[p] = todo[e]
      BY <2>3, <2>4, <2>5
    <3>2. e = Len(todo) /\ todo[e].char = "nl"
      BY <1>1, <2>5, <3>1, NewlineLast
    <3>3. e = Len(Text) + 1
      <4>1. todo # <<>>
        BY <3>1
      <4>2. writer = "opening"
        BY <1>1, <1>5, <4>1 DEF IInv, WriterInv, Typed
      <4>3. QED
        BY <1>1, <3>2, <4>2 DEF IInv, WriterInv
    <3> DEFINE q == Written + e
    <3>4. /\ q \in 1 .. Len(Stream) /\ q \in Nat /\ Stream[q] = todo[e]
          /\ p \in Nat /\ Len(Text) < p
      BY <2>1, <2>2, <3>1, <3>3, TextBytes
    <3>5. WholeBefore(Stream, q, torn)
      BY <3>2, <3>4 DEF WInv, WholeInv
    <3>6. ASSUME NEW i \in 1 .. Len(Text)
          PROVE  Became(Stream'[(p - 1 - Len(Text)) + i], Stream[(q - 1 - Len(Text)) + i])
      <4>1. (p - 1 - Len(Text)) + i = Written' + i /\ (q - 1 - Len(Text)) + i = Written + i
        BY <2>1, <2>2, <3>1, <3>3, TextBytes
      <4>2. i \in 1 .. Len(todo)
        BY <3>2, <3>3, TextBytes
      <4>3. QED
        BY <2>1, <2>2, <4>1, <4>2 DEF Became
    <3>7. \A i \in 1 .. Len(Text) : Len(Text) < (q - 1) + i
      BY <2>2, <3>3, TextBytes
    <3> HIDE DEF q
    <3>8. Stream'[p].line = Stream[q].line
      BY <3>1, <3>4
    <3>9. QED
      BY <3>4, <3>5, <3>6, <3>7, <3>8, WholeStays
  <2>6. WholeInv'
    BY <1>2, <2>1, <2>4, <2>5 DEF WholeInv
  <2>7. NewlineAhead'
    <3> SUFFICES ASSUME NEW p \in 1 .. Len(Stream'), Stream'[p].line \in complete
                 PROVE  FALSE
      BY <1>2 DEF NewlineAhead
    <3>1. PICK e \in 1 .. Len(todo) : Stream'[p] = todo[e]
      BY <2>3, <2>4
    <3>2. begun \in complete
      BY <1>1, <3>1 DEF IInv, WriterInv
    <3>3. todo = <<>>
      BY <1>1, <3>2 DEF IInv, WriterInv
    <3>4. QED
      BY <3>1, <3>3
  <2>8. QED
    BY <1>1, <1>3, <2>6, <2>7 DEF WInv
<1>6. QED
  BY <1>4, <1>5

\* At an end of file everything that is complete has been queued.
LEMMA WholeReopen == ASSUME WInv, Reopen \/ ReadEof PROVE WInv'
<1>1. IInv /\ IInv' /\ Typed
  BY StepReopen DEF WInv, IInv
<1>2. UNCHANGED <<begun, todo, writer, buffer, queue, fifo, complete, torn>>
  BY DEF Reopen, ReadEof, writerVars, restarting
<1>3. Stream' = Stream /\ Written' = Written
  BY <1>2 DEF Stream, Written
<1>4. WholeInv' /\ NewlineAhead' /\ LinesIntact'
  BY <1>2, <1>3 DEF WInv, WholeInv, NewlineAhead, LinesIntact, WholeBefore
<1>5. Remains'
  <2>1. CASE Reopen
    BY <2>1 DEF Reopen, Remains
  <2>2. CASE ReadEof
    <3>1. fifo = <<>> /\ writer # "open"
      BY <2>2 DEF ReadEof
    <3> SUFFICES ASSUME NEW i \in 1 .. Len(buffer)
                 PROVE  buffer[i].line \notin complete /\ (writer # "none" => buffer[i].line < begun)
      BY <1>2 DEF Remains
    <3>2. /\ Written = Len(buffer) /\ Len(Stream) = Written + Len(todo)
          /\ Len(todo) \in Nat /\ Len(buffer) \in Nat
          /\ \A j \in 1 .. Len(buffer) : Stream[j] = buffer[j]
          /\ \A j \in 1 .. Len(todo) : Stream[Written + j] = todo[j]
      <4>1. Len(fifo) = 0
        BY <3>1
      <4>2. QED
        BY <1>1, <4>1, StreamSeq DEF StreamIs
    <3>3. i \in 1 .. Written /\ i \in 1 .. Len(Stream) /\ Stream[i] = buffer[i]
      BY <3>2
    <3>4. writer # "none" => buffer[i].line < begun
      <4>1. writer # "none" => writer = "opening"
        BY <1>1, <3>1 DEF Typed
      <4>2. QED
        BY <1>1, <3>3, <4>1 DEF IInv, WriterInv
    <3>5. buffer[i].line \notin complete
      <4> SUFFICES ASSUME buffer[i].line \in complete
                   PROVE  FALSE
        OBVIOUS
      <4>1. PICK q \in i .. Len(Stream) : Stream[q].line = Stream[i].line /\ Stream[q].char = "nl"
        BY <3>3 DEF WInv, NewlineAhead
      <4>2. CASE q <= Len(buffer)
        <5>1. q \in 1 .. Len(buffer) /\ Stream[q] = buffer[q]
          BY <3>2, <4>2
        <5>2. QED
          BY <1>1, <4>1, <5>1 DEF IInv, StreamInv, NoNewline
      <4>3. CASE Len(buffer) < q
        <5> DEFINE e == q - Written
        <5>1. e \in 1 .. Len(todo) /\ Written + e = q
          BY <3>2, <4>1, <4>3
        <5> HIDE DEF e
        <5>2. Stream[q] = todo[e] /\ todo[e].line = begun
          BY <1>1, <3>2, <5>1 DEF IInv, WriterInv
        <5>3. begun \in complete
          BY <3>3, <4>1, <5>2
        <5>4. todo = <<>>
          BY <1>1, <5>3 DEF IInv, WriterInv
        <5>5. QED
          BY <5>1, <5>4
      <4>4. QED
        BY <3>2, <4>1, <4>2, <4>3
    <3>6. QED
      BY <3>4, <3>5
  <2>3. QED
    BY <2>1, <2>2
<1>6. QED
  BY <1>1, <1>4, <1>5 DEF WInv

\* No newline is within a whole line.
LEMMA NoneWithin ==
    ASSUME NEW w, NEW q \in Nat, NEW T, WholeBefore(w, q, T), NEW c \in Nat \ {0}, c < q, w[c].char = "nl"
    PROVE  c <= q - 1 - Len(Text)
<1> SUFFICES ASSUME q - 1 - Len(Text) < c
             PROVE  FALSE
  BY TextBytes
<1> DEFINE i == c - (q - 1 - Len(Text))
<1>1. i \in 1 .. Len(Text) /\ (q - 1 - Len(Text)) + i = c
  BY TextBytes
<1> HIDE DEF i
<1>2. w[c] \in Shown(w[q].line, Text[i])
  BY <1>1 DEF WholeBefore
<1>3. QED
  BY <1>1, <1>2, TextBytes, ShownByte

\* A line that a read queues ends with the whole line its newline is of, which is
\* complete; no other complete line has left a byte in it.
LEMMA WholeLine ==
    ASSUME WInv, NEW w, NEW lines, NEW k, NEW from, NEW to, ReadIs(w, lines, k, from, to),
           NEW x \in 1 .. Len(lines)
    PROVE  Len(lines[x]) # 0 /\ \E n \in complete : EndsAs(lines[x], n, torn, complete)
<1> DEFINE a == from[x]
           z == to[x]
           l == Len(Text)
           n == Stream[z].line
<1>1. IInv /\ Typed /\ begun \in Nat
  BY DEF WInv, IInv, Typed
<1>2. /\ w \in Seq(Bytes) /\ Len(w) \in Nat /\ k \in 0 .. Len(w)
      /\ Len(w) <= Written /\ Written <= Len(Stream)
      /\ Written \in Nat /\ Len(Stream) \in Nat /\ lines \in Seq(Seq(Bytes))
  BY <1>1, ReadTypes
<1>3. /\ a \in Nat /\ z \in Nat /\ 1 <= a /\ a < z /\ z <= k
      /\ Len(lines[x]) = z - a /\ \A p \in 1 .. Len(lines[x]) : lines[x][p] = w[(a - 1) + p]
  BY <1>1, ReadTypes
<1>4. /\ a = 1 \/ w[a - 1].char = "nl"
      /\ w[z].char = "nl"
      /\ \A i \in a .. z - 1 : w[i].char # "nl"
  BY DEF ReadIs, Cuts
<1>5. \A i \in 1 .. Len(w) : /\ w[i].char = "nl" <=> Stream[i].char = "nl"
                             /\ w[i].line = Stream[i].line
                             /\ Became(w[i], Stream[i])
  <2>1. \A i \in 1 .. Len(w) : 0 + i = i
    BY <1>2
  <2>2. QED
    BY <2>1 DEF ReadIs, SameFrom
<1> HIDE DEF a, z, l, n
<1>6. k \in Nat /\ k <= Len(w) /\ z \in 1 .. Len(w) /\ z \in 1 .. Written /\ z \in 1 .. Len(Stream)
  BY <1>2, <1>3
<1>7. /\ Stream[z].char = "nl" /\ n \in complete /\ l \in Nat
      /\ WholeBefore(Stream, z, torn) /\ (n \notin torn => l < z)
  <2>1. Stream[z].char = "nl"
    BY <1>4, <1>5, <1>6
  <2>2. n \in complete /\ WholeBefore(Stream, z, torn)
    BY <1>6, <2>1 DEF WInv, WholeInv, n
  <2>3. QED
    BY <2>1, <2>2, TextBytes DEF WholeBefore, l, n
<1>8. a # 1 \/ n \notin torn => a <= z - l
  <2>1. CASE a = 1
    BY <1>3, <1>7, <2>1
  <2>2. CASE a # 1
    <3>1. a - 1 \in Nat \ {0} /\ a - 1 \in 1 .. Len(w) /\ a - 1 < z
      BY <1>3, <1>6, <2>2
    <3>2. Stream[a - 1].char = "nl"
      BY <1>4, <1>5, <2>2, <3>1
    <3>3. a - 1 <= z - 1 - l
      <4>1. z \in Nat /\ WholeBefore(Stream, z, torn)
        BY <1>3, <1>7
      <4>2. QED
        BY <3>1, <3>2, <4>1, NoneWithin DEF l
    <3>4. QED
      BY <1>3, <1>7, <3>3
  <2>3. QED
    BY <2>1, <2>2
<1>9. Len(lines[x]) # 0 /\ Len(lines[x]) \in Nat /\ (n \notin torn => l <= Len(lines[x]))
  BY <1>3, <1>7, <1>8
<1>10. ASSUME NEW j \in 1 .. l, l < Len(lines[x]) + j
       PROVE  lines[x][Len(lines[x]) - l + j] \in Shown(n, Text[j])
  <2> DEFINE c == (z - 1 - l) + j
             p == Len(lines[x]) - l + j
  <2>1. j \in Nat /\ 1 <= j /\ j <= l
    BY <1>7
  <2>2. p \in 1 .. Len(lines[x]) /\ (a - 1) + p = c /\ c \in 1 .. Len(w) /\ l < (z - 1) + j
    BY <1>3, <1>6, <1>7, <1>9, <1>10, <2>1
  <2>3. Stream[c] \in Shown(n, Text[j])
    BY <1>7, <2>2 DEF WholeBefore, l, n
  <2> HIDE DEF c, p
  <2>4. lines[x][p] = w[c] /\ Became(w[c], Stream[c])
    BY <1>3, <1>5, <2>2
  <2>5. Text[j] \in {"a", "h", "t"}
    BY TextBytes DEF l
  <2>6. w[c] \in Shown(n, Text[j])
    BY <2>3, <2>4, <2>5, StaysShown
  <2>7. QED
    BY <2>4, <2>6 DEF p
<1>11. ASSUME NEW b \in Content(lines[x]), b.line \in complete
       PROVE  b.line = n
  <2>1. PICK p \in 1 .. Len(lines[x]) : b = lines[x][p]
    <3>1. lines[x] \in Seq(Bytes)
      BY <1>2
    <3>2. QED
      BY <3>1 DEF Content, ToSet
  <2> DEFINE c == (a - 1) + p
  <2>2. c \in 1 .. Len(w) /\ a <= c /\ c < z /\ c \in 1 .. Len(Stream)
    <3>1. p \in Nat /\ 1 <= p /\ p <= z - a
      BY <1>3
    <3>2. c \in 1 .. Len(w) /\ c < z
      BY <1>2, <1>3, <1>6, <3>1, Within
    <3>3. QED
      BY <1>2, <1>3, <3>1, <3>2
  <2>3. b = w[c]
    BY <1>3, <2>1
  <2> HIDE DEF c
  <2>4. b.line = Stream[c].line
    BY <1>5, <2>2, <2>3
  <2>5. PICK q \in c .. Len(Stream) : Stream[q].line = Stream[c].line /\ Stream[q].char = "nl"
    BY <1>11, <2>2, <2>4 DEF WInv, NewlineAhead
  <2>6. q \in 1 .. Len(Stream) /\ z <= q
    <3>1. q \in 1 .. Len(Stream)
      BY <1>2, <2>2, <2>5
    <3>2. ASSUME q < z
          PROVE  FALSE
      <4>1. q \in 1 .. Len(w) /\ q \in a .. z - 1
        BY <1>3, <1>6, <2>2, <2>5, <3>1, <3>2
      <4>2. QED
        BY <1>4, <1>5, <2>5, <4>1
    <3>3. QED
      BY <1>3, <3>1, <3>2
  <2>7. CASE q = z
    BY <2>4, <2>5, <2>7 DEF n
  <2>8. CASE z < q
    <3>1. Stream[z].line < Stream[q].line
      <4>1. Before(Stream[z], Stream[q])
        BY <1>1, <1>6, <2>6, <2>8 DEF IInv, StreamInv, Ordered
      <4>2. QED
        BY <1>7, <4>1 DEF Before
    <3>2. Stream[c].line <= Stream[z].line
      <4>1. Before(Stream[c], Stream[z])
        BY <1>1, <1>6, <2>2 DEF IInv, StreamInv, Ordered
      <4>2. Stream[c].line \in 1 .. begun /\ Stream[z].line \in 1 .. begun
        BY <1>1, <1>6, <2>2 DEF IInv, StreamInv
      <4>3. QED
        BY <1>1, <4>1, <4>2 DEF Before
    <3>3. Stream[c].line \in 1 .. begun /\ Stream[z].line \in 1 .. begun
      BY <1>1, <1>6, <2>2 DEF IInv, StreamInv
    <3>4. FALSE
      BY <1>1, <2>5, <3>1, <3>2, <3>3
    <3>5. QED
      BY <3>4
  <2>9. QED
    BY <1>3, <2>6, <2>7, <2>8
<1>12. EndsAs(lines[x], n, torn, complete)
  BY <1>9, <1>10, <1>11 DEF EndsAs, l
<1>13. QED
  BY <1>7, <1>9, <1>12

\* A read queues whole lines whole, and leaves those it has not reached.
LEMMA WholeRead == ASSUME WInv, Read PROVE WInv'
<1>1. IInv /\ IInv' /\ Typed /\ Typed' /\ NoNewline(buffer)
  BY StepRead DEF WInv, IInv, StreamInv
<1>2. PICK w, lines, k, from, to : ReadIs(w, lines, k, from, to)
  BY <1>1, ReadEffect
<1>3. reader = "open" /\ UNCHANGED <<begun, todo, writer, reader, complete, torn>>
  BY DEF Read, ReadWith, writerVars, restarting
<1>4. /\ Len(w) \in Nat /\ k \in 0 .. Len(w) /\ k \in Nat /\ Len(w) <= Written
      /\ Written <= Len(Stream) /\ Written \in Nat /\ Len(Stream) \in Nat
      /\ lines \in Seq(Seq(Bytes)) /\ Len(lines) \in Nat
  <2>1. /\ Len(w) \in Nat /\ k \in 0 .. Len(w) /\ Len(w) <= Written
        /\ Written <= Len(Stream) /\ Written \in Nat /\ Len(Stream) \in Nat
        /\ lines \in Seq(Seq(Bytes)) /\ Len(lines) \in Nat
    BY <1>1, <1>2, ReadTypes
  <2>2. QED
    BY <2>1
<1>5. /\ queue' = queue \o lines /\ Written = Written' + k /\ Len(Stream) = Len(Stream') + k
      /\ Len(Stream') \in Nat /\ Written' \in Nat /\ Written' <= Len(Stream')
  <2>1. queue' = queue \o lines /\ Written = Written' + k /\ Len(Stream) = Len(Stream') + k
    BY <1>2 DEF ReadIs
  <2>2. Len(Stream') \in Nat /\ Written' \in Nat /\ Written' <= Len(Stream')
    BY <1>1, StreamSeqNext DEF StreamIs
  <2>3. QED
    BY <2>1, <2>2
<1>6. ASSUME NEW i \in 1 .. Len(Stream')
      PROVE  /\ k + i \in 1 .. Len(Stream) /\ Became(Stream'[i], Stream[k + i])
             /\ Stream'[i].line = Stream[k + i].line
             /\ Stream'[i].char = "nl" <=> Stream[k + i].char = "nl"
  <2>1. k + i \in 1 .. Len(Stream)
    BY <1>4, <1>5
  <2>2. QED
    BY <1>2, <2>1 DEF ReadIs, SameFrom
<1>7. k = 0 \/ Stream[k].char = "nl"
  <2> SUFFICES ASSUME k # 0
               PROVE  Stream[k].char = "nl"
    OBVIOUS
  <2>1. w[k].char = "nl"
    BY <1>2 DEF ReadIs, Cuts
  <2>2. k \in 1 .. Len(w) /\ 0 + k = k
    BY <1>4
  <2>3. QED
    BY <1>2, <2>1, <2>2 DEF ReadIs, SameFrom
<1>8. WholeInv'
  <2>1. ASSUME NEW p \in 1 .. Len(Stream'), Stream'[p].char = "nl"
        PROVE  WholeBefore(Stream', p, torn)
    <3> DEFINE q == k + p
               l == Len(Text)
    <3>1. q \in 1 .. Len(Stream) /\ Stream[q].char = "nl" /\ Stream'[p].line = Stream[q].line
      BY <1>6, <2>1
    <3>2. WholeBefore(Stream, q, torn)
      BY <3>1 DEF WInv, WholeInv
    <3>3. l \in Nat /\ p \in Nat \ {0} /\ q \in Nat /\ q = k + p
      BY <1>4, <1>5, TextBytes
    <3>4. k = 0 \/ l < p
      <4> SUFFICES ASSUME k # 0
                   PROVE  l < p
        OBVIOUS
      <4>1. k \in Nat \ {0} /\ k < q /\ Stream[k].char = "nl"
        BY <1>4, <1>7, <3>3
      <4>2. k <= q - 1 - l
        BY <3>2, <3>3, <4>1, NoneWithin
      <4>3. QED
        BY <1>4, <3>3, <4>2
    <3>5. Stream'[p].line \notin torn => l < p
      <4>1. Stream[q].line \notin torn => l < q
        BY <3>2 DEF WholeBefore
      <4>2. QED
        BY <3>1, <3>3, <3>4, <4>1
    <3>6. ASSUME NEW i \in 1 .. l, l < (p - 1) + i
          PROVE  l < (q - 1) + i /\ Became(Stream'[(p - 1 - l) + i], Stream[(q - 1 - l) + i])
      <4> DEFINE e == (p - 1 - l) + i
      <4>1. e \in 1 .. Len(Stream') /\ (q - 1 - l) + i = k + e /\ l < (q - 1) + i
        BY <1>4, <1>5, <3>3, <3>6
      <4> HIDE DEF e
      <4>2. Became(Stream'[e], Stream[k + e])
        BY <1>6, <4>1
      <4>3. QED
        BY <4>1, <4>2 DEF e
    <3> HIDE DEF q
    <3>7. QED
      BY <3>1, <3>2, <3>3, <3>5, <3>6, WholeStays
  <2>2. ASSUME NEW p \in 1 .. Written', Stream'[p].char = "nl"
        PROVE  Stream'[p].line \in complete'
    <3>1. p \in 1 .. Len(Stream') /\ k + p \in 1 .. Written
      <4>1. p \in Nat /\ 1 <= p /\ p <= Written'
        BY <1>5
      <4>2. p \in 1 .. Len(Stream')
        BY <1>5, <4>1
      <4>3. k \in Nat /\ Written = Written' + k /\ Written' \in Nat
        BY <1>4, <1>5
      <4>4. \A a, b, c, d \in Nat : 1 <= a /\ a <= b /\ c = b + d => d + a \in 1 .. c
        OBVIOUS
      <4>5. Written \in Nat
        BY <1>4
      <4>6. k + p \in 1 .. Written
        BY <4>1, <4>3, <4>4, <4>5, Zenon
      <4>7. QED
        BY <4>2, <4>6
    <3>2. Stream[k + p].char = "nl" /\ Stream'[p].line = Stream[k + p].line
      BY <1>6, <2>2, <3>1
    <3>3. QED
      BY <1>3, <3>1, <3>2 DEF WInv, WholeInv
  <2>3. QED
    BY <1>3, <2>1, <2>2 DEF WholeInv
<1>9. NewlineAhead'
  <2> SUFFICES ASSUME NEW p \in 1 .. Len(Stream'), Stream'[p].line \in complete
               PROVE  \E q \in p .. Len(Stream') :
                          Stream'[q].line = Stream'[p].line /\ Stream'[q].char = "nl"
    BY <1>3 DEF NewlineAhead
  <2>1. PICK q \in k + p .. Len(Stream) :
            Stream[q].line = Stream[k + p].line /\ Stream[q].char = "nl"
    <3>1. k + p \in 1 .. Len(Stream) /\ Stream[k + p].line \in complete
      BY <1>6
    <3>2. QED
      BY <3>1 DEF WInv, NewlineAhead
  <2> DEFINE e == q - k
  <2>2. e \in p .. Len(Stream') /\ e \in 1 .. Len(Stream') /\ k + e = q
    BY <1>4, <1>5
  <2> HIDE DEF e
  <2>3. Stream'[e].line = Stream'[p].line /\ Stream'[e].char = "nl"
    BY <1>6, <2>1, <2>2
  <2>4. QED
    BY <2>2, <2>3
<1>10. Remains'
  BY <1>3 DEF Remains
<1>11. LinesIntact'
  <2> DEFINE Fine(q) == Len(q) # 0 /\ \E n \in complete : EndsAs(q, n, torn, complete)
             m == Len(queue)
  <2>1. \A i \in 1 .. m : Fine(queue[i])
    BY IntactIs DEF WInv
  <2>2. ASSUME NEW x \in 1 .. Len(lines)
        PROVE  Fine(lines[x])
    BY <1>2, WholeLine
  <2>3. /\ m \in Nat /\ Len(queue') = m + Len(lines)
        /\ \A i \in 1 .. m : queue'[i] = queue[i]
        /\ \A x \in 1 .. Len(lines) : queue'[m + x] = lines[x]
    <3>1. queue \in Seq(Seq(Bytes))
      BY <1>1 DEF Typed
    <3>2. QED
      BY <1>4, <1>5, <3>1
  <2> HIDE DEF Fine, m
  <2>4. ASSUME NEW i \in 1 .. Len(queue')
        PROVE  Fine(queue'[i])
    <3>1. CASE i \in 1 .. m
      BY <2>1, <2>3, <3>1
    <3>2. CASE i \notin 1 .. m
      <4> DEFINE x == i - m
      <4>1. x \in 1 .. Len(lines) /\ m + x = i
        BY <1>4, <2>3, <3>2
      <4> HIDE DEF x
      <4>2. QED
        BY <2>2, <2>3, <4>1
    <3>3. QED
      BY <3>1, <3>2
  <2>5. QED
    BY <1>3, <2>4, IntactIsNext DEF Fine
<1>12. QED
  BY <1>1, <1>8, <1>9, <1>10, <1>11 DEF WInv

\* A restart takes the beginnings of torn lines only: what is left of all others is whole.
LEMMA WholeRestart == ASSUME WInv, Restart PROVE WInv'
<1>1. IInv /\ IInv' /\ Typed
  BY StepRestart DEF WInv, IInv
<1>2. /\ buffer' = <<>> /\ torn' = torn \cup Numbers(buffer)
      /\ UNCHANGED <<begun, todo, writer, queue, complete>>
  BY DEF Restart, writerVars
<1>3. PICK m \in Nat : /\ SuffixIs(m)
                       /\ IF writer = "open" THEN m = Len(buffer) ELSE m = Written
  BY <1>1, RestartEffect
<1>4. /\ Written' \in Nat /\ Len(Stream') \in Nat /\ Len(Stream) \in Nat
      /\ Written = m + Written' /\ Len(Stream) = m + Len(Stream') /\ Written' <= Len(Stream')
      /\ \A i \in 1 .. Len(Stream') : m + i \in 1 .. Len(Stream) /\ Stream'[i] = Stream[m + i]
  <2>1. Written' <= Len(Stream') /\ Len(Stream) \in Nat
    BY <1>1, StreamSeq, StreamSeqNext DEF StreamIs, IInv
  <2>2. QED
    BY <1>3, <2>1 DEF SuffixIs
<1>5. ASSUME NEW i \in 1 .. m, NEW p \in 1 .. Len(Stream'), Stream[i].line = Stream'[p].line,
             Stream'[p].char = "nl"
      PROVE  Stream'[p].line \in torn'
  <2>1. CASE writer = "open"
    <3>1. i \in 1 .. Len(buffer) /\ Stream[i] = buffer[i] /\ buffer \in Seq(Bytes)
      BY <1>1, <1>3, <2>1, StreamSeq DEF StreamIs, Typed
    <3>2. buffer[i] \in Content(buffer)
      BY <3>1 DEF Content, ToSet
    <3>3. buffer[i].line \in Numbers(buffer)
      BY <3>2 DEF Numbers
    <3>4. QED
      BY <1>2, <1>5, <3>1, <3>3
  <2>2. CASE writer # "open"
    <3>1. m = Written /\ Written' = 0 /\ i \in 1 .. Written
      <4>1. m = Written
        BY <1>3, <2>2
      <4>2. \A a, b \in Nat : a = a + b => b = 0
        OBVIOUS
      <4>3. Written' = 0
        BY <1>4, <4>1, <4>2, Zenon
      <4>4. QED
        BY <4>1, <4>3
    <3>2. p \in 1 .. Len(todo) /\ Stream'[p] = todo[p]
      <4>1. /\ Len(Stream') = Written' + Len(todo')
            /\ \A j \in 1 .. Len(todo') : Stream'[Written' + j] = todo'[j]
        BY <1>1, StreamSeqNext DEF StreamIs, IInv
      <4>2. p \in 1 .. Len(todo') /\ Written' + p = p
        BY <1>4, <3>1, <4>1
      <4>3. QED
        BY <1>2, <4>1, <4>2
    <3>3. writer = "opening" /\ todo[p].line = begun
      <4>1. todo # <<>>
        BY <3>2
      <4>2. writer # "none" /\ writer \in {"none", "opening", "open"}
        BY <1>1, <4>1 DEF IInv, WriterInv, Typed
      <4>3. QED
        BY <1>1, <2>2, <3>2, <4>2 DEF IInv, WriterInv
    <3>4. Stream[i].line < begun /\ begun \in Nat
      BY <1>1, <3>1, <3>3 DEF IInv, WriterInv, Typed
    <3>5. FALSE
      BY <1>5, <3>2, <3>3, <3>4
    <3>6. QED
      BY <3>5
  <2>3. QED
    BY <2>1, <2>2
<1>6. WholeInv'
  <2>1. ASSUME NEW p \in 1 .. Len(Stream'), Stream'[p].char = "nl"
        PROVE  WholeBefore(Stream', p, torn')
    <3> DEFINE q == m + p
               l == Len(Text)
    <3>1. q \in 1 .. Len(Stream) /\ Stream'[p] = Stream[q] /\ Stream[q].char = "nl"
      BY <1>4, <2>1
    <3>2. WholeBefore(Stream, q, torn)
      BY <3>1 DEF WInv, WholeInv
    <3>3. l \in Nat /\ p \in Nat \ {0} /\ q \in Nat /\ q = m + p
      BY <1>4, TextBytes
    <3> HIDE DEF q, l
    <3>4. Stream'[p].line \notin torn' => l < p
      <4> SUFFICES ASSUME Stream'[p].line \notin torn', p <= l
                   PROVE  FALSE
        BY <3>3
      <4>1. l < q /\ 1 \in 1 .. l
        <5>1. Stream[q].line \notin torn
          BY <1>2, <3>1
        <5>2. QED
          BY <3>2, <3>3, <5>1 DEF WholeBefore, l
      <4> DEFINE e == (q - 1 - l) + 1
      <4>2. e \in 1 .. m /\ l < (q - 1) + 1
        BY <3>3, <4>1
      <4>3. Stream[e] \in Shown(Stream[q].line, Text[1])
        BY <3>2, <4>1, <4>2 DEF WholeBefore, l
      <4> HIDE DEF e
      <4>4. Stream[e].line = Stream'[p].line
        BY <3>1, <4>1, <4>3, TextBytes, ShownByte DEF l
      <4>5. QED
        BY <1>5, <2>1, <4>2, <4>4
    <3>5. ASSUME NEW i \in 1 .. l, l < (p - 1) + i
          PROVE  l < (q - 1) + i /\ Became(Stream'[(p - 1 - l) + i], Stream[(q - 1 - l) + i])
      <4> DEFINE e == (p - 1 - l) + i
      <4>1. e \in 1 .. Len(Stream') /\ (q - 1 - l) + i = m + e /\ l < (q - 1) + i
        BY <1>4, <3>3, <3>5
      <4> HIDE DEF e
      <4>2. Stream'[e] = Stream[m + e]
        BY <1>4, <4>1
      <4>3. QED
        BY <4>1, <4>2 DEF e, Became
    <3>6. QED
      BY <3>1, <3>2, <3>3, <3>4, <3>5, WholeStays DEF l
  <2>2. ASSUME NEW p \in 1 .. Written', Stream'[p].char = "nl"
        PROVE  Stream'[p].line \in complete'
    <3>1. p \in 1 .. Len(Stream') /\ m + p \in 1 .. Written
      <4>1. \A a, b, c, d, k \in Nat : k \in 1 .. b /\ b <= a /\ c = d + b =>
                k \in 1 .. a /\ d + k \in 1 .. c
        OBVIOUS
      <4>2. p \in Nat
        OBVIOUS
      <4>3. Written \in Nat
        <5>1. \A a, b \in Nat : a + b \in Nat
          OBVIOUS
        <5>2. QED
          BY <1>4, <5>1, Zenon
      <4>4. QED
        BY <1>4, <4>1, <4>2, <4>3, Zenon
    <3>2. Stream'[p] = Stream[m + p]
      BY <1>4, <3>1
    <3>3. QED
      BY <1>2, <2>2, <3>1, <3>2 DEF WInv, WholeInv
  <2>3. QED
    BY <2>1, <2>2 DEF WholeInv
<1>7. NewlineAhead'
  <2> SUFFICES ASSUME NEW p \in 1 .. Len(Stream'), Stream'[p].line \in complete
               PROVE  \E q \in p .. Len(Stream') :
                          Stream'[q].line = Stream'[p].line /\ Stream'[q].char = "nl"
    BY <1>2 DEF NewlineAhead
  <2>1. m + p \in 1 .. Len(Stream) /\ Stream'[p] = Stream[m + p]
    BY <1>4
  <2>2. PICK q \in m + p .. Len(Stream) :
            Stream[q].line = Stream[m + p].line /\ Stream[q].char = "nl"
    BY <2>1 DEF WInv, NewlineAhead
  <2> DEFINE e == q - m
  <2>3. e \in p .. Len(Stream') /\ e \in 1 .. Len(Stream') /\ m + e = q
    BY <1>4
  <2> HIDE DEF e
  <2>4. Stream'[e] = Stream[q]
    BY <1>4, <2>3
  <2>5. QED
    BY <2>1, <2>2, <2>3, <2>4
<1>8. Remains'
  BY <1>2 DEF Remains
<1>9. LinesIntact'
  <2>1. \A q, n : EndsAs(q, n, torn, complete) => EndsAs(q, n, torn', complete)
    BY <1>2 DEF EndsAs
  <2>2. QED
    BY <1>2, <2>1, IntactIs, IntactIsNext DEF WInv
<1>10. QED
  BY <1>1, <1>6, <1>7, <1>8, <1>9 DEF WInv

\* Every step keeps it.
LEMMA WholeStep == WInv /\ [Next]_vars => WInv'
<1> SUFFICES ASSUME WInv, [Next]_vars
             PROVE  WInv'
  OBVIOUS
<1>1. CASE Start
  BY <1>1, WholeStart
<1>2. CASE Open
  BY <1>2, WholeOpen
<1>3. CASE Write
  BY <1>3, WholeWrite
<1>4. CASE Close
  BY <1>4, WholeClose
<1>5. CASE Reopen \/ ReadEof
  BY <1>5, WholeReopen
<1>6. CASE Read
  BY <1>6, WholeRead
<1>7. CASE CloseFd
  BY <1>7, WholeCloseFd
<1>8. CASE UNCHANGED vars
  <2>1. IInv'
    BY InvStep DEF WInv
  <2>2. UNCHANGED <<begun, todo, writer, fifo, reader, buffer, queue, complete, torn>>
    BY <1>8 DEF vars, writerVars, readerVars, restarting
  <2>3. Stream' = Stream /\ Written' = Written
    BY <2>2 DEF Stream, Written
  <2>4. WholeInv' /\ NewlineAhead' /\ Remains' /\ LinesIntact'
    BY <2>2, <2>3 DEF WInv, WholeInv, NewlineAhead, Remains, LinesIntact, WholeBefore
  <2>5. QED
    BY <2>1, <2>4 DEF WInv
<1>9. CASE Restart
  BY <1>9, WholeRestart
<1>10. QED
  BY <1>1, <1>2, <1>3, <1>4, <1>5, <1>6, <1>7, <1>8, <1>9 DEF Next, Writing, Reading

\* Whatever notify.sh writes, whoever is killed in mid-line and however the runner's
\* reads and openings cut it: each line the sender gets ends with one whole complete
\* line, only halves of cut characters replaced, and no other complete line is in it.
THEOREM LinesStayIntact == Spec => []LinesIntact
<1>1. WInv => LinesIntact
  BY DEF WInv
<1>2. QED
  BY <1>1, WholeInitially, WholeStep, PTL DEF Spec
-----------------------------------------------------------------------------
\* Every queued line has a last byte, and that is of a complete line.
LEMMA Carries ==
    ASSUME WInv
    PROVE  /\ queue \in Seq(Seq(Bytes)) /\ Len(Carried) = Len(queue)
           /\ \A i \in 1 .. Len(queue) : /\ Len(queue[i]) \in 1 .. Len(queue[i])
                                         /\ Carried[i] = queue[i][Len(queue[i])].line
                                         /\ Carried[i] \in complete
<1>1. queue \in Seq(Seq(Bytes))
  BY DEF WInv, IInv, Typed
<1>2. Len(Carried) = Len(queue)
  BY <1>1 DEF Carried
<1>3. Len(Text) \in Nat \ {0}
  BY FifoAssumption DEF FifoAssumption
<1>4. ASSUME NEW i \in 1 .. Len(queue)
      PROVE  /\ Len(queue[i]) \in 1 .. Len(queue[i])
             /\ Carried[i] = queue[i][Len(queue[i])].line
             /\ Carried[i] \in complete
  <2>1. queue[i] \in Seq(Bytes)
    BY <1>1
  <2>2. Len(queue[i]) # 0 /\ \E n \in complete : EndsAs(queue[i], n, torn, complete)
    BY IntactIs DEF WInv
  <2>3. PICK n \in complete : EndsAs(queue[i], n, torn, complete)
    BY <2>2
  <2>4. Len(queue[i]) \in Nat \ {0} /\ Len(queue[i]) - Len(Text) + Len(Text) = Len(queue[i])
        /\ Len(Text) \in 1 .. Len(Text)
    BY <1>3, <2>1, <2>2
  <2>5. queue[i][Len(queue[i])] \in Shown(n, Text[Len(Text)])
    BY <1>3, <2>3, <2>4 DEF EndsAs
  <2>6. queue[i][Len(queue[i])].line = n
    BY <2>5, ByteParts DEF Shown
  <2>7. Carried[i] = queue[i][Len(queue[i])].line
    BY DEF Carried
  <2>8. QED
    BY <1>3, <2>2, <2>4, <2>6, <2>7
<1>5. QED
  BY <1>1, <1>2, <1>4

\* All of them are complete.
LEMMA CarriedComplete ==
    ASSUME WInv
    PROVE  \A i \in 1 .. Len(Carried) : Carried[i] \in complete
BY Carries

\* They come in order, so that none comes twice.
LEMMA CarriedInOrder ==
    ASSUME WInv
    PROVE  Channel!Ascending(Carried) /\ Channel!Once(Carried)
<1>1. complete \subseteq Nat
  BY FifoAssumption DEF WInv, IInv, Typed, FifoAssumption
<1>2. /\ queue \in Seq(Seq(Bytes)) /\ Len(Carried) = Len(queue) /\ Len(queue) \in Nat
      /\ \A i \in 1 .. Len(queue) : /\ Len(queue[i]) \in 1 .. Len(queue[i])
                                    /\ Carried[i] = queue[i][Len(queue[i])].line
                                    /\ Carried[i] \in Nat
  <2>1. /\ queue \in Seq(Seq(Bytes)) /\ Len(Carried) = Len(queue)
        /\ \A i \in 1 .. Len(queue) : /\ Len(queue[i]) \in 1 .. Len(queue[i])
                                      /\ Carried[i] = queue[i][Len(queue[i])].line
                                      /\ Carried[i] \in complete
    BY Carries
  <2>2. Len(queue) \in Nat
    BY <2>1
  <2>3. QED
    BY <1>1, <2>1, <2>2
<1>3. ASSUME NEW i \in 1 .. Len(Carried), NEW j \in 1 .. Len(Carried), i < j
      PROVE  Carried[i] < Carried[j]
  <2>1. i \in 1 .. Len(queue) /\ j \in 1 .. Len(queue)
    BY <1>2
  <2>2. queue[i][Len(queue[i])].line < queue[j][Len(queue[j])].line
    BY <1>2, <1>3, <2>1 DEF WInv, IInv, QueueInv
  <2>3. QED
    BY <1>2, <2>1, <2>2
<1>4. QED
  BY <1>2, <1>3 DEF Channel!Ascending, Channel!Once

\* A read queues further lines and moves none that is queued.
LEMMA ReadQueues ==
    ASSUME WInv, Read
    PROVE  /\ Len(queue) <= Len(queue') /\ \A i \in 1 .. Len(queue) : queue'[i] = queue[i]
           /\ UNCHANGED complete
<1>1. Typed /\ NoNewline(buffer)
  BY DEF WInv, IInv, StreamInv
<1>2. PICK w, lines, k, from, to : ReadIs(w, lines, k, from, to)
  BY <1>1, ReadEffect
<1>3. queue' = queue \o lines /\ queue \in Seq(Seq(Bytes))
  BY <1>1, <1>2 DEF ReadIs, Typed
<1>4. lines \in Seq(Seq(Bytes))
  BY <1>1, <1>2, ReadTypes
<1>5. UNCHANGED complete
  BY DEF Read, ReadWith
<1>6. QED
  BY <1>3, <1>4, <1>5

\* A write makes its own line complete, if any, which is the last one begun.
LEMMA WriteAccepts ==
    ASSUME WInv, Write
    PROVE  UNCHANGED queue /\ (Channel!Accept \/ UNCHANGED complete)
<1>1. /\ UNCHANGED queue /\ todo # <<>>
      /\ complete' = complete \cup {begun} \/ complete' = complete
  <2>1. Len(todo) # 0
    BY DEF Write, WInv, IInv, Typed
  <2>2. QED
    BY <2>1 DEF Write, readerVars, restarting
<1>2. begun \notin complete /\ complete \subseteq 1 .. begun /\ begun \in Nat
  BY <1>1, FifoAssumption DEF WInv, IInv, WriterInv, Typed, FifoAssumption
<1>3. \A a \in complete : a < begun
  BY <1>2
<1>4. Carried' = Carried
  BY <1>1 DEF Carried
<1>5. QED
  BY <1>1, <1>3, <1>4 DEF Channel!Accept

\* Every step of the FIFO is one of the channel, or none.
LEMMA ChannelStep ==
    ASSUME WInv, WInv', [Next]_vars
    PROVE  [Channel!Next]_<<complete, Carried, TRUE>>
<1>1. CASE Write
  <2>1. Carried' = Carried
    BY <1>1, WriteAccepts DEF Carried
  <2>2. QED
    BY <1>1, <2>1, WriteAccepts DEF Channel!Next
<1>2. CASE Read
  <2>1. Len(Carried) <= Len(Carried') /\ \A i \in 1 .. Len(Carried) : Carried'[i] = Carried[i]
    <3>1. queue \in Seq(Seq(Bytes)) /\ queue' \in Seq(Seq(Bytes))
      BY DEF WInv, IInv, Typed
    <3>2. /\ Len(queue) \in Nat /\ Len(queue') \in Nat /\ Len(queue) <= Len(queue')
          /\ \A i \in 1 .. Len(queue) : queue'[i] = queue[i]
      BY <1>2, <3>1, ReadQueues
    <3>3. Len(Carried) = Len(queue) /\ Len(Carried') = Len(queue')
      BY <3>2 DEF Carried
    <3>4. ASSUME NEW i \in 1 .. Len(Carried)
          PROVE  Carried'[i] = Carried[i]
      <4>1. i \in 1 .. Len(queue) /\ i \in 1 .. Len(queue')
        BY <3>2, <3>3
      <4>2. QED
        BY <3>2, <4>1 DEF Carried
    <3>5. QED
      BY <3>2, <3>3, <3>4
  <2>2. (Channel!Ascending(Carried) /\ Channel!Once(Carried))'
    BY CarriedInOrder, PTL
  <2>3. \A i \in 1 .. Len(Carried') : Carried'[i] \in complete'
    <3>1. (\A i \in 1 .. Len(Carried) : Carried[i] \in complete)'
      BY CarriedComplete, PTL
    <3>2. QED
      BY <3>1
  <2>4. UNCHANGED complete
    BY <1>2, ReadQueues
  <2>5. Channel!Deliver
    BY <2>1, <2>2, <2>3, <2>4 DEF Channel!Deliver, Channel!Extends, Channel!Ascending,
       Channel!Once
  <2>6. QED
    BY <2>5 DEF Channel!Next
<1>3. CASE \/ Start \/ Open \/ Close \/ Reopen \/ ReadEof \/ CloseFd \/ Restart
            \/ UNCHANGED vars
  <2>1. UNCHANGED <<queue, complete>>
    BY <1>3 DEF Start, Open, Close, Reopen, ReadEof, CloseFd, Restart, vars, writerVars,
       readerVars
  <2>2. QED
    BY <2>1 DEF Carried
<1>4. QED
  BY <1>1, <1>2, <1>3 DEF Next, Writing, Reading

\* The FIFO implements the channel: however it is cut, closed and reopened, and whether a
\* writer is killed or the runner restarted, a read gives the sender only lines written to their end, after all it has given
\* before and none twice.
THEOREM ChannelOfFifo == Spec => FifoIsChannel
<1>1. Init => Channel!Init
  <2> SUFFICES ASSUME Init PROVE Channel!Init
    OBVIOUS
  <2>1. Carried = <<>>
    BY DEF Init, Carried
  <2>2. QED
    BY <2>1 DEF Init, Channel!Init
<1>2. WInv /\ WInv' /\ [Next]_vars => [Channel!Next]_<<complete, Carried, TRUE>>
  BY ChannelStep
<1>3. QED
  BY <1>1, <1>2, WholeInitially, WholeStep, PTL
  DEF Spec, FifoIsChannel, Channel!Spec, Channel!channel
-----------------------------------------------------------------------------
\* The lemmas about the pipe, for the pipe of the path.
R == INSTANCE RoomPipeProofs WITH queue <- waiting, MaxMsg <- Lines, Faults <- PipeFaults

\* What they rest on.
LEMMA PipeAssumed == R!PipeAssumption
BY FifoAssumption, PathAssumption DEF FifoAssumption, PathAssumption, R!PipeAssumption

\* The definitions they speak of are those of the path.
LEMMA SamePipe ==
    /\ Pipe!Init <=> R!Init
    /\ Pipe!Restart <=> R!Restart
    /\ Pipe!Runner <=> R!Runner
    /\ Pipe!Join <=> R!Join
    /\ Pipe!Leave <=> R!Leave
    /\ Pipe!FlushSync <=> R!FlushSync
    /\ \A d : Pipe!OlmSession(d) <=> R!OlmSession(d)
    /\ \A d, s : Pipe!Request(d, s) <=> R!Request(d, s)
    /\ \A k : Pipe!PutLines(k) <=> R!PutLines(k)
    /\ Pipe!Unknown = R!Unknown
<1> USE DEF Pipe!room, R!room, Pipe!sending, R!sending, Pipe!keys, R!keys, Pipe!None, R!None,
        Pipe!Key, R!Key, Pipe!ToSet, R!ToSet, Pipe!Count, R!Count
<1>1. (Pipe!Init <=> R!Init) /\ (Pipe!Restart <=> R!Restart)
  BY DEF Pipe!Init, R!Init, Pipe!Restart, R!Restart
<1>2. (Pipe!Join <=> R!Join) /\ (Pipe!Leave <=> R!Leave)
  BY DEF Pipe!Join, R!Join, Pipe!Leave, R!Leave, Pipe!Syncing, R!Syncing
<1>3. \A d : Pipe!OlmSession(d) <=> R!OlmSession(d)
  BY DEF Pipe!OlmSession, R!OlmSession, Pipe!Syncing, R!Syncing
<1>4. \A d, s : Pipe!Request(d, s) <=> R!Request(d, s)
  BY DEF Pipe!Request, R!Request, Pipe!Syncing, R!Syncing
<1>5. \A k : Pipe!PutLines(k) <=> R!PutLines(k)
  BY DEF Pipe!PutLines, R!PutLines, Pipe!Enqueue, R!Enqueue
<1>6. (Pipe!FlushNow <=> R!FlushNow) /\ (Pipe!FlushSync <=> R!FlushSync)
  BY DEF Pipe!FlushNow, R!FlushNow, Pipe!FlushSync, R!FlushSync, Pipe!Deliver, R!Deliver,
         Pipe!Syncing, R!Syncing
<1>7. Pipe!Setup <=> R!Setup
  BY DEF Pipe!Setup, R!Setup
<1>8. Pipe!Run <=> R!Run
  <2>1. Pipe!Forwardable = R!Forwardable /\ Pipe!Mark = R!Mark
    BY DEF Pipe!Forwardable, R!Forwardable, Pipe!Forwards, R!Forwards, Pipe!Mark, R!Mark
  <2>2. ASSUME NEW devices
        PROVE  Pipe!ForwardTo(devices) = R!ForwardTo(devices)
    BY DEF Pipe!ForwardTo, R!ForwardTo, Pipe!Forwards, R!Forwards
  <2>3. QED
    BY <2>1, <2>2 DEF Pipe!Run, R!Run
<1>9. Pipe!Share <=> R!Share
  <2>1. ASSUME NEW devices, NEW next, NEW ok
        PROVE  Pipe!ShareWith(devices, next, ok) = R!ShareWith(devices, next, ok)
    BY DEF Pipe!ShareWith, R!ShareWith, Pipe!Rotated, R!Rotated
  <2>2. QED
    BY <2>1 DEF Pipe!Share, R!Share
<1>10. (Pipe!Requeue <=> R!Requeue) /\ (Pipe!Send <=> R!Send)
  BY DEF Pipe!Requeue, R!Requeue, Pipe!Send, R!Send, Pipe!Sent, R!Sent, Pipe!Done, R!Done
<1>11. Pipe!Sweep <=> R!Sweep
  <2>1. ASSUME NEW r
        PROVE  Pipe!Answerable(r) = R!Answerable(r) /\ Pipe!Raises(r) = R!Raises(r)
    BY DEF Pipe!Raises, R!Raises, Pipe!Answerable, R!Answerable
  <2>2. Pipe!Answered = R!Answered
    BY <2>1 DEF Pipe!Answered, R!Answered
  <2>3. ASSUME NEW s, NEW set
        PROVE  Pipe!Without(s, set) = R!Without(s, set)
    BY DEF Pipe!Without, R!Without
  <2>4. ASSUME NEW s
        PROVE  Pipe!SweepWith(s) = R!SweepWith(s)
    BY <2>2 DEF Pipe!SweepWith, R!SweepWith
  <2>5. QED
    BY <2>1, <2>2, <2>3, <2>4 DEF Pipe!Sweep, R!Sweep
<1>12. Pipe!Runner <=> R!Runner
  BY <1>6, <1>7, <1>8, <1>9, <1>10, <1>11 DEF Pipe!Runner, R!Runner
<1>13. QED
  BY <1>1, <1>2, <1>3, <1>4, <1>5, <1>6, <1>12 DEF Pipe!Unknown, R!Unknown

\* What is not a read, seen from the pipe.
LEMMA RunsPipe == RunPipe \/ RestartBoth => R!NoLine
BY SamePipe DEF RunPipe, RestartBoth, R!NoLine

\* The pipe counts the lines as the FIFO gives them.
Numbered == count.lines = Len(queue)

PathInv == WInv /\ R!Typed /\ R!PlaceInv /\ R!OrderInv /\ Numbered

\* The FIFO gives no more lines than were written, for their numbers rise.
LEMMA GivenBounded == ASSUME WInv PROVE Len(queue) \in Nat /\ Len(queue) <= Lines
<1> DEFINE T == {n \in Nat : n \in 1 .. Len(queue) => n <= Carried[n]}
<1>1. Len(queue) \in Nat /\ Len(Carried) = Len(queue)
  BY Carries
<1>2. Lines \in Nat /\ \A i \in 1 .. Len(queue) : Carried[i] \in 1 .. Lines
  <2>1. complete \subseteq 1 .. begun /\ begun \in 0 .. Lines /\ Lines \in Nat
    BY FifoAssumption DEF FifoAssumption, WInv, IInv, Typed
  <2>2. complete \subseteq 1 .. Lines
    BY <2>1
  <2>3. QED
    BY <2>1, <2>2, Carries
<1>3. \A i, j \in 1 .. Len(queue) : i < j => Carried[i] < Carried[j]
  BY <1>1, CarriedInOrder DEF Channel!Ascending
<1>4. 0 \in T
  OBVIOUS
<1>5. ASSUME NEW n \in Nat, n \in T
      PROVE  n + 1 \in T
  <2> SUFFICES ASSUME n + 1 \in 1 .. Len(queue)
               PROVE  n + 1 <= Carried[n + 1]
    OBVIOUS
  <2>1. Carried[n + 1] \in Nat \ {0}
    BY <1>1, <1>2
  <2>2. CASE n = 0
    BY <2>1, <2>2
  <2>3. CASE n # 0
    <3>1. n \in 1 .. Len(queue)
      BY <1>1, <2>3
    <3>2. Carried[n] \in Nat
      BY <1>2, <3>1
    <3>3. n <= Carried[n] /\ Carried[n] < Carried[n + 1]
      BY <1>3, <1>5, <3>1
    <3>4. QED
      BY <2>1, <3>2, <3>3
  <2>4. QED
    BY <2>2, <2>3
<1>6. \A n \in Nat : n \in T
  <2> HIDE DEF T
  <2>1. QED
    BY <1>4, <1>5, Induct
<1>7. CASE Len(queue) = 0
  BY <1>2, <1>7
<1>8. CASE Len(queue) # 0
  <2>1. Len(queue) \in 1 .. Len(queue)
    BY <1>1, <1>8
  <2>2. Len(queue) <= Carried[Len(queue)] /\ Carried[Len(queue)] \in 1 .. Lines
    BY <1>1, <1>2, <1>6, <2>1
  <2>3. QED
    BY <1>1, <1>2, <2>2
<1>9. QED
  BY <1>1, <1>7, <1>8

\* A read that gives lines gives the pipe as many.
LEMMA ReadPuts ==
    ASSUME WInv, WInv', R!Typed, Numbered, OnFifoRead
    PROVE  /\ UNCHANGED pipe \/ R!Put
           /\ Numbered' /\ UNCHANGED <<sent, absent>>
<1>1. /\ Len(queue) \in Nat /\ Len(queue') \in Nat /\ Len(queue') <= Lines /\ Lines \in Nat
      /\ Len(queue) <= Len(queue') /\ \A i \in 1 .. Len(queue) : queue'[i] = queue[i]
      /\ queue \in Seq(Seq(Bytes)) /\ queue' \in Seq(Seq(Bytes))
  <2>1. Len(queue') \in Nat /\ Len(queue') <= Lines
    <3>1. (Len(queue) \in Nat /\ Len(queue) <= Lines)'
      BY GivenBounded, PTL
    <3>2. QED
      BY <3>1
  <2>2. Len(queue) <= Len(queue') /\ \A i \in 1 .. Len(queue) : queue'[i] = queue[i]
    BY ReadQueues DEF OnFifoRead
  <2>3. queue \in Seq(Seq(Bytes)) /\ queue' \in Seq(Seq(Bytes))
    BY DEF WInv, IInv, Typed
  <2>4. Len(queue) \in Nat /\ Lines \in Nat
    BY GivenBounded, FifoAssumption DEF FifoAssumption
  <2>5. QED
    BY <2>1, <2>2, <2>3, <2>4
<1>2. CASE Len(queue') = Len(queue)
  BY <1>2 DEF OnFifoRead, pipe, Numbered
<1>3. CASE Len(queue') # Len(queue)
  <2> DEFINE k == Len(queue') - Len(queue)
  <2>1. k \in 1 .. Lines - count.lines
    BY <1>1, <1>3 DEF Numbered
  <2>2. R!PutLines(k)
    BY <1>3, SamePipe DEF OnFifoRead
  <2> HIDE DEF k
  <2>3. R!Incoming(k)
    BY <2>1, <2>2, PipeAssumed, R!PuttingLines
  <2>4. count'.lines = count.lines + k /\ UNCHANGED <<sent, absent, lost, body>>
    BY <2>3 DEF R!Incoming
  <2>5. R!Put
    BY <2>1, <2>2 DEF R!Put
  <2>6. QED
    BY <1>1, <2>4, <2>5 DEF k, Numbered
<1>4. QED
  BY <1>2, <1>3

\* A step of the path is a step of the FIFO, or leaves it alone ...
LEMMA PathStepsFifo == [PathNext]_path => [Next]_vars
BY DEF PathNext, Notify, FifoLoop, OnFifoRead, RunPipe, RestartBoth, Next, Reading, path, pipe

\* ... and likewise of the pipe.
LEMMA PathStepsPipe ==
    ASSUME WInv, WInv', R!Typed, Numbered, [PathNext]_path
    PROVE  [R!Next]_R!vars /\ Numbered'
<1>1. CASE OnFifoRead
  <2>1. (UNCHANGED pipe \/ R!Put) /\ Numbered'
    BY <1>1, ReadPuts
  <2>2. UNCHANGED pipe => UNCHANGED R!vars
    BY DEF pipe, R!vars, R!room, R!sending, R!keys
  <2>3. QED
    BY <2>1, <2>2 DEF R!Next
<1>2. CASE RunPipe \/ RestartBoth
  <2>1. R!NoLine
    BY <1>2, RunsPipe
  <2>2. count'.lines = count.lines
    BY <2>1, PipeAssumed, R!ChannelMoves
  <2>3. UNCHANGED queue
    BY <1>2 DEF RunPipe, RestartBoth, Restart, vars, readerVars
  <2>4. QED
    BY <2>1, <2>2, <2>3 DEF R!NoLine, R!Next, Numbered
<1>3. CASE Notify \/ FifoLoop \/ UNCHANGED path
  <2>1. UNCHANGED pipe /\ UNCHANGED queue
    BY <1>3 DEF Notify, Writing, Start, Open, Write, Close, FifoLoop, Reopen, ReadEof, CloseFd,
       path, vars, readerVars
  <2>2. QED
    BY <2>1 DEF pipe, R!vars, R!room, R!sending, R!keys, Numbered
<1>4. QED
  BY <1>1, <1>2, <1>3 DEF PathNext

\* So all that is known of the two holds of the path.
LEMMA PathInitially == PathInit => PathInv
<1> SUFFICES ASSUME PathInit
             PROVE  PathInv
  OBVIOUS
<1>1. WInv
  BY WholeInitially DEF PathInit
<1>2. R!Init
  BY SamePipe DEF PathInit
<1>3. R!Typed
  BY <1>2, PipeAssumed, R!Initially
<1>4. R!PlaceInv
  BY <1>2, PipeAssumed, R!PlaceInitially
<1>5. R!OrderInv
  BY <1>2 DEF R!Init, R!OrderInv, R!Ordered
<1>6. Numbered
  BY <1>2 DEF PathInit, Init, R!Init, Numbered
<1>7. QED
  BY <1>1, <1>3, <1>4, <1>5, <1>6 DEF PathInv

LEMMA PathStep == PathInv /\ [PathNext]_path => PathInv'
<1> SUFFICES ASSUME PathInv, [PathNext]_path
             PROVE  PathInv'
  OBVIOUS
<1>1. WInv'
  BY PathStepsFifo, WholeStep DEF PathInv
<1>2. [R!Next]_R!vars /\ Numbered'
  BY <1>1, PathStepsPipe DEF PathInv
<1>3. R!Typed'
  BY <1>2, PipeAssumed, R!TypedStep DEF PathInv
<1>4. R!PlaceInv'
  BY <1>2, PipeAssumed, R!PlaceStep DEF PathInv
<1>5. R!OrderInv'
  BY <1>2, PipeAssumed, R!OrderStep DEF PathInv
<1>6. QED
  BY <1>1, <1>2, <1>3, <1>4, <1>5 DEF PathInv

\* The path of a notification is made of the FIFO and the pipe: each does on it what it
\* does alone, so that all theorems about them hold there.
THEOREM PathOfBoth == PathSpec => Spec /\ Pipe!Spec
<1>1. PathInit => Init /\ Pipe!Init
  BY DEF PathInit
<1>2. PathInv /\ PathInv' /\ [PathNext]_path => [Next]_vars /\ [Pipe!Next]_Pipe!vars
  <2> SUFFICES ASSUME PathInv, PathInv', [PathNext]_path
               PROVE  [Next]_vars /\ [Pipe!Next]_Pipe!vars
    OBVIOUS
  <2>1. Pipe!Put <=> R!Put
    BY SamePipe DEF Pipe!Put, R!Put
  <2>2. Pipe!Next <=> R!Next
    BY <2>1, SamePipe DEF Pipe!Next, R!Next
  <2>3. Pipe!vars = R!vars /\ Pipe!vars' = R!vars'
    BY DEF Pipe!vars, R!vars, Pipe!room, R!room, Pipe!sending, R!sending, Pipe!keys, R!keys
  <2>4. [R!Next]_R!vars
    BY PathStepsPipe DEF PathInv
  <2>5. [Next]_vars
    BY PathStepsFifo
  <2>6. [Pipe!Next]_Pipe!vars
    BY <2>2, <2>3, <2>4
  <2>7. QED
    BY <2>5, <2>6
<1>3. QED
  BY <1>1, <1>2, PathInitially, PathStep, PTL DEF PathSpec, Spec, Pipe!Spec
-----------------------------------------------------------------------------
\* What is sent has been given by the FIFO, and was complete.
LEMMA SentWasGiven ==
    ASSUME PathInv
    PROVE  \A i \in 1 .. Len(sent) : /\ sent[i].line \in 1 .. Len(queue)
                                     /\ Carried[sent[i].line] \in complete
<1>1. \A i \in 1 .. Len(sent) : sent[i].line \in 1 .. Len(queue)
  BY DEF PathInv, Numbered, R!PlaceInv
<1>2. QED
  BY <1>1, Carries DEF PathInv

\* Its order and its being sent once come from both.
LEMMA MessagesInOrder ==
    ASSUME PathInv
    PROVE  Path!Once(Messages) /\ (~absent => Path!Ascending(Messages))
<1>1. /\ \A i, j \in 1 .. Len(queue) : i < j => Carried[i] < Carried[j]
      /\ \A i, j \in 1 .. Len(queue) : Carried[i] = Carried[j] => i = j
  <2>1. Len(Carried) = Len(queue)
    BY Carries DEF PathInv
  <2>2. QED
    BY <2>1, CarriedInOrder DEF PathInv, Channel!Ascending, Channel!Once
<1>2. \A i, j \in 1 .. Len(sent) : sent[i].line = sent[j].line => i = j
  <2>1. R!Channel!Once(R!SentLines)
    BY PipeAssumed, R!SentOnce DEF PathInv
  <2>2. sent \in Seq(R!Message)
    BY DEF PathInv, R!Typed
  <2>3. Len(R!SentLines) = Len(sent) /\ \A i \in 1 .. Len(sent) : R!SentLines[i] = sent[i].line
    BY <2>2 DEF R!SentLines
  <2>4. QED
    BY <2>1, <2>3 DEF R!Channel!Once
<1>3. ~absent => \A i, j \in 1 .. Len(sent) : i < j => sent[i].line < sent[j].line
  BY DEF PathInv, R!OrderInv, R!Ordered
<1>4. Len(sent) \in Nat /\ Len(Messages) = Len(sent)
      /\ \A i \in 1 .. Len(sent) : Messages[i] = Carried[sent[i].line]
  BY DEF PathInv, R!Typed, Messages
<1>5. Path!Once(Messages)
  BY <1>1, <1>2, <1>4, SentWasGiven DEF Path!Once
<1>6. ~absent => Path!Ascending(Messages)
  BY <1>1, <1>3, <1>4, SentWasGiven DEF Path!Ascending
<1>7. QED
  BY <1>5, <1>6

\* As long as nothing is sent the messages stay what they are, though the FIFO gives more.
LEMMA MessagesStay ==
    ASSUME PathInv, UNCHANGED sent,
           \A i \in 1 .. Len(queue) : queue'[i] = queue[i], Len(queue) <= Len(queue'),
           Len(queue') \in Nat
    PROVE  UNCHANGED Messages
<1>1. \A i \in 1 .. Len(queue) : Carried'[i] = Carried[i]
  <2>1. Len(queue) \in Nat
    BY GivenBounded DEF PathInv
  <2>2. ASSUME NEW i \in 1 .. Len(queue)
        PROVE  Carried'[i] = Carried[i]
    <3>1. i \in 1 .. Len(queue')
      BY <2>1
    <3>2. QED
      BY <3>1 DEF Carried
  <2>3. QED
    BY <2>2
<1>2. QED
  BY <1>1, SentWasGiven DEF Messages

\* A message that goes out is behind those that went before it.
LEMMA SendDelivers ==
    ASSUME PathInv, PathInv', RunPipe, R!Send
    PROVE  UNCHANGED <<complete, Messages, absent>> \/ Path!Deliver
<1>1. /\ UNCHANGED <<absent, complete, queue>>
      /\ sent \in Seq(R!Message) /\ sent' \in Seq(R!Message)
      /\ \/ sent' = sent
         \/ /\ Len(sent') = Len(sent) + 1
            /\ \A i \in 1 .. Len(sent) : sent'[i] = sent[i]
  <2>1. UNCHANGED <<complete, queue>>
    BY DEF RunPipe, vars, readerVars
  <2>2. /\ UNCHANGED absent
        /\ \/ sent' = sent
           \/ /\ Len(sent') = Len(sent) + 1
              /\ \A i \in 1 .. Len(sent) : sent'[i] = sent[i]
    BY PipeAssumed, R!Sending DEF PathInv
  <2>3. sent \in Seq(R!Message) /\ sent' \in Seq(R!Message)
    BY DEF PathInv, R!Typed
  <2>4. QED
    BY <2>1, <2>2, <2>3
<1>2. Carried' = Carried
  BY <1>1 DEF Carried
<1>3. CASE sent' = sent
  BY <1>1, <1>2, <1>3 DEF Messages
<1>4. CASE Len(sent') = Len(sent) + 1 /\ \A i \in 1 .. Len(sent) : sent'[i] = sent[i]
  <2>1. /\ Len(Messages) = Len(sent) /\ Len(Messages') = Len(sent') /\ Len(sent) \in Nat
        /\ \A i \in 1 .. Len(sent) : Messages[i] = Carried[sent[i].line]
        /\ \A i \in 1 .. Len(sent') : Messages'[i] = Carried[sent'[i].line]
    BY <1>1, <1>2 DEF Messages
  <2>2. Path!Extends(Messages', Messages)
    BY <1>4, <2>1 DEF Path!Extends
  <2>3. \A i \in 1 .. Len(Messages') : Messages'[i] \in complete
    <3>1. (\A i \in 1 .. Len(sent) : /\ sent[i].line \in 1 .. Len(queue)
                                     /\ Carried[sent[i].line] \in complete)'
      BY SentWasGiven, PTL
    <3>2. QED
      BY <1>1, <1>2, <2>1, <3>1
  <2>4. (Path!Once(Messages) /\ (~absent => Path!Ascending(Messages)))'
    BY MessagesInOrder, PTL
  <2>5. QED
    BY <1>1, <2>2, <2>3, <2>4 DEF Path!Deliver, Path!Once, Path!Ascending
<1>5. QED
  BY <1>1, <1>3, <1>4

\* Every step of the path is one of the channel from notify.sh to the room, or none.
LEMMA PathChannelStep ==
    ASSUME PathInv, PathInv', [PathNext]_path
    PROVE  [Path!Next]_<<complete, Messages, ~absent>>
<1>1. CASE Notify
  <2>1. UNCHANGED <<sent, absent, queue>>
    BY <1>1 DEF Notify, pipe, Writing, Start, Open, Write, Close, readerVars
  <2>2. UNCHANGED Messages
    BY <2>1 DEF Messages, Carried
  <2>3. CASE Write
    <3>1. Channel!Accept \/ UNCHANGED complete
      BY <2>3, WriteAccepts DEF PathInv
    <3>2. Channel!Accept => Path!Accept
      BY <2>1, <2>2 DEF Channel!Accept, Path!Accept
    <3>3. QED
      BY <2>1, <2>2, <3>1, <3>2 DEF Path!Next
  <2>4. CASE Start \/ Open \/ Close
    <3>1. UNCHANGED complete
      BY <2>4 DEF Start, Open, Close
    <3>2. QED
      BY <2>1, <2>2, <3>1
  <2>5. QED
    BY <1>1, <2>3, <2>4 DEF Notify, Writing
<1>2. CASE FifoLoop \/ UNCHANGED path
  <2>1. UNCHANGED <<sent, absent, queue, complete>>
    BY <1>2 DEF FifoLoop, pipe, path, Reopen, ReadEof, CloseFd, vars, readerVars
  <2>2. QED
    BY <2>1 DEF Messages, Carried
<1>3. CASE OnFifoRead
  <2>1. UNCHANGED <<sent, absent>>
    BY <1>3, ReadPuts DEF PathInv
  <2>2. /\ Len(queue) <= Len(queue') /\ \A i \in 1 .. Len(queue) : queue'[i] = queue[i]
        /\ UNCHANGED complete
    BY <1>3, ReadQueues DEF PathInv, OnFifoRead
  <2>3. Len(queue') \in Nat
    <3>1. (Len(queue) \in Nat)'
      BY GivenBounded, PTL DEF PathInv
    <3>2. QED
      BY <3>1
  <2>4. QED
    BY <2>1, <2>2, <2>3, MessagesStay
<1>4. CASE RunPipe \/ RestartBoth
  <2>1. UNCHANGED <<complete, queue>>
    BY <1>4 DEF RunPipe, RestartBoth, Restart, vars, readerVars
  <2>2. UNCHANGED <<sent, absent>> \/ R!Leave \/ R!Send
    BY <1>4, RunsPipe, PipeAssumed, R!ChannelMoves DEF PathInv
  <2>3. CASE UNCHANGED <<sent, absent>>
    BY <2>1, <2>3 DEF Messages, Carried
  <2>4. CASE R!Leave
    <3>1. UNCHANGED sent /\ (absent' = absent \/ absent' = TRUE)
      BY <2>4 DEF R!Leave, PathInv, R!Typed
    <3>2. UNCHANGED Messages
      BY <2>1, <3>1 DEF Messages, Carried
    <3>3. CASE absent' = absent
      BY <2>1, <3>2, <3>3
    <3>4. CASE absent' = TRUE
      BY <2>1, <3>2, <3>4 DEF Path!Next, Path!LoseOrder
    <3>5. QED
      BY <3>1, <3>3, <3>4
  <2>5. CASE R!Send /\ RunPipe
    BY <2>5, SendDelivers DEF Path!Next
  <2>6. CASE R!Send /\ RestartBoth
    <3>1. UNCHANGED <<sent, absent>>
      BY <2>6 DEF RestartBoth, Pipe!Restart
    <3>2. QED
      BY <2>1, <3>1 DEF Messages, Carried
  <2>7. QED
    BY <1>4, <2>2, <2>3, <2>4, <2>5, <2>6
<1>5. QED
  BY <1>1, <1>2, <1>3, <1>4 DEF PathNext

\* From notify.sh to the room: whatever the reads and writes are cut into, whoever is
\* killed, restarted or refused, and whatever devices there are, a message is a line
\* written to its end, is sent once, and in the order of writing until the room has been
\* left under a running sender.
THEOREM ChannelOfPath == PathSpec => PathIsChannel
<1>1. PathInit => Path!Init
  <2> SUFFICES ASSUME PathInit PROVE Path!Init
    OBVIOUS
  <2>1. complete = {} /\ sent = <<>> /\ absent = FALSE
    BY DEF PathInit, Init, Pipe!Init
  <2>2. Messages = <<>>
    BY <2>1 DEF Messages
  <2>3. QED
    BY <2>1, <2>2 DEF Path!Init
<1>2. PathInv /\ PathInv' /\ [PathNext]_path => [Path!Next]_<<complete, Messages, ~absent>>
  BY PathChannelStep
<1>3. QED
  BY <1>1, <1>2, PathInitially, PathStep, PTL
  DEF PathSpec, PathIsChannel, Path!Spec, Path!channel
=============================================================================

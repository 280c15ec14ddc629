------------------------------ MODULE RoomFifo ------------------------------
(***************************************************************************)
(* The FIFO of one room: notify.sh, one writer at a time under its lock    *)
(* file, writes a line; the pipes runner reads, splits lines and queues    *)
(* them for the sender.                                                    *)
(*                                                                         *)
(* Kernel rules used: opening for writing blocks until there is a reader;  *)
(* a read from an empty FIFO whose last writer has gone gives end of file; *)
(* what is in the FIFO is lost when its last descriptor is closed.         *)
(***************************************************************************)
EXTENDS Naturals, Sequences, SequencesExt

CONSTANTS Lines,     \* bound: the number of lines written
          Text,      \* the bytes of a line before its newline
          ReadMax,   \* bytes one os.read returns at most (65536)
          MaxRestart, \* bound: restarts of the runner
          Faults     \* "kill": a writer dies in mid-line

\* Text is of "a", a character of one byte, and of "h" and "t", the halves of
\* a character of two; a lone half is decoded to "?".
ASSUME FifoAssumption == /\ Lines \in Nat /\ ReadMax \in Nat \ {0} /\ MaxRestart \in Nat
                         /\ Text \in Seq({"a", "h", "t"}) /\ Text # <<>>
                         /\ Faults \subseteq {"kill"}

VARIABLES begun,     \* lines begun so far
          todo,      \* what the writer has still to write
          writer,    \* "none", "opening", "open"
          fifo,      \* bytes in the FIFO
          reader,    \* fifo_fd: "closed", "open", "eof" (end of file read, close is next)
          hup,       \* a writer has been there since the reader opened
          buffer,    \* fifo_buffer, decoded
          queue,     \* every line put into msg_queue, oldest first
          complete,  \* history: lines written to their end
          window,    \* history: lines that may get lost: their writer opened between end
                     \*   of file and close, or they were on their way at a restart
          torn,      \* history: lines that were in fifo_buffer at a restart
          restarts

writerVars == <<begun, todo, writer>>
readerVars == <<reader, buffer, queue>>
restarting == <<torn, restarts>>
vars == <<writerVars, readerVars, fifo, hup, complete, window, restarting>>

Byte(n, c) == [line |-> n, char |-> c]
Line(n)    == [i \in 1 .. Len(Text) |-> Byte(n, Text[i])]

\* data.decode(errors="replace")
Decoded(s) ==
    LET lone(i) == \/ s[i].char = "h" /\ ~(i < Len(s) /\ s[i + 1].char = "t")
                   \/ s[i].char = "t" /\ ~(i > 1 /\ s[i - 1].char = "h")
    IN [i \in 1 .. Len(s) |-> IF lone(i) THEN Byte(s[i].line, "?") ELSE s[i]]

Init == /\ begun = 0 /\ todo = <<>> /\ writer = "none"
        /\ fifo = <<>>
        /\ reader = "closed" /\ hup = FALSE
        /\ buffer = <<>> /\ queue = <<>>
        /\ complete = {} /\ window = {} /\ torn = {} /\ restarts = 0
-----------------------------------------------------------------------------
HasReader == reader \in {"open", "eof"}

\* notify.sh has a line to write and opens the FIFO.
Start == /\ writer = "none" /\ begun < Lines
         /\ begun' = begun + 1
         /\ todo' = Line(begun + 1) \o <<Byte(begun + 1, "nl")>>
         /\ writer' = "opening"
         /\ UNCHANGED <<readerVars, fifo, hup, complete, window, restarting>>

Open == /\ writer = "opening" /\ HasReader
        /\ writer' = "open" /\ hup' = TRUE
        /\ window' = IF reader = "eof" THEN window \cup {begun} ELSE window
        /\ UNCHANGED <<begun, todo, readerVars, fifo, complete, restarting>>

\* Any number of bytes at a time.
Write == /\ writer = "open" /\ HasReader
         /\ \E n \in 1 .. Len(todo) :
               /\ fifo' = fifo \o SubSeq(todo, 1, n)
               /\ todo' = SubSeq(todo, n + 1, Len(todo))
         /\ complete' = IF todo' = <<>> THEN complete \cup {begun} ELSE complete
         /\ UNCHANGED <<begun, writer, readerVars, hup, window, restarting>>

\* The writer is done, is killed, or gets SIGPIPE for lack of a reader.
Close == /\ writer = "open"
         /\ todo = <<>> \/ "kill" \in Faults \/ ~HasReader
         /\ writer' = "none" /\ todo' = <<>>
         /\ fifo' = IF HasReader THEN fifo ELSE <<>>
         /\ UNCHANGED <<begun, readerVars, hup, complete, window, restarting>>
-----------------------------------------------------------------------------
\* fifo_loop: open, or open again after the delay; a failing open is tried again.
Reopen == /\ reader = "closed"
          /\ reader' = "open" /\ hup' = (writer = "open")
          /\ UNCHANGED <<writerVars, buffer, queue, fifo, complete, window, restarting>>

\* The buffer and the lines queued so far, when one byte more is looked at: blank
\* lines are left out.
WithByte(got, b) == IF b.char # "nl" THEN [got EXCEPT !.rest = Append(@, b)]
                    ELSE [rest |-> <<>>,
                          lines |-> IF got.rest = <<>> THEN got.lines
                                    ELSE Append(got.lines, got.rest)]

\* The lines of s that end after what `rest` holds, and what is left over.
SplitLines(rest, s) ==
    LET got[i \in 0 .. Len(s)] == IF i = 0 THEN [rest |-> rest, lines |-> <<>>]
                                  ELSE WithByte(got[i - 1], s[i])
    IN got[Len(s)]

\* What one os.read returns, and what it leaves.
Taken == SubSeq(fifo, 1, IF Len(fifo) < ReadMax THEN Len(fifo) ELSE ReadMax)
Left  == SubSeq(fifo, Len(Taken) + 1, Len(fifo))

ReadWith(split, newQueue) ==
    /\ reader = "open" /\ fifo # <<>>
    /\ queue' = newQueue /\ buffer' = split.rest /\ fifo' = Left
    /\ UNCHANGED <<writerVars, reader, hup, complete, window, restarting>>

\* Mutants: what is left over is forgotten; new lines overtake older ones.
ReadForgets   == LET s == SplitLines(<<>>, Decoded(Taken)) IN ReadWith(s, queue \o s.lines)
ReadOvertakes == LET s == SplitLines(buffer, Decoded(Taken)) IN ReadWith(s, s.lines \o queue)

\* _on_fifo_read with data: decode what came, queue every complete line, keep
\* the rest.
Read == LET s == SplitLines(buffer, Decoded(Taken)) IN ReadWith(s, queue \o s.lines)

\* _on_fifo_read without data: the writers have gone.
ReadEof == /\ reader = "open" /\ fifo = <<>> /\ writer # "open" /\ hup
           /\ reader' = "eof"
           /\ UNCHANGED <<writerVars, buffer, queue, fifo, hup, complete, window, restarting>>

\* Mutant: fifo_fd keeps its value, so that nobody opens the FIFO again.
CloseFdKept == /\ reader = "eof"
               /\ reader' = "gone"
               /\ fifo' = IF writer = "open" THEN fifo ELSE <<>>
               /\ UNCHANGED <<writerVars, buffer, queue, hup, complete, window, restarting>>

CloseFd == /\ reader = "eof"
           /\ reader' = "closed"
           /\ fifo' = IF writer = "open" THEN fifo ELSE <<>>
           /\ UNCHANGED <<writerVars, buffer, queue, hup, complete, window, restarting>>

Content(s) == ToSet(s)
Numbers(s) == {b.line : b \in Content(s)}

\* The runner is started again: descriptor and buffer are gone, and with them what is
\* in the FIFO unless a writer has it open.
Restart == /\ restarts < MaxRestart /\ restarts' = restarts + 1
           /\ reader' = "closed" /\ buffer' = <<>>
           /\ fifo' = IF writer = "open" THEN fifo ELSE <<>>
           /\ torn' = torn \cup Numbers(buffer)
           /\ window' = window \cup Numbers(buffer) \cup Numbers(fifo)
           /\ UNCHANGED <<writerVars, queue, hup, complete>>

Writing == Start \/ Open \/ Write \/ Close
Reading == Reopen \/ Read \/ ReadEof \/ CloseFd
Next    == Writing \/ Reading \/ Restart

Spec == Init /\ [][Next]_vars
-----------------------------------------------------------------------------
\* The variables have their types.
TypeOK == /\ begun \in 0 .. Lines
          /\ writer \in {"none", "opening", "open"}
          /\ reader \in {"closed", "open", "eof"}
          /\ hup \in BOOLEAN
          /\ complete \subseteq 1 .. Lines /\ window \subseteq 1 .. Lines
          /\ torn \subseteq 1 .. Lines /\ restarts \in 0 .. MaxRestart
          /\ Len(todo) + Len(fifo) + Len(buffer) <= Lines * (Len(Text) + 1)

\* What may be queued for the byte c of line n: half of a character that a read
\* cut in two is replaced.
Shown(n, c) == {Byte(n, c)} \cup IF c = "a" THEN {} ELSE {Byte(n, "?")}

\* Whatever the reads and writes are cut into, and however often the FIFO is
\* closed and opened again, a queued line ends with one whole line of one writer,
\* but for characters that were cut, or with the end of one whose beginning a
\* restart took away; before it there is only what killed writers left.
LinesIntact == \A i \in 1 .. Len(queue) : Len(queue[i]) # 0 /\ \E n \in complete :
    /\ n \notin torn => Len(Text) <= Len(queue[i])
    /\ \A j \in 1 .. Len(Text) : Len(Text) < Len(queue[i]) + j =>
           queue[i][Len(queue[i]) - Len(Text) + j] \in Shown(n, Text[j])
    /\ \A b \in Content(queue[i]) : b.line \in complete => b.line = n

\* Lines are queued in the order they were written in and none twice, even
\* across killed writers and restarts, and what killed writers left as well; the
\* channel below says it of the lines that arrive.
InOrder == \A i, j \in 1 .. Len(queue) :
              i < j => \A b \in Content(queue[i]), c \in Content(queue[j]) : b.line < c.line

\* The line that ends what was queued i-th.
Carried == [i \in 1 .. Len(queue) |-> queue[i][Len(queue[i])].line]
Channel == INSTANCE LineChannel WITH accepted <- complete, delivered <- Carried,
                                     straight <- TRUE

\* The FIFO is a channel of lines: a read queues only lines whose writer has come
\* to their end, after all that are queued, however it is cut, and none again after
\* the FIFO was closed and reopened.
FifoIsChannel == Channel!Spec
=============================================================================

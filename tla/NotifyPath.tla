----------------------------- MODULE NotifyPath -----------------------------
(***************************************************************************)
(* The whole way of a notification: the FIFO of a room (RoomFifo) and the  *)
(* pipe that reads it and sends (RoomPipe), in one process.  The FIFO is   *)
(* opened only when the pipe has found its room and forwarded its history, *)
(* the lines of a read are queued in the same callback, and a restart hits *)
(* both.                                                                   *)
(***************************************************************************)
EXTENDS RoomFifo

CONSTANTS Device, Bad, ForwardHistory, CredsRoom, MaxRequests, MaxLeave,  \* of RoomPipe
          PipeFaults  \* its calls that may fail

ASSUME PathAssumption ==
    /\ Bad \subseteq Device /\ CredsRoom \in BOOLEAN /\ ForwardHistory \in BOOLEAN
    /\ MaxRequests \in Nat /\ MaxLeave \in Nat
    /\ PipeFaults \subseteq {"store", "alias", "marker", "share", "flush", "send"}

VARIABLES phase, known, joined, waiting, sender, body, session, marked, olm, outbox,
          requests, marker, has, sent, lost, absent, count

\* Its queue is `waiting`: line n of it is the n-th that the FIFO has given.
Pipe == INSTANCE RoomPipe WITH queue <- waiting, MaxMsg <- Lines, Faults <- PipeFaults

pipe == <<phase, known, joined, waiting, sender, body, session, marked, olm, outbox,
          requests, marker, has, sent, lost, absent, count>>
path == <<vars, pipe>>

PathInit == Init /\ Pipe!Init

\* notify.sh
Notify == Writing /\ UNCHANGED pipe

\* fifo_loop, once run() has started it,
FifoLoop == /\ phase = "running"
            /\ Reopen \/ ReadEof \/ CloseFd
            /\ UNCHANGED pipe

\* and its callback.
OnFifoRead == /\ phase = "running"
              /\ Read
              /\ IF Len(queue') = Len(queue) THEN UNCHANGED pipe
                 ELSE Pipe!PutLines(Len(queue') - Len(queue))

RunPipe == /\ \/ Pipe!Runner \/ Pipe!Join \/ Pipe!Leave \/ Pipe!FlushSync
              \/ \E d \in Device : \/ Pipe!OlmSession(d)
                                   \/ \E s \in 0 .. Pipe!Unknown : Pipe!Request(d, s)
           /\ UNCHANGED vars

RestartBoth == Restart /\ Pipe!Restart

PathNext == Notify \/ FifoLoop \/ OnFifoRead \/ RunPipe \/ RestartBoth

PathSpec == PathInit /\ [][PathNext]_path

\* The event loop and the loops of the pipe come round, a writer that runs does not
\* stop by itself, and the room comes back; nothing promises that there is another line.
PathLiveSpec ==
    /\ PathSpec
    /\ WF_path(FifoLoop \/ OnFifoRead)
    /\ WF_path(Open /\ UNCHANGED pipe) /\ WF_path(Write /\ UNCHANGED pipe)
    /\ WF_path(Close /\ UNCHANGED pipe)
    /\ WF_path(Pipe!Setup /\ UNCHANGED vars) /\ WF_path(Pipe!Run /\ UNCHANGED vars)
    /\ WF_path(Pipe!Requeue /\ UNCHANGED vars) /\ WF_path(Pipe!Share /\ UNCHANGED vars)
    /\ WF_path(Pipe!FlushNow /\ UNCHANGED vars) /\ WF_path(Pipe!Send /\ UNCHANGED vars)
    /\ WF_path(Pipe!Join /\ UNCHANGED vars)
-----------------------------------------------------------------------------
\* The lines of notify.sh that have been sent.
Messages == [i \in 1 .. Len(sent) |-> Carried[sent[i].line]]

Path == INSTANCE LineChannel WITH accepted <- complete, delivered <- Messages,
                                  straight <- ~absent

\* The whole way is a channel of lines, from notify.sh to the room: what is sent was
\* written to its end by one writer, nothing is sent twice whatever is killed,
\* restarted or fails, and in the order written until the room has been left.
PathIsChannel == Path!Spec

\* A writer that waits for a reader, holding notify.sh's lock, gets one, unless the
\* room is never found or run() has ended because its history could not be forwarded.
WriterServed == (writer = "opening") ~>
    (writer = "open" \/ phase = "dead" \/ (phase = "waiting" /\ ~known))

\* The i-th line that the FIFO gave has been sent or given up.
Settled(i) == i \in lost \/ \E j \in 1 .. Len(sent) : sent[j].line = i

\* A line written to its end is sent, or given up by the pipe, unless its writer opened
\* the FIFO after the runner had read end of file and before it closed its descriptor,
\* or it was on its way when the runner was restarted.
LineDelivered == \A n \in 1 .. Lines :
    (n \in complete) ~>
        (n \in window \/ \E i \in 1 .. Len(queue) : Carried[i] = n /\ Settled(i))
=============================================================================

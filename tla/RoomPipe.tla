------------------------------ MODULE RoomPipe ------------------------------
(***************************************************************************)
(* One room of the pipes runner: it finds its room, forwards the history   *)
(* once, and then runs a sender and a responder; asyncio switches between  *)
(* them at an await only.  Lines come out of the FIFO (module RoomFifo)    *)
(* whole and numbered.  matrix-nio is external: its sync keeps the set of  *)
(* joined rooms, flushes the outbox and marks a session as shared when a   *)
(* message has been sent with it.                                          *)
(*                                                                         *)
(* Sessions are numbered: 0 is the stored history, Unknown one the runner  *)
(* does not have.                                                          *)
(***************************************************************************)
EXTENDS Naturals, Sequences, SequencesExt, FiniteSets

CONSTANTS Device,       \* the members' devices
          Bad,          \* those with an olm session that cannot encrypt
          ForwardHistory, \* forward_history of the room's configuration
          CredsRoom,    \* credentials.json has a room id
          MaxMsg,       \* bound: lines read from the FIFO
          MaxRequests,  \* bound: key requests
          MaxRestart,   \* bound: restarts of the process
          MaxLeave,     \* bound: times the room is not available again
          Faults        \* calls that may fail

ASSUME PipeAssumption ==
    /\ Bad \subseteq Device /\ CredsRoom \in BOOLEAN /\ ForwardHistory \in BOOLEAN
    /\ MaxMsg \in Nat /\ MaxRequests \in Nat /\ MaxRestart \in Nat /\ MaxLeave \in Nat
    /\ Faults \subseteq {"store", "alias", "marker", "share", "flush", "send"}

VARIABLES phase,      \* "setup", "waiting", "running"; "dead": run() has ended
          known,      \* room_id is set
          joined,     \* room_id in client.rooms
          queue,      \* msg_queue
          sender,     \* sender_loop: "get", "flush", "send"
          body,       \* the line in its hands; history: who should have its key, and
              \*   whether no call of the sharing has failed
          session,    \* number of the outbound session, 0 before the first
          marked,     \* it is marked as shared
          olm,        \* devices with an olm session
          outbox,     \* outgoing_to_device_messages
          requests,   \* received_key_requests, oldest first
          marker,     \* the file history_forwarded
          has,        \* the session keys each device has received
          sent,       \* history: what was sent, [line, session, to, ok]
          lost,       \* history: lines given up
          absent,     \* history: the room has been left while the sender ran
          count       \* bounds, and history: the devices that are owed the stored keys,
              \*   by the last forwarding, and for whom no restart has forgotten them

room    == <<phase, known, joined>>
sending == <<queue, sender, body, sent, lost, absent>>
keys    == <<session, marked, olm, outbox, requests, has>>
vars    == <<room, sending, keys, marker, count>>

None    == [line |-> 0, to |-> {}, ok |-> TRUE]
Unknown == MaxMsg + 1
Key(d, s) == [to |-> d, session |-> s]

Init == /\ phase = "setup" /\ known = FALSE /\ joined = FALSE
        /\ queue = <<>> /\ sender = "get" /\ body = None
        /\ session = 0 /\ marked = FALSE
        /\ olm \in SUBSET Device /\ outbox = {} /\ requests = <<>>
        /\ marker = FALSE
        /\ has = [d \in Device |-> {}]
        /\ sent = <<>> /\ lost = {} /\ absent = FALSE
        /\ count = [lines |-> 0, requests |-> 0, restarts |-> 0, leaves |-> 0,
                    owed |-> {}]

Count(what) == count' = [count EXCEPT ![what] = @ + 1]
-----------------------------------------------------------------------------
\* setup: load_store raises and ends run(); else the alias is asked for, and if that
\* fails the room id of credentials.json is taken.
Setup == /\ phase = "setup"
         /\ \/ "store" \in Faults /\ phase' = "dead" /\ UNCHANGED known
            \/ /\ phase' = "waiting"
               /\ \/ known' = TRUE
                  \/ "alias" \in Faults /\ known' = CredsRoom
         /\ UNCHANGED <<joined, sending, keys, marker, count>>

\* The client syncs from the end of setup, even when run() has ended since.
Syncing == phase \in {"waiting", "running"} \/ (phase = "dead" /\ known)

\* Sync: the room is in client.rooms, or not any more.
Join == /\ Syncing /\ known /\ ~joined
        /\ joined' = TRUE
        /\ UNCHANGED <<phase, known, sending, keys, marker, count>>

Leave == /\ joined /\ count.leaves < MaxLeave
         /\ joined' = FALSE /\ absent' = (absent \/ phase = "running")
         /\ Count("leaves")
         /\ UNCHANGED <<phase, known, queue, sender, body, sent, lost, keys, marker>>

\* forward_history: every device with an olm session, unless the marker is
\* there.  One that cannot encrypt raises and ends run().
Forwards == ForwardHistory /\ ~marker
Forwardable == IF Forwards THEN olm ELSE {}

\* The marker is written behind that; a failure is only logged.
Mark == \/ marker' = (marker \/ ForwardHistory)
        \/ "marker" \in Faults /\ UNCHANGED marker

ForwardTo(devices) ==
    /\ outbox' = outbox \cup {Key(d, 0) : d \in devices}
    /\ count' = [count EXCEPT !.owed = IF Forwards THEN olm ELSE @]
    /\ UNCHANGED <<known, joined, sending, session, marked, olm, requests, has>>

\* Mutant: the marker is written before the keys are queued.
RunMarksFirst == /\ phase = "waiting" /\ known /\ joined /\ Mark
                 /\ \/ /\ Forwardable \cap Bad = {}
                       /\ phase' = "running"
                       /\ ForwardTo(Forwardable)
                    \/ /\ Forwardable \cap Bad # {}
                       /\ phase' = "dead"
                       /\ \E some \in SUBSET (Forwardable \ Bad) : ForwardTo(some)
\* Mutant: the sender starts without waiting for the room.
RunAtOnce == /\ phase = "waiting"
             /\ phase' = "running" /\ Mark
             /\ ForwardTo(Forwardable)

Run == /\ phase = "waiting" /\ known /\ joined
       /\ \/ /\ Forwardable \cap Bad = {}
             /\ phase' = "running" /\ Mark
             /\ ForwardTo(Forwardable)
          \/ /\ Forwardable \cap Bad # {}
             /\ phase' = "dead" /\ UNCHANGED marker
             /\ \E some \in SUBSET (Forwardable \ Bad) : ForwardTo(some)

\* The process is started again: what was in memory only is gone.
Restart == /\ count.restarts < MaxRestart
           /\ count' = [count EXCEPT !.restarts = @ + 1,
                        !.owed = {d \in @ : Key(d, 0) \notin outbox}]
           /\ phase' = "setup" /\ known' = FALSE /\ joined' = FALSE
           /\ lost' = lost \cup ToSet(queue) \cup ({body.line} \ {0})
           /\ queue' = <<>> /\ sender' = "get" /\ body' = None
           /\ marked' = TRUE   \* no outbound session: the next one is a new one
           /\ outbox' = {} /\ requests' = <<>>
           /\ UNCHANGED <<sent, absent, session, olm, has, marker>>
-----------------------------------------------------------------------------
Enqueue(lines) ==
    /\ phase = "running"
    /\ count' = [count EXCEPT !.lines = @ + Len(lines)]
    /\ queue' = queue \o lines
    /\ UNCHANGED <<room, sender, body, sent, lost, absent, keys, marker>>

\* Mutant: the last line of a read comes first.
PutLast(k) == Enqueue([i \in 1 .. k |-> count.lines + (k + 1 - i)])

\* The lines of one read from the FIFO.
PutLines(k) == Enqueue([i \in 1 .. k |-> count.lines + i])

Put == \E k \in 1 .. MaxMsg - count.lines : PutLines(k)

\* Mutant: without the room the line is dropped.
RequeueDrops == /\ phase = "running" /\ sender = "get" /\ queue # <<>>
                /\ ~joined
                /\ queue' = Tail(queue)
                /\ UNCHANGED <<room, sender, body, sent, lost, absent, keys, marker, count>>

\* sender_loop: without the room the line goes to the end of the queue.
Requeue == /\ phase = "running" /\ sender = "get" /\ queue # <<>>
           /\ ~joined
           /\ queue' = Append(Tail(queue), Head(queue))
           /\ UNCHANGED <<room, sender, body, sent, lost, absent, keys, marker, count>>

\* share_keys_now up to its await: a shared session is rotated, the key queued
\* for every device that has an olm session; an exception ends the sharing.
Rotated == IF marked \/ session = 0 THEN session + 1 ELSE session

ShareWith(devices, next, ok) ==
    /\ phase = "running" /\ sender = "get" /\ queue # <<>> /\ joined
    /\ body' = [line |-> Head(queue), to |-> olm, ok |-> ok] /\ queue' = Tail(queue)
    /\ session' = Rotated /\ marked' = FALSE
    /\ outbox' = outbox \cup {Key(d, Rotated) : d \in devices}
    /\ sender' = next
    /\ UNCHANGED <<room, sent, lost, absent, olm, requests, has, marker, count>>

\* Mutant: the key goes only to devices that have none yet.
ShareOnce == ShareWith({d \in olm \ Bad : has[d] = {}}, "flush", TRUE)

Share == \/ olm \cap Bad = {} /\ ShareWith(olm, IF olm = {} THEN "send" ELSE "flush", TRUE)
         \/ /\ olm \cap Bad # {} \/ "share" \in Faults
            /\ \E some \in SUBSET (olm \ Bad) : ShareWith(some, "send", FALSE)

\* The to-device messages go out: by send_to_device_messages, which may fail,
Deliver(batch) ==
    /\ outbox' = outbox \ batch
    /\ has' = [d \in Device |-> has[d] \cup {k.session : k \in {b \in batch : b.to = d}}]

FlushNow == /\ sender = "flush"
            /\ \/ Deliver(outbox) /\ UNCHANGED body
               \/ /\ "flush" \in Faults
                  /\ \E batch \in SUBSET outbox : Deliver(batch)
                  /\ body' = [body EXCEPT !.ok = FALSE]
            /\ sender' = "send"
            /\ UNCHANGED <<room, queue, sent, lost, absent, session, marked,
                           olm, requests, marker, count>>

\* and by the sync loop of every later round; when it fails there the sync has
\* crashed, and run_sync begins it again.
FlushSync == /\ Syncing /\ outbox # {}
             /\ \/ Deliver(outbox)
                \/ "flush" \in Faults /\ \E batch \in SUBSET outbox : Deliver(batch)
             /\ UNCHANGED <<room, sending, session, marked, olm, requests, marker, count>>

Sent == [line |-> body.line, session |-> session, to |-> body.to, ok |-> body.ok]

\* Mutant: the loop comes round without taking the next line.
DoneKeepsBody == sender' = "get" /\ UNCHANGED body
Done == sender' = "get" /\ body' = None

\* room_send: an exception, or an error for a response, and the line is gone.
Send == /\ sender = "send"
        /\ \/ joined /\ sent' = Append(sent, Sent) /\ marked' = TRUE /\ UNCHANGED lost
           \/ /\ ~joined \/ "send" \in Faults
              /\ lost' = lost \cup {body.line} /\ marked' \in {marked, TRUE} /\ UNCHANGED sent
        /\ Done
        /\ UNCHANGED <<room, queue, absent, session, olm, outbox, requests, has,
                       marker, count>>
-----------------------------------------------------------------------------
\* External: a device gets an olm session; it asks for a key.
OlmSession(d) == /\ Syncing
                 /\ olm' = olm \cup {d}
                 /\ UNCHANGED <<room, sending, session, marked, outbox, requests, has,
                                marker, count>>

Request(d, s) == /\ Syncing /\ count.requests < MaxRequests
                 /\ s \notin has[d] /\ Key(d, s) \notin ToSet(requests)
                 /\ requests' = Append(requests, Key(d, s))
                 /\ Count("requests")
                 /\ UNCHANGED <<room, sending, session, marked, olm, outbox, has, marker>>

\* answer_one
Answerable(r) == r.session <= session /\ r.to \in olm
Raises(r)     == Answerable(r) /\ r.to \in Bad

\* The requests a sweep answers: up to one that raises, and then none of them
\* is taken out.
Answered == {requests[i] : i \in {j \in 1 .. Len(requests) :
                 Answerable(requests[j]) /\ \A k \in 1 .. j : ~Raises(requests[k])}}

\* What stays of a sequence when a set is taken out.
Without(s, set) ==
    LET kept[i \in 0 .. Len(s)] == IF i = 0 THEN <<>>
                                   ELSE IF s[i] \in set THEN kept[i - 1]
                                   ELSE Append(kept[i - 1], s[i])
    IN kept[Len(s)]

SweepWith(remaining) ==
    /\ phase = "running"
    /\ outbox' = outbox \cup Answered
    /\ requests' = remaining
    /\ UNCHANGED <<room, sending, session, marked, olm, has, marker, count>>

\* Mutant: a sweep takes out what it could not answer.
SweepAll == SweepWith(<<>>)

Sweep == SweepWith(IF \E r \in ToSet(requests) : Raises(r) THEN requests
                   ELSE Without(requests, Answered))

Runner == Setup \/ Run \/ Requeue \/ Share \/ FlushNow \/ Send \/ Sweep
Next == \/ Runner \/ Join \/ Leave \/ Restart \/ Put \/ FlushSync
        \/ \E d \in Device : OlmSession(d) \/ \E s \in 0 .. Unknown : Request(d, s)

Spec == Init /\ [][Next]_vars

\* The pipe starts, its responder and the sync come round, the room comes back, and
\* not every round of the sync fails.
LiveSpec == /\ Spec
            /\ WF_vars(Setup) /\ WF_vars(Run) /\ WF_vars(Sweep) /\ WF_vars(Join)
            /\ SF_vars(FlushSync /\ outbox' = {})
-----------------------------------------------------------------------------
LineNumber == 1 .. MaxMsg
Session    == 0 .. Unknown

\* The variables have their types, and what is sent is encrypted with a session
\* that exists.
TypeOK == /\ phase \in {"setup", "waiting", "running", "dead"}
          /\ known \in BOOLEAN /\ joined \in BOOLEAN /\ marked \in BOOLEAN
          /\ marker \in BOOLEAN /\ absent \in BOOLEAN
          /\ queue \in Seq(LineNumber) /\ lost \subseteq LineNumber
          /\ sender \in {"get", "flush", "send"}
          /\ sender # "get" <=> body.line \in LineNumber
          /\ session \in 0 .. MaxMsg /\ olm \subseteq Device
          /\ outbox \subseteq [to : Device, session : 0 .. session]
          /\ requests \in Seq([to : Device, session : Session])
          /\ has \in [Device -> SUBSET (0 .. session)]
          /\ \A i \in 1 .. Len(sent) : sent[i].session \in 1 .. session

\* Every line read from the FIFO is in exactly one place: queued, in the
\* sender's hands, sent once, or given up; requeueing and failing sends neither
\* double nor drop one.
EachLineOnce ==
    \A n \in 1 .. count.lines :
        Cardinality({i \in 1 .. Len(queue) : queue[i] = n})
          + Cardinality({i \in 1 .. Len(sent) : sent[i].line = n})
          + Cardinality({n} \cap lost) + Cardinality({n} \cap {body.line}) = 1

\* Lines are sent in the order they came in, unless the room was left while
\* the sender ran: requeueing puts a line behind its successors.  The channel below
\* promises this and more.
OrderUnlessAbsent ==
    absent \/ \A i, j \in 1 .. Len(sent) : i < j => sent[i].line < sent[j].line

SentLines == [i \in 1 .. Len(sent) |-> sent[i].line]
Channel   == INSTANCE LineChannel WITH accepted <- 1 .. count.lines, delivered <- SentLines,
                                       straight <- ~absent

\* A pipe is a channel of lines: what it sends it has read, nothing is sent again
\* after a failure, a requeueing or a restart, and in order until the room is left.
PipeIsChannel == Channel!Spec

\* Unless a call of the sharing failed, a message is sent only when every device
\* with an olm session at the time of sharing has received its session key.
KeyFirst == \A i \in 1 .. Len(sent) : sent[i].ok =>
               \A d \in sent[i].to : sent[i].session \in has[d]

\* The marker vouches for the history: whoever had an olm session when it was forwarded
\* has the stored keys or will get them with a flush.  A device that cannot encrypt, a
\* marker that cannot be written and flushes that fail half way do not change that; only
\* a restart that finds the keys in the outbox does, and for good.
HistoryKept == marker => \A d \in count.owed : Key(d, 0) \in outbox \/ 0 \in has[d]

\* A request for a session the runner has is answered, and until there is an olm
\* session with the device it "stays queued", unless a restart forgets it, the room is
\* not known, run() has ended, or a device that cannot encrypt stops the sweeps.
RequestAnswered ==
    \A d \in Device, s \in 0 .. MaxMsg :
        (Key(d, s) \in ToSet(requests) /\ s <= session)
            ~> \/ s \in has[d]
               \/ [](d \notin olm)
               \/ ~known \/ phase = "dead"
               \/ \E r \in ToSet(requests) : Raises(r)
=============================================================================

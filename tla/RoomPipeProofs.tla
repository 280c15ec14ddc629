--------------------------- MODULE RoomPipeProofs ---------------------------
(***************************************************************************)
(* The order of one room's lines, of its keys and of its history, for any  *)
(* number of devices, lines, restarts and faults.                          *)
(***************************************************************************)
EXTENDS RoomPipe, FiniteSetTheorems, WellFoundedInduction, TLAPS

USE PipeAssumption DEF PipeAssumption

Body    == [line : Nat, to : SUBSET Device, ok : BOOLEAN]
Message == [line : Nat, session : Nat, to : SUBSET Device, ok : BOOLEAN]
Counts  == [lines : Nat, requests : Nat, restarts : Nat, leaves : Nat,
            owed : SUBSET Device]

\* What the proofs need of the variables' types.
Typed == /\ sender \in {"get", "flush", "send"} /\ joined \in BOOLEAN /\ absent \in BOOLEAN
         /\ queue \in Seq(Nat) /\ body \in Body /\ sent \in Seq(Message)
         /\ session \in Nat /\ olm \subseteq Device
         /\ count \in Counts
-----------------------------------------------------------------------------
\* The types at the start.
LEMMA Initially == Init => Typed
<1> SUFFICES ASSUME Init
             PROVE  Typed
  OBVIOUS
<1>1. body \in Body
  BY DEF Init, None, Body
<1>2. count \in Counts
  BY DEF Init, Counts
<1>3. queue \in Seq(Nat) /\ sent \in Seq(Message)
  BY DEF Init
<1>4. QED
  BY <1>1, <1>2, <1>3 DEF Init, Typed

\* Counting leaves the counts what they are.
LEMMA Counted ==
    ASSUME Typed, NEW what \in {"lines", "requests", "restarts", "leaves"}, Count(what)
    PROVE  /\ count' \in Counts /\ count'.owed = count.owed
           /\ what = "lines" => count'.lines = count.lines + 1
           /\ what # "lines" => count'.lines = count.lines
<1>1. count \in Counts /\ count' = [count EXCEPT ![what] = count[what] + 1]
  BY DEF Typed, Count
<1>2. count' \in Counts
  BY <1>1 DEF Counts
<1>3. count'.owed = count.owed
  BY <1>1 DEF Counts
<1>4. what = "lines" => count'.lines = count.lines + 1
  BY <1>1 DEF Counts
<1>5. what # "lines" => count'.lines = count.lines
  BY <1>1 DEF Counts
<1>6. QED
  BY <1>2, <1>3, <1>4, <1>5

\* Lines that come in get the next numbers, and go to the end of the queue.
Incoming(k) ==
    /\ k \in Nat \ {0} /\ count.lines \in Nat /\ count.lines + k <= MaxMsg
    /\ count' \in Counts /\ count'.lines = count.lines + k /\ count'.owed = count.owed
    /\ queue' \in Seq(Nat) /\ Len(queue) \in Nat /\ Len(queue') = Len(queue) + k
    /\ \A i \in 1 .. Len(queue) : queue'[i] = queue[i]
    /\ \A i \in 1 .. k : queue'[Len(queue) + i] = count.lines + i
    /\ UNCHANGED <<phase, known, joined, sender, body, sent, lost, absent, marker>>
    /\ UNCHANGED <<session, marked, olm, outbox, requests, has>>

\* That is what happens to the lines of a read.
LEMMA PuttingLines ==
    ASSUME Typed, NEW k \in 1 .. MaxMsg - count.lines, PutLines(k)
    PROVE  Incoming(k)
<1> DEFINE new == [i \in 1 .. k |-> count.lines + i]
<1>1. /\ count.lines \in Nat /\ k \in Nat \ {0} /\ count.lines + k <= MaxMsg
      /\ count \in Counts /\ queue \in Seq(Nat)
  BY DEF Typed, Counts
<1>2. new \in Seq(Nat) /\ Len(new) = k /\ \A i \in 1 .. k : new[i] = count.lines + i
  BY <1>1
<1>3. /\ count' = [count EXCEPT !.lines = @ + Len(new)] /\ queue' = queue \o new
      /\ UNCHANGED <<phase, known, joined, sender, body, sent, lost, absent, marker>>
      /\ UNCHANGED <<session, marked, olm, outbox, requests, has>>
  BY DEF PutLines, Enqueue, room, keys
<1> HIDE DEF new
<1>4. count' \in Counts /\ count'.lines = count.lines + k /\ count'.owed = count.owed
  <2>1. count' = [count EXCEPT !.lines = count.lines + k] /\ count.lines + k \in Nat
    BY <1>1, <1>2, <1>3
  <2>2. QED
    BY <1>1, <2>1 DEF Counts
<1>5. /\ queue' \in Seq(Nat) /\ Len(queue) \in Nat /\ Len(queue') = Len(queue) + k
      /\ \A i \in 1 .. Len(queue) : queue'[i] = queue[i]
      /\ \A i \in 1 .. k : queue'[Len(queue) + i] = new[i]
  <2>1. queue \in Seq(Nat) /\ new \in Seq(Nat) /\ queue' = queue \o new
    BY <1>1, <1>2, <1>3
  <2>2. /\ queue' \in Seq(Nat) /\ Len(queue') = Len(queue) + Len(new)
        /\ \A i \in 1 .. Len(queue) : queue'[i] = queue[i]
        /\ \A i \in 1 .. Len(new) : queue'[Len(queue) + i] = new[i]
    BY <2>1
  <2>3. QED
    BY <1>2, <2>1, <2>2
<1>6. QED
  BY <1>1, <1>2, <1>3, <1>4, <1>5 DEF Incoming

LEMMA Putting == ASSUME Typed, Put PROVE \E k : Incoming(k)
BY PuttingLines DEF Put

\* Who is owed the stored keys after a forwarding.
Owed == IF Forwards THEN olm ELSE count.owed

LEMMA Forwarded ==
    ASSUME Typed, NEW devices, ForwardTo(devices)
    PROVE  count' \in Counts /\ count'.lines = count.lines /\ count'.owed = Owed
<1>1. count' = [count EXCEPT !.owed = Owed]
  BY DEF ForwardTo, Owed
<1>2. Owed \in SUBSET Device
  BY DEF Owed, Typed, Counts
<1>3. QED
  BY <1>1, <1>2 DEF Typed, Counts

\* What a pipe that starts does to its state.
LEMMA Running ==
    ASSUME Typed, Run
    PROVE  /\ count' \in Counts /\ count'.lines = count.lines /\ count'.owed = Owed
           /\ \/ marker' = marker
              \/ /\ phase' = "running" /\ marker' = (marker \/ ForwardHistory)
                 /\ ForwardTo(Forwardable)
           /\ outbox \subseteq outbox'
           /\ UNCHANGED <<joined, sending, session, olm, has>>
           /\ phase' = "running" => joined
<1>1. PICK devices \in SUBSET Device : ForwardTo(devices)
  <2>1. Forwardable \subseteq Device
    BY DEF Forwardable, Typed
  <2>2. QED
    BY <2>1 DEF Run
<1>2. outbox \subseteq outbox' /\ UNCHANGED <<joined, sending, session, olm, has>>
  BY <1>1 DEF ForwardTo
<1>3. \/ marker' = marker
      \/ /\ phase' = "running" /\ marker' = (marker \/ ForwardHistory)
         /\ ForwardTo(Forwardable)
  BY DEF Run, Mark
<1>4. joined
  BY DEF Run
<1>5. QED
  BY <1>1, <1>2, <1>3, <1>4, Forwarded

\* A restart counts itself, and nobody more is owed the stored keys than before.
Forgotten == {d \in count.owed : Key(d, 0) \in outbox}

LEMMA Restarting ==
    ASSUME Typed, Restart
    PROVE  /\ count' \in Counts /\ count'.lines = count.lines
           /\ count'.owed = count.owed \ Forgotten
<1> DEFINE still == {d \in count.owed : Key(d, 0) \notin outbox}
<1>1. count' = [count EXCEPT !.restarts = count.restarts + 1, !.owed = still]
  BY DEF Restart
<1>2. count \in Counts /\ still \in SUBSET Device /\ count.restarts + 1 \in Nat
  BY DEF Typed, Counts
<1>3. still = count.owed \ Forgotten
  BY DEF Forgotten
<1> HIDE DEF still
<1>4. count' \in Counts /\ count'.lines = count.lines /\ count'.owed = still
  BY <1>1, <1>2 DEF Counts
<1>5. QED
  BY <1>3, <1>4
-----------------------------------------------------------------------------
\* What sharing does to the outbox, step by step of its loop.
LEMMA Sharing ==
    ASSUME Typed, NEW devices \in SUBSET Device, NEW next \in {"flush", "send"},
           NEW ok \in BOOLEAN, ShareWith(devices, next, ok)
    PROVE  /\ phase = "running" /\ sender = "get" /\ joined /\ Len(queue) > 0
           /\ body' = [line |-> queue[1], to |-> olm, ok |-> ok] /\ body' \in Body
           /\ queue' \in Seq(Nat) /\ Len(queue') = Len(queue) - 1
           /\ \A i \in 1 .. Len(queue') : queue'[i] = queue[i + 1]
           /\ session' \in Nat /\ sender' = next
           /\ \A d \in devices : Key(d, session') \in outbox'
           /\ UNCHANGED <<room, sent, lost, absent, olm, has, marker, count>>
<1>1. /\ queue # <<>> /\ queue \in Seq(Nat) /\ queue' = Tail(queue)
      /\ body' = [line |-> Head(queue), to |-> olm, ok |-> ok]
  BY DEF ShareWith, Typed
<1>2. /\ Len(queue) > 0 /\ Head(queue) = queue[1] /\ queue[1] \in Nat
      /\ queue' \in Seq(Nat) /\ Len(queue') = Len(queue) - 1
      /\ \A i \in 1 .. Len(queue') : queue'[i] = queue[i + 1]
  BY <1>1
<1>3. session' \in Nat
  BY DEF ShareWith, Rotated, Typed
<1>4. \A d \in devices : Key(d, session') \in outbox'
  BY DEF ShareWith
<1>5. body' \in Body
  BY <1>1, <1>2 DEF Typed, Body
<1>6. QED
  BY <1>1, <1>2, <1>3, <1>4, <1>5 DEF ShareWith

\* Sharing as the sender does it: if all goes well, everybody in `to' has its key queued.
LEMMA Shared ==
    ASSUME Typed, Share
    PROVE  \E devices \in SUBSET Device, next \in {"flush", "send"}, ok \in BOOLEAN :
               /\ ShareWith(devices, next, ok)
               /\ ok => devices = olm
               /\ ok /\ next = "send" => olm = {}
<1>1. olm \subseteq Device
  BY DEF Typed
<1>2. CASE ShareWith(olm, IF olm = {} THEN "send" ELSE "flush", TRUE)
  <2>1. CASE olm = {}
    <3>1. ShareWith(olm, "send", TRUE)
      BY <1>2, <2>1
    <3>2. QED
      BY <1>1, <2>1, <3>1
  <2>2. CASE olm # {}
    <3>1. ShareWith(olm, "flush", TRUE)
      BY <1>2, <2>2
    <3>2. QED
      BY <1>1, <3>1
  <2>3. QED
    BY <2>1, <2>2
<1>3. ASSUME NEW some \in SUBSET (olm \ Bad), ShareWith(some, "send", FALSE)
      PROVE  \E devices \in SUBSET Device, next \in {"flush", "send"}, ok \in BOOLEAN :
                 /\ ShareWith(devices, next, ok)
                 /\ ok => devices = olm
                 /\ ok /\ next = "send" => olm = {}
  <2>1. some \in SUBSET Device
    BY <1>1
  <2>2. QED
    BY <1>3, <2>1
<1>4. QED
  BY <1>2, <1>3 DEF Share

\* What is left when a line has been sent or given up.
LEMMA Sending ==
    ASSUME Typed, Send
    PROVE  /\ body' = None /\ body' \in Body /\ sender = "send" /\ sender' = "get"
           /\ UNCHANGED <<room, queue, absent, session, olm, outbox, has, marker, count>>
           /\ \/ sent' = sent
              \/ /\ sent' \in Seq(Message) /\ Len(sent') = Len(sent) + 1
                 /\ sent'[Len(sent) + 1] = Sent
                 /\ \A i \in 1 .. Len(sent) : sent'[i] = sent[i]
<1>1. None \in Body
  BY DEF None, Body
<1>2. Sent \in Message
  BY DEF Sent, Message, Typed, Body
<1>3. sent' = sent \/ sent' = Append(sent, Sent)
  BY DEF Send
<1>4. sent' = Append(sent, Sent) => /\ sent' \in Seq(Message) /\ Len(sent') = Len(sent) + 1
                                    /\ sent'[Len(sent) + 1] = Sent
                                    /\ \A i \in 1 .. Len(sent) : sent'[i] = sent[i]
  <2>1. sent \in Seq(Message)
    BY DEF Typed
  <2>2. QED
    BY <1>2, <2>1
<1>5. /\ body' = None /\ sender = "send" /\ sender' = "get"
      /\ UNCHANGED <<room, queue, absent, session, olm, outbox, has, marker, count>>
  BY DEF Send, Done
<1>6. QED
  BY <1>1, <1>3, <1>4, <1>5

\* Every step keeps the types.
LEMMA TypedStep == Typed /\ [Next]_vars => Typed'
<1> SUFFICES ASSUME Typed, [Next]_vars
             PROVE  Typed'
  OBVIOUS
<1>1. CASE UNCHANGED vars
  BY <1>1 DEF vars, room, sending, keys, Typed
<1>2. CASE Setup \/ Join
  BY <1>2 DEF Setup, Join, sending, keys, Typed
<1>3. CASE Leave
  BY <1>3, Counted DEF Leave, keys, Typed
<1>4. CASE Run
  BY <1>4, Running DEF sending, Typed
<1>5. CASE Restart
  <2>1. None \in Body
    BY DEF None, Body
  <2>2. count' \in Counts
    BY <1>5, Restarting
  <2>3. /\ joined' = FALSE /\ queue' = <<>> /\ sender' = "get" /\ body' = None
        /\ UNCHANGED <<sent, absent, session, olm>>
    BY <1>5 DEF Restart
  <2>4. <<>> \in Seq(Nat)
    OBVIOUS
  <2>5. QED
    BY <2>1, <2>2, <2>3, <2>4 DEF Typed
<1>6. CASE Put
  <2>1. PICK k : Incoming(k)
    BY <1>6, Putting
  <2>2. QED
    BY <2>1 DEF Incoming, Typed
<1>7. CASE Requeue
  <2>1. queue' \in Seq(Nat)
    BY <1>7 DEF Requeue, Typed
  <2>2. QED
    BY <1>7, <2>1 DEF Requeue, room, keys, Typed
<1>8. CASE Share
  <2>1. PICK devices \in SUBSET Device, next \in {"flush", "send"}, ok \in BOOLEAN :
             ShareWith(devices, next, ok)
    BY <1>8, Shared
  <2>2. QED
    BY <2>1, Sharing DEF room, Typed
<1>9. CASE FlushNow
  <2>1. body' = body \/ body' = [body EXCEPT !.ok = FALSE]
    BY <1>9 DEF FlushNow
  <2>2. body' \in Body
    BY <2>1 DEF Typed, Body
  <2>3. QED
    BY <1>9, <2>2 DEF FlushNow, room, Typed
<1>10. CASE FlushSync
  BY <1>10 DEF FlushSync, room, sending, Typed
<1>11. CASE Send
  BY <1>11, Sending DEF room, Typed
<1>12. ASSUME NEW d \in Device, OlmSession(d)
       PROVE  Typed'
  BY <1>12 DEF OlmSession, room, sending, Typed
<1>13. ASSUME NEW d \in Device, NEW s \in 0 .. Unknown, Request(d, s)
       PROVE  Typed'
  BY <1>13, Counted DEF Request, room, sending, Typed
<1>14. CASE Sweep
  BY <1>14 DEF Sweep, SweepWith, room, sending, Typed
<1>15. QED
  BY <1>1, <1>2, <1>3, <1>4, <1>5, <1>6, <1>7, <1>8, <1>9, <1>10, <1>11, <1>12, <1>13,
     <1>14 DEF Next, Runner

\* So they hold in every state.
LEMMA AlwaysTyped == Spec => []Typed
BY Initially, TypedStep, PTL DEF Spec
-----------------------------------------------------------------------------
\* Before the flush everybody's key is on its way, after it everybody has it.
KeysOnTheWay ==
    /\ sender = "flush" /\ body.ok =>
           \A d \in body.to : Key(d, session) \in outbox \/ session \in has[d]
    /\ sender = "send" /\ body.ok => \A d \in body.to : session \in has[d]

KeysInv == KeysOnTheWay /\ KeyFirst

\* A delivery adds to what the devices have.
LEMMA Delivered ==
    ASSUME NEW batch, Deliver(batch)
    PROVE  \A d \in Device : /\ has[d] \subseteq has'[d]
                             /\ \A s : Key(d, s) \in batch => s \in has'[d]
                             /\ \A s : Key(d, s) \in outbox =>
                                    Key(d, s) \in outbox' \/ s \in has'[d]
BY DEF Deliver, Key

\* What devices have received they keep.
LEMMA KeysKept ==
    ASSUME Typed, KeyFirst, sent' = sent, \A d \in Device : has[d] \subseteq has'[d]
    PROVE  KeyFirst'
<1>1. \A i \in 1 .. Len(sent) : sent[i].to \subseteq Device
  <2>1. ASSUME NEW i \in 1 .. Len(sent)
        PROVE  sent[i] \in Message
    BY DEF Typed
  <2>2. QED
    BY <2>1 DEF Message
<1>2. QED
  BY <1>1 DEF KeyFirst

\* A step that takes no key away and leaves the sender alone changes nothing.
LEMMA KeysComing ==
    ASSUME Typed, KeysInv, UNCHANGED <<sender, body, session, sent>>,
           \A d \in Device : has[d] \subseteq has'[d],
           \A d \in Device : Key(d, session) \in outbox =>
                             Key(d, session) \in outbox' \/ session \in has'[d]
    PROVE  KeysInv'
<1>1. \A d \in body.to : d \in Device
  BY DEF Typed, Body
<1>2. KeyFirst'
  BY KeysKept DEF KeysInv
<1>3. KeysOnTheWay'
  <2>1. ASSUME sender = "flush", body.ok, NEW d \in body.to
        PROVE  Key(d, session) \in outbox' \/ session \in has'[d]
    BY <1>1, <2>1 DEF KeysInv, KeysOnTheWay
  <2>2. ASSUME sender = "send", body.ok, NEW d \in body.to
        PROVE  session \in has'[d]
    BY <1>1, <2>2 DEF KeysInv, KeysOnTheWay
  <2>3. QED
    BY <2>1, <2>2 DEF KeysOnTheWay, Key
<1>4. QED
  BY <1>2, <1>3 DEF KeysInv

\* Every step keeps the keys on their way.
LEMMA KeysStep == Typed /\ KeysInv /\ [Next]_vars => KeysInv'
<1> SUFFICES ASSUME Typed, KeysInv, [Next]_vars
             PROVE  KeysInv'
  OBVIOUS
<1>1. CASE UNCHANGED vars
  BY <1>1, KeysComing DEF vars, sending, keys
<1>2. CASE Setup \/ Join \/ Leave
  BY <1>2, KeysComing DEF Setup, Join, Leave, sending, keys
<1>3. CASE Run
  <2>1. UNCHANGED <<sender, body, session, sent, has>> /\ outbox \subseteq outbox'
    BY <1>3, Running DEF sending
  <2>2. QED
    BY <2>1, KeysComing
<1>4. CASE Restart
  BY <1>4 DEF Restart, KeysInv, KeysOnTheWay, KeyFirst
<1>5. CASE Put \/ Requeue
  BY <1>5, KeysComing, Putting DEF Incoming, Requeue, keys
<1>6. CASE Share
  <2>1. PICK devices \in SUBSET Device, next \in {"flush", "send"}, ok \in BOOLEAN :
             /\ ShareWith(devices, next, ok)
             /\ ok => devices = olm
             /\ ok /\ next = "send" => olm = {}
    BY <1>6, Shared
  <2>2. /\ sender' = next /\ body' = [line |-> queue[1], to |-> olm, ok |-> ok]
        /\ \A d \in devices : Key(d, session') \in outbox'
        /\ UNCHANGED <<sent, has>>
    BY <2>1, Sharing
  <2>3. \A d : Key(d, session') = Key(d, session)'
    BY DEF Key
  <2>4. KeysOnTheWay'
    <3>1. body'.to = olm /\ body'.ok = ok
      BY <2>2
    <3>2. CASE ok /\ next = "send"
      BY <2>1, <2>2, <3>1, <3>2 DEF KeysOnTheWay
    <3>3. CASE ok /\ next = "flush"
      BY <2>1, <2>2, <2>3, <3>1, <3>3 DEF KeysOnTheWay
    <3>4. CASE ~ok
      BY <3>1, <3>4 DEF KeysOnTheWay
    <3>5. QED
      BY <3>2, <3>3, <3>4
  <2>5. QED
    BY <2>2, <2>4 DEF KeysInv, KeyFirst
<1>7. CASE FlushNow
  <2>1. /\ sender = "flush" /\ sender' = "send" /\ UNCHANGED <<session, sent>>
    BY <1>7 DEF FlushNow
  <2>2. ASSUME Deliver(outbox), body' = body
        PROVE  KeysInv'
    <3>1. \A d \in Device : /\ has[d] \subseteq has'[d]
                            /\ \A s : Key(d, s) \in outbox => s \in has'[d]
      BY <2>2, Delivered
    <3>2. ASSUME body.ok, NEW d \in body.to
          PROVE  session \in has'[d]
      <4>1. d \in Device
        BY DEF Typed, Body
      <4>2. Key(d, session) \in outbox \/ session \in has[d]
        BY <2>1, <3>2 DEF KeysInv, KeysOnTheWay
      <4>3. QED
        BY <3>1, <4>1, <4>2
    <3>3. KeysOnTheWay'
      BY <2>1, <2>2, <3>2 DEF KeysOnTheWay
    <3>4. KeyFirst'
      BY <2>1, <3>1, KeysKept DEF KeysInv
    <3>5. QED
      BY <3>3, <3>4 DEF KeysInv
  <2>3. ASSUME NEW batch \in SUBSET outbox, Deliver(batch), body' = [body EXCEPT !.ok = FALSE]
        PROVE  KeysInv'
    <3>1. \A d \in Device : has[d] \subseteq has'[d]
      BY <2>3, Delivered
    <3>2. ~body'.ok
      BY <2>3 DEF Typed, Body
    <3>3. KeyFirst'
      BY <2>1, <3>1, KeysKept DEF KeysInv
    <3>4. QED
      BY <3>2, <3>3 DEF KeysInv, KeysOnTheWay
  <2>4. QED
    BY <1>7, <2>2, <2>3 DEF FlushNow
<1>8. CASE FlushSync
  <2>1. UNCHANGED <<sender, body, session, sent>> /\ \E batch : Deliver(batch)
    BY <1>8 DEF FlushSync, sending
  <2>2. QED
    BY <2>1, Delivered, KeysComing
<1>9. CASE Send
  <2>1. /\ sender = "send" /\ sender' = "get" /\ UNCHANGED <<session, has>>
        /\ \/ sent' = sent
           \/ /\ Len(sent') = Len(sent) + 1 /\ sent'[Len(sent) + 1] = Sent
              /\ \A i \in 1 .. Len(sent) : sent'[i] = sent[i]
    BY <1>9, Sending
  <2>2. Sent.ok => \A d \in Sent.to : Sent.session \in has[d]
    BY <2>1 DEF Sent, KeysInv, KeysOnTheWay
  <2>3. Len(sent) \in Nat
    BY DEF Typed
  <2>4. KeyFirst'
    BY <2>1, <2>2, <2>3 DEF KeysInv, KeyFirst
  <2>5. QED
    BY <2>1, <2>4 DEF KeysInv, KeysOnTheWay
<1>10. ASSUME NEW d \in Device, OlmSession(d)
       PROVE  KeysInv'
  BY <1>10, KeysComing DEF OlmSession, sending
<1>11. ASSUME NEW d \in Device, NEW s \in 0 .. Unknown, Request(d, s)
       PROVE  KeysInv'
  BY <1>11, KeysComing DEF Request, sending
<1>12. CASE Sweep
  <2>1. UNCHANGED <<sender, body, session, sent, has>> /\ outbox \subseteq outbox'
    BY <1>12 DEF Sweep, SweepWith, sending
  <2>2. QED
    BY <2>1, KeysComing
<1>13. QED
  BY <1>1, <1>2, <1>3, <1>4, <1>5, <1>6, <1>7, <1>8, <1>9, <1>10, <1>11, <1>12
     DEF Next, Runner

\* A message whose sharing did not fail is sent only after every device with an olm
\* session has its key, whatever the sync loop flushes in between.
THEOREM KeysComeFirst == Spec => []KeyFirst
<1>1. Init => KeysInv
  BY DEF Init, KeysInv, KeysOnTheWay, KeyFirst
<1>2. KeysInv => KeyFirst
  BY DEF KeysInv
<1>3. QED
  BY <1>1, <1>2, KeysStep, AlwaysTyped, PTL DEF Spec
-----------------------------------------------------------------------------
\* A step that writes no marker, adds nobody to whom the stored keys are owed and takes
\* no key out of the outbox but to deliver it.
LEMMA HistoryStays ==
    ASSUME Typed, Typed', HistoryKept, marker' => marker, count'.owed \subseteq count.owed,
           \A d \in Device : has[d] \subseteq has'[d],
           \A d \in count'.owed : Key(d, 0) \in outbox =>
                                  Key(d, 0) \in outbox' \/ 0 \in has'[d]
    PROVE  HistoryKept'
<1>1. SUFFICES ASSUME marker', NEW d \in count'.owed
               PROVE  Key(d, 0) \in outbox' \/ 0 \in has'[d]
  BY DEF HistoryKept, Key
<1>2. d \in Device /\ marker /\ d \in count.owed
  BY <1>1 DEF Typed, Counts
<1>3. QED
  BY <1>1, <1>2 DEF HistoryKept

\* Every step keeps the history for those to whom it is owed.
LEMMA HistoryStep == Typed /\ Typed' /\ HistoryKept /\ [Next]_vars => HistoryKept'
<1> SUFFICES ASSUME Typed, Typed', HistoryKept, [Next]_vars
             PROVE  HistoryKept'
  OBVIOUS
<1>1. CASE UNCHANGED vars
  BY <1>1, HistoryStays DEF vars, keys
<1>2. CASE Setup \/ Join \/ Requeue \/ Send \/ \E d \in Device : OlmSession(d)
  <2>1. UNCHANGED <<marker, count, outbox, has>>
    BY <1>2 DEF Setup, Join, Requeue, Send, OlmSession, keys
  <2>2. QED
    BY <2>1, HistoryStays
<1>3. CASE Leave \/ \E d \in Device, s \in 0 .. Unknown : Request(d, s)
  <2>1. UNCHANGED <<marker, outbox, has>> /\ count'.owed = count.owed
    BY <1>3, Counted DEF Leave, Request, keys
  <2>2. QED
    BY <2>1, HistoryStays
<1>4. CASE Put
  <2>1. UNCHANGED <<marker, outbox, has>> /\ count'.owed = count.owed
    BY <1>4, Putting DEF Incoming
  <2>2. QED
    BY <2>1, HistoryStays
<1>5. CASE Share \/ Sweep
  <2>1. outbox \subseteq outbox' /\ UNCHANGED <<marker, count, has>>
    BY <1>5 DEF Share, ShareWith, Sweep, SweepWith
  <2>2. QED
    BY <2>1, HistoryStays
<1>6. CASE FlushNow \/ FlushSync
  <2>1. PICK batch : Deliver(batch)
    BY <1>6 DEF FlushNow, FlushSync
  <2>2. UNCHANGED <<marker, count>>
    BY <1>6 DEF FlushNow, FlushSync
  <2>3. \A d \in count'.owed : d \in Device
    BY DEF Typed, Counts
  <2>4. QED
    BY <2>1, <2>2, <2>3, Delivered, HistoryStays
<1>7. CASE Restart
  <2>1. UNCHANGED <<marker, has>> /\ count'.owed = count.owed \ Forgotten
    BY <1>7, Restarting DEF Restart
  <2>2. \A d \in count'.owed : Key(d, 0) \notin outbox
    BY <2>1 DEF Forgotten
  <2>3. QED
    BY <2>1, <2>2, HistoryStays
<1>8. CASE Run
  <2>1. /\ count'.owed = Owed /\ outbox \subseteq outbox' /\ UNCHANGED has
        /\ \/ marker' = marker
           \/ marker' = (marker \/ ForwardHistory) /\ ForwardTo(Forwardable)
    BY <1>8, Running
  <2>2. CASE marker
    <3>1. count'.owed = count.owed
      BY <2>1, <2>2 DEF Owed, Forwards
    <3>2. QED
      BY <2>1, <2>2, <3>1, HistoryStays
  <2>3. CASE ~marker /\ marker'
    <3>1. Forwards /\ ForwardTo(Forwardable)
      BY <2>1, <2>3 DEF Forwards
    <3>2. count'.owed = olm /\ Forwardable = olm
      BY <2>1, <3>1 DEF Owed, Forwardable
    <3>3. \A d \in count'.owed : Key(d, 0) \in outbox'
      BY <3>1, <3>2 DEF ForwardTo
    <3>4. QED
      BY <3>3 DEF HistoryKept, Key
  <2>4. CASE ~marker'
    BY <2>4 DEF HistoryKept
  <2>5. QED
    BY <2>2, <2>3, <2>4
<1>9. QED
  BY <1>1, <1>2, <1>3, <1>4, <1>5, <1>6, <1>7, <1>8 DEF Next, Runner

\* A marker is never left behind for a device whose key could not be queued: whichever
\* call fails, only a restart that finds the keys in the outbox loses the history.
THEOREM HistoryVouchedFor == Spec => []HistoryKept
<1>1. Init => HistoryKept
  BY DEF Init, HistoryKept
<1>2. QED
  BY <1>1, HistoryStep, AlwaysTyped, PTL DEF Spec
-----------------------------------------------------------------------------
\* Sent, then in the sender's hands, then queued: the lines are in order, as long as
\* a running sender has its room.
Ordered ==
    /\ phase = "running" => joined
    /\ \A i \in 1 .. Len(sent) :
           /\ sent[i].line <= count.lines
           /\ sender # "get" => sent[i].line < body.line
           /\ \A j \in 1 .. Len(sent) : i < j => sent[i].line < sent[j].line
           /\ \A j \in 1 .. Len(queue) : sent[i].line < queue[j]
    /\ sender # "get" => /\ body.line <= count.lines
                         /\ \A j \in 1 .. Len(queue) : body.line < queue[j]
    /\ \A i \in 1 .. Len(queue) :
           /\ queue[i] <= count.lines
           /\ \A j \in 1 .. Len(queue) : i < j => queue[i] < queue[j]

OrderInv == absent \/ Ordered

\* A step that leaves the lines alone leaves their order alone.
LEMMA OrderKept ==
    ASSUME OrderInv, UNCHANGED <<queue, sent, body, absent>>,
           sender' = sender \/ sender \in {"flush", "send"}, count'.lines = count.lines,
           phase' = "running" => (joined' \/ (phase = "running" /\ joined' = joined))
    PROVE  OrderInv'
BY DEF OrderInv, Ordered

\* Every step keeps the order.
LEMMA OrderStep == Typed /\ OrderInv /\ [Next]_vars => OrderInv'
<1> SUFFICES ASSUME Typed, OrderInv, [Next]_vars
             PROVE  OrderInv'
  OBVIOUS
<1>1. CASE UNCHANGED vars
  BY <1>1, OrderKept DEF vars, room, sending
<1>2. CASE Setup \/ Join
  <2>1. /\ UNCHANGED <<queue, sent, body, absent>> /\ sender' = sender
        /\ count'.lines = count.lines /\ (phase' = "running" => joined')
    BY <1>2 DEF Setup, Join, sending
  <2>2. QED
    BY <2>1 DEF OrderInv, Ordered
<1>3. CASE Leave
  BY <1>3, Counted DEF Leave, OrderInv, Ordered
<1>4. CASE Run
  BY <1>4, Running, OrderKept DEF sending
<1>5. CASE Restart
  <2>1. /\ phase' = "setup" /\ Len(queue') = 0 /\ sender' = "get"
        /\ UNCHANGED <<sent, absent>> /\ count'.lines = count.lines
    BY <1>5, Restarting DEF Restart
  <2>2. QED
    BY <2>1 DEF OrderInv, Ordered
<1>6. CASE Put
  <2>1. PICK k : Incoming(k)
    BY <1>6, Putting
  <2>2. /\ k \in Nat \ {0} /\ count'.lines = count.lines + k /\ count.lines \in Nat
        /\ UNCHANGED <<phase, joined, sender, body, sent, absent>>
        /\ Len(queue') = Len(queue) + k /\ Len(queue) \in Nat
        /\ \A i \in 1 .. Len(queue) : queue'[i] = queue[i] /\ queue[i] \in Nat
        /\ \A i \in 1 .. k : queue'[Len(queue) + i] = count.lines + i
    <3>1. \A i \in 1 .. Len(queue) : queue[i] \in Nat
      BY DEF Typed
    <3>2. QED
      BY <2>1, <3>1 DEF Incoming
  <2>3. \A i \in 1 .. Len(sent) : sent[i].line \in Nat
    <3>1. \A i \in 1 .. Len(sent) : sent[i] \in Message
      BY DEF Typed
    <3>2. QED
      BY <3>1 DEF Message
  <2>4. body.line \in Nat
    BY DEF Typed, Body
  <2>5. ASSUME Ordered
        PROVE  Ordered'
    <3>1. \A i \in 1 .. Len(queue') :
             \/ i \in 1 .. Len(queue) /\ queue'[i] = queue[i] /\ queue'[i] \in Nat
             \/ /\ Len(queue) < i /\ queue'[i] = count.lines + (i - Len(queue))
                /\ i - Len(queue) \in 1 .. k
      <4>1. ASSUME NEW i \in 1 .. Len(queue'), Len(queue) < i
            PROVE  /\ i - Len(queue) \in 1 .. k
                   /\ queue'[i] = count.lines + (i - Len(queue))
        <5>1. i - Len(queue) \in 1 .. k /\ Len(queue) + (i - Len(queue)) = i
          BY <2>2, <4>1
        <5>2. QED
          BY <2>2, <5>1
      <4>2. QED
        BY <2>2, <4>1
    <3>2. \A i \in 1 .. Len(queue) : queue[i] <= count.lines
      BY <2>5 DEF Ordered
    <3>3. ASSUME NEW i \in 1 .. Len(queue'), NEW j \in 1 .. Len(queue'), i < j
          PROVE  queue'[i] < queue'[j]
      <4>1. CASE j <= Len(queue)
        <5>1. i \in 1 .. Len(queue) /\ j \in 1 .. Len(queue)
          BY <2>2, <3>3, <4>1
        <5>2. queue[i] < queue[j]
          BY <2>5, <3>3, <5>1 DEF Ordered
        <5>3. QED
          BY <2>2, <5>1, <5>2
      <4>2. CASE Len(queue) < j
        <5>1. queue'[j] = count.lines + (j - Len(queue)) /\ j - Len(queue) \in 1 .. k
          BY <3>1, <4>2
        <5>2. CASE i <= Len(queue)
          <6>1. i \in 1 .. Len(queue)
            BY <2>2, <5>2
          <6>2. queue'[i] = queue[i] /\ queue[i] \in Nat /\ queue[i] <= count.lines
            BY <2>2, <3>2, <6>1
          <6>3. QED
            BY <2>2, <5>1, <6>2
        <5>3. CASE Len(queue) < i
          <6>1. queue'[i] = count.lines + (i - Len(queue))
            BY <3>1, <5>3
          <6>2. QED
            BY <2>2, <3>3, <5>1, <6>1
        <5>4. QED
          BY <2>2, <5>2, <5>3
      <4>3. QED
        BY <2>2, <4>1, <4>2
    <3>4. ASSUME NEW i \in 1 .. Len(queue')
          PROVE  queue'[i] <= count'.lines
      BY <2>2, <3>1, <3>2
    <3>5. ASSUME NEW x \in Nat, x <= count.lines,
                 \A j \in 1 .. Len(queue) : x < queue[j]
          PROVE  x <= count'.lines /\ \A j \in 1 .. Len(queue') : x < queue'[j]
      <4>1. ASSUME NEW j \in 1 .. Len(queue')
            PROVE  x < queue'[j]
        <5>1. CASE j \in 1 .. Len(queue) /\ queue'[j] = queue[j]
          BY <3>5, <5>1
        <5>2. CASE queue'[j] = count.lines + (j - Len(queue)) /\ j - Len(queue) \in 1 .. k
          BY <2>2, <3>5, <5>2
        <5>3. QED
          BY <3>1, <5>1, <5>2
      <4>2. QED
        BY <2>2, <3>5, <4>1
    <3>6. \A i \in 1 .. Len(sent') :
              /\ sent'[i].line <= count'.lines
              /\ sender' # "get" => sent'[i].line < body'.line
              /\ \A j \in 1 .. Len(sent') : i < j => sent'[i].line < sent'[j].line
              /\ \A j \in 1 .. Len(queue') : sent'[i].line < queue'[j]
      BY <2>2, <2>3, <2>5, <3>5 DEF Ordered
    <3>7. sender' # "get" => /\ body'.line <= count'.lines
                             /\ \A j \in 1 .. Len(queue') : body'.line < queue'[j]
      BY <2>2, <2>4, <2>5, <3>5 DEF Ordered
    <3>8. QED
      BY <2>2, <2>5, <3>3, <3>4, <3>6, <3>7 DEF Ordered
  <2>6. QED
    BY <2>2, <2>5 DEF OrderInv
<1>7. CASE Requeue
  BY <1>7 DEF Requeue, OrderInv, Ordered
<1>8. CASE Share
  <2>1. PICK devices \in SUBSET Device, next \in {"flush", "send"}, ok \in BOOLEAN :
             ShareWith(devices, next, ok)
    BY <1>8, Shared
  <2>2. /\ Len(queue) > 0 /\ Len(queue') = Len(queue) - 1
        /\ \A i \in 1 .. Len(queue') : queue'[i] = queue[i + 1]
        /\ UNCHANGED <<room, sent, absent, count>>
    <3>1. Len(queue) > 0 /\ Len(queue') = Len(queue) - 1
      BY <2>1, Sharing
    <3>2. \A i \in 1 .. Len(queue') : queue'[i] = queue[i + 1]
      BY <2>1, Sharing
    <3>3. UNCHANGED <<room, sent, absent, count>>
      BY <2>1, Sharing
    <3>4. QED
      BY <3>1, <3>2, <3>3
  <2>3. body'.line = queue[1]
    <3>1. body' = [line |-> queue[1], to |-> olm, ok |-> ok]
      BY <2>1, Sharing
    <3>2. QED
      BY <3>1
  <2>4. Len(queue) \in Nat
    BY DEF Typed
  <2>5. QED
    BY <2>2, <2>3, <2>4 DEF OrderInv, Ordered, room
<1>9. CASE FlushNow
  <2>1. body'.line = body.line
    BY <1>9 DEF FlushNow, Typed, Body
  <2>2. QED
    BY <1>9, <2>1 DEF FlushNow, room, OrderInv, Ordered
<1>10. CASE FlushSync
  BY <1>10, OrderKept DEF FlushSync, room, sending
<1>11. CASE Send
  <2>1. /\ sender = "send" /\ sender' = "get"
        /\ UNCHANGED <<phase, joined, queue, absent, count>> /\ Len(sent) \in Nat
        /\ \/ sent' = sent
           \/ /\ Len(sent') = Len(sent) + 1 /\ sent'[Len(sent) + 1].line = body.line
              /\ \A i \in 1 .. Len(sent) : sent'[i] = sent[i]
    BY <1>11, Sending DEF room, Sent, Typed
  <2>2. QED
    BY <2>1 DEF OrderInv, Ordered
<1>12. ASSUME NEW d \in Device, OlmSession(d)
       PROVE  OrderInv'
  BY <1>12, OrderKept DEF OlmSession, room, sending
<1>13. ASSUME NEW d \in Device, NEW s \in 0 .. Unknown, Request(d, s)
       PROVE  OrderInv'
  BY <1>13, OrderKept, Counted DEF Request, room, sending
<1>14. CASE Sweep
  BY <1>14, OrderKept DEF Sweep, SweepWith, room, sending
<1>15. QED
  BY <1>1, <1>2, <1>3, <1>4, <1>5, <1>6, <1>7, <1>8, <1>9, <1>10, <1>11, <1>12, <1>13,
     <1>14 DEF Next, Runner

\* As long as the room is not left under a running sender its lines are sent in the
\* order they came in.
THEOREM SentInOrder == Spec => []OrderUnlessAbsent
<1>1. Init => OrderInv
  BY DEF Init, OrderInv, Ordered
<1>2. OrderInv => OrderUnlessAbsent
  BY DEF OrderInv, Ordered, OrderUnlessAbsent
<1>3. QED
  BY <1>1, <1>2, OrderStep, AlwaysTyped, PTL DEF Spec
-----------------------------------------------------------------------------
\* How often n is in a sequence, and what the steps of a queue make of it.
Often(s, n) == Cardinality({i \in 1 .. Len(s) : s[i] = n})

\* The places of a line in a queue are finitely many.
LEMMA OftenFinite ==
    ASSUME NEW s \in Seq(Nat), NEW n
    PROVE  IsFiniteSet({i \in 1 .. Len(s) : s[i] = n}) /\ Often(s, n) \in Nat
<1>1. Len(s) \in Nat
  OBVIOUS
<1>2. IsFiniteSet(1 .. Len(s))
  BY <1>1, FS_Interval
<1>3. IsFiniteSet({i \in 1 .. Len(s) : s[i] = n})
  BY <1>2, FS_Subset
<1>4. QED
  BY <1>3, FS_CardinalityType DEF Often

\* Appending a line makes it one more.
LEMMA OftenAppend ==
    ASSUME NEW s \in Seq(Nat), NEW x \in Nat, NEW n
    PROVE  Often(Append(s, x), n) = Often(s, n) + (IF x = n THEN 1 ELSE 0)
<1> DEFINE A == {i \in 1 .. Len(s) : s[i] = n}
           t == Append(s, x)
           B == {i \in 1 .. Len(t) : t[i] = n}
<1>1. /\ Len(t) = Len(s) + 1 /\ Len(s) \in Nat /\ t[Len(s) + 1] = x
      /\ \A i \in 1 .. Len(s) : t[i] = s[i]
  OBVIOUS
<1>2. IsFiniteSet(A) /\ Cardinality(A) \in Nat
  BY OftenFinite DEF Often
<1>3. B = IF x = n THEN A \cup {Len(s) + 1} ELSE A
  <2> HIDE DEF t
  <2>1. QED
    BY <1>1
<1>4. Len(s) + 1 \notin A
  BY <1>1
<1>5. Cardinality(A \cup {Len(s) + 1}) = Cardinality(A) + 1
  BY <1>2, <1>4, FS_AddElement
<1>6. Often(t, n) = Cardinality(B) /\ Often(s, n) = Cardinality(A)
  BY DEF Often
<1>7. QED
  <2> HIDE DEF A, B, t
  <2>1. CASE x = n
    BY <1>2, <1>3, <1>5, <1>6, <2>1 DEF t
  <2>2. CASE x # n
    BY <1>2, <1>3, <1>6, <2>2 DEF t
  <2>3. QED
    BY <2>1, <2>2

\* Taking the head makes it one less.
LEMMA OftenTail ==
    ASSUME NEW s \in Seq(Nat), s # <<>>, NEW n
    PROVE  Often(s, n) = Often(Tail(s), n) + (IF Head(s) = n THEN 1 ELSE 0)
<1> DEFINE t == Tail(s)
           A == {i \in 1 .. Len(t) : t[i] = n}
           B == {i \in 2 .. Len(s) : s[i] = n}
           f == [i \in A |-> i + 1]
<1>1. /\ t \in Seq(Nat) /\ Len(t) = Len(s) - 1 /\ Len(s) \in Nat \ {0} /\ Head(s) = s[1]
      /\ \A i \in 1 .. Len(t) : t[i] = s[i + 1]
  OBVIOUS
<1>2. IsFiniteSet(A) /\ Cardinality(A) \in Nat
  BY <1>1, OftenFinite DEF Often
<1> HIDE DEF t
<1>3. f \in [A -> B]
  <2>1. ASSUME NEW i \in A
        PROVE  i + 1 \in B
    <3>1. i \in 1 .. Len(t) /\ t[i] = n
      OBVIOUS
    <3>2. i + 1 \in 2 .. Len(s)
      BY <1>1, <3>1
    <3>3. s[i + 1] = n
      BY <1>1, <3>1
    <3>4. QED
      BY <3>2, <3>3
  <2> HIDE DEF A, B
  <2>2. QED
    BY <2>1
<1>4. \A i, j \in A : f[i] = f[j] => i = j
  BY <1>1
<1>5. \A k \in B : \E i \in A : f[i] = k
  <2>1. ASSUME NEW k \in B
        PROVE  k - 1 \in A /\ f[k - 1] = k
    BY <1>1, <2>1
  <2>2. QED
    BY <2>1
<1>6. f \in Bijection(A, B)
  <2> HIDE DEF f, A, B
  <2>1. QED
    BY <1>3, <1>4, <1>5 DEF Bijection, Injection, Surjection, IsInjective
<1>7. IsFiniteSet(B) /\ Cardinality(B) = Cardinality(A)
  BY <1>2, <1>6, FS_Bijection DEF ExistsBijection
<1>8. {i \in 1 .. Len(s) : s[i] = n} = IF Head(s) = n THEN B \cup {1} ELSE B
  BY <1>1
<1>9. Cardinality(B \cup {1}) = Cardinality(B) + 1
  <2>1. 1 \notin B
    BY <1>1
  <2>2. QED
    <3> HIDE DEF B
    <3>1. QED
      BY <1>7, <2>1, FS_AddElement, FS_CardinalityType
<1>10. Often(t, n) = Cardinality(A)
  BY DEF Often
<1>11. Often(s, n) = Cardinality(IF Head(s) = n THEN B \cup {1} ELSE B)
  BY <1>8 DEF Often
<1>12. QED
  <2> HIDE DEF A, B
  <2>1. CASE Head(s) = n
    BY <1>2, <1>7, <1>9, <1>10, <1>11, <2>1 DEF t
  <2>2. CASE Head(s) # n
    BY <1>2, <1>7, <1>10, <1>11, <2>2 DEF t
  <2>3. QED
    BY <2>1, <2>2

\* A line that is in a queue is there at least once.
LEMMA OftenIn ==
    ASSUME NEW s \in Seq(Nat), NEW n
    PROVE  n \in ToSet(s) <=> Often(s, n) # 0
<1>1. IsFiniteSet({i \in 1 .. Len(s) : s[i] = n})
  BY OftenFinite
<1>2. Often(s, n) = 0 <=> {i \in 1 .. Len(s) : s[i] = n} = {}
  BY <1>1, FS_EmptySet DEF Often
<1>3. QED
  BY <1>2 DEF ToSet

\* How often line n has been sent.
OftenSent(s, n) == Cardinality({i \in 1 .. Len(s) : s[i].line = n})

\* Sending a line makes it one more among those sent.
LEMMA OftenSentAppend ==
    ASSUME NEW s \in Seq(Message), NEW m \in Message, NEW n
    PROVE  /\ OftenSent(s, n) \in Nat
           /\ OftenSent(Append(s, m), n) = OftenSent(s, n) + (IF m.line = n THEN 1 ELSE 0)
<1> DEFINE A == {i \in 1 .. Len(s) : s[i].line = n}
           t == Append(s, m)
           B == {i \in 1 .. Len(t) : t[i].line = n}
<1>1. /\ Len(t) = Len(s) + 1 /\ Len(s) \in Nat /\ t[Len(s) + 1] = m
      /\ \A i \in 1 .. Len(s) : t[i] = s[i]
  OBVIOUS
<1>2. IsFiniteSet(A) /\ Cardinality(A) \in Nat
  <2>1. IsFiniteSet(1 .. Len(s))
    BY <1>1, FS_Interval
  <2>2. QED
    BY <2>1, FS_Subset, FS_CardinalityType
<1>3. B = IF m.line = n THEN A \cup {Len(s) + 1} ELSE A
  <2> HIDE DEF t
  <2>1. QED
    BY <1>1
<1>4. Cardinality(A \cup {Len(s) + 1}) = Cardinality(A) + 1
  <2>1. Len(s) + 1 \notin A
    BY <1>1
  <2>2. QED
    BY <1>2, <2>1, FS_AddElement
<1>5. OftenSent(t, n) = Cardinality(B) /\ OftenSent(s, n) = Cardinality(A)
  BY DEF OftenSent
<1>6. QED
  <2> HIDE DEF A, B, t
  <2>1. CASE m.line = n
    BY <1>2, <1>3, <1>4, <1>5, <2>1 DEF t
  <2>2. CASE m.line # n
    BY <1>2, <1>3, <1>5, <2>2 DEF t
  <2>3. QED
    BY <2>1, <2>2

\* A line is sent a natural number of times.
LEMMA SentOften == ASSUME Typed, NEW n PROVE OftenSent(sent, n) \in Nat
<1>1. [line |-> 0, session |-> 0, to |-> {}, ok |-> TRUE] \in Message
  BY DEF Message
<1>2. sent \in Seq(Message)
  BY DEF Typed
<1>3. QED
  BY <1>1, <1>2, OftenSentAppend

\* A line that is not among those sent has been sent no times.
LEMMA NotSentYet ==
    ASSUME NEW s \in Seq(Message), NEW n, \A i \in 1 .. Len(s) : s[i].line # n
    PROVE  OftenSent(s, n) = 0
<1>1. {i \in 1 .. Len(s) : s[i].line = n} = {}
  OBVIOUS
<1>2. QED
  BY <1>1, FS_EmptySet DEF OftenSent

\* One place only, or none.
LEMMA OneOrNone ==
    ASSUME NEW n, NEW S
    PROVE  Cardinality({n} \cap S) = IF n \in S THEN 1 ELSE 0
<1>1. CASE n \in S
  <2>1. {n} \cap S = {n}
    BY <1>1
  <2>2. QED
    BY <1>1, <2>1, FS_Singleton
<1>2. CASE n \notin S
  <2>1. {n} \cap S = {}
    BY <1>2
  <2>2. QED
    BY <1>2, <2>1, FS_EmptySet
<1>3. QED
  BY <1>1, <1>2

\* Where line n is: queued, sent, given up or in the sender's hands.
Places(q, s, l, b, n) ==
    Often(q, n) + OftenSent(s, n) + (IF n \in l THEN 1 ELSE 0) + (IF n = b THEN 1 ELSE 0)

\* Every line there has been is in one place, and no other is anywhere.
PlaceInv ==
    /\ \A n \in 1 .. count.lines : Places(queue, sent, lost, body.line, n) = 1
    /\ lost \subseteq 1 .. count.lines
    /\ body.line \in 0 .. count.lines /\ (sender = "get" <=> body.line = 0)
    /\ \A i \in 1 .. Len(queue) : queue[i] \in 1 .. count.lines
    /\ \A i \in 1 .. Len(sent) : sent[i].line \in 1 .. count.lines

\* What is counted is what EachLineOnce says.
LEMMA PlacesOnce == Typed => (PlaceInv => EachLineOnce)
<1> SUFFICES ASSUME Typed, PlaceInv, NEW n \in 1 .. count.lines
             PROVE  Cardinality({i \in 1 .. Len(queue) : queue[i] = n})
                      + Cardinality({i \in 1 .. Len(sent) : sent[i].line = n})
                      + Cardinality({n} \cap lost) + Cardinality({n} \cap {body.line}) = 1
  BY DEF EachLineOnce
<1>1. Places(queue, sent, lost, body.line, n) = 1
  BY DEF PlaceInv
<1>2. Cardinality({n} \cap lost) = IF n \in lost THEN 1 ELSE 0
  BY OneOrNone
<1>3. Cardinality({n} \cap {body.line}) = IF n = body.line THEN 1 ELSE 0
  BY OneOrNone
<1>4. QED
  BY <1>1, <1>2, <1>3 DEF Places, Often, OftenSent

\* A step that moves no line.
LEMMA PlacesKept ==
    ASSUME PlaceInv, queue' = queue, sent' = sent, lost' = lost, body'.line = body.line,
           sender' = "get" <=> sender = "get", count'.lines = count.lines
    PROVE  PlaceInv'
BY DEF PlaceInv, Places, Often, OftenSent

\* A restart loses what was queued or in hand, all of it.
LEMMA PlacesRestart == ASSUME Typed, PlaceInv, Restart PROVE PlaceInv'
<1>1. /\ lost' = lost \cup ToSet(queue) \cup ({body.line} \ {0}) /\ sent' = sent
      /\ queue' = <<>> /\ sender' = "get" /\ body'.line = 0 /\ count'.lines = count.lines
  BY Restarting DEF Restart, None
<1>2. queue \in Seq(Nat) /\ queue' \in Seq(Nat) /\ sent \in Seq(Message) /\ count.lines \in Nat
  BY <1>1 DEF Typed, Counts
<1>3. ASSUME NEW n \in 1 .. count.lines
      PROVE  Places(queue', sent', lost', body'.line, n) = 1
  <2>1. Often(queue', n) = 0
    <3>1. n \notin ToSet(queue')
      BY <1>1 DEF ToSet
    <3>2. QED
      BY <1>2, <3>1, OftenIn
  <2>2. n \in ToSet(queue) <=> Often(queue, n) # 0
    BY <1>2, OftenIn
  <2>3. Often(queue, n) \in Nat /\ OftenSent(sent, n) \in Nat
    <3>1. Often(queue, n) \in Nat
      BY <1>2, OftenFinite
    <3>2. QED
      BY <3>1, SentOften
  <2>4. Places(queue, sent, lost, body.line, n) = 1
    BY DEF PlaceInv
  <2>5. n \in lost' <=> n \in lost \/ n \in ToSet(queue) \/ n = body.line
    BY <1>1
  <2>6. QED
    BY <1>1, <2>1, <2>2, <2>3, <2>4, <2>5 DEF Places
<1>4. ToSet(queue) \subseteq 1 .. count.lines
  BY DEF ToSet, PlaceInv
<1>5. lost' \subseteq 1 .. count.lines
  <2>1. {body.line} \ {0} \subseteq 1 .. count.lines
    BY <1>2 DEF PlaceInv
  <2>2. lost \subseteq 1 .. count.lines
    BY DEF PlaceInv
  <2>3. QED
    BY <1>1, <1>4, <2>1, <2>2
<1>6. Len(queue') = 0
  BY <1>1
<1>7. \A n \in 1 .. count'.lines : Places(queue', sent', lost', body'.line, n) = 1
  <2>1. count'.lines = count.lines
    BY <1>1
  <2>2. QED
    BY <1>3, <2>1
<1>8. body'.line \in 0 .. count'.lines /\ (sender' = "get" <=> body'.line = 0)
  BY <1>1, <1>2
<1>9. \A i \in 1 .. Len(queue') : queue'[i] \in 1 .. count'.lines
  BY <1>6
<1>10. \A i \in 1 .. Len(sent') : sent'[i].line \in 1 .. count'.lines
  <2>1. \A i \in 1 .. Len(sent) : sent[i].line \in 1 .. count.lines
    BY DEF PlaceInv
  <2>2. sent' = sent /\ count'.lines = count.lines
    BY <1>1
  <2>3. QED
    BY <2>1, <2>2
<1>11. lost' \subseteq 1 .. count'.lines
  BY <1>1, <1>5
<1>12. QED
  BY <1>7, <1>8, <1>9, <1>10, <1>11, Zenon DEF PlaceInv

\* Lines that come in are in the queue only.
LEMMA PlacesPut == ASSUME Typed, PlaceInv, Put PROVE PlaceInv'
<1>1. PICK k : Incoming(k)
  BY Putting
<1>2. /\ k \in Nat \ {0} /\ count.lines \in Nat /\ count'.lines = count.lines + k
      /\ queue \in Seq(Nat) /\ queue' \in Seq(Nat) /\ sent \in Seq(Message)
      /\ Len(queue) \in Nat /\ Len(queue') = Len(queue) + k
      /\ UNCHANGED <<sent, lost, body, sender>>
  BY <1>1 DEF Incoming, Typed
<1>3. \A i \in 1 .. Len(queue) : queue'[i] = queue[i] /\ queue[i] \in 1 .. count.lines
  BY <1>1 DEF Incoming, PlaceInv
<1>4. ASSUME NEW i \in 1 .. Len(queue'), i \notin 1 .. Len(queue)
      PROVE  i - Len(queue) \in 1 .. k /\ queue'[i] = count.lines + (i - Len(queue))
  <2>1. i - Len(queue) \in 1 .. k /\ Len(queue) + (i - Len(queue)) = i
    BY <1>2, <1>4
  <2>2. QED
    BY <1>1, <2>1 DEF Incoming
<1>5. 1 .. Len(queue) \subseteq 1 .. Len(queue')
  BY <1>2
<1>6. ASSUME NEW n \in 1 .. count'.lines
      PROVE  Places(queue', sent', lost', body'.line, n) = 1
  <2> DEFINE A == {i \in 1 .. Len(queue) : queue[i] = n}
             B == {i \in 1 .. Len(queue') : queue'[i] = n}
  <2>1. CASE n \in 1 .. count.lines
    <3>1. \A i \in 1 .. Len(queue') : i \notin 1 .. Len(queue) => queue'[i] # n
      BY <1>2, <1>4, <2>1
    <3>2. A = B
      BY <1>3, <1>5, <3>1
    <3>3. Often(queue', n) = Often(queue, n)
      BY <3>2 DEF Often
    <3>4. QED
      BY <1>2, <2>1, <3>3 DEF PlaceInv, Places
  <2>2. CASE n \notin 1 .. count.lines
    <3> DEFINE e == Len(queue) + (n - count.lines)
    <3>1. n - count.lines \in 1 .. k /\ count.lines + (n - count.lines) = n
      BY <1>2, <2>2
    <3>2. e \in 1 .. Len(queue') /\ queue'[e] = n
      <4>1. e \in 1 .. Len(queue') /\ e \notin 1 .. Len(queue) /\ e - Len(queue) = n - count.lines
        <5>1. \A q, r, m, f, l \in Nat : r \in 1 .. m /\ f = q + r /\ l = q + m =>
                  f \in 1 .. l /\ f \notin 1 .. q /\ f - q = r
          OBVIOUS
        <5>2. /\ Len(queue) \in Nat /\ n - count.lines \in Nat /\ k \in Nat /\ e \in Nat
              /\ Len(queue') \in Nat
              /\ e = Len(queue) + (n - count.lines) /\ Len(queue') = Len(queue) + k
          BY <1>2, <3>1
        <5> HIDE DEF e
        <5>3. QED
          BY <3>1, <5>1, <5>2, SMT
      <4>2. queue'[e] = count.lines + (n - count.lines)
        BY <1>4, <4>1
      <4>3. QED
        BY <3>1, <4>1, <4>2
    <3>3. ASSUME NEW i \in 1 .. Len(queue'), queue'[i] = n
          PROVE  i = e
      <4>1. i \notin 1 .. Len(queue)
        BY <1>3, <2>2, <3>3
      <4>2. QED
        BY <1>2, <1>4, <3>3, <4>1
    <3> HIDE DEF e
    <3>4. B = {e}
      BY <3>2, <3>3
    <3>5. Often(queue', n) = 1
      BY <3>4, FS_Singleton DEF Often
    <3>6. OftenSent(sent, n) = 0
      <4>1. \A i \in 1 .. Len(sent) : sent[i].line # n
        BY <2>2 DEF PlaceInv
      <4>2. QED
        BY <1>2, <4>1, NotSentYet
    <3>7. n \notin lost /\ n # body.line
      BY <1>2, <2>2 DEF PlaceInv
    <3>8. QED
      BY <1>2, <3>5, <3>6, <3>7 DEF Places
  <2>3. QED
    BY <2>1, <2>2
<1>7. ASSUME NEW i \in 1 .. Len(queue')
      PROVE  queue'[i] \in 1 .. count'.lines
  <2>1. CASE i \in 1 .. Len(queue)
    <3>1. queue'[i] \in 1 .. count.lines
      BY <1>3, <2>1
    <3>2. QED
      BY <1>2, <3>1
  <2>2. CASE i \notin 1 .. Len(queue)
    BY <1>2, <1>4, <2>2
  <2>3. QED
    BY <2>1, <2>2
<1>8. /\ lost' \subseteq 1 .. count'.lines /\ body'.line \in 0 .. count'.lines
      /\ \A i \in 1 .. Len(sent') : sent'[i].line \in 1 .. count'.lines
  BY <1>2 DEF PlaceInv
<1>9. sender' = "get" <=> body'.line = 0
  BY <1>2 DEF PlaceInv
<1>10. QED
  BY <1>6, <1>7, <1>8, <1>9 DEF PlaceInv

\* What the head of the queue leaves behind when it is taken.
LEMMA HeadTaken ==
    ASSUME Typed, PlaceInv, queue # <<>>
    PROVE  /\ Head(queue) \in 1 .. count.lines /\ Tail(queue) \in Seq(Nat)
           /\ \A i \in 1 .. Len(Tail(queue)) : Tail(queue)[i] \in 1 .. count.lines
           /\ \A n : /\ Often(Tail(queue), n) \in Nat
                     /\ Often(queue, n) = Often(Tail(queue), n)
                                           + (IF Head(queue) = n THEN 1 ELSE 0)
<1>1. queue \in Seq(Nat)
  BY DEF Typed
<1>2. /\ Head(queue) = queue[1] /\ Len(queue) \in Nat \ {0} /\ Len(Tail(queue)) = Len(queue) - 1
      /\ \A i \in 1 .. Len(Tail(queue)) : Tail(queue)[i] = queue[i + 1]
      /\ Tail(queue) \in Seq(Nat)
  BY <1>1
<1>3. \A n : Often(Tail(queue), n) \in Nat
  BY <1>2, OftenFinite
<1>4. \A n : Often(queue, n) = Often(Tail(queue), n) + (IF Head(queue) = n THEN 1 ELSE 0)
  BY <1>1, OftenTail
<1>5. \A i \in 1 .. Len(Tail(queue)) : Tail(queue)[i] \in 1 .. count.lines
  BY <1>2 DEF PlaceInv
<1>6. Head(queue) \in 1 .. count.lines
  BY <1>2 DEF PlaceInv
<1>7. QED
  BY <1>2, <1>3, <1>4, <1>5, <1>6

\* A line put back is in the queue again and no more in hand.
LEMMA PlacesRequeue == ASSUME Typed, PlaceInv, Requeue PROVE PlaceInv'
<1>1. /\ queue # <<>> /\ queue' = Append(Tail(queue), Head(queue))
      /\ UNCHANGED <<sent, lost, body, sender, count>> /\ count.lines \in Nat
  BY DEF Requeue, Typed, Counts
<1>2. ASSUME NEW n
      PROVE  Often(queue', n) = Often(queue, n)
  <2>1. Head(queue) \in Nat /\ Tail(queue) \in Seq(Nat)
    BY <1>1, HeadTaken
  <2>2. Often(queue', n) = Often(Tail(queue), n) + (IF Head(queue) = n THEN 1 ELSE 0)
    BY <1>1, <2>1, OftenAppend
  <2>3. QED
    BY <1>1, <2>2, HeadTaken
<1>3. \A i \in 1 .. Len(queue') : queue'[i] \in 1 .. count.lines
  <2>1. \A i \in 1 .. Len(queue') : \/ queue'[i] = Head(queue)
                                    \/ i \in 1 .. Len(Tail(queue)) /\ queue'[i] = Tail(queue)[i]
    BY <1>1, HeadTaken
  <2>2. QED
    BY <1>1, <2>1, HeadTaken
<1>4. QED
  BY <1>1, <1>2, <1>3 DEF PlaceInv, Places

\* The head of the queue goes into the sender's hand.
LEMMA PlacesShare == ASSUME Typed, PlaceInv, Share PROVE PlaceInv'
<1>1. PICK devices \in SUBSET Device, next \in {"flush", "send"}, ok \in BOOLEAN :
           ShareWith(devices, next, ok)
  BY Shared
<1>2. /\ queue # <<>> /\ queue' = Tail(queue) /\ sender = "get" /\ sender' = next
      /\ body' = [line |-> Head(queue), to |-> olm, ok |-> ok]
      /\ UNCHANGED <<sent, lost, count>>
  BY <1>1 DEF ShareWith
<1>3. body'.line = Head(queue) /\ body.line = 0 /\ count.lines \in Nat
  BY <1>2 DEF PlaceInv, Typed, Counts
<1>4. ASSUME NEW n \in 1 .. count.lines
      PROVE  Places(queue', sent', lost', body'.line, n) = 1
  <2>1. Places(queue, sent, lost, 0, n) = 1
    BY <1>3 DEF PlaceInv
  <2>2. Often(queue', n) \in Nat
        /\ Often(queue, n) = Often(queue', n) + (IF Head(queue) = n THEN 1 ELSE 0)
    BY <1>2, HeadTaken
  <2>3. n # 0 /\ OftenSent(sent, n) \in Nat
    BY <1>3, SentOften
  <2>4. sent' = sent /\ lost' = lost
    BY <1>2
  <2>5. QED
    BY <1>3, <2>1, <2>2, <2>3, <2>4 DEF Places
<1>5. QED
  BY <1>2, <1>3, <1>4, HeadTaken DEF PlaceInv

\* The line in hand is sent or given up.
LEMMA PlacesSend == ASSUME Typed, PlaceInv, Send PROVE PlaceInv'
<1>1. /\ sender = "send" /\ sender' = "get" /\ body'.line = 0 /\ body.line \in 1 .. count.lines
      /\ UNCHANGED <<queue, count>> /\ count.lines \in Nat /\ sent \in Seq(Message)
  BY DEF Send, Done, None, PlaceInv, Typed, Counts
<1>2. Sent \in Message /\ Sent.line = body.line
  BY DEF Sent, Message, Typed, Body
<1>3. CASE sent' = Append(sent, Sent) /\ lost' = lost
  <2>1. ASSUME NEW n \in 1 .. count.lines
        PROVE  Places(queue', sent', lost', body'.line, n) = 1
    <3>1. OftenSent(sent, n) \in Nat
          /\ OftenSent(sent', n) = OftenSent(sent, n) + (IF body.line = n THEN 1 ELSE 0)
      BY <1>1, <1>2, <1>3, OftenSentAppend
    <3>2. Places(queue, sent, lost, body.line, n) = 1
      BY DEF PlaceInv
    <3>3. Often(queue, n) \in Nat
      BY OftenFinite DEF Typed
    <3>4. QED
      BY <1>1, <1>3, <3>1, <3>2, <3>3 DEF Places
  <2>2. \A i \in 1 .. Len(sent') : sent'[i].line = body.line
                                   \/ (i \in 1 .. Len(sent) /\ sent'[i] = sent[i])
    BY <1>1, <1>2, <1>3
  <2>3. \A i \in 1 .. Len(sent') : sent'[i].line \in 1 .. count.lines
    BY <1>1, <2>2 DEF PlaceInv
  <2>4. QED
    BY <1>1, <1>3, <2>1, <2>3 DEF PlaceInv
<1>4. CASE sent' = sent /\ lost' = lost \cup {body.line}
  <2>1. ASSUME NEW n \in 1 .. count.lines
        PROVE  Places(queue', sent', lost', body'.line, n) = 1
    <3>1. OftenSent(sent, n) \in Nat
      BY SentOften
    <3>2. Places(queue, sent, lost, body.line, n) = 1
      BY DEF PlaceInv
    <3>3. Often(queue, n) \in Nat
      BY OftenFinite DEF Typed
    <3>4. QED
      BY <1>1, <1>4, <3>1, <3>2, <3>3 DEF Places
  <2>2. QED
    <3>1. lost' \subseteq 1 .. count.lines
      BY <1>1, <1>4 DEF PlaceInv
    <3>2. 0 \in 0 .. count.lines
      BY <1>1
    <3>3. QED
      BY <1>1, <1>4, <2>1, <3>1, <3>2 DEF PlaceInv
<1>5. QED
  BY <1>3, <1>4 DEF Send

\* Every step keeps each line in its one place.
LEMMA PlaceStep == Typed /\ PlaceInv /\ [Next]_vars => PlaceInv'
<1> SUFFICES ASSUME Typed, PlaceInv, [Next]_vars
             PROVE  PlaceInv'
  OBVIOUS
<1>1. CASE UNCHANGED vars
  BY <1>1, PlacesKept DEF vars, sending
<1>2. CASE Setup \/ Join \/ FlushSync \/ Sweep
  BY <1>2, PlacesKept DEF Setup, Join, FlushSync, Sweep, SweepWith, sending
<1>3. CASE Leave
  BY <1>3, PlacesKept, Counted DEF Leave
<1>4. CASE Run
  BY <1>4, PlacesKept, Running DEF sending
<1>5. CASE FlushNow
  <2>1. /\ body'.line = body.line /\ sender # "get" /\ sender' # "get"
        /\ UNCHANGED <<queue, sent, lost, count>>
    BY <1>5 DEF FlushNow, Typed, Body
  <2>2. QED
    BY <2>1, PlacesKept
<1>6. ASSUME NEW d \in Device, OlmSession(d)
      PROVE  PlaceInv'
  BY <1>6, PlacesKept DEF OlmSession, sending
<1>7. ASSUME NEW d \in Device, NEW s \in 0 .. Unknown, Request(d, s)
      PROVE  PlaceInv'
  BY <1>7, PlacesKept, Counted DEF Request, sending
<1>8. QED
  BY <1>1, <1>2, <1>3, <1>4, <1>5, <1>6, <1>7, PlacesRestart, PlacesPut, PlacesRequeue,
     PlacesShare, PlacesSend DEF Next, Runner

\* So it holds in every state.
LEMMA PlaceInitially == Init => PlaceInv
<1> SUFFICES ASSUME Init
             PROVE  PlaceInv
  OBVIOUS
<1>1. /\ count.lines = 0 /\ body.line = 0 /\ lost = {} /\ sender = "get"
      /\ Len(queue) = 0 /\ Len(sent) = 0
  BY DEF Init, None
<1>2. QED
  BY <1>1 DEF PlaceInv

LEMMA AlwaysPlaces == Spec => []PlaceInv
BY PlaceInitially, PlaceStep, AlwaysTyped, PTL DEF Spec

\* Each line is in exactly one place, whatever is requeued, fails or is restarted.
THEOREM LinesInOnePlace == Spec => []EachLineOnce
BY AlwaysPlaces, PlacesOnce, AlwaysTyped, PTL
-----------------------------------------------------------------------------
Less == {p \in Nat \X Nat : p[1] < p[2]}

\* Induction over the natural numbers, for a property given as a set.
LEMMA Induct ==
    ASSUME NEW T, 0 \in T, \A n \in Nat : n \in T => n + 1 \in T
    PROVE  \A n \in Nat : n \in T
<1> SUFFICES ASSUME NEW n \in Nat, n \notin T
             PROVE  FALSE
  OBVIOUS
<1> DEFINE Missing == Nat \ T
<1>1. IsWellFoundedOn(Less, Nat)
  BY NatLessThanWellFounded DEF OpToRel, Less
<1>2. Missing \subseteq Nat /\ n \in Missing
  OBVIOUS
<1>3. PICK m \in Missing : \A k \in Missing : <<k, m>> \notin Less
  <2> HIDE DEF Missing
  <2>1. QED
    BY <1>1, <1>2, WFMin
<1>4. m # 0 /\ m - 1 \in Nat
  OBVIOUS
<1>5. m - 1 \in Missing
  BY <1>4
<1>6. <<m - 1, m>> \in Less
  BY <1>4 DEF Less
<1>7. QED
  BY <1>3, <1>5, <1>6

\* Taking elements out of a sequence leaves a sequence of the others.
LEMMA WithoutSeq ==
    ASSUME NEW S, NEW s \in Seq(S), NEW set
    PROVE  Without(s, set) \in Seq(S \ set)
<1> DEFINE Next1(q, i) == IF s[i] \in set THEN q ELSE Append(q, s[i])
           Step(g, i) == IF i = 0 THEN <<>> ELSE Next1(g[i - 1], i)
           Upto(g, n) == g = [i \in 0 .. n |-> Step(g, i)]
           Exists == {n \in Nat : n <= Len(s) => \E g : Upto(g, n)}
           Kept == CHOOSE g : Upto(g, Len(s))
           Fits == {n \in Nat : n <= Len(s) => Kept[n] \in Seq(S \ set)}
<1>1. Len(s) \in Nat
  OBVIOUS
<1> HIDE DEF Next1
<1>2. 0 \in Exists
  <2>1. Upto([i \in 0 .. 0 |-> <<>>], 0)
    OBVIOUS
  <2>2. QED
    BY <2>1
<1>3. ASSUME NEW n \in Nat, n \in Exists
      PROVE  n + 1 \in Exists
  <2> SUFFICES ASSUME n + 1 <= Len(s)
               PROVE  \E g : Upto(g, n + 1)
    OBVIOUS
  <2>1. n <= Len(s)
    BY <1>1
  <2>2. PICK g : Upto(g, n)
    BY <1>3, <2>1
  <2> DEFINE h == [i \in 0 .. n + 1 |-> IF i = n + 1 THEN Next1(g[n], n + 1) ELSE g[i]]
  <2>3. ASSUME NEW i \in 0 .. n + 1
        PROVE  h[i] = Step(h, i)
    <3>1. CASE i = n + 1
      BY <3>1
    <3>2. CASE i # n + 1
      <4>1. i \in 0 .. n /\ h[i] = g[i] /\ (i # 0 => h[i - 1] = g[i - 1])
        BY <3>2
      <4>2. g[i] = Step(g, i)
        <5> HIDE DEF h, Step
        <5>1. QED
          BY <2>2, <4>1
      <4>3. QED
        <5> HIDE DEF h
        <5>1. QED
          BY <4>1, <4>2
    <3>3. QED
      BY <3>1, <3>2
  <2>4. Upto(h, n + 1)
    <3> HIDE DEF Step
    <3>1. QED
      BY <2>3
  <2>5. QED
    BY <2>4
<1>4. Len(s) \in Exists
  <2> HIDE DEF Exists
  <2>1. QED
    BY <1>1, <1>2, <1>3, Induct
<1>5. Upto(Kept, Len(s))
  <2>1. \E g : Upto(g, Len(s))
    BY <1>1, <1>4
  <2> HIDE DEF Upto
  <2>2. QED
    BY <2>1
<1>6. Without(s, set) = Kept[Len(s)]
  BY DEF Without, Next1
<1>7. ASSUME NEW i \in 0 .. Len(s)
      PROVE  Kept[i] = Step(Kept, i)
  <2> HIDE DEF Kept, Step
  <2>1. QED
    BY <1>5
<1> HIDE DEF Kept
<1>8. 0 \in Fits
  <2>1. 0 \in 0 .. Len(s)
    BY <1>1
  <2>2. Kept[0] = <<>>
    BY <1>7, <2>1
  <2>3. <<>> \in Seq(S \ set)
    OBVIOUS
  <2>4. QED
    BY <2>2, <2>3
<1>9. ASSUME NEW n \in Nat, n \in Fits
      PROVE  n + 1 \in Fits
  <2> SUFFICES ASSUME n + 1 <= Len(s)
               PROVE  Kept[n + 1] \in Seq(S \ set)
    OBVIOUS
  <2>1. n <= Len(s) /\ n + 1 \in 0 .. Len(s) /\ n + 1 # 0 /\ (n + 1) - 1 = n
    BY <1>1
  <2>2. Kept[n] \in Seq(S \ set)
    BY <1>9, <2>1
  <2>3. Kept[n + 1] = Next1(Kept[n], n + 1)
    BY <1>7, <2>1
  <2>4. s[n + 1] \in S
    BY <2>1
  <2>5. QED
    BY <2>2, <2>3, <2>4 DEF Next1
<1>10. Len(s) \in Fits
  <2> HIDE DEF Fits
  <2>1. QED
    BY <1>1, <1>8, <1>9, Induct
<1>11. QED
  BY <1>1, <1>6, <1>10
-----------------------------------------------------------------------------
\* A new session takes a line of its own, and keys, requests and messages are of
\* sessions there have been.
KeyTypes ==
    /\ outbox \subseteq [to : Device, session : 0 .. session]
    /\ requests \in Seq([to : Device, session : Session])
    /\ has \in [Device -> SUBSET (0 .. session)]
    /\ \A i \in 1 .. Len(sent) : sent[i].session \in 1 .. session

SessionInv ==
    /\ phase \in {"setup", "waiting", "running", "dead"}
    /\ known \in BOOLEAN /\ marked \in BOOLEAN /\ marker \in BOOLEAN
    /\ sender # "get" => session # 0
    /\ session + Len(queue) <= count.lines /\ count.lines <= MaxMsg
    /\ KeyTypes

\* No line and no session at the start.
LEMMA SessionInitially == Init => SessionInv
<1> SUFFICES ASSUME Init
             PROVE  SessionInv
  OBVIOUS
<1>1. requests \in Seq([to : Device, session : Session])
  BY DEF Init
<1>2. has \in [Device -> SUBSET (0 .. session)]
  BY DEF Init
<1>3. Len(queue) = 0 /\ Len(sent) = 0 /\ count.lines = 0 /\ session = 0 /\ outbox = {}
  BY DEF Init
<1>4. KeyTypes
  BY <1>1, <1>2, <1>3 DEF KeyTypes
<1>5. session + Len(queue) <= count.lines /\ count.lines <= MaxMsg
  BY <1>3
<1>6. /\ phase = "setup" /\ known = FALSE /\ marked = FALSE /\ marker = FALSE
      /\ sender = "get"
  BY DEF Init
<1>7. QED
  BY <1>4, <1>5, <1>6 DEF SessionInv

\* A step that makes no session and moves no line, and puts only keys of sessions
\* there have been into the outbox.
LEMMA SessionKept ==
    ASSUME SessionInv, UNCHANGED <<sender, queue, session, sent>>, count'.lines = count.lines,
           phase' \in {"setup", "waiting", "running", "dead"},
           known' \in BOOLEAN, marked' \in BOOLEAN, marker' \in BOOLEAN,
           outbox' \subseteq [to : Device, session : 0 .. session],
           requests' \in Seq([to : Device, session : Session]),
           has' \in [Device -> SUBSET (0 .. session)]
    PROVE  SessionInv'
BY DEF SessionInv, KeyTypes, Session

\* Deliveries move keys from the outbox to the devices.
LEMMA DeliveredTypes ==
    ASSUME SessionInv, NEW batch \in SUBSET outbox, Deliver(batch)
    PROVE  /\ outbox' \subseteq [to : Device, session : 0 .. session]
           /\ has' \in [Device -> SUBSET (0 .. session)]
<1>1. outbox' \subseteq [to : Device, session : 0 .. session]
  BY DEF Deliver, SessionInv, KeyTypes
<1>2. ASSUME NEW d \in Device
      PROVE  has[d] \cup {k.session : k \in {b \in batch : b.to = d}} \in SUBSET (0 .. session)
  BY DEF SessionInv, KeyTypes
<1>3. QED
  BY <1>1, <1>2 DEF Deliver

\* A sweep answers with keys of sessions there have been.
LEMMA AnsweredTypes ==
    ASSUME SessionInv
    PROVE  Answered \subseteq [to : Device, session : 0 .. session]
<1> SUFFICES ASSUME NEW r \in Answered
             PROVE  r \in [to : Device, session : 0 .. session]
  OBVIOUS
<1>1. PICK i \in 1 .. Len(requests) : r = requests[i] /\ Answerable(requests[i])
  BY DEF Answered
<1>2. r \in [to : Device, session : Session]
  <2> DEFINE R == [to : Device, session : Session]
  <2>1. requests \in Seq(R)
    BY DEF SessionInv, KeyTypes
  <2> HIDE DEF R
  <2>2. r \in R
    BY <1>1, <2>1
  <2>3. QED
    BY <2>2 DEF R
<1>3. r.session <= session
  BY <1>1 DEF Answerable
<1>4. QED
  BY <1>2, <1>3 DEF Session

\* A pipe that starts begins no session.
LEMMA SessionRun == ASSUME Typed, SessionInv, Run PROVE SessionInv'
<1>1. /\ UNCHANGED <<sender, queue, session, sent, known, marked, requests, has>>
      /\ phase' \in {"running", "dead"} /\ marker' \in BOOLEAN
  BY DEF Run, ForwardTo, sending, Mark, SessionInv
<1>2. count'.lines = count.lines
  BY Running
<1>3. PICK devices \in SUBSET Device : ForwardTo(devices)
  <2>1. Forwardable \subseteq Device
    BY DEF Forwardable, Typed
  <2>2. QED
    BY <2>1 DEF Run
<1>4. outbox' \subseteq [to : Device, session : 0 .. session]
  <2>1. \A d \in devices : Key(d, 0) \in [to : Device, session : 0 .. session]
    BY DEF Key, Typed
  <2>2. QED
    BY <1>3, <2>1 DEF ForwardTo, SessionInv, KeyTypes
<1>5. QED
  BY <1>1, <1>2, <1>4, SessionKept DEF SessionInv, KeyTypes

\* A restart keeps the sessions there have been; the next line begins another.
LEMMA SessionRestart == ASSUME Typed, SessionInv, Restart PROVE SessionInv'
<1>1. /\ phase' = "setup" /\ known' = FALSE /\ marked' = TRUE /\ Len(queue') = 0
      /\ sender' = "get" /\ outbox' = {} /\ requests' = <<>>
      /\ UNCHANGED <<sent, session, has, marker>>
  BY DEF Restart
<1>2. count'.lines = count.lines
  BY Restarting
<1>3. session + Len(queue') <= count.lines
  <2>1. session \in Nat /\ Len(queue) \in Nat /\ count.lines \in Nat
    BY DEF Typed, Counts
  <2>2. QED
    BY <1>1, <2>1 DEF SessionInv
<1>4. requests' \in Seq([to : Device, session : Session'])
  BY <1>1
<1>5. KeyTypes'
  BY <1>1, <1>4 DEF SessionInv, KeyTypes
<1>6. QED
  BY <1>1, <1>2, <1>3, <1>5 DEF SessionInv

\* Lines that come in are so many more for sessions to come.
LEMMA SessionPut == ASSUME Typed, SessionInv, Put PROVE SessionInv'
<1>1. PICK k : Incoming(k)
  BY Putting
<1>2. session \in Nat /\ session' = session
  BY <1>1 DEF Incoming, Typed
<1>3. session' + Len(queue') <= count'.lines /\ count'.lines <= MaxMsg
  BY <1>1, <1>2 DEF Incoming, SessionInv
<1>4. UNCHANGED <<phase, known, sender, sent, session, marked, outbox, requests, has, marker>>
  BY <1>1 DEF Incoming
<1>5. QED
  BY <1>3, <1>4 DEF SessionInv, KeyTypes, Session

\* A line put back leaves the queue as long as it was.
LEMMA SessionRequeue == ASSUME Typed, SessionInv, Requeue PROVE SessionInv'
<1>1. /\ queue # <<>> /\ queue' = Append(Tail(queue), Head(queue))
      /\ UNCHANGED <<phase, known, sender, sent, session, marked, outbox, requests, has, marker,
                     count>>
  BY DEF Requeue, room, keys
<1>2. Len(queue') = Len(queue)
  BY <1>1 DEF Typed
<1>3. QED
  BY <1>1, <1>2 DEF SessionInv, KeyTypes, Session

\* A sharing begins a session at most, and takes a line for it from the queue.
LEMMA SessionShare == ASSUME Typed, SessionInv, Share PROVE SessionInv'
<1>1. PICK devices \in SUBSET Device, next \in {"flush", "send"}, ok \in BOOLEAN :
          ShareWith(devices, next, ok)
  BY Shared
<1>2. /\ Len(queue') = Len(queue) - 1 /\ sender' = next
      /\ UNCHANGED <<phase, known, sent, has, marker, count>>
  BY <1>1, Sharing DEF room
<1>3. /\ session' = Rotated /\ marked' = FALSE /\ UNCHANGED requests
      /\ outbox' = outbox \cup {Key(d, Rotated) : d \in devices}
  BY <1>1 DEF ShareWith
<1>4. session \in Nat /\ Len(queue) \in Nat /\ count.lines \in Nat
  BY DEF Typed, Counts
<1>5. session' \in Nat /\ session <= session' /\ session' <= session + 1 /\ session' # 0
  BY <1>3, <1>4 DEF Rotated
<1>6. session' + Len(queue') <= count'.lines /\ count'.lines <= MaxMsg
  BY <1>2, <1>4, <1>5 DEF SessionInv
<1>7. 0 .. session \subseteq 0 .. session' /\ 1 .. session \subseteq 1 .. session'
  BY <1>4, <1>5
<1>8. outbox' \subseteq [to : Device, session : 0 .. session']
  <2>1. outbox \subseteq [to : Device, session : 0 .. session']
    BY <1>7 DEF SessionInv, KeyTypes
  <2>2. \A d \in devices : Key(d, session') \in [to : Device, session : 0 .. session']
    BY <1>5 DEF Key
  <2>3. QED
    BY <1>3, <2>1, <2>2
<1>9. has' \in [Device -> SUBSET (0 .. session')]
  BY <1>2, <1>7 DEF SessionInv, KeyTypes
<1>10. KeyTypes'
  BY <1>2, <1>3, <1>7, <1>8, <1>9 DEF SessionInv, KeyTypes, Session
<1>11. QED
  BY <1>2, <1>3, <1>5, <1>6, <1>10 DEF SessionInv

\* Sending, or giving up, takes no line from the queue and begins no session.
LEMMA SessionSend == ASSUME Typed, SessionInv, Send PROVE SessionInv'
<1>1. /\ sender = "send" /\ sender' = "get"
      /\ UNCHANGED <<phase, known, queue, session, outbox, requests, has, marker, count>>
  BY DEF Send, Done, room
<1>2. marked' \in BOOLEAN
  BY DEF Send, SessionInv
<1>3. \A i \in 1 .. Len(sent') : sent'[i].session \in 1 .. session
  <2>1. \/ sent' = sent
        \/ /\ Len(sent') = Len(sent) + 1 /\ sent'[Len(sent) + 1] = Sent
           /\ \A i \in 1 .. Len(sent) : sent'[i] = sent[i]
    BY Sending
  <2>2. session \in Nat /\ Sent.session \in 1 .. session
    BY <1>1 DEF Sent, SessionInv, Typed
  <2>3. Len(sent) \in Nat
    BY DEF Typed
  <2>4. QED
    BY <2>1, <2>2, <2>3 DEF SessionInv, KeyTypes
<1>4. KeyTypes'
  BY <1>1, <1>3 DEF SessionInv, KeyTypes, Session
<1>5. QED
  BY <1>1, <1>2, <1>4 DEF SessionInv

\* Every step keeps the sessions.
LEMMA SessionStep == Typed /\ SessionInv /\ [Next]_vars => SessionInv'
<1> SUFFICES ASSUME Typed, SessionInv, [Next]_vars
             PROVE  SessionInv'
  OBVIOUS
<1>1. CASE UNCHANGED vars
  BY <1>1, SessionKept DEF vars, room, sending, keys, SessionInv, KeyTypes
<1>2. CASE Setup \/ Join
  BY <1>2, SessionKept DEF Setup, Join, sending, keys, SessionInv, KeyTypes
<1>3. CASE Leave
  BY <1>3, SessionKept, Counted DEF Leave, keys, SessionInv, KeyTypes
<1>4. CASE FlushNow
  <2>1. PICK batch \in SUBSET outbox : Deliver(batch)
    BY <1>4 DEF FlushNow
  <2>2. /\ sender = "flush" /\ sender' = "send"
        /\ UNCHANGED <<phase, known, queue, sent, session, marked, requests, marker, count>>
    BY <1>4 DEF FlushNow, room
  <2>3. KeyTypes'
    BY <2>1, <2>2, DeliveredTypes DEF SessionInv, KeyTypes, Session
  <2>4. QED
    BY <2>2, <2>3 DEF SessionInv
<1>5. CASE FlushSync
  <2>1. PICK batch \in SUBSET outbox : Deliver(batch)
    BY <1>5 DEF FlushSync
  <2>2. QED
    BY <1>5, <2>1, DeliveredTypes, SessionKept
       DEF FlushSync, room, sending, SessionInv, KeyTypes
<1>6. ASSUME NEW d \in Device, OlmSession(d)
      PROVE  SessionInv'
  BY <1>6, SessionKept DEF OlmSession, room, sending, SessionInv, KeyTypes
<1>7. ASSUME NEW d \in Device, NEW s \in 0 .. Unknown, Request(d, s)
      PROVE  SessionInv'
  <2>1. requests' \in Seq([to : Device, session : Session])
    <3>1. Key(d, s) \in [to : Device, session : Session]
      BY DEF Key, Session
    <3>2. QED
      BY <1>7, <3>1 DEF Request, SessionInv, KeyTypes
  <2>2. count'.lines = count.lines
    BY <1>7, Counted DEF Request
  <2>3. QED
    BY <1>7, <2>1, <2>2, SessionKept DEF Request, room, sending, SessionInv, KeyTypes
<1>8. CASE Sweep
  <2> DEFINE R == [to : Device, session : Session]
  <2>1. /\ outbox' = outbox \cup Answered
        /\ UNCHANGED <<phase, known, sender, queue, sent, session, marked, has, marker, count>>
    BY <1>8 DEF Sweep, SweepWith, room, sending
  <2>2. outbox' \subseteq [to : Device, session : 0 .. session]
    BY <2>1, AnsweredTypes DEF SessionInv, KeyTypes
  <2>3. requests' \in Seq(R)
    <3>1. requests \in Seq(R)
      BY DEF SessionInv, KeyTypes
    <3> HIDE DEF R
    <3>2. Without(requests, Answered) \in Seq(R \ Answered)
      BY <3>1, WithoutSeq
    <3>3. Without(requests, Answered) \in Seq(R)
      BY <3>2
    <3>4. QED
      BY <1>8, <3>1, <3>3 DEF Sweep, SweepWith
  <2>4. QED
    BY <2>1, <2>2, <2>3, SessionKept DEF SessionInv, KeyTypes
<1>9. QED
  BY <1>1, <1>2, <1>3, <1>4, <1>5, <1>6, <1>7, <1>8, SessionRun, SessionRestart, SessionPut,
     SessionRequeue, SessionShare, SessionSend DEF Next, Runner

\* What the invariants say of sessions and lines is what TypeOK says.
LEMMA TypesHold == Typed /\ PlaceInv /\ SessionInv => TypeOK
<1> SUFFICES ASSUME Typed, PlaceInv, SessionInv
             PROVE  TypeOK
  OBVIOUS
<1>1. session \in Nat /\ Len(queue) \in Nat /\ count.lines \in Nat /\ MaxMsg \in Nat
  BY DEF Typed, Counts
<1>2. count.lines <= MaxMsg /\ session + Len(queue) <= count.lines
  BY DEF SessionInv
<1>3. session \in 0 .. MaxMsg
  BY <1>1, <1>2
<1>4. 1 .. count.lines \subseteq LineNumber
  BY <1>1, <1>2 DEF LineNumber
<1>5. queue \in Seq(LineNumber)
  <2>1. \A i \in 1 .. Len(queue) : queue[i] \in LineNumber
    BY <1>4 DEF PlaceInv
  <2>2. queue \in Seq(Nat)
    BY DEF Typed
  <2>3. QED
    BY <2>1, <2>2
<1>6. sender # "get" <=> body.line \in LineNumber
  <2>1. body.line \in 0 .. count.lines /\ (sender = "get" <=> body.line = 0)
    BY DEF PlaceInv
  <2>2. QED
    BY <1>1, <1>2, <2>1 DEF LineNumber
<1>7. lost \subseteq LineNumber
  BY <1>4 DEF PlaceInv
<1>8. QED
  BY <1>3, <1>5, <1>6, <1>7 DEF TypeOK, Typed, SessionInv, KeyTypes

\* However often the process is restarted: a message is encrypted with a session the
\* runner has made, keys are of such sessions or the history, and there is never a
\* session more than there are lines.
THEOREM TypeCorrect == Spec => []TypeOK
<1>1. Typed /\ SessionInv /\ [Next]_vars => SessionInv'
  BY SessionStep
<1>2. QED
  BY <1>1, SessionInitially, AlwaysTyped, AlwaysPlaces, TypesHold, PTL DEF Spec
-----------------------------------------------------------------------------
\* A line is sent once at most.
LEMMA SentOnce == ASSUME Typed, PlaceInv PROVE Channel!Once(SentLines)
<1> SUFFICES ASSUME NEW i \in 1 .. Len(sent), NEW j \in 1 .. Len(sent),
                    sent[i].line = sent[j].line
             PROVE  i = j
  BY DEF Channel!Once, SentLines, Typed
<1> DEFINE n == sent[i].line
           S == {x \in 1 .. Len(sent) : sent[x].line = n}
<1>1. n \in 1 .. count.lines
  BY DEF PlaceInv
<1>2. Places(queue, sent, lost, body.line, n) = 1
  BY <1>1 DEF PlaceInv
<1>3. Often(queue, n) \in Nat /\ Cardinality(S) \in Nat
  BY OftenFinite, SentOften DEF Typed, OftenSent
<1>4. Cardinality(S) \in {0, 1}
  BY <1>2, <1>3 DEF Places, OftenSent
<1>5. IsFiniteSet(S) /\ i \in S /\ j \in S
  <2>1. IsFiniteSet(1 .. Len(sent))
    BY FS_Interval DEF Typed
  <2>2. QED
    BY <2>1, FS_Subset
<1> HIDE DEF S
<1>6. Cardinality(S) = 1
  BY <1>4, <1>5, FS_EmptySet
<1>7. PICK x : S = {x}
  BY <1>5, <1>6, FS_Singleton
<1>8. QED
  BY <1>5, <1>7

\* The steps that bring no line in.
NoLine == \/ Runner \/ Join \/ Leave \/ Restart \/ FlushSync
          \/ \E d \in Device : OlmSession(d) \/ \E s \in 0 .. Unknown : Request(d, s)
          \/ UNCHANGED vars

\* Of those only Send and Leave change what the channel shows.
LEMMA ChannelMoves ==
    ASSUME Typed, NoLine
    PROVE  count'.lines = count.lines /\ (UNCHANGED <<sent, absent>> \/ Leave \/ Send)
<1>1. CASE Setup \/ Join \/ FlushSync \/ Sweep \/ \E d \in Device : OlmSession(d)
  BY <1>1 DEF Setup, Join, FlushSync, Sweep, SweepWith, OlmSession, sending
<1>2. CASE Run
  BY <1>2, Running DEF sending
<1>3. CASE Requeue \/ FlushNow
  BY <1>3 DEF Requeue, FlushNow
<1>4. CASE Share
  BY <1>4, Shared, Sharing
<1>5. CASE Restart
  BY <1>5, Restarting DEF Restart
<1>6. CASE \E d \in Device, s \in 0 .. Unknown : Request(d, s)
  BY <1>6, Counted DEF Request, sending
<1>7. CASE UNCHANGED vars
  BY <1>7 DEF vars, sending
<1>8. CASE Leave
  BY <1>8, Counted DEF Leave
<1>9. CASE Send
  BY <1>9, Sending
<1>10. QED
  BY <1>1, <1>2, <1>3, <1>4, <1>5, <1>6, <1>7, <1>8, <1>9 DEF NoLine, Runner

\* A line that goes out, if it does, is behind those that went before it.
LEMMA ChannelSend ==
    ASSUME Typed, Typed', PlaceInv, PlaceInv', OrderInv', Send
    PROVE  UNCHANGED SentLines \/ Channel!Deliver
<1>1. /\ UNCHANGED <<absent, count>> /\ count.lines \in Nat
      /\ sent \in Seq(Message) /\ sent' \in Seq(Message)
      /\ \/ sent' = sent
         \/ /\ Len(sent') = Len(sent) + 1
            /\ \A i \in 1 .. Len(sent) : sent'[i] = sent[i]
  BY Sending DEF Typed, Counts
<1>2. CASE sent' = sent
  BY <1>2 DEF SentLines
<1>3. CASE Len(sent') = Len(sent) + 1 /\ \A i \in 1 .. Len(sent) : sent'[i] = sent[i]
  <2>1. Channel!Extends(SentLines', SentLines)
    BY <1>1, <1>3 DEF SentLines, Channel!Extends
  <2>2. \A i \in 1 .. Len(SentLines') : SentLines'[i] \in 1 .. count.lines
    BY <1>1 DEF PlaceInv, SentLines
  <2>3. Channel!Once(SentLines)'
    BY SentOnce, PTL
  <2>4. ~absent => Channel!Ascending(SentLines')
    BY <1>1 DEF OrderInv, Ordered, SentLines, Channel!Ascending
  <2>5. QED
    BY <1>1, <2>1, <2>2, <2>3, <2>4 DEF Channel!Deliver, Channel!Once
<1>4. QED
  BY <1>1, <1>2, <1>3

\* Every step of the pipe is one of the channel, or none.
LEMMA ChannelStep ==
    ASSUME Typed, Typed', PlaceInv, PlaceInv', OrderInv', [Next]_vars
    PROVE  [Channel!Next]_<<1 .. count.lines, SentLines, ~absent>>
<1>1. CASE UNCHANGED <<sent, absent>> /\ NoLine
  BY <1>1, ChannelMoves DEF SentLines
<1>2. CASE Leave
  <2>1. UNCHANGED <<sent>> /\ count'.lines = count.lines
    BY <1>2, Counted DEF Leave
  <2>2. UNCHANGED SentLines
    BY <2>1 DEF SentLines
  <2>3. absent' = absent \/ absent' = TRUE
    BY <1>2 DEF Leave, Typed
  <2>4. CASE absent' = absent
    BY <2>1, <2>2, <2>4
  <2>5. CASE absent' = TRUE
    <3>1. Channel!LoseOrder
      BY <2>1, <2>2, <2>5 DEF Channel!LoseOrder
    <3>2. QED
      BY <3>1 DEF Channel!Next
  <2>6. QED
    BY <2>3, <2>4, <2>5
<1>3. CASE Put
  <2>1. /\ UNCHANGED <<sent, absent>> /\ count.lines \in Nat /\ count'.lines \in Nat
        /\ count.lines <= count'.lines
    <3>1. PICK k : Incoming(k)
      BY <1>3, Putting
    <3>2. QED
      BY <3>1 DEF Incoming
  <2>2. /\ 1 .. count.lines \subseteq 1 .. count'.lines
        /\ \A n \in (1 .. count'.lines) \ (1 .. count.lines), a \in 1 .. count.lines : a < n
    BY <2>1
  <2>3. UNCHANGED SentLines
    BY <2>1 DEF SentLines
  <2>4. Channel!Accept
    BY <2>1, <2>2, <2>3 DEF Channel!Accept
  <2>5. QED
    BY <2>4 DEF Channel!Next
<1>4. CASE Send
  <2>1. UNCHANGED <<absent, count>>
    BY <1>4, Sending
  <2>2. QED
    BY <1>4, <2>1, ChannelSend DEF Channel!Next
<1>5. QED
  BY <1>1, <1>2, <1>3, <1>4, ChannelMoves DEF Next, NoLine

\* A pipe implements the channel: for any devices, restarts, departures and failing
\* calls the lines sent are lines read, none sent again, what was sent stays sent, and
\* they are in order until the room is left under a running sender.
THEOREM ChannelOfRoom == Spec => PipeIsChannel
<1>1. Init => Channel!Init
  <2> SUFFICES ASSUME Init PROVE Channel!Init
    OBVIOUS
  <2>1. sent = <<>> /\ absent = FALSE /\ count.lines = 0
    BY DEF Init
  <2>2. SentLines = <<>> /\ 1 .. count.lines = {}
    BY <2>1 DEF SentLines
  <2>3. QED
    BY <2>1, <2>2 DEF Channel!Init
<1>2. Init => OrderInv
  BY DEF Init, OrderInv, Ordered
<1>3. Typed /\ Typed' /\ PlaceInv /\ PlaceInv' /\ OrderInv' /\ [Next]_vars
          => [Channel!Next]_<<1 .. count.lines, SentLines, ~absent>>
  BY ChannelStep
<1>4. QED
  BY <1>1, <1>2, <1>3, OrderStep, AlwaysTyped, AlwaysPlaces, PTL
  DEF Spec, PipeIsChannel, Channel!Spec, Channel!channel
=============================================================================

--------------------------- MODULE XttsProxyProofs ---------------------------
(***************************************************************************)
(* The safety of XttsProxy for every set of clients and every timeout.     *)
(***************************************************************************)
EXTENDS XttsProxy, FiniteSetTheorems, TLAPS

\* What makes the safety inductive: the unloader holds the lock from its
\* decision to the end, so no request enters the model after a test that saw
\* _busy = 0; those that are in it, or sending, were counted by that test.
IdlerLock == lock = Idler <=> idler = "exiting"

IInv == TypeOK /\ BusyCounts /\ OneUser /\ NoTruncatedAudio /\ IdlerLock

USE XttsAssumption
-----------------------------------------------------------------------------
\* The requests being served are finitely many.
LEMMA ServingFinite == IsFiniteSet(Serving)
<1>1. Serving \subseteq Request
  BY DEF Serving
<1>2. QED
  BY <1>1, FS_Subset

\* A request that moves among the counted locations, or among the others,
\* leaves the count alone.
LEMMA ServingSame ==
    ASSUME NEW r \in Request, NEW from, NEW to, TypeOK, BusyCounts,
           Goto(r, from, to), from \in Counted <=> to \in Counted, busy' = busy
    PROVE  BusyCounts'
<1>1. Serving' = Serving
  BY DEF Serving, Goto, TypeOK
<1>2. QED
  BY <1>1 DEF BusyCounts

\* A request that passes `_busy += 1` was not counted before.
LEMMA ServingEnter ==
    ASSUME NEW r \in Request, NEW from, NEW to, TypeOK, BusyCounts,
           Goto(r, from, to), from \notin Counted, to \in Counted, busy' = busy + 1
    PROVE  BusyCounts'
<1>1. Serving' = Serving \cup {r} /\ r \notin Serving
  BY DEF Serving, Goto, TypeOK
<1>2. Cardinality(Serving') = Cardinality(Serving) + 1
  BY <1>1, ServingFinite, FS_AddElement
<1>3. QED
  BY <1>2 DEF BusyCounts

\* A request that passes the `finally` was counted, so _busy was positive.
LEMMA ServingLeave ==
    ASSUME NEW r \in Request, NEW from, NEW to, TypeOK, BusyCounts,
           Goto(r, from, to), from \in Counted, to \notin Counted, busy' = busy - 1
    PROVE  BusyCounts' /\ busy' \in Nat
<1>1. Serving' = Serving \ {r} /\ r \in Serving
  BY DEF Serving, Goto, TypeOK
<1>2. Cardinality(Serving') = Cardinality(Serving) - 1
  BY <1>1, ServingFinite, FS_RemoveElement
<1>3. Serving # {} /\ Cardinality(Serving) \in Nat
  BY <1>1, ServingFinite, FS_CardinalityType
<1>4. Cardinality(Serving) # 0
  BY <1>3, ServingFinite, FS_EmptySet
<1>5. QED
  BY <1>2, <1>3, <1>4 DEF BusyCounts

\* Nobody is served when _busy is 0.
LEMMA ServingNone == ASSUME BusyCounts, busy = 0 PROVE Serving = {}
  BY ServingFinite, FS_EmptySet DEF BusyCounts
-----------------------------------------------------------------------------
LEMMA InitInv == Init => IInv
<1> SUFFICES ASSUME Init PROVE IInv
  OBVIOUS
<1>1. TypeOK
  <2>1. age \in Ages /\ busy \in Nat
    BY DEF Init, Ages
  <2>2. pc \in [Request -> Location]
    BY DEF Init, Location
  <2>3. QED
    BY <2>1, <2>2 DEF Init, TypeOK
<1>2. Serving = {}
  BY DEF Init, Serving, Counted
<1>3. BusyCounts
  BY <1>2, FS_EmptySet DEF Init, BusyCounts
<1>4. OneUser /\ NoTruncatedAudio /\ IdlerLock
  BY DEF Init, OneUser, NoTruncatedAudio, IdlerLock, Locked
<1>5. QED
  BY <1>1, <1>3, <1>4 DEF IInv

LEMMA WorkInv ==
    ASSUME NEW r \in Request, IInv, Work(r)
    PROVE  IInv'
<1> USE DEF IInv, TypeOK, OneUser, NoTruncatedAudio, IdlerLock, Goto, Raise,
            Locked, Location, Counted, Ages
<1>1. CASE MarkUse(r)
  <2>1. BusyCounts'
    BY <1>1, ServingSame DEF MarkUse
  <2>2. QED
    BY <1>1, <2>1 DEF MarkUse
<1>2. CASE MarkBusy(r)
  <2>1. BusyCounts'
    BY <1>2, ServingEnter DEF MarkBusy
  <2>2. QED
    BY <1>2, <2>1 DEF MarkBusy
<1>3. CASE LoadFails(r)
  <2>1. BusyCounts'
    BY <1>3, ServingSame DEF LoadFails
  <2>2. QED
    BY <1>3, <2>1 DEF LoadFails
<1>4. CASE Latents(r)
  <2>1. BusyCounts'
    BY <1>4, ServingSame DEF Latents
  <2>2. cond' \in BOOLEAN
    BY <1>4 DEF Latents, Loaded
  <2>3. QED
    BY <1>4, <2>1, <2>2 DEF Latents, Loaded
<1>5. CASE NoLatents(r)
  <2>1. BusyCounts'
    BY <1>5, ServingSame DEF NoLatents
  <2>2. QED
    BY <1>5, <2>1 DEF NoLatents
<1>6. CASE BadVoice(r)
  <2>1. BusyCounts'
    BY <1>6, ServingSame DEF BadVoice
  <2>2. cond' \in BOOLEAN
    BY <1>6 DEF BadVoice, Loaded
  <2>3. QED
    BY <1>6, <2>1, <2>2 DEF BadVoice, Loaded
<1>7. CASE Synthesized(r)
  <2>1. BusyCounts'
    BY <1>7, ServingSame DEF Synthesized
  <2>2. idler # "exiting"
    BY <1>7 DEF Synthesized
  <2>3. QED
    BY <1>7, <2>1, <2>2 DEF Synthesized
<1>8. CASE SynthFails(r)
  <2>1. BusyCounts'
    BY <1>8, ServingSame DEF SynthFails
  <2>2. QED
    BY <1>8, <2>1 DEF SynthFails
<1>9. QED
  BY <1>1, <1>2, <1>3, <1>4, <1>5, <1>6, <1>7, <1>8 DEF Work

LEMMA TalkInv ==
    ASSUME NEW r \in Request, IInv, Talk(r) \/ Chunk(r)
    PROVE  IInv'
<1> USE DEF IInv, TypeOK, OneUser, NoTruncatedAudio, IdlerLock, Goto, Raise,
            Locked, Location, Counted, Ages
<1>1. CASE Arrive(r)
  <2>1. BusyCounts'
    BY <1>1, ServingSame DEF Arrive
  <2>2. QED
    BY <1>1, <2>1 DEF Arrive
<1>2. CASE ReadBody(r)
  <2>1. BusyCounts'
    BY <1>2, ServingSame DEF ReadBody
  <2>2. QED
    BY <1>2, <2>1 DEF ReadBody
<1>3. CASE Acquire(r)
  <2>1. BusyCounts'
    BY <1>3, ServingSame DEF Acquire
  <2>2. QED
    BY <1>3, <2>1 DEF Acquire
<1>4. CASE SendFails(r)
  <2>1. BusyCounts'
    BY <1>4, ServingSame DEF SendFails
  <2>2. QED
    BY <1>4, <2>1 DEF SendFails
<1>5. CASE Finish(r)
  <2>1. BusyCounts' /\ busy' \in Nat
    BY <1>5, ServingLeave DEF Finish
  <2>2. QED
    BY <1>5, <2>1 DEF Finish
<1>6. CASE Reply500(r)
  <2>1. BusyCounts'
    BY <1>6, ServingSame DEF Reply500
  <2>2. QED
    BY <1>6, <2>1 DEF Reply500
<1>7. CASE Chunk(r)
  <2>1. BusyCounts'
    BY <1>7, ServingSame DEF Chunk
  <2>2. QED
    BY <1>7, <2>1 DEF Chunk
<1>8. QED
  BY <1>1, <1>2, <1>3, <1>4, <1>5, <1>6, <1>7 DEF Talk

\* The unloader's test sees every request that could lose its audio: they
\* are all counted, so with _busy = 0 there is none.
LEMMA IdlerInv ==
    ASSUME IInv, Poll \/ Exit \/ Respawn \/ Tick
    PROVE  IInv'
<1> USE DEF IInv, TypeOK, OneUser, NoTruncatedAudio, IdlerLock, Location, Ages
<1>1. CASE Poll
  <2>1. Serving = {}
    BY <1>1, ServingNone DEF Poll, Idle
  <2>2. NoTruncatedAudio'
    BY <1>1, <2>1 DEF Poll, Serving, Counted, Locked
  <2>3. Serving' = Serving
    BY <1>1 DEF Poll, Serving
  <2>4. OneUser'
    BY <1>1, <2>1 DEF Poll, Serving, Counted, Locked
  <2>5. QED
    BY <1>1, <2>2, <2>3, <2>4 DEF Poll, BusyCounts
<1>2. CASE Exit
  <2>1. Serving' = {}
    BY <1>2 DEF Exit, Serving, Counted
  <2>2. BusyCounts'
    BY <1>2, <2>1, FS_EmptySet DEF Exit, BusyCounts
  <2>3. age' \in Ages /\ pc' \in [Request -> Location]
    BY <1>2 DEF Exit
  <2>4. OneUser' /\ NoTruncatedAudio' /\ IdlerLock'
    BY <1>2 DEF Exit, Locked
  <2>5. TypeOK'
    BY <1>2, <2>3 DEF Exit
  <2>6. QED
    BY <2>2, <2>4, <2>5
<1>3. CASE Respawn
  BY <1>3 DEF Respawn, BusyCounts, Serving
<1>4. CASE Tick
  BY <1>4 DEF Tick, BusyCounts, Serving
<1>5. QED
  BY <1>1, <1>2, <1>3, <1>4

LEMMA NextInv == IInv /\ [Next]_vars => IInv'
<1> SUFFICES ASSUME IInv, [Next]_vars PROVE IInv'
  OBVIOUS
<1>1. ASSUME NEW r \in Request, Work(r) PROVE IInv'
  BY <1>1, WorkInv
<1>2. ASSUME NEW r \in Request, Talk(r) \/ Chunk(r) PROVE IInv'
  BY <1>2, TalkInv
<1>3. CASE Poll \/ Exit \/ Respawn \/ Tick
  BY <1>3, IdlerInv
<1>4. CASE UNCHANGED vars
  BY <1>4 DEF vars, IInv, TypeOK, BusyCounts, Serving, OneUser,
              NoTruncatedAudio, IdlerLock
<1>5. QED
  BY <1>1, <1>2, <1>3, <1>4 DEF Next

LEMMA SpecIInv == Spec => []IInv
  BY InitInv, NextInv, PTL DEF Spec
-----------------------------------------------------------------------------
\* The variables keep their types, _busy never goes below zero.
THEOREM TypeCorrect == Spec => []TypeOK
<1>1. IInv => TypeOK
  BY DEF IInv
<1>2. QED
  BY SpecIInv, <1>1, PTL

\* No path leaks or double-counts a request in _busy, for any number of
\* clients: after all of them have ended, _busy is 0 and the unloader may act.
THEOREM BusyAccurate == Spec => []BusyCounts
<1>1. IInv => BusyCounts
  BY DEF IInv
<1>2. QED
  BY SpecIInv, <1>1, PTL

\* Requests use the model one at a time, whatever fails while one has it.
THEOREM ModelExclusive == Spec => []OneUser
<1>1. IInv => OneUser
  BY DEF IInv
<1>2. QED
  BY SpecIInv, <1>1, PTL

\* os._exit(0) never cuts a synthesis or the audio of a 200 short.
THEOREM AudioNeverTruncated == Spec => []NoTruncatedAudio
<1>1. IInv => NoTruncatedAudio
  BY DEF IInv
<1>2. QED
  BY SpecIInv, <1>1, PTL
-----------------------------------------------------------------------------
\* A request step is a step of GpuLease, or does not show there.
LEMMA RequestLease ==
    ASSUME NEW r \in Request, IInv, Work(r) \/ Talk(r) \/ Chunk(r)
    PROVE  [Lease!Next]_<<tts, Users>>
<1> USE DEF IInv, TypeOK, Goto, Raise, Users, Lease!Next, Lease!Begin,
            Lease!Load, Lease!End
<1>1. CASE Latents(r)
  <2>1. tts' = TRUE /\ Users' = Users \cup {r}
    BY <1>1 DEF Latents, Loaded
  <2>2. QED
    BY <2>1
<1>2. CASE LoadFails(r) \/ BadVoice(r)
  <2>1. Users' = Users
    BY <1>2 DEF LoadFails, BadVoice
  <2>2. tts' = TRUE \/ tts' = tts
    BY <1>2 DEF LoadFails, BadVoice, Loaded
  <2>3. QED
    BY <2>1, <2>2
<1>3. CASE SynthFails(r) \/ SendFails(r) \/ Finish(r)
  <2>1. tts' = tts /\ Users' = Users \ {r}
    BY <1>3 DEF SynthFails, SendFails, Finish
  <2>2. QED
    BY <2>1
<1>4. CASE \/ MarkUse(r) \/ MarkBusy(r) \/ NoLatents(r) \/ Synthesized(r)
           \/ Arrive(r) \/ ReadBody(r) \/ Acquire(r) \/ Reply500(r) \/ Chunk(r)
  <2>1. UNCHANGED <<tts, Users>>
    BY <1>4 DEF MarkUse, MarkBusy, NoLatents, Synthesized, Arrive, ReadBody,
                Acquire, Reply500, Chunk
  <2>2. QED
    BY <2>1
<1>5. QED
  BY <1>1, <1>2, <1>3, <1>4 DEF Work, Talk

\* The proxy implements GpuLease: the exit is an Unload with no users.
THEOREM LeaseRefined == Spec => LeaseSafety
<1>1. Init => Lease!Init
  BY DEF Init, Lease!Init, Users
<1>2. IInv /\ [Next]_vars => [Lease!Next]_<<tts, Users>>
  <2> SUFFICES ASSUME IInv, [Next]_vars PROVE [Lease!Next]_<<tts, Users>>
    OBVIOUS
  <2>1. ASSUME NEW r \in Request, Work(r) \/ Talk(r) \/ Chunk(r)
        PROVE  [Lease!Next]_<<tts, Users>>
    BY <2>1, RequestLease
  <2>2. CASE Exit
    <3>1. Users = {} /\ Users' = {}
      BY <2>2 DEF Exit, IInv, NoTruncatedAudio, Users, Locked
    <3>2. QED
      BY <2>2, <3>1 DEF Exit, Lease!Next, Lease!Unload
  <2>3. CASE Poll \/ Respawn \/ Tick \/ UNCHANGED vars
    BY <2>3 DEF Poll, Respawn, Tick, vars, Users
  <2>4. QED
    BY <2>1, <2>2, <2>3 DEF Next
<1>3. QED
  BY <1>1, <1>2, SpecIInv, PTL DEF Spec, LeaseSafety, Lease!Spec, Lease!lease
=============================================================================

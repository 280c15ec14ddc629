-------------------------- MODULE ComputeWolProofs --------------------------
(***************************************************************************)
(* The safety of ComputeWol for every time-out, grace period and kind of   *)
(* activity.                                                               *)
(***************************************************************************)
EXTENDS ComputeWol, TLAPS

USE WolAssumption
-----------------------------------------------------------------------------
\* The eight questions ...
LEMMA QuestionsAre ==
    /\ Len(Questions) = 8
    /\ Questions[1] = "tcp" /\ Questions[2] = "ffmpeg" /\ Questions[3] = "opencode"
    /\ Questions[4] = "gpu" /\ Questions[5] = "localflag" /\ Questions[6] = "remoteflag"
    /\ Questions[7] = "login" /\ Questions[8] = "gpu"
BY DEF Questions

\* ... are the steps from the fourth to the eleventh of a pass.
LEMMA StepsAre ==
    /\ Len(Steps) = 14
    /\ Steps[1] = "log" /\ Steps[2] = "ping" /\ Steps[3] = "grace"
    /\ Steps[12] = "arm" /\ Steps[13] = "suspend" /\ Steps[14] = "stamp"
    /\ \A i \in 1 .. 8 : Steps[i + 3] = Questions[i]
BY DEF Steps, Questions

\* So a test of the place in the pass is a test of its number.
LEMMA Places ==
    ASSUME step \in 0 .. Len(Steps)
    PROVE  /\ step \in 0 .. 14
           /\ At("ping") => step = 2
           /\ At("grace") => step = 3
           /\ At("arm") => step = 12
           /\ At("suspend") => step = 13
           /\ At("stamp") => step = 14
           /\ At("log") => step = 1
<1>1. step \in 0 .. 14
  BY StepsAre
<1>2. \A i \in 1 .. 8 : Steps[i + 3] \notin {"log", "ping", "grace", "arm", "suspend", "stamp"}
  BY StepsAre, QuestionsAre
<1>3. step \in 4 .. 11 =>
          Steps[step] \notin {"log", "ping", "grace", "arm", "suspend", "stamp"}
  <2> SUFFICES ASSUME step \in 4 .. 11
               PROVE  Steps[step] \notin {"log", "ping", "grace", "arm", "suspend", "stamp"}
    OBVIOUS
  <2>1. step - 3 \in 1 .. 8 /\ (step - 3) + 3 = step
    OBVIOUS
  <2>2. QED
    BY <1>2, <2>1
<1>4. step \in 4 .. 11 \/ step = 0 \/ step = 1 \/ step = 2 \/ step = 3
      \/ step = 12 \/ step = 13 \/ step = 14
  BY <1>1
<1>5. QED
  BY <1>1, <1>3, <1>4, StepsAre DEF At
-----------------------------------------------------------------------------
\* What the properties of a suspend need to know of the pass.  The box answered the
\* ping, so it is up until it goes to sleep ...
UpSincePing == step \in 3 .. 14 /\ ~fell => Pingable

\* ... it was not woken, for it was up, since the grace period was tested ...
GraceSince == step \in 4 .. 13 /\ ~fell => wokeAge = Grace

\* ... what was asked about, by a command that worked, has not lasted the whole pass ...
AskedGone == \A i \in 1 .. 8 :
                 step \in i + 4 .. 14 /\ (Questions[i] \in Local \/ ~failed)
                     => Questions[i] \notin lasting

\* ... and the NIC has been armed.
ArmedLast == step = 13 /\ ~failed /\ ~fell => armed

PassInv == TypeOK /\ UpSincePing /\ GraceSince /\ AskedGone /\ ArmedLast
-----------------------------------------------------------------------------
\* A pass that ends, and one that goes on, keep the types.
LEMMA BailTyped == ASSUME TypeOK, Bail, Quiet, UNCHANGED <<host, wolAge>>
                   PROVE  TypeOK'
<1>1. Len(Steps) = 14
  BY StepsAre
<1>2. step' \in 0 .. Len(Steps) /\ lasting' \subseteq activity'
  BY <1>1 DEF Bail
<1>3. failed' \in BOOLEAN /\ fell' \in BOOLEAN
  BY DEF Bail
<1>4. QED
  BY <1>2, <1>3 DEF Quiet, host, tailer, TypeOK

LEMMA GoTyped == ASSUME TypeOK, step < 14, step' = step + 1, UNCHANGED <<lasting, fell>>,
                        failed' \in BOOLEAN, Quiet, UNCHANGED <<host, wolAge>>
                 PROVE  TypeOK'
<1>1. Len(Steps) = 14
  BY StepsAre
<1>2. step' \in 0 .. Len(Steps)
  BY <1>1 DEF TypeOK
<1>3. QED
  BY <1>2 DEF Quiet, host, tailer, TypeOK

\* The ages, the bounded backlog and the places keep their types.
LEMMA TypeStep == TypeOK /\ [Next]_vars => TypeOK'
<1> SUFFICES ASSUME TypeOK, [Next]_vars
             PROVE  TypeOK'
  OBVIOUS
<1>0. step \in 0 .. 14 /\ Len(Steps) = 14 /\ Len(Questions) = 8
  BY StepsAre, QuestionsAre DEF TypeOK
<1> USE DEF host, tailer, pass, vars
<1>1. CASE Request \/ Rotate
  <2>1. CASE Request
    BY <2>1 DEF Request, TypeOK
  <2>2. CASE Rotate
    BY <2>2 DEF Rotate, TypeOK
  <2>3. QED
    BY <1>1, <2>1, <2>2
<1>2. CASE Tick
  BY <1>2 DEF Tick, Older, TypeOK
<1>3. ASSUME NEW a \in Activity, Begin(a) \/ End(a)
      PROVE  TypeOK'
  BY <1>3 DEF Begin, End, TypeOK
<1>4. CASE TailStep \/ TailRestart
  <2>1. CASE TailRead
    BY <2>1 DEF TailRead, TypeOK
  <2>2. CASE TailPing
    BY <2>2 DEF TailPing, TypeOK
  <2>3. CASE TailWake
    BY <2>3 DEF TailWake, TypeOK
  <2>4. CASE TailRestart
    BY <2>4 DEF TailRestart, TypeOK
  <2>5. QED
    BY <1>4, <2>1, <2>2, <2>3, <2>4 DEF TailStep
<1>5. CASE WatchStart \/ WatchRestart
  <2>1. CASE WatchStart
    <3>1. step' \in 0 .. Len(Steps) /\ lasting' \subseteq activity'
      BY <1>0, <2>1 DEF WatchStart
    <3>2. QED
      BY <2>1, <3>1 DEF WatchStart, Quiet, TypeOK
  <2>2. CASE WatchRestart
    BY <2>2, BailTyped DEF WatchRestart, Quiet, TypeOK
  <2>3. QED
    BY <1>5, <2>1, <2>2
<1>6. CASE WatchLog \/ WatchPing \/ WatchGrace
  <2>1. step \in 1 .. 3
    BY <1>6, Places DEF WatchLog, WatchPing, WatchGrace, TypeOK
  <2>2. /\ Bail \/ Go
        /\ Quiet /\ UNCHANGED <<host, wolAge>>
    BY <1>6 DEF WatchLog, WatchPing, WatchGrace
  <2>3. CASE Bail
    BY <2>2, <2>3, BailTyped
  <2>4. CASE Go
    BY <2>1, <2>2, <2>4, GoTyped DEF Go, GoAfter, TypeOK
  <2>5. QED
    BY <2>2, <2>3, <2>4
<1>7. CASE WatchAsk
  <2>1. PICK i \in 1 .. 8, ssh \in BOOLEAN :
           /\ step = i + 3
           /\ Bail \/ GoAfter(ssh \/ Questions[i] \in Local)
           /\ Quiet /\ UNCHANGED <<host, wolAge>>
    BY <1>0, <1>7 DEF WatchAsk
  <2>2. CASE Bail
    BY <2>1, <2>2, BailTyped
  <2>3. CASE GoAfter(ssh \/ Questions[i] \in Local)
    <3>1. step < 14 /\ step' = step + 1 /\ UNCHANGED <<lasting, fell>> /\ failed' \in BOOLEAN
      BY <2>1, <2>3 DEF GoAfter, TypeOK
    <3>2. QED
      BY <2>1, <3>1, GoTyped
  <2>4. QED
    BY <2>1, <2>2, <2>3
<1>8. CASE WatchArm \/ WatchSuspend \/ WatchStamp
  <2>1. CASE WatchArm
    <3>1. step = 12
      BY <2>1, Places DEF WatchArm, TypeOK
    <3>2. QED
      BY <1>0, <2>1, <3>1 DEF WatchArm, GoAfter, Quiet, TypeOK
  <2>2. CASE WatchSuspend
    <3>1. step = 13
      BY <2>2, Places DEF WatchSuspend, TypeOK
    <3>2. QED
      BY <1>0, <2>2, <3>1 DEF WatchSuspend, Go, GoAfter, Quiet, TypeOK
  <2>3. CASE WatchStamp
    <3>1. wokeAge' \in wolAge' .. Grace /\ wolAge' \in 0 .. Grace
      BY <2>3 DEF WatchStamp, Quiet, TypeOK
    <3>2. failed' \in BOOLEAN /\ fell' \in BOOLEAN
      BY <2>3 DEF WatchStamp, Bail
    <3>3. step' \in 0 .. Len(Steps) /\ lasting' \subseteq activity'
      BY <1>0, <2>3 DEF WatchStamp, Bail
    <3>4. QED
      BY <2>3, <3>1, <3>2, <3>3 DEF WatchStamp, Quiet, TypeOK
  <2>4. QED
    BY <1>8, <2>1, <2>2, <2>3
<1>9. CASE ManualSuspend \/ FallAsleep \/ Rise \/ Rearm
  <2>1. CASE ManualSuspend
    BY <2>1 DEF ManualSuspend, Rest, TypeOK
  <2>2. CASE FallAsleep
    <3>1. fell' \in BOOLEAN
      BY <2>2 DEF FallAsleep
    <3>2. UNCHANGED <<armed, failed>>
      BY <2>2 DEF FallAsleep
    <3>3. QED
      BY <2>2, <3>1, <3>2 DEF FallAsleep, Rest, TypeOK
  <2>3. CASE Rise
    BY <2>3 DEF Rise, Rest, TypeOK
  <2>4. CASE Rearm
    BY <2>4 DEF Rearm, Rest, TypeOK
  <2>5. QED
    BY <1>9, <2>1, <2>2, <2>3, <2>4
<1>10. CASE UNCHANGED vars
  BY <1>10 DEF TypeOK
<1>11. QED
  BY <1>1, <1>2, <1>3, <1>4, <1>5, <1>6, <1>7, <1>8, <1>9, <1>10
  DEF Next, TailStep, WatchStep
-----------------------------------------------------------------------------
\* A step that leaves the pass where it is, and a box that stays up as it is.
Bystander == /\ step' = step /\ failed' = failed /\ lasting' \subseteq lasting
             /\ step > 2 /\ ~fell' => ~fell

LEMMA BystanderKeeps ==
    ASSUME PassInv, TypeOK', Bystander,
           step > 2 /\ ~fell' /\ Pingable =>
               Pingable' /\ (wokeAge = Grace => wokeAge' = Grace) /\ (armed => armed')
    PROVE  PassInv'
<1>1. AskedGone'
  BY DEF PassInv, Bystander, AskedGone, Questions
<1>2. UpSincePing'
  BY DEF PassInv, Bystander, UpSincePing
<1>3. GraceSince'
  BY DEF PassInv, Bystander, UpSincePing, GraceSince
<1>4. ArmedLast'
  BY DEF PassInv, Bystander, UpSincePing, ArmedLast
<1>5. QED
  BY <1>1, <1>2, <1>3, <1>4 DEF PassInv

\* The environment and the tail are such: they do not touch a box that is up, and one
\* that goes to sleep after the ping is remembered.
LEMMA OthersKeep ==
    ASSUME PassInv, TypeOK',
           \/ Request \/ Rotate \/ Tick \/ TailStep \/ TailRestart
           \/ \E a \in Activity : Begin(a) \/ End(a)
           \/ ManualSuspend \/ FallAsleep \/ Rise \/ Rearm \/ UNCHANGED vars
    PROVE  PassInv'
<1> USE DEF host, tailer, pass, vars, Bystander, Pingable
<1>1. CASE Request \/ Rotate \/ TailRestart \/ UNCHANGED vars
  BY <1>1, BystanderKeeps DEF Request, Rotate, TailRestart
<1>2. CASE Tick
  <2>1. wokeAge = Grace => wokeAge' = Grace
    BY <1>2 DEF Tick, Older
  <2>2. QED
    BY <1>2, <2>1, BystanderKeeps DEF Tick
<1>3. CASE TailStep
  BY <1>3, BystanderKeeps DEF TailStep, TailRead, TailPing, TailWake
<1>4. CASE \E a \in Activity : Begin(a) \/ End(a)
  BY <1>4, BystanderKeeps DEF Begin, End
<1>5. CASE ManualSuspend \/ FallAsleep \/ Rise \/ Rearm
  <2>1. CASE ManualSuspend
    BY <2>1, BystanderKeeps DEF ManualSuspend, Rest
  <2>2. CASE FallAsleep
    <3>1. step' = step /\ failed' = failed /\ lasting' \subseteq lasting
      BY <2>2 DEF FallAsleep
    <3>2. ~(step > 2 /\ ~fell')
      BY <2>2 DEF FallAsleep
    <3>3. QED
      BY <3>1, <3>2, BystanderKeeps
  <2>3. CASE Rise \/ Rearm
    <3>1. UNCHANGED <<step, failed, lasting, fell, wokeAge>>
      BY <2>3 DEF Rise, Rearm, Rest
    <3>2. Pingable => Pingable' /\ armed'
      BY <2>3 DEF Rise, Rearm
    <3>3. QED
      BY <3>1, <3>2, BystanderKeeps
  <2>4. QED
    BY <1>5, <2>1, <2>2, <2>3
<1>6. QED
  BY <1>1, <1>2, <1>3, <1>4, <1>5

\* Between two passes nothing is claimed.
LEMMA BailKeeps == ASSUME TypeOK', Bail PROVE PassInv'
<1>1. step' = 0
  BY DEF Bail
<1>2. AskedGone'
  BY <1>1 DEF AskedGone
<1>3. UpSincePing' /\ GraceSince' /\ ArmedLast'
  BY <1>1 DEF UpSincePing, GraceSince, ArmedLast
<1>4. QED
  BY <1>2, <1>3 DEF PassInv

\* The pass starts, hears of no request, gets its ping answered and sees that no
\* packet was sent lately.
LEMMA PassBegins ==
    ASSUME PassInv, TypeOK', WatchStart \/ WatchLog \/ WatchPing \/ WatchGrace
    PROVE  PassInv'
<1> USE DEF host, tailer, pass, Quiet
<1>1. CASE WatchStart
  <2>1. step' = 1
    BY <1>1 DEF WatchStart
  <2>2. QED
    BY <2>1 DEF PassInv, AskedGone, UpSincePing, GraceSince, ArmedLast
<1>2. CASE WatchLog
  <2>1. CASE Go
    <3>1. step = 1 /\ step' = 2
      BY <1>2, <2>1, Places DEF WatchLog, Go, GoAfter, PassInv, TypeOK
    <3>2. QED
      BY <3>1 DEF PassInv, AskedGone, UpSincePing, GraceSince, ArmedLast
  <2>2. QED
    BY <1>2, <2>1, BailKeeps DEF WatchLog
<1>3. CASE WatchPing
  <2>1. CASE Go /\ Pingable
    <3>1. step = 2 /\ step' = 3 /\ box' = box
      BY <1>3, <2>1, Places DEF WatchPing, Go, GoAfter, PassInv, TypeOK
    <3>2. Pingable'
      BY <2>1, <3>1 DEF Pingable
    <3>3. QED
      BY <3>1, <3>2 DEF PassInv, AskedGone, UpSincePing, GraceSince, ArmedLast
  <2>2. QED
    BY <1>3, <2>1, BailKeeps DEF WatchPing
<1>4. CASE WatchGrace
  <2>1. CASE Go /\ wolAge >= Grace
    <3>1. step = 3 /\ step' = 4 /\ box' = box /\ fell' = fell /\ wokeAge' = wokeAge
      BY <1>4, <2>1, Places DEF WatchGrace, Go, GoAfter, PassInv, TypeOK
    <3>2. wokeAge = Grace
      BY <2>1 DEF PassInv, TypeOK
    <3>3. ~fell' => Pingable'
      BY <3>1 DEF PassInv, UpSincePing, Pingable
    <3>4. QED
      BY <3>1, <3>2, <3>3
      DEF PassInv, AskedGone, UpSincePing, GraceSince, ArmedLast
  <2>2. QED
    BY <1>4, <2>1, BailKeeps DEF WatchGrace
<1>5. QED
  BY <1>1, <1>2, <1>3, <1>4

\* A question answered without activity, by a command that worked, is one more
\* kind of activity that has not lasted.
LEMMA AskKeeps == ASSUME PassInv, TypeOK', WatchAsk PROVE PassInv'
<1>1. PICK i \in 1 .. 8, ssh \in BOOLEAN :
         /\ step = i + 3
         /\ \/ Bail
            \/ /\ GoAfter(ssh \/ Questions[i] \in Local)
               /\ ~(Questions[i] \in activity /\ (Questions[i] \in Local \/ ssh))
         /\ Quiet /\ UNCHANGED <<host, wolAge>>
  BY QuestionsAre DEF WatchAsk
<1>2. CASE Bail
  BY <1>2, BailKeeps
<1>3. CASE /\ GoAfter(ssh \/ Questions[i] \in Local)
           /\ ~(Questions[i] \in activity /\ (Questions[i] \in Local \/ ssh))
  <2>1. /\ step' = i + 4 /\ lasting' = lasting /\ fell' = fell
        /\ box' = box /\ wokeAge' = wokeAge
    BY <1>1, <1>3 DEF GoAfter, Quiet, host
  <2>2. /\ ~failed' => ~failed
        /\ ~failed' => ssh \/ Questions[i] \in Local
    BY <1>3 DEF GoAfter
  <2>3. Questions[i] \in Local \/ ~failed' => Questions[i] \notin lasting
    BY <1>3, <2>2 DEF PassInv, TypeOK
  <2>4. AskedGone'
    <3> SUFFICES ASSUME NEW j \in 1 .. 8, step' \in j + 4 .. 14,
                        Questions[j] \in Local \/ ~failed'
                 PROVE  Questions[j] \notin lasting'
      BY DEF AskedGone, Local, Questions
    <3>1. CASE j = i
      BY <2>1, <2>3, <3>1
    <3>2. CASE j # i
      <4>1. step \in j + 4 .. 14
        BY <1>1, <2>1, <3>2
      <4>2. QED
        BY <2>1, <2>2, <4>1 DEF PassInv, AskedGone
    <3>3. QED
      BY <3>1, <3>2
  <2>5. UpSincePing' /\ GraceSince' /\ ArmedLast'
    <3>1. ~fell => Pingable
      BY <1>1 DEF PassInv, UpSincePing
    <3>2. ~fell => wokeAge = Grace
      BY <1>1 DEF PassInv, GraceSince
    <3>3. QED
      BY <2>1, <3>1, <3>2 DEF UpSincePing, GraceSince, ArmedLast, Pingable
  <2>6. QED
    BY <2>4, <2>5 DEF PassInv
<1>4. QED
  BY <1>1, <1>2, <1>3

\* The end of the pass: the NIC is armed before the box is sent to sleep.
LEMMA PassEnds ==
    ASSUME PassInv, TypeOK', WatchArm \/ WatchSuspend \/ WatchStamp \/ WatchRestart
    PROVE  PassInv'
<1> USE DEF Quiet
<1>1. CASE WatchArm
  <2>1. PICK ssh \in BOOLEAN : Ssh(ssh) /\ armed' = (armed \/ ssh) /\ GoAfter(ssh)
    BY <1>1 DEF WatchArm
  <2>2. step = 12 /\ box' = box /\ wokeAge' = wokeAge
    BY <1>1, Places DEF WatchArm, PassInv, TypeOK
  <2>3. step' = 13 /\ lasting' = lasting /\ fell' = fell
    BY <2>1, <2>2 DEF GoAfter
  <2>4. ~failed' => ~failed /\ ssh
    BY <2>1 DEF GoAfter
  <2>5. ~failed' => armed'
    BY <2>1, <2>4
  <2>6. ~fell => Pingable /\ wokeAge = Grace
    BY <2>2 DEF PassInv, UpSincePing, GraceSince
  <2>7. AskedGone'
    BY <2>2, <2>3, <2>4 DEF PassInv, AskedGone, Local, Questions
  <2>8. QED
    BY <2>2, <2>3, <2>5, <2>6, <2>7
    DEF PassInv, UpSincePing, GraceSince, ArmedLast, Pingable
<1>2. CASE WatchSuspend
  <2>1. /\ step = 13 /\ step' = 14
        /\ lasting' = lasting /\ failed' = failed /\ fell' = fell
    BY <1>2, Places DEF WatchSuspend, Go, GoAfter, PassInv, TypeOK
  <2>2. AskedGone'
    BY <2>1 DEF PassInv, AskedGone, Local, Questions
  <2>3. ~fell => Pingable'
    BY <1>2, <2>1 DEF WatchSuspend, PassInv, UpSincePing, Pingable
  <2>4. QED
    BY <2>1, <2>2, <2>3 DEF PassInv, UpSincePing, GraceSince, ArmedLast
<1>3. CASE WatchStamp \/ WatchRestart
  BY <1>3, BailKeeps DEF WatchStamp, WatchRestart
<1>4. QED
  BY <1>1, <1>2, <1>3

LEMMA PassInit == Init => PassInv
<1>1. Len(Steps) = 14
  BY StepsAre
<1>2. Init => TypeOK
  <2> SUFFICES ASSUME Init
               PROVE  TypeOK
    OBVIOUS
  <2>1. armed \in BOOLEAN /\ failed \in BOOLEAN /\ fell \in BOOLEAN
    BY DEF Init
  <2>2. logAge \in 0 .. IdleTimeout /\ wolAge \in 0 .. Grace /\ wokeAge \in wolAge .. Grace
        /\ pingAge \in 0 .. SlowPing /\ lines \in 0 .. MaxLines /\ step \in 0 .. Len(Steps)
    BY <1>1 DEF Init
  <2>3. QED
    BY <2>1, <2>2 DEF Init, TypeOK
<1>3. QED
  BY <1>2 DEF Init, PassInv, AskedGone, UpSincePing, GraceSince, ArmedLast

LEMMA PassStep == PassInv /\ [Next]_vars => PassInv'
<1> SUFFICES ASSUME PassInv, [Next]_vars
             PROVE  PassInv'
  OBVIOUS
<1>1. TypeOK'
  BY TypeStep DEF PassInv
<1>2. CASE WatchStart \/ WatchStep \/ WatchRestart
  BY <1>1, <1>2, PassBegins, AskKeeps, PassEnds DEF WatchStep
<1>3. QED
  BY <1>1, <1>2, OthersKeep DEF Next

LEMMA PassAlways == Spec => []PassInv
BY PassInit, PassStep, PTL DEF Spec
-----------------------------------------------------------------------------
\* The variables have their types, whatever the environment does.
THEOREM TypeCorrect == Spec => []TypeOK
<1>1. PassInv => TypeOK
  BY DEF PassInv
<1>2. QED
  BY <1>1, PassAlways, PTL

\* The watcher never sends a box to sleep whose NIC would not wake it, unless an ssh
\* command failed or the box has slept since the ping.
THEOREM SuspendsArmed == Spec => SleepsArmed
<1>1. PassInv /\ [Next]_vars => [Suspends /\ ~failed /\ ~fell => armed]_vars
  BY Places DEF Suspends, PassInv, ArmedLast, TypeOK
<1>2. QED
  BY <1>1, PassAlways, PTL DEF Spec, SleepsArmed

\* The watcher never sends a box to sleep within the grace period after a packet
\* has woken it, however its ssh commands come out, unless the box went to sleep and
\* was woken while the pass was between its ping and its end.
THEOREM SuspendsAfterGrace == Spec => GraceRespected
<1>1. PassInv /\ [Next]_vars => [Suspends /\ ~fell => wokeAge >= Grace]_vars
  BY Places DEF Suspends, PassInv, GraceSince, TypeOK
<1>2. QED
  BY <1>1, PassAlways, PTL DEF Spec, GraceRespected

\* What lasts from the beginning of a pass to its end keeps the box awake.
THEOREM SuspendsIdle == Spec => SparesLasting
<1>1. PassInv /\ Suspends /\ ~failed => lasting = {}
  <2> SUFFICES ASSUME PassInv, Suspends, ~failed
               PROVE  lasting = {}
    OBVIOUS
  <2>1. step = 13
    BY Places DEF Suspends, PassInv, TypeOK
  <2>2. \A i \in 1 .. 8 : Questions[i] \notin lasting
    BY <2>1 DEF PassInv, AskedGone
  <2>3. lasting \subseteq Activity
    BY DEF PassInv, TypeOK
  <2>4. QED
    BY <2>2, <2>3, QuestionsAre
<1>2. PassInv /\ [Next]_vars => [Suspends /\ ~failed => lasting = {}]_vars
  BY <1>1
<1>3. QED
  BY <1>2, PassAlways, PTL DEF Spec, SparesLasting

\* An opencode session or the local flag keeps the box awake even when ssh fails.
THEOREM OverrideKept == Spec => OverrideHonoured
<1>1. PassInv /\ Suspends => lasting \cap Local = {}
  <2> SUFFICES ASSUME PassInv, Suspends
               PROVE  lasting \cap Local = {}
    OBVIOUS
  <2>1. step = 13
    BY Places DEF Suspends, PassInv, TypeOK
  <2>2. Questions[3] \notin lasting /\ Questions[5] \notin lasting
    BY <2>1, QuestionsAre DEF PassInv, AskedGone, Local
  <2>3. QED
    BY <2>2, QuestionsAre DEF Local
<1>2. PassInv /\ [Next]_vars => [Suspends => lasting \cap Local = {}]_vars
  BY <1>1
<1>3. QED
  BY <1>2, PassAlways, PTL DEF Spec, OverrideHonoured
=============================================================================

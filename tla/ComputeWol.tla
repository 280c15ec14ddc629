----------------------------- MODULE ComputeWol -----------------------------
(***************************************************************************)
(* The compute box sleeps when nobody uses it and is woken by requests.    *)
(* On the Traefik host wol-watch-tail.sh follows the access log and sends  *)
(* the magic packet; wol-watch-idle.sh asks a series of questions and then *)
(* suspends the box over ssh.  On the box a cron job re-arms the NIC and   *)
(* the sleep hook stops the services before and starts them after a sleep. *)
(*                                                                         *)
(* A time is the age of an event, counted in ticks up to the largest value *)
(* the scripts compare it with.  The packet and its time stamp are one     *)
(* step of the tail: the box needs seconds to come up, the `echo` does not.*)
(***************************************************************************)
EXTENDS Naturals, Sequences

CONSTANTS Activity,      \* kinds of activity that occur, among those asked about
          IdleTimeout,   \* IDLE_TIMEOUT, in ticks
          Grace,         \* GRACE_AFTER_WOL
          SlowPing,      \* PING_INTERVAL while the box is up, and
          FastPing,      \*   while it is down
          MaxLines,      \* bound: log lines the tail has not read yet
          Faults         \* what the environment does besides

\* Mutant: the local override is forgotten.
QuestionsNoFlag == <<"tcp", "ffmpeg", "opencode", "gpu", "remoteflag", "login", "gpu">>

\* The questions of one pass, in order; the GPU is asked about twice.
Questions == <<"tcp", "ffmpeg", "opencode", "gpu", "localflag",
               "remoteflag", "login", "gpu">>
Local == {"opencode", "localflag"}    \* answered without ssh

ASSUME WolAssumption ==
    /\ Activity \subseteq {"tcp", "ffmpeg", "opencode", "gpu", "localflag",
                           "remoteflag", "login"}
    /\ IdleTimeout \in Nat /\ Grace \in Nat
    /\ SlowPing \in Nat /\ FastPing \in Nat /\ FastPing <= SlowPing
    /\ MaxLines \in Nat
    /\ Faults \subseteq {"ssh", "packet", "rotate", "manual", "restart"}

VARIABLES box,        \* "awake", "falling" (still answers), "asleep", "rising"
          armed,      \* the NIC's "Wake-on: g" flag
          activity,   \* what goes on now
          logAge,     \* age of the newest request in the access log
          wolAge,     \* age of /tmp/compute_last_wol
          pingAge,    \* age of /tmp/ai_last_ping
          interval,   \* PING_INTERVAL of the tail
          lines,      \* log lines not read by the tail yet
          tail,       \* the tail's loop: "read", "ping", "wake"
          step,       \* the idle watcher's pass: 0 asleep, else index in Steps
          lasting,    \* history: the activity that lasted the whole pass so far
          wokeAge,    \* history: age of the last wake-up by a packet
          failed,     \* history: an ssh command of this pass has failed
          fell        \* history: the box has gone to sleep since this pass pinged it

host   == <<box, armed, activity>>
tailer == <<pingAge, interval, lines, tail>>
pass   == <<step, lasting, failed, fell>>
vars   == <<host, logAge, wolAge, tailer, pass, wokeAge>>

\* Mutant: the grace period is tested before the ping.
StepsGraceFirst == <<"log", "grace", "ping">> \o Questions \o <<"arm", "suspend", "stamp">>

\* Mutant: the NIC is armed after the suspend instead of before.
StepsArmLate == <<"log", "ping", "grace">> \o Questions \o <<"suspend", "arm", "stamp">>

Steps == <<"log", "ping", "grace">> \o Questions \o <<"arm", "suspend", "stamp">>

Init == /\ box \in {"awake", "asleep"} /\ armed = TRUE /\ activity = {}
        /\ logAge = IdleTimeout
        /\ wolAge = Grace /\ wokeAge = Grace
        /\ pingAge = SlowPing /\ interval = SlowPing
        /\ lines = 0 /\ tail = "read"
        /\ step = 0 /\ lasting = {} /\ failed = FALSE /\ fell = FALSE

Pingable == box \in {"awake", "falling"}

\* An ssh command may come out this way; a box on its way to sleep may still answer.
Ssh(works) == \/ works /\ Pingable
              \/ ~works /\ (box # "awake" \/ "ssh" \in Faults)
-----------------------------------------------------------------------------
\* A request to an AI endpoint is logged.
Request == /\ lines < MaxLines
           /\ lines' = lines + 1
           /\ logAge' = 0
           /\ UNCHANGED <<host, wolAge, pingAge, interval, tail, pass, wokeAge>>

\* logrotate, copytruncate: the watcher finds no request any more.
Rotate == /\ "rotate" \in Faults
          /\ logAge' = IdleTimeout
          /\ UNCHANGED <<host, wolAge, tailer, pass, wokeAge>>

Begin(a) == /\ a \in Local \/ box = "awake"
            /\ activity' = activity \cup {a}
            /\ UNCHANGED <<box, armed, logAge, wolAge, tailer, pass, wokeAge>>

End(a) == /\ activity' = activity \ {a}
          /\ lasting' = lasting \ {a}
          /\ UNCHANGED <<box, armed, logAge, wolAge, tailer, step, failed, fell, wokeAge>>

Older(a, cap) == IF a < cap THEN a + 1 ELSE a

Tick == /\ logAge' = Older(logAge, IdleTimeout)
        /\ wolAge' = Older(wolAge, Grace) /\ wokeAge' = Older(wokeAge, Grace)
        /\ pingAge' = Older(pingAge, SlowPing)
        /\ UNCHANGED <<host, interval, lines, tail, pass>>
-----------------------------------------------------------------------------
\* Mutant: the ping file is renewed by every request, not by every ping.
TailReadRenews ==
    /\ tail = "read" /\ lines > 0
    /\ lines' = lines - 1
    /\ pingAge' = 0
    /\ tail' = IF pingAge < interval THEN "read" ELSE "ping"
    /\ UNCHANGED <<host, logAge, wolAge, interval, pass, wokeAge>>

\* Mutant: the loop goes on when there was no line to read.
TailReadNothing ==
    /\ tail = "read"
    /\ lines' = lines - 1
    /\ \/ pingAge < interval /\ UNCHANGED <<pingAge, tail>>
       \/ pingAge >= interval /\ pingAge' = 0 /\ tail' = "ping"
    /\ UNCHANGED <<host, logAge, wolAge, interval, pass, wokeAge>>

\* A line is read: skipped if the last ping is recent, else the ping file is
\* renewed before the ping.
TailRead == /\ tail = "read" /\ lines > 0
            /\ lines' = lines - 1
            /\ \/ pingAge < interval /\ UNCHANGED <<pingAge, tail>>
               \/ pingAge >= interval /\ pingAge' = 0 /\ tail' = "ping"
            /\ UNCHANGED <<host, logAge, wolAge, interval, pass, wokeAge>>

TailPing == /\ tail = "ping"
            /\ \/ Pingable /\ interval' = SlowPing /\ tail' = "read"
               \/ ~Pingable /\ interval' = FastPing /\ tail' = "wake"
            /\ UNCHANGED <<host, logAge, wolAge, pingAge, lines, pass, wokeAge>>

\* The magic packet wakes a sleeping box whose NIC is armed, and is stamped.
TailWake == /\ tail = "wake"
            /\ \/ box = "asleep" /\ armed /\ box' = "rising" /\ wokeAge' = 0
               \/ ~(box = "asleep" /\ armed) /\ UNCHANGED <<box, wokeAge>>
               \/ "packet" \in Faults /\ UNCHANGED <<box, wokeAge>>
            /\ wolAge' = 0
            /\ tail' = "read"
            /\ UNCHANGED <<armed, activity, logAge, pingAge, interval, lines,
                           pass>>

\* Restart=always: tail -F shows the last lines of the log again.
TailRestart == /\ "restart" \in Faults
               /\ lines' \in 0 .. MaxLines
               /\ tail' = "read" /\ interval' = SlowPing
               /\ UNCHANGED <<host, logAge, wolAge, pingAge, pass, wokeAge>>
-----------------------------------------------------------------------------
Bail == step' = 0 /\ lasting' = {} /\ failed' = FALSE /\ fell' = FALSE
GoAfter(ssh) == /\ step' = step + 1
                /\ failed' = (failed \/ ~ssh)
                /\ UNCHANGED <<lasting, fell>>
Go == GoAfter(TRUE)
At(name) == step > 0 /\ Steps[step] = name
Quiet == UNCHANGED <<logAge, tailer, wokeAge>>

\* sleep $LOOP_INTERVAL is over, whatever the box does.
WatchStart == /\ step = 0
              /\ step' = 1 /\ lasting' = activity
              /\ Quiet /\ UNCHANGED <<host, wolAge, failed, fell>>

WatchLog == /\ At("log")
            /\ \/ logAge < IdleTimeout /\ Bail
               \/ logAge >= IdleTimeout /\ Go
            /\ Quiet /\ UNCHANGED <<host, wolAge>>

WatchPing == /\ At("ping")
             /\ \/ ~Pingable /\ Bail
                \/ Pingable /\ Go
             /\ Quiet /\ UNCHANGED <<host, wolAge>>

WatchGrace == /\ At("grace")
              /\ \/ wolAge < Grace /\ Bail
                 \/ wolAge >= Grace /\ Go
              /\ Quiet /\ UNCHANGED <<host, wolAge>>

\* Mutant: only the last question counts, the earlier ones have no `continue`.
WatchAskLast == \E i \in 1 .. Len(Questions), ssh \in BOOLEAN :
    LET q == Questions[i]
        busy == q \in activity /\ (q \in Local \/ ssh) /\ i = Len(Questions)
    IN /\ step = i + 3 /\ Ssh(ssh)
       /\ \/ busy /\ Bail
          \/ ~busy /\ GoAfter(ssh \/ q \in Local)
       /\ Quiet /\ UNCHANGED <<host, wolAge>>

\* One question: seen busy ends the pass, an ssh that fails reads as idle.
WatchAsk == \E i \in 1 .. Len(Questions), ssh \in BOOLEAN :
    LET q == Questions[i]
        busy == q \in activity /\ (q \in Local \/ ssh)
    IN /\ step = i + 3 /\ Ssh(ssh)
       /\ \/ busy /\ Bail
          \/ ~busy /\ GoAfter(ssh \/ q \in Local)
       /\ Quiet /\ UNCHANGED <<host, wolAge>>

\* ethtool over ssh; whether it worked is not looked at.
WatchArm == /\ At("arm")
            /\ \E ssh \in BOOLEAN : Ssh(ssh) /\ armed' = (armed \/ ssh) /\ GoAfter(ssh)
            /\ Quiet /\ UNCHANGED <<box, activity, wolAge>>

\* systemctl suspend over ssh; whether it worked is not looked at.
WatchSuspend == /\ At("suspend")
                /\ \E ssh \in BOOLEAN :
                      Ssh(ssh) /\ box' = IF ssh THEN "falling" ELSE box
                /\ Go /\ Quiet /\ UNCHANGED <<armed, activity, wolAge>>

\* The sleep is stamped as a wake-up would be, and the pass is over.
WatchStamp == /\ At("stamp")
              /\ wolAge' = 0
              /\ Bail /\ Quiet /\ UNCHANGED host

\* Restart=always in the middle of a pass.
WatchRestart == /\ "restart" \in Faults /\ step > 0
                /\ Bail /\ Quiet /\ UNCHANGED <<host, wolAge>>
-----------------------------------------------------------------------------
Rest == UNCHANGED <<logAge, wolAge, tailer, wokeAge>>

\* The user suspends the box at its console.
ManualSuspend == /\ "manual" \in Faults /\ box = "awake"
                 /\ box' = "falling"
                 /\ Rest /\ UNCHANGED <<armed, activity, pass>>

\* The sleep hook stops the services, then the box is gone from the net.
FallAsleep == /\ box = "falling"
              /\ box' = "asleep"
              /\ activity' = activity \cap Local
              /\ lasting' = lasting \cap Local
              /\ fell' = (step > 2)
              /\ Rest /\ UNCHANGED <<armed, step, failed>>

\* The box is back, its services started; the driver may have lost the flag.
Rise == /\ box = "rising"
        /\ box' = "awake"
        /\ armed' \in {armed, FALSE}
        /\ Rest /\ UNCHANGED <<activity, pass>>

\* The cron job re-arms the NIC.
Rearm == /\ box = "awake" /\ ~armed
         /\ armed' = TRUE
         /\ Rest /\ UNCHANGED <<box, activity, pass>>
-----------------------------------------------------------------------------
TailStep  == TailRead \/ TailPing \/ TailWake
WatchStep == WatchLog \/ WatchPing \/ WatchGrace \/ WatchAsk
         \/ WatchArm \/ WatchSuspend \/ WatchStamp

Next == \/ Request \/ Rotate \/ Tick
        \/ \E a \in Activity : Begin(a) \/ End(a)
        \/ TailStep \/ TailRestart
        \/ WatchStart \/ WatchStep \/ WatchRestart
        \/ ManualSuspend \/ FallAsleep \/ Rise \/ Rearm

\* The scripts run on, time passes, a suspend or a resume completes.
Fairness == /\ WF_vars(TailStep) /\ WF_vars(WatchStep) /\ WF_vars(Tick)
            /\ WF_vars(FallAsleep) /\ WF_vars(Rise)

Spec == Init /\ [][Next]_vars /\ Fairness

\* Clients that are not answered ask again, packets are not always lost and the
\* tail is not restarted before every ping.
ClientsRetry == /\ WF_vars(Request)
                /\ SF_vars(TailRead /\ tail' = "ping") /\ SF_vars(TailPing)
                /\ SF_vars(TailWake /\ box' = "rising")
RetrySpec == Spec /\ ClientsRetry
-----------------------------------------------------------------------------
\* The variables have their types, and an age of a wake-up is never less than that of
\* the stamp.
TypeOK == /\ box \in {"awake", "falling", "asleep", "rising"}
          /\ armed \in BOOLEAN /\ failed \in BOOLEAN /\ fell \in BOOLEAN
          /\ activity \subseteq Activity
          /\ logAge \in 0 .. IdleTimeout
          /\ wolAge \in 0 .. Grace /\ wokeAge \in wolAge .. Grace
          /\ pingAge \in 0 .. SlowPing
          /\ interval \in {SlowPing, FastPing}
          /\ lines \in 0 .. MaxLines
          /\ tail \in {"read", "ping", "wake"}
          /\ step \in 0 .. Len(Steps)
          /\ lasting \subseteq activity

\* The watcher's command to sleep gets through.
Suspends == At("suspend") /\ box = "awake" /\ box' = "falling"

\* An activity that lasted from the beginning of a pass to its end keeps the
\* box awake, when ssh works ("AND no active compute").
SparesLasting == [][Suspends /\ ~failed => lasting = {}]_vars

\* The same whether ssh works or not, as the script's header has it.
NoActiveCompute == [][Suspends => lasting = {}]_vars

\* Whatever ssh does, an opencode session or a local no-suspend flag that was
\* there for the whole pass is honoured.
OverrideHonoured == [][Suspends => lasting \cap Local = {}]_vars

\* The one freshly woken box that the watcher suspends is one that went to sleep and
\* was woken between the ping and the end of the same pass, for the grace period is
\* tested only once.  A wake-up by the tail at any other time, during an earlier part
\* of the pass or while ssh fails, is respected: the ping comes before that test.
GraceRespected == [][Suspends /\ ~fell => wokeAge >= Grace]_vars

\* The watcher never puts a box to sleep whose NIC would not wake it, unless an ssh
\* command has failed or the box has been asleep since the ping.
SleepsArmed == [][Suspends /\ ~failed /\ ~fell => armed]_vars

\* Clients that ask again wake the box in the end, in spite of the rate limit
\* on pings, of pings answered by a box on its way to sleep and of packets
\* sent too early.
RetriesWake == (box = "asleep" /\ armed) ~> box = "awake"
=============================================================================

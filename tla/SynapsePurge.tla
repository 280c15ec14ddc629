---------------------------- MODULE SynapsePurge ----------------------------
(***************************************************************************)
(* synapse-purge.sh, started by cron: weekly and monthly runs stop Synapse *)
(* for VACUUM FULL and start it again.  A run takes no lock, so that runs  *)
(* of two kinds may be at work at the same time; nothing that it calls is  *)
(* asked for its result.  PostgreSQL runs all the time and lets one        *)
(* statement at a time rewrite a table.                                    *)
(***************************************************************************)
EXTENDS Naturals, Sequences, FiniteSets

CONSTANTS Job,         \* the runs there may be at a time, one of each mode
          Statements,  \* Statements[j]: what the mode of j makes of this script
          MaxTrouble   \* bound: kills and failing docker commands

\* The steps of a mode; VACUUM and ANALYZE, "tidy", leave Synapse alone.
Step == {"tidy", "stop", "full", "start"}

\* Every stop of a mode is followed by a start, and VACUUM FULL comes between them.
WellFormed(s) ==
    \A i \in 1 .. Len(s) :
        /\ s[i] = "stop" => \E k \in i + 1 .. Len(s) : s[k] = "start"
        /\ s[i] = "full" => \E k \in 1 .. i - 1 :
               s[k] = "stop" /\ \A m \in k + 1 .. i - 1 : s[m] = "full"
        /\ s[i] = "start" => \E k \in 1 .. i - 1 :
               s[k] = "stop" /\ \A m \in k + 1 .. i - 1 : s[m] = "full"

ASSUME PurgeAssumption == /\ \A j \in Job : Statements[j] \in Seq(Step)
                                            /\ Len(Statements[j]) > 0
                                            /\ WellFormed(Statements[j])
                          /\ MaxTrouble \in Nat

VARIABLES synapse,    \* its container is up
          at,         \* at[j]: the statement j is at, 0 when it does not run
          trouble,    \* what has gone wrong so far
          stopped,    \* history: j has stopped Synapse and not yet started it again
          spoilt,     \* history: j's stop failed, or another run started Synapse since
          abandoned   \* history: a run that had stopped Synapse will not start it

purge == <<at, trouble, stopped, spoilt, abandoned>>
purgeVars == <<synapse, purge>>

PurgeInit == /\ synapse = TRUE /\ at = [j \in Job |-> 0] /\ trouble = 0
             /\ stopped = [j \in Job |-> FALSE] /\ spoilt = [j \in Job |-> FALSE]
             /\ abandoned = FALSE
-----------------------------------------------------------------------------
Goes(j, what) == at[j] > 0 /\ Statements[j][at[j]] = what

\* Mutant: nothing ends the run.
AdvancePast(j) == at' = [at EXCEPT ![j] = @ + 1]

\* The next statement; after the last one the run ends.
Advance(j) == at' = [at EXCEPT ![j] = IF @ = Len(Statements[j]) THEN 0 ELSE @ + 1]

Trouble == trouble < MaxTrouble /\ trouble' = trouble + 1

\* Mutant: a run wants Synapse up.
LaunchIfUp(j) == /\ at[j] = 0 /\ synapse
                 /\ at' = [at EXCEPT ![j] = 1]
                 /\ UNCHANGED <<synapse, trouble, stopped, spoilt, abandoned>>

\* cron, or an administrator, starts a run.
Launch(j) == /\ at[j] = 0
             /\ at' = [at EXCEPT ![j] = 1]
             /\ UNCHANGED <<synapse, trouble, stopped, spoilt, abandoned>>

\* VACUUM and ANALYZE, one table after the other.
Tidy(j) == /\ Goes(j, "tidy")
           /\ Advance(j)
           /\ UNCHANGED <<synapse, trouble, stopped, spoilt, abandoned>>

\* Mutant: the stop is not waited for.
StopLater(j) == /\ Goes(j, "stop")
                /\ stopped' = [stopped EXCEPT ![j] = TRUE]
                /\ Advance(j)
                /\ UNCHANGED <<synapse, trouble, spoilt, abandoned>>

\* docker compose stop
StopSynapse(j) == /\ Goes(j, "stop")
                  /\ synapse' = FALSE
                  /\ stopped' = [stopped EXCEPT ![j] = TRUE]
                  /\ Advance(j)
                  /\ UNCHANGED <<trouble, spoilt, abandoned>>

StopFails(j) == /\ Goes(j, "stop") /\ Trouble
                /\ stopped' = [stopped EXCEPT ![j] = TRUE]
                /\ spoilt' = [spoilt EXCEPT ![j] = TRUE]
                /\ Advance(j)
                /\ UNCHANGED <<synapse, abandoned>>

\* VACUUM FULL of one table, whether or not Synapse is down.
RewriteTable(j) == /\ Goes(j, "full")
                   /\ Advance(j)
                   /\ UNCHANGED <<synapse, trouble, stopped, spoilt, abandoned>>

\* Mutant: the start is left to another run that is still at work.
StartLeft(j) == /\ Goes(j, "start")
                /\ synapse' = (synapse \/ \A k \in Job \ {j} : at[k] = 0)
                /\ stopped' = [stopped EXCEPT ![j] = FALSE]
                /\ spoilt' = [spoilt EXCEPT ![j] = FALSE]
                /\ abandoned' = FALSE
                /\ Advance(j)
                /\ UNCHANGED trouble

\* docker compose start: for all runs that have stopped it.
StartSynapse(j) == /\ Goes(j, "start")
                   /\ synapse' = TRUE
                   /\ stopped' = [stopped EXCEPT ![j] = FALSE]
                   /\ spoilt' = [k \in Job |-> k # j /\ (spoilt[k] \/ stopped[k])]
                   /\ abandoned' = FALSE
                   /\ Advance(j)
                   /\ UNCHANGED trouble

StartFails(j) == /\ Goes(j, "start") /\ Trouble
                 /\ stopped' = [stopped EXCEPT ![j] = FALSE]
                 /\ spoilt' = [spoilt EXCEPT ![j] = FALSE]
                 /\ abandoned' = TRUE
                 /\ Advance(j)
                 /\ UNCHANGED synapse

\* The run is killed, or the host goes down; the container stays as it is
\* (restart: unless-stopped).
Killed(j) == /\ at[j] > 0 /\ Trouble
             /\ at' = [at EXCEPT ![j] = 0]
             /\ abandoned' = (abandoned \/ stopped[j])
             /\ stopped' = [stopped EXCEPT ![j] = FALSE]
             /\ spoilt' = [spoilt EXCEPT ![j] = FALSE]
             /\ UNCHANGED synapse

Purging(j) == Tidy(j) \/ StopSynapse(j) \/ RewriteTable(j) \/ StartSynapse(j)

PurgeNext == \E j \in Job : \/ Launch(j) \/ Purging(j)
                            \/ StopFails(j) \/ StartFails(j) \/ Killed(j)

PurgeSpec == PurgeInit /\ [][PurgeNext]_purgeVars

\* A run goes on to its end; cron starts each kind again and again.
PurgeFairness == \A j \in Job : WF_purgeVars(Launch(j)) /\ WF_purgeVars(Purging(j))
-----------------------------------------------------------------------------
\* The variables have their types.
PurgeTypeOK == /\ synapse \in BOOLEAN /\ abandoned \in BOOLEAN
               /\ at \in [Job -> Nat] /\ \A j \in Job : at[j] <= Len(Statements[j])
               /\ trouble \in 0 .. MaxTrouble
               /\ stopped \in [Job -> BOOLEAN] /\ spoilt \in [Job -> BOOLEAN]

\* "Synapse started": however the runs overlap, Synapse is down only while a run
\* that will start it is between its stop and its start, or after one that was
\* killed there or whose start failed.
NotLeftDown == synapse \/ abandoned \/ \E j \in Job : stopped[j] /\ at[j] > 0

\* "VACUUM FULL (Synapse will be stopped)": a table is rewritten under a running
\* Synapse only by a run whose stop failed or that another run has overtaken with
\* its start.
RewrittenWhileDown == \A j \in Job : Goes(j, "full") /\ synapse => spoilt[j]

\* A Synapse left down by a killed run, or by a start that failed, does not stay
\* down: the next weekly or monthly run starts it.
UpAgain == ~synapse ~> synapse
=============================================================================

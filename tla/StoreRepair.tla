---------------------------- MODULE StoreRepair ----------------------------
(***************************************************************************)
(* matrix-device-health.sh, once a day: in the store of every room it      *)
(* removes the mark "deleted" from devices the homeserver still knows, and *)
(* restarts the pipes runner when it has removed one.  The runner has the  *)
(* stores in memory, and its sync loop goes on marking devices, in memory  *)
(* and in the database, while the script works.                            *)
(***************************************************************************)
EXTENDS Naturals, FiniteSets

CONSTANTS Store,      \* the rooms of the runner, one store each
          Device,     \* the devices of their members
          Owner,      \* Owner[d]: whose device d is
          MaxFaults   \* bound: how often something fails

ASSUME StoreRepairAssumption == IsFiniteSet(Device) /\ MaxFaults \in Nat

VARIABLES live,       \* the devices the homeserver knows
          notice,     \* notice[s]: users whose devices have changed, not yet seen by s
          disk,       \* disk[s]: the devices with deleted = 1 in the database
          mem,        \* mem[s]: those the running runner takes for deleted
          pc,         \* where the script is
          stores,     \* the stores it has still to look at
          room,       \* STORE_DB
          listed,     \* DELETED_DEVICES, without the lines already read
          users,      \* USERS, without those already asked for
          alive,      \* LIVE_DEVICES
          changed,    \* CHANGED_COUNT > 0
          faults,     \* what has failed so far
          lived,      \* history: the devices that were live in this run
          cut         \* history: a run ended with a change and no restart

server == <<live, notice>>
script == <<pc, stores, room, listed, users, alive, changed>>
vars   == <<server, disk, mem, script, faults, lived, cut>>

User        == {Owner[d] : d \in Device}
DevicesOf(u) == {d \in Device : Owner[d] = u}

\* A store that holds a wrong mark from before is one that loses a cache first.
Init == /\ live = Device /\ notice = [s \in Store |-> {}]
        /\ disk = [s \in Store |-> {}] /\ mem = disk
        /\ pc = "idle" /\ stores = {} /\ room \in Store
        /\ listed = {} /\ users = {} /\ alive = {} /\ changed = FALSE
        /\ faults = 0 /\ lived = {} /\ cut = FALSE
-----------------------------------------------------------------------------
\* Something fails that may.
Fails == faults < MaxFaults /\ faults' = faults + 1

\* A member logs a device out: every store will hear of it.
LogOut(d) == /\ d \in live
             /\ live' = live \ {d}
             /\ notice' = [s \in Store |-> notice[s] \cup {Owner[d]}]
             /\ UNCHANGED <<disk, mem, script, faults, lived, cut>>

\* The runner asks for the keys of a user and marks the devices that are missing
\* from the answer, in memory and in the database; it never removes a mark.
MarkMissing(s, u, answer) ==
    LET missing == DevicesOf(u) \ answer
    IN  /\ mem'  = [mem EXCEPT ![s] = @ \cup missing]
        /\ disk' = [disk EXCEPT ![s] = @ \cup missing]

Sync(s, u) == /\ u \in notice[s]
              /\ MarkMissing(s, u, live)
              /\ notice' = [notice EXCEPT ![s] = @ \ {u}]
              /\ UNCHANGED <<live, script, faults, lived, cut>>

\* The same with an answer from an empty federation key cache.
SyncLost(s, u) == /\ Fails
                  /\ MarkMissing(s, u, {})
                  /\ notice' = [notice EXCEPT ![s] = @ \ {u}]
                  /\ UNCHANGED <<live, script, lived, cut>>

\* The runner starts anew for a reason of its own and loads the stores.
RunnerStarts == /\ mem' = disk
                /\ cut' = FALSE
                /\ UNCHANGED <<server, disk, script, faults, lived>>
-----------------------------------------------------------------------------
\* The script starts and gets its token; if not, it exits and nothing has changed.
Begin == /\ pc = "idle"
         /\ pc' = "stores" /\ stores' = Store /\ changed' = FALSE
         /\ lived' = live
         /\ UNCHANGED <<server, disk, mem, room, listed, users, alive, cut, faults>>

\* Mutant: the second column is taken for the user.
ListColumn(s) == /\ pc = "stores" /\ s \in stores
                 /\ stores' = stores \ {s} /\ room' = s
                 /\ listed' = disk[s] /\ alive' = {}
                 /\ users' = disk[s]
                 /\ pc' = IF disk[s] = {} THEN "stores" ELSE "query"
                 /\ UNCHANGED <<server, disk, mem, changed, lived, cut, faults>>

\* The next store: its marks and whose devices they are, if there are any.
ListStore(s) == /\ pc = "stores" /\ s \in stores
                /\ stores' = stores \ {s} /\ room' = s
                /\ listed' = disk[s] /\ alive' = {}
                /\ users' = {Owner[d] : d \in disk[s]}
                /\ pc' = IF disk[s] = {} THEN "stores" ELSE "query"
                /\ UNCHANGED <<server, disk, mem, changed, lived, cut, faults>>

\* A database that cannot be read looks like one without marks.
ListFails(s) == /\ pc = "stores" /\ s \in stores /\ Fails
                /\ stores' = stores \ {s} /\ room' = s
                /\ UNCHANGED <<server, disk, mem, pc, listed, users, alive, changed, lived, cut>>

\* The user's devices, according to the homeserver.
Query(u) == /\ pc = "query" /\ u \in users
            /\ users' = users \ {u}
            /\ alive' = alive \cup (live \cap DevicesOf(u))
            /\ UNCHANGED <<server, disk, mem, pc, stores, room, listed, changed, lived, cut, faults>>

\* Mutant: no answer, and the marks are removed.
QueryTrusts(u) == /\ pc = "query" /\ u \in users /\ Fails
                  /\ users' = users \ {u}
                  /\ alive' = alive \cup DevicesOf(u)
                  /\ UNCHANGED <<server, disk, mem, pc, stores, room, listed, changed, lived, cut>>

\* No answer, or none that is JSON: the user has no devices.
QueryFails(u) == /\ pc = "query" /\ u \in users /\ Fails
                 /\ users' = users \ {u}
                 /\ UNCHANGED <<server, disk, mem, pc, stores, room, listed, alive, changed,
                                lived, cut>>

QueriesDone == /\ pc = "query" /\ users = {}
               /\ pc' = "unmark"
               /\ UNCHANGED <<server, disk, mem, stores, room, listed, users, alive, changed,
                              lived, cut, faults>>

\* Mutant: the loop runs in a subshell, and its count is lost.
UnmarkInSubshell(d) ==
    /\ pc = "unmark" /\ d \in listed \cap alive
    /\ disk' = [disk EXCEPT ![room] = @ \ {d}]
    /\ listed' = listed \ {d}
    /\ UNCHANGED <<server, mem, pc, stores, room, users, alive, changed, lived, cut, faults>>

\* A listed device that is live loses its mark ...
Unmark(d) == /\ pc = "unmark" /\ d \in listed \cap alive
             /\ disk' = [disk EXCEPT ![room] = @ \ {d}]
             /\ listed' = listed \ {d} /\ changed' = TRUE
             /\ UNCHANGED <<server, mem, pc, stores, room, users, alive, lived, cut, faults>>

\* ... or the database is locked by the runner: it is counted all the same.
UnmarkFails(d) == /\ pc = "unmark" /\ d \in listed \cap alive /\ Fails
                  /\ listed' = listed \ {d} /\ changed' = TRUE
                  /\ UNCHANGED <<server, disk, mem, pc, stores, room, users, alive, lived, cut>>

\* Mutant: a device that is gone ends the run.
StopAtGone == /\ pc = "unmark" /\ listed \cap alive = {}
              /\ stores' = IF listed = {} THEN stores ELSE {}
              /\ listed' = {} /\ alive' = {} /\ pc' = "stores"
              /\ UNCHANGED <<server, disk, mem, room, users, changed, lived, cut, faults>>

\* The others keep theirs, and it is the next store's turn.
KeepOthers == /\ pc = "unmark" /\ listed \cap alive = {}
              /\ listed' = {} /\ alive' = {} /\ pc' = "stores"
              /\ UNCHANGED <<server, disk, mem, stores, room, users, changed, lived, cut, faults>>
-----------------------------------------------------------------------------
EndRun == pc' = "idle" /\ stores' = {} /\ listed' = {} /\ users' = {} /\ alive' = {}
          /\ changed' = FALSE /\ lived' = {}

NothingFound == /\ pc = "stores" /\ stores = {} /\ ~changed
                /\ EndRun
                /\ UNCHANGED <<server, disk, mem, room, cut, faults>>

\* The runner is restarted and loads the stores.
Restart == /\ pc = "stores" /\ stores = {} /\ changed
           /\ mem' = disk
           /\ EndRun
           /\ cut' = FALSE
           /\ UNCHANGED <<server, disk, room, faults>>

\* The restart fails, unnoticed, or the script is killed at any point.
CutOff == /\ pc # "idle" /\ Fails
          /\ EndRun
          /\ cut' = (cut \/ changed)
          /\ UNCHANGED <<server, disk, mem, room>>

Health == \/ Begin \/ NothingFound \/ Restart \/ QueriesDone \/ KeepOthers
          \/ \E s \in Store  : ListStore(s)
          \/ \E u \in User   : Query(u)
          \/ \E d \in Device : Unmark(d)

Fault == \/ CutOff
         \/ \E s \in Store  : ListFails(s)
         \/ \E u \in User   : QueryFails(u)
         \/ \E d \in Device : UnmarkFails(d)

Runner == \/ RunnerStarts
          \/ \E s \in Store, u \in User : Sync(s, u) \/ SyncLost(s, u)

Next == Health \/ Fault \/ Runner \/ \E d \in Device : LogOut(d)

Spec == Init /\ [][Next]_vars

\* cron starts the script every day, and it goes on to its end.
FairSpec == Spec /\ WF_vars(Health)
-----------------------------------------------------------------------------
\* The variables have their types.
TypeOK == /\ live \subseteq Device /\ notice \in [Store -> SUBSET User]
          /\ faults \in 0 .. MaxFaults
          /\ disk \in [Store -> SUBSET Device] /\ mem \in [Store -> SUBSET Device]
          /\ pc \in {"idle", "stores", "query", "unmark"}
          /\ stores \subseteq Store /\ room \in Store
          /\ listed \subseteq Device /\ users \subseteq User /\ alive \subseteq Device
          /\ changed \in BOOLEAN /\ cut \in BOOLEAN
          /\ lived \subseteq Device

\* "After changes the single pipes-runner container is restarted so the stores are
\* reloaded": between two runs the runner has the marks of its databases, whatever it
\* has marked while the script was at work and whatever failed, unless a run was cut
\* off; and at no time does it miss one.
InStep == \A s \in Store : /\ disk[s] \subseteq mem[s]
                           /\ pc = "idle" /\ ~cut => mem[s] = disk[s]

\* "unmarks devices that still exist on the server": no mark is removed of a device
\* the homeserver did not know in this run, however its answers fail.
OnlyLiveUnmarked == [][\A s \in Store : disk[s] \ disk'[s] \subseteq lived]_vars

\* A live device that the runner takes for deleted does not stay without keys: a
\* daily run repairs it once queries, updates and reads have stopped failing, unless
\* a run was cut off between the update and the restart.
Repaired == \A s \in Store, d \in Device :
                (d \in live /\ d \in mem[s]) ~> (d \notin live \/ d \notin mem[s] \/ cut)
=============================================================================

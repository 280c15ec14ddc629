-------------------------- MODULE StoreRepairProofs --------------------------
(***************************************************************************)
(* The safety of StoreRepair for every set of stores and devices and any   *)
(* number of faults.                                                       *)
(***************************************************************************)
EXTENDS StoreRepair, TLAPS

USE StoreRepairAssumption
-----------------------------------------------------------------------------
\* The runner has every mark of its databases, and no other as long as the script
\* has neither removed one nor was cut off after it had.
Reloaded == \A s \in Store : /\ disk[s] \subseteq mem[s]
                             /\ ~changed /\ ~cut => mem[s] = disk[s]

\* Between two runs nothing is counted.
IdleUnchanged == pc = "idle" => ~changed

\* The script trusts answers of this run only, and those name devices that lived in it.
AnswersOfThisRun == /\ alive \subseteq lived
                    /\ IF pc = "idle" THEN alive = {} ELSE live \subseteq lived

RepairInv == TypeOK /\ Reloaded /\ IdleUnchanged /\ AnswersOfThisRun
-----------------------------------------------------------------------------
LEMMA TypeStep == TypeOK /\ [Next]_vars => TypeOK'
<1> SUFFICES ASSUME TypeOK, [Next]_vars
             PROVE  TypeOK'
  OBVIOUS
<1> USE DEF server, script, vars
<1>1. ASSUME NEW d \in Device, LogOut(d)
      PROVE  TypeOK'
  <2>1. Owner[d] \in User
    BY DEF User
  <2>2. notice' \in [Store -> SUBSET User] /\ live' \subseteq Device
    BY <1>1, <2>1 DEF LogOut, TypeOK
  <2>3. QED
    BY <1>1, <2>2 DEF LogOut, TypeOK
<1>2. ASSUME NEW s \in Store, NEW u \in User, Sync(s, u) \/ SyncLost(s, u)
      PROVE  TypeOK'
  <2>1. PICK missing \in SUBSET Device :
           /\ mem'  = [mem EXCEPT ![s] = @ \cup missing]
           /\ disk' = [disk EXCEPT ![s] = @ \cup missing]
    BY <1>2 DEF Sync, SyncLost, MarkMissing, DevicesOf
  <2>2. notice' = [notice EXCEPT ![s] = @ \ {u}] /\ faults' \in 0 .. MaxFaults
    BY <1>2 DEF Sync, SyncLost, Fails, TypeOK
  <2>3. /\ mem' \in [Store -> SUBSET Device] /\ disk' \in [Store -> SUBSET Device]
        /\ notice' \in [Store -> SUBSET User]
    BY <2>1, <2>2 DEF TypeOK
  <2>4. UNCHANGED <<live, script, lived, cut>>
    BY <1>2 DEF Sync, SyncLost
  <2>5. QED
    BY <2>2, <2>3, <2>4 DEF TypeOK
<1>3. CASE RunnerStarts
  BY <1>3 DEF RunnerStarts, TypeOK
<1>4. CASE Begin \/ NothingFound \/ Restart \/ QueriesDone \/ KeepOthers
  <2>1. CASE Begin
    BY <2>1 DEF Begin, TypeOK
  <2>2. CASE NothingFound
    BY <2>2 DEF NothingFound, EndRun, TypeOK
  <2>3. CASE Restart
    BY <2>3 DEF Restart, EndRun, TypeOK
  <2>4. CASE QueriesDone
    BY <2>4 DEF QueriesDone, TypeOK
  <2>5. CASE KeepOthers
    BY <2>5 DEF KeepOthers, TypeOK
  <2>6. QED
    BY <1>4, <2>1, <2>2, <2>3, <2>4, <2>5
<1>5. ASSUME NEW s \in Store, ListStore(s) \/ ListFails(s)
      PROVE  TypeOK'
  <2>1. disk[s] \subseteq Device /\ {Owner[d] : d \in disk[s]} \subseteq User
    BY DEF TypeOK, User
  <2>2. CASE ListStore(s)
    BY <2>1, <2>2 DEF ListStore, TypeOK
  <2>3. CASE ListFails(s)
    BY <2>3 DEF ListFails, Fails, TypeOK
  <2>4. QED
    BY <1>5, <2>2, <2>3
<1>6. ASSUME NEW u \in User, Query(u) \/ QueryFails(u)
      PROVE  TypeOK'
  <2>1. CASE Query(u)
    BY <2>1 DEF Query, TypeOK
  <2>2. CASE QueryFails(u)
    BY <2>2 DEF QueryFails, Fails, TypeOK
  <2>3. QED
    BY <1>6, <2>1, <2>2
<1>7. ASSUME NEW d \in Device, Unmark(d) \/ UnmarkFails(d)
      PROVE  TypeOK'
  <2>1. CASE Unmark(d)
    BY <2>1 DEF Unmark, TypeOK
  <2>2. CASE UnmarkFails(d)
    BY <2>2 DEF UnmarkFails, Fails, TypeOK
  <2>3. QED
    BY <1>7, <2>1, <2>2
<1>8. CASE CutOff
  <2>1. cut' \in BOOLEAN /\ changed' \in BOOLEAN
    BY <1>8 DEF CutOff, EndRun, TypeOK
  <2>2. QED
    BY <1>8, <2>1 DEF CutOff, EndRun, Fails, TypeOK
<1>9. CASE UNCHANGED vars
  BY <1>9 DEF TypeOK
<1>10. QED
  BY <1>1, <1>2, <1>3, <1>4, <1>5, <1>6, <1>7, <1>8, <1>9 DEF Next, Health, Fault, Runner
-----------------------------------------------------------------------------
\* The runner marks in memory and in its database alike.
LEMMA SyncKeeps == ASSUME RepairInv, NEW s \in Store, NEW u \in User,
                          Sync(s, u) \/ SyncLost(s, u)
                   PROVE  Reloaded'
<1>1. PICK missing :
         /\ mem'  = [mem EXCEPT ![s] = @ \cup missing]
         /\ disk' = [disk EXCEPT ![s] = @ \cup missing]
  BY DEF Sync, SyncLost, MarkMissing
<1>2. changed' = changed /\ cut' = cut
  BY DEF Sync, SyncLost, script
<1>3. QED
  BY <1>1, <1>2 DEF RepairInv, Reloaded, TypeOK

LEMMA RepairStep == RepairInv /\ [Next]_vars => RepairInv'
<1> SUFFICES ASSUME RepairInv, [Next]_vars
             PROVE  RepairInv'
  OBVIOUS
<1>0. TypeOK'
  BY TypeStep DEF RepairInv
<1> USE <1>0 DEF server, script, vars
<1>1. ASSUME NEW d \in Device, LogOut(d)
      PROVE  RepairInv'
  BY <1>1 DEF LogOut, RepairInv, Reloaded, IdleUnchanged, AnswersOfThisRun
<1>2. ASSUME NEW s \in Store, NEW u \in User, Sync(s, u) \/ SyncLost(s, u)
      PROVE  RepairInv'
  <2>1. Reloaded'
    BY <1>2, SyncKeeps
  <2>2. IdleUnchanged' /\ AnswersOfThisRun'
    BY <1>2 DEF Sync, SyncLost, RepairInv, IdleUnchanged, AnswersOfThisRun
  <2>3. QED
    BY <2>1, <2>2 DEF RepairInv
<1>3. CASE RunnerStarts \/ Restart
  <2>1. Reloaded'
    BY <1>3 DEF RunnerStarts, Restart, Reloaded
  <2>2. IdleUnchanged' /\ AnswersOfThisRun'
    BY <1>3 DEF RunnerStarts, Restart, EndRun, RepairInv, IdleUnchanged, AnswersOfThisRun
  <2>3. QED
    BY <2>1, <2>2 DEF RepairInv
<1>4. CASE Begin
  <2>1. Reloaded' /\ IdleUnchanged'
    BY <1>4 DEF Begin, RepairInv, Reloaded, IdleUnchanged
  <2>2. AnswersOfThisRun'
    BY <1>4 DEF Begin, RepairInv, AnswersOfThisRun
  <2>3. QED
    BY <2>1, <2>2 DEF RepairInv
<1>5. CASE NothingFound \/ CutOff
  <2>1. Reloaded'
    <3>1. disk' = disk /\ mem' = mem
      BY <1>5 DEF NothingFound, CutOff
    <3>2. ~changed' /\ ~cut' => ~changed /\ ~cut
      BY <1>5 DEF NothingFound, CutOff
    <3>3. QED
      BY <3>1, <3>2 DEF RepairInv, Reloaded
  <2>2. IdleUnchanged' /\ AnswersOfThisRun'
    BY <1>5 DEF NothingFound, CutOff, EndRun, IdleUnchanged, AnswersOfThisRun
  <2>3. QED
    BY <2>1, <2>2 DEF RepairInv
<1>6. CASE QueriesDone \/ KeepOthers
  BY <1>6 DEF QueriesDone, KeepOthers, RepairInv, Reloaded, IdleUnchanged, AnswersOfThisRun
<1>7. ASSUME NEW s \in Store, ListStore(s) \/ ListFails(s)
      PROVE  RepairInv'
  BY <1>7 DEF ListStore, ListFails, RepairInv, Reloaded, IdleUnchanged, AnswersOfThisRun
<1>8. ASSUME NEW u \in User, Query(u) \/ QueryFails(u)
      PROVE  RepairInv'
  BY <1>8 DEF Query, QueryFails, RepairInv, Reloaded, IdleUnchanged, AnswersOfThisRun
<1>9. ASSUME NEW d \in Device, Unmark(d) \/ UnmarkFails(d)
      PROVE  RepairInv'
  <2>1. Reloaded'
    <3>1. changed'
      BY <1>9 DEF Unmark, UnmarkFails
    <3>2. mem' = mem
      BY <1>9 DEF Unmark, UnmarkFails
    <3>3. \/ disk' = disk
          \/ disk' = [disk EXCEPT ![room] = @ \ {d}]
      BY <1>9 DEF Unmark, UnmarkFails
    <3>4. \A s \in Store : disk'[s] \subseteq disk[s]
      BY <3>3 DEF RepairInv, TypeOK
    <3>5. QED
      BY <3>1, <3>2, <3>4 DEF RepairInv, Reloaded
  <2>2. IdleUnchanged' /\ AnswersOfThisRun'
    BY <1>9 DEF Unmark, UnmarkFails, RepairInv, IdleUnchanged, AnswersOfThisRun
  <2>3. QED
    BY <2>1, <2>2 DEF RepairInv
<1>10. CASE UNCHANGED vars
  BY <1>10 DEF RepairInv, Reloaded, IdleUnchanged, AnswersOfThisRun
<1>11. QED
  BY <1>1, <1>2, <1>3, <1>4, <1>5, <1>6, <1>7, <1>8, <1>9, <1>10
  DEF Next, Health, Fault, Runner

LEMMA RepairInit == Init => RepairInv
<1>1. Init => TypeOK
  <2> SUFFICES ASSUME Init
               PROVE  TypeOK
    OBVIOUS
  <2>1. changed \in BOOLEAN /\ cut \in BOOLEAN
    BY DEF Init
  <2>2. QED
    BY <2>1 DEF Init, TypeOK
<1>2. QED
  BY <1>1 DEF Init, RepairInv, Reloaded, IdleUnchanged, AnswersOfThisRun

LEMMA RepairAlways == Spec => []RepairInv
BY RepairInit, RepairStep, PTL DEF Spec
-----------------------------------------------------------------------------
\* The variables have their types.
THEOREM TypeCorrect == Spec => []TypeOK
<1>1. RepairInv => TypeOK
  BY DEF RepairInv
<1>2. QED
  BY <1>1, RepairAlways, PTL

\* Between two runs the runner has the marks of its databases, unless a run was cut
\* off, and it never lacks one.
THEOREM RunnerInStep == Spec => []InStep
<1>1. RepairInv => InStep
  BY DEF RepairInv, Reloaded, IdleUnchanged, InStep
<1>2. QED
  BY <1>1, RepairAlways, PTL

\* No mark is removed of a device the homeserver did not know in this run.
THEOREM UnmarksLive == Spec => OnlyLiveUnmarked
<1>1. RepairInv /\ [Next]_vars => [\A s \in Store : disk[s] \ disk'[s] \subseteq lived]_vars
  <2> SUFFICES ASSUME RepairInv, [Next]_vars, NEW s \in Store
               PROVE  disk[s] \ disk'[s] \subseteq lived
    OBVIOUS
  <2>1. ASSUME NEW d \in Device, Unmark(d)
        PROVE  disk[s] \ disk'[s] \subseteq lived
    <3>1. d \in lived
      BY <2>1 DEF Unmark, RepairInv, AnswersOfThisRun
    <3>2. QED
      BY <2>1, <3>1 DEF Unmark, RepairInv, TypeOK
  <2>2. ASSUME NEW r \in Store, NEW u \in User, Sync(r, u) \/ SyncLost(r, u)
        PROVE  disk[s] \subseteq disk'[s]
    BY <2>2 DEF Sync, SyncLost, MarkMissing, RepairInv, TypeOK
  <2>3. CASE \/ \E d \in Device : LogOut(d) \/ UnmarkFails(d)
             \/ \E r \in Store : ListStore(r) \/ ListFails(r)
             \/ \E u \in User : Query(u) \/ QueryFails(u)
             \/ RunnerStarts \/ Begin \/ NothingFound \/ Restart \/ QueriesDone
             \/ KeepOthers \/ CutOff \/ UNCHANGED vars
    <3>1. disk' = disk
      BY <2>3 DEF LogOut, UnmarkFails, ListStore, ListFails, Query, QueryFails, RunnerStarts,
                  Begin, NothingFound, Restart, QueriesDone, KeepOthers, CutOff, vars
    <3>2. QED
      BY <3>1
  <2>4. QED
    BY <2>1, <2>2, <2>3 DEF Next, Health, Fault, Runner
<1>2. QED
  BY <1>1, RepairAlways, PTL DEF Spec, OnlyLiveUnmarked
=============================================================================

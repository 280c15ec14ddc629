-------------------------- MODULE MatrixCareProofs --------------------------
(***************************************************************************)
(* The maintenance of one Matrix server, for all modes of the cleanup that *)
(* are well formed, any number of overlapping runs, rooms, members and     *)
(* faults.                                                                 *)
(***************************************************************************)
EXTENDS MatrixCare, TLAPS

USE PurgeAssumption, RecreateAssumption
-----------------------------------------------------------------------------
Statement(j) == Statements[j][at[j]]

\* A run that has stopped Synapse has the start before it ...
StartAhead == \A j \in Job : stopped[j] =>
    at[j] > 0 /\ \E k \in at[j] .. Len(Statements[j]) : Statements[j][k] = "start"

\* ... one at VACUUM FULL or at the start has come from its own stop ...
CameFromStop == \A j \in Job :
    at[j] > 0 /\ Statement(j) \in {"full", "start"} => stopped[j]

\* ... and if Synapse is up all the same, its stop was in vain.
InVain == \A j \in Job : stopped[j] /\ synapse => spoilt[j]

PurgeInv == PurgeTypeOK /\ StartAhead /\ CameFromStop /\ InVain /\ NotLeftDown
-----------------------------------------------------------------------------
\* Where a run gets to with its next statement.
LEMMA AdvanceType ==
    ASSUME PurgeTypeOK, NEW j \in Job, at[j] > 0, Advance(j)
    PROVE  /\ at' \in [Job -> Nat] /\ \A i \in Job : at'[i] <= Len(Statements[i])
           /\ \A i \in Job \ {j} : at'[i] = at[i]
           /\ at'[j] = IF at[j] = Len(Statements[j]) THEN 0 ELSE at[j] + 1
BY DEF PurgeTypeOK, Advance

\* The types hold on.
LEMMA PurgeTypeStep == PurgeTypeOK /\ [PurgeNext]_purgeVars => PurgeTypeOK'
<1> SUFFICES ASSUME PurgeTypeOK, [PurgeNext]_purgeVars
             PROVE  PurgeTypeOK'
  OBVIOUS
<1>1. ASSUME NEW j \in Job, Launch(j)
      PROVE  PurgeTypeOK'
  BY <1>1 DEF Launch, PurgeTypeOK
<1>2. ASSUME NEW j \in Job, Purging(j) \/ StopFails(j) \/ StartFails(j)
      PROVE  PurgeTypeOK'
  <2>1. at[j] > 0 /\ Advance(j)
    BY <1>2 DEF Purging, Tidy, StopSynapse, RewriteTable, StartSynapse, StopFails,
                StartFails, Goes
  <2>2. at' \in [Job -> Nat] /\ \A i \in Job : at'[i] <= Len(Statements[i])
    BY <2>1, AdvanceType
  <2>3. CASE Tidy(j) \/ RewriteTable(j)
    BY <2>2, <2>3 DEF Tidy, RewriteTable, PurgeTypeOK
  <2>4. CASE StopSynapse(j)
    BY <2>2, <2>4 DEF StopSynapse, PurgeTypeOK
  <2>5. CASE StartSynapse(j)
    <3>1. spoilt' \in [Job -> BOOLEAN] /\ stopped' \in [Job -> BOOLEAN]
      BY <2>5 DEF StartSynapse, PurgeTypeOK
    <3>2. QED
      BY <2>2, <2>5, <3>1 DEF StartSynapse, PurgeTypeOK
  <2>6. CASE StartFails(j)
    BY <2>2, <2>6 DEF StartFails, Trouble, PurgeTypeOK
  <2>7. CASE StopFails(j)
    BY <2>2, <2>7 DEF StopFails, Trouble, PurgeTypeOK
  <2>8. QED
    BY <1>2, <2>3, <2>4, <2>5, <2>6, <2>7 DEF Purging
<1>3. ASSUME NEW j \in Job, Killed(j)
      PROVE  PurgeTypeOK'
  BY <1>3 DEF Killed, Trouble, PurgeTypeOK
<1>4. CASE UNCHANGED purgeVars
  BY <1>4 DEF purgeVars, purge, PurgeTypeOK
<1>5. QED
  BY <1>1, <1>2, <1>3, <1>4 DEF PurgeNext

\* What the well-formedness of a mode says of a run's statement i and the one after it.
LEMMA Successor ==
    ASSUME NEW j \in Job, NEW i \in 1 .. Len(Statements[j])
    PROVE  /\ i + 1 \in 1 .. Len(Statements[j]) /\ Statements[j][i + 1] \in {"full", "start"}
                  => Statements[j][i] \in {"stop", "full"}
           /\ Statements[j][i] = "stop" =>
                  \E k \in i + 1 .. Len(Statements[j]) : Statements[j][k] = "start"
           /\ Statements[j][1] \notin {"full", "start"}
<1> DEFINE s == Statements[j]
<1>1. /\ s \in Seq(Step) /\ Len(s) > 0 /\ WellFormed(s)
  OBVIOUS
<1>2. ASSUME NEW n \in 1 .. Len(s), s[n] \in {"full", "start"}
      PROVE  \E k \in 1 .. n - 1 : s[k] = "stop" /\ \A m \in k + 1 .. n - 1 : s[m] = "full"
  BY <1>1, <1>2 DEF WellFormed
<1>3. ASSUME i + 1 \in 1 .. Len(s), s[i + 1] \in {"full", "start"}
      PROVE  s[i] \in {"stop", "full"}
  <2>1. PICK k \in 1 .. (i + 1) - 1 :
             s[k] = "stop" /\ \A m \in k + 1 .. (i + 1) - 1 : s[m] = "full"
    BY <1>2, <1>3
  <2>2. k = i \/ i \in k + 1 .. (i + 1) - 1
    BY <1>1
  <2>3. QED
    BY <2>1, <2>2
<1>4. s[1] \notin {"full", "start"}
  <2>1. SUFFICES ASSUME s[1] \in {"full", "start"}
                 PROVE  FALSE
    OBVIOUS
  <2>2. 1 \in 1 .. Len(s)
    BY <1>1
  <2>3. \E k \in 1 .. 1 - 1 : s[k] = "stop"
    BY <1>2, <2>1, <2>2
  <2>4. QED
    BY <2>3
<1>5. s[i] = "stop" => \E k \in i + 1 .. Len(s) : s[k] = "start"
  BY <1>1 DEF WellFormed
<1>6. QED
  BY <1>3, <1>4, <1>5
-----------------------------------------------------------------------------
\* The cleanup's invariant holds on under every step of any run.
LEMMA PurgeStep == PurgeInv /\ [PurgeNext]_purgeVars => PurgeInv'
<1> SUFFICES ASSUME PurgeInv, [PurgeNext]_purgeVars
             PROVE  PurgeInv'
  OBVIOUS
<1> USE DEF PurgeInv, StartAhead, CameFromStop, InVain, NotLeftDown, Statement
<1>1. PurgeTypeOK'
  BY PurgeTypeStep
<1>2. CASE UNCHANGED purgeVars
  BY <1>2 DEF purgeVars, purge, PurgeTypeOK
<1>3. ASSUME NEW j \in Job, Launch(j)
      PROVE  PurgeInv'
  <2>1. at'[j] = 1 /\ \A i \in Job \ {j} : at'[i] = at[i]
    BY <1>3 DEF Launch, PurgeTypeOK
  <2>2. ~stopped[j]
    BY <1>3 DEF Launch, PurgeTypeOK
  <2>3. 1 \in 1 .. Len(Statements[j])
    BY DEF PurgeAssumption
  <2>4. Statements[j][1] \notin {"full", "start"}
    BY <2>3, Successor
  <2>5. QED
    BY <1>1, <1>3, <2>1, <2>2, <2>4 DEF Launch
<1>4. ASSUME NEW j \in Job, Killed(j)
      PROVE  PurgeInv'
  BY <1>1, <1>4 DEF Killed, PurgeTypeOK
<1>5. ASSUME NEW j \in Job, Purging(j) \/ StopFails(j) \/ StartFails(j)
      PROVE  PurgeInv'
  <2>1. at[j] > 0 /\ Advance(j)
    BY <1>5 DEF Purging, Tidy, StopSynapse, RewriteTable, StartSynapse, StopFails,
                StartFails, Goes
  <2>2. /\ at[j] \in 1 .. Len(Statements[j])
        /\ \A i \in Job \ {j} : at'[i] = at[i]
        /\ at'[j] = IF at[j] = Len(Statements[j]) THEN 0 ELSE at[j] + 1
    BY <2>1, AdvanceType DEF PurgeTypeOK
  <2>3. at'[j] > 0 /\ Statements[j][at'[j]] \in {"full", "start"}
           => Statement(j) \in {"stop", "full"}
    BY <2>2, Successor
  <2>4. ASSUME stopped[j], Statement(j) # "start"
        PROVE  at'[j] > 0 /\ \E k \in at'[j] .. Len(Statements[j]) :
                                 Statements[j][k] = "start"
    <3>1. PICK k \in at[j] .. Len(Statements[j]) : Statements[j][k] = "start"
      BY <2>4
    <3>2. k # at[j]
      BY <2>4, <3>1
    <3>3. QED
      BY <2>2, <3>1, <3>2
  <2>5. ASSUME Statement(j) = "stop"
        PROVE  at'[j] > 0 /\ \E k \in at'[j] .. Len(Statements[j]) :
                                 Statements[j][k] = "start"
    <3>1. PICK k \in at[j] + 1 .. Len(Statements[j]) : Statements[j][k] = "start"
      BY <2>2, <2>5, Successor
    <3>2. QED
      BY <2>2, <3>1
  <2>6. CASE Tidy(j) \/ RewriteTable(j)
    <3>1. Statement(j) \in {"tidy", "full"} /\ UNCHANGED <<synapse, stopped, spoilt, abandoned>>
      BY <2>6 DEF Tidy, RewriteTable, Goes
    <3>2. StartAhead'
      BY <2>2, <2>4, <3>1
    <3>3. CameFromStop'
      <4>1. at'[j] > 0 /\ Statements[j][at'[j]] \in {"full", "start"} => stopped[j]
        BY <2>2, <2>3, <3>1
      <4>2. QED
        BY <2>2, <3>1, <4>1
    <3>4. InVain' /\ NotLeftDown'
      BY <2>2, <2>4, <3>1
    <3>5. QED
      BY <1>1, <3>2, <3>3, <3>4
  <2>7. CASE StopSynapse(j) \/ StopFails(j)
    <3>1. /\ Statement(j) = "stop" /\ abandoned' = abandoned
          /\ stopped'[j] /\ \A i \in Job \ {j} : stopped'[i] = stopped[i]
      BY <2>7 DEF StopSynapse, StopFails, Goes, PurgeTypeOK
    <3>2. ~synapse' \/ (synapse' = synapse /\ spoilt'[j]
                         /\ \A i \in Job \ {j} : spoilt'[i] = spoilt[i])
      BY <2>7 DEF StopSynapse, StopFails, PurgeTypeOK
    <3>3. StartAhead' /\ CameFromStop'
      BY <2>2, <2>5, <3>1
    <3>4. InVain' /\ NotLeftDown'
      BY <2>2, <2>5, <3>1, <3>2
    <3>5. QED
      BY <1>1, <3>3, <3>4
  <2>8. CASE StartSynapse(j) \/ StartFails(j)
    <3>1. /\ Statement(j) = "start"
          /\ ~stopped'[j] /\ \A i \in Job \ {j} : stopped'[i] = stopped[i]
      BY <2>8 DEF StartSynapse, StartFails, Goes, PurgeTypeOK
    <3>2. \/ synapse' /\ \A i \in Job \ {j} : stopped[i] => spoilt'[i]
          \/ /\ abandoned' /\ synapse' = synapse
             /\ \A i \in Job \ {j} : spoilt'[i] = spoilt[i]
      BY <2>8 DEF StartSynapse, StartFails, PurgeTypeOK
    <3>3. StartAhead' /\ CameFromStop'
      BY <2>2, <2>3, <3>1
    <3>4. InVain' /\ NotLeftDown'
      BY <3>1, <3>2
    <3>5. QED
      BY <1>1, <3>3, <3>4
  <2>9. QED
    BY <1>5, <2>6, <2>7, <2>8 DEF Purging
<1>6. QED
  BY <1>2, <1>3, <1>4, <1>5 DEF PurgeNext

\* The rest of the maintenance leaves the cleanup's variables alone.
LEMMA CarePurges == CareSpec => []PurgeInv
<1>1. CareInit => PurgeInv
  <2> SUFFICES ASSUME PurgeInit
               PROVE  PurgeInv
    BY DEF CareInit
  <2>1. \A j \in Job : Len(Statements[j]) \in Nat /\ at[j] = 0
    BY DEF PurgeAssumption, PurgeInit
  <2>2. PurgeTypeOK
    <3>1. at \in [Job -> Nat] /\ \A j \in Job : at[j] <= Len(Statements[j])
      BY <2>1 DEF PurgeInit
    <3>2. trouble \in 0 .. MaxTrouble
      BY DEF PurgeInit, PurgeAssumption
    <3>3. QED
      BY <3>1, <3>2 DEF PurgeInit, PurgeTypeOK
  <2>3. QED
    BY <2>1, <2>2 DEF PurgeInit, PurgeInv, StartAhead, CameFromStop, InVain, NotLeftDown
<1>2. PurgeInv /\ [CareNext]_care => PurgeInv'
  <2>1. [CareNext]_care => [PurgeNext]_purgeVars
    BY DEF CareNext, care, purgeVars, purge
  <2>2. QED
    BY <2>1, PurgeStep
<1>3. QED
  BY <1>1, <1>2, PTL DEF CareSpec

\* However many runs of the cleanup overlap and wherever they are killed, Synapse is
\* down only while one that is going to start it is at work, or after one that was
\* to start it and did not.
THEOREM NotForgotten == CareSpec => []NotLeftDown
<1>1. PurgeInv => NotLeftDown
  BY DEF PurgeInv
<1>2. QED
  BY <1>1, CarePurges, PTL

\* A table is rewritten under a running Synapse only by a run that could not stop
\* it, or that another one has overtaken.
THEOREM RewritesOffline == CareSpec => []RewrittenWhileDown
<1>1. PurgeInv => RewrittenWhileDown
  BY DEF PurgeInv, CameFromStop, InVain, RewrittenWhileDown, Goes, Statement
<1>2. QED
  BY <1>1, CarePurges, PTL
-----------------------------------------------------------------------------
HIDE PurgeAssumption
USE DEF RecreateAssumption

\* Rooms are numbered as they are made, and an attempt that has not made one can.
Numbered == /\ rooms \subseteq 1 .. made /\ alias \in 0 .. made /\ old \in 0 .. made
            /\ new \in 0 .. made
            /\ pc \in {"resolve", "create"} => made < MaxRooms

\* What an attempt has achieved when it gets to a call, if none has failed.
FromPower     == {"power", "setpower", "uncanonical", "unalias", "alias", "canonical", "join",
                  "purge", "verify"}
FromAlias     == {"alias", "canonical", "join", "purge", "verify"}
FromCanonical == FromAlias \ {"alias"}
FromJoin      == FromCanonical \ {"canonical"}

Directory ==
    /\ pc \in {"create", "encrypt"} \cup (FromPower \ FromAlias) => alias = old
    /\ pc = "alias" => alias = NoRoom
    /\ pc \in FromCanonical => alias = new

NewRoom ==
    /\ pc \in {"encrypt"} \cup FromPower => new \in rooms /\ old < new
    /\ pc \in FromPower => "encrypted" \in settings
    /\ pc \in FromPower \ {"power", "setpower"} => "powered" \in settings
    /\ pc # "seterror"
    /\ pc \in FromJoin => "canonical" \in settings
    /\ pc \in {"resolve", "create", "encrypt"} \cup (FromPower \ FromJoin) => joining = Member
    /\ pc = "join" => Member \ joining \subseteq members
    /\ pc \in FromJoin \ {"join"} => members = Member
    /\ pc = "verify" => old \notin rooms

CleanSoFar == ~faulty => Directory /\ NewRoom

RecreateInv == RecreateTypeOK /\ Numbered /\ CleanSoFar /\ CleanRunHeals
-----------------------------------------------------------------------------
LEMMA TallyStep ==
    ASSUME RecreateTypeOK, Works \/ Fails \/ Fault
    PROVE  /\ faulty' \in BOOLEAN /\ faults' \in 0 .. MaxFaults
           /\ ~faulty' => ~faulty /\ Works
<1>1. CASE Works
  BY <1>1 DEF RecreateTypeOK, Works, tally
<1>2. CASE Fault
  BY <1>2 DEF RecreateTypeOK, Fault, Works, tally
<1>3. CASE ~synapse /\ faulty' = TRUE /\ UNCHANGED faults
  BY <1>3 DEF RecreateTypeOK, Works, tally
<1>4. QED
  BY <1>1, <1>2, <1>3 DEF Fails

\* The types hold on, and so do the numbers of the rooms.
LEMMA RecreateTypeStep ==
    RecreateTypeOK /\ Numbered /\ [RecreateNext]_recreate => (RecreateTypeOK /\ Numbered)'
<1> SUFFICES ASSUME RecreateTypeOK, Numbered, [RecreateNext]_recreate
             PROVE  (RecreateTypeOK /\ Numbered)'
  OBVIOUS
<1> USE DEF RecreateTypeOK, Numbered, NoRoom, server, Goto, Ends
<1>1. CASE UNCHANGED recreate
  BY <1>1 DEF recreate, script, tally
<1>2. CASE Start
  <2>1. UNCHANGED <<faults, made, rooms, alias, settings, members>>
    BY <1>2 DEF Start
  <2>2. /\ pc' = "resolve" /\ verdict' = "none" /\ faulty' = FALSE /\ joining' = Member
        /\ old' = 0 /\ new' = 0 /\ made < MaxRooms
    BY <1>2 DEF Start
  <2>3. RecreateTypeOK'
    <3>1. joining' \subseteq Member
      BY <2>2
    <3>2. 0 \in 0 .. MaxRooms
      OBVIOUS
    <3>3. QED
      BY <2>1, <2>2, <3>1, <3>2
  <2>4. Numbered'
    BY <2>1, <2>2
  <2>5. QED
    BY <2>3, <2>4
<1>3. CASE Resolve
  BY <1>3, TallyStep DEF Resolve
<1>4. CASE Create
  BY <1>4, TallyStep DEF Create, Made
<1>5. CASE CreateFails
  <2>1. faulty' \in BOOLEAN /\ faults' \in 0 .. MaxFaults
    BY <1>5, TallyStep DEF CreateFails
  <2>2. CASE UNCHANGED server
    BY <1>5, <2>1, <2>2 DEF CreateFails
  <2>3. CASE Made
    BY <1>5, <2>1, <2>3 DEF CreateFails, Made
  <2>4. QED
    BY <1>5, <2>2, <2>3 DEF CreateFails
<1>6. ASSUME NEW setting \in Setting, Put(setting)
      PROVE  /\ settings' \subseteq Setting /\ UNCHANGED <<made, rooms, alias, members>>
             /\ faulty' \in BOOLEAN /\ faults' \in 0 .. MaxFaults
  BY <1>6, TallyStep DEF Put
<1>7. CASE Encrypt
  BY <1>6, <1>7 DEF Encrypt, Setting
<1>8. CASE GetLevels \/ PutLevels \/ PutError
  <2>1. CASE GetLevels
    BY <2>1, TallyStep DEF GetLevels, BehindLevels
  <2>2. CASE PutLevels
    BY <1>6, <2>2 DEF PutLevels, BehindLevels, Setting
  <2>3. CASE PutError
    <3>1. /\ settings' \subseteq Setting /\ UNCHANGED <<made, rooms, alias, members>>
          /\ faulty' \in BOOLEAN /\ faults' \in 0 .. MaxFaults
      BY <1>6, <2>3, TallyStep DEF PutError, Refused, Setting
    <3>2. QED
      BY <2>3, <3>1 DEF PutError, BehindLevels
  <2>4. QED
    BY <1>8, <2>1, <2>2, <2>3
<1>9. CASE Uncanonical \/ Unalias
  <2>1. CASE Uncanonical
    BY <2>1, TallyStep DEF Uncanonical
  <2>2. CASE Unalias
    <3>1. /\ faulty' \in BOOLEAN /\ faults' \in 0 .. MaxFaults
          /\ pc' = "alias" /\ UNCHANGED <<old, new, joining, verdict>>
      BY <2>2, TallyStep DEF Unalias
    <3>2. alias' \in {alias, NoRoom} /\ UNCHANGED <<made, rooms, settings, members>>
      BY <2>2 DEF Unalias
    <3>3. QED
      BY <3>1, <3>2
  <2>3. QED
    BY <1>9, <2>1, <2>2
<1>10. CASE SetAlias
  BY <1>10, TallyStep DEF SetAlias
<1>11. CASE Canonical
  <2>1. Put("canonical") \/ ((Works \/ Fails) /\ UNCHANGED server)
    BY <1>11 DEF Canonical, Refused
  <2>2. /\ settings' \subseteq Setting /\ UNCHANGED <<made, rooms, alias, members>>
        /\ faulty' \in BOOLEAN /\ faults' \in 0 .. MaxFaults
    BY <1>6, <2>1, TallyStep DEF Setting
  <2>3. QED
    BY <1>11, <2>2 DEF Canonical
<1>12. CASE Join
  BY <1>12, TallyStep DEF Join, Refused
<1>13. CASE Joined
  BY <1>13 DEF Joined, tally
<1>14. CASE Purge
  <2>1. /\ faulty' \in BOOLEAN /\ faults' \in 0 .. MaxFaults
        /\ pc = "purge" /\ pc' = "verify" /\ UNCHANGED <<old, new, joining, verdict>>
    BY <1>14, TallyStep DEF Purge
  <2>2. /\ rooms' \subseteq rooms /\ alias' \in {alias, NoRoom}
        /\ UNCHANGED <<made, settings, members>>
    BY <1>14 DEF Purge
  <2>3. QED
    BY <2>1, <2>2
<1>15. CASE Verify \/ Broken
  BY <1>15, TallyStep DEF Verify, Broken
<1>16. QED
  BY <1>1, <1>2, <1>3, <1>4, <1>5, <1>7, <1>8, <1>9, <1>10, <1>11, <1>12, <1>13,
     <1>14, <1>15 DEF RecreateNext
-----------------------------------------------------------------------------
\* What is achieved is kept, call by call, and the last one leaves it all.
LEMMA CleanStep == RecreateInv /\ [RecreateNext]_recreate => (CleanSoFar /\ CleanRunHeals)'
<1> SUFFICES ASSUME RecreateInv, [RecreateNext]_recreate, ~faulty'
             PROVE  (Directory /\ NewRoom /\ CleanRunHeals)'
  BY DEF CleanSoFar, CleanRunHeals
<1>0. RecreateTypeOK /\ Numbered /\ CleanSoFar /\ CleanRunHeals
  BY DEF RecreateInv
<1> USE DEF Directory, NewRoom, FromPower, FromAlias, FromCanonical, FromJoin, NoRoom, Goto
<1>1. CASE UNCHANGED recreate
  BY <1>0, <1>1 DEF recreate, script, tally, server, CleanSoFar, CleanRunHeals
<1>2. CASE Start
  BY <1>2 DEF Start, CleanRunHeals
<1>3. CASE CreateFails \/ Broken
  <2>1. faulty'
    BY <1>3 DEF CreateFails, Broken, Fails, Fault
  <2>2. QED
    BY <2>1
<1>4. CASE Resolve
  <2>1. /\ ~faulty /\ alias' = alias /\ old' = alias /\ joining' = joining
        /\ pc = "resolve" /\ pc' = "create"
    BY <1>4 DEF Resolve, Works, tally, Fails, Fault, server
  <2>2. QED
    BY <1>0, <2>1 DEF CleanSoFar, CleanRunHeals
<1>5. CASE Create
  <2>1. Directory /\ NewRoom /\ pc = "create" /\ joining' = joining
    BY <1>0, <1>5 DEF Create, Works, tally, CleanSoFar
  <2>2. /\ pc' = "encrypt" /\ alias' = alias /\ old' = old
        /\ new' \in rooms' /\ old < new'
    <3>1. old \in 0 .. made /\ made \in Nat
      BY <1>0 DEF Numbered, RecreateTypeOK
    <3>2. /\ pc' = "encrypt" /\ alias' = alias /\ old' = old
          /\ new' = made + 1 /\ rooms' = rooms \cup {made + 1}
      BY <1>5 DEF Create, Made
    <3>3. QED
      BY <3>1, <3>2
  <2>3. QED
    BY <2>1, <2>2 DEF CleanRunHeals
<1>6. ASSUME NEW setting, Put(setting)
      PROVE  /\ ~faulty /\ settings' = settings \cup {setting}
             /\ UNCHANGED <<made, rooms, alias, members>>
  BY <1>6 DEF Put, Works, tally, Fails, Fault
<1>7. CASE Encrypt
  <2>1. Directory /\ NewRoom /\ pc = "encrypt" /\ pc' = "power" /\ UNCHANGED <<old, new, joining>>
    BY <1>0, <1>6, <1>7 DEF Encrypt, CleanSoFar
  <2>2. QED
    BY <1>6, <1>7, <2>1 DEF Encrypt, CleanRunHeals
<1>8. CASE GetLevels
  <2>1. ~faulty /\ pc = "power" /\ pc' = "setpower" /\ UNCHANGED <<old, new, joining>>
    BY <1>8 DEF GetLevels, Works, tally, Fails, Fault
  <2>2. Directory /\ NewRoom /\ UNCHANGED <<made, rooms, alias, settings, members>>
    BY <1>0, <1>8, <2>1 DEF GetLevels, server, CleanSoFar
  <2>3. QED
    BY <2>1, <2>2 DEF CleanRunHeals
<1>19. CASE PutLevels
  <2>1. Directory /\ NewRoom /\ pc = "setpower" /\ UNCHANGED <<old, new, joining>>
    BY <1>0, <1>6, <1>19 DEF PutLevels, CleanSoFar
  <2>2. pc' = "uncanonical" \/ (pc' = "alias" /\ old = 0)
    BY <1>19 DEF PutLevels, BehindLevels
  <2>3. settings' = settings \cup {"powered"} /\ UNCHANGED <<made, rooms, alias, members>>
    BY <1>6, <1>19 DEF PutLevels
  <2>4. QED
    BY <2>1, <2>2, <2>3 DEF CleanRunHeals
<1>20. CASE PutError
  <2>1. ~faulty /\ pc = "seterror"
    BY <1>6, <1>20 DEF PutError, Refused, Works, tally
  <2>2. QED
    BY <1>0, <2>1 DEF CleanSoFar
<1>9. ASSUME Works \/ Fails
      PROVE  ~faulty /\ Works
  BY <1>9 DEF Works, tally, Fails, Fault
<1>10. CASE Uncanonical
  BY <1>0, <1>9, <1>10 DEF Uncanonical, CleanSoFar, CleanRunHeals, server
<1>11. CASE Unalias
  <2>1. /\ ~faulty /\ alias' = 0 /\ UNCHANGED <<made, rooms, settings, members>>
    BY <1>11 DEF Unalias, Works, tally, Fails, Fault
  <2>2. QED
    BY <1>0, <1>11, <2>1 DEF Unalias, CleanSoFar, CleanRunHeals
<1>12. CASE SetAlias
  <2>1. /\ ~faulty /\ UNCHANGED <<made, rooms, settings, members>>
        /\ alias' = IF alias = 0 THEN new ELSE alias
    BY <1>12 DEF SetAlias, Works, tally, Fails, Fault
  <2>2. QED
    BY <1>0, <1>12, <2>1 DEF SetAlias, CleanSoFar, CleanRunHeals
<1>13. CASE Canonical
  <2>1. ~faulty
    BY <1>6, <1>9, <1>13 DEF Canonical, Refused, Works, tally
  <2>2. Directory /\ NewRoom /\ pc = "canonical" /\ pc' = "join" /\ UNCHANGED <<old, new, joining>>
    BY <1>0, <1>13, <2>1 DEF Canonical, CleanSoFar
  <2>3. Put("canonical")
    BY <1>13, <2>1, <2>2 DEF Canonical, Refused
  <2>4. settings' = settings \cup {"canonical"} /\ UNCHANGED <<made, rooms, alias, members>>
    BY <1>6, <2>3
  <2>5. QED
    BY <2>2, <2>4 DEF CleanRunHeals
<1>14. CASE Join
  <2>1. ~faulty
    BY <1>9, <1>14 DEF Join, Refused, Works, tally
  <2>2. Directory /\ NewRoom /\ pc = "join" /\ pc' = "join"
    BY <1>0, <1>14, <2>1 DEF Join, CleanSoFar
  <2>3. PICK u \in joining : joining' = joining \ {u} /\ members' = members \cup {u}
    BY <1>14, <2>1 DEF Join, Refused, Fails, Fault
  <2>4. Member \ joining' \subseteq members'
    BY <2>2, <2>3
  <2>5. UNCHANGED <<old, new, rooms, alias, settings>>
    BY <1>14 DEF Join
  <2>6. QED
    BY <2>2, <2>4, <2>5 DEF CleanRunHeals
<1>15. CASE Joined
  <2>1. /\ ~faulty /\ pc = "join" /\ joining = {}
        /\ UNCHANGED <<old, new, joining, made, rooms, alias, settings, members>>
    BY <1>15 DEF Joined, tally, server
  <2>2. Directory /\ NewRoom /\ members = Member
    BY <1>0, <2>1 DEF CleanSoFar, RecreateTypeOK
  <2>3. pc' = "purge" \/ (pc' = "verify" /\ old = 0)
    BY <1>15 DEF Joined
  <2>4. 0 \notin rooms
    BY <1>0 DEF Numbered
  <2>5. QED
    BY <2>1, <2>2, <2>3, <2>4 DEF CleanRunHeals
<1>16. CASE Purge
  <2>1. /\ ~faulty /\ rooms' = rooms \ {old} /\ UNCHANGED <<made, settings, members>>
        /\ alias' \in {alias, IF alias = old THEN 0 ELSE alias}
    BY <1>16 DEF Purge, Works, tally, Fails, Fault
  <2>2. Directory /\ NewRoom /\ pc = "purge" /\ pc' = "verify" /\ UNCHANGED <<old, new, joining>>
    BY <1>0, <1>16, <2>1 DEF Purge, CleanSoFar
  <2>3. alias = new /\ old < new /\ old \in Nat /\ new \in Nat
    BY <1>0, <2>2 DEF Numbered
  <2>4. alias' = new /\ new \in rooms' /\ old \notin rooms'
    BY <2>1, <2>2, <2>3
  <2>5. QED
    BY <2>1, <2>2, <2>3, <2>4 DEF CleanRunHeals
<1>17. CASE Verify
  <2>1. /\ ~faulty /\ Ends("verify", IF alias = new THEN "passed" ELSE "failed")
        /\ UNCHANGED <<made, rooms, alias, settings, members>>
    BY <1>17 DEF Verify, Works, tally, Fails, Fault, server
  <2>2. Directory /\ NewRoom /\ pc = "verify"
    BY <1>0, <2>1 DEF Ends, CleanSoFar
  <2>3. pc' = "idle" /\ verdict' = "passed" /\ UNCHANGED <<old, new>>
    BY <2>1, <2>2 DEF Ends
  <2>4. settings = Setting
    BY <1>0, <2>2 DEF RecreateTypeOK, Setting
  <2>5. CleanRunHeals'
    BY <2>1, <2>2, <2>3, <2>4 DEF CleanRunHeals
  <2>6. QED
    BY <2>3, <2>5
<1>18. QED
  BY <1>1, <1>2, <1>3, <1>4, <1>5, <1>7, <1>8, <1>10, <1>11, <1>12, <1>13, <1>14, <1>15,
     <1>16, <1>17, <1>19, <1>20 DEF RecreateNext

LEMMA RecreateStart == CareInit => RecreateInv
<1> SUFFICES ASSUME RecreateInit
             PROVE  RecreateInv
  BY DEF CareInit
<1>1. RecreateTypeOK
  <2>1. /\ 0 \in 0 .. MaxRooms /\ 1 \in 0 .. MaxRooms /\ 1 \in 1 .. MaxRooms
        /\ 0 \in 0 .. MaxFaults
    OBVIOUS
  <2>2. QED
    BY <2>1 DEF RecreateInit, RecreateTypeOK, NoRoom
<1>2. Numbered
  BY DEF RecreateInit, Numbered, NoRoom
<1>3. CleanSoFar /\ CleanRunHeals
  BY DEF RecreateInit, CleanSoFar, Directory, NewRoom, FromPower, FromAlias, FromCanonical,
         FromJoin, CleanRunHeals
<1>4. QED
  BY <1>1, <1>2, <1>3 DEF RecreateInv

\* The types of the maintenance's variables hold on.
THEOREM TypeCorrect == CareSpec => []CareTypeOK
<1>1. CareInit => RecreateTypeOK /\ Numbered
  BY RecreateStart DEF RecreateInv
<1>2. RecreateTypeOK /\ Numbered /\ [CareNext]_care => (RecreateTypeOK /\ Numbered)'
  <2>1. [CareNext]_care => [RecreateNext]_recreate
    BY DEF CareNext, care
  <2>2. QED
    BY <2>1, RecreateTypeStep
<1>3. PurgeInv /\ RecreateTypeOK => CareTypeOK
  BY DEF PurgeInv, CareTypeOK
<1>4. QED
  BY <1>1, <1>2, <1>3, CarePurges, PTL DEF CareSpec

\* An attempt none of whose calls failed ends with the alias at a new, encrypted room
\* that all members are in, and without the old one, whatever earlier attempts and
\* the cleanup have left.
THEOREM CleanAttemptHeals == CareSpec => []CleanRunHeals
<1>1. CareInit => RecreateInv
  BY RecreateStart
<1>2. RecreateInv /\ [CareNext]_care => RecreateInv'
  <2>1. [CareNext]_care => [RecreateNext]_recreate
    BY DEF CareNext, care
  <2>2. QED
    BY <2>1, RecreateTypeStep, CleanStep DEF RecreateInv
<1>3. RecreateInv => CleanRunHeals
  BY DEF RecreateInv
<1>4. QED
  BY <1>1, <1>2, <1>3, PTL DEF CareSpec
=============================================================================

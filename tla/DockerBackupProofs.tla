------------------------- MODULE DockerBackupProofs -------------------------
(***************************************************************************)
(* The backups of DockerBackup for any containers, whatever their names    *)
(* begin with, and any DAYS.                                               *)
(***************************************************************************)
EXTENDS DockerBackup, Functions, FiniteSetTheorems, TLAPS

USE BackupAssumption DEF BackupAssumption

\* The dates kept in mind are those of the last DAYS days.
Remembered == \A c \in Container : \A d \in succeeded[c] : d <= day /\ day - d <= Days

BackupInv == TypeOK /\ Remembered /\ YoungKept
-----------------------------------------------------------------------------
LEMMA DatedFile ==
    ASSUME TypeOK, NEW c \in Container, NEW ok \in BOOLEAN
    PROVE  Dated(c, ok) \in File
BY DEF TypeOK, Dated, File

\* The types hold on.
LEMMA TypeStep == TypeOK /\ [Next]_vars => TypeOK'
<1> SUFFICES ASSUME TypeOK, [Next]_vars
             PROVE  TypeOK'
  OBVIOUS
<1>1. CASE UNCHANGED vars
  BY <1>1 DEF vars, TypeOK
<1>2. CASE NextDay
  <2>1. day' = day + 1 /\ day' \in 0 .. LastDay
    BY <1>2 DEF NextDay, TypeOK
  <2>2. succeeded' \in [Container -> SUBSET (0 .. day')]
    BY <1>2, <2>1 DEF NextDay, TypeOK
  <2>3. QED
    BY <1>2, <2>1, <2>2 DEF NextDay, TypeOK
<1>3. CASE Run
  BY <1>3 DEF Run, TypeOK
<1>4. CASE Killed
  <2>1. files' \subseteq File
    <3>1. CASE files' = files
      BY <3>1 DEF TypeOK
    <3>2. ASSUME NEW c \in todo, files' = files \cup {Dated(c, FALSE)}
          PROVE  files' \subseteq File
      <4>1. c \in Container /\ FALSE \in BOOLEAN
        BY DEF TypeOK
      <4>2. Dated(c, FALSE) \in File
        BY <4>1, DatedFile
      <4>3. QED
        BY <3>2, <4>2 DEF TypeOK
    <3>3. QED
      BY <1>4, <3>1, <3>2 DEF Killed
  <2>2. kills' \in Nat
    BY <1>4 DEF Killed, TypeOK
  <2>3. QED
    BY <1>4, <2>1, <2>2 DEF Killed, TypeOK
<1>5. ASSUME NEW c \in Container, NoCommand(c)
      PROVE  TypeOK'
  BY <1>5 DEF NoCommand, Take, TypeOK
<1>6. ASSUME NEW c \in Container, Dump(c)
      PROVE  TypeOK'
  <2>1. PICK ok \in BOOLEAN :
           /\ files' = files \cup {Dated(c, ok)}
           /\ succeeded' = IF ok THEN [succeeded EXCEPT ![c] = @ \cup {day}] ELSE succeeded
    BY <1>6 DEF Dump
  <2>2. files' \subseteq File
    BY <2>1, DatedFile DEF TypeOK
  <2>3. day \in 0 .. day
    BY DEF TypeOK
  <2>4. succeeded' \in [Container -> SUBSET (0 .. day)]
    BY <2>1, <2>3 DEF TypeOK
  <2>5. QED
    BY <1>6, <2>2, <2>4 DEF Dump, Take, TypeOK
<1>7. ASSUME NEW c \in Container, Delete(c)
      PROVE  TypeOK'
  BY <1>7 DEF Delete, TypeOK
<1>8. QED
  BY <1>1, <1>2, <1>3, <1>4, <1>5, <1>6, <1>7 DEF Next

\* No step takes a dump of the last DAYS days away.
LEMMA KeepStep == BackupInv /\ [Next]_vars => (Remembered /\ YoungKept)'
<1> SUFFICES ASSUME BackupInv, [Next]_vars
             PROVE  (Remembered /\ YoungKept)'
  OBVIOUS
<1> USE DEF BackupInv, Remembered, YoungKept
<1>1. CASE UNCHANGED vars
  BY <1>1 DEF vars
<1>2. CASE NextDay
  <2>1. /\ day' = day + 1 /\ day \in Nat /\ files' = files
        /\ succeeded' = [c \in Container |-> {d \in succeeded[c] : day - d < Days}]
    BY <1>2 DEF NextDay, TypeOK
  <2>2. ASSUME NEW c \in Container, NEW d \in succeeded'[c]
        PROVE  d <= day' /\ day' - d <= Days
    <3>1. d \in succeeded[c] /\ day - d < Days /\ d \in Nat
      BY <2>1, <2>2 DEF TypeOK
    <3>2. QED
      BY <2>1, <3>1
  <2>3. QED
    BY <2>1, <2>2
<1>3. CASE Run
  BY <1>3 DEF Run
<1>4. CASE Killed
  BY <1>4 DEF Killed
<1>5. ASSUME NEW c \in Container, NoCommand(c)
      PROVE  (Remembered /\ YoungKept)'
  BY <1>5 DEF NoCommand
<1>6. ASSUME NEW c \in Container, Dump(c)
      PROVE  (Remembered /\ YoungKept)'
  <2>1. PICK ok \in BOOLEAN :
           /\ files' = files \cup {Dated(c, ok)}
           /\ succeeded' = IF ok THEN [succeeded EXCEPT ![c] = @ \cup {day}] ELSE succeeded
    BY <1>6 DEF Dump
  <2>2. day' = day /\ day \in Nat
    BY <1>6 DEF Dump, TypeOK
  <2>3. ASSUME NEW e \in Container, NEW d \in succeeded'[e]
        PROVE  d \in succeeded[e] \/ (ok /\ e = c /\ d = day)
    BY <2>1, <2>3 DEF TypeOK
  <2>4. ok => Dated(c, ok) = [of |-> c, day |-> day, good |-> TRUE]
    BY DEF Dated
  <2>5. QED
    BY <2>1, <2>2, <2>3, <2>4
<1>7. ASSUME NEW c \in Container, Delete(c)
      PROVE  (Remembered /\ YoungKept)'
  <2>1. day' = day /\ succeeded' = succeeded
    BY <1>7 DEF Delete
  <2>2. ASSUME NEW f \in files, day - f.day <= Days, f.day \in Nat, day \in Nat
        PROVE  f \in files'
    BY <1>7, <2>2 DEF Delete, Old
  <2>3. ASSUME NEW e \in Container, NEW d \in succeeded[e]
        PROVE  [of |-> e, day |-> d, good |-> TRUE] \in files'
    <3>1. d \in Nat /\ day \in Nat /\ day - d <= Days
      BY DEF TypeOK
    <3>2. [of |-> e, day |-> d, good |-> TRUE] \in files
      OBVIOUS
    <3>3. QED
      BY <2>2, <3>1, <3>2
  <2>4. QED
    BY <2>1, <2>3
<1>8. QED
  BY <1>1, <1>2, <1>3, <1>4, <1>5, <1>6, <1>7 DEF Next
-----------------------------------------------------------------------------
LEMMA BackupInvariant == Spec => []BackupInv
<1>1. Init => BackupInv
  BY DEF Init, BackupInv, TypeOK, File, Remembered, YoungKept
<1>2. BackupInv /\ [Next]_vars => BackupInv'
  BY TypeStep, KeepStep DEF BackupInv
<1>3. QED
  BY <1>1, <1>2, PTL DEF Spec

\* The variables keep their types.
THEOREM TypeCorrect == Spec => []TypeOK
<1>1. BackupInv => TypeOK
  BY DEF BackupInv
<1>2. QED
  BY <1>1, BackupInvariant, PTL

\* A dump made in the last DAYS days is there, whatever containers' names begin with
\* that of another, whatever fails and whenever a run is killed.
THEOREM YoungBackupsKept == Spec => []YoungKept
<1>1. BackupInv => YoungKept
  BY DEF BackupInv
<1>2. QED
  BY <1>1, BackupInvariant, PTL
-----------------------------------------------------------------------------
\* One file a day for each container, and one more of the container in hand.
Allowed(c) == Days + 1 + kills + (IF c \in at THEN 1 ELSE 0)

PileInv ==
    /\ IsFiniteSet(files)
    /\ todo # {} => ~due
    /\ \A f \in files : f.day <= day /\ (f.day = day => ~due /\ f.of \notin todo)
    /\ \A f, g \in files : f.of = g.of /\ f.day = g.day => f = g
    /\ \A a, b \in at : a = b
    /\ \A c \in Container : Cardinality(Files(c)) <= Allowed(c)

LEMMA FilesFinite ==
    ASSUME IsFiniteSet(files), NEW c
    PROVE  IsFiniteSet(Files(c)) /\ Cardinality(Files(c)) \in Nat
<1>1. IsFiniteSet(Files(c))
  BY FS_Subset DEF Files
<1>2. QED
  BY <1>1, FS_CardinalityType

\* No more than one file for each of the last days.
LEMMA LastDaysFew ==
    ASSUME TypeOK, PileInv, NEW c \in Container, NEW some,
           some \subseteq Files(c), \A f \in some : ~Old(f)
    PROVE  Cardinality(some) <= Days + 1
<1> DEFINE age == [f \in some |-> day - f.day]
<1>1. \A f \in some : f.day \in Nat /\ f.day <= day /\ day \in Nat /\ day - f.day <= Days
  BY DEF PileInv, Files, Old, TypeOK, File
<1>2. age \in [some -> 0 .. Days]
  BY <1>1
<1>3. \A f, g \in some : age[f] = age[g] => f = g
  <2>1. ASSUME NEW f \in some, NEW g \in some, age[f] = age[g]
        PROVE  f.day = g.day /\ f.of = g.of /\ f \in files /\ g \in files
    BY <1>1, <2>1 DEF Files
  <2>2. QED
    BY <2>1 DEF PileInv
<1>4. age \in Injection(some, 0 .. Days)
  <2> HIDE DEF age
  <2>1. QED
    BY <1>2, <1>3 DEF Injection, IsInjective
<1>5. IsFiniteSet(0 .. Days) /\ Cardinality(0 .. Days) = Days + 1
  BY FS_Interval
<1>6. QED
  BY <1>4, <1>5, FS_Injection

\* One new file makes one more.
LEMMA OneMore ==
    ASSUME PileInv, NEW c \in Container, NEW f, f.of = c, files' = files \cup {f}
    PROVE  /\ IsFiniteSet(files')
           /\ \A e \in Container : Cardinality(Files(e)') <= Cardinality(Files(e)) + (IF e = c THEN 1 ELSE 0)
<1>1. IsFiniteSet(files')
  BY FS_AddElement DEF PileInv
<1>2. ASSUME NEW e \in Container
      PROVE  Cardinality(Files(e)') <= Cardinality(Files(e)) + (IF e = c THEN 1 ELSE 0)
  <2>1. IsFiniteSet(Files(e)) /\ Cardinality(Files(e)) \in Nat
    BY FilesFinite DEF PileInv
  <2>2. Files(e)' = IF e = c THEN Files(e) \cup {f} ELSE Files(e)
    BY DEF Files
  <2>3. Cardinality(Files(e) \cup {f}) <= Cardinality(Files(e)) + 1
    BY <2>1, FS_AddElement
  <2>4. QED
    BY <2>1, <2>2, <2>3
<1>3. QED
  BY <1>1, <1>2

LEMMA PileDelete ==
    ASSUME TypeOK, PileInv, NEW c \in Container, Delete(c)
    PROVE  PileInv'
<1>1. /\ c \in at /\ at' = {} /\ files' \subseteq files /\ UNCHANGED <<day, todo, due, kills>>
  BY DEF Delete
<1>2. IsFiniteSet(files')
  BY <1>1, FS_Subset DEF PileInv
<1>3. \A e \in Container : Cardinality(Files(e)') <= Cardinality(Files(e))
  <2>1. ASSUME NEW e \in Container
        PROVE  Files(e)' \subseteq Files(e) /\ IsFiniteSet(Files(e))
    BY <1>1, FilesFinite DEF Files, PileInv
  <2>2. QED
    BY <2>1, FS_Subset
<1>4. Cardinality(Files(c)') <= Days + 1
  <2>1. CASE Cardinality(Matching(c)) > Days
    <3>1. Files(c)' \subseteq Files(c)
      BY <1>1 DEF Files
    <3>2. \A f \in Files(c)' : ~Old(f)
      BY <2>1 DEF Delete, Files, Matching
    <3>3. QED
      BY <3>1, <3>2, LastDaysFew
  <2>2. CASE ~(Cardinality(Matching(c)) > Days)
    <3>1. IsFiniteSet(Matching(c))
      BY FS_Subset DEF Matching, PileInv
    <3>2. Files(c)' \subseteq Matching(c)
      BY <1>1 DEF Files, Matching
    <3>3. Cardinality(Files(c)') <= Cardinality(Matching(c)) /\ Cardinality(Files(c)') \in Nat
      BY <3>1, <3>2, FS_Subset, FS_CardinalityType
    <3>4. Cardinality(Matching(c)) \in Nat
      BY <3>1, FS_CardinalityType
    <3>5. QED
      BY <2>2, <3>3, <3>4
  <2>3. QED
    BY <2>1, <2>2
<1>5. ASSUME NEW e \in Container
      PROVE  Cardinality(Files(e)') <= Days + 1 + kills
  <2>1. Cardinality(Files(e)') \in Nat /\ Cardinality(Files(e)) \in Nat /\ kills \in Nat
    <3>1. IsFiniteSet(Files(e)')
      BY <1>2, FS_Subset DEF Files
    <3>2. QED
      BY <3>1, FS_CardinalityType, FilesFinite DEF PileInv, TypeOK
  <2>2. CASE e = c
    BY <1>4, <2>1, <2>2
  <2>3. CASE e # c
    <3>1. e \notin at
      BY <1>1, <2>3 DEF PileInv
    <3>2. Allowed(e) = Days + 1 + kills
      BY <2>1, <3>1 DEF Allowed
    <3>3. Cardinality(Files(e)) <= Allowed(e)
      BY DEF PileInv
    <3>4. QED
      BY <1>3, <2>1, <3>2, <3>3
  <2>4. QED
    BY <2>2, <2>3
<1>6. ASSUME NEW e \in Container
      PROVE  Cardinality(Files(e)') <= Allowed(e)'
  <2>1. Allowed(e)' = Days + 1 + kills
    BY <1>1 DEF Allowed, TypeOK
  <2>2. QED
    BY <1>5, <2>1
<1>7. QED
  BY <1>1, <1>2, <1>6 DEF PileInv

\* A dump, whole or cut off, is the first file of its container that day.
LEMMA PileFirst ==
    ASSUME TypeOK, PileInv, NEW c \in todo, NEW f, f.of = c, f.day = day,
           files' = files \cup {f}, day' = day, due' = due, todo' \subseteq todo \ {c}
    PROVE  /\ \A g \in files' : g.day <= day' /\ (g.day = day' => ~due' /\ g.of \notin todo')
           /\ \A g, h \in files' : g.of = h.of /\ g.day = h.day => g = h
<1>1. \A g \in files : g.of = c => g.day # day
  BY DEF PileInv
<1>2. day \in Nat
  BY DEF TypeOK
<1>3. ~due
  BY DEF PileInv
<1>4. QED
  BY <1>1, <1>2, <1>3 DEF PileInv

LEMMA PileDump ==
    ASSUME TypeOK, PileInv, NEW c \in Container, Dump(c)
    PROVE  PileInv'
<1>1. PICK ok \in BOOLEAN : files' = files \cup {Dated(c, ok)}
  BY DEF Dump
<1>2. /\ c \in todo /\ at = {} /\ at' = {c} /\ todo' = todo \ {c}
      /\ day' = day /\ due' = due /\ kills' = kills /\ kills \in Nat
  BY DEF Dump, Take, TypeOK
<1>3. Dated(c, ok).of = c /\ Dated(c, ok).day = day
  BY DEF Dated
<1>4. IsFiniteSet(files')
  BY <1>1, <1>3, OneMore
<1>5. ASSUME NEW e \in Container
      PROVE  Cardinality(Files(e)') <= Allowed(e)'
  <2>1. Cardinality(Files(e)') <= Cardinality(Files(e)) + (IF e = c THEN 1 ELSE 0)
    BY <1>1, <1>3, OneMore
  <2>2. Cardinality(Files(e)) <= Days + 1 + kills
    <3>1. Allowed(e) = Days + 1 + kills
      BY <1>2 DEF Allowed
    <3>2. QED
      BY <3>1 DEF PileInv
  <2>3. Allowed(e)' = Days + 1 + kills + (IF e = c THEN 1 ELSE 0)
    BY <1>2 DEF Allowed
  <2>4. Cardinality(Files(e)) \in Nat /\ Cardinality(Files(e)') \in Nat
    <3>1. IsFiniteSet(Files(e)')
      BY <1>4, FS_Subset DEF Files
    <3>2. QED
      BY <3>1, FilesFinite, FS_CardinalityType DEF PileInv
  <2>5. QED
    BY <1>2, <2>1, <2>2, <2>3, <2>4
<1>6. /\ \A g \in files' : g.day <= day' /\ (g.day = day' => ~due' /\ g.of \notin todo')
      /\ \A g, h \in files' : g.of = h.of /\ g.day = h.day => g = h
  BY <1>1, <1>2, <1>3, PileFirst
<1>7. QED
  BY <1>2, <1>4, <1>5, <1>6 DEF PileInv

LEMMA PileKilled == ASSUME TypeOK, PileInv, Killed PROVE PileInv'
<1>1. /\ todo' = {} /\ at' = {} /\ UNCHANGED <<day, due>>
      /\ kills \in Nat /\ kills' \in {kills, kills + 1}
      /\ at # {} \/ files' # files => kills' = kills + 1
  BY DEF Killed, TypeOK
<1>2. \A e : Allowed(e)' = Days + 1 + kills'
  BY <1>1 DEF Allowed
<1>3. ASSUME NEW e \in Container
      PROVE  Allowed(e) \in Nat /\ Cardinality(Files(e)) \in Nat /\ Cardinality(Files(e)) <= Allowed(e)
  BY <1>1, FilesFinite DEF Allowed, PileInv
<1>4. CASE files' = files
  <2>1. \A e : Files(e)' = Files(e)
    BY <1>4 DEF Files
  <2>2. ASSUME NEW e \in Container
        PROVE  Allowed(e) <= Allowed(e)'
    <3>1. Allowed(e) = Days + 1 + kills + (IF e \in at THEN 1 ELSE 0)
      BY DEF Allowed
    <3>2. QED
      BY <1>1, <1>2, <3>1
  <2>3. ASSUME NEW e \in Container
        PROVE  Cardinality(Files(e)') <= Allowed(e)'
    <3>1. Allowed(e)' \in Nat
      BY <1>1, <1>2
    <3>2. QED
      BY <1>3, <2>1, <2>2, <3>1
  <2>4. QED
    BY <1>1, <1>4, <2>3 DEF PileInv
<1>5. ASSUME NEW c \in todo, at = {}, files' = files \cup {Dated(c, FALSE)}
      PROVE  PileInv'
  <2>1. Dated(c, FALSE).of = c /\ Dated(c, FALSE).day = day /\ c \in Container
    BY DEF Dated, TypeOK
  <2>2. files' # files
    BY <1>5, <2>1 DEF PileInv
  <2>3. IsFiniteSet(files')
    BY <1>5, <2>1, OneMore
  <2>4. ASSUME NEW e \in Container
        PROVE  Cardinality(Files(e)') <= Allowed(e)'
    <3>1. Cardinality(Files(e)') <= Cardinality(Files(e)) + (IF e = c THEN 1 ELSE 0)
      BY <1>5, <2>1, OneMore
    <3>2. Allowed(e) = Days + 1 + kills
      BY <1>1, <1>5 DEF Allowed
    <3>3. Cardinality(Files(e)') \in Nat
      BY <2>3, FS_Subset, FS_CardinalityType DEF Files
    <3>4. QED
      BY <1>1, <1>2, <1>3, <2>2, <3>1, <3>2, <3>3
  <2>5. /\ \A g \in files' : g.day <= day' /\ (g.day = day' => ~due' /\ g.of \notin todo')
        /\ \A g, h \in files' : g.of = h.of /\ g.day = h.day => g = h
    BY <1>1, <1>5, <2>1, PileFirst
  <2>6. QED
    BY <1>1, <2>3, <2>4, <2>5 DEF PileInv
<1>6. QED
  BY <1>4, <1>5 DEF Killed

LEMMA PileStep == TypeOK /\ PileInv /\ [Next]_vars => PileInv'
<1> SUFFICES ASSUME TypeOK, PileInv, [Next]_vars
             PROVE  PileInv'
  OBVIOUS
<1>1. CASE UNCHANGED vars
  BY <1>1 DEF vars, PileInv, Files, Allowed
<1>2. CASE NextDay
  <2>1. /\ todo' = {} /\ day' = day + 1 /\ day \in Nat /\ UNCHANGED <<at, files, kills>>
    BY <1>2 DEF NextDay, TypeOK
  <2>2. \A f \in files : f.day \in Nat /\ f.day <= day
    BY DEF TypeOK, File, PileInv
  <2>3. \A f \in files : f.day <= day' /\ f.day # day'
    BY <2>1, <2>2
  <2>4. \A c : Files(c)' = Files(c) /\ Allowed(c)' = Allowed(c)
    BY <2>1 DEF Files, Allowed
  <2>5. QED
    BY <2>1, <2>3, <2>4 DEF PileInv
<1>3. CASE Run
  <2>1. \A c : Files(c)' = Files(c) /\ Allowed(c)' = Allowed(c)
    BY <1>3 DEF Run, Files, Allowed
  <2>2. QED
    BY <1>3, <2>1 DEF Run, PileInv
<1>4. ASSUME NEW c \in Container, NoCommand(c)
      PROVE  PileInv'
  <2>1. \A e : Files(e)' = Files(e) /\ Allowed(e)' = Allowed(e)
    BY <1>4 DEF NoCommand, Files, Allowed
  <2>2. QED
    BY <1>4, <2>1 DEF NoCommand, Take, PileInv
<1>5. QED
  BY <1>1, <1>2, <1>3, <1>4, PileDump, PileDelete, PileKilled DEF Next

\* The backups of a container do not pile up, whatever fails and is killed: no more
\* than DAYS + 1 files, and one for each killed run.
THEOREM BackupsDoNotPile == Spec => []NoPile
<1>1. Init => PileInv
  <2> SUFFICES ASSUME Init
               PROVE  PileInv
    OBVIOUS
  <2>1. files = {} /\ todo = {} /\ at = {} /\ kills = 0
    BY DEF Init
  <2>2. \A c : Files(c) = {} /\ Allowed(c) = Days + 1
    BY <2>1 DEF Files, Allowed
  <2>3. Cardinality({}) = 0 /\ IsFiniteSet({})
    BY FS_EmptySet
  <2>4. QED
    BY <2>1, <2>2, <2>3 DEF PileInv
<1>2. TypeOK /\ PileInv => NoPile
  <2> SUFFICES ASSUME TypeOK, PileInv, NEW c \in Container \ at
               PROVE  Cardinality(Files(c)) <= Days + 1 + kills
    BY DEF NoPile
  <2>1. Allowed(c) = Days + 1 + kills
    BY DEF Allowed, TypeOK
  <2>2. QED
    BY <2>1 DEF PileInv
<1>3. QED
  BY <1>1, <1>2, PileStep, TypeCorrect, PTL DEF Spec
=============================================================================

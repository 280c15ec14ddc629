---------------------------- MODULE DockerBackup ----------------------------
(***************************************************************************)
(* The nightly dumps of the databases in containers (docker.backup, run by *)
(* backup.sh): for each running container a dump, then the deletion of old *)
(* files, which are found by the container's name as a PREFIX.  A dump may *)
(* fail and leaves a file all the same; the run may be killed at any time, *)
(* or not happen at all on a day the host is off.                          *)
(***************************************************************************)
EXTENDS Naturals, FiniteSets

CONSTANTS Container,  \* the containers with a database
          Begins,     \* Begins[c]: the containers whose names begin with that of c
          Days,       \* DAYS
          LastDay     \* bound: the days that are looked at

ASSUME BackupAssumption == /\ Begins \in [Container -> SUBSET Container]
                           /\ \A c \in Container : c \in Begins[c]
                           /\ Days \in Nat /\ LastDay \in Nat

VARIABLES day,       \* the date
          todo,      \* the containers this run has still to see, {} without a run
          at,        \* the container whose old files are next looked at, or {}
          due,       \* cron has not yet started the run of today
          files,     \* $BACKUPDIR: whose, of what day, and whether it is complete
          succeeded, \* history: succeeded[c]: the days with a good dump, of the last DAYS
          kills      \* history: runs killed between a dump and the deletion

vars == <<day, todo, at, due, files, succeeded, kills>>

File == [of : Container, day : 0 .. LastDay, good : BOOLEAN]

Init == /\ day = 0 /\ todo = {} /\ at = {} /\ due = TRUE /\ files = {}
        /\ succeeded = [c \in Container |-> {}] /\ kills = 0
-----------------------------------------------------------------------------
\* Midnight.  A run ends before the next one is due.
NextDay == /\ todo = {} /\ at = {} /\ day < LastDay
           /\ day' = day + 1 /\ due' = TRUE
           /\ succeeded' = [c \in Container |-> {d \in succeeded[c] : day - d < Days}]
           /\ UNCHANGED <<todo, at, files, kills>>

\* backup.sh: the containers that run are listed once.
Run == /\ due
       /\ todo' \in SUBSET Container
       /\ due' = FALSE
       /\ UNCHANGED <<day, at, files, succeeded, kills>>

\* The loop comes to the next container.
Take(c) == c \in todo /\ at = {} /\ todo' = todo \ {c}

\* No dump command is found: `continue'.
NoCommand(c) == /\ Take(c)
                /\ UNCHANGED <<day, at, due, files, succeeded, kills>>

\* Mutant: the date of the day to come.
DatedLater(c, ok) == [of |-> c, day |-> day + 1, good |-> ok]

\* $BACKUPDIR/$i-...-$TIMESTAMP.sql.gz
Dated(c, ok) == [of |-> c, day |-> day, good |-> ok]

\* dump | gzip > file
Dump(c) == /\ Take(c)
           /\ at' = {c}
           /\ \E ok \in BOOLEAN :
                /\ files' = files \cup {Dated(c, ok)}
                /\ succeeded' = IF ok THEN [succeeded EXCEPT ![c] = @ \cup {day}]
                                      ELSE succeeded
           /\ UNCHANGED <<day, due, kills>>

\* $BACKUPDIR/$i*.gz
Matching(c) == {f \in files : f.of \in Begins[c]}

\* Mutant: -mtime without the plus.
OldFrom(f) == day - f.day >= Days

\* -daystart -mtime +$DAYS
Old(f) == day - f.day > Days

\* Mutant: only good files count.
DeleteGoodCount(c) ==
    /\ c \in at /\ at' = {}
    /\ files' = IF Cardinality({f \in Matching(c) : f.good}) > Days
                THEN files \ {f \in Matching(c) : Old(f)} ELSE files
    /\ UNCHANGED <<day, todo, due, succeeded, kills>>

\* "dont delete last old backups!": there must be more than DAYS files.
Delete(c) == /\ c \in at /\ at' = {}
             /\ files' = IF Cardinality(Matching(c)) > Days
                         THEN files \ {f \in Matching(c) : Old(f)} ELSE files
             /\ UNCHANGED <<day, todo, due, succeeded, kills>>

\* Killed; a dump that was under way is left incomplete.
Killed == /\ todo # {} \/ at # {}
          /\ todo' = {} /\ at' = {}
          /\ \/ UNCHANGED files
             \/ \E c \in todo : /\ at = {}
                                /\ files' = files \cup {Dated(c, FALSE)}
          /\ kills' = IF at # {} \/ files' # files THEN kills + 1 ELSE kills
          /\ UNCHANGED <<day, due, succeeded>>

Next == \/ NextDay \/ Run \/ Killed
        \/ \E c \in Container : NoCommand(c) \/ Dump(c) \/ Delete(c)

Spec == Init /\ [][Next]_vars
-----------------------------------------------------------------------------
Files(c) == {f \in files : f.of = c}

\* The variables have their types.
TypeOK == /\ day \in 0 .. LastDay
          /\ todo \subseteq Container /\ at \subseteq Container
          /\ due \in BOOLEAN /\ kills \in Nat
          /\ files \subseteq File
          /\ succeeded \in [Container -> SUBSET (0 .. day)]

\* DAYS: what has been dumped in the last DAYS days is there, whichever container's
\* files were looked through, whatever failed and whatever was killed.
YoungKept == \A c \in Container : \A d \in succeeded[c] :
    [of |-> c, day |-> d, good |-> TRUE] \in files

\* The backups of a container do not pile up: broken files count as well, and
\* after a killed run the next one catches up.
NoPile == \A c \in Container \ at : Cardinality(Files(c)) <= Days + 1 + kills

\* "dont delete last old backups!": what is deleted is never the last good backup.
LastGoodKept == [][\A c \in Container : (\E f \in Files(c) : f.good)
                                     => \E f \in files' : f.of = c /\ f.good]_vars
=============================================================================

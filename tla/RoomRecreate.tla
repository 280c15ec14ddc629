---------------------------- MODULE RoomRecreate ----------------------------
(***************************************************************************)
(* matrix-recreate-room.sh: a broken room is replaced by a new one under   *)
(* the same alias, by a dozen calls of Synapse's API of which hardly any   *)
(* answer is looked at.  The script holds a lock: one attempt at a time;   *)
(* an attempt that went wrong may be followed by another one.              *)
(*                                                                         *)
(* A call that finds Synapse down, or that Synapse refuses, does nothing.  *)
(* Rooms are numbered as they are made; the broken one is the first.       *)
(***************************************************************************)
EXTENDS SynapsePurge

CONSTANTS Member,     \* the user ids given to the script
          MaxRooms,   \* bound: rooms ever made
          MaxFaults   \* bound: unanswered or refused calls and kills

ASSUME RecreateAssumption == MaxRooms \in Nat \ {0} /\ MaxFaults \in Nat

NoRoom  == 0
Setting == {"encrypted", "powered", "canonical"}

VARIABLES pc,        \* the call the script is at, "idle" without a script
          old, new,  \* OLD_ID and NEW_ID
          joining,   \* the members still to be joined
          verdict,   \* how the last attempt ended
          faulty,    \* history: a call of this attempt did nothing
          faults,    \* what has gone wrong so far, Synapse's stops aside
          made,      \* rooms made so far
          rooms,     \* those that are not purged
          alias,     \* the room of the alias in the directory, or NoRoom
          settings,  \* the state events of the newest room that matter
          members    \* who has joined it

script == <<pc, old, new, joining, verdict>>
tally  == <<faulty, faults>>
server == <<made, rooms, alias, settings, members>>
recreate == <<script, tally, server>>

RecreateInit ==
    /\ pc = "idle" /\ old = NoRoom /\ new = NoRoom /\ joining = {}
    /\ verdict = "none" /\ faulty = FALSE /\ faults = 0
    /\ made = 1 /\ rooms = {1} /\ alias = 1
    /\ settings = {} /\ members = {}
-----------------------------------------------------------------------------
Works == synapse /\ UNCHANGED tally

Fault == faults < MaxFaults /\ faults' = faults + 1 /\ faulty' = TRUE

\* The call has no effect: Synapse is down, refuses it or never gets it.
Fails == \/ ~synapse /\ faulty' = TRUE /\ UNCHANGED faults
         \/ Fault

Goto(from, to) == pc = from /\ pc' = to /\ UNCHANGED <<old, new, joining, verdict>>

Ends(from, how) == /\ pc = from /\ pc' = "idle" /\ verdict' = how
                   /\ UNCHANGED <<old, new, joining>>

Start == /\ pc = "idle" /\ made < MaxRooms
         /\ pc' = "resolve" /\ old' = NoRoom /\ new' = NoRoom /\ joining' = Member
         /\ verdict' = "none" /\ faulty' = FALSE
         /\ UNCHANGED <<faults, server>>

\* OLD_ID: a query that fails looks like an alias that does not exist.
Resolve == /\ pc = "resolve" /\ pc' = "create"
           /\ \/ Works /\ old' = alias
              \/ Fails /\ old' = NoRoom
           /\ UNCHANGED <<new, joining, verdict, server>>

Made == /\ made' = made + 1
        /\ rooms' = rooms \cup {made + 1}
        /\ settings' = {} /\ members' = {}
        /\ UNCHANGED alias

Create == /\ pc = "create" /\ pc' = "encrypt"
          /\ Works /\ Made /\ new' = made + 1
          /\ UNCHANGED <<old, joining, verdict>>

\* Without an answer the script gives up; the room may have been made.
CreateFails == /\ Ends("create", "failed")
               /\ \/ Fails /\ UNCHANGED server
                  \/ synapse /\ Fault /\ Made

\* A state event of the new room; the answer is not read.
Put(setting) == \/ /\ Works
                   /\ settings' = settings \cup {setting}
                   /\ UNCHANGED <<made, rooms, alias, members>>
                \/ Fails /\ UNCHANGED server

Encrypt == Goto("encrypt", "power") /\ Put("encrypted")

\* The levels are read: without any answer they are not set, and an error is taken
\* for an answer.
BehindLevels == IF old = NoRoom THEN "alias" ELSE "uncanonical"

GetLevels == /\ \/ Works /\ Goto("power", "setpower")
                \/ Fails /\ Goto("power", BehindLevels)
                \/ synapse /\ Fault /\ Goto("power", "seterror")
             /\ UNCHANGED server

PutLevels == Goto("setpower", BehindLevels) /\ Put("powered")

\* The text of the error is put, with the members added.  Synapse may take that, and
\* then refuse what such levels do not allow.
Refused == faulty /\ Works

PutError == /\ Goto("seterror", BehindLevels)
            /\ Put("powered") \/ (Refused /\ UNCHANGED server)

\* The old room's own canonical alias is removed: nothing depends on it.
Uncanonical == Goto("uncanonical", "unalias") /\ (Works \/ Fails) /\ UNCHANGED server

\* Mutant: the alias is left to the new room's PUT.
UnaliasSkipped == Goto("unalias", "alias") /\ (Works \/ Fails) /\ UNCHANGED server

Unalias == /\ Goto("unalias", "alias")
           /\ \/ Works /\ alias' = NoRoom /\ UNCHANGED <<made, rooms, settings, members>>
              \/ Fails /\ UNCHANGED server
-----------------------------------------------------------------------------
\* Synapse takes an alias only while it names no room ...
SetAlias == /\ Goto("alias", "canonical")
            /\ \/ /\ Works
                  /\ alias' = IF alias = NoRoom THEN new ELSE alias
                  /\ UNCHANGED <<made, rooms, settings, members>>
               \/ Fails /\ UNCHANGED server

\* ... and as canonical one only of the room it names.
Canonical == /\ Goto("canonical", "join")
             /\ \/ alias = new /\ Put("canonical")
                \/ alias # new /\ (Works \/ Fails) /\ UNCHANGED server
                \/ Refused /\ UNCHANGED server

\* One member; the answer is only reported.
Join == /\ pc = "join" /\ joining # {}
        /\ \E u \in joining :
             /\ joining' = joining \ {u}
             /\ \/ /\ Works
                   /\ members' = members \cup {u}
                \/ (Fails \/ Refused) /\ UNCHANGED members
        /\ UNCHANGED <<pc, old, new, verdict, made, rooms, alias, settings>>

Joined == /\ joining = {}
          /\ Goto("join", IF old = NoRoom THEN "verify" ELSE "purge")
          /\ UNCHANGED <<tally, server>>

\* The old room goes, whatever has become of the new one.  An alias it still
\* has may stay in the directory.
Purge == /\ Goto("purge", "verify")
         /\ \/ /\ Works
               /\ rooms' = rooms \ {old}
               /\ alias' \in {alias, IF alias = old THEN NoRoom ELSE alias}
               /\ UNCHANGED <<made, settings, members>>
            \/ Fails /\ UNCHANGED server

Verify == /\ \/ Works /\ Ends("verify", IF alias = new THEN "passed" ELSE "failed")
             \/ Fails /\ Ends("verify", "failed")
          /\ UNCHANGED server

\* The script is killed.
Broken == /\ pc # "idle" /\ Ends(pc, "killed") /\ Fault
          /\ UNCHANGED server

RecreateNext == \/ Start \/ Resolve \/ Create \/ CreateFails \/ Encrypt
                \/ GetLevels \/ PutLevels \/ PutError
                \/ Uncanonical \/ Unalias \/ SetAlias \/ Canonical \/ Join \/ Joined
                \/ Purge \/ Verify \/ Broken
-----------------------------------------------------------------------------
\* The variables have their types.
RecreateTypeOK ==
    /\ pc \in {"idle", "resolve", "create", "encrypt", "power", "setpower", "seterror",
               "uncanonical", "unalias", "alias", "canonical", "join", "purge", "verify"}
    /\ old \in 0 .. MaxRooms /\ new \in 0 .. MaxRooms /\ alias \in 0 .. MaxRooms
    /\ joining \subseteq Member
    /\ verdict \in {"none", "passed", "failed", "killed"}
    /\ faulty \in BOOLEAN /\ faults \in 0 .. MaxFaults
    /\ made \in 1 .. MaxRooms /\ rooms \subseteq 1 .. MaxRooms
    /\ settings \subseteq Setting
    /\ members \subseteq Member

\* "Recreate a broken Matrix room under the same alias": an attempt none of whose
\* calls failed leaves the alias with a new room that is encrypted, has all members as
\* administrators and is the alias's canonical room, and no trace of the old one --
\* whatever state earlier attempts have left.
CleanRunHeals ==
    pc = "idle" /\ new # NoRoom /\ ~faulty =>
        /\ verdict = "passed"
        /\ alias = new /\ new \in rooms /\ old \notin rooms
        /\ settings = Setting /\ members = Member
=============================================================================

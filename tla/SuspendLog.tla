----------------------------- MODULE SuspendLog -----------------------------
(***************************************************************************)
(* The suspend/resume history of compute-overview: systemd's sleep hook    *)
(* writes a line before a suspend and one after the resume, the kernel     *)
(* writes its own to a ring buffer that a boot empties, and                *)
(* suspend_events reads both and drops what it has seen already.           *)
(*                                                                         *)
(* An event is one suspend or one resume, known by its number; `event' is  *)
(* carried along only to say which row is about which.                     *)
(***************************************************************************)
EXTENDS Naturals, Sequences, SequencesExt

CONSTANTS MaxEvents,  \* bound: suspends and resumes
          MaxMinute,  \* bound: the clock
          Listed      \* the page shows so many rows

Zone  == "CET"
Phase == {"pre", "post"}

VARIABLES minute,  \* the wall clock
          slept,   \* how much of it the kernel's clock has missed since the boot
          box,     \* "up", or how far it is on its way down or up again
          events,  \* events so far
          log,     \* /var/log/compute-sleep.log: the words of each line
          dmesg,   \* the kernel's lines since the boot
          rows     \* the last answer of suspend_events

vars == <<minute, slept, box, events, log, dmesg, rows>>

Init == /\ minute = 0 /\ slept = 0 /\ box = "up" /\ events = 0
        /\ log = <<>> /\ dmesg = <<>> /\ rows = <<>>
-----------------------------------------------------------------------------
Tick == /\ minute < MaxMinute
        /\ minute' = minute + 1
        /\ slept' = IF box = "asleep" THEN slept + 1 ELSE slept
        /\ UNCHANGED <<box, events, log, dmesg, rows>>

Happens == events < MaxEvents /\ events' = events + 1

\* echo "$(date '+%Y-%m-%d %H:%M:%S %Z') pre $2" >> "$SLEEP_LOG"
HookLine(phase, event) ==
    [words |-> <<"date", minute, Zone, phase, "suspend">>, event |-> event]

Hook(from, to, phase, event) ==
    /\ box = from /\ box' = to
    /\ log' = Append(log, HookLine(phase, event))
    /\ UNCHANGED <<minute, slept, dmesg, rows>>

\* PM: suspend entry, PM: suspend exit
Kernel(from, to, phase, event) ==
    /\ box = from /\ box' = to
    /\ dmesg' = Append(dmesg, [minute |-> minute - slept, phase |-> phase, event |-> event])
    /\ UNCHANGED <<minute, slept, log, rows>>

HookPre  == Hook("up", "leaving", "pre", events + 1) /\ Happens
Entry    == Kernel("leaving", "asleep", "pre", events) /\ UNCHANGED events
Exit     == Kernel("asleep", "waking", "post", events + 1) /\ Happens
HookPost == Hook("waking", "up", "post", events) /\ UNCHANGED events

\* A boot; the log stays.
Boot == /\ box' = "up" /\ dmesg' = <<>> /\ slept' = 0
        /\ UNCHANGED <<minute, events, log, rows>>
-----------------------------------------------------------------------------
Row(at, phase, mode, event) ==
    [minute |-> at, phase |-> phase, mode |-> mode, event |-> event]

\* The words of a line are taken by their place: the phase is p[2].
OfLog(line) == Row(line.words[2], line.words[3], line.words[4], line.event)

\* now - uptime + rel
OfDmesg(entry) == Row(entry.minute, entry.phase, "deep", entry.event)

\* _add: once for each minute and phase.
Add(shown, row) ==
    IF \E i \in 1 .. Len(shown) : shown[i].minute = row.minute /\ shown[i].phase = row.phase
    THEN shown ELSE Append(shown, row)

\* Newest first, and no more than the page shows.
SuspendEvents ==
    LET read   == [i \in 1 .. Len(log) |-> OfLog(log[i])]
                  \o [i \in 1 .. Len(dmesg) |-> OfDmesg(dmesg[i])]
        sorted == SortSeq(FoldLeft(Add, <<>>, read), LAMBDA a, b : a.minute > b.minute)
    IN SubSeq(sorted, 1, IF Len(sorted) < Listed THEN Len(sorted) ELSE Listed)

Look == /\ box = "up"
        /\ rows' = SuspendEvents
        /\ UNCHANGED <<minute, slept, box, events, log, dmesg>>

Next == Tick \/ HookPre \/ Entry \/ Exit \/ HookPost \/ Boot \/ Look

Spec == Init /\ [][Next]_vars
-----------------------------------------------------------------------------
\* "dedup log vs dmesg": no suspend and no resume is listed twice.
EventOnce == \A i, j \in 1 .. Len(rows) : i # j => rows[i].event # rows[j].event
=============================================================================

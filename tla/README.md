# linux-setups: a verification project

`linux-setups` is a collection of Ansible playbooks, shell scripts and a few
Python services that set up and run one family's machines. Most of it is
deployment: tasks that run once, in order. The part that runs for years without
anybody looking, and in which several actors share state, is small, and it is
what these TLA+ modules are about:

* the GPU services of the *compute box*, which load lazily, give the GPU back and
  let the box sleep and be woken by requests;
* the *notification path* of the Matrix server: shell script, FIFO, a bridge with
  end-to-end encryption, and the nightly scripts that repair its key stores;
* the *overview page* of the compute box: its threads, their shared caches, the
  browser that polls them, the log of suspends it merges from two sources;
* the *upkeep* of the servers: cron jobs that stop Synapse to rewrite its tables, the
  replacement of a broken room, the nightly database dumps.

Every module is translated from the source, at the lines `PROJECT.json` names
under `map`. `PROJECT.json` also lists the hazards each property is for, the
findings, the mutants that show that each property can be broken by a bug of the
code it is about, and the components left out.

## 1. The system

### Parts, state, operations

| part | state | operations | modelled in |
|---|---|---|---|
| XTTS proxy (`mint/templates/tts_xtts_proxy.py.j2`) | model and latents, `_lock`, `_busy`, `_last_use` | POST (thread each), lazy load, idle exit, respawn by systemd | `XttsProxy`, `GpuLease` |
| wake-on-LAN and idle watcher (`debian/compute-host-suspend-wol.yml`, `mint/wake-on-lan.yml`) | box's power state, NIC flag, time stamps in `/tmp`, access log | tail of the log, pings, magic packet, a pass of questions, suspend, sleep hook, re-arming cron job | `ComputeWol` |
| `notify.sh` and a room's FIFO (`debian/basics/basics.yml`, `pipes_runner.py`) | the kernel's pipe, the reader's buffer, `msg_queue` | open, write, read, end of file, reopen, decode, split, restart | `RoomFifo`, `LineChannel` |
| pipes runner, one room (`debian/matrix.server/files/pipes_runner.py`) | room id, queue, outbox, sessions, key requests, history marker | setup, wait for the room, forward the history, send, share keys, answer requests | `RoomPipe`, `LineChannel` |
| the way from `notify.sh` to the room, both in one process | who opens the FIFO when, what a restart takes | reads that queue, restarts | `NotifyPath` |
| E2EE device health (`matrix-device-health.sh`) | `deleted` marks in every store's database and in the runner | list, query, unmark, restart | `StoreRepair` |
| compute-overview (`mint/compute-overview/overview.py`) | three time-limited caches, the map of cards; in the browser the answers outstanding and the chart history | GET `/api` (thread each), `load` every 3 s, `pushHist` | `Overview`, `OverviewPage` |
| suspend history (`overview.py`, the sleep hook in `mint/wake-on-lan.yml`) | a log file, the kernel's ring buffer | hook before and after, merge, deduplication | `SuspendLog` |
| Synapse clean-up (`synapse-purge.sh`, cron in `matrix.yml`) | Synapse up or down | tidy, stop, `VACUUM FULL`, start, by modes | `SynapsePurge` |
| room re-creation (`matrix-recreate-room.sh`) | rooms, alias, settings, members | a dozen API calls | `RoomRecreate` |
| both on one server | Synapse up or down is common | | `MatrixCare` |
| databases backup (`debian/docker/docker.yml`, `debian/backup/backup.yml`) | dump files | nightly run, dump, deletion of old files | `DockerBackup` |
| ignored devices (`fix-matrix-ignored-devices.sh`), DNS and tunnel watchers, text chunking of the proxy | files, locks, strings | cron jobs, a pure function | not modelled (section 7) |
| everything else | files written once | Ansible tasks | not modelled (section 7) |

### How they interact

    request -> Traefik log -> ComputeWol's tail -> (magic packet) -> box
                                                     |
    client  -> XttsProxy (GPU) <- idle watcher asks "is the GPU in use?"
                                                     |
    browser -> overview.py (threads, shared caches) -+   sleep hook, dmesg -> SuspendLog

    script -> notify.sh --lock, FIFO--> RoomFifo -> msg_queue -> RoomPipe -> Matrix
                                                                   ^
                 cron: matrix-device-health.sh (StoreRepair) -- databases, restart

    cron: synapse-purge.sh (SynapsePurge) --stop, start--> Synapse <--API calls-- RoomRecreate
    cron: backup.sh -> docker.backup (DockerBackup)

`RoomFifo` ends where a line enters `msg_queue`; `RoomPipe` begins there, with
numbered lines, which is what `RoomFifo` promises (`LinesIntact`, `InOrder`). Both
implement the same abstract specification, `LineChannel`, and so does `NotifyPath`, the two
in one process. A restart by `StoreRepair` is the action `RestartBoth`.
The question about the GPU is one kind of activity in `ComputeWol`; that a quiet
proxy gives the GPU up in the end (`QuietFreesGpu`) is why that activity ends.

### What is hard here

* **Threads**: `_busy` changes outside `_lock`; the caches of `overview.py` have no
  lock at all.
* **Interleaved processes**: two scripts on another host decide about the power of
  a box that changes meanwhile; a watcher reads something and acts on it twelve
  ssh commands later; a script edits a database of a running program.
* **Failures read as answers**: an ssh that fails reads as "idle", a query that
  fails as "no devices".
* **Kernel rules**: what a FIFO loses on its last close, who blocks on open.
* **Crashes** between a marker or an update and what it stands for, between a stop and
  its start, between a dump and the deletion of old ones.
* **Overlapping cron jobs**: the weekly and the monthly clean-up have no lock between
  them, and neither knows of an administrator at work on a room.
* **Ordering and duplication**: requeued lines, key shares before sends, answers that
  overtake one another on their way to the page, one event in two logs.
* **Liveness**: a box that never wakes, a lock never released, a line never sent.

## 2. The modules

A time is modelled as an age that stops growing at the largest value it is
compared with (`XttsProxy`, `ComputeWol`), or as a bounded clock (`Overview`, `DockerBackup`, `SuspendLog`).
Bodies, names and texts are numbers or model values. Calls that may fail have a
disjunct or an action for their failure. Operators marked *Mutant* are the wrong
versions of their neighbours that show what the properties catch; no
specification uses them.

### XttsProxy, GpuLease

`pc[r]` says where the thread of a request is between `_handle_tts`'s lines;
`Counted` is the stretch from `_busy += 1` to the `finally`. `Poll` is the
unloader's test under `_lock`, `Exit` its `os._exit(0)`, two steps, because a print
and `empty_cache` run between them. `LoadFails`, `NoLatents`, `BadVoice`, `SynthFails`
and `SendFails` are the exceptions and early returns. A `+= 1` is one step under
CPython 3.11 (no switch between its byte codes).

`GpuLease` is the abstract promise: the model is given up only while nobody uses
it. `LeaseSafety` is that promise under `loaded <- tts`, `users <- ` requests in
synthesis or in the sending of their audio.

### ComputeWol

`Tail*` are the lines of `wol-watch-tail.sh`, `Watch*` those of
`wol-watch-idle.sh`: a pass is the sequence `Steps`, each step with its guard and
its `continue` (`Bail`). `Ssh(works)` says how a command may come out. `FallAsleep`
and `Rise` are the sleep hook, `Rearm` the cron job. A pass begins whenever its `sleep`
is over, whatever the box does (`WatchStart`), and a box on its way to sleep still
answers pings and, it may be, ssh. `lasting`, `wokeAge`, `failed` and `fell` are history:
the activity that was there during the whole pass so far, the age of the last wake-up,
whether an ssh command of the pass has failed, and whether the box has gone to sleep since
the pass pinged it.

`GraceRespected` has one exemption, `fell`. The grace period is tested once, before eight
slow questions. A box that stays up until the end of the pass cannot be woken by a packet
meanwhile, for it answered the ping before the test (the mutant tests in the other order);
one that is suspended by hand during the pass, goes to sleep, and is woken by a request
after the test is suspended again by the rest of that pass.

### RoomFifo

Bytes carry the number of their line, so that "intact" and "in order" can be said
of what arrives. `Open`, `Write` and `Close` are the writer's system calls under
`notify.sh`'s lock; the reader's are opening without blocking, reads of up to `ReadMax`
bytes, end of file and, as a step of its own, the close. `Decoded` is
`decode(errors="replace")` of one read: half of a character becomes "?". `Restart` is the
end of the process and the beginning of the next: descriptor and `fifo_buffer` are gone,
the FIFO's content stays if a writer has it open. `queue` is a history of all that was put
into `msg_queue`, in every run. `window` is the set of lines whose writer opened between
end of file and close, or which were on their way at a restart; `torn` those that were in
`fifo_buffer` at one, so that the next run may deliver their end as a line.

### LineChannel

The abstract specification of the notification path: lines are accepted in ascending order
and come out, one or several at a time, only if accepted, none twice; what has come out
stays; in order as long as order can be kept (`straight`). `RoomFifo` implements it with
accepted = written to the end, delivered = the line that ends each queued entry, always
straight; `RoomPipe` with accepted = read, delivered = sent, straight until the room is
left under a running sender; `NotifyPath` with accepted = written to the end, delivered =
the lines of `notify.sh` that have been sent. That a line may be lost is part of the promise;
where it is lost is what `LineDelivered` and `EachLineOnce` say.

### RoomPipe

asyncio switches at an `await` only, so an action is the code between two awaits.
`phase` follows `run()`; the sender's three places are its awaits; `Share` is
`share_keys_now` up to the flush. What nio does by itself (joined rooms, flush of the
outbox by the sync, olm sessions, requests) is external. `load_store` may raise
(`Setup`), the alias may not resolve, the marker may not be written (`Mark`), a flush may
deliver a part of the outbox and fail, in the sender's hands (`FlushNow`) or in the sync,
which `run_sync` then begins again (`FlushSync`); the sync goes on when `run()` has ended
(`Syncing`). `count.owed` is history: the devices to whom the stored keys were to be
forwarded, without those whose keys a restart found in the outbox. Sessions and lines are
numbers; the outbox is a set of (device, session) pairs. Loops over a sequence
(`SplitLines` of `RoomFifo`, `Without` here) are recursive functions, which the provers can
unfold.

### NotifyPath

Extends `RoomFifo` and instantiates `RoomPipe`, whose `queue` is here `waiting`. What one
module leaves open the other decides: `FifoLoop` and `OnFifoRead` need the pipe to have come to
its loops (`phase = "running"`), so that the FIFO has no reader before the room is found and
none after `run()` has failed; a read that ends lines puts as many into `waiting`, all in
the callback (`PutLines`), the n-th line given by the FIFO being line n of the pipe; a restart
takes descriptor, buffer, queue and outbox at once. `Messages` looks up, for what was sent,
the line of `notify.sh` it carries.

### StoreRepair

`disk[s]` and `mem[s]` are the devices a store's database, and the running runner,
hold for deleted. `Begin`, `ListStore`, `Query`, `Unmark`, `KeepOthers`, `Restart`
are the script's loops; `ListFails`, `QueryFails`, `UnmarkFails` are the errors that
go to `/dev/null`; `CutOff` is a killed script or a restart that fails. `Sync` and
`SyncLost` are the runner's own marking while the script is at work. `lived`
and `cut` are history.

### Overview, OverviewPage

`Overview`: one time-limited cache (the three of the code have the same five steps) and
the map of cards. A cached value stands for the time its sample was taken. Each look at
a shared variable is a step of its own. A sampler that raises leaves the cache as it was and
ends its thread without an answer (`Raise`); one that gets no output stores what it has.

`OverviewPage` extends it with the script of one page. `Ask` is `load()`, which
`setInterval` calls whether or not the last answer has come; `Draw` is its whole
handler, which draws what comes and pushes it into `hist` (`Pushed`); `AskFails` and
`AnswerFails` are its `catch`; `Visit` is any other browser. An answer is known by the time
its thread began, the time the page shows with it. `late` is history: a poll found the
answer before it outstanding. Time does not pass a poll that is due (a browser's timer).

### SuspendLog

The hook's line is kept as the sequence of words it consists of, because
`suspend_events` takes words by their place. The kernel's clock stands still while the
box sleeps; `slept` is how far it is behind the uptime that `overview.py` adds it to.

### SynapsePurge, RoomRecreate, MatrixCare

A mode of `synapse-purge.sh` is a list of statements (`Statements`), `at[j]` the place of
run `j` in it. `StopFails`, `StartFails` and `Killed` are bounded by `MaxTrouble`. `stopped`,
`spoilt` and `abandoned` are history: which run has stopped Synapse, which can no longer
count on its being down, and whether one has gone without starting it.

`RoomRecreate` has one action for each call of `matrix-recreate-room.sh`, with two
outcomes: it `Works`, which needs a running Synapse, or it `Fails`, whose answer the script
hardly ever looks at. The power levels are a GET and a PUT: without any answer to the GET
there is no PUT, while an error's text is put as if it were levels (`PutError`), after which
Synapse may refuse (`Refused`) what such levels do not allow. The directory's rule that an alias names one room at a time is
Synapse's (external). Attempts may follow one another, a killed one included.

`MatrixCare` interleaves the two; `synapse` is the variable they share, written by one and
read by the other.

### DockerBackup

`todo` and `at` are the loop of one run, `files` the directory: whose, of what day, and
whether complete. A dump that fails leaves its file (the redirection creates it, `pipefail`
makes the failure known and no more). `Matching` is the glob `$i*.gz`, which `Begins` turns
into "containers whose names begin with this one's". A run may be missed for a day, killed in
a dump or between dump and deletion.

## 3. The runs

| run | module | shows | about |
|---|---|---|---|
| `xtts_safe` | `MCXttsProxy` | holds | count exact, no audio cut short, `GpuLease` implemented, quiet GPU freed |
| `wol_safe` | `ComputeWol` | holds | armed and idle when suspended, if ssh works; overrides honoured whatever ssh does; no suspend in the grace period of a box that stayed up since the ping; retries wake the box |
| `wol_ssh_fails` | `ComputeWol` | violated | "AND no active compute", when ssh fails |
| `fifo_safe` | `MCRoomFifo` | holds | lines whole but for cut characters, ordered; `LineChannel` implemented |
| `pipe` | `RoomPipe` | holds | each line in one place, order, `LineChannel` implemented, key before message, the marker vouches for the history; requests are answered |
| `notify_path` | `MCNotifyPath` | holds | FIFO and pipe are one `LineChannel`; writers get a reader unless the pipe never starts its loops; complete lines are sent or given up unless they meet a window |
| `overview_page` | `MCOverviewPage` | holds | nothing stale is served, the map gets complete, the page's charts go back in time only after a late answer |
| `sleep_twice` | `SuspendLog` | violated | "dedup log vs dmesg" |
| `store_repair` | `MCStoreRepair` | holds | runner and databases agree after a run, only live devices are unmarked, live devices are repaired |
| `matrix_care` | `MCMatrixCare` | holds | Synapse is never forgotten down and comes up again, tables are rewritten offline except after a failed stop or another run's start, a clean attempt heals the room |
| `docker_backup` | `MCDockerBackup` | holds | good dumps of the last DAYS days stay, files do not pile up |
| `backup_last_good` | `MCDockerBackup` | violated | "dont delete last old backups!" |

### Bounds, and why they are enough

* `xtts_safe`: two requests and a time-out of two ticks. Two threads are what every race
  here needs (one in service, one between the test and the exit); with more the
  theorems take over, which hold for every set of clients.
* `wol_*`: `IdleTimeout` 2, `Grace` 1, ping intervals 2 and 1, one unread line, all
  faults at once; activities `gpu` (over ssh, asked twice) and `localflag` (local).
  What the scripts compare is an age with one limit, so values just below and at the
  limit are all that matters; the theorems hold for every value.
* `fifo_safe`: three lines of a one-byte and a two-byte character, reads of two bytes, so
  that a line and its newline take more than one read, a read takes parts of two lines and
  cuts a character; a writer may be killed anywhere and the runner restarted once. The
  theorems hold for every text, number of lines, size of a read and number of restarts.
* `pipe`: two lines, two devices (one of which cannot encrypt), a key request, a restart, a
  departure; every call may fail but the encryption for the good device, since the bad one
  takes the same branch. Requeueing needs two lines, a half-done sharing or forwarding two
  devices; a request of either device shows what a sweep does with it.
* `notify_path`: two lines of one character, so that one read may take both, a kill, one
  restart, one departure, one device that can encrypt and one that cannot, flushes that fail:
  one of everything that may go wrong on the way. The cutting of characters and failing sends
  are left to the runs of the parts. The theorems hold for any number of each.
* `overview_page`: two threads, three cards, clock to 5 with TTL 2 and a sample's time
  limit 3, a poll every 2, a history of 2 answers, one visit of another browser. An
  overtaken answer needs two outstanding ones, the cut of the history three answers, a
  cache replaced by an older sample two threads. The theorems hold for every number of
  threads and cards, every interval and length.
* `store_repair`: two stores, two users with a device each, two faults of any
  kind. One fault makes a wrong mark, the other disturbs its repair.
* `matrix_care`: a weekly and a monthly run (one stop and two stops, one table each, with a
  step that leaves Synapse alone), one kill or failing docker command; one member, three
  rooms, one refused call. Runs of two kinds are all that overlap; three rooms are two
  attempts, the second on what the first has left; a stop of Synapse makes calls fail
  without using up the fault. The theorems hold for any number of each.
* `docker_backup`, `backup_last_good`: `wiki` and `wiki-old`, DAYS 2, six days: more days
  than DAYS + 1, so that old files exist, are counted and deleted under both names.
* `sleep_twice`: four events in three minutes, twenty rows; one suspend is enough.

`CHECK_DEADLOCK FALSE` stands where the model really stops: all lines written and
read (`RoomFifo`), a dead pipe or nothing more to come (`RoomPipe`, `NotifyPath`), the clock at its
bound (`OverviewPage`, `DockerBackup`, `SuspendLog`), no more rooms to be made (`MatrixCare`), all devices logged out in `StoreRepair`'s case only by choice of
the environment.

### Fairness, and why the code justifies it

* `XttsProxy`: a running thread goes on (`Work`), the unloader polls and exits, systemd
  respawns (`Restart=always`), time passes. Nothing is assumed of clients or of who
  gets the lock.
* `ComputeWol`: the two services and cron run on (`Restart=always`), suspends and
  resumes complete. `RetrySpec` adds clients that ask again, packets not always lost
  and a tail not restarted before every ping; only `RetriesWake` needs it.
* `NotifyPath`: the event loop and the sender come round, the room comes back; a writer that
  runs does not stop by itself. That another line is written is not assumed.
* `RoomPipe`: the pipe starts, the responder comes round, the room comes back; nio's sync may
  fail now and then, but not at every flush (strong fairness of a flush that gets through).
  Only `RequestAnswered` needs it.
* `MatrixCare`: cron starts each kind of clean-up again and again and a run goes on to its
  end unless it is killed, which `MaxTrouble` bounds; only `UpAgain` needs it. Nothing is
  assumed of the administrator, nor that Synapse starts by itself (`unless-stopped`).
* `StoreRepair`: cron starts the script daily and it runs to its end unless cut off;
  failures are bounded by `MaxFaults`.

### What the violated runs show

1. **A failing ssh reads as idle** (`wol_ssh_fails`): with GPU work going on all
   through the pass the box is suspended. Local overrides are safe (`OverrideHonoured`,
   proved).
2. **The last good backup is deleted** (`backup_last_good`): files of failed dumps, and those
   of a container with a longer name, count as backups (`docker.yml:335`), so that after
   more than DAYS of them the only good one is older than DAYS days and goes. Good dumps of
   the last DAYS days are safe (`YoungKept`, proved).
3. **Every suspend is listed twice** (`sleep_twice`): the third word of a line of the hook
   is the time zone, which `overview.py:328` takes for the phase, so that the two sources
   never agree. `SuspendLog` also has the second reason, the clock that stands still.

Met while modelling and visible in the models, without a run of their own:

* a request counted after the unloader's test is killed by its exit, although the comment
  at `tts_xtts_proxy.py.j2:85` says it "must never exit while `_busy` > 0"; no audio is cut
  short by it (`NoTruncatedAudio`, proved);
* a character of two bytes cut by a read is decoded to two replacement characters, and
  nothing else of a line is (`Shown` in `LinesIntact`, proved); a line whose writer opens
  between end of file and close is lost without an error (`window`); a runner restarted while
  a line is half read sends the rest of it as a line (`torn` in `LinesIntact`, which fails
  without it); what a killed writer has left stands in front of the next line;
* an alias unresolved at start-up is never resolved again, although `pipes_runner.py:91`
  says "will retry later": every `notify.sh` then waits at its open with the lock held, as it
  does after a `run()` that has failed (`WriterServed`, which fails without the two); a restart after the history marker and before the flush loses
  the history keys for good (`Restart` empties `outbox`, `marker` stays), although line 12
  says they are forwarded to all members: `HistoryKept` fails without the exemption in
  `Restart`, and is proved to need no other;
* a box that is suspended by hand and woken by a request after the grace test of a running
  pass is suspended again by that pass, although the comment at
  `compute-host-suspend-wol.yml:13` says "Do not suspend within this time after a WoL wake"
  (`fell` in `GraceRespected`, which fails without it);
* a line looked up before a flush and sent after the room was left is given up though the
  log speaks of requeueing; one device that cannot encrypt stops the sweep of key requests
  at its place; a pipe goes on with the room it knows after `matrix-recreate-room.sh` has
  purged it;
* the comment at `compute-host-suspend-wol.yml:270` promises a check for requests that the
  code below does for the GPU only;
* a device-health run cut off between update and restart is not made good by the next one
  (`cut` in `InStep` and `Repaired`);
* overlapping clean-ups: the run that ends first starts Synapse while the other is still at
  `VACUUM FULL` (`spoilt` in `RewrittenWhileDown`);
* an attempt to replace a room passes its verification without encryption or members if
  those calls failed, and purges the old room although the alias could not be moved; line
  84 takes any answer for a success (`faulty` in `CleanRunHeals`);
* an answer that takes longer than three seconds is overtaken by the next one, and the
  charts, said to show the last 90 s, hold 90 answers three seconds apart (`late` in
  `PageInOrder`).

## 4. What is proved

Eight proof modules; every leaf is checked by TLAPS. A theorem holds for every value of
the constants under the named assumptions of the module (types of the constants,
finiteness of the set of requests or devices, nothing else).

* `XttsProxyProofs`: `TypeCorrect`, `BusyAccurate`, `ModelExclusive`,
  `AudioNeverTruncated`, `LeaseRefined`. Neither "no audio is cut" nor the refinement is
  inductive: the invariant `IInv` adds that the count is exact, that the holder of the
  lock is the one in the model, and `IdlerLock`: the unloader holds the lock from its
  decision to the end, so nobody enters the model after a test that saw zero, and
  those that had entered before would have been counted. Counting is done with the
  cardinality facts of the library, in three lemmas (a request stays, enters, leaves).
* `ComputeWolProofs`: `TypeCorrect`, `SuspendsArmed`, `SuspendsAfterGrace`, `SuspendsIdle`,
  `OverrideKept`, all about the step that suspends. The invariant `PassInv` says what a
  pass knows at each of its fourteen places: unless it fell asleep the box is up since the
  answered ping (so no packet can have woken it, so the age tested at the grace step is
  still over the limit), each kind asked about, by a command that worked, has not lasted,
  and after an arming step that worked the NIC is armed. All that is not part of the pass
  is a `Bystander`: one lemma for the environment and the tail.
* `StoreRepairProofs`: `TypeCorrect`, `RunnerInStep`, `UnmarksLive`. `RepairInv` ties the
  difference between memory and database to the script's count (`Reloaded`), and the
  answers it holds to the devices that lived in this run (`AnswersOfThisRun`).
* `OverviewProofs`: `TypeCorrect`, `AlwaysFresh`, `NeverTooYoung`, `MapGetsComplete`.
  `StampFresh` is the heart of the first: between the test and the return another thread
  may store, but only a stamp no older than the time limit. For the map:
  whatever the builders empty, some builder has all missing cards before it
  (`SomeoneCompletes`). `PageRefines`: the page with its threads is a behaviour of `Overview`'s
  specification, step by step, so that `PageFresh` and `PageMapComplete` follow. For
  `DrawnInOrder` the invariant says that, as long as no poll has found another one
  outstanding, at most one thread answers the page, its beginning is after all that is
  drawn, and what is drawn is in order.
* `NotifyPathProofs`, about the FIFO: `TypeCorrect`, `QueuedInOrder`, `LinesStayIntact`,
  `ChannelOfFifo`. The invariants are about one sequence, `Stream`: what the buffer holds, then the FIFO, then
  what the writer has still to write. A write does not change it; a read decodes a piece and
  takes lines from its front; a kill, a close without a writer and a restart drop a piece.
  `IInv` says that bytes in it stand in the order of their lines, no newline before the last
  byte of its line, and that all queued bytes are of earlier lines: order is kept whatever is
  dropped. It is not enough for whole lines, since the piece dropped could be the middle of a
  line. `WholeInv` adds that before each newline of the stream stand all bytes of its line
  (halves of cut characters replaced), unless the line is `torn`; `NewlineAhead`, that a
  complete line whose bytes are in the stream has its newline still ahead, so that no complete
  line's remains end up in another's; `Remains`, that from an end of file on the buffer holds
  parts of killed writers only, so that a FIFO emptied by the close tears no line. A restart
  drops the front of the stream: a line it cuts was in the buffer and is `torn`, or has gone
  altogether (`WholeRestart`). What the loop
  over the bytes returns (`SplitCuts`) is proved by induction over the number of bytes, in the
  form of a set of naturals without a least element outside it (`Induct`), because a theorem
  with an operator parameter cannot be instantiated: pieces of the bytes seen so far, each
  ended by a newline and without one inside. The channel follows: a queued entry ends with a
  byte of a complete line (`Carries`), entries are in order (`CarriedInOrder`), and only `Read`
  queues.
  About the path: `PathOfBoth`, every step of it is one of the FIFO's, or none, and one of the
  pipe's, or none, so that all theorems about the two hold of it; `ChannelOfPath`, that it is a
  `LineChannel`. `PathInv` is the conjunction of the invariants of the two with `Numbered`: the
  pipe has counted as many lines as the FIFO has given. A read never gives more than the pipe
  has room for under its bound, because the lines given have rising numbers (`GivenBounded`, by
  induction). The lemmas about the pipe come from `RoomPipeProofs` by instantiation, and
  `SamePipe` says that the definitions they speak of are those of the path. Then a message is
  complete because what the FIFO gives is (`SentWasGiven`), and once and in order because both
  parts keep that (`MessagesInOrder`).
* `RoomPipeProofs`: `TypeCorrect` rests on `SessionInv`: a rotation takes a line out of the queue
  and the sender sends it or gives it up before the next one, so there are no more sessions than
  lines; that taking requests out leaves a sequence of requests is `WithoutSeq`, by the same
  induction as `SplitCuts`. `HistoryVouchedFor` is inductive once the counts are typed: the
  marker is written only behind a forwarding that queued a key for everybody to whom it is
  owed, a flush takes keys out of the outbox only to deliver them, and a restart that empties
  it takes those it finds there out of `owed` (`Restarting`).
  `KeysComeFirst` rests on `KeysOnTheWay`: before the flush every device of the line in hand
  has the key or has it coming, after the flush it has it, whichever of sender and sync did
  the flushing. `SentInOrder` rests on `Ordered`: sent, in hand, queued is one ascending
  sequence as long as a running sender has its room. `LinesInOnePlace` counts: `Often` is how
  often a line is in a sequence; appending and taking the head change it by one
  (`OftenAppend`, `OftenTail`, by a bijection of positions), so that what leaves one place
  arrives in exactly one other (`PlaceInv`). `ChannelOfRoom` joins the two: from `PlaceInv` a
  line is sent once at most (`SentOnce`), from `Ordered` in order while the room stays.
* `MatrixCareProofs`: `NotForgotten` and `RewritesOffline` for any modes that are
  `WellFormed` (every stop has its start, tables are rewritten between them): the place of a
  run in its list tells whether it has stopped Synapse. `CleanAttemptHeals`: the invariant
  says, for each place of the script, what an attempt without a failing call has achieved so
  far. A step of a clean-up leaves the attempt alone, and its stop only makes calls fail.
* `DockerBackupProofs`: `TypeCorrect`; `YoungBackupsKept`, from "what is remembered is of the
  last DAYS days" and "what is deleted is older"; `BackupsDoNotPile`, by an injection of the
  files left into the ages 0 to DAYS, for which `PileInv` says that a container has one file
  a day and none of today's before its turn comes.

Every invariant, action property and refinement that the passing runs check is stated by a
theorem. `QueuedInOrder` and `SentInOrder` state the order on its own (`InOrder`, of every byte,
and `OrderUnlessAbsent`); the runs check it as part of the refinements `FifoIsChannel` and
`PipeIsChannel`. Only model-checked: the liveness properties (`QuietFreesGpu`, `RetriesWake`,
`WriterServed`, `LineDelivered`, `RequestAnswered`, `Repaired`, `UpAgain`), since fairness and ENABLED are out of the prover's reach; and what the violated
runs show, which is TLC's by nature.

## 5. What would come next

1. `IgnoredRepair`: `fix-matrix-ignored-devices.sh`, with `StoreRepair` under one abstract
   specification, "what was repaired is loaded in the end".
2. The reverse-DNS cache of `overview.py`, which never forgets a failed look-up.
3. The interactive modes of `synapse-purge.sh` next to `RoomRecreate`: both purge rooms.

## 6. Hazards

`PROJECT.json` lists them at their lines, each with the properties that would catch it
going wrong, or with the reason why no property covers it.

## 7. Not modelled, and why

* Deployment tasks (Ansible, `mint.sh`, image builds, OpenWrt settings): they run once, in
  order, by one actor; what could be said of them is what they say.
* Other people's servers (Nextcloud, Mailcow, LDAP, media, llama.cpp, ComfyUI ...):
  containers and units without logic of this repository.
* matrix-nio, Synapse, systemd, the kernel, rocm-smi: external; modelled only as far as
  the code here uses them, and marked so in the map.
* The growth of retry delays, log texts, HTML and chart drawing of the overview, the parsing of
  `/proc` and of command output: no modelled state depends on them.
* `fix-matrix-ignored-devices.sh`: the same read, decide, replace and restart as in
  `StoreRepair`; the modes of `synapse-purge.sh` that ask for confirmation: statements typed
  one at a time, whose effect is Synapse's.
* Text chunking of the proxy (regular expressions over a string; what the proxy needs of it is
  that a text has finitely many chunks), `patch_images_uuid.py` (a textual patch applied when an
  image is built), the DNS and tunnel watchers (one probe, one restart), the host checks (a
  sequence of threshold tests): no interaction that a model would show more of than a
  reading does.
* The collectors of `overview.py`: they read `/proc`, command output and HTTP answers; each
  failure is a value in the answer, or ends that answer (`AnswerFails`).

------------------------------ MODULE XttsProxy ------------------------------
(***************************************************************************)
(* The XTTS proxy: request threads of a ThreadingHTTPServer share one      *)
(* model under _lock, and an idle unloader thread ends the process with    *)
(* os._exit(0) to free the GPU; systemd (Restart=always) respawns it.      *)
(*                                                                         *)
(* Time is the age of _last_use, which is all the code compares: it stops  *)
(* growing one unit past the timeout.  Under CPython 3.11 `_busy += 1` and *)
(* `_busy -= 1` are not interrupted by another thread, so each is a step.  *)
(***************************************************************************)
EXTENDS Naturals, FiniteSets

CONSTANTS Request,       \* the connections served, one thread each
          Idler,         \* the idle unloader thread
          Nobody,        \* the lock is free
          IdleTimeout    \* TTS_IDLE_TIMEOUT, in units of Tick

ASSUME XttsAssumption == /\ IsFiniteSet(Request)
                         /\ Idler \notin Request
                         /\ Nobody \notin Request \cup {Idler}
                         /\ IdleTimeout \in Nat

VARIABLES lock,      \* holder of _lock
          tts,       \* _tts is not None
          cond,      \* _cond is not None
          busy,      \* _busy
          age,       \* time.time() - _last_use
          pc,        \* where each request thread is
          idler      \* "poll", "exiting" (decided, not gone yet), "gone"

vars == <<lock, tts, cond, busy, age, pc, idler>>

\* Between `_busy += 1` and the `finally`.
Counted  == {"reading", "queued", "latents", "synth", "send", "reply400", "raised"}
Locked   == {"latents", "synth"}
Location == Counted \cup {"none", "arrived", "marked", "reply500"}

Ages == 0 .. IdleTimeout + 1

Init == /\ lock = Nobody
        /\ tts = FALSE /\ cond = FALSE
        /\ busy = 0
        /\ age = IdleTimeout + 1           \* _last_use = 0.0
        /\ pc = [r \in Request |-> "none"]
        /\ idler = "poll"

Alive == idler # "gone"

Goto(r, from, to) == Alive /\ pc[r] = from /\ pc' = [pc EXCEPT ![r] = to]
-----------------------------------------------------------------------------
\* An authorized POST reaches _handle_tts.
Arrive(r) == /\ Goto(r, "none", "arrived")
             /\ UNCHANGED <<lock, tts, cond, busy, age, idler>>

\* _last_use = time.time()
MarkUse(r) == /\ Goto(r, "arrived", "marked")
              /\ age' = 0
              /\ UNCHANGED <<lock, tts, cond, busy, idler>>

\* Mutant: the count saturates, as a flag would.
MarkBusyFlag(r) == /\ Goto(r, "marked", "reading")
                   /\ busy' = 1
                   /\ UNCHANGED <<lock, tts, cond, age, idler>>

\* _busy += 1, neither this nor MarkUse under _lock
MarkBusy(r) == /\ Goto(r, "marked", "reading")
               /\ busy' = busy + 1
               /\ UNCHANGED <<lock, tts, cond, age, idler>>

\* The body is read: text to speak, no text, or not parseable.
ReadBody(r) == /\ \/ Goto(r, "reading", "queued")
                  \/ Goto(r, "reading", "reply400")
                  \/ Goto(r, "reading", "raised")
               /\ UNCHANGED <<lock, tts, cond, busy, age, idler>>

\* with _lock
Acquire(r) == /\ lock = Nobody
              /\ Goto(r, "queued", "latents")
              /\ lock' = r
              /\ UNCHANGED <<tts, cond, busy, age, idler>>

Raise(r, from) == Goto(r, from, "raised") /\ lock' = Nobody

\* _ensure_tts then the latents: the model's constructor may fail, and
\* with it loaded the first get_conditioning_latents may still fail.
LoadFails(r) == /\ Raise(r, "latents")
                /\ ~tts
                /\ tts' \in BOOLEAN
                /\ UNCHANGED <<cond, busy, age, idler>>

Loaded == tts' = TRUE /\ cond' = (tts => cond)

\* The model is there, its latents come from a voice file, computed or cached
\* in _ref_cache, or, the standard voice's file missing, from _cond.
Latents(r) == /\ Goto(r, "latents", "synth")
              /\ Loaded
              /\ age' = 0
              /\ UNCHANGED <<lock, busy, idler>>

\* The fall-back is None after a load that failed half-way: cond[0] raises.
NoLatents(r) == /\ Raise(r, "latents")
                /\ tts /\ ~cond
                /\ age' = 0
                /\ UNCHANGED <<tts, cond, busy, idler>>

\* An unknown or invalid voice, or a voice file the encoder refuses.
BadVoice(r) == /\ Raise(r, "latents")
               /\ Loaded
               /\ age' = 0
               /\ UNCHANGED <<busy, idler>>

\* One more chunk is synthesized; each refreshes _last_use.
Chunk(r) == /\ Goto(r, "synth", "synth")
            /\ age' = 0
            /\ UNCHANGED <<lock, tts, cond, busy, idler>>

\* The WAV is complete and the lock released; the 200 goes out unlocked.
Synthesized(r) == /\ Goto(r, "synth", "send")
                  /\ lock' = Nobody
                  /\ UNCHANGED <<tts, cond, busy, age, idler>>

\* Inference fails or there is no audio.
SynthFails(r) == /\ Raise(r, "synth")
                 /\ UNCHANGED <<tts, cond, busy, age, idler>>

\* The client went away while its audio or its 400 was being written.
SendFails(r) == /\ \/ Goto(r, "send", "raised")
                   \/ Goto(r, "reply400", "raised")
                /\ UNCHANGED <<lock, tts, cond, busy, age, idler>>

\* Mutant: the early return of the 400 skips the `finally`.
FinishLeaks400(r) == /\ \/ Goto(r, "send", "none")
                        \/ Goto(r, "reply400", "none")
                        \/ Goto(r, "raised", "reply500")
                     /\ busy' = IF pc[r] = "reply400" THEN busy ELSE busy - 1
                     /\ UNCHANGED <<lock, tts, cond, age, idler>>

\* finally: _busy -= 1, after the body is out or on the way to the 500
Finish(r) == /\ \/ Goto(r, "send", "none")
                \/ Goto(r, "reply400", "none")
                \/ Goto(r, "raised", "reply500")
             /\ busy' = busy - 1
             /\ UNCHANGED <<lock, tts, cond, age, idler>>

\* The error answer is written after the `finally`, no longer counted.
Reply500(r) == /\ Goto(r, "reply500", "none")
               /\ UNCHANGED <<lock, tts, cond, busy, age, idler>>
-----------------------------------------------------------------------------
\* Mutant: the age alone decides, a slow download counts as idle time.
IdleByAge == tts /\ age > IdleTimeout

Idle == tts /\ busy = 0 /\ age > IdleTimeout

\* Mutant: the test is made without taking _lock.
PollUnlocked == /\ idler = "poll"
                /\ Idle
                /\ idler' = "exiting"
                /\ UNCHANGED <<lock, tts, cond, busy, age, pc>>

\* One poll of the unloader, the whole test under _lock.
Poll == /\ idler = "poll" /\ lock = Nobody
        /\ Idle
        /\ lock' = Idler /\ idler' = "exiting"
        /\ UNCHANGED <<tts, cond, busy, age, pc>>

\* print, empty_cache and at last os._exit(0): every thread ends with it.
Exit == /\ idler = "exiting"
        /\ idler' = "gone"
        /\ lock' = Nobody
        /\ tts' = FALSE /\ cond' = FALSE
        /\ busy' = 0
        /\ age' = IdleTimeout + 1
        /\ pc' = [r \in Request |-> "none"]

\* Restart=always
Respawn == /\ idler = "gone"
           /\ idler' = "poll"
           /\ UNCHANGED <<lock, tts, cond, busy, age, pc>>

Tick == /\ age <= IdleTimeout
        /\ age' = age + 1
        /\ UNCHANGED <<lock, tts, cond, busy, pc, idler>>
-----------------------------------------------------------------------------
\* What a request thread does by itself, whatever its client does.
Work(r) == \/ MarkUse(r) \/ MarkBusy(r)
           \/ LoadFails(r) \/ Latents(r) \/ NoLatents(r) \/ BadVoice(r)
           \/ Synthesized(r) \/ SynthFails(r)

\* What waits for the client's socket or for the lock.
Talk(r) == \/ Arrive(r) \/ ReadBody(r) \/ Acquire(r)
           \/ SendFails(r) \/ Finish(r) \/ Reply500(r)

Next == \/ \E r \in Request : Work(r) \/ Talk(r) \/ Chunk(r)
        \/ Poll \/ Exit \/ Respawn \/ Tick

\* A running thread goes on, a text has finitely many chunks (so Chunk does
\* not happen for ever), the unloader polls, systemd respawns, time passes.
\* Nothing is assumed of the clients, nor of who gets the lock.
Fairness == /\ \A r \in Request : WF_vars(Work(r))
            /\ WF_vars(Poll) /\ WF_vars(Exit) /\ WF_vars(Respawn) /\ WF_vars(Tick)

Spec == Init /\ [][Next]_vars /\ Fairness
-----------------------------------------------------------------------------
\* The variables have their types.
TypeOK == /\ lock \in Request \cup {Idler, Nobody}
          /\ tts \in BOOLEAN /\ cond \in BOOLEAN
          /\ busy \in Nat
          /\ age \in Ages
          /\ pc \in [Request -> Location]
          /\ idler \in {"poll", "exiting", "gone"}

\* _busy is the number of requests between its increment and the `finally`:
\* no path, the 400 and every exception included, leaks a count.
Serving == {r \in Request : pc[r] \in Counted}
BusyCounts == busy = Cardinality(Serving)

\* One request at a time uses the model, and it is the one holding _lock.
OneUser == \A r \in Request : pc[r] \in Locked <=> lock = r

\* Once the unloader has decided to exit, no request is in the model or has
\* its audio on the wire: no 200 is ever cut short by os._exit(0), although
\* _busy is incremented outside _lock and may rise after the decision.
NoTruncatedAudio ==
    idler = "exiting" => \A r \in Request : pc[r] \notin Locked \cup {"send"}

\* The detailed proxy gives the GPU up only as GpuLease allows.
Users == {r \in Request : pc[r] \in {"synth", "send"}}
Lease == INSTANCE GpuLease WITH loaded <- tts, users <- Users
LeaseSafety == Lease!Spec

\* Without requests the GPU is given up, whatever failed before: a leaked
\* count or a half-loaded model does not survive the idle timeout.
QuietFreesGpu == <>[](\A r \in Request : pc[r] = "none") => <>[]~tts
=============================================================================

---------------------------- MODULE OverviewPage ----------------------------
(***************************************************************************)
(* The page of compute-overview in one browser, with the threads that      *)
(* answer it (Overview): its script asks every few seconds, whether or not *)
(* the answer before has come, draws whatever answer comes, and keeps the  *)
(* last ones for its charts.  Other browsers ask when they like.           *)
(*                                                                         *)
(* An answer is known by the time its thread began, the time stamp the     *)
(* page shows with it.                                                     *)
(***************************************************************************)
EXTENDS Overview, Sequences, SequencesExt

CONSTANTS Poll,      \* the interval of setInterval
          MaxHist,   \* hist is cut to so many answers
          Visits     \* bound: requests of other browsers

ASSUME PageAssumption == Poll \in Nat \ {0} /\ MaxHist \in Nat \ {0} /\ Visits \in Nat

VARIABLES due,       \* when the next poll is
          polls,     \* the threads that answer this page
          hist,      \* the answers the charts are drawn from; the last one is on the page
          visits,    \* requests of other browsers so far
          late       \* history: a poll found the answer before it outstanding

page     == <<due, polls, hist, visits, late>>
pageVars == <<vars, page>>

PageInit == /\ Init
            /\ due = 0 /\ polls = {} /\ hist = <<>>
            /\ visits = 0 /\ late = FALSE
-----------------------------------------------------------------------------
\* The server's threads go on, and time, but not past a poll.
Serve(t) == /\ \/ CheckData(t) \/ CheckAge(t) \/ Hit(t) \/ Sample(t) \/ Store(t)
               \/ MapCheck(t) \/ MapReset(t) \/ MapFill(t) \/ MapFilled(t)
            /\ UNCHANGED page

PageTick == now < due /\ Tick /\ UNCHANGED page

\* load(): the next request, in a thread of its own.
Ask(t) == /\ now = due
          /\ Begin(t)
          /\ polls' = polls \cup {t}
          /\ late' = (late \/ polls # {})
          /\ due' = due + Poll
          /\ UNCHANGED <<hist, visits>>

\* The request does not get through: the box sleeps, or the server is gone.
AskFails == /\ now = due
            /\ due' = due + Poll
            /\ UNCHANGED <<vars, polls, hist, visits, late>>

Visit(t) == /\ visits < Visits
            /\ Begin(t)
            /\ visits' = visits + 1
            /\ UNCHANGED <<due, polls, hist, late>>

\* Mutant: the newest answer is put before the others.
PushedInFront(answer) == <<answer>> \o (IF Len(hist) = MaxHist THEN Front(hist) ELSE hist)

\* pushHist: hist.push(...), and hist.shift() when there are too many.
Pushed(answer) == Append(IF Len(hist) = MaxHist THEN Tail(hist) ELSE hist, answer)

\* The answer comes and is drawn: tiles, tables and charts.
Draw(t) == /\ t \in polls
           /\ Answer(t)
           /\ polls' = polls \ {t}
           /\ hist' = Pushed(at[t])
           /\ UNCHANGED <<due, visits, late>>

\* It is lost, or collect has raised: the page stays as it is.
AnswerFails(t) == /\ t \in polls
                  /\ Answer(t) \/ Raise(t)
                  /\ polls' = polls \ {t}
                  /\ UNCHANGED <<due, hist, visits, late>>

\* Another browser gets its own.
VisitDone(t) == t \notin polls /\ (Answer(t) \/ Raise(t)) /\ UNCHANGED page

PageNext == \/ PageTick \/ AskFails
            \/ \E t \in Thread : \/ Serve(t) \/ Ask(t) \/ Visit(t)
                                 \/ Draw(t) \/ AnswerFails(t) \/ VisitDone(t)

PageSpec == PageInit /\ [][PageNext]_pageVars
-----------------------------------------------------------------------------
\* The charts are drawn in the order of the samples' requests as long as no answer
\* took longer than the polling interval: only an overtaken answer makes the page go
\* back in time (load() asks without waiting and draws what comes).
PageInOrder == late \/ \A i, j \in 1 .. Len(hist) : i < j => hist[i] < hist[j]
=============================================================================

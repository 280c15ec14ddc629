--------------------------- MODULE OverviewProofs ---------------------------
(***************************************************************************)
(* The shared caches of Overview for every number of threads and cards and *)
(* every TTL and time limit; then the page of OverviewPage, which drives   *)
(* the server only as Overview allows, so that all that is proved of it    *)
(* holds with the page's polls, and what the page draws, for every polling *)
(* interval.                                                               *)
(***************************************************************************)
EXTENDS OverviewPage, TLAPS

USE OverviewAssumption DEF OverviewAssumption, Card
-----------------------------------------------------------------------------
\* A thread that looks at the cache, or samples, is not older than Timeout ...
Timely == \A t \in Thread : InCache(t) => at[t] <= now /\ now <= at[t] + Timeout

\* ... it has got nothing yet ...
NothingYet == \A t \in Thread :
                  /\ pc[t] \in {"idle", "data", "age", "hit", "sample", "store"}
                         => served[t] = NoData
                  /\ pc[t] \in {"idle", "data", "age", "hit", "sample"}
                         => value[t] = NoData

\* ... what it has sampled is no older than itself ...
OwnSampleFresh == \A t \in Thread : value[t] # NoData => at[t] <= value[t]

\* ... and when it is about to return the cache, the stamp is young enough,
\* though another thread may have changed it since the test.
StampFresh == \A t \in Thread : pc[t] = "hit" => at[t] <= ts + Longer

CacheInv == /\ Timely /\ NothingYet /\ OwnSampleFresh /\ StampFresh
            /\ StampHonest /\ ServedFresh

\* The map lacks no card, or some thread has all those it lacks before it.
SomeoneCompletes == \/ pdev = Card
                    \/ pdev = {} /\ \A t \in Thread : pc[t] # "fill"
                    \/ \E t \in Thread : /\ pc[t] = "fill"
                                         /\ pdev \cup (card[t] .. Cards) = Card
-----------------------------------------------------------------------------
\* The variables keep their types, through every interleaving.
THEOREM TypeCorrect == Spec => []TypeOK
<1>1. Init => TypeOK
  BY DEF Init, TypeOK, Value, Time, NoData, Card
<1>2. TypeOK /\ [Next]_vars => TypeOK'
  <2> SUFFICES ASSUME TypeOK, [Next]_vars
               PROVE  TypeOK'
    OBVIOUS
  <2> USE DEF TypeOK, Value, Time, NoData, Card, Goto, cache, local, vars
  <2>1. CASE Tick
    BY <2>1 DEF Tick
  <2>2. ASSUME NEW t \in Thread, Begin(t) \/ CheckData(t) \/ CheckAge(t) \/ Hit(t)
        PROVE  TypeOK'
    BY <2>2 DEF Begin, CheckData, CheckAge, Hit
  <2>3. ASSUME NEW t \in Thread, Sample(t)
        PROVE  TypeOK'
    <3>1. value' \in [Thread -> Value]
      <4>1. PICK v \in {now, NoData} : value' = [value EXCEPT ![t] = v]
        BY <2>3 DEF Sample
      <4>2. v \in Value
        OBVIOUS
      <4>3. QED
        BY <4>1, <4>2
    <3>2. QED
      BY <2>3, <3>1 DEF Sample
  <2>4. ASSUME NEW t \in Thread, Store(t)
        PROVE  TypeOK'
    <3>1. at[t] \in Time /\ value[t] \in Value
      OBVIOUS
    <3>2. ts' \in Time /\ data' \in Value /\ served' \in [Thread -> Value]
      BY <2>4, <3>1 DEF Store
    <3>3. QED
      BY <2>4, <3>2 DEF Store
  <2>5. ASSUME NEW t \in Thread, MapCheck(t) \/ MapReset(t) \/ MapFilled(t)
        PROVE  TypeOK'
    <3>1. 1 \in 1 .. Cards + 1
      OBVIOUS
    <3>2. card' \in [Thread -> 1 .. Cards + 1] /\ pdev' \subseteq Card
      <4> HIDE DEF Card
      <4>1. QED
        BY <2>5, <3>1 DEF MapCheck, MapReset, MapFilled
    <3>3. QED
      BY <2>5, <3>2 DEF MapCheck, MapReset, MapFilled
  <2>6. ASSUME NEW t \in Thread, MapFill(t)
        PROVE  TypeOK'
    <3>1. card[t] \in Card /\ card[t] + 1 \in 1 .. Cards + 1
      BY <2>6 DEF MapFill
    <3>2. card' \in [Thread -> 1 .. Cards + 1]
      BY <2>6, <3>1 DEF MapFill
    <3>3. pdev' \subseteq Card
      BY <2>6, <3>1 DEF MapFill
    <3>4. QED
      BY <2>6, <3>2, <3>3 DEF MapFill
  <2>7. ASSUME NEW t \in Thread, Answer(t) \/ Raise(t)
        PROVE  TypeOK'
    <3>1. served' \in [Thread -> Value] /\ value' \in [Thread -> Value]
          /\ at' \in [Thread -> Time] /\ card' \in [Thread -> 1 .. Cards + 1]
      BY <2>7 DEF Answer, Raise, Leave
    <3>2. QED
      BY <2>7, <3>1 DEF Answer, Raise, Leave
  <2>8. CASE UNCHANGED vars
    BY <2>8
  <2>9. QED
    BY <2>1, <2>2, <2>3, <2>4, <2>5, <2>6, <2>7, <2>8 DEF Next
<1>3. QED
  BY <1>1, <1>2, PTL DEF Spec
-----------------------------------------------------------------------------
LEMMA CacheInvInit == Init => CacheInv
<1>1. Longer \in Nat
  BY DEF Longer
<1>2. QED
  BY <1>1 DEF Init, CacheInv, Timely, NothingYet, OwnSampleFresh, StampFresh,
              StampHonest, ServedFresh, InCache

LEMMA CacheInvStep == TypeOK /\ CacheInv /\ [Next]_vars => CacheInv'
<1> SUFFICES ASSUME TypeOK, CacheInv, [Next]_vars
             PROVE  CacheInv'
  OBVIOUS
<1>0. Longer \in Nat /\ TTL <= Longer /\ Timeout <= Longer
  BY DEF Longer
<1> USE <1>0 DEF CacheInv, Timely, NothingYet, OwnSampleFresh, StampFresh, StampHonest,
                 ServedFresh, InCache, TypeOK, Value, Time, NoData, Goto, cache, local, vars
<1>1. CASE Tick
  <2>1. Timely'
    BY <1>1 DEF Tick
  <2>2. /\ NothingYet' /\ OwnSampleFresh' /\ StampFresh' /\ StampHonest' /\ ServedFresh'
    BY <1>1 DEF Tick, Longer
  <2>3. QED
    BY <2>1, <2>2
<1>2. ASSUME NEW u \in Thread, Begin(u)
      PROVE  CacheInv'
  <2>1. at' = [at EXCEPT ![u] = now] /\ pc' = [pc EXCEPT ![u] = "data"]
        /\ served[u] = NoData /\ value[u] = NoData /\ now <= now + Timeout
    BY <1>2 DEF Begin
  <2>2. Timely' /\ NothingYet' /\ StampFresh' /\ StampHonest'
    BY <1>2, <2>1 DEF Begin
  <2>3. ServedFresh'
    BY <1>2, <2>1 DEF Begin
  <2>4. OwnSampleFresh'
    BY <1>2, <2>1 DEF Begin
  <2>5. QED
    BY <2>2, <2>3, <2>4
<1>3. ASSUME NEW u \in Thread, CheckData(u) \/ CheckAge(u)
      PROVE  CacheInv'
  BY <1>3 DEF CheckData, CheckAge
<1>4. ASSUME NEW u \in Thread, Hit(u)
      PROVE  CacheInv'
  BY <1>4 DEF Hit
<1>5. ASSUME NEW u \in Thread, Sample(u)
      PROVE  CacheInv'
  BY <1>5 DEF Sample
<1>6. ASSUME NEW u \in Thread, Store(u)
      PROVE  CacheInv'
  BY <1>6 DEF Store
<1>7. ASSUME NEW u \in Thread, MapCheck(u) \/ MapReset(u) \/ MapFill(u) \/ MapFilled(u)
      PROVE  CacheInv'
  BY <1>7 DEF MapCheck, MapReset, MapFill, MapFilled
<1>8. ASSUME NEW u \in Thread, Answer(u) \/ Raise(u)
      PROVE  CacheInv'
  BY <1>8 DEF Answer, Raise, Leave
<1>9. CASE UNCHANGED vars
  BY <1>9
<1>10. QED
  BY <1>1, <1>2, <1>3, <1>4, <1>5, <1>6, <1>7, <1>8, <1>9 DEF Next

\* What gpu_stats, top_procs and gpu_pids serve is no older than the TTL or the
\* time a sample may take, for every number of concurrent requests.
THEOREM AlwaysFresh == Spec => []ServedFresh
<1>1. TypeOK /\ CacheInv /\ [Next]_vars => CacheInv'
  BY CacheInvStep
<1>2. CacheInv => ServedFresh
  BY DEF CacheInv
<1>3. QED
  BY <1>1, <1>2, CacheInvInit, TypeCorrect, PTL DEF Spec

\* The stamp in a cache is never after the sample it belongs to.
THEOREM NeverTooYoung == Spec => []StampHonest
<1>1. TypeOK /\ CacheInv /\ [Next]_vars => CacheInv'
  BY CacheInvStep
<1>2. CacheInv => StampHonest
  BY DEF CacheInv
<1>3. QED
  BY <1>1, <1>2, CacheInvInit, TypeCorrect, PTL DEF Spec
-----------------------------------------------------------------------------
\* Filling in one card more leaves nothing out that was not left out before.
LEMMA FillKeeps == ASSUME TypeOK, SomeoneCompletes, NEW u \in Thread, MapFill(u)
                   PROVE  SomeoneCompletes'
<1> USE DEF TypeOK, Card
<1>1. card[u] \in 1 .. Cards /\ pdev' = pdev \cup {card[u]} /\ pc' = pc
  BY DEF MapFill
<1>2. CASE pdev = Card
  BY <1>1, <1>2 DEF SomeoneCompletes
<1>3. ASSUME NEW t \in Thread, pc[t] = "fill", pdev \cup (card[t] .. Cards) = Card
      PROVE  SomeoneCompletes'
  <2>1. card'[t] = IF t = u THEN card[t] + 1 ELSE card[t]
    BY DEF MapFill
  <2>2. pdev' \cup (card'[t] .. Cards) = Card
    BY <1>1, <1>3, <2>1
  <2>3. QED
    BY <1>1, <1>3, <2>2 DEF SomeoneCompletes
<1>4. pc[u] = "fill"
  BY DEF MapFill
<1>5. QED
  BY <1>2, <1>3, <1>4 DEF SomeoneCompletes

LEMMA CompletesStep == TypeOK /\ SomeoneCompletes /\ [Next]_vars => SomeoneCompletes'
<1> SUFFICES ASSUME TypeOK, SomeoneCompletes, [Next]_vars
             PROVE  SomeoneCompletes'
  OBVIOUS
<1> USE DEF SomeoneCompletes, TypeOK, Goto, cache, local, vars
<1>1. CASE Tick
  BY <1>1 DEF Tick
<1>2. ASSUME NEW u \in Thread, Begin(u) \/ CheckData(u) \/ CheckAge(u) \/ Hit(u)
      PROVE  SomeoneCompletes'
  BY <1>2 DEF Begin, CheckData, CheckAge, Hit
<1>3. ASSUME NEW u \in Thread, Sample(u) \/ Store(u) \/ MapCheck(u)
      PROVE  SomeoneCompletes'
  BY <1>3 DEF Sample, Store, MapCheck
<1>4. ASSUME NEW u \in Thread, MapReset(u)
      PROVE  SomeoneCompletes'
  <2>1. pc'[u] = "fill" /\ pdev' = {} /\ card'[u] = 1
    BY <1>4 DEF MapReset
  <2>2. pdev' \cup (card'[u] .. Cards) = Card
    BY <2>1 DEF Card
  <2>3. QED
    BY <2>1, <2>2
<1>5. ASSUME NEW u \in Thread, MapFill(u)
      PROVE  SomeoneCompletes'
  BY <1>5, FillKeeps
<1>6. ASSUME NEW u \in Thread, MapFilled(u)
      PROVE  SomeoneCompletes'
  <2>1. card[u] .. Cards = {}
    BY <1>6 DEF MapFilled, Card
  <2>2. pdev \cup (card[u] .. Cards) = Card => pdev = Card
    BY <2>1
  <2>3. QED
    BY <1>6, <2>2 DEF MapFilled
<1>7. ASSUME NEW u \in Thread, Answer(u) \/ Raise(u)
      PROVE  SomeoneCompletes'
  BY <1>7 DEF Answer, Raise, Leave
<1>8. CASE UNCHANGED vars
  BY <1>8
<1>9. QED
  BY <1>1, <1>2, <1>3, <1>4, <1>5, <1>6, <1>7, <1>8 DEF Next

\* However many threads build the map of cards at once and empty what the others
\* have filled, it has every card when all are through.
THEOREM MapGetsComplete == Spec => []MapComplete
<1>1. Init => SomeoneCompletes
  BY DEF Init, SomeoneCompletes
<1>2. TypeOK /\ SomeoneCompletes /\ [Next]_vars => SomeoneCompletes'
  BY CompletesStep
<1>3. SomeoneCompletes => MapComplete
  BY DEF SomeoneCompletes, MapComplete, Building
<1>4. QED
  BY <1>1, <1>2, <1>3, TypeCorrect, PTL DEF Spec
-----------------------------------------------------------------------------
USE PageAssumption DEF PageAssumption
-----------------------------------------------------------------------------
\* Every step of the page is a step of the server or none of it.
THEOREM PageRefines == PageSpec => Spec
<1>1. PageInit => Init
  BY DEF PageInit
<1>2. [PageNext]_pageVars => [Next]_vars
  <2> SUFFICES ASSUME [PageNext]_pageVars
               PROVE  [Next]_vars
    OBVIOUS
  <2>1. CASE UNCHANGED pageVars
    BY <2>1 DEF pageVars
  <2>2. CASE PageTick
    BY <2>2 DEF PageTick, Next
  <2>3. CASE AskFails
    BY <2>3 DEF AskFails
  <2>4. ASSUME NEW t \in Thread, Serve(t)
        PROVE  Next
    BY <2>4 DEF Serve, Next
  <2>5. ASSUME NEW t \in Thread, Ask(t) \/ Visit(t)
        PROVE  Begin(t)
    BY <2>5 DEF Ask, Visit
  <2>6. ASSUME NEW t \in Thread, Draw(t) \/ AnswerFails(t) \/ VisitDone(t)
        PROVE  Answer(t) \/ Raise(t)
    BY <2>6 DEF Draw, AnswerFails, VisitDone
  <2>7. QED
    BY <2>1, <2>2, <2>3, <2>4, <2>5, <2>6 DEF PageNext, Next
<1>3. QED
  BY <1>1, <1>2, PTL DEF PageSpec, Spec

\* With the page's polls the caches serve nothing older than the TTL or a sample's
\* time limit.
THEOREM PageFresh == PageSpec => []ServedFresh
BY PageRefines, AlwaysFresh, PTL

\* With the page's polls the map of cards is complete when nobody builds it.
THEOREM PageMapComplete == PageSpec => []MapComplete
BY PageRefines, MapGetsComplete, PTL
-----------------------------------------------------------------------------
\* The page's own variables have their types ...
PageTyped == /\ due \in Nat /\ late \in BOOLEAN
             /\ polls \subseteq Thread /\ hist \in Seq(Nat)

\* ... a thread that answers a poll is at work on it ...
Answering == \A t \in polls : pc[t] # "idle" /\ at[t] < due

\* ... what is drawn is an earlier poll's ...
DrawnBefore == \A i \in 1 .. Len(hist) : hist[i] < due

\* ... and as long as no poll has overtaken another there is one outstanding,
\* later than all that is drawn.
OneOutstanding == late \/ /\ \A t, u \in polls : t = u
                          /\ \A t \in polls : \A i \in 1 .. Len(hist) : hist[i] < at[t]

PageInv == PageTyped /\ Answering /\ DrawnBefore /\ OneOutstanding /\ PageInOrder

Shift == IF Len(hist) = MaxHist THEN 1 ELSE 0

\* pushHist drops the oldest answer, if any, and adds the new one behind.
LEMMA PushedItems ==
    ASSUME NEW answer \in Nat, hist \in Seq(Nat)
    PROVE  /\ Pushed(answer) \in Seq(Nat) /\ Len(Pushed(answer)) > 0
           /\ Pushed(answer)[Len(Pushed(answer))] = answer
           /\ \A i \in 1 .. Len(Pushed(answer)) - 1 :
                  i + Shift \in 1 .. Len(hist) /\ Pushed(answer)[i] = hist[i + Shift]
<1> DEFINE kept == IF Len(hist) = MaxHist THEN Tail(hist) ELSE hist
<1>1. kept \in Seq(Nat) /\ Len(kept) = Len(hist) - Shift
  BY DEF Shift
<1>2. \A i \in 1 .. Len(kept) : i + Shift \in 1 .. Len(hist) /\ kept[i] = hist[i + Shift]
  BY DEF Shift
<1>3. Pushed(answer) = Append(kept, answer)
  BY DEF Pushed
<1> HIDE DEF kept
<1>4. /\ Pushed(answer) \in Seq(Nat) /\ Len(Pushed(answer)) = Len(kept) + 1
      /\ Pushed(answer)[Len(kept) + 1] = answer
      /\ \A i \in 1 .. Len(kept) : Pushed(answer)[i] = kept[i]
  BY <1>1, <1>3
<1>5. Len(Pushed(answer)) - 1 = Len(kept)
  BY <1>1, <1>4
<1>6. QED
  BY <1>1, <1>2, <1>4, <1>5
-----------------------------------------------------------------------------
LEMMA PageStep == TypeOK /\ PageInv /\ [PageNext]_pageVars => PageInv'
<1> SUFFICES ASSUME TypeOK, PageInv, [PageNext]_pageVars
             PROVE  PageInv'
  OBVIOUS
<1> USE DEF PageInv, PageTyped, Answering, DrawnBefore, OneOutstanding, PageInOrder, page
<1>1. /\ at \in [Thread -> Nat] /\ now \in Nat
      /\ pc \in [Thread -> {"idle", "data", "age", "hit", "sample", "store",
                           "map", "reset", "fill", "done"}]
  <2>1. Time \subseteq Nat
    BY DEF Time
  <2>2. QED
    BY <2>1 DEF TypeOK
<1>2. CASE UNCHANGED pageVars
  BY <1>2 DEF pageVars, vars, local
<1>3. CASE PageTick
  BY <1>3 DEF PageTick, Tick, local
<1>4. CASE AskFails
  <2>1. due' = due + Poll /\ UNCHANGED <<pc, at, polls, hist, late>>
    BY <1>4 DEF AskFails, vars, local
  <2>2. DrawnBefore' /\ Answering'
    BY <1>1, <2>1
  <2>3. QED
    BY <2>1, <2>2
<1>5. ASSUME NEW t \in Thread, Serve(t)
      PROVE  PageInv'
  <2>1. at' = at /\ UNCHANGED page
    BY <1>5 DEF Serve, CheckData, CheckAge, Hit, Sample, Store, MapCheck, MapReset,
                MapFill, MapFilled
  <2>2. \E place \in {"age", "hit", "sample", "store", "map", "reset", "fill", "done"} :
            pc' = [pc EXCEPT ![t] = place] \/ pc' = pc
    BY <1>5 DEF Serve, CheckData, CheckAge, Hit, Sample, Store, MapCheck, MapReset,
                MapFill, MapFilled, Goto
  <2>3. \A u \in polls : pc'[u] # "idle"
    BY <1>1, <2>2
  <2>4. QED
    BY <2>1, <2>3
<1>6. ASSUME NEW t \in Thread, Begin(t)
      PROVE  /\ pc[t] = "idle" /\ t \notin polls /\ at'[t] = now /\ pc'[t] # "idle"
             /\ \A u \in Thread \ {t} : at'[u] = at[u] /\ pc'[u] = pc[u]
  BY <1>1, <1>6 DEF Begin, Goto
<1>7. ASSUME NEW t \in Thread, Ask(t)
      PROVE  PageInv'
  <2>1. /\ now = due /\ polls' = polls \cup {t} /\ late' = (late \/ polls # {})
        /\ due' = due + Poll /\ hist' = hist
    BY <1>7 DEF Ask
  <2>2. Begin(t)
    BY <1>7 DEF Ask
  <2>3. /\ at'[t] = due /\ t \notin polls /\ pc'[t] # "idle"
        /\ \A u \in Thread \ {t} : at'[u] = at[u] /\ pc'[u] = pc[u]
    BY <1>6, <2>1, <2>2
  <2>4. PageTyped' /\ DrawnBefore' /\ PageInOrder'
    BY <2>1
  <2>5. Answering'
    BY <1>1, <2>1, <2>3
  <2>6. OneOutstanding'
    BY <2>1, <2>3
  <2>7. QED
    BY <2>4, <2>5, <2>6
<1>8. ASSUME NEW t \in Thread, Visit(t)
      PROVE  PageInv'
  <2>1. UNCHANGED <<due, polls, hist, late>> /\ Begin(t)
    BY <1>8 DEF Visit
  <2>2. QED
    BY <1>6, <2>1
<1>9. ASSUME NEW t \in Thread, Answer(t) \/ Raise(t)
      PROVE  \A u \in Thread \ {t} : at'[u] = at[u] /\ pc'[u] = pc[u]
  BY <1>1, <1>9 DEF Answer, Raise, Leave, Goto
<1>10. ASSUME NEW t \in Thread, Draw(t)
       PROVE  PageInv'
  <2>1. /\ t \in polls /\ polls' = polls \ {t} /\ UNCHANGED <<due, late>>
        /\ \A u \in Thread \ {t} : at'[u] = at[u] /\ pc'[u] = pc[u]
        /\ hist' = Pushed(at[t])
    BY <1>9, <1>10 DEF Draw
  <2>2. at[t] \in Nat /\ hist \in Seq(Nat) /\ Shift \in Nat
    BY <1>1 DEF Shift
  <2>3. /\ hist' \in Seq(Nat) /\ Len(hist') > 0 /\ hist'[Len(hist')] = at[t]
        /\ \A i \in 1 .. Len(hist') - 1 :
               i + Shift \in 1 .. Len(hist) /\ hist'[i] = hist[i + Shift]
    BY <2>1, <2>2, PushedItems
  <2>4. Answering'
    BY <2>1
  <2>5. DrawnBefore'
    <3>1. \A i \in 1 .. Len(hist') : i = Len(hist') \/ i \in 1 .. Len(hist') - 1
      BY <2>3
    <3>2. QED
      BY <2>1, <2>2, <2>3, <3>1
  <2>6. OneOutstanding'
    BY <2>1
  <2>7. PageInOrder'
    <3>1. SUFFICES ASSUME ~late, NEW i \in 1 .. Len(hist'), NEW j \in 1 .. Len(hist'), i < j
                   PROVE  hist'[i] < hist'[j]
      BY <2>1
    <3>2. i \in 1 .. Len(hist') - 1
      BY <2>3, <3>1
    <3>3. hist'[i] = hist[i + Shift] /\ i + Shift \in 1 .. Len(hist)
      BY <2>3, <3>2
    <3>4. CASE j = Len(hist')
      BY <2>1, <2>3, <3>1, <3>3, <3>4
    <3>5. CASE j \in 1 .. Len(hist') - 1
      <4>1. hist'[j] = hist[j + Shift] /\ j + Shift \in 1 .. Len(hist)
        BY <2>3, <3>5
      <4>2. i + Shift < j + Shift
        BY <2>2, <3>1
      <4>3. QED
        BY <3>1, <3>3, <4>1, <4>2
    <3>6. QED
      BY <2>3, <3>4, <3>5
  <2>8. QED
    BY <2>1, <2>3, <2>4, <2>5, <2>6, <2>7
<1>11. ASSUME NEW t \in Thread, AnswerFails(t)
       PROVE  PageInv'
  <2>1. /\ polls' = polls \ {t} /\ UNCHANGED <<due, hist, late>>
        /\ \A u \in Thread \ {t} : at'[u] = at[u] /\ pc'[u] = pc[u]
    BY <1>9, <1>11 DEF AnswerFails
  <2>2. QED
    BY <2>1
<1>12. ASSUME NEW t \in Thread, VisitDone(t)
       PROVE  PageInv'
  <2>1. /\ t \notin polls /\ UNCHANGED page
        /\ \A u \in Thread \ {t} : at'[u] = at[u] /\ pc'[u] = pc[u]
    BY <1>9, <1>12 DEF VisitDone
  <2>2. QED
    BY <2>1
<1>13. QED
  BY <1>2, <1>3, <1>4, <1>5, <1>7, <1>8, <1>10, <1>11, <1>12 DEF PageNext

\* The page goes back in time only when a poll was asked while another one was
\* outstanding.
THEOREM DrawnInOrder == PageSpec => []PageInOrder
<1>1. PageInit => PageInv
  <2> SUFFICES ASSUME PageInit
               PROVE  PageInv
    OBVIOUS
  <2>1. due = 0 /\ polls = {} /\ hist = <<>> /\ late = FALSE
    BY DEF PageInit
  <2>2. hist \in Seq(Nat) /\ 1 .. Len(hist) = {}
    BY <2>1
  <2>3. PageTyped /\ Answering
    BY <2>1, <2>2 DEF PageTyped, Answering
  <2>4. DrawnBefore /\ OneOutstanding /\ PageInOrder
    <3>1. polls = {}
      BY <2>1
    <3>2. QED
      BY <2>2, <3>1 DEF DrawnBefore, OneOutstanding, PageInOrder
  <2>5. QED
    BY <2>3, <2>4 DEF PageInv
<1>2. TypeOK /\ PageInv /\ [PageNext]_pageVars => PageInv'
  BY PageStep
<1>3. PageInv => PageInOrder
  BY DEF PageInv
<1>4. QED
  BY <1>1, <1>2, <1>3, PageRefines, TypeCorrect, PTL DEF PageSpec
=============================================================================

------------------------------ MODULE Overview ------------------------------
(***************************************************************************)
(* compute-overview: every GET of /api runs in a thread of its own         *)
(* (ThreadingHTTPServer), and the threads share, without a lock, caches of *)
(* what costs seconds to find out.  A thread goes through one time-limited *)
(* cache - gpu_stats, top_procs and gpu_pids are alike - and then through  *)
(* the map from PCI ids to cards, which is built once.                     *)
(*                                                                         *)
(* A value in the cache stands for the time its sample was taken.          *)
(***************************************************************************)
EXTENDS Naturals, FiniteSets

CONSTANTS Thread,    \* requests served at the same time
          Cards,     \* number of graphics cards
          TTL,       \* GPU_CACHE_SEC
          Timeout,   \* a sample is there, or given up, after that long
          MaxTime    \* bound of the clock

ASSUME OverviewAssumption == /\ TTL \in Nat /\ Timeout \in Nat /\ MaxTime \in Nat
                             /\ Cards \in Nat

VARIABLES now,       \* time.time()
          ts, data,  \* the cache; data is NoData when empty
          pdev,      \* the cards in _GPU_PDEV
          pc,        \* where each thread is
          at,        \* its `now`, read when it begins
          value,     \* what it has sampled
          served,    \* what it got from the cache or its sample
          card       \* the next card it puts into the map

cache == <<ts, data>>
local == <<pc, at, value, served, card>>
vars  == <<now, cache, pdev, local>>

NoData == MaxTime + 1
Card   == 1 .. Cards

Init == /\ now = 0
        /\ ts = 0 /\ data = NoData
        /\ pdev = {}
        /\ pc = [t \in Thread |-> "idle"]
        /\ at = [t \in Thread |-> 0]
        /\ value = [t \in Thread |-> NoData]
        /\ served = [t \in Thread |-> NoData]
        /\ card = [t \in Thread |-> 1]

Goto(t, place) == pc' = [pc EXCEPT ![t] = place]

\* Time passes, but no thread takes longer than Timeout to its answer.
InCache(t) == pc[t] \in {"data", "age", "hit", "sample", "store"}

Tick == /\ now < MaxTime
        /\ \A t \in Thread : InCache(t) => now < at[t] + Timeout
        /\ now' = now + 1
        /\ UNCHANGED <<cache, pdev, local>>
-----------------------------------------------------------------------------
\* A request for /api comes in.
Begin(t) == /\ pc[t] = "idle"
            /\ at' = [at EXCEPT ![t] = now]
            /\ Goto(t, "data")
            /\ UNCHANGED <<now, cache, pdev, value, served, card>>

\* if CACHE["data"] and now - CACHE["ts"] < TTL: three looks at the cache.
CheckData(t) == /\ pc[t] = "data"
                /\ Goto(t, IF data # NoData THEN "age" ELSE "sample")
                /\ UNCHANGED <<now, cache, pdev, at, value, served, card>>

\* Mutant: the age is compared with the time allowed for a sample as well.
CheckAgeLax(t) == /\ pc[t] = "age"
                  /\ Goto(t, IF at[t] < ts + TTL + Timeout THEN "hit" ELSE "sample")
                  /\ UNCHANGED <<now, cache, pdev, at, value, served, card>>

CheckAge(t) == /\ pc[t] = "age"
               /\ Goto(t, IF at[t] < ts + TTL THEN "hit" ELSE "sample")
               /\ UNCHANGED <<now, cache, pdev, at, value, served, card>>

Hit(t) == /\ pc[t] = "hit"
          /\ served' = [served EXCEPT ![t] = data]
          /\ Goto(t, "map")
          /\ UNCHANGED <<now, cache, pdev, at, value, card>>

\* rocm-smi, or the two looks at /proc: nothing if the command fails.
Sample(t) == /\ pc[t] = "sample"
             /\ \E v \in {now, NoData} : value' = [value EXCEPT ![t] = v]
             /\ Goto(t, "store")
             /\ UNCHANGED <<now, cache, pdev, at, served, card>>

\* Mutant: the stamp is the time at which the sample expires.
StoreExpiry(t) == /\ pc[t] = "store"
                  /\ ts' = at[t] + TTL /\ data' = value[t]
                  /\ served' = [served EXCEPT ![t] = value[t]]
                  /\ Goto(t, "map")
                  /\ UNCHANGED <<now, pdev, at, value, card>>

\* CACHE.update(ts=now, data=data), with the time of the thread's beginning.
Store(t) == /\ pc[t] = "store"
            /\ ts' = at[t] /\ data' = value[t]
            /\ served' = [served EXCEPT ![t] = value[t]]
            /\ Goto(t, "map")
            /\ UNCHANGED <<now, pdev, at, value, card>>
-----------------------------------------------------------------------------
\* gpu_pdev_map: a map with something in it is used as it is.
MapCheck(t) == /\ pc[t] = "map"
               /\ Goto(t, IF pdev # {} THEN "done" ELSE "reset")
               /\ UNCHANGED <<now, cache, pdev, at, value, served, card>>

MapReset(t) == /\ pc[t] = "reset"
               /\ pdev' = {} /\ card' = [card EXCEPT ![t] = 1]
               /\ Goto(t, "fill")
               /\ UNCHANGED <<now, cache, at, value, served>>

\* Mutant: a thread that finds its card in the map leaves the rest to others.
MapFillStops(t) ==
    /\ pc[t] = "fill" /\ card[t] \in Card
    /\ pdev' = pdev \cup {card[t]}
    /\ card' = [card EXCEPT ![t] = IF pdev # {} THEN Cards + 1 ELSE @ + 1]
    /\ UNCHANGED <<now, cache, pc, at, value, served>>

\* The next card, in the order of their names, goes into what is the map now.
MapFill(t) == /\ pc[t] = "fill" /\ card[t] \in Card
              /\ pdev' = pdev \cup {card[t]}
              /\ card' = [card EXCEPT ![t] = @ + 1]
              /\ UNCHANGED <<now, cache, pc, at, value, served>>

MapFilled(t) == /\ pc[t] = "fill" /\ card[t] \notin Card
                /\ Goto(t, "done")
                /\ UNCHANGED <<now, cache, pdev, at, value, served, card>>

\* The thread ends: its answer is sent,
Leave(t) == /\ Goto(t, "idle")
            /\ served' = [served EXCEPT ![t] = NoData]
            /\ value' = [value EXCEPT ![t] = NoData]
            /\ at' = [at EXCEPT ![t] = 0]
            /\ card' = [card EXCEPT ![t] = 1]
            /\ UNCHANGED <<now, cache, pdev>>

Answer(t) == pc[t] = "done" /\ Leave(t)

\* or what it was sampling could not be parsed: the cache is not updated.
Raise(t) == pc[t] = "sample" /\ Leave(t)

Next == \/ Tick
        \/ \E t \in Thread : \/ Begin(t)
                             \/ CheckData(t) \/ CheckAge(t) \/ Hit(t)
                             \/ Sample(t) \/ Store(t)
                             \/ MapCheck(t) \/ MapReset(t) \/ MapFill(t) \/ MapFilled(t)
                             \/ Answer(t) \/ Raise(t)

Spec == Init /\ [][Next]_vars
-----------------------------------------------------------------------------
Time  == 0 .. MaxTime
Value == Time \cup {NoData}

\* The variables have their types.
TypeOK == /\ now \in Time /\ ts \in Time /\ data \in Value
          /\ pdev \subseteq Card
          /\ pc \in [Thread -> {"idle", "data", "age", "hit", "sample", "store",
                                "map", "reset", "fill", "done"}]
          /\ at \in [Thread -> Time]
          /\ value \in [Thread -> Value] /\ served \in [Thread -> Value]
          /\ card \in [Thread -> 1 .. Cards + 1]

Longer == IF TTL > Timeout THEN TTL ELSE Timeout

\* "(cached 2 s)": a request is served a sample taken no longer before it than the
\* TTL or, when a slower thread overwrites the cache between the test and the
\* return, the time allowed for a sample.
ServedFresh == \A t \in Thread :
                   served[t] # NoData => at[t] <= served[t] + Longer

\* The cache never makes a sample younger than it is: the stamp is not after it.
StampHonest == data # NoData => ts <= data

\* When no thread is about to build the map, and one has, every card is in it,
\* whatever the builders did to each other's work.
Building(t) == pc[t] \in {"reset", "fill"}
MapComplete == pdev # {} /\ (\A t \in Thread : ~Building(t)) => pdev = Card
=============================================================================

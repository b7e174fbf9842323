----------------------------- MODULE LFRunTime -----------------------------
(***************************************************************************)
(* The lock-free runtime: every thread has a queue of its own, takes the   *)
(* event it queued last, steals the oldest event of another when it has    *)
(* none, and parks on a condition variable when it finds none for long.    *)
(* At least one thread never parks; when it finds nothing while the others *)
(* sleep, the flow is out of events and the runtime stops.  A signal sent  *)
(* to a thread that has not yet reached pthread_cond_wait is lost.  Each   *)
(* action is one access to state that threads share.                       *)
(***************************************************************************)
EXTENDS Integers, Sequences, FiniteSets, SequencesExt

CONSTANTS Threads,          \* _num_threads; thread 0 is the one that calls start()
          IdleCritical,     \* NO_EV_CRITICAL
          StealFrequency,   \* QS_Frequency
          CriticalSize,     \* Q_Critical_size
          Budget,           \* bound: events that are not sources ever made
          MaxLoads,         \* bound: flows loaded while the program runs
          LFMayKill,        \* whether a node function may call soft_kill
          LFSources         \* whether a flow may have a source, and may have none

ASSUME LFRunTimeAssumption ==
  /\ Threads \in Nat \ {0} /\ Budget \in Nat /\ MaxLoads \in Nat
  /\ IdleCritical \in Nat \ {0} /\ StealFrequency \in Nat \ {0, 1}
  /\ CriticalSize \in Nat
  /\ LFMayKill \in BOOLEAN /\ LFSources \in SUBSET BOOLEAN

LFThread == 0 .. Threads - 1

VARIABLES queue,        \* _queue of each thread, bottom last
          lpc,          \* program counter
          lev,          \* context.ev
          idle,         \* no_ev_iterations
          allowance,    \* _queue_allowance
          running,      \* _running of each thread
          stop,         \* _request_stop of each thread
          asleep,       \* _asleep
          sleepers,     \* _sleep_count
          death,        \* _request_death
          softLoad,     \* _soft_load_flow
          flows,        \* flows loaded so far; the last is the active one
          sourced,      \* flows that have a source
          off,          \* flows whose sources are off
          cursor,       \* position of a thread in the list of threads
          num,          \* threads it has still to wake, or to steal from
          beaten,       \* thieves that another thread got ahead of
          made          \* events made that are not sources

lrvars == <<queue, lpc, lev, idle, allowance, running, stop, asleep, sleepers, death, softLoad,
            flows, sourced, off, cursor, num, beaten, made>>

\* An event of a source of the n-th flow, one with and one without guards.
Source(n) == [kind |-> "source", flow |-> n]
Plain   == [kind |-> "plain", flow |-> 0]
Guarded == [kind |-> "guarded", flow |-> 0]
NoEv    == [kind |-> "none", flow |-> 0]

LRInit ==
  /\ \E src \in LFSources :
       /\ sourced = IF src THEN {1} ELSE {}
       /\ queue = [t \in LFThread |-> IF t # 0 THEN <<>> ELSE IF src THEN <<Plain, Source(1)>> ELSE <<Plain>>]
  /\ lpc = [t \in LFThread |-> IF t = 0 THEN "loop" ELSE "new"]
  /\ lev = [t \in LFThread |-> NoEv]
  /\ idle = [t \in LFThread |-> 0] /\ allowance = [t \in LFThread |-> 0]
  /\ running = [t \in LFThread |-> t = 0] /\ stop = [t \in LFThread |-> FALSE]
  /\ asleep = [t \in LFThread |-> FALSE] /\ sleepers = 0
  /\ death = FALSE /\ softLoad = FALSE /\ flows = 1 /\ off = {}
  /\ cursor = [t \in LFThread |-> 0] /\ num = [t \in LFThread |-> 0]
  /\ beaten = {} /\ made = 1

RunGoes(t, from, to) == lpc[t] = from /\ lpc' = [lpc EXCEPT ![t] = to]
Kept == UNCHANGED <<running, stop, death, softLoad, flows, sourced, off>>

(* RunTimeThread::start *)
Start(t) ==
  /\ RunGoes(t, "new", "loop")
  /\ running' = [running EXCEPT ![t] = TRUE]
  /\ UNCHANGED <<queue, lev, idle, allowance, stop, asleep, sleepers, death, softLoad, flows, sourced, off,
                 cursor, num, beaten, made>>

\* For lf_runtime: nobody takes the request to load back.
LoopAll(t) ==
  /\ RunGoes(t, "loop", IF stop[t] \/ death THEN "out" ELSE IF softLoad /\ flows <= MaxLoads THEN "load" ELSE "pop")
  /\ asleep' = [asleep EXCEPT ![t] = FALSE]
  /\ UNCHANGED <<queue, lev, idle, allowance, running, stop, sleepers, death, softLoad, flows, sourced, off,
                 cursor, num, beaten, made>>

\* The thread no longer counts as asleep.  Of the threads that see a flow to
\* load, one catches it.
Loop(t) ==
  /\ RunGoes(t, "loop", IF stop[t] \/ death THEN "out" ELSE IF softLoad THEN "load" ELSE "pop")
  /\ softLoad' = (softLoad /\ (stop[t] \/ death))
  /\ asleep' = [asleep EXCEPT ![t] = FALSE]
  /\ UNCHANGED <<queue, lev, idle, allowance, running, stop, sleepers, death, flows, sourced, off,
                 cursor, num, beaten, made>>

\* load_flow: the sources of the new flow, and then those of the old one are off.
Load(t) ==
  /\ RunGoes(t, "load", "loaded")
  /\ flows' = flows + 1
  /\ \E src \in LFSources :
       /\ sourced' = IF src THEN sourced \cup {flows'} ELSE sourced
       /\ queue' = [queue EXCEPT ![t] = IF src THEN Append(@, Source(flows')) ELSE @]
  /\ UNCHANGED <<lev, idle, allowance, running, stop, asleep, sleepers, death, softLoad, off,
                 cursor, num, beaten, made>>

Loaded(t) ==
  /\ RunGoes(t, "loaded", "pop")
  /\ off' = off \cup {flows - 1}
  /\ UNCHANGED <<queue, lev, idle, allowance, running, stop, asleep, sleepers, death, softLoad, flows, sourced,
                 cursor, num, beaten, made>>

\* Who takes the oldest event of a queue gets ahead of the thieves that read it.
Thieves(t) == {u \in LFThread \ {t} : lpc[u] = "steal"}

Skips(t) == allowance[t] % StealFrequency = 0

Pop(t) ==
  /\ LET took == ~Skips(t) /\ queue[t] # <<>>
     IN  /\ RunGoes(t, "pop", IF took THEN "exec" ELSE "steal")
         /\ lev' = [lev EXCEPT ![t] = IF took THEN Last(queue[t]) ELSE NoEv]
         /\ queue' = [queue EXCEPT ![t] = IF took THEN Front(@) ELSE @]
         /\ allowance' = [allowance EXCEPT ![t] = IF Skips(t) THEN @ - 1 ELSE @]
         /\ num' = [num EXCEPT ![t] = IF took THEN 0 ELSE Threads]
  /\ \E start \in LFThread : cursor' = [cursor EXCEPT ![t] = start]
  /\ idle' = [idle EXCEPT ![t] = IF lpc'[t] = "exec" THEN 0 ELSE @]
  /\ beaten' = (IF lpc'[t] = "exec" /\ Len(queue[t]) = 1 THEN beaten \cup Thieves(t) ELSE beaten)
  /\ UNCHANGED <<asleep, sleepers, made>> /\ Kept

\* steal_first_random: once round the list from a random start.  A steal that
\* another thread gets ahead of comes back empty handed.
Steal(t) ==
  LET v == cursor[t]
      took == v # t /\ queue[v] # <<>>
  IN  /\ lpc[t] = "steal"
      /\ \/ /\ took /\ RunGoes(t, "steal", "exec")
            /\ lev' = [lev EXCEPT ![t] = Head(queue[v])]
            /\ queue' = [queue EXCEPT ![v] = Tail(@)]
            /\ idle' = [idle EXCEPT ![t] = 0]
            /\ beaten' = (beaten \ {t}) \cup Thieves(t)
         \/ /\ ~took \/ t \in beaten
            /\ RunGoes(t, "steal", IF num[t] = 1 THEN "rest" ELSE "steal")
            /\ idle' = [idle EXCEPT ![t] = IF num[t] = 1 /\ @ <= 2 * IdleCritical THEN @ + 1 ELSE @]
            /\ beaten' = beaten \ {t}
            /\ UNCHANGED <<queue, lev>>
      /\ cursor' = [cursor EXCEPT ![t] = (v + 1) % Threads]
      /\ num' = [num EXCEPT ![t] = @ - 1]
      /\ UNCHANGED <<allowance, asleep, sleepers, made>> /\ Kept

(* RunTimeThread::handle *)
\* What an execution brings: the source itself as long as it is on, and events
\* that its successors are or that its guards let go.
Again(e) == IF e.kind = "source" /\ e.flow \notin off THEN <<e>> ELSE <<>>

\* Events are taken from the end, so what is pushed first runs last: the sources
\* when the queue is critical, else what holds no guards.
PushOrder(sources, plain, guarded, allow) ==
  (IF allow < 0 THEN sources \o plain ELSE plain \o sources) \o guarded

Handle(t) ==
  LET allow == IF allowance[t] <= 0 THEN CriticalSize - Len(queue[t]) ELSE allowance[t] - 1
      again == Again(lev[t])
  IN  /\ RunGoes(t, "exec", "wake")
      /\ \E plain \in {<<>>, <<Plain>>}, guarded \in {<<>>, <<Guarded>>} :
           /\ made + Len(plain \o guarded) <= Budget
           /\ queue' = [queue EXCEPT ![t] = @ \o PushOrder(again, plain, guarded, allow)]
           /\ num' = [num EXCEPT ![t] = Len(again \o plain \o guarded)]
           /\ made' = made + Len(plain \o guarded)
      /\ allowance' = [allowance EXCEPT ![t] = allow]
      /\ lev' = [lev EXCEPT ![t] = NoEv]
      /\ UNCHANGED <<idle, asleep, sleepers, cursor, beaten>> /\ Kept

\* A node function that asks for the end, or for a new flow.
ExecKill(t) ==
  /\ LFMayKill /\ ~death /\ lpc[t] = "exec"
  /\ death' = TRUE
  /\ RunGoes(t, "exec", IF t = 0 THEN "exec" ELSE "kill")
  /\ UNCHANGED <<queue, lev, idle, allowance, running, stop, asleep, sleepers, softLoad, flows, sourced, off,
                 cursor, num, beaten, made>>

SoftLoad ==
  /\ flows <= MaxLoads /\ ~softLoad /\ (\A t \in LFThread : lpc[t] \notin {"load", "loaded"})
  /\ softLoad' = TRUE
  /\ UNCHANGED <<queue, lpc, lev, idle, allowance, running, stop, asleep, sleepers, death, flows, sourced, off,
                 cursor, num, beaten, made>>

(* wake_threads: the first num sleeping threads of the list *)
\* pthread_cond_signal reaches a thread only when it waits.
Signal(pcs, u) == IF pcs[u] = "parked" THEN [pcs EXCEPT ![u] = "woken"] ELSE pcs

\* For lf_runtime: nobody is woken.
WakeNobody(t) ==
  /\ RunGoes(t, "wake", "rest")
  /\ cursor' = [cursor EXCEPT ![t] = 0]
  /\ UNCHANGED <<queue, lev, idle, allowance, asleep, sleepers, num, beaten, made>> /\ Kept

Wake(t) ==
  /\ RunGoes(t, "wake", IF sleepers = 0 THEN "rest" ELSE "waking")
  /\ cursor' = [cursor EXCEPT ![t] = 0]
  /\ UNCHANGED <<queue, lev, idle, allowance, asleep, sleepers, num, beaten, made>> /\ Kept

Waking(t) ==
  LET u == cursor[t]
  IN  /\ lpc[t] = "waking"
      /\ IF u = Threads \/ num[t] = 0
         THEN RunGoes(t, "waking", "rest") /\ UNCHANGED <<cursor, num>>
         ELSE /\ lpc' = IF asleep[u] THEN Signal(lpc, u) ELSE lpc
              /\ cursor' = [cursor EXCEPT ![t] = u + 1]
              /\ num' = [num EXCEPT ![t] = IF asleep[u] THEN @ - 1 ELSE @]
      /\ UNCHANGED <<queue, lev, idle, allowance, asleep, sleepers, beaten, made>> /\ Kept

(* Sleeping *)
Rest(t) ==
  /\ RunGoes(t, "rest", IF idle[t] > IdleCritical THEN "sleep" ELSE "loop")
  /\ asleep' = [asleep EXCEPT ![t] = TRUE]
  /\ UNCHANGED <<queue, lev, idle, allowance, sleepers, cursor, num, beaten, made>> /\ Kept

\* For lf_runtime: the last thread awake sleeps as well.
IncrSleepersAll(t) ==
  /\ IF sleepers < Threads
     THEN RunGoes(t, "sleep", "parking") /\ sleepers' = sleepers + 1
     ELSE /\ RunGoes(t, "sleep", IF idle[t] > 2 * IdleCritical THEN "alone" ELSE "loop")
          /\ UNCHANGED sleepers
  /\ UNCHANGED <<queue, lev, idle, allowance, asleep, cursor, num, beaten, made>> /\ Kept

\* incr_sleepers: the last thread awake may not sleep.
IncrSleepers(t) ==
  /\ IF sleepers + 1 < Threads
     THEN RunGoes(t, "sleep", "parking") /\ sleepers' = sleepers + 1
     ELSE /\ RunGoes(t, "sleep", IF idle[t] > 2 * IdleCritical THEN "alone" ELSE "loop")
          /\ UNCHANGED sleepers
  /\ UNCHANGED <<queue, lev, idle, allowance, asleep, cursor, num, beaten, made>> /\ Kept

\* all_asleep_except_me: the flow has run out of events.
Alone(t) ==
  /\ IF sleepers + 1 = Threads
     THEN /\ RunGoes(t, "alone", IF t = 0 THEN "out" ELSE "kill")
          /\ death' = TRUE /\ asleep' = [asleep EXCEPT ![t] = FALSE]
     ELSE RunGoes(t, "alone", "loop") /\ UNCHANGED <<death, asleep>>
  /\ UNCHANGED <<queue, lev, idle, allowance, running, stop, sleepers, softLoad, flows, sourced, off,
                 cursor, num, beaten, made>>

Park(t) ==
  /\ RunGoes(t, "parking", "parked")
  /\ UNCHANGED <<queue, lev, idle, allowance, asleep, sleepers, cursor, num, beaten, made>> /\ Kept

SpuriousWake(t) ==
  /\ RunGoes(t, "parked", "woken")
  /\ UNCHANGED <<queue, lev, idle, allowance, asleep, sleepers, cursor, num, beaten, made>> /\ Kept

\* For lf_runtime: a thread that wakes up stays counted.
WokenCounted(t) ==
  /\ RunGoes(t, "woken", "loop")
  /\ asleep' = [asleep EXCEPT ![t] = FALSE]
  /\ idle' = [idle EXCEPT ![t] = 0]
  /\ UNCHANGED <<queue, lev, allowance, sleepers, cursor, num, beaten, made>> /\ Kept

\* Waking up and decr_sleepers.
Woken(t) ==
  /\ RunGoes(t, "woken", "loop")
  /\ asleep' = [asleep EXCEPT ![t] = FALSE]
  /\ sleepers' = sleepers - 1
  /\ idle' = [idle EXCEPT ![t] = 0]
  /\ UNCHANGED <<queue, lev, allowance, cursor, num, beaten, made>> /\ Kept

(* The end *)
\* die: asks a thread to stop, wakes it when it seems to sleep, and waits for it.
Die(t, u, from, to) ==
  /\ stop' = [stop EXCEPT ![u] = TRUE]
  /\ lpc[t] = from /\ lpc' = [(IF asleep[u] THEN Signal(lpc, u) ELSE lpc) EXCEPT ![t] = to]

\* soft_kill on a thread other than 0 makes thread 0 exit.
Kill(t) ==
  /\ Die(t, 0, "kill", "killing")
  /\ UNCHANGED <<queue, lev, idle, allowance, running, asleep, sleepers, death, softLoad, flows, sourced, off,
                 cursor, num, beaten, made>>

Killed(t) ==
  /\ ~running[0]
  /\ RunGoes(t, "killing", IF lev[t] = NoEv THEN "out" ELSE "exec")
  /\ UNCHANGED <<queue, lev, idle, allowance, asleep, sleepers, cursor, num, beaten, made>> /\ Kept

Out(t) ==
  /\ RunGoes(t, "out", IF t = 0 /\ Threads > 1 THEN "join" ELSE "done")
  /\ running' = [running EXCEPT ![t] = FALSE]
  /\ cursor' = [cursor EXCEPT ![t] = 1]
  /\ UNCHANGED <<queue, lev, idle, allowance, stop, asleep, sleepers, death, softLoad, flows, sourced, off,
                 num, beaten, made>>

\* RunTime::start after thread 0 has left its loop.
Join(t) ==
  /\ t = 0 /\ lpc[t] = "join"
  /\ Die(t, cursor[t], "join", "joining")
  /\ UNCHANGED <<queue, lev, idle, allowance, running, asleep, sleepers, death, softLoad, flows, sourced, off,
                 cursor, num, beaten, made>>

Joined(t) ==
  /\ lpc[t] = "joining" /\ lpc[cursor[t]] = "done"
  /\ RunGoes(t, "joining", IF cursor[t] = Threads - 1 THEN "done" ELSE "join")
  /\ cursor' = [cursor EXCEPT ![t] = @ + 1]
  /\ UNCHANGED <<queue, lev, idle, allowance, asleep, sleepers, num, beaten, made>> /\ Kept

Step(t) ==
  \/ Start(t) \/ Loop(t) \/ Load(t) \/ Loaded(t) \/ Pop(t) \/ Steal(t) \/ Handle(t)
  \/ Wake(t) \/ Waking(t) \/ Rest(t) \/ IncrSleepers(t) \/ Alone(t) \/ Park(t)
  \/ Woken(t) \/ Kill(t) \/ Killed(t) \/ Out(t) \/ Join(t) \/ Joined(t)

LRNext ==
  \/ \E t \in LFThread : Step(t) \/ ExecKill(t) \/ SpuriousWake(t)
  \/ SoftLoad

\* A thread that can go on does so; a node function returns.
LRFairness == \A t \in LFThread : WF_lrvars(Step(t))

----------------------------------------------------------------------------

RunTimeTypeOK ==
  /\ queue \in [LFThread -> Seq([kind : {"source", "plain", "guarded"}, flow : 0 .. MaxLoads + 1])]
  /\ sleepers \in 0 .. Threads /\ made \in 0 .. Budget + 1
  /\ idle \in [LFThread -> 0 .. 2 * IdleCritical + 1]
  /\ \A t \in LFThread : lpc[t] \in {"parking", "parked"} => asleep[t]

\* _sleep_count counts the threads between incr_sleepers and decr_sleepers, so
\* the threads are never all parked.
Sleeping(t) == lpc[t] \in {"parking", "parked", "woken"}

SleepersCounted ==
  /\ sleepers = Cardinality({t \in LFThread : Sleeping(t)})
  /\ sleepers < Threads

\* "seem to be out of events to run": when the last thread awake decides that,
\* no queue holds an event and no thread executes one.
OutOfEventsIsTrue ==
  \A t \in LFThread : (lpc[t] = "alone" /\ sleepers + 1 = Threads) =>
     \A u \in LFThread : queue[u] = <<>> /\ lev[u] = NoEv

\* Where the events are: in the queues, and at 0 the one a thread executes.
EventPlaces == UNION {{<<t, i>> : i \in 0 .. Len(queue[t])} : t \in LFThread}
EventAt(p) == IF p[2] = 0 THEN lev[p[1]] ELSE queue[p[1]][p[2]]

\* A new flow takes over from the old one: once a load is over only the active
\* flow's source is on, and its one event is about; those of older flows end.
AboutOf(n) == Cardinality({p \in EventPlaces : EventAt(p) = Source(n)})

OneSource ==
  /\ \A n \in 1 .. flows : AboutOf(n) <= 1
  /\ \A n \in sourced \ off : AboutOf(n) = 1
  /\ (\A t \in LFThread : lpc[t] # "loaded") => sourced \ off \subseteq {flows}

\* An event that is queued is executed, however long the source keeps running.
Work == \E t \in LFThread : \E i \in DOMAIN queue[t] : queue[t][i].kind # "source"
EventsRun == Work ~> (~Work \/ death)

\* soft_kill and the lack of events stop every thread.
StopsWhenKilled == death ~> (\A t \in LFThread : lpc[t] = "done")

\* A source may wait for input for as long as it likes: meanwhile an event that
\* is queued has a thread that will take it.
Stuck(t) == lpc[t] = "parked" \/ (lpc[t] = "exec" /\ lev[t].kind = "source")
NobodyTakes == (\A t \in LFThread : Stuck(t)) => \A t \in LFThread : queue[t] = <<>>
=============================================================================

----------------------- MODULE LockFreeRunTime_proofs -----------------------
(***************************************************************************)
(* The lock-free runtime counts its sleepers, and runs out of events only  *)
(* when there are none, for any number of threads and any bounds.          *)
(*                                                                         *)
(* A thread goes to sleep when it has found nothing often enough.  Now and *)
(* then it does not look into its own queue, but once only between two     *)
(* events: when it has counted two failures it has looked, and nobody else *)
(* puts an event there.  So those that sleep have nothing, and when all    *)
(* but one sleep there is nothing at all.                                  *)
(*                                                                         *)
(* The deque of such a thread gives every element to one thread, for any   *)
(* number of thieves, any size of the first array and any number of        *)
(* operations.  The end of what it holds is _bottom, but one more while    *)
(* the owner pops.  What a thief has read is right as long as _top is what *)
(* it read: _top only grows, and the owner writes no entry from _top to    *)
(* the end, as the array always has room for one element more.             *)
(*                                                                         *)
(* A flow may be loaded while the runtime runs.  The event of a source is  *)
(* in one place, a queue or a thread that executes it, and every step maps *)
(* the places after it to different places before it.  One thread loads at *)
(* a time, so at most the last two flows have a source that is on, and two *)
(* only until that thread has switched the old one off.                    *)
(***************************************************************************)
EXTENDS MCLockFreeRunTime, FiniteSetTheorems, SequenceTheorems, TLAPS

\* What queues hold.
LFEvent == [kind : {"source", "plain", "guarded"}, flow : Nat]

\* The parts of the state that the argument is about.
LRTypes ==
  /\ lpc = [t \in LFThread |-> lpc[t]]
  /\ cursor = [t \in LFThread |-> cursor[t]]
  /\ queue \in [LFThread -> Seq(LFEvent)]
  /\ lev \in [LFThread -> LFEvent \cup {NoEv}]
  /\ idle \in [LFThread -> Nat]
  /\ allowance \in [LFThread -> Int]
  /\ flows \in Nat

\* From incr_sleepers on; the queue of such a thread is empty.
LREmptyPC == {"sleep", "alone", "parking", "parked", "woken"}

\* What a thread has found: it has no event unless it executes one, and then it counts
\* no failures; with one failure it will look into its queue, with two it has looked.
LRThread(t) ==
  /\ lpc[t] \notin {"exec", "kill", "killing"} => lev[t] = NoEv
  /\ lev[t] # NoEv => idle[t] = 0
  /\ lpc[t] \in {"exec", "wake", "waking"} => idle[t] = 0
  /\ lpc[t] = "steal" => ~Skips(t) /\ cursor[t] \in LFThread
  /\ idle[t] >= 1 => ~Skips(t)
  /\ lpc[t] = "steal" /\ idle[t] >= 1 => queue[t] = <<>>
  /\ lpc[t] = "rest" /\ idle[t] >= 2 => queue[t] = <<>>
  /\ lpc[t] \in LREmptyPC => queue[t] = <<>>

\* incr_sleepers lets all but one sleep.
LRSleepers == {t \in LFThread : Sleeping(t)}

LRCount == sleepers = Cardinality(LRSleepers) /\ sleepers < Threads

LRInv == LRTypes /\ (\A t \in LFThread : LRThread(t)) /\ LRCount

\* The events are events, and none is a source.
LEMMA LREvents ==
  /\ Plain \in LFEvent /\ Guarded \in LFEvent /\ \A n \in Nat : Source(n) \in LFEvent
  /\ NoEv.kind # "source"
  BY DEF LFEvent, Plain, Guarded, Source, NoEv

\* There are finitely many threads.
LEMMA LRFinite ==
  /\ IsFiniteSet(LFThread) /\ Cardinality(LFThread) = Threads
  /\ IsFiniteSet(LRSleepers) /\ Cardinality(LRSleepers) \in Nat
  /\ IsFiniteSet(LRSleepers)'
  <1>1. Threads \in Nat \ {0} /\ 0 \in Int /\ Threads - 1 \in Int
    BY LFRunTimeAssumption
  <1>2. IsFiniteSet(LFThread) /\ Cardinality(LFThread) = Threads
    BY <1>1, FS_Interval DEF LFThread
  <1>3. IsFiniteSet(LRSleepers) /\ IsFiniteSet(LRSleepers)'
    BY <1>2, FS_Subset DEF LRSleepers
  <1> QED
    BY <1>2, <1>3, FS_CardinalityType

\* Initially nobody sleeps and nobody has failed.
LEMMA LRInitInv == LRInit => LRInv
  <1> SUFFICES ASSUME LRInit PROVE LRInv
    OBVIOUS
  <1>0. Threads \in Nat \ {0}
    BY LFRunTimeAssumption
  <1>1. PICK src \in LFSources :
          queue = [t \in LFThread |-> IF t # 0 THEN <<>> ELSE IF src THEN <<Plain, Source(1)>> ELSE <<Plain>>]
    BY DEF LRInit
  <1>2. <<>> \in Seq(LFEvent) /\ <<Plain>> \in Seq(LFEvent) /\ <<Plain, Source(1)>> \in Seq(LFEvent)
    BY LREvents
  <1>3. queue \in [LFThread -> Seq(LFEvent)]
    BY <1>1, <1>2
  <1>4. LRTypes
    BY <1>3 DEF LRTypes, LRInit
  <1>5. \A t \in LFThread : lpc[t] \in {"loop", "new"} /\ lev[t] = NoEv /\ idle[t] = 0
    BY DEF LRInit
  <1>6. \A t \in LFThread : LRThread(t)
    BY <1>5 DEF LRThread, LREmptyPC
  <1>7. LRSleepers = {}
    BY <1>5 DEF LRSleepers, Sleeping
  <1>8. LRCount
    BY <1>0, <1>7, FS_EmptySet DEF LRCount, LRInit
  <1> QED
    BY <1>4, <1>6, <1>8 DEF LRInv

\* The others: what they hold is taken at most, and those that are parked are woken.
LEMMA LROthers ==
  ASSUME LRInv, NEW t \in LFThread, LRThread(t)',
         \A u \in LFThread : u # t =>
           /\ lpc'[u] = lpc[u] \/ (lpc[u] = "parked" /\ lpc'[u] = "woken")
           /\ lev'[u] = lev[u] /\ idle'[u] = idle[u] /\ allowance'[u] = allowance[u] /\ cursor'[u] = cursor[u]
           /\ queue[u] = <<>> => queue'[u] = <<>>
  PROVE  \A u \in LFThread : LRThread(u)'
  <1> SUFFICES ASSUME NEW u \in LFThread, u # t PROVE LRThread(u)'
    OBVIOUS
  <1>1. LRThread(u)
    BY DEF LRInv
  <1> QED
    BY <1>1 DEF LRThread, Skips, LREmptyPC

\* The steps after which as many sleep.
LEMMA LRSameSleepers ==
  ASSUME LRCount, sleepers' = sleepers, \A u \in LFThread : Sleeping(u)' <=> Sleeping(u)
  PROVE  LRCount'
  <1>1. LRSleepers' = LRSleepers
    BY DEF LRSleepers
  <1> QED
    BY <1>1 DEF LRCount

\* The steps that move one thread, and change nothing of what it has.
LEMMA LRGoes ==
  ASSUME LRInv, NEW t \in LFThread, NEW l, lpc' = [lpc EXCEPT ![t] = l],
         queue' = queue, lev' = lev, idle' = idle, allowance' = allowance, flows' = flows,
         cursor' = [u \in LFThread |-> cursor'[u]], \A u \in LFThread : u # t => cursor'[u] = cursor[u],
         l # "steal", l # "rest" \/ lpc[t] = "waking" \/ lpc[t] = "wake", 
         l \in LREmptyPC => lpc[t] \in LREmptyPC \/ (lpc[t] = "rest" /\ idle[t] >= 2),
         l \in {"exec", "kill", "killing"} \/ lev[t] = NoEv,
         l \in {"exec", "wake", "waking"} => idle[t] = 0
  PROVE  LRTypes' /\ \A u \in LFThread : LRThread(u)'
  <1>1. LRTypes /\ LRThread(t)
    BY DEF LRInv
  <1>2. LRTypes'
    BY <1>1 DEF LRTypes
  <1>3. lpc'[t] = l /\ \A u \in LFThread : u # t => lpc'[u] = lpc[u]
    BY <1>1 DEF LRTypes
  <1>4. LRThread(t)'
    <2>1. (Skips(t)' <=> Skips(t)) /\ idle[t] \in Nat
      BY <1>1 DEF Skips, LRTypes
    <2> QED
      BY <1>1, <1>3, <2>1 DEF LRThread, LREmptyPC
  <1>5. \A u \in LFThread : LRThread(u)'
    BY <1>3, <1>4, LROthers
  <1> QED
    BY <1>2, <1>5

\* The same, when a thread that is parked is woken as well.
LEMMA LRSignals ==
  ASSUME LRInv, NEW t \in LFThread, NEW l, NEW u,
         lpc' = [(IF asleep[u] THEN Signal(lpc, u) ELSE lpc) EXCEPT ![t] = l],
         queue' = queue, lev' = lev, idle' = idle, allowance' = allowance, flows' = flows,
         sleepers' = sleepers,
         cursor' = [w \in LFThread |-> cursor'[w]], \A w \in LFThread : w # t => cursor'[w] = cursor[w],
         l \notin LREmptyPC, l \notin {"steal", "rest", "exec"}, lpc[t] \notin LREmptyPC,
         l \in {"kill", "killing"} \/ lev[t] = NoEv,
         l \in {"wake", "waking"} => idle[t] = 0
  PROVE  LRInv'
  <1>1. LRTypes /\ LRThread(t) /\ LRCount
    BY DEF LRInv
  <1>2. PICK p : p = (IF asleep[u] THEN Signal(lpc, u) ELSE lpc)
    OBVIOUS
  <1>3. /\ p = [w \in LFThread |-> p[w]]
        /\ \A w \in LFThread : p[w] = lpc[w] \/ (lpc[w] = "parked" /\ p[w] = "woken")
    BY <1>1, <1>2 DEF Signal, LRTypes
  <1>4. lpc' = [p EXCEPT ![t] = l]
    BY <1>2
  <1>5. LRTypes'
    BY <1>1, <1>3, <1>4 DEF LRTypes
  <1>6. lpc'[t] = l /\ \A w \in LFThread : w # t => lpc'[w] = lpc[w] \/ (lpc[w] = "parked" /\ lpc'[w] = "woken")
    BY <1>3, <1>4
  <1>7. LRThread(t)'
    <2>1. Skips(t)' <=> Skips(t)
      BY DEF Skips
    <2> QED
      BY <1>1, <1>6, <2>1 DEF LRThread, LREmptyPC
  <1>8. \A w \in LFThread : LRThread(w)'
    BY <1>6, <1>7, LROthers
  <1>9. \A w \in LFThread : Sleeping(w)' <=> Sleeping(w)
    BY <1>6 DEF Sleeping, LREmptyPC
  <1> QED
    BY <1>1, <1>5, <1>8, <1>9, LRSameSleepers DEF LRInv

\* Who neither falls asleep nor wakes up.
LEMMA LRStaysUp ==
  ASSUME LRCount, sleepers' = sleepers, NEW t \in LFThread, ~Sleeping(t), ~Sleeping(t)',
         \A u \in LFThread : u # t => lpc'[u] = lpc[u]
  PROVE  LRCount'
  <1>1. \A u \in LFThread : Sleeping(u)' <=> Sleeping(u)
    BY DEF Sleeping
  <1> QED
    BY <1>1, LRSameSleepers

\* The steps of a thread that finds its way round the loop.
LEMMA LRTurns ==
  ASSUME LRInv, NEW t \in LFThread,
         Start(t) \/ Loop(t) \/ Loaded(t) \/ Wake(t) \/ Rest(t) \/ Alone(t) \/ Out(t) \/ Joined(t) \/ Killed(t) \/ ExecKill(t)
  PROVE  LRInv'
  <1>1. LRTypes /\ LRThread(t) /\ LRCount /\ IdleCritical \in Nat \ {0}
    BY LFRunTimeAssumption DEF LRInv
  <1>2. PICK l : l = lpc'[t]
    OBVIOUS
  <1>3. /\ queue' = queue /\ lev' = lev /\ idle' = idle /\ allowance' = allowance /\ flows' = flows
        /\ sleepers' = sleepers
    BY DEF Start, Loop, Loaded, Wake, Rest, Alone, Out, Joined, Killed, ExecKill, Kept
  <1>4. cursor' = cursor \/ \E v : cursor' = [cursor EXCEPT ![t] = v]
    BY DEF Start, Loop, Loaded, Wake, Rest, Alone, Out, Joined, Killed, ExecKill
  <1>5. cursor' = [u \in LFThread |-> cursor'[u]] /\ \A u \in LFThread : u # t => cursor'[u] = cursor[u]
    BY <1>1, <1>4 DEF LRTypes
  <1>6. \E k : lpc' = [lpc EXCEPT ![t] = k]
    BY DEF RunGoes, Start, Loop, Loaded, Wake, Rest, Alone, Out, Joined, Killed, ExecKill
  <1>7. lpc' = [lpc EXCEPT ![t] = l]
    BY <1>1, <1>2, <1>6 DEF LRTypes
  <1>8. /\ l # "steal" /\ (l = "rest" => lpc[t] = "wake")
        /\ l \in LREmptyPC => lpc[t] \in LREmptyPC \/ (lpc[t] = "rest" /\ idle[t] >= 2)
        /\ l \in {"exec", "kill", "killing"} \/ lev[t] = NoEv
        /\ l \in {"exec", "wake", "waking"} => idle[t] = 0
        /\ ~Sleeping(t) /\ l \notin {"parking", "parked", "woken"}
    <2>0. idle[t] \in Nat /\ (lpc[t] \notin {"exec", "kill", "killing"} => lev[t] = NoEv)
          /\ (lpc[t] \in {"exec", "wake", "waking"} => idle[t] = 0) /\ (lev[t] # NoEv => idle[t] = 0)
      BY <1>1 DEF LRTypes, LRThread
    <2>1. CASE Start(t) \/ Loaded(t) \/ Out(t) \/ Joined(t)
      BY <1>1, <1>2, <2>0, <2>1 DEF LRTypes, LREmptyPC, Sleeping, RunGoes, Start, Loaded, Out, Joined
    <2>2. CASE Loop(t) \/ Wake(t)
      BY <1>1, <1>2, <2>0, <2>2 DEF LRTypes, LREmptyPC, Sleeping, RunGoes, Loop, Wake
    <2>3. CASE Rest(t)
      BY <1>1, <1>2, <2>0, <2>3 DEF LRTypes, LREmptyPC, Sleeping, RunGoes, Rest
    <2>4. CASE Alone(t)
      BY <1>1, <1>2, <2>0, <2>4 DEF LRTypes, LREmptyPC, Sleeping, RunGoes, Alone
    <2>5. CASE Killed(t) \/ ExecKill(t)
      BY <1>1, <1>2, <2>0, <2>5 DEF LRTypes, LREmptyPC, Sleeping, RunGoes, Killed, ExecKill
    <2> QED
      BY <2>1, <2>2, <2>3, <2>4, <2>5
  <1>9. LRTypes' /\ \A u \in LFThread : LRThread(u)'
    BY <1>3, <1>5, <1>7, <1>8, LRGoes
  <1>10. ~Sleeping(t)' /\ \A u \in LFThread : u # t => lpc'[u] = lpc[u]
    BY <1>1, <1>2, <1>7, <1>8 DEF LRTypes, Sleeping
  <1> QED
    BY <1>1, <1>3, <1>8, <1>9, <1>10, LRStaysUp DEF LRInv

\* The threads that wake others up.
LEMMA LRWakes ==
  ASSUME LRInv, NEW t \in LFThread, Waking(t) \/ Kill(t) \/ Join(t)
  PROVE  LRInv'
  <1>1. LRTypes /\ LRThread(t) /\ LRCount
    BY DEF LRInv
  <1>2. CASE Waking(t) /\ (cursor[t] = Threads \/ num[t] = 0)
    <2>1. /\ lpc[t] = "waking" /\ lpc' = [lpc EXCEPT ![t] = "rest"]
          /\ queue' = queue /\ lev' = lev /\ idle' = idle /\ allowance' = allowance /\ flows' = flows
          /\ sleepers' = sleepers /\ cursor' = cursor
      BY <1>2 DEF Waking, RunGoes, Kept
    <2>2. lev[t] = NoEv /\ cursor' = [u \in LFThread |-> cursor'[u]]
      BY <1>1, <2>1 DEF LRThread, LRTypes
    <2>3. LRTypes' /\ \A u \in LFThread : LRThread(u)'
      BY <2>1, <2>2, LRGoes DEF LREmptyPC
    <2>4. ~Sleeping(t) /\ ~Sleeping(t)' /\ \A u \in LFThread : u # t => lpc'[u] = lpc[u]
      BY <1>1, <2>1 DEF LRTypes, Sleeping
    <2> QED
      BY <1>1, <2>1, <2>3, <2>4, LRStaysUp DEF LRInv
  <1>3. CASE Waking(t) /\ ~(cursor[t] = Threads \/ num[t] = 0)
    <2>1. PICK u : u = cursor[t]
      OBVIOUS
    <2>2. /\ lpc[t] = "waking" /\ lpc' = (IF asleep[u] THEN Signal(lpc, u) ELSE lpc)
          /\ cursor' = [cursor EXCEPT ![t] = u + 1]
          /\ queue' = queue /\ lev' = lev /\ idle' = idle /\ allowance' = allowance /\ flows' = flows
          /\ sleepers' = sleepers
      BY <1>3, <2>1 DEF Waking, Kept
    <2>3. PICK p : p = (IF asleep[u] THEN Signal(lpc, u) ELSE lpc)
      OBVIOUS
    <2>4. p[t] = "waking" /\ p = [w \in LFThread |-> p[w]]
      BY <1>1, <2>2, <2>3 DEF LRTypes, Signal
    <2>4a. p = [p EXCEPT ![t] = "waking"]
      BY <2>4
    <2>4b. lpc' = [(IF asleep[u] THEN Signal(lpc, u) ELSE lpc) EXCEPT ![t] = "waking"]
      BY <2>2, <2>3, <2>4a
    <2>5. cursor' = [w \in LFThread |-> cursor'[w]] /\ \A w \in LFThread : w # t => cursor'[w] = cursor[w]
      BY <1>1, <2>2 DEF LRTypes
    <2>6. lev[t] = NoEv /\ idle[t] = 0
      BY <1>1, <2>2 DEF LRThread
    <2> QED
      BY <2>2, <2>4b, <2>5, <2>6, LRSignals DEF LREmptyPC
  <1>4. CASE Kill(t)
    <2>0. PICK u : u = 0
      OBVIOUS
    <2>1. /\ lpc[t] = "kill"
          /\ lpc' = [(IF asleep[u] THEN Signal(lpc, u) ELSE lpc) EXCEPT ![t] = "killing"]
          /\ queue' = queue /\ lev' = lev /\ idle' = idle /\ allowance' = allowance /\ flows' = flows
          /\ sleepers' = sleepers /\ cursor' = cursor
      BY <1>4, <2>0 DEF Kill, Die
    <2>2. cursor' = [w \in LFThread |-> cursor'[w]]
      BY <1>1, <2>1 DEF LRTypes
    <2> QED
      BY <2>1, <2>2, LRSignals DEF LREmptyPC
  <1>5. CASE Join(t)
    <2>1. PICK u : u = cursor[t]
      OBVIOUS
    <2>2. /\ lpc[t] = "join"
          /\ lpc' = [(IF asleep[u] THEN Signal(lpc, u) ELSE lpc) EXCEPT ![t] = "joining"]
          /\ queue' = queue /\ lev' = lev /\ idle' = idle /\ allowance' = allowance /\ flows' = flows
          /\ sleepers' = sleepers /\ cursor' = cursor
      BY <1>5, <2>1 DEF Join, Die
    <2>3. lev[t] = NoEv
      BY <1>1, <2>2 DEF LRThread
    <2>4. cursor' = [w \in LFThread |-> cursor'[w]]
      BY <1>1, <2>2 DEF LRTypes
    <2>5. lpc[t] \notin LREmptyPC /\ "joining" \notin LREmptyPC
      BY <2>2 DEF LREmptyPC
    <2> QED
      BY <2>2, <2>3, <2>4, <2>5, LRSignals
  <1> QED
    BY <1>2, <1>3, <1>4, <1>5

\* Asleep: from incr_sleepers to decr_sleepers.
LEMMA LRSleeps ==
  ASSUME LRInv, NEW t \in LFThread, IncrSleepers(t) \/ Park(t) \/ SpuriousWake(t)
  PROVE  LRInv'
  <1>1. LRTypes /\ LRThread(t) /\ LRCount
    BY DEF LRInv
  <1>2. PICK l : l = lpc'[t]
    OBVIOUS
  <1>3. /\ queue' = queue /\ lev' = lev /\ idle' = idle /\ allowance' = allowance /\ flows' = flows
        /\ cursor' = cursor
    BY DEF IncrSleepers, Park, SpuriousWake, Kept
  <1>4. cursor' = [u \in LFThread |-> cursor'[u]]
    BY <1>1, <1>3 DEF LRTypes
  <1>5. \E k : lpc' = [lpc EXCEPT ![t] = k]
    BY DEF RunGoes, IncrSleepers, Park, SpuriousWake
  <1>6. lpc' = [lpc EXCEPT ![t] = l]
    BY <1>1, <1>2, <1>5 DEF LRTypes
  <1>7. lpc[t] \in LREmptyPC /\ l \in LREmptyPC \cup {"loop"} /\ lev[t] = NoEv
    BY <1>1, <1>2 DEF LRTypes, LRThread, LREmptyPC, RunGoes, IncrSleepers, Park, SpuriousWake
  <1>8. LRTypes' /\ \A u \in LFThread : LRThread(u)'
    BY <1>3, <1>4, <1>6, <1>7, LRGoes DEF LREmptyPC
  <1>9. LRCount'
    <2>0. \A u \in LFThread : u # t => lpc'[u] = lpc[u]
      BY <1>1, <1>6 DEF LRTypes
    <2>1. CASE IncrSleepers(t) /\ sleepers + 1 < Threads
      <3>1. lpc[t] = "sleep" /\ lpc'[t] = "parking" /\ sleepers' = sleepers + 1
        BY <1>1, <2>1 DEF IncrSleepers, RunGoes, LRTypes
      <3>2. LRSleepers' = LRSleepers \cup {t} /\ t \notin LRSleepers
        BY <2>0, <3>1 DEF LRSleepers, Sleeping
      <3>3. Cardinality(LRSleepers \cup {t}) = Cardinality(LRSleepers) + 1
        BY <3>2, LRFinite, FS_AddElement
      <3> QED
        BY <1>1, <2>1, <3>1, <3>2, <3>3 DEF LRCount
    <2>2. CASE IncrSleepers(t) /\ ~(sleepers + 1 < Threads)
      <3>1. lpc[t] = "sleep" /\ lpc'[t] \in {"alone", "loop"} /\ sleepers' = sleepers
        BY <1>1, <2>2 DEF IncrSleepers, RunGoes, LRTypes
      <3> QED
        BY <1>1, <2>0, <3>1, LRStaysUp DEF Sleeping
    <2>3. CASE Park(t) \/ SpuriousWake(t)
      <3>1. sleepers' = sleepers /\ Sleeping(t) /\ Sleeping(t)'
        BY <1>1, <2>3 DEF Park, SpuriousWake, RunGoes, LRTypes, Sleeping
      <3>2. \A u \in LFThread : Sleeping(u)' <=> Sleeping(u)
        BY <2>0, <3>1 DEF Sleeping
      <3> QED
        BY <1>1, <3>1, <3>2, LRSameSleepers
    <2> QED
      BY <2>1, <2>2, <2>3
  <1> QED
    BY <1>8, <1>9 DEF LRInv

\* decr_sleepers.
LEMMA LRWoken == ASSUME LRInv, NEW t \in LFThread, Woken(t) PROVE LRInv'
  <1>1. LRTypes /\ LRThread(t) /\ LRCount
    BY DEF LRInv
  <1>2. /\ lpc[t] = "woken" /\ lpc' = [lpc EXCEPT ![t] = "loop"]
        /\ idle' = [idle EXCEPT ![t] = 0] /\ sleepers' = sleepers - 1
        /\ queue' = queue /\ lev' = lev /\ allowance' = allowance /\ flows' = flows /\ cursor' = cursor
    BY DEF Woken, RunGoes, Kept
  <1>3. /\ lpc'[t] = "loop" /\ idle'[t] = 0
        /\ \A u \in LFThread : u # t => lpc'[u] = lpc[u] /\ idle'[u] = idle[u]
    BY <1>1, <1>2 DEF LRTypes
  <1>4. LRTypes'
    BY <1>1, <1>2 DEF LRTypes
  <1>5. LRThread(t)'
    BY <1>1, <1>2, <1>3 DEF LRThread, LREmptyPC
  <1>6. \A u \in LFThread : LRThread(u)'
    BY <1>2, <1>3, <1>5, LROthers
  <1>7. LRCount'
    <2>1. LRSleepers' = LRSleepers \ {t} /\ t \in LRSleepers
      BY <1>2, <1>3 DEF LRSleepers, Sleeping
    <2>2. Cardinality(LRSleepers \ {t}) = Cardinality(LRSleepers) - 1
      BY <2>1, LRFinite, FS_RemoveElement
    <2>3. Cardinality(LRSleepers) \in Nat /\ Threads \in Nat
      BY LRFinite, LFRunTimeAssumption
    <2> QED
      BY <1>1, <1>2, <2>1, <2>2, <2>3 DEF LRCount
  <1> QED
    BY <1>4, <1>6, <1>7 DEF LRInv

\* A thread that takes an event, or finds none; nobody else's pace changes.
LEMMA LRPops == ASSUME LRInv, NEW t \in LFThread, Pop(t) PROVE LRInv'
  <1>1. LRTypes /\ LRThread(t) /\ LRCount /\ StealFrequency \in Nat \ {0, 1}
    BY LFRunTimeAssumption DEF LRInv
  <1>2. PICK took \in BOOLEAN : took <=> (~Skips(t) /\ queue[t] # <<>>)
    OBVIOUS
  <1>3. PICK start \in LFThread : cursor' = [cursor EXCEPT ![t] = start]
    BY DEF Pop
  <1>4. /\ lpc[t] = "pop" /\ lpc' = [lpc EXCEPT ![t] = IF took THEN "exec" ELSE "steal"]
        /\ lev' = [lev EXCEPT ![t] = IF took THEN Last(queue[t]) ELSE NoEv]
        /\ queue' = [queue EXCEPT ![t] = IF took THEN Front(queue[t]) ELSE queue[t]]
        /\ allowance' = [allowance EXCEPT ![t] = IF Skips(t) THEN allowance[t] - 1 ELSE allowance[t]]
        /\ flows' = flows /\ sleepers' = sleepers
    BY <1>2 DEF Pop, RunGoes, Kept
  <1>5. /\ lpc'[t] = (IF took THEN "exec" ELSE "steal")
        /\ \A u \in LFThread : u # t => lpc'[u] = lpc[u]
    BY <1>1, <1>4 DEF LRTypes
  <1>6. idle' = [idle EXCEPT ![t] = IF took THEN 0 ELSE idle[t]]
    BY <1>5 DEF Pop
  <1>7. took => Last(queue[t]) \in LFEvent /\ Front(queue[t]) \in Seq(LFEvent)
    <2>1. queue[t] \in Seq(LFEvent)
      BY <1>1 DEF LRTypes
    <2> QED
      BY <1>2, <2>1 DEF Last, Front
  <1>8. LRTypes'
    <2>1. queue' \in [LFThread -> Seq(LFEvent)]
      BY <1>1, <1>4, <1>7 DEF LRTypes
    <2>2. lev' \in [LFThread -> LFEvent \cup {NoEv}]
      BY <1>1, <1>4, <1>7 DEF LRTypes
    <2>3. idle' \in [LFThread -> Nat] /\ allowance' \in [LFThread -> Int]
      BY <1>1, <1>4, <1>6 DEF LRTypes
    <2> QED
      BY <1>1, <1>3, <1>4, <2>1, <2>2, <2>3 DEF LRTypes
  <1>9. ~Skips(t)'
    <2>1. allowance[t] \in Int /\ allowance'[t] = (IF Skips(t) THEN allowance[t] - 1 ELSE allowance[t])
      BY <1>1, <1>4 DEF LRTypes
    <2>2. CASE Skips(t)
      <3>1. PICK a \in Int : a = allowance[t]
        BY <2>1
      <3>2. PICK f \in Nat \ {0, 1} : f = StealFrequency
        BY <1>1
      <3>3. a % f = 0
        BY <2>2, <3>1, <3>2 DEF Skips
      <3>4. (a - 1) % f # 0
        BY <3>3
      <3> QED
        BY <2>1, <2>2, <3>1, <3>2, <3>4 DEF Skips
    <2>3. CASE ~Skips(t)
      BY <2>1, <2>3 DEF Skips
    <2> QED
      BY <2>2, <2>3
  <1>10. cursor'[t] \in LFThread /\ lev'[t] = (IF took THEN Last(queue[t]) ELSE NoEv)
         /\ idle'[t] = (IF took THEN 0 ELSE idle[t]) /\ queue'[t] = (IF took THEN Front(queue[t]) ELSE queue[t])
    BY <1>1, <1>3, <1>4, <1>6 DEF LRTypes
  <1>11. LRThread(t)'
    BY <1>1, <1>2, <1>5, <1>9, <1>10 DEF LRThread, LREmptyPC
  <1>12. \A u \in LFThread : u # t =>
           /\ lev'[u] = lev[u] /\ idle'[u] = idle[u] /\ allowance'[u] = allowance[u] /\ cursor'[u] = cursor[u]
           /\ queue'[u] = queue[u]
    BY <1>1, <1>3, <1>4, <1>6 DEF LRTypes
  <1>13. \A u \in LFThread : LRThread(u)'
    BY <1>5, <1>11, <1>12, LROthers
  <1>14. LRCount'
    BY <1>1, <1>4, <1>5, LRStaysUp DEF Sleeping
  <1> QED
    BY <1>8, <1>13, <1>14 DEF LRInv

\* A thread that steals the oldest event of another, or comes back empty handed.
LEMMA LRSteals == ASSUME LRInv, NEW t \in LFThread, Steal(t) PROVE LRInv'
  <1>1. LRTypes /\ LRThread(t) /\ LRCount /\ Threads \in Nat \ {0} /\ IdleCritical \in Nat \ {0}
    BY LFRunTimeAssumption DEF LRInv
  <1>2. lpc[t] = "steal" /\ lev[t] = NoEv /\ ~Skips(t) /\ (idle[t] >= 1 => queue[t] = <<>>) /\ cursor[t] \in LFThread
    BY <1>1 DEF Steal, LRThread
  <1>3. PICK v \in LFThread : v = cursor[t]
    BY <1>2
  <1>4. PICK z \in LFThread : cursor' = [cursor EXCEPT ![t] = z]
    <2>1. (v + 1) % Threads \in LFThread
      BY <1>1, <1>3 DEF LFThread
    <2> QED
      BY <1>3, <2>1 DEF Steal
  <1>5. allowance' = allowance /\ flows' = flows /\ sleepers' = sleepers
    BY DEF Steal, Kept
  <1>6. CASE lpc' = [lpc EXCEPT ![t] = "exec"]
    <2>0. lpc'[t] = "exec" /\ \A u \in LFThread : u # t => lpc'[u] = lpc[u]
      BY <1>1, <1>6 DEF LRTypes
    <2>1a. ~(lpc' = [lpc EXCEPT ![t] = "rest"] \/ lpc' = [lpc EXCEPT ![t] = "steal"])
      BY <1>1, <2>0 DEF LRTypes
    <2>1b. /\ cursor[t] # t /\ queue[cursor[t]] # <<>>
           /\ lev' = [lev EXCEPT ![t] = Head(queue[cursor[t]])]
           /\ queue' = [queue EXCEPT ![cursor[t]] = Tail(queue[cursor[t]])]
           /\ idle' = [idle EXCEPT ![t] = 0]
      BY <2>1a DEF Steal, RunGoes
    <2>1. /\ v # t /\ queue[v] # <<>>
          /\ lev' = [lev EXCEPT ![t] = Head(queue[v])] /\ queue' = [queue EXCEPT ![v] = Tail(queue[v])]
          /\ idle' = [idle EXCEPT ![t] = 0]
      BY <1>3, <2>1b
    <2>2. Head(queue[v]) \in LFEvent /\ Tail(queue[v]) \in Seq(LFEvent)
      BY <1>1, <2>1 DEF LRTypes
    <2>3. LRTypes'
      BY <1>1, <1>4, <1>5, <1>6, <2>1, <2>2 DEF LRTypes
    <2>4. idle'[t] = 0
      BY <1>1, <2>1 DEF LRTypes
    <2>5. LRThread(t)'
      BY <1>1, <2>0, <2>4 DEF LRThread, LREmptyPC
    <2>6. \A u \in LFThread : u # t =>
            /\ lev'[u] = lev[u] /\ idle'[u] = idle[u] /\ allowance'[u] = allowance[u] /\ cursor'[u] = cursor[u]
            /\ queue[u] = <<>> => queue'[u] = <<>>
      BY <1>1, <1>4, <1>5, <2>1 DEF LRTypes
    <2>7. \A u \in LFThread : LRThread(u)'
      BY <2>0, <2>5, <2>6, LROthers
    <2>8. LRCount'
      BY <1>1, <1>2, <1>5, <2>0, LRStaysUp DEF Sleeping
    <2> QED
      BY <2>3, <2>7, <2>8 DEF LRInv
  <1>7. CASE lpc' # [lpc EXCEPT ![t] = "exec"]
    <2>0. PICK l \in {"rest", "steal"} : lpc' = [lpc EXCEPT ![t] = l]
      BY <1>7 DEF Steal, RunGoes
    <2>1. PICK i : i = (IF num[t] = 1 /\ idle[t] <= 2 * IdleCritical THEN idle[t] + 1 ELSE idle[t])
      OBVIOUS
    <2>2. lev' = lev /\ queue' = queue /\ idle' = [idle EXCEPT ![t] = i]
      BY <1>7, <2>1 DEF Steal, RunGoes
    <2>3. /\ idle[t] \in Nat /\ i \in Nat /\ (i = idle[t] \/ i = idle[t] + 1)
          /\ l = "steal" => i = idle[t]
      <3>1. idle[t] \in Nat
        BY <1>1 DEF LRTypes
      <3>2. l = "steal" => num[t] # 1
        BY <1>1, <1>7, <2>0 DEF Steal, RunGoes, LRTypes
      <3> QED
        BY <1>1, <2>1, <3>1, <3>2
    <2>4. LRTypes'
      BY <1>1, <1>4, <1>5, <2>0, <2>2, <2>3 DEF LRTypes
    <2>5. /\ lpc'[t] = l /\ idle'[t] = i /\ cursor'[t] \in LFThread
          /\ \A u \in LFThread : u # t => lpc'[u] = lpc[u] /\ idle'[u] = idle[u] /\ cursor'[u] = cursor[u]
      BY <1>1, <1>4, <2>0, <2>2 DEF LRTypes
    <2>6. LRThread(t)'
      <3>1. Skips(t)' <=> Skips(t)
        BY <1>5 DEF Skips
      <3>2. lev'[t] = NoEv /\ queue'[t] = queue[t]
        BY <1>2, <2>2
      <3>3. /\ lpc'[t] = "steal" /\ idle'[t] >= 1 => queue[t] = <<>>
            /\ lpc'[t] = "rest" /\ idle'[t] >= 2 => queue[t] = <<>>
        BY <1>2, <2>3, <2>5
      <3> QED
        BY <1>2, <2>0, <2>5, <3>1, <3>2, <3>3 DEF LRThread, LREmptyPC
    <2>7. \A u \in LFThread : LRThread(u)'
      BY <1>5, <2>2, <2>5, <2>6, LROthers
    <2>8. LRCount'
      BY <1>1, <1>2, <1>5, <2>0, <2>5, LRStaysUp DEF Sleeping
    <2> QED
      BY <2>4, <2>7, <2>8 DEF LRInv
  <1> QED
    BY <1>6, <1>7

\* An execution starts the count of failures anew, whatever the allowance is then.
LEMMA LRHandles == ASSUME LRInv, NEW t \in LFThread, Handle(t) PROVE LRInv'
  <1>1. LRTypes /\ LRThread(t) /\ LRCount /\ CriticalSize \in Nat
    BY LFRunTimeAssumption DEF LRInv
  <1>2. PICK a : a = (IF allowance[t] <= 0 THEN CriticalSize - Len(queue[t]) ELSE allowance[t] - 1)
    OBVIOUS
  <1>3. PICK plain \in {<<>>, <<Plain>>}, guarded \in {<<>>, <<Guarded>>} :
          queue' = [queue EXCEPT ![t] = queue[t] \o PushOrder(Again(lev[t]), plain, guarded, a)]
    BY <1>2 DEF Handle
  <1>4. /\ lpc[t] = "exec" /\ lpc' = [lpc EXCEPT ![t] = "wake"]
        /\ allowance' = [allowance EXCEPT ![t] = a] /\ lev' = [lev EXCEPT ![t] = NoEv]
        /\ idle' = idle /\ cursor' = cursor /\ flows' = flows /\ sleepers' = sleepers
    BY <1>2 DEF Handle, RunGoes, Kept
  <1>5. a \in Int
    BY <1>1, <1>2 DEF LRTypes
  <1>6. PushOrder(Again(lev[t]), plain, guarded, a) \in Seq(LFEvent)
    <2>0. <<>> \in Seq(LFEvent) /\ <<Plain>> \in Seq(LFEvent) /\ <<Guarded>> \in Seq(LFEvent)
      BY LREvents
    <2>1. plain \in Seq(LFEvent) /\ guarded \in Seq(LFEvent)
      BY <2>0
    <2>2. Again(lev[t]) \in Seq(LFEvent)
      <3>1. CASE lev[t] \in LFEvent
        BY <3>1 DEF Again
      <3>2. CASE lev[t] = NoEv
        BY <3>2, LREvents DEF Again
      <3> QED
        BY <1>1, <3>1, <3>2 DEF LRTypes
    <2> QED
      BY <2>1, <2>2 DEF PushOrder
  <1>7. LRTypes'
    <2>1. queue[t] \o PushOrder(Again(lev[t]), plain, guarded, a) \in Seq(LFEvent)
      BY <1>1, <1>6 DEF LRTypes
    <2> QED
      BY <1>1, <1>3, <1>4, <1>5, <2>1 DEF LRTypes
  <1>8. /\ lpc'[t] = "wake" /\ lev'[t] = NoEv
        /\ \A u \in LFThread : u # t =>
             /\ lpc'[u] = lpc[u] /\ lev'[u] = lev[u] /\ allowance'[u] = allowance[u]
             /\ queue'[u] = queue[u]
    BY <1>1, <1>3, <1>4 DEF LRTypes
  <1>9. LRThread(t)'
    BY <1>1, <1>4, <1>8 DEF LRThread, LREmptyPC
  <1>10. \A u \in LFThread : LRThread(u)'
    BY <1>4, <1>8, <1>9, LROthers
  <1>11. LRCount'
    BY <1>1, <1>4, <1>8, LRStaysUp DEF Sleeping
  <1> QED
    BY <1>7, <1>10, <1>11 DEF LRInv

\* A load puts a source into the queue of a thread that is awake.
LEMMA LRLoads == ASSUME LRInv, NEW t \in LFThread, Load(t) PROVE LRInv'
  <1>1. LRTypes /\ LRThread(t) /\ LRCount
    BY DEF LRInv
  <1>2. /\ lpc[t] = "load" /\ lpc' = [lpc EXCEPT ![t] = "loaded"] /\ flows' = flows + 1
        /\ lev' = lev /\ allowance' = allowance /\ idle' = idle /\ cursor' = cursor /\ sleepers' = sleepers
    BY DEF Load, RunGoes
  <1>3. PICK q \in Seq(LFEvent) : queue' = [queue EXCEPT ![t] = q]
    <2>1. queue[t] \in Seq(LFEvent) /\ Source(flows') \in LFEvent
      BY <1>1, <1>2, LREvents, SMTT(30) DEF LRTypes
    <2>2. Append(queue[t], Source(flows')) \in Seq(LFEvent)
      BY <2>1
    <2> QED
      BY <2>1, <2>2 DEF Load
  <1>4. LRTypes'
    <2>1. queue' \in [LFThread -> Seq(LFEvent)]
      BY <1>1, <1>3 DEF LRTypes
    <2>1a. flows \in Nat /\ lpc = [u \in LFThread |-> lpc[u]]
      BY <1>1 DEF LRTypes
    <2>2. lpc' = [u \in LFThread |-> lpc'[u]]
      BY <1>2, <2>1a
    <2>2a. flows' \in Nat
      BY <1>2, <2>1a
    <2> QED
      BY <1>1, <1>2, <2>1, <2>2, <2>2a DEF LRTypes
  <1>5. lpc'[t] = "loaded" /\ \A u \in LFThread : u # t => lpc'[u] = lpc[u] /\ queue'[u] = queue[u]
    BY <1>1, <1>2, <1>3 DEF LRTypes
  <1>6. LRThread(t)'
    <2>1. Skips(t)' <=> Skips(t)
      BY <1>2 DEF Skips
    <2> QED
      BY <1>1, <1>2, <1>5, <2>1 DEF LRThread, LREmptyPC
  <1>7. \A u \in LFThread : LRThread(u)'
    BY <1>2, <1>5, <1>6, LROthers
  <1>8. LRCount'
    BY <1>1, <1>2, <1>5, LRStaysUp DEF Sleeping
  <1> QED
    BY <1>4, <1>7, <1>8 DEF LRInv

\* A step of the deque or the hash table.
LEMMA LRStutter ==
  ASSUME LRInv, lpc' = lpc, cursor' = cursor, queue' = queue, lev' = lev, idle' = idle, allowance' = allowance,
         flows' = flows, sleepers' = sleepers
  PROVE  LRInv'
  <1>1. LRTypes' <=> LRTypes
    BY DEF LRTypes
  <1>2. \A t \in LFThread : LRThread(t)' <=> LRThread(t)
    BY DEF LRThread, Skips
  <1>3. LRCount' <=> LRCount
    BY DEF LRCount, LRSleepers, Sleeping
  <1> QED
    BY <1>1, <1>2, <1>3 DEF LRInv

\* Every step of the runtime keeps the invariant.
LEMMA LRNextInv == LRInv /\ LRNext => LRInv'
  <1> SUFFICES ASSUME LRInv, LRNext PROVE LRInv'
    OBVIOUS
  <1>1. CASE SoftLoad
    BY <1>1, LRStutter DEF SoftLoad
  <1>2. ASSUME NEW t \in LFThread, Step(t) \/ ExecKill(t) \/ SpuriousWake(t)
        PROVE  LRInv'
    BY <1>2, LRTurns, LRWakes, LRSleeps, LRWoken, LRPops, LRSteals, LRHandles, LRLoads DEF Step
  <1> QED
    BY <1>1, <1>2 DEF LRNext

\* When all but one sleep, each of them found nothing, and nobody has anything.
LEMMA LRInvSleepers == LRInv => SleepersCounted /\ OutOfEventsIsTrue
  <1> SUFFICES ASSUME LRInv PROVE SleepersCounted /\ OutOfEventsIsTrue
    OBVIOUS
  <1>1. SleepersCounted
    BY DEF LRInv, LRCount, LRSleepers, SleepersCounted
  <1>2. ASSUME NEW t \in LFThread, lpc[t] = "alone", sleepers + 1 = Threads
        PROVE  \A u \in LFThread : queue[u] = <<>> /\ lev[u] = NoEv
    <2>1. t \notin LRSleepers /\ LRSleepers \subseteq LFThread \ {t}
      BY <1>2 DEF LRSleepers, Sleeping
    <2>2. IsFiniteSet(LFThread \ {t}) /\ Cardinality(LFThread \ {t}) = Threads - 1
      BY LRFinite, FS_RemoveElement
    <2>3. Cardinality(LRSleepers) = Threads - 1
      BY <1>2, LRFinite, LFRunTimeAssumption DEF LRInv, LRCount
    <2>4. LRSleepers = LFThread \ {t}
      BY <2>1, <2>2, <2>3, FS_Subset
    <2>5. \A u \in LFThread : u = t \/ Sleeping(u)
      BY <2>4 DEF LRSleepers
    <2>6. \A u \in LFThread : lpc[u] \in LREmptyPC
      BY <1>2, <2>5 DEF Sleeping, LREmptyPC
    <2> QED
      BY <2>6 DEF LRInv, LRThread, LREmptyPC
  <1> QED
    BY <1>1, <1>2 DEF OutOfEventsIsTrue

-----------------------------------------------------------------------------
\* For any number of threads, and whatever events a node brings: _sleep_count is the
\* number of threads between incr_sleepers and decr_sleepers and never that of all of
\* them, and when a thread says "seem to be out of events to run" no queue holds an event
\* and no thread executes one (RunTimeThread::start, RunTime::incr_sleepers).
THEOREM SleepersCorrect == LFRSpec => []RunTimeSleepers
  <1> DEFINE Inv == part = "runtime" => LRInv
  <1>1. LFRInit => Inv
    BY LRInitInv DEF LFRInit
  <1>2. Inv /\ [LFRNext]_lfrvars => Inv'
    <2> SUFFICES ASSUME Inv, [LFRNext]_lfrvars, part' = "runtime" PROVE LRInv'
      OBVIOUS
    <2>1. part = "runtime" /\ (LRNext \/ lrvars' = lrvars)
      BY DEF LFRNext, lfrvars
    <2>2. CASE lrvars' = lrvars
      BY <2>1, <2>2, LRStutter DEF lrvars
    <2> QED
      BY <2>1, <2>2, LRNextInv
  <1>3. Inv => RunTimeSleepers
    BY LRInvSleepers DEF RunTimeSleepers
  <1> QED
    BY <1>1, <1>2, <1>3, PTL DEF LFRSpec

-----------------------------------------------------------------------------
(* The deque. *)

\* While the owner pops, _bottom is one less than the end of what the deque holds.
DqPopping == dpc[DqOwner] \in {"poptop", "popempty", "popcas", "poplast"}
DqEnd == IF DqPopping THEN bottom + 1 ELSE bottom
DqWindow == dqtop .. DqEnd - 1
DqItem(i) == DqGet(active, i)
DqIs(e) == \E x \in DqThread : \E k \in DOMAIN taken[x] : taken[x][k] = e

DqLocals == [t : Nat, a : Nat, e : Nat]

DqTypes ==
  /\ bottom \in Int /\ dqtop \in Nat /\ pushed \in Nat
  /\ active \in Nat \ {0} /\ active = Len(arrays)
  /\ dpc = [x \in DqThread |-> dpc[x]]
  /\ dreg \in [DqThread -> DqLocals]
  /\ taken \in [DqThread -> Seq(Nat)]

DqArrays ==
  /\ arrays \in Seq(Seq(Nat))
  /\ \A a \in 1 .. active : DqLen(a) >= 1

\* What the owner knows: there is room for what it pushes, and _top as it read it.
DqOwns ==
  LET n == DqLen(active)
      t == dreg[DqOwner].t
  IN  /\ dqtop <= DqEnd /\ DqEnd - dqtop <= n - 1
      /\ dpc[DqOwner] = "push" => t <= dqtop /\ bottom - t <= n - 1
      /\ dpc[DqOwner] = "put" => t <= dqtop /\ bottom - t < n - 1
      /\ dpc[DqOwner] = "publish" => /\ t <= dqtop /\ bottom - t < n - 1
                                     /\ DqItem(bottom) = pushed + 1
      /\ dpc[DqOwner] = "popempty" => dqtop = t /\ t = bottom + 1
      /\ dpc[DqOwner] = "popcas" => t = bottom /\ bottom <= dqtop
      /\ dpc[DqOwner] = "poplast" => t = bottom /\ dqtop = bottom + 1

\* What was pushed is held or was taken, once.
DqItems ==
  /\ \A i \in DqWindow : DqItem(i) \in 1 .. pushed /\ ~DqIs(DqItem(i))
  /\ \A i, j \in DqWindow : i < j => DqItem(i) < DqItem(j)
  /\ \A e \in 1 .. pushed : DqIs(e) \/ \E i \in DqWindow : DqItem(i) = e
  /\ \A x \in DqThread : \A k \in DOMAIN taken[x] : taken[x][k] \in 1 .. pushed
  /\ \A x, y \in DqThread : \A k \in DOMAIN taken[x], l \in DOMAIN taken[y] :
       taken[x][k] = taken[y][l] => x = y /\ k = l

DqCounted == IsFiniteSet(DqGot) /\ Cardinality(DqGot) + (DqEnd - dqtop) = pushed

\* Thieves take from the end where the oldest is.
DqOrdered ==
  \A x \in DqThief : \A k \in DOMAIN taken[x] :
    /\ \A i \in DqWindow : taken[x][k] < DqItem(i)
    /\ \A l \in DOMAIN taken[x] : k < l => taken[x][k] < taken[x][l]

\* What a thief has read is right as long as _top is what it read.
DqSafe(x) ==
  /\ dpc[x] \in {"bottom", "array", "get", "cas"} => dreg[x].t <= dqtop
  /\ dpc[x] \in {"array", "get", "cas"} /\ dreg[x].t = dqtop => dqtop < DqEnd
  /\ dpc[x] = "get" => /\ dreg[x].a \in 1 .. active
                       /\ dreg[x].t = dqtop => DqGet(dreg[x].a, dqtop) = DqItem(dqtop)
  /\ dpc[x] = "cas" /\ dreg[x].t = dqtop => dreg[x].e = DqItem(dqtop)

DqThieves == \A x \in DqThief : DqSafe(x)

DqInv == /\ DqTypes /\ DqArrays /\ DqOwns /\ DqItems /\ DqCounted /\ DqOrdered /\ DqThieves

-----------------------------------------------------------------------------
\* Two places less than n apart have entries of their own in an array of n.
LEMMA DqApart ==
  ASSUME NEW n \in Nat \ {0}, NEW i \in Int, NEW j \in Int, i # j, i - j < n, j - i < n
  PROVE  i % n # j % n
  <1> SUFFICES ASSUME i % n = j % n PROVE FALSE
    OBVIOUS
  <1> DEFINE d == (i \div n) - (j \div n)
  <1>1. i = (n * (i \div n)) + (i % n) /\ j = (n * (j \div n)) + (j % n)
    OBVIOUS
  <1>2. d \in Int /\ i \div n \in Int /\ j \div n \in Int /\ i % n \in Int
    OBVIOUS
  <1>3. i - j = n * d
    BY <1>1, <1>2
  <1> HIDE DEF d
  <1>4. d = 0 \/ d >= 1 \/ d <= -1
    BY <1>2
  <1>5. n * d = 0 \/ n * d >= n \/ n * d <= -n
    BY <1>2, <1>4
  <1> QED
    BY <1>3, <1>5

LEMMA DqArray ==
  ASSUME DqTypes, DqArrays, NEW a \in 1 .. active, NEW i \in Int
  PROVE  /\ arrays[a] \in Seq(Nat) /\ DqLen(a) \in Nat \ {0} /\ DOMAIN arrays[a] = 1 .. DqLen(a)
         /\ (i % DqLen(a)) + 1 \in 1 .. DqLen(a)
         /\ DqGet(a, i) \in Nat
  <1>1. arrays \in Seq(Seq(Nat)) /\ a \in 1 .. Len(arrays)
    BY DEF DqTypes, DqArrays
  <1>2. arrays[a] \in Seq(Nat)
    BY <1>1
  <1>3. DqLen(a) \in Nat \ {0} /\ DOMAIN arrays[a] = 1 .. DqLen(a)
    BY <1>2 DEF DqLen, DqArrays
  <1>4. (i % DqLen(a)) + 1 \in 1 .. DqLen(a)
    BY <1>3
  <1>5. DqGet(a, i) \in Nat
    BY <1>2, <1>3, <1>4 DEF DqGet, DqLen
  <1> QED
    BY <1>2, <1>3, <1>4, <1>5

LEMMA DqSized == DqInv => DqLen(active) \in Nat \ {0}
  <1> SUFFICES ASSUME DqInv PROVE DqLen(active) \in Nat \ {0}
    OBVIOUS
  <1>1. 0 \in Int /\ active \in 1 .. active /\ DqTypes /\ DqArrays
    BY DEF DqInv, DqTypes
  <1> QED
    BY <1>1, DqArray

LEMMA DqItemType == DqInv => \A i \in Int : DqItem(i) \in Nat
  <1> SUFFICES ASSUME DqInv, NEW i \in Int PROVE DqItem(i) \in Nat
    OBVIOUS
  <1>1. active \in 1 .. active /\ DqTypes /\ DqArrays
    BY DEF DqInv, DqTypes
  <1>2. DqGet(active, i) \in Nat
    BY <1>1, DqArray
  <1> QED
    BY <1>2 DEF DqItem

LEMMA DqOneMore ==
  ASSUME NEW c \in Int, NEW s \in Int, NEW m \in Int, c + s = m
  PROVE  (c + 1) + (s - 1) = m /\ c + (s + 1) = m + 1
  OBVIOUS

LEMMA DqEnds == DqTypes => DqEnd \in Int
  BY DEF DqTypes, DqEnd

\* Nothing changes for the elements.
LEMMA DqKeep ==
  ASSUME DqInv, dqtop' = dqtop, DqEnd' = DqEnd, pushed' = pushed, taken' = taken,
         \A i \in DqWindow : DqItem(i)' = DqItem(i)
  PROVE  DqItems' /\ DqCounted' /\ DqOrdered'
  <1>1. DqWindow' = DqWindow
    BY DEF DqWindow
  <1>2. \A e : DqIs(e)' <=> DqIs(e)
    BY DEF DqIs
  <1>3. DqGot' = DqGot
    BY DEF DqGot
  <1>4. DqItems'
    <2>1. \A i \in DqWindow' : DqItem(i)' \in 1 .. pushed' /\ ~DqIs(DqItem(i))'
      BY <1>1, <1>2 DEF DqInv, DqItems
    <2>2. \A i, j \in DqWindow' : i < j => DqItem(i)' < DqItem(j)'
      BY <1>1 DEF DqInv, DqItems
    <2>3. \A e \in 1 .. pushed' : DqIs(e)' \/ \E i \in DqWindow' : DqItem(i)' = e
      BY <1>1, <1>2 DEF DqInv, DqItems
    <2> QED
      BY <2>1, <2>2, <2>3 DEF DqInv, DqItems
  <1>5. DqCounted'
    BY <1>3 DEF DqInv, DqCounted
  <1>6. DqOrdered'
    BY <1>1 DEF DqInv, DqOrdered
  <1> QED
    BY <1>4, <1>5, <1>6

\* One more is taken: from the top, or by the owner from the bottom.
LEMMA DqTaken ==
  ASSUME DqTypes, NEW x \in DqThread, NEW v \in Nat, taken' = [taken EXCEPT ![x] = Append(@, v)]
  PROVE  /\ taken' \in [DqThread -> Seq(Nat)]
         /\ \A y \in DqThread \ {x} : taken'[y] = taken[y]
         /\ Len(taken[x]) + 1 \in DOMAIN taken'[x] /\ Len(taken[x]) + 1 \notin DOMAIN taken[x]
         /\ taken'[x][Len(taken[x]) + 1] = v
         /\ \A k : k \in DOMAIN taken'[x] <=> k \in DOMAIN taken[x] \/ k = Len(taken[x]) + 1
         /\ \A k \in DOMAIN taken[x] : taken'[x][k] = taken[x][k] /\ k < Len(taken[x]) + 1
  <1>1. taken[x] \in Seq(Nat) /\ taken'[x] = Append(taken[x], v)
    BY DEF DqTypes
  <1>2. taken' \in [DqThread -> Seq(Nat)] /\ \A y \in DqThread \ {x} : taken'[y] = taken[y]
    BY <1>1 DEF DqTypes
  <1>3. DOMAIN taken[x] = 1 .. Len(taken[x]) /\ DOMAIN taken'[x] = 1 .. Len(taken[x]) + 1
        /\ Len(taken[x]) \in Nat
    BY <1>1
  <1>4. taken'[x][Len(taken[x]) + 1] = v
    BY <1>1
  <1>5. \A k \in 1 .. Len(taken[x]) : taken'[x][k] = taken[x][k]
    BY <1>1
  <1> QED
    BY <1>2, <1>3, <1>4, <1>5

LEMMA DqTake ==
  ASSUME DqInv, NEW x \in DqThread, NEW p \in DqWindow, x \in DqThief => p = dqtop,
         taken' = [taken EXCEPT ![x] = Append(@, DqItem(p))],
         pushed' = pushed, dqtop' \in Int, DqEnd' \in Int,
         DqEnd' - dqtop' = (DqEnd - dqtop) - 1,
         \A i : i \in DqWindow' <=> i \in DqWindow /\ i # p,
         \A i \in DqWindow' : DqItem(i)' = DqItem(i)
  PROVE  DqItems' /\ DqCounted' /\ DqOrdered'
  <1> DEFINE v == DqItem(p)
             n == Len(taken[x]) + 1
  <1>1. v \in 1 .. pushed /\ ~DqIs(v) /\ v \in Nat
    BY DEF DqInv, DqItems, DqTypes
  <1> HIDE DEF v
  <1>2. taken' = [taken EXCEPT ![x] = Append(@, v)]
    BY DEF v
  <1>3. /\ \A y \in DqThread \ {x} : taken'[y] = taken[y]
        /\ n \in DOMAIN taken'[x] /\ n \notin DOMAIN taken[x]
        /\ taken'[x][n] = v
        /\ \A k : k \in DOMAIN taken'[x] <=> k \in DOMAIN taken[x] \/ k = n
        /\ \A k \in DOMAIN taken[x] : taken'[x][k] = taken[x][k] /\ k < n
    BY <1>1, <1>2, DqTaken DEF DqInv
  <1> HIDE DEF n
  <1>4. \A e : DqIs(e)' <=> DqIs(e) \/ e = v
    BY <1>3 DEF DqIs
  <1>5. DqWindow' \subseteq DqWindow /\ p \notin DqWindow' /\ DqWindow \subseteq DqWindow' \cup {p}
    OBVIOUS
  <1>6. \A i \in DqWindow : i # p => DqItem(i) # v
    <2>1. \A i, j \in DqWindow : i < j => DqItem(i) < DqItem(j)
      BY DEF DqInv, DqItems
    <2>2. \A i \in DqWindow : DqItem(i) \in 1 .. pushed
      BY DEF DqInv, DqItems
    <2>3. DqWindow \subseteq Int /\ pushed \in Nat
      BY DEF DqWindow, DqInv, DqTypes
    <2> QED
      BY <2>1, <2>2, <2>3 DEF v
  <1>7. DqItems'
    <2>1. \A i \in DqWindow' : DqItem(i)' \in 1 .. pushed' /\ ~DqIs(DqItem(i))'
      BY <1>4, <1>5, <1>6 DEF DqInv, DqItems
    <2>2. \A i, j \in DqWindow' : i < j => DqItem(i)' < DqItem(j)'
      BY <1>5 DEF DqInv, DqItems
    <2>3. \A e \in 1 .. pushed' : DqIs(e)' \/ \E i \in DqWindow' : DqItem(i)' = e
      BY <1>4, <1>5 DEF DqInv, DqItems, v
    <2>4. \A y \in DqThread : \A k \in DOMAIN taken'[y] : taken'[y][k] \in 1 .. pushed'
      BY <1>1, <1>3 DEF DqInv, DqItems
    <2>5. ASSUME NEW y \in DqThread, NEW z \in DqThread, NEW k \in DOMAIN taken'[y], NEW l \in DOMAIN taken'[z],
                 taken'[y][k] = taken'[z][l]
          PROVE  y = z /\ k = l
      <3>1. CASE y = x /\ k = n
        BY <1>1, <1>3, <2>5, <3>1 DEF DqIs
      <3>2. CASE z = x /\ l = n
        BY <1>1, <1>3, <2>5, <3>2 DEF DqIs
      <3>3. CASE (y # x \/ k # n) /\ (z # x \/ l # n)
        BY <1>3, <2>5, <3>3 DEF DqInv, DqItems
      <3> QED
        BY <3>1, <3>2, <3>3
    <2> QED
      BY <2>1, <2>2, <2>3, <2>4, <2>5 DEF DqItems
  <1>8. DqCounted'
    <2>1. DqGot' = DqGot \cup {<<x, n>>}
      <3>1. \A y \in DqThread : y # x => DOMAIN taken'[y] = DOMAIN taken[y]
        BY <1>3
      <3>2. DOMAIN taken'[x] = DOMAIN taken[x] \cup {n}
        BY <1>3
      <3> QED
        BY <3>1, <3>2 DEF DqGot
    <2>2. <<x, n>> \notin DqGot
      BY <1>3 DEF DqGot
    <2>3. IsFiniteSet(DqGot') /\ Cardinality(DqGot') = Cardinality(DqGot) + 1
      BY <2>1, <2>2, FS_AddElement DEF DqInv, DqCounted
    <2>4. Cardinality(DqGot) \in Nat /\ DqEnd \in Int /\ dqtop \in Int /\ pushed \in Nat
      BY FS_CardinalityType, DqEnds DEF DqInv, DqCounted, DqTypes
    <2>5. Cardinality(DqGot) + (DqEnd - dqtop) = pushed
      BY DEF DqInv, DqCounted
    <2>6. DqEnd - dqtop \in Int
      BY <2>4
    <2>7. (Cardinality(DqGot) + 1) + ((DqEnd - dqtop) - 1) = pushed
      BY <2>4, <2>5, <2>6, DqOneMore
    <2>8. Cardinality(DqGot') + (DqEnd' - dqtop') = pushed'
      BY <2>3, <2>7
    <2> QED
      BY <2>3, <2>8 DEF DqCounted
  <1>9. DqOrdered'
    <2>1. ASSUME NEW y \in DqThief, NEW k \in DOMAIN taken'[y]
          PROVE  /\ \A i \in DqWindow' : taken'[y][k] < DqItem(i)'
                 /\ \A l \in DOMAIN taken'[y] : k < l => taken'[y][k] < taken'[y][l]
      <3>1. CASE y # x
        BY <1>3, <1>5, <3>1 DEF DqInv, DqOrdered, DqThread
      <3>2. CASE y = x /\ k # n
        <4>1. k \in DOMAIN taken[x] /\ taken'[x][k] = taken[x][k]
          BY <1>3, <2>1, <3>2
        <4>2. \A i \in DqWindow : taken[x][k] < DqItem(i)
          BY <2>1, <3>2, <4>1 DEF DqInv, DqOrdered
        <4>3. taken[x][k] < v
          BY <4>2 DEF v
        <4> QED
          BY <1>3, <1>5, <2>1, <3>2, <4>1, <4>2, <4>3 DEF DqInv, DqOrdered
      <3>3. CASE y = x /\ k = n
        <4>1. \A i \in DqWindow : i # p => p < i
          BY <2>1, <3>3, DqEnds DEF DqWindow, DqInv, DqTypes
        <4>2. \A i \in DqWindow : i # p => v < DqItem(i)
          BY <4>1 DEF DqInv, DqItems, v
        <4>3. \A l \in DOMAIN taken'[x] : ~(n < l)
          <5>1. \A l \in DOMAIN taken'[x] : l \in Int
            <6>1. taken' \in [DqThread -> Seq(Nat)]
              BY <1>1, <1>2, DqTaken DEF DqInv
            <6> QED
              BY <6>1
          <5> QED
            BY <1>3, <5>1
        <4> QED
          BY <1>3, <1>5, <3>3, <4>2, <4>3
      <3> QED
        BY <3>1, <3>2, <3>3
    <2> QED
      BY <2>1 DEF DqOrdered
  <1> QED
    BY <1>7, <1>8, <1>9

\* One more is held.
LEMMA DqHold ==
  ASSUME DqInv, dqtop' = dqtop, DqEnd' = DqEnd + 1, pushed' = pushed + 1, taken' = taken,
         \A i \in DqWindow : DqItem(i)' = DqItem(i), \A i : i = DqEnd => DqItem(i)' = pushed + 1
  PROVE  DqItems' /\ DqCounted' /\ DqOrdered'
  <1>1. DqEnd \in Int /\ dqtop \in Int /\ dqtop <= DqEnd /\ pushed \in Nat
    BY DqEnds DEF DqInv, DqTypes, DqOwns
  <1>2. \A i : i \in DqWindow' <=> i \in DqWindow \/ i = DqEnd
    BY <1>1 DEF DqWindow
  <1>3. \A e : DqIs(e)' <=> DqIs(e)
    BY DEF DqIs
  <1>4. ~DqIs(pushed + 1)
    BY <1>1 DEF DqIs, DqInv, DqItems
  <1>5. \A i \in DqWindow : i \in Int /\ i < DqEnd
    BY <1>1 DEF DqWindow
  <1>6. DqItems'
    <2>1. \A i \in DqWindow' : DqItem(i)' \in 1 .. pushed' /\ ~DqIs(DqItem(i))'
      <3>1. \A i \in DqWindow : DqItem(i)' \in 1 .. pushed' /\ ~DqIs(DqItem(i))'
        BY <1>1, <1>3 DEF DqInv, DqItems
      <3>2. pushed + 1 \in 1 .. pushed'
        BY <1>1
      <3>3. \A i : i = DqEnd => ~DqIs(DqItem(i))'
        BY <1>3, <1>4
      <3> QED
        BY <1>2, <3>1, <3>2, <3>3
    <2>2. \A i, j \in DqWindow' : i < j => DqItem(i)' < DqItem(j)'
      <3>1. ASSUME NEW i \in DqWindow', NEW j \in DqWindow', i < j
            PROVE  DqItem(i)' < DqItem(j)'
        <4>0. i \in DqWindow
          BY <1>1, <1>2, <1>5, <3>1
        <4>1. DqItem(i) \in 1 .. pushed
          BY <4>0 DEF DqInv, DqItems
        <4>2. CASE j \in DqWindow
          BY <3>1, <4>0, <4>2 DEF DqInv, DqItems
        <4>3. CASE j = DqEnd
          BY <1>1, <4>0, <4>1, <4>3
        <4> QED
          BY <1>2, <4>2, <4>3
      <3> QED
        BY <3>1
    <2>3. \A e \in 1 .. pushed' : DqIs(e)' \/ \E i \in DqWindow' : DqItem(i)' = e
      BY <1>1, <1>2, <1>3 DEF DqInv, DqItems
    <2>4. \A y \in DqThread : \A k \in DOMAIN taken'[y] : taken'[y][k] \in 1 .. pushed'
      BY <1>1 DEF DqInv, DqItems
    <2> QED
      BY <2>1, <2>2, <2>3, <2>4 DEF DqInv, DqItems
  <1>7. DqCounted'
    <2>1. DqGot' = DqGot
      BY DEF DqGot
    <2>2. Cardinality(DqGot) \in Nat
      BY FS_CardinalityType DEF DqInv, DqCounted
    <2> QED
      BY <1>1, <2>1, <2>2 DEF DqInv, DqCounted
  <1>8. DqOrdered'
    <2>1. \A x \in DqThief : \A k \in DOMAIN taken[x] : taken[x][k] < pushed + 1
      BY <1>1 DEF DqInv, DqItems, DqThread
    <2> QED
      BY <1>2, <2>1 DEF DqInv, DqOrdered
  <1> QED
    BY <1>6, <1>7, <1>8
-----------------------------------------------------------------------------
\* What the steps do to the arrays.

\* An array is never changed but where the owner puts an element.
DqSame ==
  /\ active' >= active
  /\ \A a \in 1 .. active : \A i \in DqWindow : DqGet(a, i)' = DqGet(a, i)

LEMMA DqStill ==
  ASSUME DqInv, arrays' = arrays, active' = active
  PROVE  /\ DqArrays' /\ DqSame /\ DqLen(active)' = DqLen(active)
         /\ \A i : DqItem(i)' = DqItem(i)
  BY DEF DqArrays, DqSame, DqLen, DqGet, DqItem, DqInv, DqTypes

LEMMA DqPuts ==
  ASSUME DqInv, NEW o \in Nat, DqEnd = bottom, bottom - dqtop < DqLen(active),
         arrays' = [arrays EXCEPT ![active] = DqPut(@, bottom, o)], active' = active, dqtop' = dqtop
  PROVE  /\ DqArrays' /\ DqSame /\ DqLen(active)' = DqLen(active) /\ active' = Len(arrays')
         /\ \A i \in DqWindow : DqItem(i)' = DqItem(i)
         /\ \A i : i = bottom => DqItem(i)' = o
  <1> DEFINE n == DqLen(active)
             p == (bottom % n) + 1
  <1>1. active \in 1 .. active /\ bottom \in Int /\ dqtop \in Nat /\ arrays \in Seq(Seq(Nat)) /\ active = Len(arrays)
    BY DEF DqInv, DqTypes, DqArrays
  <1>2. arrays[active] \in Seq(Nat) /\ n \in Nat \ {0} /\ DOMAIN arrays[active] = 1 .. n /\ p \in 1 .. n
    BY <1>1, DqArray DEF DqInv
  <1>3. DqPut(arrays[active], bottom, o) = [arrays[active] EXCEPT ![p] = o]
    BY DEF DqPut, DqLen
  <1>4. /\ arrays' = [arrays EXCEPT ![active] = [arrays[active] EXCEPT ![p] = o]]
    BY <1>1, <1>3
  <1> HIDE DEF n, p
  <1>5. [arrays[active] EXCEPT ![p] = o] \in Seq(Nat) /\ Len([arrays[active] EXCEPT ![p] = o]) = n
    BY <1>2 DEF n, DqLen
  <1>6. /\ arrays' \in Seq(Seq(Nat)) /\ Len(arrays') = active
        /\ arrays'[active] = [arrays[active] EXCEPT ![p] = o]
        /\ \A a \in 1 .. active : a # active => arrays'[a] = arrays[a]
    <2>1. PICK row : row = [arrays[active] EXCEPT ![p] = o]
      OBVIOUS
    <2>2. row \in Seq(Nat) /\ active \in 1 .. Len(arrays) /\ arrays' = [arrays EXCEPT ![active] = row]
      BY <1>1, <1>4, <1>5, <2>1
    <2>3. /\ [arrays EXCEPT ![active] = row] \in Seq(Seq(Nat))
          /\ Len([arrays EXCEPT ![active] = row]) = Len(arrays)
          /\ \A a \in 1 .. Len(arrays) : [arrays EXCEPT ![active] = row][a] = IF a = active THEN row ELSE arrays[a]
      BY <1>1, <2>2, ExceptSeq
    <2>4. \A a \in 1 .. active : arrays'[a] = IF a = active THEN row ELSE arrays[a]
      BY <1>1, <2>2, <2>3
    <2> QED
      BY <1>1, <2>1, <2>2, <2>3, <2>4
  <1>7. \A a \in 1 .. active : DqLen(a)' = DqLen(a)
    BY <1>5, <1>6 DEF DqLen, n
  <1>8. DqArrays'
    BY <1>6, <1>7 DEF DqArrays, DqInv
  <1>9. ASSUME NEW i \in DqWindow
        PROVE  DqItem(i)' = DqItem(i)
    <2>1. i \in Int /\ i # bottom /\ i - bottom < n /\ bottom - i < n
      BY <1>1, <1>2 DEF DqWindow, n
    <2>2. (i % n) # (bottom % n)
      BY <1>1, <1>2, <2>1, DqApart
    <2>3. (i % n) + 1 \in 1 .. n /\ (i % n) + 1 # p
      <3>1. i % n \in 0 .. n - 1 /\ bottom % n \in 0 .. n - 1
        BY <1>1, <1>2, <2>1
      <3> QED
        BY <1>2, <2>2, <3>1 DEF p
    <2>4. DqItem(i) = arrays[active][(i % n) + 1]
      BY DEF DqItem, DqGet, n
    <2>5. DqItem(i)' = arrays'[active][(i % n) + 1]
      BY <1>1, <1>7 DEF DqItem, DqGet, n
    <2> QED
      BY <1>2, <1>6, <2>3, <2>4, <2>5
  <1>10. ASSUME NEW a \in 1 .. active, NEW i \in DqWindow
         PROVE  DqGet(a, i)' = DqGet(a, i)
    <2>1. CASE a = active
      BY <1>9, <2>1 DEF DqItem
    <2>2. CASE a # active
      BY <1>6, <2>2 DEF DqGet, DqLen
    <2> QED
      BY <2>1, <2>2
  <1>11. ASSUME NEW i, i = bottom
         PROVE  DqItem(i)' = o
    <2>1. DqItem(i)' = arrays'[active][(i % n) + 1]
      BY <1>1, <1>7 DEF DqItem, DqGet, n
    <2> QED
      BY <1>2, <1>6, <1>11, <2>1 DEF p
  <1> QED
    BY <1>1, <1>6, <1>7, <1>8, <1>9, <1>10, <1>11 DEF DqSame

LEMMA DqGrows ==
  ASSUME DqInv, DqEnd = bottom, NEW q \in Nat, q <= dqtop, bottom - q <= DqLen(active) - 1,
         arrays' = Append(arrays, DqGrow(active, bottom, q)), active' = active + 1, dqtop' = dqtop
  PROVE  /\ DqArrays' /\ DqSame /\ DqLen(active)' = 2 * DqLen(active) /\ active' = Len(arrays')
         /\ \A i \in DqWindow : DqItem(i)' = DqItem(i)
  <1> DEFINE n == 2 * DqLen(active)
             g == DqGrow(active, bottom, q)
  <1>1. active \in 1 .. active /\ bottom \in Int /\ dqtop \in Nat /\ arrays \in Seq(Seq(Nat)) /\ active = Len(arrays)
    BY DEF DqInv, DqTypes, DqArrays
  <1>2. n \in Nat \ {0} /\ DqLen(active) \in Nat \ {0} /\ \A i \in Int : DqGet(active, i) \in Nat
    <2>1. DqLen(active) \in Nat \ {0} /\ \A i \in Int : DqGet(active, i) \in Nat
      BY <1>1, DqArray DEF DqInv
    <2>2. PICK m \in Nat \ {0} : m = DqLen(active)
      BY <2>1
    <2>3. 2 * m \in Nat \ {0}
      OBVIOUS
    <2> QED
      BY <2>1, <2>2, <2>3
  <1>3. g = [j \in 1 .. n |-> IF \E i \in q .. bottom - 1 : i % n = j - 1
                              THEN DqGet(active, CHOOSE i \in q .. bottom - 1 : i % n = j - 1) ELSE Empty]
    BY DEF DqGrow
  <1> HIDE DEF n, g
  <1>4. ASSUME NEW j \in 1 .. n, NEW i \in q .. bottom - 1, i % n = j - 1
        PROVE  g[j] = DqGet(active, i)
    <2>1. PICK k : k = CHOOSE i2 \in q .. bottom - 1 : i2 % n = j - 1
      OBVIOUS
    <2>2. k \in q .. bottom - 1 /\ k % n = j - 1
      BY <1>4, <2>1
    <2>3. k = i
      <3>1. k \in Int /\ i \in Int /\ k - i < n /\ i - k < n /\ k % n = i % n
        <4>1. bottom - q < n
          <5>1. \A m \in Nat \ {0} : bottom - q <= m - 1 => bottom - q < 2 * m
            BY <1>1
          <5> QED
            BY <1>2, <5>1 DEF n
        <4>2. k % n = i % n
          BY <1>4, <2>2
        <4>3. k \in Int /\ i \in Int /\ k - i <= bottom - q /\ i - k <= bottom - q
          BY <1>1, <2>2
        <4>4. k - i < n /\ i - k < n
          <5>1. \A u, v, w \in Int : u <= v /\ v < w => u < w
            OBVIOUS
          <5>2. k - i \in Int /\ i - k \in Int /\ bottom - q \in Int /\ n \in Int
            BY <1>1, <1>2, <4>3
          <5> QED
            BY <4>1, <4>3, <5>1, <5>2
        <4> QED
          BY <4>2, <4>3, <4>4
      <3> QED
        BY <1>2, <3>1, DqApart
    <2> QED
      BY <1>3, <1>4, <2>1, <2>3
  <1>5. g \in [1 .. n -> Nat]
    <2>1. ASSUME NEW j \in 1 .. n
          PROVE  g[j] \in Nat
      <3>1. CASE \E i \in q .. bottom - 1 : i % n = j - 1
        <4>1. PICK i \in q .. bottom - 1 : i % n = j - 1
          BY <3>1
        <4>2. i \in Int
          BY <1>1
        <4> QED
          BY <1>2, <1>4, <4>1, <4>2
      <3>2. CASE ~\E i \in q .. bottom - 1 : i % n = j - 1
        BY <1>3, <3>2 DEF Empty
      <3> QED
        BY <3>1, <3>2
    <2> QED
      BY <1>3, <2>1
  <1>6. g \in Seq(Nat) /\ Len(g) = n
    BY <1>2, <1>5, SeqDef, SMTT(30)
  <1>7. /\ arrays' \in Seq(Seq(Nat)) /\ Len(arrays') = active + 1
        /\ arrays'[active + 1] = g
        /\ \A a \in 1 .. active : arrays'[a] = arrays[a]
    BY <1>1, <1>6 DEF g
  <1>8. \A a \in 1 .. active : DqLen(a)' = DqLen(a)
    BY <1>7 DEF DqLen
  <1>9. DqLen(active)' = n
    BY <1>6, <1>7 DEF DqLen
  <1>10. DqArrays'
    <2>1. ASSUME NEW a \in 1 .. active'
          PROVE  DqLen(a)' >= 1
      <3>1. a \in 1 .. active \/ a = active + 1
        BY <1>1, <2>1
      <3>2. CASE a \in 1 .. active
        BY <1>8, <3>2 DEF DqInv, DqArrays
      <3>3. CASE a = active + 1
        BY <1>2, <1>6, <1>7, <3>3 DEF DqLen
      <3> QED
        BY <3>1, <3>2, <3>3
    <2> QED
      BY <1>7, <2>1 DEF DqArrays
  <1>11. ASSUME NEW i \in DqWindow
         PROVE  DqItem(i)' = DqItem(i)
    <2>1. i \in q .. bottom - 1 /\ i \in Int
      BY <1>1 DEF DqWindow
    <2>2. PICK m : m = (i % n) + 1
      OBVIOUS
    <2>3. m \in 1 .. n /\ i % n = m - 1
      BY <1>2, <2>1, <2>2
    <2>4. DqItem(i)' = g[m]
      BY <1>7, <1>9, <2>2 DEF DqItem, DqGet
    <2> QED
      BY <1>4, <2>1, <2>3, <2>4 DEF DqItem
  <1>12. \A a \in 1 .. active : \A i \in DqWindow : DqGet(a, i)' = DqGet(a, i)
    BY <1>7, <1>8 DEF DqGet
  <1> QED
    BY <1>1, <1>7, <1>9, <1>10, <1>11, <1>12 DEF DqSame, n
-----------------------------------------------------------------------------
\* A thief that does not move keeps what it knows.
LEMMA DqRests ==
  ASSUME DqInv, NEW x \in DqThief, dpc'[x] = dpc[x], dreg'[x] = dreg[x],
         dqtop' \in Nat, dqtop' >= dqtop, dqtop' = dqtop /\ dqtop < DqEnd => dqtop < DqEnd',
         active' \in Nat, DqSame, \A i \in DqWindow : dqtop' = dqtop => DqItem(i)' = DqItem(i)
  PROVE  DqSafe(x)'
  <1>1. DqSafe(x) /\ dqtop \in Nat /\ DqEnd \in Int /\ active \in Nat /\ dreg[x] \in DqLocals /\ active' >= active
    BY DqEnds DEF DqInv, DqThieves, DqTypes, DqThread, DqSame
  <1>2. dreg[x].t \in Nat /\ dreg[x].a \in Nat
    BY <1>1 DEF DqLocals
  <1>3. dreg[x].t <= dqtop /\ dreg[x].t = dqtop' => dqtop' = dqtop
    BY <1>1, <1>2
  <1>4. dqtop' = dqtop /\ dqtop < DqEnd => dqtop \in DqWindow
    BY <1>1 DEF DqWindow
  <1>5. dpc[x] \in {"bottom", "array", "get", "cas"} => dreg[x].t <= dqtop'
    BY <1>1, <1>2 DEF DqSafe
  <1>6. dpc[x] \in {"array", "get", "cas"} /\ dreg[x].t = dqtop' => dqtop < DqEnd /\ dqtop' = dqtop /\ dqtop' < DqEnd'
    BY <1>1, <1>2, <1>3 DEF DqSafe
  <1>7. dpc[x] = "get" => dreg[x].a \in 1 .. active /\ dreg[x].a \in 1 .. active'
    BY <1>1, <1>2 DEF DqSafe
  <1>8. dpc[x] = "get" /\ dreg[x].t = dqtop' => DqGet(dreg[x].a, dqtop)' = DqItem(dqtop)'
    BY <1>1, <1>4, <1>6, <1>7 DEF DqSafe, DqSame
  <1>9. dpc[x] = "cas" /\ dreg[x].t = dqtop' => dreg[x].e = DqItem(dqtop)'
    BY <1>1, <1>4, <1>6 DEF DqSafe
  <1> QED
    BY <1>5, <1>6, <1>7, <1>8, <1>9 DEF DqSafe
-----------------------------------------------------------------------------
\* The steps of the owner.  Thieves have not moved.

LEMMA DqThreads == DqOwner \in DqThread /\ DqThief \subseteq DqThread /\ DqOwner \notin DqThief
  BY LFDequeAssumption DEF DqOwner, DqThread

\* The owner goes to l, and notes n as _top.
LEMMA DqOwnerGoes ==
  ASSUME DqTypes, NEW l, dpc' = [dpc EXCEPT ![DqOwner] = l]
  PROVE  /\ dpc' = [x \in DqThread |-> dpc'[x]] /\ dpc'[DqOwner] = l
         /\ \A x \in DqThief : dpc'[x] = dpc[x]
  BY DqThreads DEF DqTypes

LEMMA DqReads ==
  ASSUME DqTypes, ReadTop(DqOwner)
  PROVE  /\ dreg' \in [DqThread -> DqLocals] /\ dreg'[DqOwner].t = dqtop
         /\ \A x \in DqThief : dreg'[x] = dreg[x]
  <1>1. /\ DqOwner \in DqThread /\ dreg[DqOwner] \in DqLocals /\ dqtop \in Nat
    BY DqThreads DEF DqTypes
  <1>2. [dreg[DqOwner] EXCEPT !.t = dqtop] \in DqLocals /\ [dreg[DqOwner] EXCEPT !.t = dqtop].t = dqtop
    BY <1>1 DEF DqLocals
  <1>3. dreg' = [dreg EXCEPT ![DqOwner] = [dreg[DqOwner] EXCEPT !.t = dqtop]]
    BY DEF ReadTop
  <1> QED
    BY <1>1, <1>2, <1>3, DqThreads DEF DqTypes

\* What follows for a step of the owner that takes and pushes nothing.
LEMMA DqOwnerKeeps ==
  ASSUME DqInv, dqtop' = dqtop, DqEnd' = DqEnd, pushed' = pushed, taken' = taken,
         active' \in Nat, DqSame, \A i \in DqWindow : DqItem(i)' = DqItem(i),
         \A x \in DqThief : dpc'[x] = dpc[x] /\ dreg'[x] = dreg[x]
  PROVE  DqItems' /\ DqCounted' /\ DqOrdered' /\ DqThieves'
  <1>1. DqItems' /\ DqCounted' /\ DqOrdered'
    BY DqKeep
  <1>2. dqtop' \in Nat /\ dqtop' >= dqtop
    BY DEF DqInv, DqTypes
  <1>3. \A x \in DqThief : DqSafe(x)'
    BY <1>2, DqRests
  <1> QED
    BY <1>1, <1>3 DEF DqThieves

LEMMA DqPushStart ==
  ASSUME DqInv, PushStart
  PROVE  DqInv'
  <1>1. /\ dpc[DqOwner] = "idle" /\ dpc' = [dpc EXCEPT ![DqOwner] = "push"] /\ ReadTop(DqOwner)
        /\ bottom' = bottom /\ dqtop' = dqtop /\ arrays' = arrays /\ active' = active
        /\ taken' = taken /\ pushed' = pushed
    BY DEF PushStart, DqGo
  <1>2. /\ dpc' = [x \in DqThread |-> dpc'[x]] /\ dpc'[DqOwner] = "push"
        /\ \A x \in DqThief : dpc'[x] = dpc[x]
    BY <1>1, DqOwnerGoes DEF DqInv
  <1>3. /\ dreg' \in [DqThread -> DqLocals] /\ dreg'[DqOwner].t = dqtop
        /\ \A x \in DqThief : dreg'[x] = dreg[x]
    BY <1>1, DqReads DEF DqInv
  <1>4. DqTypes'
    BY <1>1, <1>2, <1>3 DEF DqInv, DqTypes
  <1>5. /\ DqArrays' /\ DqSame /\ DqLen(active)' = DqLen(active)
        /\ \A i : DqItem(i)' = DqItem(i)
    BY <1>1, DqStill
  <1>6. DqEnd' = DqEnd
    BY <1>1, <1>2 DEF DqEnd, DqPopping
  <1>7. DqItems' /\ DqCounted' /\ DqOrdered' /\ DqThieves'
    BY <1>1, <1>2, <1>3, <1>5, <1>6, DqOwnerKeeps DEF DqInv, DqTypes
  <1>8. DqOwns'
    BY <1>1, <1>2, <1>3, <1>5, <1>6, DqSized DEF DqInv, DqOwns, DqTypes, DqEnd, DqPopping
  <1> QED
    BY <1>4, <1>5, <1>7, <1>8 DEF DqInv

LEMMA DqPushGrow ==
  ASSUME DqInv, PushGrow
  PROVE  DqInv'
  <1> DEFINE q == dreg[DqOwner].t
  <1>1. /\ dpc[DqOwner] = "push" /\ dpc' = [dpc EXCEPT ![DqOwner] = "put"]
        /\ bottom' = bottom /\ dqtop' = dqtop /\ dreg' = dreg /\ taken' = taken /\ pushed' = pushed
        /\ arrays' = Append(arrays, DqGrow(active, bottom, q)) /\ active' = active + 1
    BY DEF PushGrow, DqGo
  <1>2. /\ dpc' = [x \in DqThread |-> dpc'[x]] /\ dpc'[DqOwner] = "put"
        /\ \A x \in DqThief : dpc'[x] = dpc[x]
    BY <1>1, DqOwnerGoes DEF DqInv
  <1>3. DqEnd = bottom /\ DqEnd' = bottom
    BY <1>1, <1>2 DEF DqEnd, DqPopping
  <1>4. q \in Nat /\ q <= dqtop /\ bottom - q <= DqLen(active) - 1
    BY <1>1, DqThreads DEF DqInv, DqTypes, DqLocals, DqOwns
  <1>5. /\ DqArrays' /\ DqSame /\ DqLen(active)' = 2 * DqLen(active) /\ active' = Len(arrays')
        /\ \A i \in DqWindow : DqItem(i)' = DqItem(i)
    BY <1>1, <1>3, <1>4, DqGrows
  <1>6. DqTypes'
    BY <1>1, <1>2, <1>5 DEF DqInv, DqTypes
  <1>7. DqItems' /\ DqCounted' /\ DqOrdered' /\ DqThieves'
    BY <1>1, <1>2, <1>3, <1>5, <1>6, DqOwnerKeeps DEF DqTypes
  <1>8. DqOwns'
    <2>1. PICK m \in Nat \ {0} : m = DqLen(active)
      BY DqSized
    <2>2. dqtop <= bottom /\ bottom \in Int /\ dqtop \in Nat /\ bottom - q <= m - 1
      BY <1>3, <1>4, <2>1 DEF DqInv, DqTypes, DqOwns
    <2>3. bottom - q < 2 * m - 1 /\ bottom - dqtop <= 2 * m - 1
      BY <1>4, <2>2
    <2>4. DqLen(active)' = 2 * m
      BY <1>5, <2>1
    <2> QED
      BY <1>1, <1>2, <1>3, <1>4, <2>2, <2>3, <2>4 DEF DqOwns
  <1> QED
    BY <1>5, <1>6, <1>7, <1>8 DEF DqInv
LEMMA DqPushPut ==
  ASSUME DqInv, PushPut
  PROVE  DqInv'
  <1> DEFINE q == dreg[DqOwner].t
  <1>1. /\ dpc[DqOwner] \in {"push", "put"} /\ dpc' = [dpc EXCEPT ![DqOwner] = "publish"]
        /\ bottom' = bottom /\ dqtop' = dqtop /\ dreg' = dreg /\ taken' = taken /\ pushed' = pushed
        /\ arrays' = [arrays EXCEPT ![active] = DqPut(@, bottom, pushed + 1)] /\ active' = active
    BY DEF PushPut
  <1>2. /\ dpc' = [x \in DqThread |-> dpc'[x]] /\ dpc'[DqOwner] = "publish"
        /\ \A x \in DqThief : dpc'[x] = dpc[x]
    BY <1>1, DqOwnerGoes DEF DqInv
  <1>3. DqEnd = bottom /\ DqEnd' = bottom
    BY <1>1, <1>2 DEF DqEnd, DqPopping
  <1>4. q <= dqtop /\ bottom - q < DqLen(active) - 1
    BY DEF PushPut, DqInv, DqOwns
  <1>5. pushed + 1 \in Nat /\ bottom - dqtop < DqLen(active)
    BY <1>3, DqSized DEF DqInv, DqTypes, DqOwns
  <1>6. /\ DqArrays' /\ DqSame /\ DqLen(active)' = DqLen(active) /\ active' = Len(arrays')
        /\ \A i \in DqWindow : DqItem(i)' = DqItem(i)
        /\ \A i : i = bottom => DqItem(i)' = pushed + 1
    BY <1>1, <1>3, <1>5, DqPuts
  <1>7. DqTypes'
    BY <1>1, <1>2, <1>6 DEF DqInv, DqTypes
  <1>8. DqItems' /\ DqCounted' /\ DqOrdered' /\ DqThieves'
    BY <1>1, <1>2, <1>3, <1>6, <1>7, DqOwnerKeeps DEF DqTypes
  <1>9. DqOwns'
    BY <1>1, <1>2, <1>3, <1>4, <1>6 DEF DqOwns, DqInv
  <1> QED
    BY <1>6, <1>7, <1>8, <1>9 DEF DqInv

LEMMA DqPushPublish ==
  ASSUME DqInv, PushPublish
  PROVE  DqInv'
  <1> DEFINE q == dreg[DqOwner].t
  <1>1. /\ dpc[DqOwner] = "publish" /\ dpc' = [dpc EXCEPT ![DqOwner] = "idle"]
        /\ bottom' = bottom + 1 /\ dqtop' = dqtop /\ dreg' = dreg /\ taken' = taken /\ pushed' = pushed + 1
        /\ arrays' = arrays /\ active' = active
    BY DEF PushPublish, DqGo
  <1>2. /\ dpc' = [x \in DqThread |-> dpc'[x]] /\ dpc'[DqOwner] = "idle"
        /\ \A x \in DqThief : dpc'[x] = dpc[x]
    BY <1>1, DqOwnerGoes DEF DqInv
  <1>3. DqEnd = bottom /\ DqEnd' = DqEnd + 1 /\ dqtop \in Nat /\ bottom \in Int /\ dqtop <= bottom
    BY <1>1, <1>2 DEF DqEnd, DqPopping, DqInv, DqTypes, DqOwns
  <1>4. /\ DqArrays' /\ DqSame /\ DqLen(active)' = DqLen(active)
        /\ \A i : DqItem(i)' = DqItem(i)
    BY <1>1, DqStill
  <1>5. DqTypes'
    BY <1>1, <1>2, <1>4 DEF DqInv, DqTypes
  <1>6. \A i : i = DqEnd => DqItem(i)' = pushed + 1
    BY <1>1, <1>3, <1>4 DEF DqInv, DqOwns
  <1>7. DqItems' /\ DqCounted' /\ DqOrdered'
    BY <1>1, <1>3, <1>4, <1>6, DqHold
  <1>8. DqThieves'
    <2>1. dqtop' \in Nat /\ dqtop' >= dqtop /\ active' \in Nat
          /\ (dqtop' = dqtop /\ dqtop < DqEnd => dqtop < DqEnd')
      BY <1>1, <1>3 DEF DqInv, DqTypes
    <2>2. \A x \in DqThief : DqSafe(x)'
      BY <1>1, <1>2, <1>4, <2>1, DqRests
    <2> QED
      BY <2>2 DEF DqThieves
  <1>9. DqOwns'
    <2>1. bottom - q < DqLen(active) - 1 /\ q <= dqtop /\ q \in Nat
      BY <1>1, DqThreads DEF DqInv, DqOwns, DqTypes, DqLocals
    <2>2. dqtop' <= DqEnd' /\ DqEnd' - dqtop' <= DqLen(active) - 1
      BY <1>1, <1>3, <2>1, DqSized
    <2> QED
      BY <1>2, <1>4, <2>2 DEF DqOwns
  <1> QED
    BY <1>4, <1>5, <1>7, <1>8, <1>9 DEF DqInv

LEMMA DqPopReserve ==
  ASSUME DqInv, PopReserve
  PROVE  DqInv'
  <1>1. /\ dpc[DqOwner] = "idle" /\ dpc' = [dpc EXCEPT ![DqOwner] = "poptop"]
        /\ bottom' = bottom - 1 /\ dqtop' = dqtop /\ dreg' = dreg /\ taken' = taken /\ pushed' = pushed
        /\ arrays' = arrays /\ active' = active
    BY DEF PopReserve, DqGo
  <1>2. /\ dpc' = [x \in DqThread |-> dpc'[x]] /\ dpc'[DqOwner] = "poptop"
        /\ \A x \in DqThief : dpc'[x] = dpc[x]
    BY <1>1, DqOwnerGoes DEF DqInv
  <1>3. bottom \in Int /\ DqEnd = bottom /\ DqEnd' = bottom
    BY <1>1, <1>2 DEF DqEnd, DqPopping, DqInv, DqTypes
  <1>4. /\ DqArrays' /\ DqSame /\ DqLen(active)' = DqLen(active)
        /\ \A i : DqItem(i)' = DqItem(i)
    BY <1>1, DqStill
  <1>5. DqTypes'
    BY <1>1, <1>2, <1>3 DEF DqInv, DqTypes
  <1>6. DqItems' /\ DqCounted' /\ DqOrdered' /\ DqThieves'
    BY <1>1, <1>2, <1>3, <1>4, <1>5, DqOwnerKeeps DEF DqTypes
  <1>7. DqOwns'
    BY <1>1, <1>2, <1>3, <1>4 DEF DqInv, DqOwns
  <1> QED
    BY <1>4, <1>5, <1>6, <1>7 DEF DqInv
\* The owner takes the last but one without a compare-and-swap: no thief can be
\* so far, as _bottom is already lower.
LEMMA DqPopTop ==
  ASSUME DqInv, PopTop
  PROVE  DqInv'
  <1> DEFINE to == IF bottom - dqtop < 0 THEN "popempty" ELSE IF bottom - dqtop > 0 THEN "idle" ELSE "popcas"
  <1>1. /\ dpc[DqOwner] = "poptop" /\ dpc' = [dpc EXCEPT ![DqOwner] = to] /\ ReadTop(DqOwner)
        /\ bottom' = bottom /\ dqtop' = dqtop /\ pushed' = pushed
        /\ arrays' = arrays /\ active' = active
        /\ IF bottom - dqtop > 0 THEN taken' = [taken EXCEPT ![DqOwner] = Append(@, DqItem(bottom))] ELSE taken' = taken
    BY DEF PopTop, DqGo, DqTakes, DqItem
  <1>2. /\ dpc' = [x \in DqThread |-> dpc'[x]] /\ dpc'[DqOwner] = to
        /\ \A x \in DqThief : dpc'[x] = dpc[x]
    BY <1>1, DqOwnerGoes DEF DqInv
  <1>3. /\ dreg' \in [DqThread -> DqLocals] /\ dreg'[DqOwner].t = dqtop
        /\ \A x \in DqThief : dreg'[x] = dreg[x]
    BY <1>1, DqReads DEF DqInv
  <1>4. /\ bottom \in Int /\ dqtop \in Nat /\ DqEnd = bottom + 1 /\ dqtop <= bottom + 1
        /\ DqEnd' = IF bottom - dqtop > 0 THEN bottom ELSE bottom + 1
    BY <1>1, <1>2 DEF DqEnd, DqPopping, DqInv, DqTypes, DqOwns
  <1>5. /\ DqArrays' /\ DqSame /\ DqLen(active)' = DqLen(active)
        /\ \A i : DqItem(i)' = DqItem(i)
    BY <1>1, DqStill
  <1>6. CASE bottom - dqtop > 0
    <2>1. bottom \in DqWindow /\ DqItem(bottom) \in Nat
      <3>1. bottom \in DqWindow
        BY <1>4, <1>6 DEF DqWindow
      <3> QED
        BY <1>4, <3>1, DqItemType
    <2>2. taken' = [taken EXCEPT ![DqOwner] = Append(@, DqItem(bottom))]
      BY <1>1, <1>6
    <2>3. taken' \in [DqThread -> Seq(Nat)]
      BY <2>1, <2>2, DqTaken, DqThreads DEF DqInv
    <2>4. DqTypes'
      BY <1>1, <1>2, <1>3, <2>3 DEF DqInv, DqTypes
    <2>5. DqItems' /\ DqCounted' /\ DqOrdered'
      <3>1. \A i : i \in DqWindow' <=> i \in DqWindow /\ i # bottom
        BY <1>1, <1>4, <1>6 DEF DqWindow
      <3>2. dqtop' \in Int /\ DqEnd' \in Int /\ DqEnd' - dqtop' = (DqEnd - dqtop) - 1
        BY <1>1, <1>4, <1>6
      <3> QED
        BY <1>1, <1>5, <2>1, <2>2, <3>1, <3>2, DqThreads, DqTake
    <2>6. DqThieves'
      <3>1. dqtop' \in Nat /\ dqtop' >= dqtop /\ active' \in Nat
            /\ (dqtop' = dqtop /\ dqtop < DqEnd => dqtop < DqEnd')
        BY <1>1, <1>4, <1>6 DEF DqInv, DqTypes
      <3>2. \A x \in DqThief : DqSafe(x)'
        BY <1>2, <1>3, <1>5, <3>1, DqRests
      <3> QED
        BY <3>2 DEF DqThieves
    <2>7. DqOwns'
      <3>1. dqtop' <= DqEnd' /\ DqEnd' - dqtop' <= DqLen(active) - 1
        BY <1>1, <1>4, <1>6, DqSized DEF DqInv, DqOwns
      <3>2. dpc'[DqOwner] = "idle"
        BY <1>2, <1>4, <1>6
      <3> QED
        BY <1>5, <3>1, <3>2 DEF DqOwns
    <2> QED
      BY <1>5, <2>4, <2>5, <2>6, <2>7 DEF DqInv
  <1>7. CASE ~(bottom - dqtop > 0)
    <2>1. taken' = taken /\ DqEnd' = DqEnd
      BY <1>1, <1>4, <1>7
    <2>2. DqTypes'
      BY <1>1, <1>2, <1>3, <2>1 DEF DqInv, DqTypes
    <2>3. DqItems' /\ DqCounted' /\ DqOrdered' /\ DqThieves'
      BY <1>1, <1>2, <1>3, <1>5, <2>1, <2>2, DqOwnerKeeps DEF DqTypes
    <2>4. DqOwns'
      <3>1. dqtop' <= DqEnd' /\ DqEnd' - dqtop' <= DqLen(active) - 1
        BY <1>1, <2>1 DEF DqInv, DqOwns
      <3>2. (dpc'[DqOwner] = "popempty" /\ dqtop = bottom + 1) \/ (dpc'[DqOwner] = "popcas" /\ dqtop = bottom)
        BY <1>2, <1>4, <1>7
      <3> QED
        BY <1>1, <1>3, <1>4, <1>5, <3>1, <3>2 DEF DqOwns
    <2> QED
      BY <1>5, <2>2, <2>3, <2>4 DEF DqInv
  <1> QED
    BY <1>6, <1>7

\* _bottom is set back.
LEMMA DqPopEnds ==
  ASSUME DqInv, DqPopEmpty \/ PopLast
  PROVE  DqInv'
  <1>1. /\ dpc[DqOwner] \in {"popempty", "poplast"} /\ dpc' = [dpc EXCEPT ![DqOwner] = "idle"]
        /\ bottom' = bottom + 1 /\ dqtop' = dqtop /\ dreg' = dreg /\ taken' = taken /\ pushed' = pushed
        /\ arrays' = arrays /\ active' = active
    BY DEF DqPopEmpty, PopLast, DqGo, DqInv, DqOwns
  <1>2. /\ dpc' = [x \in DqThread |-> dpc'[x]] /\ dpc'[DqOwner] = "idle"
        /\ \A x \in DqThief : dpc'[x] = dpc[x]
    BY <1>1, DqOwnerGoes DEF DqInv
  <1>3. bottom \in Int /\ DqEnd = bottom + 1 /\ DqEnd' = bottom + 1
    BY <1>1, <1>2 DEF DqEnd, DqPopping, DqInv, DqTypes
  <1>4. /\ DqArrays' /\ DqSame /\ DqLen(active)' = DqLen(active)
        /\ \A i : DqItem(i)' = DqItem(i)
    BY <1>1, DqStill
  <1>5. DqTypes'
    BY <1>1, <1>2, <1>3 DEF DqInv, DqTypes
  <1>6. DqItems' /\ DqCounted' /\ DqOrdered' /\ DqThieves'
    BY <1>1, <1>2, <1>3, <1>4, <1>5, DqOwnerKeeps DEF DqTypes
  <1>7. DqOwns'
    BY <1>1, <1>2, <1>3, <1>4 DEF DqInv, DqOwns
  <1> QED
    BY <1>4, <1>5, <1>6, <1>7 DEF DqInv

\* The oldest element is taken, by a thief or by the owner.
LEMMA DqTakesTop ==
  ASSUME DqInv, NEW y \in DqThread, dqtop < DqEnd, dqtop' = dqtop + 1, DqEnd' = DqEnd, pushed' = pushed,
         taken' = [taken EXCEPT ![y] = Append(@, DqItem(dqtop))], \A i : DqItem(i)' = DqItem(i)
  PROVE  DqItems' /\ DqCounted' /\ DqOrdered' /\ taken' \in [DqThread -> Seq(Nat)]
  <1>1. dqtop \in Nat /\ DqEnd \in Int /\ active \in 1 .. active
    BY DqEnds DEF DqInv, DqTypes
  <1>2. dqtop \in DqWindow /\ \A i : i \in DqWindow' <=> i \in DqWindow /\ i # dqtop
    BY <1>1 DEF DqWindow
  <1>3. dqtop' \in Int /\ DqEnd' \in Int /\ DqEnd' - dqtop' = (DqEnd - dqtop) - 1
    BY <1>1
  <1>4. DqItem(dqtop) \in Nat
    BY <1>1, DqItemType
  <1>5. DqItems' /\ DqCounted' /\ DqOrdered'
    BY <1>2, <1>3, DqTake
  <1> QED
    BY <1>4, <1>5, DqTaken DEF DqInv
\* The last element: a thief may have been first.
LEMMA DqPopCas ==
  ASSUME DqInv, PopCas
  PROVE  DqInv'
  <1> DEFINE q == dreg[DqOwner].t
  <1>1. /\ dpc[DqOwner] = "popcas" /\ dpc' = [dpc EXCEPT ![DqOwner] = "poplast"]
        /\ bottom' = bottom /\ dreg' = dreg /\ pushed' = pushed
        /\ arrays' = arrays /\ active' = active
        /\ IF dqtop = q THEN dqtop' = dqtop + 1 /\ taken' = [taken EXCEPT ![DqOwner] = Append(@, DqItem(bottom))]
                        ELSE dqtop' = dqtop /\ taken' = taken
    BY DEF PopCas, DqGo, DqTakes, DqItem
  <1>2. /\ dpc' = [x \in DqThread |-> dpc'[x]] /\ dpc'[DqOwner] = "poplast"
        /\ \A x \in DqThief : dpc'[x] = dpc[x]
    BY <1>1, DqOwnerGoes DEF DqInv
  <1>3. /\ bottom \in Int /\ dqtop \in Nat /\ DqEnd = bottom + 1 /\ DqEnd' = bottom + 1
        /\ q = bottom /\ bottom <= dqtop /\ dqtop <= bottom + 1
    BY <1>1, <1>2 DEF DqEnd, DqPopping, DqInv, DqTypes, DqOwns
  <1>4. /\ DqArrays' /\ DqSame /\ DqLen(active)' = DqLen(active)
        /\ \A i : DqItem(i)' = DqItem(i)
    BY <1>1, DqStill
  <1>5. dqtop' = bottom + 1
    BY <1>1, <1>3
  <1>6. DqItems' /\ DqCounted' /\ DqOrdered' /\ taken' \in [DqThread -> Seq(Nat)]
    <2>1. CASE dqtop = q
      <3>1. /\ dqtop < DqEnd /\ dqtop' = dqtop + 1 /\ DqEnd' = DqEnd
            /\ taken' = [taken EXCEPT ![DqOwner] = Append(@, DqItem(dqtop))]
        BY <1>1, <1>3, <2>1
      <3> QED
        BY <1>1, <1>4, <3>1, DqThreads, DqTakesTop
    <2>2. CASE dqtop # q
      <3>1. dqtop' = dqtop /\ DqEnd' = DqEnd /\ taken' = taken
        BY <1>1, <1>3, <2>2
      <3> QED
        BY <1>1, <1>4, <3>1, DqKeep DEF DqInv, DqTypes
    <2> QED
      BY <2>1, <2>2
  <1>7. DqTypes'
    BY <1>1, <1>2, <1>3, <1>5, <1>6 DEF DqInv, DqTypes
  <1>8. DqThieves'
    <2>1. dqtop' \in Nat /\ dqtop' >= dqtop /\ active' \in Nat
          /\ (dqtop' = dqtop /\ dqtop < DqEnd => dqtop < DqEnd')
      BY <1>1, <1>3, <1>5 DEF DqInv, DqTypes
    <2>2. \A x \in DqThief : DqSafe(x)'
      BY <1>1, <1>2, <1>4, <2>1, DqRests
    <2> QED
      BY <2>2 DEF DqThieves
  <1>9. DqOwns'
    <2>1. dqtop' <= DqEnd' /\ DqEnd' - dqtop' <= DqLen(active) - 1
      BY <1>3, <1>5, DqSized
    <2> QED
      BY <1>1, <1>2, <1>3, <1>4, <1>5, <2>1 DEF DqOwns
  <1> QED
    BY <1>4, <1>6, <1>7, <1>8, <1>9 DEF DqInv

-----------------------------------------------------------------------------
\* The steps of a thief.

\* A step of thief y that takes nothing.
LEMMA DqThiefKeeps ==
  ASSUME DqInv, NEW y \in DqThief, NEW l, dpc' = [dpc EXCEPT ![y] = l],
         dreg' \in [DqThread -> DqLocals], \A x \in DqThread \ {y} : dreg'[x] = dreg[x],
         bottom' = bottom, dqtop' = dqtop, arrays' = arrays, active' = active, taken' = taken, pushed' = pushed,
         DqSafe(y)'
  PROVE  DqInv'
  <1>1. /\ dpc' = [x \in DqThread |-> dpc'[x]] /\ dpc'[DqOwner] = dpc[DqOwner] /\ dreg'[DqOwner] = dreg[DqOwner]
        /\ \A x \in DqThief : x # y => dpc'[x] = dpc[x] /\ dreg'[x] = dreg[x]
    BY DqThreads DEF DqInv, DqTypes
  <1>2. /\ DqArrays' /\ DqSame /\ DqLen(active)' = DqLen(active)
        /\ \A i : DqItem(i)' = DqItem(i)
    BY DqStill
  <1>3. DqEnd' = DqEnd
    BY <1>1 DEF DqEnd, DqPopping
  <1>4. DqTypes'
    BY <1>1 DEF DqInv, DqTypes
  <1>5. DqItems' /\ DqCounted' /\ DqOrdered'
    BY <1>2, <1>3, DqKeep
  <1>6. DqThieves'
    <2>1. dqtop' \in Nat /\ dqtop' >= dqtop /\ active' \in Nat
          /\ (dqtop' = dqtop /\ dqtop < DqEnd => dqtop < DqEnd')
      BY <1>3 DEF DqInv, DqTypes
    <2>2. \A x \in DqThief : x # y => DqSafe(x)'
      BY <1>1, <1>2, <2>1, DqRests
    <2> QED
      BY <2>2 DEF DqThieves
  <1>7. DqOwns'
    BY <1>1, <1>2, <1>3 DEF DqInv, DqOwns
  <1> QED
    BY <1>2, <1>4, <1>5, <1>6, <1>7 DEF DqInv

\* What a thief that moves is at, and what it knows.
LEMMA DqThief1 ==
  ASSUME DqInv, NEW y \in DqThief
  PROVE  /\ DqSafe(y) /\ dreg[y] \in DqLocals /\ dreg[y].t \in Nat /\ dqtop \in Nat /\ DqEnd \in Int
         /\ bottom \in Int /\ bottom <= DqEnd /\ dqtop <= DqEnd
         /\ \A l : [dpc EXCEPT ![y] = l][y] = l
         /\ \A i \in Int : DqItem(i) \in Nat
         /\ y \in DqThread /\ active \in Nat \ {0}
  <1>1. DqSafe(y) /\ dreg[y] \in DqLocals /\ dqtop \in Nat /\ DqEnd \in Int /\ bottom \in Int
        /\ y \in DqThread /\ active \in Nat \ {0}
    BY DqEnds, DqThreads DEF DqInv, DqThieves, DqTypes
  <1>2. dreg[y].t \in Nat
    BY <1>1 DEF DqLocals
  <1>3. bottom <= DqEnd /\ dqtop <= DqEnd
    BY <1>1 DEF DqEnd, DqInv, DqOwns
  <1>4. \A l : [dpc EXCEPT ![y] = l][y] = l
    BY <1>1 DEF DqInv, DqTypes
  <1> QED
    BY <1>1, <1>2, <1>3, <1>4, DqItemType

LEMMA DqStealTop ==
  ASSUME DqInv, NEW y \in DqThief, StealTop(y)
  PROVE  DqInv'
  <1>1. /\ dpc' = [dpc EXCEPT ![y] = "bottom"] /\ dreg' = [dreg EXCEPT ![y] = [dreg[y] EXCEPT !.t = dqtop]]
        /\ bottom' = bottom /\ dqtop' = dqtop /\ arrays' = arrays /\ active' = active
        /\ taken' = taken /\ pushed' = pushed
    BY DEF StealTop, DqGo, ReadTop
  <1>2. [dreg[y] EXCEPT !.t = dqtop] \in DqLocals /\ [dreg[y] EXCEPT !.t = dqtop].t = dqtop
    BY DqThief1 DEF DqLocals
  <1>3. /\ dreg' \in [DqThread -> DqLocals] /\ dreg'[y].t = dqtop /\ dpc'[y] = "bottom"
        /\ \A x \in DqThread \ {y} : dreg'[x] = dreg[x]
    BY <1>1, <1>2, DqThief1 DEF DqInv, DqTypes
  <1>4. DqSafe(y)'
    BY <1>1, <1>3, DqThief1 DEF DqSafe
  <1> QED
    BY <1>1, <1>3, <1>4, DqThiefKeeps

LEMMA DqStealBottom ==
  ASSUME DqInv, NEW y \in DqThief, StealBottom(y)
  PROVE  DqInv'
  <1> DEFINE to == IF bottom - dreg[y].t <= 0 THEN "idle" ELSE "array"
  <1>1. /\ dpc[y] = "bottom" /\ dpc' = [dpc EXCEPT ![y] = to] /\ dreg' = dreg
        /\ bottom' = bottom /\ dqtop' = dqtop /\ arrays' = arrays /\ active' = active
        /\ taken' = taken /\ pushed' = pushed
    BY DEF StealBottom, DqGo
  <1>2. /\ dreg' \in [DqThread -> DqLocals] /\ dpc'[y] = to
        /\ \A x \in DqThread \ {y} : dreg'[x] = dreg[x]
    BY <1>1, DqThief1 DEF DqInv, DqTypes
  <1>3. dpc'[DqOwner] = dpc[DqOwner]
    BY <1>1, DqThreads DEF DqInv, DqTypes
  <1>4. DqEnd' = DqEnd
    BY <1>1, <1>3, DqThreads DEF DqEnd, DqPopping
  <1>5. dreg[y].t <= dqtop
    BY <1>1, DqThief1 DEF DqSafe
  <1>6. dpc'[y] = "idle" \/ (dpc'[y] = "array" /\ bottom > dreg[y].t)
    BY <1>2, DqThief1
  <1>7. DqSafe(y)'
    BY <1>1, <1>4, <1>5, <1>6, DqThief1 DEF DqSafe
  <1> QED
    BY <1>1, <1>2, <1>7, DqThiefKeeps
LEMMA DqStealArray ==
  ASSUME DqInv, NEW y \in DqThief, StealArray(y)
  PROVE  DqInv'
  <1>1. /\ dpc[y] = "array" /\ dpc' = [dpc EXCEPT ![y] = "get"]
        /\ dreg' = [dreg EXCEPT ![y] = [dreg[y] EXCEPT !.a = active]]
        /\ bottom' = bottom /\ dqtop' = dqtop /\ arrays' = arrays /\ active' = active
        /\ taken' = taken /\ pushed' = pushed
    BY DEF StealArray, DqGo
  <1>2. /\ [dreg[y] EXCEPT !.a = active] \in DqLocals /\ [dreg[y] EXCEPT !.a = active].a = active
        /\ [dreg[y] EXCEPT !.a = active].t = dreg[y].t
    BY DqThief1 DEF DqLocals
  <1>3. /\ dreg' \in [DqThread -> DqLocals] /\ dreg'[y].a = active /\ dreg'[y].t = dreg[y].t /\ dpc'[y] = "get"
        /\ \A x \in DqThread \ {y} : dreg'[x] = dreg[x]
    BY <1>1, <1>2, DqThief1 DEF DqInv, DqTypes
  <1>4. dpc'[DqOwner] = dpc[DqOwner]
    BY <1>1, DqThreads DEF DqInv, DqTypes
  <1>5. DqEnd' = DqEnd
    BY <1>1, <1>4 DEF DqEnd, DqPopping
  <1>6. dreg[y].t <= dqtop /\ (dreg[y].t = dqtop => dqtop < DqEnd)
    BY <1>1, DqThief1 DEF DqSafe
  <1>7. DqGet(active, dqtop)' = DqItem(dqtop)'
    BY DEF DqItem
  <1>8. dreg'[y].a \in 1 .. active' /\ DqGet(dreg[y].a, dqtop)' = DqItem(dqtop)'
    BY <1>1, <1>3, <1>7, DqThief1
  <1>9. DqSafe(y)'
    BY <1>1, <1>3, <1>5, <1>6, <1>8 DEF DqSafe
  <1> QED
    BY <1>1, <1>3, <1>9, DqThiefKeeps

LEMMA DqStealGet ==
  ASSUME DqInv, NEW y \in DqThief, StealGet(y)
  PROVE  DqInv'
  <1> DEFINE v == DqGet(dreg[y].a, dreg[y].t)
  <1>1. /\ dpc[y] = "get" /\ dpc' = [dpc EXCEPT ![y] = "cas"]
        /\ dreg' = [dreg EXCEPT ![y] = [dreg[y] EXCEPT !.e = v]]
        /\ bottom' = bottom /\ dqtop' = dqtop /\ arrays' = arrays /\ active' = active
        /\ taken' = taken /\ pushed' = pushed
    BY DEF StealGet, DqGo
  <1>2. /\ dreg[y].a \in 1 .. active /\ dreg[y].t <= dqtop
        /\ dreg[y].t = dqtop => dqtop < DqEnd /\ v = DqItem(dqtop)
    BY <1>1, DqThief1 DEF DqSafe
  <1>3. v \in Nat
    <2>1. DqTypes /\ DqArrays /\ dreg[y].t \in Int
      BY DqThief1 DEF DqInv
    <2> QED
      BY <1>2, <2>1, DqArray
  <1> HIDE DEF v
  <1>4. /\ [dreg[y] EXCEPT !.e = v] \in DqLocals /\ [dreg[y] EXCEPT !.e = v].e = v
        /\ [dreg[y] EXCEPT !.e = v].t = dreg[y].t
    BY <1>3, DqThief1 DEF DqLocals
  <1>5. /\ dreg' \in [DqThread -> DqLocals] /\ dreg'[y].e = v /\ dreg'[y].t = dreg[y].t /\ dpc'[y] = "cas"
        /\ \A x \in DqThread \ {y} : dreg'[x] = dreg[x]
    BY <1>1, <1>4, DqThief1 DEF DqInv, DqTypes
  <1>6. dpc'[DqOwner] = dpc[DqOwner]
    BY <1>1, DqThreads DEF DqInv, DqTypes
  <1>7. DqEnd' = DqEnd
    BY <1>1, <1>6 DEF DqEnd, DqPopping
  <1>8. \A i : DqItem(i)' = DqItem(i)
    BY <1>1, DqStill
  <1>9. DqItem(dqtop)' = DqItem(dqtop)
    BY <1>1, <1>8
  <1>10. DqSafe(y)'
    BY <1>1, <1>2, <1>5, <1>7, <1>9 DEF DqSafe
  <1> QED
    BY <1>1, <1>5, <1>10, DqThiefKeeps

LEMMA DqStealCas ==
  ASSUME DqInv, NEW y \in DqThief, StealCas(y)
  PROVE  DqInv'
  <1>1. /\ dpc[y] = "cas" /\ dpc' = [dpc EXCEPT ![y] = "idle"] /\ dreg' = dreg
        /\ bottom' = bottom /\ arrays' = arrays /\ active' = active /\ pushed' = pushed
        /\ IF dqtop = dreg[y].t THEN dqtop' = dqtop + 1 /\ taken' = [taken EXCEPT ![y] = Append(@, dreg[y].e)]
                                ELSE dqtop' = dqtop /\ taken' = taken
    BY DEF StealCas, DqGo, DqTakes
  <1>2. /\ dpc' = [x \in DqThread |-> dpc'[x]] /\ dpc'[DqOwner] = dpc[DqOwner] /\ dpc'[y] = "idle"
        /\ \A x \in DqThief : x # y => dpc'[x] = dpc[x] /\ dreg'[x] = dreg[x]
    BY <1>1, DqThreads DEF DqInv, DqTypes
  <1>3. DqSafe(y)'
    BY <1>2 DEF DqSafe
  <1>4. CASE dqtop # dreg[y].t
    <2>1. dqtop' = dqtop /\ taken' = taken /\ dreg' \in [DqThread -> DqLocals]
          /\ \A x \in DqThread \ {y} : dreg'[x] = dreg[x]
      BY <1>1, <1>4 DEF DqInv, DqTypes
    <2> QED
      BY <1>1, <1>3, <2>1, DqThiefKeeps
  <1>5. CASE dqtop = dreg[y].t
    <2>1. dqtop < DqEnd /\ dreg[y].e = DqItem(dqtop)
      BY <1>1, <1>5, DqThief1 DEF DqSafe
    <2>2. dqtop' = dqtop + 1 /\ taken' = [taken EXCEPT ![y] = Append(@, DqItem(dqtop))]
      BY <1>1, <1>5, <2>1
    <2>3. /\ DqArrays' /\ DqSame /\ DqLen(active)' = DqLen(active)
          /\ \A i : DqItem(i)' = DqItem(i)
      BY <1>1, DqStill
    <2>4. DqEnd' = DqEnd
      BY <1>1, <1>2 DEF DqEnd, DqPopping
    <2>5. DqItems' /\ DqCounted' /\ DqOrdered' /\ taken' \in [DqThread -> Seq(Nat)]
      BY <1>1, <2>1, <2>2, <2>3, <2>4, DqThreads, DqTakesTop
    <2>6. dqtop \in Nat /\ DqEnd \in Int
      BY DqThief1
    <2>7. DqTypes'
      BY <1>1, <1>2, <2>2, <2>5, <2>6 DEF DqInv, DqTypes
    <2>8. DqThieves'
      <3>1. dqtop' \in Nat /\ dqtop' >= dqtop /\ active' \in Nat
            /\ (dqtop' = dqtop /\ dqtop < DqEnd => dqtop < DqEnd')
        BY <1>1, <2>2, <2>4, <2>6 DEF DqInv, DqTypes
      <3>2. \A x \in DqThief : x # y => DqSafe(x)'
        BY <1>2, <2>3, <3>1, DqRests
      <3> QED
        BY <1>3, <3>2 DEF DqThieves
    <2>9. DqOwns'
      <3>1. dqtop' <= DqEnd' /\ DqEnd' - dqtop' <= DqLen(active) - 1
        BY <2>1, <2>2, <2>4, <2>6, DqSized DEF DqInv, DqOwns
      <3>2. DqOwner \in DqThread /\ dreg[DqOwner] \in DqLocals /\ bottom \in Int
        BY DqThreads DEF DqInv, DqTypes
      <3>3. dreg[DqOwner].t \in Nat
        BY <3>2 DEF DqLocals
      <3>4. dreg[DqOwner].t <= dqtop => dreg[DqOwner].t <= dqtop'
        BY <2>2, <2>6, <3>3
      <3>5. bottom <= dqtop => bottom <= dqtop'
        BY <2>2, <2>6, <3>2
      <3>6. dpc[DqOwner] # "popempty" /\ dpc[DqOwner] # "poplast"
        BY <2>1, <2>6, <3>2 DEF DqEnd, DqPopping, DqInv, DqOwns
      <3>7. DqItem(bottom)' = DqItem(bottom)
        BY <1>1, <2>3
      <3>8. dreg'[DqOwner] = dreg[DqOwner] /\ dpc'[DqOwner] = dpc[DqOwner]
        BY <1>1, <1>2
      <3>9. DqOwns
        BY DEF DqInv
      <3> QED
        BY <1>1, <2>3, <3>1, <3>4, <3>5, <3>6, <3>7, <3>8, <3>9 DEF DqOwns
    <2> QED
      BY <2>3, <2>5, <2>7, <2>8, <2>9 DEF DqInv
  <1> QED
    BY <1>4, <1>5

-----------------------------------------------------------------------------
LEMMA DqInitInv == DqInit => DqInv
  <1> SUFFICES ASSUME DqInit PROVE DqInv
    OBVIOUS
  <1>1. /\ bottom = 0 /\ dqtop = 0 /\ active = 1 /\ pushed = 0
        /\ arrays = <<[j \in 1 .. DqSize |-> Empty]>>
        /\ dpc = [x \in DqThread |-> "idle"]
        /\ dreg = [x \in DqThread |-> [t |-> 0, a |-> 1, e |-> Empty]]
        /\ taken = [x \in DqThread |-> <<>>]
    BY DEF DqInit
  <1>2. DqTypes
    <2>1. active \in Nat \ {0} /\ active = Len(arrays)
      BY <1>1
    <2>2. dpc = [x \in DqThread |-> dpc[x]]
      BY <1>1
    <2>3. dreg \in [DqThread -> DqLocals]
      BY <1>1 DEF DqLocals, Empty
    <2>4. taken \in [DqThread -> Seq(Nat)]
      BY <1>1
    <2> QED
      BY <1>1, <2>1, <2>2, <2>3, <2>4 DEF DqTypes
  <1>3. DqArrays /\ DqLen(active) = DqSize
    <2>1. PICK row : row = [j \in 1 .. DqSize |-> Empty]
      OBVIOUS
    <2>2. row \in [1 .. DqSize -> Nat] /\ DqSize \in Nat \ {0}
      BY <2>1, LFDequeAssumption DEF Empty
    <2>3. row \in Seq(Nat) /\ Len(row) = DqSize
      BY <2>2, SeqDef
    <2>4. arrays \in Seq(Seq(Nat)) /\ arrays[1] = row
      BY <1>1, <2>1, <2>3
    <2> QED
      BY <1>1, <2>2, <2>3, <2>4 DEF DqArrays, DqLen
  <1>4. DqEnd = 0 /\ DqWindow = {} /\ dpc[DqOwner] = "idle" /\ \A x \in DqThief : dpc[x] = "idle"
    <2>1. dpc[DqOwner] = "idle" /\ \A x \in DqThief : dpc[x] = "idle"
      BY <1>1, DqThreads
    <2>2. DqEnd = 0
      BY <1>1, <2>1 DEF DqEnd, DqPopping
    <2> QED
      BY <1>1, <2>1, <2>2 DEF DqWindow
  <1>5. \A x \in DqThread : DOMAIN taken[x] = {}
    BY <1>1
  <1>6. DqOwns
    BY <1>1, <1>3, <1>4, LFDequeAssumption DEF DqOwns
  <1>7. DqItems
    BY <1>1, <1>4, <1>5 DEF DqItems
  <1>8. DqCounted
    <2>1. DqGot = {}
      BY <1>5 DEF DqGot
    <2> QED
      BY <1>1, <1>4, <2>1, FS_EmptySet DEF DqCounted
  <1>9. DqOrdered
    BY <1>4, <1>5, DqThreads DEF DqOrdered
  <1>10. DqThieves
    BY <1>4 DEF DqThieves, DqSafe
  <1> QED
    BY <1>2, <1>3, <1>6, <1>7, <1>8, <1>9, <1>10 DEF DqInv

LEMMA DqNextInv == DqInv /\ DqNext => DqInv'
  <1> SUFFICES ASSUME DqInv, DqNext PROVE DqInv'
    OBVIOUS
  <1>1. CASE PushStart \/ PushGrow \/ PushPut \/ PushPublish
    BY <1>1, DqPushStart, DqPushGrow, DqPushPut, DqPushPublish
  <1>2. CASE PopReserve \/ PopTop \/ DqPopEmpty \/ PopCas \/ PopLast
    BY <1>2, DqPopReserve, DqPopTop, DqPopEnds, DqPopCas
  <1>3. ASSUME NEW x \in DqThief, StealTop(x) \/ StealBottom(x) \/ StealArray(x) \/ StealGet(x) \/ StealCas(x)
        PROVE  DqInv'
    BY <1>3, DqStealTop, DqStealBottom, DqStealArray, DqStealGet, DqStealCas
  <1> QED
    BY <1>1, <1>2, <1>3 DEF DqNext

LEMMA DqStutter == DqInv /\ dqvars' = dqvars => DqInv'
  <1> SUFFICES ASSUME DqInv, dqvars' = dqvars PROVE DqInv'
    OBVIOUS
  <1>1. /\ bottom' = bottom /\ dqtop' = dqtop /\ arrays' = arrays /\ active' = active
        /\ dpc' = dpc /\ dreg' = dreg /\ taken' = taken /\ pushed' = pushed
    BY DEF dqvars
  <1>2. DqTypes'
    BY <1>1 DEF DqInv, DqTypes
  <1>3. /\ DqArrays' /\ DqSame /\ DqLen(active)' = DqLen(active)
        /\ \A i : DqItem(i)' = DqItem(i)
    BY <1>1, DqStill
  <1>4. DqEnd' = DqEnd
    BY <1>1 DEF DqEnd, DqPopping
  <1>5. DqItems' /\ DqCounted' /\ DqOrdered' /\ DqThieves'
    BY <1>1, <1>2, <1>3, <1>4, DqOwnerKeeps DEF DqTypes
  <1>6. DqOwns'
    BY <1>1, <1>3, <1>4 DEF DqInv, DqOwns
  <1> QED
    BY <1>2, <1>3, <1>5, <1>6 DEF DqInv

\* The invariant is what the runs check, said for every step.
LEMMA DqInvMeans == DqInv => DequeTakenOnce /\ DequeKeeps /\ ThievesInOrder
  <1> SUFFICES ASSUME DqInv PROVE DequeTakenOnce /\ DequeKeeps /\ ThievesInOrder
    OBVIOUS
  <1>1. \A x \in DqThread : \A k \in DOMAIN taken[x] : <<x, k>> \in DqGot
    BY DEF DqGot
  <1>2. \A w \in DqGot : \E x \in DqThread : \E k \in DOMAIN taken[x] : w = <<x, k>> /\ DqElement(w) = taken[x][k]
    BY DEF DqGot, DqElement
  <1>3. \A e : DqIs(e) <=> \E w \in DqGot : DqElement(w) = e
    <2>1. \A x \in DqThread : \A k \in DOMAIN taken[x] : DqElement(<<x, k>>) = taken[x][k]
      BY DEF DqElement
    <2>2. \A e : DqIs(e) => \E w \in DqGot : DqElement(w) = e
      BY <1>1, <2>1 DEF DqIs
    <2>3. ASSUME NEW e, NEW w \in DqGot, DqElement(w) = e
          PROVE  DqIs(e)
      BY <1>2, <2>3 DEF DqIs
    <2> QED
      BY <2>2, <2>3
  <1>4. DequeTakenOnce
    <2>1. \A w \in DqGot : DqElement(w) \in 1 .. pushed
      BY <1>2 DEF DqInv, DqItems
    <2>2. ASSUME NEW w \in DqGot, NEW w2 \in DqGot, DqElement(w) = DqElement(w2)
          PROVE  w = w2
      <3>1. PICK x \in DqThread : \E k \in DOMAIN taken[x] : w = <<x, k>> /\ DqElement(w) = taken[x][k]
        BY <1>2
      <3>2. PICK k \in DOMAIN taken[x] : w = <<x, k>> /\ DqElement(w) = taken[x][k]
        BY <3>1
      <3>3. PICK y \in DqThread : \E l \in DOMAIN taken[y] : w2 = <<y, l>> /\ DqElement(w2) = taken[y][l]
        BY <1>2
      <3>4. PICK l \in DOMAIN taken[y] : w2 = <<y, l>> /\ DqElement(w2) = taken[y][l]
        BY <3>3
      <3>5. x = y /\ k = l
        BY <2>2, <3>2, <3>4 DEF DqInv, DqItems
      <3> QED
        BY <3>2, <3>4, <3>5
    <2> QED
      BY <2>1, <2>2 DEF DequeTakenOnce
  <1>5. DequeKeeps
    <2> SUFFICES ASSUME dpc[DqOwner] = "idle"
                 PROVE  /\ Cardinality(DqGot) + (bottom - dqtop) = pushed
                        /\ {DqGet(active, i) : i \in dqtop .. bottom - 1} = (1 .. pushed) \ {DqElement(w) : w \in DqGot}
      BY DEF DequeKeeps
    <2>1. DqEnd = bottom
      BY DEF DqEnd, DqPopping
    <2>2. Cardinality(DqGot) + (bottom - dqtop) = pushed
      BY <2>1 DEF DqInv, DqCounted
    <2>3. {DqGet(active, i) : i \in dqtop .. bottom - 1} = {DqItem(i) : i \in DqWindow}
      BY <2>1 DEF DqItem, DqWindow
    <2>4. \A e : e \in {DqItem(i) : i \in DqWindow} <=> e \in 1 .. pushed /\ ~DqIs(e)
      BY DEF DqInv, DqItems
    <2>5. \A e : e \in {DqElement(w) : w \in DqGot} <=> DqIs(e)
      BY <1>3
    <2> QED
      BY <2>2, <2>3, <2>4, <2>5
  <1>6. ThievesInOrder
    BY DEF ThievesInOrder, DqInv, DqOrdered
  <1> QED
    BY <1>4, <1>5, <1>6

\* For any number of thieves, any size of the first array and any number of pushes,
\* pops and steals: what was pushed is taken at most once, by the owner or a thief,
\* between two operations of the owner the entries from _top to _bottom are exactly
\* what nobody took, and each thief takes in the order of the pushes
\* (CircularWorkStealingDeque::pushBottom, popBottom, steal).
THEOREM DequeCorrect == LFRSpec => []DequeExactlyOnce
  <1> DEFINE Inv == part = "deque" => DqInv
  <1>1. LFRInit => Inv
    BY DqInitInv DEF LFRInit
  <1>2. Inv /\ [LFRNext]_lfrvars => Inv'
    <2> SUFFICES ASSUME Inv, [LFRNext]_lfrvars, part' = "deque" PROVE DqInv'
      OBVIOUS
    <2>1. part = "deque" /\ (DqNext \/ dqvars' = dqvars)
      BY DEF LFRNext, lfrvars
    <2> QED
      BY <2>1, DqStutter, DqNextInv
  <1>3. Inv => DequeExactlyOnce
    BY DqInvMeans DEF DequeExactlyOnce
  <1> QED
    BY <1>1, <1>2, <1>3, PTL DEF LFRSpec

-----------------------------------------------------------------------------
(* One source. *)

\* A source's event is in one place, and a flow's source that is on has its event.
OsOnce == \A p, q \in EventPlaces : \A n \in Nat : EventAt(p) = Source(n) /\ EventAt(q) = Source(n) => p = q
OsThere == \A n \in sourced \ off : \E p \in EventPlaces : EventAt(p) = Source(n)
OsOld == \A p \in EventPlaces : \A n \in Nat : EventAt(p) = Source(n) => n <= flows

\* One thread loads a flow; before it has switched the old one off two may be on.
OsLoading(t) == lpc[t] \in {"load", "loaded"}
OsLoads ==
  /\ flows \in Nat \ {0} /\ sourced \subseteq 1 .. flows
  /\ \A t \in LFThread : OsLoading(t) => ~softLoad
  /\ \A t, u \in LFThread : OsLoading(t) /\ OsLoading(u) => u = t
  /\ sourced \ off \subseteq {flows, flows - 1}
  /\ (\A t \in LFThread : lpc[t] # "loaded") => sourced \ off \subseteq {flows}

OsEvents == OsOnce /\ OsThere /\ OsOld
OsInv == OsEvents /\ OsLoads

LEMMA OsPlace ==
  /\ \A p : p \in EventPlaces <=> \E t \in LFThread : \E i \in 0 .. Len(queue[t]) : p = <<t, i>>
  /\ \A t \in LFThread : \A i \in 0 .. Len(queue[t]) : <<t, i>> \in EventPlaces
  /\ \A t, i : EventAt(<<t, i>>) = IF i = 0 THEN lev[t] ELSE queue[t][i]
  BY DEF EventPlaces, EventAt

LEMMA OsPlaceNext ==
  /\ \A p : p \in EventPlaces' <=> \E t \in LFThread : \E i \in 0 .. Len(queue'[t]) : p = <<t, i>>
  /\ \A t \in LFThread : \A i \in 0 .. Len(queue'[t]) : <<t, i>> \in EventPlaces'
  /\ \A t, i : EventAt(<<t, i>>)' = IF i = 0 THEN lev'[t] ELSE queue'[t][i]
  BY DEF EventPlaces, EventAt

LEMMA OsSources ==
  /\ \A n, m : Source(n) = Source(m) <=> n = m
  /\ \A n : Source(n) # NoEv /\ Source(n) # Plain /\ Source(n) # Guarded /\ Source(n).kind = "source" /\ Source(n).flow = n
  BY DEF Source, NoEv, Plain, Guarded

\* Every source's event that is there was there before, and those that matter still are.
LEMMA OsFollows ==
  ASSUME OsEvents, NEW f, flows' = flows, sourced' = sourced, off' = off,
         \A p \in EventPlaces' : \A n \in Nat :
           EventAt(p)' = Source(n) => f[p] \in EventPlaces /\ EventAt(f[p]) = Source(n),
         \A p, q \in EventPlaces' : \A n \in Nat :
           EventAt(p)' = Source(n) /\ EventAt(q)' = Source(n) /\ f[p] = f[q] => p = q,
         \A p \in EventPlaces : \A n \in sourced \ off :
           EventAt(p) = Source(n) => \E q \in EventPlaces' : EventAt(q)' = Source(n)
  PROVE  OsEvents'
  <1>1. OsOnce'
    BY DEF OsEvents, OsOnce
  <1>2. OsThere'
    BY DEF OsEvents, OsThere
  <1>3. OsOld'
    BY DEF OsEvents, OsOld
  <1> QED
    BY <1>1, <1>2, <1>3 DEF OsEvents

LEMMA OsRests ==
  ASSUME OsEvents, queue' = queue, lev' = lev, flows' = flows, sourced' = sourced, off \subseteq off'
  PROVE  OsEvents'
  <1>1. EventPlaces' = EventPlaces
    BY DEF EventPlaces
  <1>2. \A p : EventAt(p)' = EventAt(p)
    BY DEF EventAt
  <1> QED
    BY <1>1, <1>2 DEF OsEvents, OsOnce, OsThere, OsOld

\* A thread that goes on without loading.
LEMMA OsGoes ==
  ASSUME OsLoads, flows' = flows, sourced' = sourced, off' = off, ~softLoad => ~softLoad',
         \A t \in LFThread : (OsLoading(t)' => OsLoading(t)) /\ (lpc[t] = "loaded" => lpc'[t] = "loaded")
  PROVE  OsLoads'
  BY DEF OsLoads

LEMMA OsPop ==
  ASSUME LRInv, OsInv, NEW t \in LFThread, Pop(t)
  PROVE  OsInv'
  <1>1. LRTypes /\ LRThread(t) /\ queue[t] \in Seq(LFEvent)
    BY DEF LRInv, LRTypes
  <1>2. PICK took \in BOOLEAN : took <=> (~Skips(t) /\ queue[t] # <<>>)
    OBVIOUS
  <1>3. /\ lpc[t] = "pop" /\ lpc' = [lpc EXCEPT ![t] = IF took THEN "exec" ELSE "steal"]
        /\ lev' = [lev EXCEPT ![t] = IF took THEN Last(queue[t]) ELSE NoEv]
        /\ queue' = [queue EXCEPT ![t] = IF took THEN Front(queue[t]) ELSE queue[t]]
        /\ flows' = flows /\ sourced' = sourced /\ off' = off /\ softLoad' = softLoad
    BY <1>2 DEF Pop, RunGoes, Kept
  <1>4. lev[t] = NoEv
    BY <1>1, <1>3 DEF LRThread
  <1>5. OsLoads'
    <2>1. \A u \in LFThread : (OsLoading(u)' => OsLoading(u)) /\ (lpc[u] = "loaded" => lpc'[u] = "loaded")
      BY <1>1, <1>3 DEF LRTypes, OsLoading
    <2> QED
      BY <1>3, <2>1, OsGoes DEF OsInv
  <1>6. OsEvents'
    <2>1. CASE ~took
      <3>1. queue' = queue /\ lev' = lev
        BY <1>1, <1>3, <1>4, <2>1 DEF LRTypes
      <3> QED
        BY <1>3, <3>1, OsRests DEF OsInv
    <2>2. CASE took
      <3> DEFINE last == Len(queue[t])
                 f == [p \in LFThread \X Nat |-> IF p = <<t, 0>> THEN <<t, last>> ELSE p]
      <3>1. /\ last \in Nat \ {0} /\ lev'[t] = queue[t][last]
            /\ Len(queue'[t]) = last - 1 /\ \A i \in 1 .. last - 1 : queue'[t][i] = queue[t][i]
            /\ \A u \in LFThread \ {t} : queue'[u] = queue[u] /\ lev'[u] = lev[u]
        <4>1. last \in Nat \ {0}
          BY <1>1, <1>2, <2>2
        <4>2. Len(Front(queue[t])) = last - 1 /\ \A i \in 1 .. last - 1 : Front(queue[t])[i] = queue[t][i]
          BY <1>1, <4>1 DEF Front
        <4> QED
          BY <1>1, <1>3, <2>2, <4>1, <4>2 DEF LRTypes, Last
      <3>2. \A u \in LFThread : Len(queue[u]) \in Nat
        BY <1>1 DEF LRTypes
      <3> HIDE DEF last
      <3>3. ASSUME NEW p \in EventPlaces'
            PROVE  /\ f[p] \in EventPlaces /\ EventAt(f[p]) = EventAt(p)' /\ f[p] # <<t, 0>>
                   /\ p # <<t, 0>> => f[p] = p /\ p # <<t, last>>
                   /\ p = <<t, 0>> => f[p] = <<t, last>>
        <4>1. PICK u \in LFThread : \E i \in 0 .. Len(queue'[u]) : p = <<u, i>>
          BY OsPlaceNext
        <4>2. PICK i \in 0 .. Len(queue'[u]) : p = <<u, i>>
          BY <4>1
        <4>3. CASE u = t /\ i = 0
          <5>1. f[<<t, 0>>] = <<t, last>> /\ <<t, last>> # <<t, 0>>
            BY <3>1
          <5>2. <<t, last>> \in EventPlaces /\ EventAt(<<t, last>>) = queue[t][last]
            BY <3>1, OsPlace DEF last
          <5>3. EventAt(<<t, 0>>)' = lev'[t]
            BY OsPlaceNext
          <5> QED
            BY <3>1, <4>2, <4>3, <5>1, <5>2, <5>3
        <4>4. CASE ~(u = t /\ i = 0)
          <5>1. i \in Nat /\ f[p] = p /\ <<u, i>> # <<t, last>>
            BY <3>1, <3>2, <4>2, <4>4
          <5> QED
            <6>1. i \in 0 .. Len(queue[u])
              BY <3>1, <3>2, <4>2, <4>4 DEF last
            <6>2. p \in EventPlaces
              BY <4>2, <6>1, OsPlace
            <6>3. EventAt(p) = IF i = 0 THEN lev[u] ELSE queue[u][i]
              BY <4>2, OsPlace
            <6>4. EventAt(p)' = IF i = 0 THEN lev'[u] ELSE queue'[u][i]
              BY <4>2, OsPlaceNext
            <6>5. EventAt(p)' = EventAt(p)
              BY <3>1, <4>2, <4>4, <6>3, <6>4
            <6> QED
              BY <4>2, <4>4, <5>1, <6>2, <6>5
        <4> QED
          BY <4>3, <4>4
      <3>4. ASSUME NEW p \in EventPlaces, NEW n \in sourced \ off, EventAt(p) = Source(n)
            PROVE  \E q \in EventPlaces' : EventAt(q)' = Source(n)
        <4>1. PICK u \in LFThread : \E i \in 0 .. Len(queue[u]) : p = <<u, i>>
          BY OsPlace
        <4>2. PICK i \in 0 .. Len(queue[u]) : p = <<u, i>>
          BY <4>1
        <4>3. CASE u = t /\ i = last
          <5>1. <<t, 0>> \in EventPlaces' /\ EventAt(<<t, 0>>)' = lev'[t]
            BY <3>1, OsPlaceNext
          <5> QED
            BY <3>1, <3>4, <4>2, <4>3, <5>1, OsPlace
        <4>4. CASE ~(u = t /\ i = last)
          <5>1. ~(u = t /\ i = 0)
            BY <1>4, <3>4, <4>2, OsPlace, OsSources
          <5>2. p \in EventPlaces' /\ EventAt(p)' = EventAt(p)
            BY <3>1, <3>2, <4>2, <4>4, <5>1, OsPlace, OsPlaceNext DEF last
          <5> QED
            BY <3>4, <5>2
        <4> QED
          BY <4>3, <4>4
      <3> HIDE DEF f
      <3>5. \A p, q \in EventPlaces' : f[p] = f[q] => p = q
        BY <3>3
      <3> QED
        BY <1>3, <3>3, <3>4, <3>5, OsFollows DEF OsInv
    <2> QED
      BY <2>1, <2>2
  <1> QED
    BY <1>5, <1>6 DEF OsInv
LEMMA OsSteal ==
  ASSUME LRInv, OsInv, NEW t \in LFThread, Steal(t)
  PROVE  OsInv'
  <1>1. LRTypes /\ LRThread(t)
    BY DEF LRInv
  <1>2. lpc[t] = "steal" /\ lev[t] = NoEv /\ cursor[t] \in LFThread
        /\ flows' = flows /\ sourced' = sourced /\ off' = off /\ softLoad' = softLoad
    BY <1>1 DEF Steal, LRThread, Kept
  <1>3. PICK v \in LFThread : v = cursor[t]
    BY <1>2
  <1>4. PICK l \in {"rest", "steal", "exec"} : lpc' = [lpc EXCEPT ![t] = l]
    BY DEF Steal, RunGoes
  <1>5. OsLoads'
    <2>1. \A u \in LFThread : (OsLoading(u)' => OsLoading(u)) /\ (lpc[u] = "loaded" => lpc'[u] = "loaded")
      BY <1>1, <1>2, <1>4 DEF LRTypes, OsLoading
    <2> QED
      BY <1>2, <2>1, OsGoes DEF OsInv
  <1>6. OsEvents'
    <2>1. CASE queue' = queue /\ lev' = lev
      BY <1>2, <2>1, OsRests DEF OsInv
    <2>2. CASE ~(queue' = queue /\ lev' = lev)
      <3> DEFINE f == [p \in LFThread \X Nat |-> IF p = <<t, 0>> THEN <<v, 1>>
                                               ELSE IF p[1] = v /\ p[2] >= 1 THEN <<v, p[2] + 1>> ELSE p]
      <3>1. /\ v # t /\ queue[v] # <<>> /\ lev' = [lev EXCEPT ![t] = Head(queue[v])]
            /\ queue' = [queue EXCEPT ![v] = Tail(queue[v])]
        BY <1>3, <2>2 DEF Steal
      <3>2. /\ Len(queue[v]) \in Nat \ {0} /\ lev'[t] = queue[v][1] /\ queue'[t] = queue[t]
            /\ Len(queue'[v]) = Len(queue[v]) - 1 /\ \A i \in 1 .. Len(queue'[v]) : queue'[v][i] = queue[v][i + 1]
            /\ \A u \in LFThread \ {t} : lev'[u] = lev[u]
            /\ \A u \in LFThread \ {v} : queue'[u] = queue[u]
        <4>1. queue[v] \in Seq(LFEvent)
          BY <1>1 DEF LRTypes
        <4>2. Len(queue[v]) \in Nat \ {0} /\ Head(queue[v]) = queue[v][1]
          BY <3>1, <4>1
        <4>3. /\ Len(Tail(queue[v])) = Len(queue[v]) - 1
              /\ \A i \in 1 .. Len(queue[v]) - 1 : Tail(queue[v])[i] = queue[v][i + 1]
          BY <3>1, <4>1
        <4> QED
          BY <1>1, <3>1, <4>2, <4>3 DEF LRTypes
      <3>3. \A u \in LFThread : Len(queue[u]) \in Nat
        BY <1>1 DEF LRTypes
      <3>4. ASSUME NEW p \in EventPlaces'
            PROVE  /\ f[p] \in EventPlaces /\ EventAt(f[p]) = EventAt(p)'
                   /\ \E u \in LFThread : \E i \in Nat :
                        p = <<u, i>> /\ f[p] = IF u = t /\ i = 0 THEN <<v, 1>>
                                               ELSE IF u = v /\ i >= 1 THEN <<v, i + 1>> ELSE p
        <4>1. PICK u \in LFThread : \E i \in 0 .. Len(queue'[u]) : p = <<u, i>>
          BY OsPlaceNext
        <4>2. PICK i \in 0 .. Len(queue'[u]) : p = <<u, i>>
          BY <4>1
        <4>3. i \in Nat /\ p \in LFThread \X Nat
          BY <3>2, <3>3, <4>2
        <4>4. f[p] = IF u = t /\ i = 0 THEN <<v, 1>> ELSE IF u = v /\ i >= 1 THEN <<v, i + 1>> ELSE p
          BY <4>2, <4>3
        <4>5. EventAt(p)' = IF i = 0 THEN lev'[u] ELSE queue'[u][i]
          BY <4>2, OsPlaceNext
        <4>6. CASE u = t /\ i = 0
          <5>1. <<v, 1>> \in EventPlaces /\ EventAt(<<v, 1>>) = queue[v][1]
            BY <3>2, OsPlace
          <5> QED
            BY <3>2, <4>2, <4>3, <4>4, <4>5, <4>6, <5>1
        <4>7. CASE u = v /\ i >= 1
          <5>1. i + 1 \in 0 .. Len(queue[v]) /\ i + 1 # 0 /\ queue'[v][i] = queue[v][i + 1]
            BY <3>2, <4>2, <4>3, <4>7
          <5>2. <<v, i + 1>> \in EventPlaces /\ EventAt(<<v, i + 1>>) = queue[v][i + 1]
            BY <5>1, OsPlace
          <5>3. f[p] = <<v, i + 1>> /\ EventAt(p)' = queue'[v][i]
            BY <3>1, <4>3, <4>4, <4>5, <4>7
          <5> QED
            BY <4>2, <4>3, <4>4, <5>1, <5>2, <5>3
        <4>8. CASE ~(u = t /\ i = 0) /\ ~(u = v /\ i >= 1)
          <5>1. i \in 0 .. Len(queue[u])
            BY <3>2, <3>3, <4>2, <4>8
          <5>2. p \in EventPlaces /\ EventAt(p) = IF i = 0 THEN lev[u] ELSE queue[u][i]
            BY <4>2, <5>1, OsPlace
          <5>3. f[p] = p /\ EventAt(p)' = EventAt(p)
            BY <3>2, <4>2, <4>3, <4>4, <4>5, <4>8, <5>2
          <5> QED
            BY <4>2, <4>3, <4>4, <5>2, <5>3
        <4> QED
          BY <4>6, <4>7, <4>8
      <3>5. ASSUME NEW p \in EventPlaces, NEW n \in sourced \ off, EventAt(p) = Source(n)
            PROVE  \E q \in EventPlaces' : EventAt(q)' = Source(n)
        <4>1. PICK u \in LFThread : \E i \in 0 .. Len(queue[u]) : p = <<u, i>>
          BY OsPlace
        <4>2. PICK i \in 0 .. Len(queue[u]) : p = <<u, i>>
          BY <4>1
        <4>3. i \in Nat /\ EventAt(p) = IF i = 0 THEN lev[u] ELSE queue[u][i]
          BY <3>3, <4>2, OsPlace
        <4>4. CASE u = v /\ i = 1
          <5>1. <<t, 0>> \in EventPlaces' /\ EventAt(<<t, 0>>)' = lev'[t]
            BY <3>2, <3>3, OsPlaceNext
          <5> QED
            BY <3>2, <3>5, <4>3, <4>4, <5>1
        <4>5. CASE u = v /\ i > 1
          <5>1. i - 1 \in 0 .. Len(queue'[v]) /\ i - 1 # 0 /\ queue'[v][i - 1] = queue[v][i]
            <6>1. PICK m \in Nat : m = i - 1
              BY <4>3, <4>5
            <6>2. m \in 1 .. Len(queue'[v]) /\ m + 1 = i
              BY <3>2, <4>2, <4>3, <4>5, <6>1
            <6> QED
              BY <3>2, <6>1, <6>2
          <5>2. <<v, i - 1>> \in EventPlaces' /\ EventAt(<<v, i - 1>>)' = queue'[v][i - 1]
            BY <5>1, OsPlaceNext
          <5> QED
            BY <3>5, <4>3, <4>5, <5>1, <5>2
        <4>6. CASE u # v \/ i = 0
          <5>1. ~(u = t /\ i = 0)
            BY <1>2, <3>5, <4>3, OsSources
          <5>2. i \in 0 .. Len(queue'[u])
            BY <3>2, <3>3, <4>2, <4>3, <4>6
          <5>3. p \in EventPlaces' /\ EventAt(p)' = IF i = 0 THEN lev'[u] ELSE queue'[u][i]
            BY <4>2, <5>2, OsPlaceNext
          <5>4. EventAt(p)' = EventAt(p)
            BY <3>2, <4>2, <4>3, <4>6, <5>1, <5>3
          <5> QED
            BY <3>5, <5>3, <5>4
        <4> QED
          BY <4>3, <4>4, <4>5, <4>6
      <3> HIDE DEF f
      <3>6. ASSUME NEW p \in EventPlaces', NEW q \in EventPlaces', f[p] = f[q]
            PROVE  p = q
        <4>1. PICK u \in LFThread : \E i \in Nat :
                p = <<u, i>> /\ f[p] = IF u = t /\ i = 0 THEN <<v, 1>>
                                       ELSE IF u = v /\ i >= 1 THEN <<v, i + 1>> ELSE p
          BY <3>4
        <4>2. PICK i \in Nat :
                p = <<u, i>> /\ f[p] = IF u = t /\ i = 0 THEN <<v, 1>>
                                       ELSE IF u = v /\ i >= 1 THEN <<v, i + 1>> ELSE p
          BY <4>1
        <4>3. PICK w \in LFThread : \E j \in Nat :
                q = <<w, j>> /\ f[q] = IF w = t /\ j = 0 THEN <<v, 1>>
                                       ELSE IF w = v /\ j >= 1 THEN <<v, j + 1>> ELSE q
          BY <3>4
        <4>4. PICK j \in Nat :
                q = <<w, j>> /\ f[q] = IF w = t /\ j = 0 THEN <<v, 1>>
                                       ELSE IF w = v /\ j >= 1 THEN <<v, j + 1>> ELSE q
          BY <4>3
        <4> QED
          BY <3>1, <3>6, <4>2, <4>4
      <3> QED
        BY <1>2, <3>4, <3>5, <3>6, OsFollows DEF OsInv
    <2> QED
      BY <2>1, <2>2
  <1> QED
    BY <1>5, <1>6 DEF OsInv
-----------------------------------------------------------------------------
\* What an execution brings holds no source's event but the one that was executed, once.
OsNone(s) == s \in Seq(LFEvent) /\ \A i \in 1 .. Len(s) : \A n \in Nat : s[i] # Source(n)
OsMost(s, e) ==
  /\ s \in Seq(LFEvent)
  /\ \A i \in 1 .. Len(s) : \A n \in Nat : s[i] = Source(n) => e = Source(n)
  /\ \A i, j \in 1 .. Len(s) : \A n \in Nat : s[i] = Source(n) /\ s[j] = Source(n) => i = j
OsHas(s, n) == \E i \in 1 .. Len(s) : s[i] = Source(n)

LEMMA OsBefore ==
  ASSUME NEW e, NEW s, NEW s2, OsNone(s), OsMost(s2, e)
  PROVE  OsMost(s \o s2, e) /\ \A n \in Nat : OsHas(s2, n) => OsHas(s \o s2, n)
  <1> DEFINE a == Len(s)
             b == Len(s2)
             c == s \o s2
  <1>1. s \in Seq(LFEvent) /\ s2 \in Seq(LFEvent)
    BY DEF OsNone, OsMost
  <1>2. /\ c \in Seq(LFEvent) /\ Len(c) = a + b /\ a \in Nat /\ b \in Nat
        /\ \A i \in 1 .. a + b : c[i] = IF i <= a THEN s[i] ELSE s2[i - a]
    BY <1>1
  <1> HIDE DEF a, b, c
  <1>3. \A i \in 1 .. Len(c) : \A n \in Nat : c[i] = Source(n) => i - a \in 1 .. b /\ s2[i - a] = Source(n)
    BY <1>2 DEF OsNone, a
  <1>4. OsMost(c, e)
    <2>1. ASSUME NEW i \in 1 .. Len(c), NEW j \in 1 .. Len(c), NEW n \in Nat, c[i] = Source(n), c[j] = Source(n)
          PROVE  i = j /\ e = Source(n)
      <3>1. i - a \in 1 .. b /\ s2[i - a] = Source(n) /\ j - a \in 1 .. b /\ s2[j - a] = Source(n)
        BY <1>3, <2>1
      <3>2. i - a = j - a /\ e = Source(n)
        BY <3>1 DEF OsMost, b
      <3> QED
        BY <1>2, <3>2
    <2> QED
      BY <1>2, <2>1 DEF OsMost
  <1>5. ASSUME NEW n \in Nat, OsHas(s2, n)
        PROVE  OsHas(c, n)
    <2>1. PICK i \in 1 .. b : s2[i] = Source(n)
      BY <1>5 DEF OsHas, b
    <2>2. PICK k \in 1 .. a + b : k = i + a
      BY <1>2, <2>1
    <2>3. c[k] = Source(n)
      BY <1>2, <2>1, <2>2
    <2> QED
      BY <1>2, <2>3 DEF OsHas
  <1> QED
    BY <1>4, <1>5 DEF c

LEMMA OsAfter ==
  ASSUME NEW e, NEW s, NEW s2, OsMost(s, e), OsNone(s2)
  PROVE  OsMost(s \o s2, e) /\ \A n \in Nat : OsHas(s, n) => OsHas(s \o s2, n)
  <1> DEFINE a == Len(s)
             b == Len(s2)
             c == s \o s2
  <1>1. s \in Seq(LFEvent) /\ s2 \in Seq(LFEvent)
    BY DEF OsNone, OsMost
  <1>2. /\ c \in Seq(LFEvent) /\ Len(c) = a + b /\ a \in Nat /\ b \in Nat
        /\ \A i \in 1 .. a + b : c[i] = IF i <= a THEN s[i] ELSE s2[i - a]
    BY <1>1
  <1> HIDE DEF a, b, c
  <1>3. \A i \in 1 .. Len(c) : \A n \in Nat : c[i] = Source(n) => i \in 1 .. a /\ s[i] = Source(n)
    <2>1. ASSUME NEW i \in 1 .. Len(c), NEW n \in Nat, c[i] = Source(n)
          PROVE  i \in 1 .. a /\ s[i] = Source(n)
      <3>1. i - a \in 1 .. b => s2[i - a] # Source(n)
        BY DEF OsNone, b
      <3> QED
        BY <1>2, <2>1, <3>1
    <2> QED
      BY <2>1
  <1>4. OsMost(c, e)
    BY <1>2, <1>3 DEF OsMost, a
  <1>5. \A n \in Nat : OsHas(s, n) => OsHas(c, n)
    BY <1>2 DEF OsHas, a
  <1> QED
    BY <1>4, <1>5 DEF c

LEMMA OsPushOrder ==
  ASSUME NEW e, NEW again, NEW plain, NEW guarded, NEW allow,
         OsMost(again, e), OsNone(plain), OsNone(guarded)
  PROVE  /\ OsMost(PushOrder(again, plain, guarded, allow), e)
         /\ \A n \in Nat : OsHas(again, n) => OsHas(PushOrder(again, plain, guarded, allow), n)
  <1>1. PICK s : s = IF allow < 0 THEN again \o plain ELSE plain \o again
    OBVIOUS
  <1>2. OsMost(s, e) /\ \A n \in Nat : OsHas(again, n) => OsHas(s, n)
    BY <1>1, OsBefore, OsAfter
  <1>3. OsMost(s \o guarded, e) /\ \A n \in Nat : OsHas(s, n) => OsHas(s \o guarded, n)
    BY <1>2, OsAfter
  <1>4. PushOrder(again, plain, guarded, allow) = s \o guarded
    BY <1>1 DEF PushOrder
  <1> QED
    BY <1>2, <1>3, <1>4

\* Only an event of a source looks like one.
LEMMA OsKind == \A e \in LFEvent \cup {NoEv} : \A n \in Nat :
                  (e.kind = "source" /\ e.flow = n) <=> e = Source(n)
  BY DEF LFEvent, NoEv, Source

LEMMA OsHandle ==
  ASSUME LRInv, OsInv, NEW t \in LFThread, Handle(t)
  PROVE  OsInv'
  <1>1. LRTypes /\ lev[t] \in LFEvent \cup {NoEv} /\ queue[t] \in Seq(LFEvent)
    BY DEF LRInv, LRTypes
  <1>2. /\ lpc[t] = "exec" /\ lpc' = [lpc EXCEPT ![t] = "wake"] /\ lev' = [lev EXCEPT ![t] = NoEv]
        /\ flows' = flows /\ sourced' = sourced /\ off' = off /\ softLoad' = softLoad
    BY DEF Handle, RunGoes, Kept
  <1>3. PICK add : /\ queue' = [queue EXCEPT ![t] = queue[t] \o add]
                   /\ OsMost(add, lev[t]) /\ \A n \in Nat \ off : lev[t] = Source(n) => OsHas(add, n)
    <2>0. PICK plain \in {<<>>, <<Plain>>}, guarded \in {<<>>, <<Guarded>>} :
            \E allow : queue' = [queue EXCEPT ![t] = queue[t] \o PushOrder(Again(lev[t]), plain, guarded, allow)]
      BY DEF Handle
    <2>1. PICK allow : queue' = [queue EXCEPT ![t] = queue[t] \o PushOrder(Again(lev[t]), plain, guarded, allow)]
      BY <2>0
    <2>2. OsNone(plain) /\ OsNone(guarded)
      <3>1. OsNone(<<>>)
        BY DEF OsNone
      <3>2. \A c \in LFEvent : (\A n \in Nat : c # Source(n)) => OsNone(<<c>>)
        BY DEF OsNone
      <3> QED
        BY <3>1, <3>2, LREvents, OsSources
    <2>3. OsMost(Again(lev[t]), lev[t])
      <3>1. CASE lev[t].kind = "source" /\ lev[t].flow \notin off
        <4>1. Again(lev[t]) = <<lev[t]>> /\ lev[t] \in LFEvent
          BY <1>1, <3>1, LREvents DEF Again
        <4> QED
          BY <4>1 DEF OsMost
      <3>2. CASE ~(lev[t].kind = "source" /\ lev[t].flow \notin off)
        BY <3>2 DEF Again, OsMost
      <3> QED
        BY <3>1, <3>2
    <2>4. ASSUME NEW n \in Nat \ off, lev[t] = Source(n)
          PROVE  OsHas(Again(lev[t]), n)
      <3>1. Again(lev[t]) = <<lev[t]>>
        BY <2>4, OsSources DEF Again
      <3> QED
        BY <2>4, <3>1 DEF OsHas
    <2> QED
      BY <2>1, <2>2, <2>3, <2>4, OsPushOrder
  <1>4. OsLoads'
    <2>1. \A u \in LFThread : (OsLoading(u)' => OsLoading(u)) /\ (lpc[u] = "loaded" => lpc'[u] = "loaded")
      BY <1>1, <1>2 DEF LRTypes, OsLoading
    <2> QED
      BY <1>2, <2>1, OsGoes DEF OsInv
  <1>5. OsEvents'
    <2> DEFINE last == Len(queue[t])
               f == [p \in LFThread \X Nat |-> IF p[1] = t /\ p[2] > last THEN <<t, 0>> ELSE p]
    <2>1. /\ last \in Nat /\ Len(add) \in Nat /\ lev'[t] = NoEv /\ Len(queue'[t]) = last + Len(add)
          /\ \A i \in 1 .. last + Len(add) : queue'[t][i] = IF i <= last THEN queue[t][i] ELSE add[i - last]
          /\ \A u \in LFThread \ {t} : queue'[u] = queue[u] /\ lev'[u] = lev[u]
      <3>1. add \in Seq(LFEvent)
        BY <1>3 DEF OsMost
      <3>2. /\ Len(queue[t] \o add) = last + Len(add) /\ last \in Nat /\ Len(add) \in Nat
            /\ \A i \in 1 .. last + Len(add) : (queue[t] \o add)[i] = IF i <= last THEN queue[t][i] ELSE add[i - last]
        BY <1>1, <3>1
      <3> QED
        BY <1>1, <1>2, <1>3, <3>2 DEF LRTypes
    <2>2. \A u \in LFThread : Len(queue[u]) \in Nat
      BY <1>1 DEF LRTypes
    <2>3. ASSUME NEW p \in EventPlaces', NEW n \in Nat, EventAt(p)' = Source(n)
          PROVE  /\ f[p] \in EventPlaces /\ EventAt(f[p]) = Source(n)
                 /\ \E u \in LFThread : \E i \in Nat :
                      /\ p = <<u, i>> /\ ~(u = t /\ i = 0)
                      /\ f[p] = IF u = t /\ i > last THEN <<t, 0>> ELSE p
                      /\ u = t /\ i > last => i - last \in 1 .. Len(add) /\ add[i - last] = Source(n)
      <3>1. PICK u \in LFThread : \E i \in 0 .. Len(queue'[u]) : p = <<u, i>>
        BY OsPlaceNext
      <3>2. PICK i \in 0 .. Len(queue'[u]) : p = <<u, i>>
        BY <3>1
      <3>3. i \in Nat /\ p \in LFThread \X Nat
        BY <2>1, <2>2, <3>2
      <3>4. f[p] = IF u = t /\ i > last THEN <<t, 0>> ELSE p
        BY <3>2, <3>3
      <3>5. EventAt(p)' = IF i = 0 THEN lev'[u] ELSE queue'[u][i]
        BY <3>2, OsPlaceNext
      <3>6. ~(u = t /\ i = 0)
        BY <2>1, <2>3, <3>5, OsSources
      <3>7. CASE u = t /\ i > last
        <4>1. i - last \in 1 .. Len(add) /\ queue'[t][i] = add[i - last] /\ i # 0
          BY <2>1, <3>2, <3>3, <3>7
        <4>2. add[i - last] = Source(n)
          BY <2>3, <3>5, <3>7, <4>1
        <4>3. lev[t] = Source(n)
          BY <1>3, <4>1, <4>2 DEF OsMost
        <4>4. <<t, 0>> \in EventPlaces /\ EventAt(<<t, 0>>) = lev[t]
          BY <2>1, OsPlace
        <4> QED
          BY <3>2, <3>3, <3>4, <3>6, <3>7, <4>1, <4>2, <4>3, <4>4
      <3>8. CASE ~(u = t /\ i > last)
        <4>1. i \in 0 .. Len(queue[u])
          BY <2>1, <2>2, <3>2, <3>3, <3>8
        <4>2. p \in EventPlaces /\ EventAt(p) = IF i = 0 THEN lev[u] ELSE queue[u][i]
          BY <3>2, <4>1, OsPlace
        <4>3. EventAt(p)' = EventAt(p)
          BY <2>1, <3>2, <3>3, <3>5, <3>6, <3>8, <4>2
        <4> QED
          BY <2>3, <3>2, <3>3, <3>4, <3>6, <3>8, <4>2, <4>3
      <3> QED
        BY <3>7, <3>8
    <2>4. ASSUME NEW p \in EventPlaces, NEW n \in sourced \ off, EventAt(p) = Source(n)
          PROVE  \E q \in EventPlaces' : EventAt(q)' = Source(n)
      <3>0. n \in Nat \ off
        BY DEF OsInv, OsLoads
      <3>1. PICK u \in LFThread : \E i \in 0 .. Len(queue[u]) : p = <<u, i>>
        BY OsPlace
      <3>2. PICK i \in 0 .. Len(queue[u]) : p = <<u, i>>
        BY <3>1
      <3>3. i \in Nat /\ EventAt(p) = IF i = 0 THEN lev[u] ELSE queue[u][i]
        BY <2>2, <3>2, OsPlace
      <3>4. CASE u = t /\ i = 0
        <4>1. OsHas(add, n)
          BY <1>3, <2>4, <3>0, <3>3, <3>4
        <4>2. PICK k \in 1 .. Len(add) : add[k] = Source(n)
          BY <4>1 DEF OsHas
        <4>3. PICK m \in Nat : m = k + last
          BY <2>1, <4>2
        <4>4. m \in 0 .. Len(queue'[t]) /\ m # 0 /\ queue'[t][m] = Source(n)
          BY <2>1, <4>2, <4>3, SMTT(30)
        <4> QED
          BY <4>4, OsPlaceNext
      <3>5. CASE ~(u = t /\ i = 0)
        <4>1. i \in 0 .. Len(queue'[u])
          BY <2>1, <2>2, <3>2, <3>3, <3>5
        <4>2. p \in EventPlaces' /\ EventAt(p)' = IF i = 0 THEN lev'[u] ELSE queue'[u][i]
          BY <3>2, <4>1, OsPlaceNext
        <4>3. EventAt(p)' = EventAt(p)
          BY <2>1, <3>2, <3>3, <3>5, <4>2
        <4> QED
          BY <2>4, <4>2, <4>3
      <3> QED
        BY <3>4, <3>5
    <2> HIDE DEF f, last
    <2>5. ASSUME NEW p \in EventPlaces', NEW q \in EventPlaces', NEW n \in Nat,
                 EventAt(p)' = Source(n), EventAt(q)' = Source(n), f[p] = f[q]
          PROVE  p = q
      <3>1. PICK u \in LFThread, i \in Nat :
               /\ p = <<u, i>> /\ ~(u = t /\ i = 0)
               /\ f[p] = IF u = t /\ i > last THEN <<t, 0>> ELSE p
               /\ u = t /\ i > last => i - last \in 1 .. Len(add) /\ add[i - last] = Source(n)
        BY <2>3, <2>5
      <3>2. PICK w \in LFThread, j \in Nat :
               /\ q = <<w, j>> /\ ~(w = t /\ j = 0)
               /\ f[q] = IF w = t /\ j > last THEN <<t, 0>> ELSE q
               /\ w = t /\ j > last => j - last \in 1 .. Len(add) /\ add[j - last] = Source(n)
        BY <2>3, <2>5
      <3>3. CASE u = t /\ i > last /\ w = t /\ j > last
        <4>1. i - last = j - last
          BY <1>3, <3>1, <3>2, <3>3 DEF OsMost
        <4> QED
          BY <2>1, <3>1, <3>2, <3>3, <4>1
      <3>4. CASE ~(u = t /\ i > last /\ w = t /\ j > last)
        BY <2>5, <3>1, <3>2, <3>4
      <3> QED
        BY <3>3, <3>4
    <2> QED
      BY <1>2, <2>3, <2>4, <2>5, OsFollows, SMTT(30) DEF OsInv
  <1> QED
    BY <1>4, <1>5 DEF OsInv
-----------------------------------------------------------------------------
\* The source of a new flow is on at once; one thread loads.
LEMMA OsLoad ==
  ASSUME LRInv, OsInv, NEW t \in LFThread, Load(t)
  PROVE  OsInv'
  <1>1. LRTypes /\ queue[t] \in Seq(LFEvent) /\ flows \in Nat \ {0}
    BY DEF LRInv, LRTypes, OsInv, OsLoads
  <1>2. /\ lpc[t] = "load" /\ lpc' = [lpc EXCEPT ![t] = "loaded"] /\ lev' = lev
        /\ flows' = flows + 1 /\ off' = off /\ softLoad' = softLoad
    BY DEF Load, RunGoes
  <1>3. \/ sourced' = sourced /\ queue' = queue
        \/ sourced' = sourced \cup {flows + 1} /\ queue' = [queue EXCEPT ![t] = Append(queue[t], Source(flows + 1))]
    <2>1. PICK src \in LFSources : /\ sourced' = IF src THEN sourced \cup {flows'} ELSE sourced
                                   /\ queue' = [queue EXCEPT ![t] = IF src THEN Append(queue[t], Source(flows')) ELSE queue[t]]
      BY DEF Load
    <2>2. CASE src
      BY <1>2, <2>1, <2>2
    <2>3. CASE ~src
      BY <1>1, <2>1, <2>3 DEF LRTypes
    <2> QED
      BY <2>2, <2>3
  <1>4. /\ OsLoading(t) /\ \A u \in LFThread : OsLoading(u) => u = t
        /\ \A u \in LFThread : (OsLoading(u)' <=> OsLoading(u)) /\ lpc'[t] = "loaded"
    BY <1>1, <1>2 DEF LRTypes, OsLoading, OsInv, OsLoads
  <1>5. sourced \ off \subseteq {flows} /\ sourced \subseteq 1 .. flows
    BY <1>2, <1>4 DEF OsLoading, OsInv, OsLoads
  <1>6. OsLoads'
    <2>1. flows' \in Nat \ {0} /\ sourced' \subseteq 1 .. flows' /\ sourced' \ off' \subseteq {flows', flows' - 1}
      <3>1. sourced' \subseteq sourced \cup {flows + 1}
        BY <1>3
      <3>2. 1 .. flows \subseteq 1 .. flows + 1 /\ flows + 1 \in 1 .. flows + 1 /\ flows + 1 - 1 = flows
        BY <1>1
      <3>3. sourced' \ off' \subseteq {flows, flows + 1}
        BY <1>2, <1>5, <3>1
      <3> QED
        BY <1>1, <1>2, <1>5, <3>1, <3>2, <3>3
    <2>2. (\A u \in LFThread : OsLoading(u)' => ~softLoad') /\ (\A u, w \in LFThread : OsLoading(u)' /\ OsLoading(w)' => w = u)
      BY <1>2, <1>4 DEF OsInv, OsLoads
    <2>3. ~\A u \in LFThread : lpc'[u] # "loaded"
      BY <1>4
    <2> QED
      BY <2>1, <2>2, <2>3 DEF OsLoads
  <1>7. OsEvents'
    <2>1. CASE sourced' = sourced /\ queue' = queue
      <3>1. EventPlaces' = EventPlaces /\ \A p : EventAt(p)' = EventAt(p)
        BY <1>2, <2>1 DEF EventPlaces, EventAt
      <3> QED
        BY <1>1, <1>2, <2>1, <3>1 DEF OsInv, OsEvents, OsOnce, OsThere, OsOld
    <2>2. CASE sourced' = sourced \cup {flows + 1} /\ queue' = [queue EXCEPT ![t] = Append(queue[t], Source(flows + 1))]
      <3>0. PICK m : m = Len(queue[t]) + 1
        OBVIOUS
      <3> DEFINE new == <<t, m>>
      <3>1. /\ Len(queue[t]) \in Nat /\ Len(queue'[t]) = Len(queue[t]) + 1 /\ queue'[t][Len(queue[t]) + 1] = Source(flows + 1)
            /\ \A i \in 1 .. Len(queue[t]) : queue'[t][i] = queue[t][i]
            /\ \A u \in LFThread \ {t} : queue'[u] = queue[u]
        <4>1. queue'[t] = Append(queue[t], Source(flows + 1)) /\ \A u \in LFThread \ {t} : queue'[u] = queue[u]
          BY <1>1, <2>2 DEF LRTypes
        <4> QED
          BY <1>1, <4>1
      <3>2. \A u \in LFThread : Len(queue[u]) \in Nat
        BY <1>1 DEF LRTypes
      <3>3. new \in EventPlaces' /\ EventAt(new)' = Source(flows + 1)
        <4>1. m \in 0 .. Len(queue'[t]) /\ m # 0 /\ queue'[t][m] = Source(flows + 1)
          BY <3>0, <3>1
        <4> QED
          BY <4>1, OsPlaceNext
      <3>4. ASSUME NEW p \in EventPlaces', p # new
            PROVE  p \in EventPlaces /\ EventAt(p)' = EventAt(p)
        <4>1. PICK u \in LFThread : \E i \in 0 .. Len(queue'[u]) : p = <<u, i>>
          BY OsPlaceNext
        <4>2. PICK i \in 0 .. Len(queue'[u]) : p = <<u, i>>
          BY <4>1
        <4>3. i \in 0 .. Len(queue[u])
          BY <3>0, <3>1, <3>2, <3>4, <4>2
        <4>4. p \in EventPlaces /\ EventAt(p) = IF i = 0 THEN lev[u] ELSE queue[u][i]
          BY <4>2, <4>3, OsPlace
        <4>5. EventAt(p)' = IF i = 0 THEN lev'[u] ELSE queue'[u][i]
          BY <4>2, OsPlaceNext
        <4>6. EventAt(p)' = EventAt(p)
          BY <1>2, <3>1, <4>3, <4>4, <4>5
        <4> QED
          BY <4>4, <4>6
      <3>5. ASSUME NEW p \in EventPlaces
            PROVE  p \in EventPlaces' /\ EventAt(p)' = EventAt(p)
        <4>1. PICK u \in LFThread : \E i \in 0 .. Len(queue[u]) : p = <<u, i>>
          BY OsPlace
        <4>2. PICK i \in 0 .. Len(queue[u]) : p = <<u, i>>
          BY <4>1
        <4>3. i \in 0 .. Len(queue'[u])
          BY <3>1, <3>2, <4>2
        <4>4. p \in EventPlaces' /\ EventAt(p)' = IF i = 0 THEN lev'[u] ELSE queue'[u][i]
          BY <4>2, <4>3, OsPlaceNext
        <4>5. EventAt(p) = IF i = 0 THEN lev[u] ELSE queue[u][i]
          BY <4>2, OsPlace
        <4>6. EventAt(p)' = EventAt(p)
          BY <1>2, <3>1, <4>2, <4>4, <4>5
        <4> QED
          BY <4>4, <4>6
      <3> HIDE DEF new
      <3>6. \A p \in EventPlaces : \A n \in Nat : EventAt(p) = Source(n) => n <= flows
        BY DEF OsInv, OsEvents, OsOld
      <3>7. OsOnce'
        <4>1. ASSUME NEW p \in EventPlaces', NEW q \in EventPlaces', NEW n \in Nat,
                     EventAt(p)' = Source(n), EventAt(q)' = Source(n)
              PROVE  p = q
          <5>1. CASE n = flows + 1
            BY <1>1, <3>4, <3>6, <4>1, <5>1
          <5>2. CASE n # flows + 1
            <6>1. p # new /\ q # new
              BY <3>3, <4>1, <5>2, OsSources
            <6> QED
              BY <3>4, <4>1, <6>1 DEF OsInv, OsEvents, OsOnce
          <5> QED
            BY <5>1, <5>2
        <4> QED
          BY <4>1 DEF OsOnce
      <3>8. OsThere'
        BY <1>2, <2>2, <3>3, <3>5 DEF OsInv, OsEvents, OsThere
      <3>9. OsOld'
        <4>1. ASSUME NEW p \in EventPlaces', NEW n \in Nat, EventAt(p)' = Source(n)
              PROVE  n <= flows + 1
          <5>1. CASE p = new
            BY <1>1, <3>3, <4>1, <5>1, OsSources
          <5>2. CASE p # new
            BY <1>1, <3>4, <3>6, <4>1, <5>2
          <5> QED
            BY <5>1, <5>2
        <4> QED
          BY <1>2, <4>1 DEF OsOld
      <3> QED
        BY <3>7, <3>8, <3>9 DEF OsEvents
    <2> QED
      BY <1>3, <2>1, <2>2
  <1> QED
    BY <1>6, <1>7 DEF OsInv

\* Then the old one is off.
LEMMA OsLoaded ==
  ASSUME LRInv, OsInv, NEW t \in LFThread, Loaded(t)
  PROVE  OsInv'
  <1>1. LRTypes /\ flows \in Nat \ {0}
    BY DEF LRInv, OsInv, OsLoads
  <1>2. /\ lpc[t] = "loaded" /\ lpc' = [lpc EXCEPT ![t] = "pop"] /\ queue' = queue /\ lev' = lev
        /\ flows' = flows /\ off' = off \cup {flows - 1} /\ softLoad' = softLoad /\ sourced' = sourced
    BY DEF Loaded, RunGoes
  <1>3. OsEvents'
    BY <1>2, OsRests DEF OsInv
  <1>4. \A u \in LFThread : OsLoading(u)' => OsLoading(u)
    BY <1>1, <1>2 DEF LRTypes, OsLoading
  <1>5. sourced' \ off' \subseteq {flows'}
    BY <1>2 DEF OsInv, OsLoads
  <1>6. OsLoads'
    BY <1>2, <1>4, <1>5 DEF OsInv, OsLoads
  <1> QED
    BY <1>3, <1>6 DEF OsInv

\* One thread takes the request to load, if it goes on.
LEMMA OsLoop ==
  ASSUME LRInv, OsInv, NEW t \in LFThread, Loop(t)
  PROVE  OsInv'
  <1>1. LRTypes
    BY DEF LRInv
  <1>2. /\ lpc[t] = "loop" /\ queue' = queue /\ lev' = lev
        /\ lpc' = [lpc EXCEPT ![t] = IF stop[t] \/ death THEN "out" ELSE IF softLoad THEN "load" ELSE "pop"]
        /\ softLoad' = (softLoad /\ (stop[t] \/ death))
        /\ flows' = flows /\ off' = off /\ sourced' = sourced
    BY DEF Loop, RunGoes
  <1>3. OsEvents'
    BY <1>2, OsRests DEF OsInv
  <1>4. CASE softLoad /\ ~(stop[t] \/ death)
    <2>1. lpc'[t] = "load" /\ ~softLoad' /\ \A u \in LFThread : u # t => lpc'[u] = lpc[u]
      BY <1>1, <1>2, <1>4 DEF LRTypes
    <2>2. \A u \in LFThread : ~OsLoading(u)
      BY <1>4 DEF OsInv, OsLoads
    <2>3. (\A u \in LFThread : OsLoading(u)' => u = t) /\ \A u \in LFThread : lpc[u] # "loaded"
      BY <2>1, <2>2 DEF OsLoading
    <2>4. sourced' \ off' \subseteq {flows'} /\ flows' \in Nat \ {0} /\ sourced' \subseteq 1 .. flows'
      BY <1>2, <2>3 DEF OsInv, OsLoads
    <2>5. OsLoads'
      BY <2>1, <2>3, <2>4 DEF OsLoads
    <2> QED
      BY <1>3, <2>5 DEF OsInv
  <1>5. CASE ~(softLoad /\ ~(stop[t] \/ death))
    <2>1. \A u \in LFThread : (OsLoading(u)' => OsLoading(u)) /\ (lpc[u] = "loaded" => lpc'[u] = "loaded")
      BY <1>1, <1>2, <1>5 DEF LRTypes, OsLoading
    <2>2. ~softLoad => ~softLoad'
      BY <1>2
    <2>3. OsLoads'
      BY <1>2, <2>1, <2>2, OsGoes DEF OsInv
    <2> QED
      BY <1>3, <2>3 DEF OsInv
  <1> QED
    BY <1>4, <1>5

LEMMA OsSoftLoad ==
  ASSUME OsInv, SoftLoad
  PROVE  OsInv'
  <1>1. /\ \A t \in LFThread : ~OsLoading(t)
        /\ lpc' = lpc /\ queue' = queue /\ lev' = lev /\ flows' = flows /\ off' = off /\ sourced' = sourced
    BY DEF SoftLoad, OsLoading
  <1>2. OsEvents'
    BY <1>1, OsRests DEF OsInv
  <1>3. \A t \in LFThread : ~OsLoading(t)'
    BY <1>1 DEF OsLoading
  <1>4. OsLoads'
    BY <1>1, <1>3 DEF OsInv, OsLoads
  <1> QED
    BY <1>2, <1>4 DEF OsInv

\* The steps that have nothing to do with events or flows.
LEMMA OsOther ==
  ASSUME LRInv, OsInv, NEW t \in LFThread, NEW l, NEW q, l # "load", l # "loaded", lpc[t] # "loaded",
         lpc' = [lpc EXCEPT ![t] = l] \/ lpc' = [Signal(lpc, q) EXCEPT ![t] = l],
         queue' = queue, lev' = lev, flows' = flows, sourced' = sourced, off' = off, softLoad' = softLoad
  PROVE  OsInv'
  <1>1. LRTypes
    BY DEF LRInv
  <1>2. OsEvents'
    BY OsRests DEF OsInv
  <1>3. \A u \in LFThread : u # t => lpc'[u] = lpc[u] \/ (lpc[u] = "parked" /\ lpc'[u] = "woken")
    BY <1>1 DEF LRTypes, Signal
  <1>4. lpc'[t] = l
    BY <1>1 DEF LRTypes, Signal
  <1>5. \A u \in LFThread : (OsLoading(u)' => OsLoading(u)) /\ (lpc[u] = "loaded" => lpc'[u] = "loaded")
    BY <1>3, <1>4 DEF OsLoading
  <1> QED
    BY <1>2, <1>5, OsGoes DEF OsInv
LEMMA OsOthers ==
  ASSUME LRInv, OsInv, NEW t \in LFThread,
         \/ Start(t) \/ Wake(t) \/ Waking(t) \/ Rest(t) \/ IncrSleepers(t) \/ Alone(t) \/ Park(t)
         \/ Woken(t) \/ Kill(t) \/ Killed(t) \/ Out(t) \/ Join(t) \/ Joined(t) \/ ExecKill(t) \/ SpuriousWake(t)
  PROVE  OsInv'
  <1>0. LRTypes
    BY DEF LRInv
  <1>1. /\ queue' = queue /\ lev' = lev /\ flows' = flows /\ sourced' = sourced /\ off' = off /\ softLoad' = softLoad
    BY DEF Start, Wake, Waking, Rest, IncrSleepers, Alone, Park, Woken, Kill, Killed, Out, Join, Joined,
           ExecKill, SpuriousWake, Kept
  <1>2. lpc[t] # "loaded"
    BY DEF Start, Wake, Waking, Rest, IncrSleepers, Alone, Park, Woken, Kill, Killed, Out, Join, Joined,
           ExecKill, SpuriousWake, RunGoes, Die
  <1>3. \E l, q : /\ l # "load" /\ l # "loaded"
                 /\ (lpc' = [lpc EXCEPT ![t] = l] \/ lpc' = [Signal(lpc, q) EXCEPT ![t] = l])
    <2>1. CASE \/ Start(t) \/ Wake(t) \/ Rest(t) \/ IncrSleepers(t) \/ Alone(t) \/ Park(t) \/ Woken(t)
              \/ Killed(t) \/ Out(t) \/ Joined(t) \/ ExecKill(t) \/ SpuriousWake(t)
      <3>1. \E l \in {"loop", "rest", "waking", "sleep", "parking", "alone", "out", "kill", "parked", "woken", "exec",
                      "join", "done"} : lpc' = [lpc EXCEPT ![t] = l]
        BY <2>1 DEF Start, Wake, Rest, IncrSleepers, Alone, Park, Woken, Killed, Out, Joined, ExecKill,
                    SpuriousWake, RunGoes
      <3> QED
        BY <3>1
    <2>2. CASE Kill(t) \/ Join(t)
      <3>1. PICK u, l : l \in {"killing", "joining"}
                        /\ lpc' = [(IF asleep[u] THEN Signal(lpc, u) ELSE lpc) EXCEPT ![t] = l]
        <4>1. CASE Kill(t)
          BY <4>1 DEF Kill, Die
        <4>2. CASE Join(t)
          BY <4>2 DEF Join, Die
        <4> QED
          BY <2>2, <4>1, <4>2
      <3>2. l # "load" /\ l # "loaded"
        BY <3>1
      <3>3. CASE asleep[u]
        BY <3>1, <3>2, <3>3
      <3>4. CASE ~asleep[u]
        BY <3>1, <3>2, <3>4
      <3> QED
        BY <3>3, <3>4
    <2>3. CASE Waking(t)
      <3>1. lpc[t] = "waking"
        BY <2>3 DEF Waking, RunGoes
      <3>2. CASE lpc' = [lpc EXCEPT ![t] = "rest"]
        BY <3>2
      <3>3. CASE lpc' # [lpc EXCEPT ![t] = "rest"]
        <4>1. PICK u : lpc' = IF asleep[u] THEN Signal(lpc, u) ELSE lpc
          BY <2>3, <3>3 DEF Waking, RunGoes
        <4>2. lpc = [lpc EXCEPT ![t] = "waking"] /\ Signal(lpc, u) = [Signal(lpc, u) EXCEPT ![t] = "waking"]
          BY <1>0, <3>1 DEF LRTypes, Signal
        <4>3. lpc' = [lpc EXCEPT ![t] = "waking"] \/ lpc' = [Signal(lpc, u) EXCEPT ![t] = "waking"]
          BY <4>1, <4>2
        <4> QED
          BY <4>3
      <3> QED
        BY <3>2, <3>3
    <2> QED
      BY <2>1, <2>2, <2>3
  <1>4. PICK l, q : /\ l # "load" /\ l # "loaded"
                    /\ (lpc' = [lpc EXCEPT ![t] = l] \/ lpc' = [Signal(lpc, q) EXCEPT ![t] = l])
    BY <1>3
  <1> QED
    BY <1>1, <1>2, <1>4, OsOther

LEMMA OsInitInv == LRInit => OsInv
  <1> SUFFICES ASSUME LRInit PROVE OsInv
    OBVIOUS
  <1>1. PICK src \in LFSources :
          /\ sourced = IF src THEN {1} ELSE {}
          /\ queue = [t \in LFThread |-> IF t # 0 THEN <<>> ELSE IF src THEN <<Plain, Source(1)>> ELSE <<Plain>>]
    BY DEF LRInit
  <1>2. flows = 1 /\ off = {} /\ \A t \in LFThread : lev[t] = NoEv /\ lpc[t] \in {"loop", "new"}
    BY DEF LRInit
  <1>3. 0 \in LFThread
    BY LFRunTimeAssumption DEF LFThread
  <1>4. OsLoads
    BY <1>1, <1>2 DEF OsLoads, OsLoading
  <1>5. ASSUME NEW p \in EventPlaces, NEW n \in Nat, EventAt(p) = Source(n)
        PROVE  src /\ p = <<0, 2>> /\ n = 1
    <2>1. PICK t \in LFThread : \E i \in 0 .. Len(queue[t]) : p = <<t, i>>
      BY OsPlace
    <2>2. PICK i \in 0 .. Len(queue[t]) : p = <<t, i>>
      BY <2>1
    <2>3. i # 0 /\ queue[t][i] = Source(n)
      BY <1>2, <1>5, <2>2, OsPlace, OsSources
    <2>4. CASE t = 0 /\ src
      <3>1. queue[t] = <<Plain, Source(1)>>
        BY <1>1, <2>4
      <3>2. i \in 1 .. 2 /\ queue[t][1] = Plain /\ queue[t][2] = Source(1)
        BY <2>2, <2>3, <3>1
      <3> QED
        BY <2>2, <2>3, <2>4, <3>2, OsSources
    <2>5. CASE t = 0 /\ ~src
      <3>1. queue[t] = <<Plain>>
        BY <1>1, <2>5
      <3>2. i = 1 /\ queue[t][1] = Plain
        BY <2>2, <2>3, <3>1
      <3> QED
        BY <2>3, <3>2, OsSources
    <2>6. CASE t # 0
      <3>1. queue[t] = <<>>
        BY <1>1, <2>6
      <3> QED
        BY <2>2, <2>3, <3>1
    <2> QED
      BY <2>4, <2>5, <2>6
  <1>6. OsOnce /\ OsOld
    BY <1>2, <1>5 DEF OsOnce, OsOld
  <1>7. OsThere
    <2>1. ASSUME src
          PROVE  <<0, 2>> \in EventPlaces /\ EventAt(<<0, 2>>) = Source(1)
      <3>1. queue[0] = <<Plain, Source(1)>>
        BY <1>1, <1>3, <2>1
      <3>2. Len(queue[0]) = 2 /\ queue[0][2] = Source(1)
        BY <3>1
      <3> QED
        BY <1>3, <3>2, OsPlace
    <2> QED
      BY <1>1, <2>1 DEF OsThere
  <1> QED
    BY <1>4, <1>6, <1>7 DEF OsInv, OsEvents

LEMMA OsNextInv == LRInv /\ OsInv /\ LRNext => OsInv'
  <1> SUFFICES ASSUME LRInv, OsInv, LRNext PROVE OsInv'
    OBVIOUS
  <1>1. CASE SoftLoad
    BY <1>1, OsSoftLoad
  <1>2. ASSUME NEW t \in LFThread, Step(t) \/ ExecKill(t) \/ SpuriousWake(t)
        PROVE  OsInv'
    BY <1>2, OsPop, OsSteal, OsHandle, OsLoad, OsLoaded, OsLoop, OsOthers DEF Step
  <1> QED
    BY <1>1, <1>2 DEF LRNext

LEMMA OsStutter == OsInv /\ lrvars' = lrvars => OsInv'
  <1> SUFFICES ASSUME OsInv, lrvars' = lrvars PROVE OsInv'
    OBVIOUS
  <1>1. /\ lpc' = lpc /\ queue' = queue /\ lev' = lev /\ flows' = flows /\ off' = off /\ sourced' = sourced
        /\ softLoad' = softLoad
    BY DEF lrvars
  <1>2. OsEvents'
    BY <1>1, OsRests DEF OsInv
  <1>3. OsLoads'
    BY <1>1 DEF OsInv, OsLoads, OsLoading
  <1> QED
    BY <1>2, <1>3 DEF OsInv

LEMMA OsInvMeans == OsInv => OneSource
  <1> SUFFICES ASSUME OsInv PROVE OneSource
    OBVIOUS
  <1>1. ASSUME NEW n \in 1 .. flows
        PROVE  /\ AboutOf(n) <= 1
               /\ (\E p \in EventPlaces : EventAt(p) = Source(n)) => AboutOf(n) = 1
    <2> DEFINE S == {p \in EventPlaces : EventAt(p) = Source(n)}
    <2>1. \A p, q \in S : p = q
      BY <1>1 DEF OsInv, OsEvents, OsOnce, OsLoads
    <2>2. S = {} \/ \E p : S = {p}
      BY <2>1
    <2>3. Cardinality(S) = IF S = {} THEN 0 ELSE 1
      BY <2>2, FS_EmptySet, FS_Singleton
    <2>4. AboutOf(n) = Cardinality(S)
      BY DEF AboutOf
    <2> QED
      BY <2>3, <2>4
  <1>2. \A n \in sourced \ off : AboutOf(n) = 1
    BY <1>1 DEF OsInv, OsEvents, OsThere, OsLoads
  <1> QED
    BY <1>1, <1>2 DEF OneSource, OsInv, OsLoads

\* A new flow takes the place of the one before while the threads run: there is
\* never a second event of a flow's source, in a queue or being executed, the
\* source of the active flow has its event, and once a load is over it is the
\* only one that is on (load_flow, Thread::start, Thread::handle).
THEOREM OneSourceCorrect == LFRSpec => []RunTimeOneSource
  <1> DEFINE Inv == part = "runtime" => LRInv /\ OsInv
  <1>1. LFRInit => Inv
    BY LRInitInv, OsInitInv DEF LFRInit
  <1>2. Inv /\ [LFRNext]_lfrvars => Inv'
    <2> SUFFICES ASSUME Inv, [LFRNext]_lfrvars, part' = "runtime" PROVE LRInv' /\ OsInv'
      OBVIOUS
    <2>1. part = "runtime" /\ (LRNext \/ lrvars' = lrvars)
      BY DEF LFRNext, lfrvars
    <2>2. CASE lrvars' = lrvars
      BY <2>1, <2>2, LRStutter, OsStutter DEF lrvars
    <2> QED
      BY <2>1, <2>2, LRNextInv, OsNextInv
  <1>3. Inv => RunTimeOneSource
    BY OsInvMeans DEF RunTimeOneSource
  <1> QED
    BY <1>1, <1>2, <1>3, PTL DEF LFRSpec

=============================================================================

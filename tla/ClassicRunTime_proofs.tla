------------------------ MODULE ClassicRunTime_proofs ------------------------
(***************************************************************************)
(* What ClassicRunTime's runs check for a few threads and events, for any  *)
(* number of them and any limits of the runtime.                           *)
(***************************************************************************)
EXTENDS ClassicRunTime, FiniteSetTheorems, TLAPS

\* Where a thread has an event in its hands.
Busy == {"node", "done", "stuck", "call", "called", "lonecall", "lonecalled",
         "detached", "back"} \cup WaitingToRun

Working == \A t \in Thread : pc[t] \in Busy => job[t] \in Event

\* One thread at most has the manager lock.
OneHolder == \A t, u \in Thread : pc[t] \in Holding /\ pc[u] \in Holding => t = u

\* Only a kill leaves a thread that is marked as detached where it should not.
MarkedAway == 
    running => \A t \in Thread : 
       /\ detached[t] => pc[t] \in {"call", "lonecall", "detached", "back"}
       /\ pc[t] # "stuck"

Living(p) == Thread \ In(p, {"none"})
Apart(p)  == In(p, {"detached", "back"})

IInv == CountsAgree /\ Working

-----------------------------------------------------------------------------
LEMMA SomeLimits == 
    /\ IsFiniteSet(Thread) /\ MaxThreads \in Nat \ {0} /\ MaxDetached \in Nat \ {0}
  <1>1. Cardinality(Thread) \in Nat
    BY LimitsAssumption, FS_CardinalityType
  <1> QED
    BY <1>1, LimitsAssumption

LEMMA FiniteCounts ==
    ASSUME NEW p
    PROVE  /\ IsFiniteSet(Living(p)) /\ Cardinality(Living(p)) \in Nat
           /\ IsFiniteSet(Apart(p)) /\ Cardinality(Apart(p)) \in Nat
  <1>1. Living(p) \subseteq Thread /\ Apart(p) \subseteq Thread
    BY DEF Living, Apart, In
  <1> QED
    BY <1>1, SomeLimits, FS_Subset, FS_CardinalityType

\* A thread that goes from one place to another, neither of them "none", is
\* still one of the threads; of the detached ones if both places are theirs.
LEMMA Moves ==
    ASSUME NEW p \in [Thread -> PC], NEW t \in Thread, NEW v \in PC,
           p[t] # "none", v # "none"
    PROVE  /\ [p EXCEPT ![t] = v] \in [Thread -> PC]
           /\ Living([p EXCEPT ![t] = v]) = Living(p)
           /\ (p[t] \in {"detached", "back"} <=> v \in {"detached", "back"}) =>
                 Apart([p EXCEPT ![t] = v]) = Apart(p)
  BY DEF Living, Apart, In

\* A thread that is created, or leaves, changes the number of threads by one.
LEMMA Created ==
    ASSUME NEW p \in [Thread -> PC], NEW n \in In(p, {"none"})
    PROVE  LET q == [p EXCEPT ![n] = "start"]
           IN  /\ q \in [Thread -> PC]
               /\ Cardinality(Living(q)) = Cardinality(Living(p)) + 1
               /\ Apart(q) = Apart(p)
               /\ n \in Thread /\ p[n] = "none" 
  <1> DEFINE q == [p EXCEPT ![n] = "start"]
  <1>1. n \in Thread /\ p[n] = "none" /\ q \in [Thread -> PC] /\ Apart(q) = Apart(p)
    BY DEF In, Apart, PC
  <1>2. Living(q) = Living(p) \cup {n} /\ n \notin Living(p)
    BY <1>1 DEF Living, In
  <1>3. IsFiniteSet(Living(p)) /\ Cardinality(Living(p)) \in Nat
    BY FiniteCounts
  <1> HIDE DEF q
  <1>4. Cardinality(Living(q)) = Cardinality(Living(p)) + 1
    BY <1>2, <1>3, FS_AddElement
  <1> QED
    BY <1>1, <1>4 DEF q

LEMMA Leaves ==
    ASSUME NEW p \in [Thread -> PC], NEW t \in Thread, p[t] = "loop"
    PROVE  LET q == [p EXCEPT ![t] = "none"]
           IN  /\ q \in [Thread -> PC]
               /\ Cardinality(Living(q)) = Cardinality(Living(p)) - 1
               /\ Cardinality(Living(p)) > 0
               /\ Apart(q) = Apart(p)
  <1> DEFINE q == [p EXCEPT ![t] = "none"]
  <1>1. q \in [Thread -> PC] /\ Apart(q) = Apart(p)
    BY DEF In, Apart, PC
  <1>2. Living(q) = Living(p) \ {t} /\ t \in Living(p)
    BY DEF Living, In
  <1>3. IsFiniteSet(Living(p)) /\ Cardinality(Living(p)) \in Nat
    BY FiniteCounts
  <1>4. IsFiniteSet(Living(q)) /\ Cardinality(Living(q)) \in Nat
    BY FiniteCounts
  <1> HIDE DEF q
  <1>5. Cardinality(Living(q)) = Cardinality(Living(p)) - 1
    BY <1>2, <1>3, FS_RemoveElement
  <1> QED
    BY <1>1, <1>3, <1>4, <1>5 DEF q

\* So does one that goes into a detached node, or comes out of it.
LEMMA GoesApart ==
    ASSUME NEW p \in [Thread -> PC], NEW t \in Thread, p[t] = "pop"
    PROVE  Cardinality(Apart([p EXCEPT ![t] = "detached"])) = Cardinality(Apart(p)) + 1
  <1> DEFINE q == [p EXCEPT ![t] = "detached"]
  <1>1. Apart(q) = Apart(p) \cup {t} /\ t \notin Apart(p)
    BY DEF In, Apart, PC
  <1>2. IsFiniteSet(Apart(p))
    BY FiniteCounts
  <1> QED
    BY <1>1, <1>2, FS_AddElement

LEMMA ComesBack ==
    ASSUME NEW p \in [Thread -> PC], NEW t \in Thread, p[t] = "back", 
           NEW v \in {"wtr_done", "done"}
    PROVE  /\ Cardinality(Apart([p EXCEPT ![t] = v])) = Cardinality(Apart(p)) - 1
           /\ Cardinality(Apart([p EXCEPT ![t] = v])) \in Nat
  <1> DEFINE q == [p EXCEPT ![t] = v]
  <1>1. Apart(q) = Apart(p) \ {t} /\ t \in Apart(p)
    BY DEF In, Apart, PC
  <1>2. IsFiniteSet(Apart(p)) /\ Cardinality(Apart(q)) \in Nat
    BY FiniteCounts
  <1> HIDE DEF q
  <1>3. Cardinality(Apart(q)) = Cardinality(Apart(p)) - 1
    BY <1>1, <1>2, FS_RemoveElement
  <1> QED
    BY <1>2, <1>3 DEF q

\* A signal wakes one thread among those it is for.
LEMMA WakesOne ==
    ASSUME NEW p, NEW places, WakeOne(p, places)
    PROVE  /\ awake \subseteq awake' /\ awake' \subseteq awake \cup In(p, places)
           /\ In(p, places) # {} => awake' \cap In(p, places) # {}
  BY DEF WakeOne

\* What wake_another_thread does to the threads and their count, and that it is
\* enough: afterwards a thread is new or awake unless one could not be created,
\* or the signal is retained, nobody is in the pool and no more threads may be
\* created.
LEMMA WakesAnother ==
    ASSUME NEW p \in [Thread -> PC], NEW count \in Nat, NEW failed \in BOOLEAN,
           WakeAnother(p, count, failed), 
           awake \subseteq In(p, WaitingToRun \cup WaitingInPool),
           failures \in Nat, skip \in BOOLEAN
    PROVE  /\ pc' \in [Thread -> PC] /\ skip' \in BOOLEAN
           /\ awake' \subseteq In(pc', WaitingToRun \cup WaitingInPool)
           /\ awake \subseteq awake'
           /\ failures' \in Nat /\ threadCount' \in Nat /\ failures' >= failures
           /\ count = failures + Cardinality(Living(p)) => 
                 threadCount' = failures' + Cardinality(Living(pc'))
           /\ count <= MaxThreads => threadCount' <= MaxThreads
           /\ Apart(pc') = Apart(p)
           /\ \A u \in Thread : pc'[u] # p[u] => p[u] = "none" /\ pc'[u] = "start"
           /\ \/ failures' > 0
              \/ \E u \in Thread : pc'[u] = "start"
              \/ awake' # {}
              \/ /\ In(p, WaitingToRun) = {} /\ In(p, WaitingInPool) = {}
                 /\ skip' /\ pc' = p /\ threadCount' = count
                 /\ running => count >= MaxThreads
  <1>1. MaxThreads \in Nat
    BY SomeLimits
  <1>2. /\ Cardinality(Living(p)) \in Nat /\ Cardinality(Living(pc')) \in Nat
    BY FiniteCounts
  <1>3. CASE running /\ In(p, WaitingInPool) = {} /\ count < MaxThreads
    <2>1. CASE ~ failed
      <3>1. PICK n \in In(p, {"none"}) : pc' = [p EXCEPT ![n] = "start"]
        BY <1>3, <2>1 DEF WakeAnother
      <3>2. /\ threadCount' = count + 1 /\ failures' = failures /\ skip' = skip /\ awake' = awake
        BY <1>3, <2>1 DEF WakeAnother
      <3>3. /\ pc' \in [Thread -> PC] /\ Apart(pc') = Apart(p)
            /\ Cardinality(Living(pc')) = Cardinality(Living(p)) + 1
            /\ n \in Thread /\ p[n] = "none" 
        BY <3>1, Created
      <3>4. \A u \in Thread : pc'[u] # p[u] => p[u] = "none" /\ pc'[u] = "start"
        BY <3>1, <3>3
      <3>5. pc'[n] = "start"
        BY <3>1, <3>3
      <3>6. awake' \subseteq In(pc', WaitingToRun \cup WaitingInPool)
        BY <3>2, <3>4 DEF In, WaitingToRun, WaitingInPool
      <3> QED
        <4>1. threadCount' \in Nat /\ threadCount' <= MaxThreads
          BY <3>2, <1>1, <1>3
        <4>2. count = failures + Cardinality(Living(p)) => 
                 threadCount' = failures' + Cardinality(Living(pc'))
          BY <3>2, <3>3, <1>2
        <4>3. /\ skip' \in BOOLEAN /\ awake \subseteq awake' 
              /\ failures' \in Nat /\ failures' >= failures
          BY <3>2
        <4> QED
          BY <4>1, <4>2, <4>3, <3>3, <3>4, <3>5, <3>6
    <2>2. CASE failed
      <3>1. /\ threadCount' = count + 1 /\ failures' = failures + 1 
            /\ skip' = skip /\ awake' = awake /\ pc' = p
        BY <1>3, <2>2 DEF WakeAnother
      <3>2. /\ failures' \in Nat /\ failures' >= failures /\ failures' > 0
            /\ threadCount' \in Nat /\ threadCount' <= MaxThreads
            /\ count = failures + Cardinality(Living(p)) => 
                 threadCount' = failures' + Cardinality(Living(pc'))
        BY <3>1, <1>1, <1>2, <1>3
      <3> QED
        BY <3>1, <3>2
    <2> QED
      BY <2>1, <2>2
  <1>4. CASE ~ (running /\ In(p, WaitingInPool) = {} /\ count < MaxThreads)
    <2>1. /\ threadCount' = count /\ pc' = p /\ failures' = failures
      BY <1>4 DEF WakeAnother
    <2>2. CASE In(p, WaitingToRun) = {} /\ In(p, WaitingInPool) # {}
      <3>1. WakeOne(p, WaitingInPool) /\ skip' = skip
        BY <1>4, <2>2 DEF WakeAnother
      <3>2. In(p, WaitingInPool) \subseteq In(p, WaitingToRun \cup WaitingInPool)
        BY DEF In
      <3>3. awake \subseteq awake' /\ awake' \subseteq In(p, WaitingToRun \cup WaitingInPool)
            /\ awake' # {} 
        BY <3>1, <3>2, <2>2, WakesOne
      <3>4. /\ skip' \in BOOLEAN /\ failures' \in Nat /\ failures' >= failures
            /\ threadCount' \in Nat
        BY <3>1, <2>1
      <3> QED
        BY <3>3, <3>4, <2>1
    <2>3. CASE ~ (In(p, WaitingToRun) = {} /\ In(p, WaitingInPool) # {})
      <3>1. WakeOne(p, WaitingToRun) /\ skip' = (skip \/ In(p, WaitingToRun) = {})
        BY <1>4, <2>3 DEF WakeAnother, SignalToRun
      <3>2. In(p, WaitingToRun) \subseteq In(p, WaitingToRun \cup WaitingInPool)
        BY DEF In
      <3>3. awake' # {} \/ (In(p, WaitingToRun) = {} /\ In(p, WaitingInPool) = {} /\ skip')
        BY <3>1, <2>3, WakesOne
      <3>4. In(p, WaitingInPool) = {} /\ running => count >= MaxThreads
        BY <1>1, <1>4
      <3>5. awake \subseteq awake' /\ awake' \subseteq In(p, WaitingToRun \cup WaitingInPool)
        BY <3>1, <3>2, WakesOne
      <3>6. skip' \in BOOLEAN
        BY <3>1
      <3>7. /\ count = failures + Cardinality(Living(p)) => 
                 threadCount' = failures' + Cardinality(Living(pc'))
            /\ failures' \in Nat /\ threadCount' \in Nat /\ failures' >= failures
        BY <2>1, <1>2
      <3> QED
        BY <3>3, <3>4, <3>5, <3>6, <3>7, <2>1
    <2> QED
      BY <2>2, <2>3
  <1> QED
    BY <1>3, <1>4

-----------------------------------------------------------------------------
(***************************************************************************)
(* The invariant: what the counts count, and who has an event.             *)
(***************************************************************************)
LEMMA InitCounts == Init => IInv
  <1> SUFFICES ASSUME Init PROVE IInv
    OBVIOUS
  <1>1. PICK main \in Thread : pc = [t \in Thread |-> IF t = main THEN "start" ELSE "none"]
    BY DEF Init
  <1>2. Living(pc) = {main} /\ Apart(pc) = {}
    BY <1>1 DEF Living, Apart, In
  <1>3. Cardinality(Living(pc)) = 1 /\ Cardinality(Apart(pc)) = 0
    BY <1>2, FS_Singleton, FS_EmptySet
  <1>4. PICK S \in SUBSET Event : queue \in SetToSeqs(S)
    BY DEF Init
  <1>5. IsFiniteSet(S) /\ Cardinality(S) \in Nat
    BY EventAssumption, FS_Subset, FS_CardinalityType
  <1>6. queue \in Seq(Event)
    BY <1>4, <1>5 DEF SetToSeqs
  <1>7. TypeOK
    BY <1>1, <1>6 DEF Init, TypeOK, PC, In
  <1>8. Working
    BY <1>1 DEF Working, Busy, WaitingToRun
  <1> QED
    BY <1>1, <1>3, <1>7, <1>8, SomeLimits DEF IInv, CountsAgree, Living, Apart, Init

-----------------------------------------------------------------------------
\* Steps that keep the counts and move thread t, which is and stays one of the
\* threads, from one place to another, neither or both of a detached node's.
StepOf(t) ==
    /\ pc' \in [Thread -> PC]
    /\ \A u \in Thread : u # t => pc'[u] = pc[u]
    /\ pc[t] # "none" /\ pc'[t] # "none"
    /\ pc[t] \in {"detached", "back"} <=> pc'[t] \in {"detached", "back"}
    /\ UNCHANGED <<threadCount, detachedCount, failures>>

LEMMA StepOfCounts ==
    ASSUME IInv, NEW t \in Thread, StepOf(t),
           running' \in BOOLEAN, queue' \in Seq(Event), skip' \in BOOLEAN,
           awake' \subseteq In(pc', WaitingToRun \cup WaitingInPool),
           job' \in [Thread -> Event \cup {NoEvent}], 
           detached' \in [Thread -> BOOLEAN],
           \A u \in Thread : pc'[u] \in Busy => job'[u] \in Event
    PROVE  IInv'
  <1>1. Living(pc') = Living(pc) /\ Apart(pc') = Apart(pc)
    BY DEF StepOf, Living, Apart, In
  <1> QED
    BY <1>1 DEF IInv, CountsAgree, TypeOK, Working, StepOf, Living, Apart

LEMMA PushListType ==
    ASSUME queue \in Seq(Event), NEW S \in SUBSET Event, NEW q \in PushList(queue, S)
    PROVE  q \in Seq(Event)
  <1>1. PICK s \in SetToSeqs(S) : q = queue \o s
    BY DEF PushList
  <1>2. IsFiniteSet(S) /\ Cardinality(S) \in Nat
    BY EventAssumption, FS_Subset, FS_CardinalityType
  <1>3. s \in Seq(Event)
    BY <1>1, <1>2 DEF SetToSeqs
  <1> QED
    BY <1>1, <1>3

\* What the calls of wake_another_thread that a thread t makes on its way to
\* place v have in common.
LEMMA WakeCounts ==
    ASSUME IInv, NEW t \in Thread, NEW v \in PC \ {"none"}, NEW failed \in BOOLEAN,
           pc[t] \notin WaitingToRun \cup WaitingInPool \cup {"none", "detached", "back"},
           v \notin {"detached", "back"},
           WakeAnother([pc EXCEPT ![t] = v], threadCount, failed),
           v \in Busy => pc[t] \in Busy,
           queue' \in Seq(Event), UNCHANGED <<running, job, detachedCount>>,
           detached' \in [Thread -> BOOLEAN]
    PROVE  IInv'
  <1> DEFINE p == [pc EXCEPT ![t] = v]
  <1>1. p \in [Thread -> PC] /\ Living(p) = Living(pc) /\ Apart(p) = Apart(pc)
    BY Moves DEF IInv, CountsAgree, TypeOK
  <1>2. awake \subseteq In(p, WaitingToRun \cup WaitingInPool)
    BY DEF IInv, CountsAgree, TypeOK, In
  <1>3. threadCount \in Nat /\ failures \in Nat /\ skip \in BOOLEAN
    BY DEF IInv, CountsAgree, TypeOK
  <1>4. WakeAnother(p, threadCount, failed)
    OBVIOUS
  <1>5. p[t] = v /\ \A u \in Thread : u # t => p[u] = pc[u]
    BY DEF IInv, CountsAgree, TypeOK
  <1> HIDE DEF p
  <1>6. /\ pc' \in [Thread -> PC] /\ skip' \in BOOLEAN
        /\ awake' \subseteq In(pc', WaitingToRun \cup WaitingInPool)
        /\ failures' \in Nat /\ threadCount' \in Nat
        /\ threadCount = failures + Cardinality(Living(p)) => 
                 threadCount' = failures' + Cardinality(Living(pc'))
        /\ threadCount <= MaxThreads => threadCount' <= MaxThreads
        /\ Apart(pc') = Apart(p)
        /\ \A u \in Thread : pc'[u] # p[u] => p[u] = "none" /\ pc'[u] = "start"
    BY <1>1, <1>2, <1>3, <1>4, WakesAnother
  <1>8. Working'
    BY <1>5, <1>6 DEF IInv, Working, Busy, WaitingToRun
  <1>7. threadCount = failures + Cardinality(Living(p))
    BY <1>1 DEF IInv, CountsAgree, Living
  <1>9. threadCount' = failures' + Cardinality(Living(pc'))
    BY <1>6, <1>7
  <1>10. TypeOK'
    BY <1>6 DEF IInv, CountsAgree, TypeOK
  <1>11. /\ detachedCount' = Cardinality(Apart(pc')) /\ detachedCount' <= MaxDetached
         /\ threadCount' <= MaxThreads
    BY <1>1, <1>6 DEF IInv, CountsAgree, Apart
  <1> QED
    BY <1>8, <1>9, <1>10, <1>11 DEF IInv, CountsAgree, Living, Apart

LEMMA NextCounts == IInv /\ [Next]_vars => IInv'
  <1> SUFFICES ASSUME IInv, [Next]_vars PROVE IInv'
    OBVIOUS
  <1> USE DEF IInv, CountsAgree, TypeOK
  <1>1. ASSUME NEW t \in Thread, HoldStep(t) PROVE IInv'
    <2>1. CASE Check(t) \/ NoneToRun(t)
      <3>1. StepOf(t)
        BY <2>1 DEF Check, NoneToRun, StepOf, PC, Holding
      <3> QED
        BY <2>1, <3>1, StepOfCounts 
        DEF Check, NoneToRun, Working, Busy, WaitingToRun, WaitingInPool, In
    <2>2. CASE GiveWay(t) \/ StandBy(t)
      <3>1. StepOf(t)
        BY <2>2 DEF GiveWay, StandBy, StepOf, PC, WaitingInPool
      <3>2. SignalToRun(pc) /\ UNCHANGED <<running, queue, job, detached>>
        BY <2>2 DEF GiveWay, StandBy
      <3>3. pc'[t] \in WaitingInPool /\ pc[t] \in {"pick", "pop"}
        BY <2>2 DEF GiveWay, StandBy, WaitingInPool
      <3>4. awake' \subseteq awake \cup In(pc, WaitingToRun) /\ skip' \in BOOLEAN
        BY <3>2, WakesOne DEF SignalToRun
      <3>5. awake' \subseteq In(pc', WaitingToRun \cup WaitingInPool)
        BY <3>1, <3>3, <3>4 DEF StepOf, In, WaitingToRun, WaitingInPool
      <3>6. \A u \in Thread : pc'[u] \in Busy => job'[u] \in Event
        BY <3>1, <3>2, <3>3 DEF StepOf, Working, Busy, WaitingToRun, WaitingInPool
      <3> QED
        BY <3>1, <3>2, <3>4, <3>5, <3>6, StepOfCounts
    <2>3. CASE Exit(t)
      <3> DEFINE p == [pc EXCEPT ![t] = "none"]
      <3>1. /\ pc[t] = "loop" /\ UNCHANGED <<running, queue, job, detachedCount>>
            /\ detached' = [detached EXCEPT ![t] = FALSE]
        BY <2>3 DEF Exit
      <3>2. /\ p \in [Thread -> PC] /\ Cardinality(Living(p)) = Cardinality(Living(pc)) - 1
            /\ Cardinality(Living(pc)) > 0 /\ Apart(p) = Apart(pc)
        BY <3>1, Leaves
      <3>3. Cardinality(Living(p)) \in Nat /\ Cardinality(Living(pc)) \in Nat
        BY FiniteCounts
      <3>4. threadCount - 1 \in Nat /\ threadCount = failures + Cardinality(Living(pc))
        BY <3>2, <3>3 DEF Living
      <3>5. awake \subseteq In(p, WaitingToRun \cup WaitingInPool)
        BY <3>1 DEF In, WaitingToRun, WaitingInPool
      <3>6. \A u \in Thread : p[u] = pc[u] \/ p[u] = "none"
        OBVIOUS
      <3>7. CASE threadCount > 1
        <4>1. WakeAnother(p, threadCount - 1, FALSE)
          BY <2>3, <3>7 DEF Exit
        <4> HIDE DEF p
        <4>2. /\ pc' \in [Thread -> PC] /\ skip' \in BOOLEAN
              /\ awake' \subseteq In(pc', WaitingToRun \cup WaitingInPool)
              /\ failures' \in Nat /\ threadCount' \in Nat
              /\ threadCount - 1 = failures + Cardinality(Living(p)) => 
                       threadCount' = failures' + Cardinality(Living(pc'))
              /\ threadCount - 1 <= MaxThreads => threadCount' <= MaxThreads
              /\ Apart(pc') = Apart(p)
              /\ \A u \in Thread : pc'[u] # p[u] => p[u] = "none" /\ pc'[u] = "start"
          BY <3>2, <3>4, <3>5, <4>1, WakesAnother
        <4>3. threadCount - 1 = failures + Cardinality(Living(p))
          BY <3>2, <3>3, <3>4
        <4>4. threadCount' = failures' + Cardinality(Living(pc'))
          BY <4>2, <4>3
        <4>5. Working'
          BY <3>1, <3>6, <4>2 DEF Working, Busy, WaitingToRun
        <4>6. /\ detachedCount' = Cardinality(Apart(pc')) /\ detachedCount' <= MaxDetached
              /\ threadCount' <= MaxThreads
          BY <3>1, <3>2, <3>4, <4>2, SomeLimits DEF Apart
        <4>7. TypeOK'
          BY <3>1, <4>2
        <4> QED
          BY <4>4, <4>5, <4>6, <4>7 DEF Living, Apart
      <3>8. CASE ~ (threadCount > 1)
        <4>1. threadCount' = threadCount - 1 /\ pc' = p /\ UNCHANGED <<skip, awake, failures>>
          BY <2>3, <3>8 DEF Exit
        <4>2. Working'
          BY <3>1, <3>6, <4>1 DEF Working, Busy, WaitingToRun
        <4> HIDE DEF p
        <4>3. threadCount' = failures' + Cardinality(Living(pc'))
          BY <3>2, <3>3, <3>4, <4>1
        <4>4. /\ detachedCount' = Cardinality(Apart(pc')) /\ detachedCount' <= MaxDetached
              /\ threadCount' <= MaxThreads
          BY <3>1, <3>2, <3>4, <4>1, SomeLimits DEF Apart
        <4>5. TypeOK'
          BY <3>1, <3>2, <3>4, <3>5, <4>1
        <4> QED
          BY <4>2, <4>3, <4>4, <4>5 DEF Living, Apart
      <3> QED
        BY <3>7, <3>8
    <2>4. CASE Execute(t)
      <3>1. StepOf(t)
        BY <2>4 DEF Execute, StepOf, PC, Holding
      <3>2. Head(queue) \in Event /\ Tail(queue) \in Seq(Event)
        BY <2>4 DEF Execute
      <3> QED
        BY <2>4, <3>1, <3>2, StepOfCounts 
        DEF Execute, Working, Busy, WaitingToRun, WaitingInPool, In
    <2>5. CASE ExecuteDetached(t)
      <3> DEFINE p == [pc EXCEPT ![t] = "detached"]
      <3>1. /\ pc[t] = "pop" /\ queue # <<>> /\ detachedCount < MaxDetached
            /\ job' = [job EXCEPT ![t] = Head(queue)] /\ queue' = Tail(queue)
            /\ detached' = [detached EXCEPT ![t] = TRUE]
            /\ detachedCount' = detachedCount + 1 /\ running' = running
        BY <2>5 DEF ExecuteDetached, RunsDetached
      <3>2. PICK failed \in BOOLEAN : WakeAnother(p, threadCount, failed)
        BY <2>5 DEF ExecuteDetached
      <3>3. Head(queue) \in Event /\ Tail(queue) \in Seq(Event)
        BY <3>1
      <3>4. p \in [Thread -> PC] /\ Living(p) = Living(pc)
        BY <3>1, Moves DEF PC
      <3>5. Cardinality(Apart(p)) = Cardinality(Apart(pc)) + 1
        BY <3>1, GoesApart
      <3>6. awake \subseteq In(p, WaitingToRun \cup WaitingInPool)
        BY <3>1 DEF In, WaitingToRun, WaitingInPool
      <3>7. p[t] = "detached" /\ \A u \in Thread : u # t => p[u] = pc[u]
        OBVIOUS
      <3> HIDE DEF p
      <3>8. /\ pc' \in [Thread -> PC] /\ skip' \in BOOLEAN
            /\ awake' \subseteq In(pc', WaitingToRun \cup WaitingInPool)
            /\ failures' \in Nat /\ threadCount' \in Nat
            /\ threadCount = failures + Cardinality(Living(p)) => 
                     threadCount' = failures' + Cardinality(Living(pc'))
            /\ threadCount <= MaxThreads => threadCount' <= MaxThreads
            /\ Apart(pc') = Apart(p)
            /\ \A u \in Thread : pc'[u] # p[u] => p[u] = "none" /\ pc'[u] = "start"
        BY <3>2, <3>4, <3>6, WakesAnother
      <3>9. threadCount = failures + Cardinality(Living(p))
        BY <3>4 DEF Living
      <3>10. threadCount' = failures' + Cardinality(Living(pc'))
        BY <3>8, <3>9
      <3>11. Working'
        BY <3>1, <3>3, <3>7, <3>8 DEF Working, Busy, WaitingToRun
      <3>12. /\ detachedCount' = Cardinality(Apart(pc')) /\ detachedCount' <= MaxDetached
             /\ threadCount' <= MaxThreads
        BY <3>1, <3>5, <3>8, SomeLimits DEF Apart
      <3>13. TypeOK'
        <4>1. detachedCount' \in Nat /\ job' \in [Thread -> Event \cup {NoEvent}]
              /\ detached' \in [Thread -> BOOLEAN] /\ queue' \in Seq(Event)
          BY <3>1, <3>3
        <4> QED
          BY <4>1, <3>1, <3>8
      <3> QED
        BY <3>10, <3>11, <3>12, <3>13 DEF Living, Apart
    <2>6. CASE Finish(t)
      <3>1. StepOf(t)
        BY <2>6 DEF Finish, StepOf, PC, Holding
      <3>2. pc[t] \in {"node", "done"} /\ job[t] \in Event
        BY <2>6 DEF Finish, Working, Busy
      <3>3. PICK S \in SUBSET (Idle \cup {job[t]}) : queue' \in PushList(queue, S)
        BY <2>6 DEF Finish
      <3>4. queue' \in Seq(Event)
        BY <3>2, <3>3, PushListType DEF Idle
      <3> QED
        BY <2>6, <3>1, <3>4, StepOfCounts 
        DEF Finish, Working, Busy, WaitingToRun, WaitingInPool, In
    <2>7. CASE SubmitEvents(t)
      <3>1. CASE ~ detached[t]
        <4>1. PICK S \in SUBSET Idle : queue' \in PushList(queue, S)
          BY <2>7, <3>1 DEF SubmitEvents
        <4>2. queue' \in Seq(Event)
          BY <4>1, PushListType DEF Idle
        <4>3. PICK failed \in BOOLEAN : WakeAnother(pc, threadCount, failed)
          BY <2>7, <3>1 DEF SubmitEvents
        <4>4. pc[t] = "node" /\ pc = [pc EXCEPT ![t] = "node"]
          BY <2>7 DEF SubmitEvents
        <4>5. UNCHANGED <<running, job, detached, detachedCount>>
          BY <2>7 DEF SubmitEvents
        <4>6. /\ "node" \in PC \ {"none"} /\ "node" \notin {"detached", "back"}
              /\ pc[t] \in Busy 
              /\ pc[t] \notin WaitingToRun \cup WaitingInPool \cup {"none", "detached", "back"}
          BY <4>4 DEF PC, Holding, Busy, WaitingToRun, WaitingInPool
        <4> DEFINE v == "node"
        <4>7. WakeAnother([pc EXCEPT ![t] = v], threadCount, failed)
          BY <4>3, <4>4
        <4> HIDE DEF v
        <4> QED
          BY <4>2, <4>5, <4>6, <4>7, WakeCounts DEF v
      <3>2. CASE detached[t]
        <4>1. StepOf(t)
          BY <2>7, <3>2 DEF SubmitEvents, StepOf, PC, Holding
        <4> QED
          BY <2>7, <3>2, <4>1, StepOfCounts 
          DEF SubmitEvents, Working, Busy, WaitingToRun, WaitingInPool, In
      <3> QED
        BY <3>1, <3>2
    <2>8. CASE Call(t)
      <3>1. PICK failed \in BOOLEAN : 
               WakeAnother([pc EXCEPT ![t] = IF failed THEN "lonecall" ELSE "call"], 
                           threadCount, failed)
        BY <2>8 DEF Call
      <3> DEFINE v == IF failed THEN "lonecall" ELSE "call"
      <3>2. v \in PC \ {"none"} /\ v \notin {"detached", "back"}
        BY DEF PC
      <3>3. WakeAnother([pc EXCEPT ![t] = v], threadCount, failed)
        BY <3>1
      <3>4. pc[t] = "node" /\ UNCHANGED <<running, queue, job, detachedCount>>
            /\ detached' \in [Thread -> BOOLEAN]
        BY <2>8 DEF Call
      <3>5. pc[t] \in Busy /\ pc[t] \notin WaitingToRun \cup WaitingInPool \cup {"none", "detached", "back"}
        BY <3>4 DEF Busy, WaitingToRun, WaitingInPool
      <3> HIDE DEF v
      <3> QED
        BY <3>2, <3>3, <3>4, <3>5, WakeCounts
    <2> QED
      BY <1>1, <2>1, <2>2, <2>3, <2>4, <2>5, <2>6, <2>7, <2>8 DEF HoldStep
  <1>2. ASSUME NEW t \in Thread, LockStep(t) PROVE IInv'
    <2>1. CASE Enter(t)
      <3>1. StepOf(t)
        BY <2>1 DEF Enter, StepOf, PC, Holding
      <3> QED
        BY <2>1, <3>1, StepOfCounts DEF Enter, Working, Busy, WaitingToRun, WaitingInPool, In
    <2>2. CASE LeavePool(t) \/ LeaveWaitToRun(t)
      <3>1. StepOf(t)
        BY <2>2 DEF LeavePool, LeaveWaitToRun, StepOf, PC, Holding, WaitingToRun, WaitingInPool
      <3>2. /\ awake' = awake \ {t} /\ UNCHANGED <<running, queue, skip, job, detached>>
        BY <2>2 DEF LeavePool, LeaveWaitToRun
      <3>3. pc'[t] \in Busy => pc[t] \in Busy
        BY <2>2 DEF LeavePool, LeaveWaitToRun, Busy, WaitingToRun, WaitingInPool
      <3>4. awake' \subseteq In(pc', WaitingToRun \cup WaitingInPool)
        BY <3>1, <3>2 DEF StepOf, In
      <3>5. \A u \in Thread : pc'[u] \in Busy => job'[u] \in Event
        BY <3>1, <3>2, <3>3 DEF StepOf, Working
      <3> QED
        BY <3>1, <3>2, <3>4, <3>5, StepOfCounts
    <2>3. CASE EndDetached(t)
      <3>1. PICK v \in {"wtr_done", "done"} : pc' = [pc EXCEPT ![t] = v]
        BY <2>3 DEF EndDetached, WaitToRun
      <3>2. /\ pc[t] = "back" /\ detached' = [detached EXCEPT ![t] = FALSE] /\ skip' = FALSE
            /\ detachedCount' = detachedCount - 1
            /\ UNCHANGED <<running, queue, awake, job, threadCount, failures>>
        BY <2>3 DEF EndDetached, WaitToRun
      <3>3. /\ Cardinality(Apart(pc')) = Cardinality(Apart(pc)) - 1
            /\ Cardinality(Apart(pc')) \in Nat
        BY <3>1, <3>2, ComesBack
      <3>4. pc' \in [Thread -> PC] /\ Living(pc') = Living(pc)
        BY <3>1, <3>2, Moves DEF PC, WaitingToRun, Holding
      <3>5. /\ detachedCount' = Cardinality(Apart(pc')) /\ detachedCount' <= MaxDetached
            /\ detachedCount' \in Nat
        BY <3>2, <3>3, SomeLimits DEF Apart
      <3>6. TypeOK'
        BY <3>1, <3>2, <3>4, <3>5 DEF In, WaitingToRun, WaitingInPool
      <3>7. Working'
        BY <3>1, <3>2 DEF Working, Busy, WaitingToRun
      <3> QED
        BY <3>2, <3>4, <3>5, <3>6, <3>7 DEF Living, Apart
    <2>4. CASE EndCall(t) \/ EndLoneCall(t)
      <3>1. StepOf(t)
        BY <2>4 DEF EndCall, EndLoneCall, WaitToRun, StepOf, PC, Holding, WaitingToRun
      <3>2. /\ skip' \in BOOLEAN /\ UNCHANGED <<running, queue, awake, job, detached>>
            /\ pc[t] \in {"called", "lonecalled"}
        BY <2>4 DEF EndCall, EndLoneCall, WaitToRun
      <3>3. awake' \subseteq In(pc', WaitingToRun \cup WaitingInPool)
        BY <3>1, <3>2 DEF StepOf, In, WaitingToRun, WaitingInPool
      <3>4. \A u \in Thread : pc'[u] \in Busy => job'[u] \in Event
        BY <3>1, <3>2 DEF StepOf, Working, Busy
      <3> QED
        BY <3>1, <3>2, <3>3, <3>4, StepOfCounts
    <2> QED
      BY <1>2, <2>1, <2>2, <2>3, <2>4 DEF LockStep
  <1>3. ASSUME NEW t \in Thread, FreeStep(t) PROVE IInv'
    <2>1. StepOf(t)
      BY <1>3 DEF FreeStep, DetachedReturns, CallReturns, StepOf, PC
    <2> QED
      BY <1>3, <2>1, StepOfCounts 
      DEF FreeStep, DetachedReturns, CallReturns, Working, Busy, WaitingToRun, WaitingInPool, In
  <1>4. ASSUME NEW t \in Thread, WakeSpuriously(t) PROVE IInv'
    BY <1>4 DEF WakeSpuriously, Working, In
  <1>5. CASE SoftKill
    BY <1>5 DEF SoftKill, Working, In
  <1>6. CASE UNCHANGED vars
    BY <1>6 DEF vars, Working, In
  <1> QED
    BY <1>1, <1>2, <1>3, <1>4, <1>5, <1>6 DEF Next, Stopped

\* Invariant of the classic runtime: the types, the counts and the limits.
LEMMA Invariant == Spec => []IInv
  BY InitCounts, NextCounts, PTL DEF Spec

\* Every variable has its type, the counts of RunTime (_thread_count,
\* _detached_count) are numbers.
THEOREM TypesCorrect == Spec => []TypeOK
  <1>1. IInv => TypeOK
    BY DEF IInv, CountsAgree
  <1> QED
    BY <1>1, Invariant, PTL

\* _thread_count and _detached_count count the threads and the detached events,
\* and stay within max_thread_pool_size and max_detached_threads.
THEOREM CountsCorrect == Spec => []CountsAgree
  <1>1. IInv => CountsAgree
    BY DEF IInv
  <1> QED
    BY <1>1, Invariant, PTL

-----------------------------------------------------------------------------
(***************************************************************************)
(* The manager lock.                                                       *)
(***************************************************************************)
\* Whatever a thread calls with the lock held, the others stay where they are,
\* but for one that may be new.
LEMMA OthersStay ==
    ASSUME IInv, NEW t \in Thread, HoldStep(t)
    PROVE  /\ pc[t] \in Holding
           /\ \A u \in Thread : u # t => pc'[u] = pc[u] \/ (pc[u] = "none" /\ pc'[u] = "start")
  <1>1. ASSUME NEW p \in [Thread -> PC], NEW count, NEW failed, WakeAnother(p, count, failed),
               \A u \in Thread : u # t => p[u] = pc[u]
        PROVE  \A u \in Thread : u # t => pc'[u] = pc[u] \/ (pc[u] = "none" /\ pc'[u] = "start")
    <2>1. pc' = p \/ \E n \in In(p, {"none"}) : pc' = [p EXCEPT ![n] = "start"]
      BY <1>1 DEF WakeAnother
    <2> QED
      BY <2>1, <1>1 DEF In
  <1>2. pc \in [Thread -> PC]
    BY DEF IInv, CountsAgree, TypeOK
  <1>3. CASE Check(t) \/ GiveWay(t) \/ NoneToRun(t) \/ StandBy(t) \/ Execute(t) \/ Finish(t)
    BY <1>2, <1>3 DEF Check, GiveWay, NoneToRun, StandBy, Execute, Finish, Holding
  <1>4. CASE Exit(t)
    <2> DEFINE p == [pc EXCEPT ![t] = "none"]
    <2>1. pc[t] \in Holding /\ p \in [Thread -> PC] /\ \A u \in Thread : u # t => p[u] = pc[u]
      BY <1>2, <1>4 DEF Exit, Holding, PC
    <2>2. pc' = p \/ WakeAnother(p, threadCount - 1, FALSE)
      BY <1>4 DEF Exit
    <2> HIDE DEF p
    <2> QED
      BY <2>1, <2>2, <1>1
  <1>5. CASE ExecuteDetached(t)
    <2> DEFINE p == [pc EXCEPT ![t] = "detached"]
    <2>1. pc[t] \in Holding /\ p \in [Thread -> PC] /\ \A u \in Thread : u # t => p[u] = pc[u]
      BY <1>2, <1>5 DEF ExecuteDetached, Holding, PC
    <2>2. \E failed \in BOOLEAN : WakeAnother(p, threadCount, failed)
      BY <1>5 DEF ExecuteDetached
    <2> HIDE DEF p
    <2> QED
      BY <2>1, <2>2, <1>1
  <1>6. CASE SubmitEvents(t)
    <2>1. pc[t] \in Holding
      BY <1>6 DEF SubmitEvents, Holding
    <2>2. pc' = [pc EXCEPT ![t] = "stuck"] \/ \E failed \in BOOLEAN : WakeAnother(pc, threadCount, failed)
      BY <1>6 DEF SubmitEvents
    <2> QED
      BY <2>1, <2>2, <1>1, <1>2
  <1>7. CASE Call(t)
    <2>1. pc[t] \in Holding
      BY <1>7 DEF Call, Holding
    <2>2. PICK failed \in BOOLEAN : 
             WakeAnother([pc EXCEPT ![t] = IF failed THEN "lonecall" ELSE "call"], 
                         threadCount, failed)
      BY <1>7 DEF Call
    <2> DEFINE p == [pc EXCEPT ![t] = IF failed THEN "lonecall" ELSE "call"]
    <2>3. p \in [Thread -> PC] /\ \A u \in Thread : u # t => p[u] = pc[u]
      BY <1>2 DEF PC
    <2>4. WakeAnother(p, threadCount, failed)
      BY <2>2
    <2> HIDE DEF p
    <2> QED
      BY <2>1, <2>3, <2>4, <1>1
  <1> QED
    BY <1>3, <1>4, <1>5, <1>6, <1>7 DEF HoldStep

\* The others do not move either when a thread takes the lock, or goes on
\* without it.
LEMMA OthersWait ==
    ASSUME IInv, NEW t \in Thread, LockStep(t) \/ FreeStep(t)
    PROVE  /\ \A u \in Thread : u # t => pc'[u] = pc[u]
           /\ LockStep(t) => LockFree
           /\ FreeStep(t) => pc'[t] \notin Holding
  <1>1. pc \in [Thread -> PC]
    BY DEF IInv, CountsAgree, TypeOK
  <1>2. CASE LockStep(t)
    BY <1>1, <1>2 
    DEF LockStep, Enter, LeavePool, LeaveWaitToRun, EndDetached, EndCall, EndLoneCall, 
        WaitToRun, FreeStep, DetachedReturns, CallReturns, Holding
  <1>3. CASE FreeStep(t)
    BY <1>1, <1>3 
    DEF LockStep, Enter, LeavePool, LeaveWaitToRun, EndDetached, EndCall, EndLoneCall, 
        WaitToRun, FreeStep, DetachedReturns, CallReturns, Holding
  <1> QED
    BY <1>2, <1>3

LEMMA NextOneHolder == IInv /\ OneHolder /\ [Next]_vars => OneHolder'
  <1> SUFFICES ASSUME IInv, OneHolder, [Next]_vars PROVE OneHolder'
    OBVIOUS
  <1>1. ASSUME NEW t \in Thread, HoldStep(t) PROVE OneHolder'
    <2>1. \A u \in Thread : u # t => pc'[u] \notin Holding
      BY <1>1, OthersStay DEF OneHolder, Holding
    <2> QED
      BY <2>1 DEF OneHolder
  <1>2. ASSUME NEW t \in Thread, LockStep(t) \/ FreeStep(t) PROVE OneHolder'
    BY <1>2, OthersWait DEF OneHolder, LockFree
  <1>3. ASSUME NEW t \in Thread, WakeSpuriously(t) PROVE OneHolder'
    BY <1>3 DEF WakeSpuriously, OneHolder
  <1>4. CASE SoftKill \/ UNCHANGED vars
    BY <1>4 DEF SoftKill, vars, OneHolder
  <1> QED
    BY <1>1, <1>2, <1>3, <1>4 DEF Next, Stopped

\* The manager lock of RunTime excludes: wherever the threads are in start(),
\* handle(), wait() and the shim, at most one goes on as the holder of the lock.
THEOREM LockExcludes == Spec => []OneHolder
  <1>1. Init => OneHolder
    BY DEF Init, OneHolder, Holding
  <1> QED
    BY <1>1, Invariant, NextOneHolder, PTL DEF Spec

LEMMA NextMarkedAway == IInv /\ MarkedAway /\ [Next]_vars => MarkedAway'
  <1> SUFFICES ASSUME IInv, MarkedAway, [Next]_vars, running' PROVE MarkedAway'
    BY DEF MarkedAway
  <1> USE DEF IInv, CountsAgree, TypeOK
  <1>1. running
    BY DEF Next, HoldStep, LockStep, FreeStep, Check, GiveWay, NoneToRun, StandBy, Exit, 
           Execute, ExecuteDetached, Finish, SubmitEvents, Call, Enter, LeavePool, 
           LeaveWaitToRun, EndDetached, EndCall, EndLoneCall, DetachedReturns, CallReturns, 
           WakeSpuriously, SoftKill, Stopped, vars
  <1>2. ASSUME NEW t \in Thread, HoldStep(t) 
        PROVE  /\ detached'[t] => pc'[t] \in {"call", "lonecall", "detached", "back"}
               /\ pc'[t] # "stuck"
               /\ \A u \in Thread : u # t => detached'[u] = detached[u]
    <2>1. ASSUME NEW v, NEW failed, NEW count, v # "none", v # "stuck",
                 WakeAnother([pc EXCEPT ![t] = v], count, failed)
          PROVE  pc'[t] = v
      <3> DEFINE p == [pc EXCEPT ![t] = v]
      <3>1. pc' = p \/ \E n \in In(p, {"none"}) : pc' = [p EXCEPT ![n] = "start"]
        BY <2>1 DEF WakeAnother
      <3> QED
        BY <3>1, <2>1 DEF In
    <2>2. ~ detached[t]
      BY <1>1, <1>2, OthersStay DEF MarkedAway, Holding
    <2>3. CASE Check(t) \/ GiveWay(t) \/ NoneToRun(t) \/ StandBy(t) \/ Execute(t) \/ Finish(t)
      BY <2>2, <2>3 DEF Check, GiveWay, NoneToRun, StandBy, Execute, Finish
    <2>4. CASE Exit(t)
      BY <1>1, <2>4 DEF Exit
    <2>5. CASE ExecuteDetached(t)
      BY <2>1, <2>5 DEF ExecuteDetached
    <2>6. CASE SubmitEvents(t)
      <3>1. /\ \E failed \in BOOLEAN : WakeAnother(pc, threadCount, failed)
            /\ pc[t] = "node" /\ detached' = detached
        BY <2>2, <2>6 DEF SubmitEvents
      <3>2. pc = [pc EXCEPT ![t] = "node"]
        BY <3>1
      <3>3. \E failed \in BOOLEAN : WakeAnother([pc EXCEPT ![t] = "node"], threadCount, failed)
        BY <3>1, <3>2
      <3> QED
        BY <3>1, <3>3, <2>1, <2>2
    <2>7. CASE Call(t)
      <3>1. PICK failed \in BOOLEAN : 
               WakeAnother([pc EXCEPT ![t] = IF failed THEN "lonecall" ELSE "call"], 
                           threadCount, failed)
        BY <2>7 DEF Call
      <3>2. pc'[t] = IF failed THEN "lonecall" ELSE "call"
        BY <3>1, <2>1
      <3> QED
        BY <3>2, <2>7 DEF Call
    <2> QED
      BY <1>2, <2>3, <2>4, <2>5, <2>6, <2>7 DEF HoldStep
  <1>3. ASSUME NEW t \in Thread, HoldStep(t) PROVE MarkedAway'
    <2>1. \A u \in Thread : u # t => pc'[u] = pc[u] \/ (pc[u] = "none" /\ pc'[u] = "start")
      BY <1>3, OthersStay
    <2> QED
      BY <1>1, <1>2, <1>3, <2>1 DEF MarkedAway
  <1>4. ASSUME NEW t \in Thread, LockStep(t) PROVE MarkedAway'
    BY <1>1, <1>4 
    DEF MarkedAway, LockStep, Enter, LeavePool, LeaveWaitToRun, EndDetached, EndCall, 
        EndLoneCall, WaitToRun, WaitingToRun, WaitingInPool
  <1>5. ASSUME NEW t \in Thread, FreeStep(t) PROVE MarkedAway'
    BY <1>1, <1>5 DEF MarkedAway, FreeStep, DetachedReturns, CallReturns
  <1>6. ASSUME NEW t \in Thread, WakeSpuriously(t) PROVE MarkedAway'
    BY <1>1, <1>6 DEF WakeSpuriously, MarkedAway
  <1>7. CASE SoftKill \/ UNCHANGED vars
    BY <1>1, <1>7 DEF SoftKill, vars, MarkedAway
  <1> QED
    BY <1>3, <1>4, <1>5, <1>6, <1>7 DEF Next, Stopped

\* As long as the runtime is not asked to stop, no thread locks the manager
\* lock while it holds it, with release_all_guards or otherwise.
THEOREM NoDoubleLockWhileRunning == Spec => [](running => NoDoubleLock)
  <1>1. Init => MarkedAway
    BY DEF Init, MarkedAway
  <1>2. MarkedAway => (running => NoDoubleLock)
    BY DEF MarkedAway, NoDoubleLock, In
  <1> QED
    BY <1>1, <1>2, Invariant, NextMarkedAway, PTL DEF Spec

-----------------------------------------------------------------------------
(***************************************************************************)
(* No wake up is missing.                                                  *)
(***************************************************************************)
LEMMA GoesOn ==
    ASSUME NEW t \in Thread, pc'[t] \in Holding \cup {"start"} \/ t \in awake'
    PROVE  NoStall'
  BY DEF NoStall, Active

\* Where wake_another_thread leaves the runtime when a thread t goes to place v,
\* a call or a detached node, unless the runtime is stopping.
LEMMA WakesEnough ==
    ASSUME IInv, NEW t \in Thread, NEW v \in PC, NEW count \in Nat, NEW failed \in BOOLEAN,
           WakeAnother([pc EXCEPT ![t] = v], count, failed),
           pc[t] \notin WaitingToRun \cup WaitingInPool,
           running' = running, running => v \in {"call", "lonecall", "detached"}
    PROVE  NoStall'
  <1> DEFINE p == [pc EXCEPT ![t] = v]
  <1>1. p \in [Thread -> PC] /\ p[t] = v /\ failures \in Nat /\ skip \in BOOLEAN
    BY DEF IInv, CountsAgree, TypeOK
  <1>2. awake \subseteq In(p, WaitingToRun \cup WaitingInPool)
    BY DEF IInv, CountsAgree, TypeOK, In
  <1>3. WakeAnother(p, count, failed)
    OBVIOUS
  <1> HIDE DEF p
  <1>4. /\ failures' \in Nat
        /\ awake' \subseteq In(pc', WaitingToRun \cup WaitingInPool)
        /\ \/ failures' > 0
           \/ \E u \in Thread : pc'[u] = "start"
           \/ awake' # {}
           \/ /\ In(p, WaitingToRun) = {} /\ In(p, WaitingInPool) = {}
              /\ skip' /\ pc' = p /\ threadCount' = count
              /\ running => count >= MaxThreads
    BY <1>1, <1>2, <1>3, WakesAnother
  <1>5. CASE failures' > 0
    BY <1>4, <1>5 DEF NoStall
  <1>6. CASE \E u \in Thread : pc'[u] = "start"
    BY <1>6, GoesOn
  <1>7. CASE awake' # {}
    <2>1. PICK u \in awake' : u \in Thread
      BY <1>4, <1>7 DEF In
    <2> QED
      BY <2>1, GoesOn
  <1>8. CASE /\ In(p, WaitingToRun) = {} /\ In(p, WaitingInPool) = {}
             /\ skip' /\ pc' = p /\ threadCount' = count
             /\ running => count >= MaxThreads
    <2>1. running => t \in Away'
      BY <1>1, <1>8 DEF Away, In
    <2> QED
      BY <1>8, <2>1 DEF NoStall, In
  <1> QED
    BY <1>4, <1>5, <1>6, <1>7, <1>8

LEMMA NextNoStall == IInv /\ NoStall /\ [Next]_vars => NoStall'
  <1> SUFFICES ASSUME IInv, NoStall, [Next]_vars PROVE NoStall'
    OBVIOUS
  <1> USE DEF IInv, CountsAgree, TypeOK
  <1>1. ASSUME NEW t \in Thread, HoldStep(t) PROVE NoStall'
    <2>1. CASE Check(t) \/ NoneToRun(t) \/ Execute(t) \/ Finish(t)
      <3>1. pc'[t] \in Holding
        BY <2>1 DEF Check, NoneToRun, Execute, Finish, Holding
      <3> QED
        BY <3>1, GoesOn
    <2>2. CASE GiveWay(t)
      <3>1. In(pc, WaitingToRun) # {} /\ WakeOne(pc, WaitingToRun)
        BY <2>2 DEF GiveWay, SignalToRun
      <3>2. PICK u \in awake' : u \in In(pc, WaitingToRun)
        BY <3>1, WakesOne
      <3> QED
        BY <3>2, GoesOn DEF In
    <2>3. CASE StandBy(t)
      <3>1. /\ WakeOne(pc, WaitingToRun) /\ skip' = (skip \/ In(pc, WaitingToRun) = {})
            /\ pc' = [pc EXCEPT ![t] = "pool_loop"] /\ queue' = <<>>
        BY <2>3 DEF StandBy, SignalToRun
      <3>2. CASE In(pc, WaitingToRun) = {}
        <4>1. In(pc', WaitingToRun) = {}
          BY <3>1, <3>2 DEF In, WaitingToRun
        <4> QED
          BY <3>1, <3>2, <4>1 DEF NoStall
      <3>3. CASE In(pc, WaitingToRun) # {}
        <4>1. PICK u \in awake' : u \in In(pc, WaitingToRun)
          BY <3>1, <3>3, WakesOne
        <4> QED
          BY <4>1, GoesOn DEF In
      <3> QED
        BY <3>2, <3>3
    <2>4. CASE Exit(t)
      <3>1. pc[t] = "loop" /\ ~ running /\ running' = running /\ threadCount \in Nat
        BY <2>4 DEF Exit
      <3>2. CASE threadCount > 1
        <4>1. WakeAnother([pc EXCEPT ![t] = "none"], threadCount - 1, FALSE)
          BY <2>4, <3>2 DEF Exit
        <4>2. threadCount - 1 \in Nat /\ "none" \in PC
          BY <3>1, <3>2 DEF PC
        <4>3. pc[t] \notin WaitingToRun \cup WaitingInPool
          BY <3>1 DEF WaitingToRun, WaitingInPool
        <4> QED
          BY <3>1, <4>1, <4>2, <4>3, WakesEnough
      <3>3. CASE ~ (threadCount > 1)
        <4> DEFINE p == [pc EXCEPT ![t] = "none"]
        <4>1. pc' = p /\ failures' = failures
          BY <2>4, <3>3 DEF Exit
        <4>2. /\ Cardinality(Living(p)) = Cardinality(Living(pc)) - 1
              /\ Cardinality(Living(pc)) > 0
          BY <3>1, Leaves
        <4> HIDE DEF p
        <4>3. threadCount = failures + Cardinality(Living(pc))
          BY DEF Living
        <4>4. Cardinality(Living(p)) \in Nat /\ IsFiniteSet(Living(p))
          BY FiniteCounts
        <4>5. failures = 0 => Cardinality(Living(p)) = 0
          BY <3>1, <3>3, <4>2, <4>3, <4>4, FiniteCounts
        <4>6. failures = 0 => Living(pc') = {}
          BY <4>1, <4>4, <4>5, FS_EmptySet
        <4>7. failures = 0 => \A u \in Thread : pc'[u] = "none"
          BY <4>6 DEF Living, In
        <4>8. ASSUME failures = 0 PROVE In(pc', WaitingToRun) = {} /\ Away' = {}
          BY <4>7, <4>8 DEF In, Away, WaitingToRun
        <4> QED
          BY <3>1, <4>1, <4>8 DEF NoStall
      <3> QED
        BY <3>2, <3>3
    <2>5. CASE ExecuteDetached(t)
      <3>1. /\ \E failed \in BOOLEAN : 
                  WakeAnother([pc EXCEPT ![t] = "detached"], threadCount, failed)
            /\ pc[t] \notin WaitingToRun \cup WaitingInPool
            /\ running' = running /\ threadCount \in Nat /\ "detached" \in PC
        BY <2>5 DEF ExecuteDetached, WaitingToRun, WaitingInPool, PC
      <3> QED
        BY <3>1, WakesEnough
    <2>6. CASE SubmitEvents(t)
      <3>1. pc[t] = "node"
        BY <2>6 DEF SubmitEvents
      <3>2. \/ pc' = [pc EXCEPT ![t] = "stuck"] 
            \/ pc' = pc \/ \E n \in In(pc, {"none"}) : pc' = [pc EXCEPT ![n] = "start"]
        BY <2>6 DEF SubmitEvents, WakeAnother
      <3>3. pc'[t] \in Holding
        BY <3>1, <3>2 DEF Holding, In
      <3> QED
        BY <3>3, GoesOn
    <2>7. CASE Call(t)
      <3>1. PICK failed \in BOOLEAN : 
               WakeAnother([pc EXCEPT ![t] = IF failed THEN "lonecall" ELSE "call"], 
                           threadCount, failed)
        BY <2>7 DEF Call
      <3> DEFINE v == IF failed THEN "lonecall" ELSE "call"
      <3>2. v \in PC /\ v \in {"call", "lonecall", "detached"}
        BY DEF PC
      <3>3. WakeAnother([pc EXCEPT ![t] = v], threadCount, failed)
        BY <3>1
      <3>4. /\ pc[t] \notin WaitingToRun \cup WaitingInPool
            /\ running' = running /\ threadCount \in Nat
        BY <2>7 DEF Call, WaitingToRun, WaitingInPool
      <3> HIDE DEF v
      <3> QED
        BY <3>2, <3>3, <3>4, WakesEnough
    <2> QED
      BY <1>1, <2>1, <2>2, <2>3, <2>4, <2>5, <2>6, <2>7 DEF HoldStep
  <1>2. ASSUME NEW t \in Thread, LockStep(t) PROVE NoStall'
    <2>1. CASE Enter(t) \/ LeavePool(t) \/ LeaveWaitToRun(t) \/ EndLoneCall(t)
      <3>1. pc'[t] \in Holding
        BY <2>1 DEF Enter, LeavePool, LeaveWaitToRun, EndLoneCall, Holding
      <3> QED
        BY <3>1, GoesOn
    <2>2. CASE EndDetached(t) \/ EndCall(t)
      <3>1. /\ pc[t] \in {"back", "called"} /\ UNCHANGED <<awake, failures>>
            /\ skip => pc'[t] \in {"node", "done"}
            /\ \A u \in Thread : u # t => pc'[u] = pc[u]
        BY <2>2 DEF EndDetached, EndCall, WaitToRun
      <3>2. CASE skip
        BY <3>1, <3>2, GoesOn DEF Holding
      <3>3. CASE ~ skip
        <4>1. t \in Away
          BY <3>1 DEF Away, In
        <4>2. CASE failures # 0
          BY <3>1, <4>2 DEF NoStall
        <4>3. CASE failures = 0
          <5>1. PICK u \in Active : u \in Thread
            BY <3>3, <4>1, <4>3 DEF NoStall, Active
          <5>2. u # t
            BY <3>1, <5>1 DEF Active, Holding, In, WaitingToRun, WaitingInPool
          <5>3. pc'[u] \in Holding \cup {"start"} \/ u \in awake'
            BY <3>1, <5>1, <5>2 DEF Active
          <5> QED
            BY <5>1, <5>3, GoesOn
        <4> QED
          BY <4>2, <4>3
      <3> QED
        BY <3>2, <3>3
    <2> QED
      BY <1>2, <2>1, <2>2 DEF LockStep
  <1>3. ASSUME NEW t \in Thread, FreeStep(t) PROVE NoStall'
    <2>1. /\ UNCHANGED <<running, queue, awake, skip, threadCount, failures>>
          /\ \A u \in Thread : u # t => pc'[u] = pc[u]
          /\ pc[t] \in {"detached", "call", "lonecall"}
          /\ pc'[t] \in {"back", "called", "lonecalled"}
      BY <1>3 DEF FreeStep, DetachedReturns, CallReturns
    <2>2. Active' = Active
      BY <2>1 DEF Active, Holding
    <2>3. Away' = Away
      BY <2>1 DEF Away, In
    <2>4. /\ In(pc', WaitingToRun) = In(pc, WaitingToRun)
          /\ In(pc', WaitingInPool) = In(pc, WaitingInPool)
      BY <2>1 DEF In, WaitingToRun, WaitingInPool
    <2> QED
      BY <2>1, <2>2, <2>3, <2>4 DEF NoStall
  <1>4. ASSUME NEW t \in Thread, WakeSpuriously(t) PROVE NoStall'
    BY <1>4, GoesOn DEF WakeSpuriously
  <1>5. CASE SoftKill
    BY <1>5 DEF SoftKill, NoStall, Active, Away
  <1>6. CASE UNCHANGED vars
    BY <1>6 DEF vars, NoStall, Active, Away
  <1> QED
    BY <1>1, <1>2, <1>3, <1>4, <1>5, <1>6 DEF Next, Stopped

\* The signals of wake_another_thread, wait() and the shim are enough: no thread
\* is left waiting to run, or in the pool in front of a queue with events, when
\* no other thread will go on by itself.
THEOREM NoStallCorrect == Spec => []NoStall
  <1>1. Init => NoStall
    <2> SUFFICES ASSUME Init PROVE Active # {}
      BY DEF NoStall
    <2> QED
      BY DEF Init, Active
  <1> QED
    BY <1>1, Invariant, NextNoStall, PTL DEF Spec
=============================================================================

--------------------------- MODULE ClassicRunTime ---------------------------
(***************************************************************************)
(* The threads of the classic runtime (src/runtime/OFluxRunTime.cpp): how  *)
(* they share the manager lock, the event queue and the two retained       *)
(* condition variables (src/runtime/OFluxWrappers.h) "waiting to run" and  *)
(* "waiting in pool", how a blocking call of a node function passes        *)
(* through the I/O shim (src/runtime/OFluxIOShim.cpp), how a detached node *)
(* runs outside the lock, and how the runtime shuts down.                  *)
(*                                                                         *)
(* A thread goes through                                                   *)
(*    none       it does not exist (or it has left RunTimeThread::start)   *)
(*    start      created, about to take the manager lock                   *)
(*    loop       at the head of the while loop of start, holds the lock    *)
(*    pick       past the loop's condition, holds the lock                 *)
(*    pop        about to pop the queue, holds the lock                    *)
(*    node       inside a node function, holds the lock                    *)
(*    call       in a blocking call of the node function, without the lock *)
(*    called     the call is over, about to take the lock                  *)
(*    lonecall, lonecalled   the same when wake_another_thread had failed  *)
(*    detached   inside a detached node function, without the lock         *)
(*    back       the detached node function is over, about to take the lock*)
(*    done       the node function is over, holds the lock                 *)
(*    wtr_node, wtr_done    in the wait() of _waiting_to_run, on its way   *)
(*               to node or done                                           *)
(*    pool_pop, pool_loop   in the wait() of _waiting_in_pool, on its way  *)
(*               to pop or loop                                            *)
(*    stuck      waits for the manager lock it holds itself                *)
(*                                                                         *)
(* Whatever a thread does between taking the lock and giving it up is cut  *)
(* where _running is read, as soft_kill does not take the lock.            *)
(***************************************************************************)
EXTENDS Integers, Sequences, FiniteSets, SequencesExt

CONSTANTS
    Thread,       \* slots for RunTimeThreads, those that left are reused
    Event,        \* slots for events, those that were executed are reused
    Blocking,     \* events whose node function calls a blocking function
    Detached,     \* events of detached nodes
    Releasing,    \* events whose node function calls release_all_guards
    MaxThreads,   \* max_thread_pool_size, positive
    MaxDetached,  \* max_detached_threads, positive
    MayKill,      \* soft_kill may be called
    MayFail,      \* pthread_create may fail
    HasSource,    \* the flow has a source: its event, or one whose guard it
                  \* waits for, is always queued or executed
    NoEvent       \* a thread's _this_event is NULL

ASSUME LimitsAssumption == 
    /\ IsFiniteSet(Thread) /\ Thread # {}
    /\ MaxThreads \in 1 .. Cardinality(Thread)
    /\ MaxDetached \in Nat \ {0}
ASSUME EventAssumption == 
    /\ Blocking \subseteq Event /\ Releasing \subseteq Event
    /\ Detached \subseteq Event \ (Blocking \cup Releasing)
    /\ NoEvent \notin Event /\ IsFiniteSet(Event)
    /\ MayKill \in BOOLEAN /\ MayFail \in BOOLEAN /\ HasSource \in BOOLEAN

VARIABLES
    running,        \* _running
    queue,          \* _queue
    pc,             \* where the thread is, see above
    awake,          \* threads in a wait() that were woken
    skip,           \* _waiting_to_run's _allow_skip_cond, the retained signal
    job,            \* _this_event
    detached,       \* _detached
    threadCount,    \* _thread_count
    detachedCount,  \* _detached_count
    failures        \* how often pthread_create failed; nothing reads it

vars == <<running, queue, pc, awake, skip, job, detached, threadCount,
          detachedCount, failures>>

WaitingToRun  == {"wtr_node", "wtr_done"}
WaitingInPool == {"pool_pop", "pool_loop"}
Holding       == {"loop", "pick", "pop", "node", "done", "stuck"}
PC == {"none", "start", "call", "called", "lonecall", "lonecalled", "detached", "back"}
          \cup Holding \cup WaitingToRun \cup WaitingInPool

\* The manager lock is free.
LockFree == \A t \in Thread : pc[t] \notin Holding

\* ConditionVariable::count(): under the lock, the threads inside wait().
In(p, places) == {t \in Thread : p[t] \in places}

\* RunTime::start, up to the call of the first thread's start().
Init ==
    /\ running = TRUE
    /\ \E S \in SUBSET Event : queue \in SetToSeqs(S) /\ (HasSource => S # {})
    /\ \E main \in Thread : 
          pc = [t \in Thread |-> IF t = main THEN "start" ELSE "none"]
    /\ awake = {}
    /\ skip = FALSE
    /\ job = [t \in Thread |-> NoEvent]
    /\ detached = [t \in Thread |-> FALSE]
    /\ threadCount = 1
    /\ detachedCount = 0
    /\ failures = 0

(***************************************************************************)
(* Waking threads.  "p" is where the threads are at the time of the call.  *)
(***************************************************************************)
\* The cond_signal of a ConditionVariable: one sleeper, if there is any.
WakeOne(p, places) ==
    LET sleepers == In(p, places) \ awake
    IN  IF sleepers = {} THEN awake' = awake
        ELSE \E t \in sleepers : awake' = awake \cup {t}

\* Mutant: a signal that finds nobody waiting is lost.
SignalToRun_Lost(p) ==
    /\ skip' = skip
    /\ WakeOne(p, WaitingToRun)

\* _waiting_to_run.signal().
SignalToRun(p) ==
    /\ skip' = (skip \/ In(p, WaitingToRun) = {})
    /\ WakeOne(p, WaitingToRun)

\* wake_another_thread, called with the lock held, leaves the threads at p'
\* but for the one it creates.  "failed" is its result.
WakeAnother(p, count, failed) ==
    IF running /\ In(p, WaitingInPool) = {} /\ count < MaxThreads
    THEN /\ threadCount' = count + 1
         /\ \/ /\ ~ failed
               /\ \E n \in In(p, {"none"}) : pc' = [p EXCEPT ![n] = "start"]
               /\ UNCHANGED failures
            \/ failed /\ MayFail /\ pc' = p /\ failures' = failures + 1
         /\ UNCHANGED <<skip, awake>>
    ELSE /\ ~ failed
         /\ threadCount' = count
         /\ pc' = p
         /\ UNCHANGED failures
         /\ IF In(p, WaitingToRun) = {} /\ In(p, WaitingInPool) # {}
            THEN WakeOne(p, WaitingInPool) /\ UNCHANGED skip
            ELSE SignalToRun(p)

\* wait() of _waiting_to_run by thread t, which then is "next".
WaitToRun(t, waiting, next) ==
    /\ pc' = [pc EXCEPT ![t] = IF skip THEN next ELSE waiting]
    /\ skip' = FALSE

(***************************************************************************)
(* RunTimeThread::start.                                                   *)
(***************************************************************************)
Enter(t) ==
    /\ pc[t] = "start" /\ LockFree
    /\ pc' = [pc EXCEPT ![t] = "loop"]
    /\ UNCHANGED <<running, queue, awake, skip, job, detached, threadCount, detachedCount, failures>>

\* The condition of the loop holds.
Check(t) ==
    /\ pc[t] = "loop" /\ running
    /\ pc' = [pc EXCEPT ![t] = "pick"]
    /\ UNCHANGED <<running, queue, awake, skip, job, detached, threadCount, detachedCount, failures>>

\* Somebody is waiting to run: let it, and wait in the pool.
GiveWay(t) ==
    /\ pc[t] = "pick"
    /\ In(pc, WaitingToRun) # {}
    /\ SignalToRun(pc)
    /\ pc' = [pc EXCEPT ![t] = "pool_pop"]
    /\ UNCHANGED <<running, queue, job, detached, threadCount, detachedCount, failures>>

\* Mutant: the thread goes on all the same.
NoneToRun_Always(t) ==
    /\ pc[t] = "pick"
    /\ pc' = [pc EXCEPT ![t] = "pop"]
    /\ UNCHANGED <<running, queue, awake, skip, job, detached, threadCount, detachedCount, failures>>

\* Nobody is.
NoneToRun(t) ==
    /\ pc[t] = "pick"
    /\ In(pc, WaitingToRun) = {}
    /\ pc' = [pc EXCEPT ![t] = "pop"]
    /\ UNCHANGED <<running, queue, awake, skip, job, detached, threadCount, detachedCount, failures>>

\* The queue is empty: signal a thread that is waiting to run and wait in the
\* pool.
StandBy(t) ==
    /\ pc[t] = "pop"
    /\ queue = <<>>
    /\ SignalToRun(pc)
    /\ pc' = [pc EXCEPT ![t] = "pool_loop"]
    /\ UNCHANGED <<running, queue, job, detached, threadCount, detachedCount, failures>>

\* A thread that was woken in the pool takes the lock; one that gave way
\* reads _running at once.
LeavePool(t) ==
    /\ pc[t] \in WaitingInPool /\ t \in awake /\ LockFree
    /\ pc' = [pc EXCEPT ![t] = IF pc[t] = "pool_pop" /\ running THEN "pop" ELSE "loop"]
    /\ awake' = awake \ {t}
    /\ UNCHANGED <<running, queue, skip, job, detached, threadCount, detachedCount, failures>>

\* A thread waiting to run takes the lock.
LeaveWaitToRun(t) ==
    /\ pc[t] \in WaitingToRun /\ t \in awake /\ LockFree
    /\ pc' = [pc EXCEPT ![t] = IF pc[t] = "wtr_node" THEN "node" ELSE "done"]
    /\ awake' = awake \ {t}
    /\ UNCHANGED <<running, queue, skip, job, detached, threadCount, detachedCount, failures>>

\* pthread_cond_wait may return without a signal.
WakeSpuriously(t) ==
    /\ pc[t] \in WaitingToRun \cup WaitingInPool /\ t \notin awake
    /\ awake' = awake \cup {t}
    /\ UNCHANGED <<running, queue, pc, skip, job, detached, threadCount, detachedCount, failures>>

\* Mutant: the thread that leaves wakes nobody.
Exit_WakesNobody(t) ==
    /\ pc[t] = "loop" /\ ~ running
    /\ threadCount' = threadCount - 1
    /\ pc' = [pc EXCEPT ![t] = "none"]
    /\ detached' = [detached EXCEPT ![t] = FALSE]
    /\ UNCHANGED <<running, queue, awake, skip, job, detachedCount, failures>>

\* The loop ends; the thread is removed and, unless it is the last, wakes
\* another.
Exit(t) ==
    /\ pc[t] = "loop" /\ ~ running
    /\ LET p == [pc EXCEPT ![t] = "none"]
       IN  IF threadCount > 1 THEN WakeAnother(p, threadCount - 1, FALSE)
           ELSE threadCount' = threadCount - 1 /\ pc' = p 
                /\ UNCHANGED <<skip, awake, failures>>
    /\ detached' = [detached EXCEPT ![t] = FALSE]
    /\ UNCHANGED <<running, queue, job, detachedCount>>

(***************************************************************************)
(* RunTimeThread::handle.                                                  *)
(***************************************************************************)
\* canDetachMore, asked for the event at the head of the queue.
RunsDetached(e) == e \in Detached /\ detachedCount < MaxDetached

\* The event is executed under the lock.
Execute(t) ==
    /\ pc[t] = "pop"
    /\ queue # <<>>
    /\ ~ RunsDetached(Head(queue))
    /\ job' = [job EXCEPT ![t] = Head(queue)]
    /\ queue' = Tail(queue)
    /\ pc' = [pc EXCEPT ![t] = "node"]
    /\ UNCHANGED <<running, awake, skip, detached, threadCount, detachedCount, failures>>

\* execute_detached: wake another thread, whether or not that fails, and
\* execute the event without the lock.
ExecuteDetached(t) ==
    /\ pc[t] = "pop"
    /\ queue # <<>>
    /\ RunsDetached(Head(queue))
    /\ job' = [job EXCEPT ![t] = Head(queue)]
    /\ queue' = Tail(queue)
    /\ detached' = [detached EXCEPT ![t] = TRUE]
    /\ detachedCount' = detachedCount + 1
    /\ \E failed \in BOOLEAN : 
          WakeAnother([pc EXCEPT ![t] = "detached"], threadCount, failed)
    /\ UNCHANGED running

DetachedReturns(t) ==
    /\ pc[t] = "detached"
    /\ pc' = [pc EXCEPT ![t] = "back"]
    /\ UNCHANGED <<running, queue, awake, skip, job, detached, threadCount, detachedCount, failures>>

\* Mutant: the count is taken back twice, by Increment::release and again by
\* the destructor of Increment.
EndDetached_Twice(t) ==
    /\ pc[t] = "back" /\ LockFree
    /\ detached' = [detached EXCEPT ![t] = FALSE]
    /\ detachedCount' = detachedCount - 2
    /\ WaitToRun(t, "wtr_done", "done")
    /\ UNCHANGED <<running, queue, awake, job, threadCount, failures>>

\* Mutant: the count is not taken back.
EndDetached_Leaks(t) ==
    /\ pc[t] = "back" /\ LockFree
    /\ detached' = [detached EXCEPT ![t] = FALSE]
    /\ WaitToRun(t, "wtr_done", "done")
    /\ UNCHANGED <<running, queue, awake, job, threadCount, detachedCount, failures>>

\* The end of execute_detached, and wait_to_run.
EndDetached(t) ==
    /\ pc[t] = "back" /\ LockFree
    /\ detached' = [detached EXCEPT ![t] = FALSE]
    /\ detachedCount' = detachedCount - 1
    /\ WaitToRun(t, "wtr_done", "done")
    /\ UNCHANGED <<running, queue, awake, job, threadCount, failures>>

\* Events that are neither queued nor executed.
Idle == {e \in Event : (\A i \in DOMAIN queue : queue[i] # e) /\ \A t \in Thread : job[t] # e}

\* Mutant: new events go to the front of the queue.
PushList_Front(q, S) == {s \o q : s \in SetToSeqs(S)}

\* Queue::push_list.
PushList(q, S) == {q \o s : s \in SetToSeqs(S)}

\* The node function returns, and its successors and the events it released
\* are queued; which ones is the business of EventGuards and of the flow; a
\* source event is followed by a new one of its node.
Finish(t) ==
    /\ pc[t] \in {"node", "done"}
    /\ \E S \in SUBSET (Idle \cup {job[t]}) : queue' \in PushList(queue, S)
    /\ HasSource => queue' # <<>> \/ \E u \in Thread \ {t} : job[u] # NoEvent
    /\ job' = [job EXCEPT ![t] = NoEvent]
    /\ pc' = [pc EXCEPT ![t] = "loop"]
    /\ UNCHANGED <<running, awake, skip, detached, threadCount, detachedCount, failures>>

\* release_all_guards in a node function that holds the lock: submitEvents
\* takes it again when the thread is marked as detached.
SubmitEvents(t) ==
    /\ pc[t] = "node" /\ job[t] \in Releasing
    /\ \/ /\ ~ detached[t]
          /\ \E S \in SUBSET Idle : queue' \in PushList(queue, S)
          /\ \E failed \in BOOLEAN : WakeAnother(pc, threadCount, failed)
       \/ /\ detached[t]
          /\ pc' = [pc EXCEPT ![t] = "stuck"]
          /\ UNCHANGED <<queue, awake, skip, threadCount, failures>>
    /\ UNCHANGED <<running, job, detached, detachedCount>>

(***************************************************************************)
(* A blocking call in a node function, as the shim makes it.               *)
(***************************************************************************)
\* Wake another thread and give up the lock.  A call by a thread that is
\* marked as detached is made as it is and changes nothing.
Call(t) ==
    /\ pc[t] = "node" /\ job[t] \in Blocking
    /\ ~ detached[t]
    /\ \E failed \in BOOLEAN : 
          WakeAnother([pc EXCEPT ![t] = IF failed THEN "lonecall" ELSE "call"], 
                      threadCount, failed)
    /\ detached' = [detached EXCEPT ![t] = TRUE]
    /\ UNCHANGED <<running, queue, job, detachedCount>>

\* The call returns; ~UnlockRunTime restores _detached if the runtime runs.
CallReturns(t) ==
    /\ pc[t] \in {"call", "lonecall"}
    /\ pc' = [pc EXCEPT ![t] = IF pc[t] = "call" THEN "called" ELSE "lonecalled"]
    /\ detached' = [detached EXCEPT ![t] = ~ running]
    /\ UNCHANGED <<running, queue, awake, skip, job, threadCount, detachedCount, failures>>

\* Take the lock and wait to run.
EndCall(t) ==
    /\ pc[t] = "called" /\ LockFree
    /\ WaitToRun(t, "wtr_node", "node")
    /\ UNCHANGED <<running, queue, awake, job, detached, threadCount, detachedCount, failures>>

\* Take the lock; nobody else was woken, so go on.
EndLoneCall(t) ==
    /\ pc[t] = "lonecalled" /\ LockFree
    /\ pc' = [pc EXCEPT ![t] = "node"]
    /\ UNCHANGED <<running, queue, awake, skip, job, detached, threadCount, detachedCount, failures>>

-----------------------------------------------------------------------------
\* soft_kill, from a node function, a signal handler or another thread.
SoftKill ==
    /\ MayKill /\ running
    /\ running' = FALSE
    /\ UNCHANGED <<queue, pc, awake, skip, job, detached, threadCount, detachedCount, failures>>

\* RunTime::start returns once _thread_count is 0.
Returned == threadCount = 0

\* Without threads nothing happens, whether start returned or still polls
\* _thread_count.
Stopped == In(pc, {"none"}) = Thread /\ UNCHANGED vars

\* What thread t does with the lock in its hands, node functions included.
HoldStep(t) == 
    \/ Check(t) \/ GiveWay(t) \/ NoneToRun(t) \/ StandBy(t) \/ Exit(t)
    \/ Execute(t) \/ ExecuteDetached(t) \/ Finish(t) \/ SubmitEvents(t) \/ Call(t)

\* What it does once it has got the lock.
LockStep(t) == 
    \/ Enter(t) \/ LeavePool(t) \/ LeaveWaitToRun(t) \/ EndDetached(t)
    \/ EndCall(t) \/ EndLoneCall(t)

\* What it does without it.
FreeStep(t) == DetachedReturns(t) \/ CallReturns(t)

Next == 
    \/ \E t \in Thread : HoldStep(t) \/ LockStep(t) \/ FreeStep(t) \/ WakeSpuriously(t)
    \/ SoftKill \/ Stopped

Spec == Init /\ [][Next]_vars

\* Threads run, node functions and the calls they make return, and a thread
\* that waits for a lock that is free again and again gets it.
FairSpec ==
    /\ Spec
    /\ \A t \in Thread : 
         /\ WF_vars(HoldStep(t) \/ FreeStep(t)) 
         /\ SF_vars(Finish(t)) /\ SF_vars(LockStep(t))
-----------------------------------------------------------------------------
(***************************************************************************)
(* Properties.                                                             *)
(***************************************************************************)
\* Every variable has its type; the count of detached events is a number.
TypeOK ==
    /\ running \in BOOLEAN
    /\ queue \in Seq(Event)
    /\ pc \in [Thread -> PC]
    /\ awake \subseteq In(pc, WaitingToRun \cup WaitingInPool)
    /\ skip \in BOOLEAN
    /\ job \in [Thread -> Event \cup {NoEvent}]
    /\ detached \in [Thread -> BOOLEAN]
    /\ threadCount \in Nat
    /\ detachedCount \in Nat
    /\ failures \in Nat

\* _thread_count and _detached_count, on which the limits of the runtime and
\* its shutdown depend, stay within the limits and count the detached events
\* and the threads there are; a thread that could not be created stays counted.
CountsAgree ==
    /\ TypeOK
    /\ threadCount = failures + Cardinality(Thread \ In(pc, {"none"}))
    /\ detachedCount = Cardinality(In(pc, {"detached", "back"}))
    /\ threadCount <= MaxThreads /\ detachedCount <= MaxDetached

\* Threads that go on by themselves.
Active == {t \in Thread : pc[t] \in Holding \cup {"start"} \/ t \in awake}
\* Threads that are out of the runtime's hands, and come back.
Away == In(pc, {"call", "called", "lonecall", "lonecalled", "detached", "back"})

\* The wake ups between the lock, the condition variables and the shim are
\* enough: when no thread is active, none is left waiting to run, the thread
\* that comes back next need not wait, the pool is not waiting in front of a
\* queue with events in it, and neither are there threads to create for them.
NoStall ==
    Active = {} /\ failures = 0 =>
        /\ In(pc, WaitingToRun) = {}
        /\ Away # {} => skip
        /\ running /\ queue # <<>> => 
             /\ Away # {} 
             /\ In(pc, WaitingInPool) = {} 
             /\ threadCount >= MaxThreads

\* "avoid double locking": no thread locks the manager lock it holds.
NoDoubleLock == In(pc, {"stuck"}) = {}

\* An event on the queue is executed, unless the runtime is asked to stop, and a thread
\* that waits to run gets to run.
EventsProgress == 
    /\ \A e \in Event : 
         (\E i \in DOMAIN queue : queue[i] = e) ~> (~ running \/ \E t \in Thread : job[t] = e)
    /\ \A t \in Thread : pc[t] \in WaitingToRun ~> pc[t] \in {"node", "done"}

\* soft_kill asks the runtime to shut down and start() returns.
KillStops == ~ running ~> Returned
=============================================================================

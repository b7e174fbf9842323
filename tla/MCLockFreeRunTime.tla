------------------------ MODULE MCLockFreeRunTime ------------------------
(***************************************************************************)
(* Model checking of the lock-free runtime, and of the deques and the hash *)
(* tables it is built on.  They share no state: part says which of them a  *)
(* behaviour is about, the variables of the others are not used.           *)
(***************************************************************************)
EXTENDS LFRunTime, LFHashTable, LFDeque

CONSTANT Parts          \* what to check

VARIABLE part

lfrvars == <<part, lrvars, htvars, dqvars>>

Unused(v) == v = "unused"

LRUnused ==
  /\ Unused(queue) /\ Unused(lpc) /\ Unused(lev) /\ Unused(idle) /\ Unused(allowance)
  /\ Unused(running) /\ Unused(stop) /\ Unused(asleep) /\ Unused(sleepers) /\ Unused(death)
  /\ Unused(softLoad) /\ Unused(flows) /\ Unused(sourced) /\ Unused(off) /\ Unused(cursor)
  /\ Unused(num) /\ Unused(beaten) /\ Unused(made)

HTUnused ==
  /\ Unused(impls) /\ Unused(top) /\ Unused(count) /\ Unused(copied) /\ Unused(scan)
  /\ Unused(khash) /\ Unused(htpc) /\ Unused(r) /\ Unused(got) /\ Unused(left) /\ Unused(current)

DqUnused ==
  /\ Unused(bottom) /\ Unused(dqtop) /\ Unused(arrays) /\ Unused(active) /\ Unused(dpc)
  /\ Unused(dreg) /\ Unused(taken) /\ Unused(pushed) /\ Unused(turns)

LFRInit ==
  /\ part \in Parts
  /\ IF part = "runtime" THEN LRInit ELSE LRUnused
  /\ IF part = "hash"    THEN HTInit ELSE HTUnused
  /\ IF part = "deque"   THEN DqInit ELSE DqUnused

LFRNext ==
  \/ part = "runtime" /\ LRNext /\ UNCHANGED <<part, htvars, dqvars>>
  \/ part = "hash"    /\ HTNext /\ UNCHANGED <<part, lrvars, dqvars>>
  \/ part = "deque"   /\ DqNext /\ UNCHANGED <<part, lrvars, htvars>>

\* A thread that can go on does so; a node function returns.
ThreadsGoOn == \A t \in LFThread : WF_lrvars(part = "runtime" /\ Step(t))

LFRSpec == LFRInit /\ [][LFRNext]_lfrvars /\ ThreadsGoOn

\* Two keys that compete for the one entry of the first table.
TwoKeys == {"k1", "k2"}
KeyHash == [k \in TwoKeys |-> IF k = "k1" THEN 0 ELSE 1]

\* The properties of the part that a behaviour is about.  Each is stated and
\* explained in its own module.

\* The runtime's count of sleeping threads is right, and one thread is awake
\* (incr_sleepers); "seem to be out of events to run" is only said when that is so.
RunTimeSleepers == part = "runtime" => SleepersCounted /\ OutOfEventsIsTrue

\* A flow that is loaded takes the place of the one before (load_flow).
RunTimeOneSource == part = "runtime" => OneSource

\* An event that is queued is executed (RunTimeThread::handle).
QueueRuns == (part = "runtime" /\ Work) ~> (part = "runtime" /\ (~Work \/ death))

\* soft_kill makes start() return.
RunTimeStops == (part = "runtime" /\ death) ~> (part = "runtime" /\ \A t \in LFThread : lpc[t] = "done")

\* Copying the hash table into a larger one changes no key's value, and no
\* array is given up before all of it has been copied (HashTable_Impl::copyEntry
\* and helpCopy).
HashCopyTransparent == part = "hash" => CopyIsTransparent /\ UnlinkedIsCopied

\* A key of an atomic map gets one atomic (AtomicMapUnordered::get).
HashOneAtomicPerKey == part = "hash" => OneAtomicPerKey

\* An element of a thread's queue is taken once, in order, and none is lost
\* (CircularWorkStealingDeque).
DequeExactlyOnce == part = "deque" => DequeTakenOnce /\ DequeKeeps /\ ThievesInOrder
============================================================================

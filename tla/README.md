# A TLA+ verification project for the OFlux runtime

OFlux runs event-based programs. A *flow* is a graph of nodes, described in the
flux language, translated to C++ and XML by the compiler and loaded by the
runtime. A node function executes *events*; when it returns, the runtime creates
events for its successors. Nodes declare *guards* (exclusive, read-write, pool,
free), and an event is executed once it has acquired an *atomic* for each of
them. Events that cannot have an atomic wait in it; no thread does.

There are three runtimes. The *classic* one runs handlers under one manager lock,
which a thread gives up in blocking library calls (the I/O shim interposes them)
and in detached nodes. The *melding* one is the classic one that executes a chain of
detached nodes in place. The *lock-free* one has a queue per thread, from which
the others steal, and lock-free atomics.

The project has a module for each part of the runtime, two for the example
programs that have state of their own, and one for the part of the compiler
that decides what the XML means. TLC checks all of them on small instances, and
TLAPS proves most of their safety properties for every value of the constants.

Paths below are relative to `src/src/runtime` unless they start with `src/`.

## 1. Inventory

| Component | Source | State | Operations | What makes it correct | Modules |
|---|---|---|---|---|---|
| Blocking atomics | `atomic/OFluxAtomic.h` | `_held`, `_mode`, `_waiters`, data pointer | `acquire_or_wait`, `release` | exclusion, first come first served, no waiter behind a free atomic | `Atomic`, `EventGuards`, `GuardQueue` |
| Guard order | `atomic/OFluxAtomicHolder.h`, `flow/OFluxFlowNode.cpp` | magic numbers, keys | `compare`, `sortGuards`, `get_keys_sort` | one order, hence no circular wait | `GuardOrder`, `MCGuards` |
| Atomics holder of an event | `atomic/OFluxAtomicHolder.cpp` | `_sorted`, `_working_on`, `_haveit` | `acquire_all_or_wait`, `release`, `halftakeit` | position, holdings and waiters agree; an event has one owner | `EventGuards` |
| Early release | `OFluxEarlyRelease.cpp` | none | `release_all_guards` | nothing released or queued twice | `EventGuards`, `ClassicRunTime` |
| Events, handlers | `event/*`, `OFluxMeldingRunTime.cpp` | predecessors, shared pointers, vectors of successors | `successors_on_*`, `push_initials_and_sources` | an input lives as long as who reads it; a source has one event | `EventLife` |
| Classic runtime, condition variables | `OFluxRunTime.cpp`, `OFluxWrappers.h` | queue, threads, counts, retained signals | `start`, `handle`, `wake_another_thread`, `submitEvents`, `soft_kill` | limits, no lost wake up, shutdown | `ClassicRunTime` |
| I/O shim | `OFluxIOShim.cpp` | descriptor tables, `is_detached` | every interposed call | who keeps the lock does not block | `IOShim` |
| Lock-free runtime | `lockfree/OFluxLockfreeRunTime*` | queues, `_sleep_count`, `_asleep`, active flows | steal, sleep, wake, die, reload | no event in a queue while all sleep; one event of a source | `LFRunTime` |
| Work-stealing deque | `lockfree/OFluxWorkStealingDeque.h` | top, bottom, array | push, pop, steal, grow | every element taken once | `LFDeque` |
| Lock-free atomics and pool | `lockfree/atomic/OFluxLFAtomic*` | linked lists with marks, packed words, growable arrays | push, pop | the promise of the blocking ones | `LFExclusive`, `LFReadWrite`, `LFPool` |
| Atomic maps, classic pool | `atomic/OFluxAtomic*.{h,cpp}`, `lockfree/atomic/OFluxLFAtomicMaps.h` | key to atomic, cells, data | get, put, collect | one atomic per key, an item has one owner | `AtomicMaps`, `LFHashTable` |
| Hash table | `lockfree/atomic/OFluxLFHashTable.h` | chain of tables | get, compare-and-swap, remove, grow, copy | copying is invisible | `LFHashTable` |
| Memory pool, hazard pointers | `lockfree/allocator/*` | free lists, mail, put off nodes | get, put, scan | nothing reclaimed in use or in two places | `LFMemoryPool`, `LFReclaim` |
| Flow, reader, magic numbers, libraries | `flow/*`, `xml/OFluxXML.cpp`, `OFluxOrderable.cpp` | graph, stack of open files, libraries | read, number, init, reload | routes as written, precedences kept, each file once | `FlowGraph`, `FlowReader` |
| Compiler: flattening, XML | `src/src/compiler/*.ml` | | from a program to its XML | (with the reader) routes as written | `FlowCompile` |
| Scatter and gather | `OFluxScatterGather.h` | reference counts | clone, disown, isLast | gathered once, deleted once | `ScatterGather` |
| Circular buffer, linked list | `src/src/util/CircularBuffer.h`, `OFluxLinkedList.h` | counters and slots; links | submit; insert, remove | in order, once; list intact | `CircularBuffer`, `LinkedList` |
| Exerciser | `oflux_exercise.cpp`, `flow/OFluxFlowExerciseFunctions.cpp` | maps copied byte by byte | `set_wtype` | a pool keeps what it has, nobody waits beside a free item | `Exerciser` |
| Examples: timer, web server | `src/src/examples/{timer1,webserver}` | lists; sockets | the node functions | a timer leaves once; a socket has one owner | `Timer`, `WebServer` |

Not modelled, with the reasons in `PROJECT.json`: doors, logging, statistics,
profiling and configuration, the distributed counter, the other examples, and the
compiler's parser, type check, unification and generation of C++.

How they interact. A handler (`RunTimeThread::handle`) executes an event, creates
successors, calls `acquire_all_or_wait` on each, releases the event's atomics,
which takes other events out of `_waiters`, calls `acquire_all_or_wait` on those,
and queues whatever has all its guards. In the classic runtime this is done under
the manager lock; in the lock-free runtime handlers run in parallel, over lists
whose memory comes from the pool and is put off by hazard pointers. A node function
can call back into the runtime: blocking calls, `release_all_guards`, `soft_kill`.
The reader builds a flow from XML and the atomics of its guards; `load_flow` puts
it in the place of the one before while events of that are still alive.

`PROJECT.json` lists what is hard to test, each with the line where it bites and the
properties that cover it. Five hazards have no property; each has a note saying why.

## 2. Modules

### Conventions

One action is one access to shared memory, one call made under a lock, or one turn of a
loop, whichever is the smallest thing that other actors can tell apart. A program counter
names the place in the code and records keep the locals. Operators whose comment starts with "Mutant" are wrong variants of the definition
after them, which the properties are tested against; no specification uses them.

### Guards: Atomic, GuardOrder, EventGuards, GuardQueue, MCGuards

An atomic is a record `held`, `mode`, `waiters`; the data pointer is abstracted to
whether it is NULL, which is all the methods ask of it. `Grants`/`Acquired`/`Queued`
are `acquire_or_wait`; `IsBatch` says how many waiters `release` hands the atomic to and
`Released` what it leaves.

`GuardOrder`'s `Compare` is `HeldAtomic::compare`; `SortGuards` and `GetKeysSort` may
leave ties in any order, as `std::sort` and `qsort` may, so they are sets of results.

`EventGuards` has one slot per event. `ha` is the `_sorted` array, `on` its
`_working_on`, `idx` the index of the loop in `AtomicsHolder::release` (both 1-based),
`own` the events in the handler's local vectors. Handlers of different events interleave
at every call: the lock-free runtime does that, and the classic one does a subset.
`CreateSuccessors` creates any events with any of the flow's guard lists, so no
flow graph is assumed.

`GuardQueue` is the abstract promise: per atomic who is inside and who stands in line, who
may enter together, that the line is served in order and that the last to leave lets the
front in. `EventGuards` implements it with `inside` = the pairs of an event and a position
that hold the atomic and `line` = its waiters (`KeepsPromise`).

### ClassicRunTime

One slot per thread. The manager lock is not a variable: some thread is at a place in
`Holding`. The waiter counts of the condition variables are the threads at their places,
`skip` is the retained signal of `_waiting_to_run`, `awake` are the threads whose
`pthread_cond_wait` may return, signalled or not. What a thread does with the lock is one
step, cut where `_running` is read, because `soft_kill` takes no lock. `Finish` queues any
set of events, so guards play no part. `HasSource` stands for a flow in which a source's
event is always queued or executed. Left out: `hard_kill`, the SIGINTs of the shutdown
(they only interrupt what may return anyway), limits of 0 (none).

### The other parts of the classic runtime: IOShim, EventLife, AtomicMaps

`IOShim` has the descriptor tables, what the kernel has for a descriptor and what it would
do; `poll`, `mincore` and `is_regular` are asked in one step and the call made in a later
one. `EventLife` leaves guards out and keeps predecessors: an event is a value with its
predecessor in it, and `style` is the runtime. `AtomicMaps` has the pool's cells and data
and the map of a guard that is garbage collected, under the manager lock.

### The lock-free runtime: LFRunTime, LFDeque, LFExclusive, LFReadWrite, LFPool, LFHashTable, LFReclaim, LFMemoryPool

One access to shared memory per step, sequentially consistent, as the barriers of the
source make them on the machines it supports. Loading a pointer and publishing it as a
hazard is one step, since `HAZARD_PTR_ASSIGN` retries until the two agree; `LFReclaim`
is what that rests on. In `LFPool` looking an index of a growable array up and filling its
slot is one step, and an assertion that fails ends the behaviour (`abort`). In `LFRunTime` a thread's queue is a sequence from which the owner
pops at one end and thieves steal at the other in a step; `LFDeque` is one queue in detail.

### Flows: FlowGraph, FlowReader, FlowCompile, MCFlow

`FlowReader` is the XML reader as a stack machine over elements, with dependencies, the
numbering of guards with any choice among those a set of pointers may iterate over first,
the libraries' init functions, and failure. `FlowCompile` makes the files from programs
with plugins, and `MCFlow` compares the flow that results with the routes that the
sources describe (`Targets`).

### The rest

`CircularBuffer`, `LinkedList`, `ScatterGather`, `Exerciser`, `Timer` and `WebServer` are
what their names say. `MCStructures` and `MCLockFreeRunTime` put parts that share no
state side by side: the variable `part` is chosen initially and says which of them runs,
so that a run of one checks all, each for itself. `MCProgress` does the same with the
guards and the loading of flows, for what must come to an end. `MCClassic` adds the
symmetry.

## 3. Runs

Runs that pass:

| Run | Properties | Instance |
|---|---|---|
| `guards_safety` | `TypeOK` `HeldCount` `GuardExclusion` `WaitersBlocked` `WaitsOnce` `GuardsInOrder` `OwnedOnce` `NoCircularWait` `NoOvertaking` `KeepsPromise` | 3 events of six nodes: reader, writer, upgradeable behind an exclusive guard, a conditional guard that does not apply, two keys of a guard in either order |
| `classic_safety` | `CountsAgree` `NoStall` | 4 threads, limits 4 and 1, 5 events (plain, two blocking, two detached; two release early), failing `pthread_create`, shutdown |
| `classic_live` | `EventsProgress` `KillStops` | 3 threads, 3 events, a source, shutdown |
| `structures` | `ExclusiveOneHolder` `ReadWriteExclusion` `PoolResourceOnce` `NobodyWaitsInVain` `MemoryKept` `ShimKeepsLockFree` `AtomicMapsKept` `EventsKept` `OneSource` `ContainersKept` `GatherOnce` `ExerciserPool` `HandedOutOnce` `WebServerSockets` | the fourteen parts of `MCStructures`, below |
| `lf_runtime` | `RunTimeSleepers` `RunTimeOneSource` `HashCopyTransparent` `DequeExactlyOnce` `QueueRuns` | 2 threads, 2 events besides the source's, 1 reload, shutdown; a hash table of 1 slot, 2 processes with 2 gets each, 2 keys, at most 3 tables; a deque of 2 entries, 3 pushes, 2 thieves with 2 steals each |
| `progress` | `FilesReadOnce` `FailsForCause` `RoutesAsWritten` `MagicNumbersRespectOrder` `LibrariesInOrder` `LoadEnds` `EveryEventRuns` | eight programs with one to three plugins, two of them also with a library that cannot be loaded, every order of a directory, two loads; 3 events that read a guard or write it behind an exclusive one |

Runs that TLC must find violated, each a place where the code does not do what the
repository says (section 4):

| Run | Property | Instance |
|---|---|---|
| `guards_deadlock` | `NoCircularWait` | 3 events; a node that reads one key and writes another, and one with two late keys |
| `lf_exclusive` | `ExclusiveNoLostWaiter` | 3 events, 5 holders |
| `lf_readwrite` | `ReadWriteReleaseMatches` | 3 events that read and write, three reads in all, 4 holders |
| `lf_hashtable` | `HashOneAtomicPerKey` | 2 processes, one table |
| `lf_stop` | `RunTimeStops` | 2 threads, no source, under fairness |
| `lf_pool` | `PoolAssertionsHold` | 2 events with six acquisitions each, 2 resources, arrays that start at 3 slots (with 4 slots and eight acquisitions TLC finds the same) |

The parts of `structures`, and what each is bounded by: the exclusive atomic 3 events and
4 holders; the read-write atomic 3 events with at most two requests each, at most two reads
and four requests in all, 4 holders; the pool 3 events, one resource, arrays that start at
2 slots; the memory pool 2 threads of 3 elements and 3 gets; reclamation 2 threads, 4 nodes,
batches of 3, 4 operations; the shim 2 threads, 1 descriptor, a buffer of 2; the maps
3 events, two keys, two atoms, 4 cells; events and flows 2 threads, 4 events, 2 flows,
2 outputs, the three styles; the circular buffer 3 threads, 4 slots, 6 items; the list 4
nodes; gather 3 branches in both styles; the exerciser a pool of 2 and 5 slots; the timer
2 threads, 2 timers, 1 cancellation; the web server 2 descriptors and 2 pages in 2 pieces.

Why the bounds are enough. Three events are the smallest number with a holder, a waiter
and a third that overtakes, closes a chain or is linked behind one that is on its way out.
Plans of two guards already hold one atomic while waiting for another, and an event
slot is reused for ever. Four classic threads are one that executes, one detached, one in
a call and one waiting; a limit of one detached event makes the second run under the
lock. A deque of 2 entries with 3 pushes grows, its index wraps, and thieves find arrays
that were replaced; a table of one slot grows with the second key and is copied while a
third is made; a batch of 3 is the smallest that two threads and the assertion in
`PerThread` allow. For what is proved (section 5) the bounds do not matter. Bounds that
the code does not have are named as such in the CONSTANTS of each module.

The symmetry sets permute events, threads and nodes and are used with invariants, action
properties and a refinement whose abstract specification has no fairness. Deadlock is
checked in the runs of `MCGuards` and in `classic_live`; elsewhere the behaviours are bounded or, in
`classic_safety`, a killed runtime can really stop with a thread that waits for its own
lock. `Stopped` is the stuttering of a runtime with nothing left to do.

Fairness. `EventGuards`: weak fairness of the runtime's own steps for each event: threads
are scheduled and node functions return; nothing makes a node function set data or release
early. `ClassicRunTime`: threads run and calls return (weak), node functions make finitely
many calls (strong fairness of `Finish`), and a thread that finds the manager lock free
again and again gets it (strong fairness of `LockStep`). POSIX does not promise the last:
it is an assumption on the mutex, without which nothing can be said of any one
thread. `LFRunTime`: weak fairness of every thread; threads take no lock but their own.
`FlowReader`: weak fairness of its one thread.

Every property of a passing run is tested against a wrong variant of a definition
(`mutants` in `PROJECT.json`) that makes TLC find it violated.

## 4. What the runs show

The guards do what `GuardQueue` promises, no event is lost or executed twice, and none is
overtaken. The classic runtime loses no wake up, starves no event and stops. The
lock-free queues, the hash table's copying, hazard pointers and the memory pool keep
what they are given, and so does the read-write atomic as long as at most two reads are
asked of it. Six places do not do what the repository says; the findings in `PROJECT.json`
quote the lines.

- **Guards can deadlock** (`guards_deadlock`). The order of acquisition compares the access
  type before the key, and does not compare late keys.
- **A waiter of the lock-free exclusive atomic can be lost** (`lf_exclusive`): it is linked
  behind a holder that has just been unlinked. Exclusion holds all the same
  (`ExclusiveOneHolder` is proved).
- **A count of readers of the lock-free read-write atomic can be lost** (`lf_readwrite`). A
  batch of readers ends early at a reader whose mode is not set yet. When that reader is
  handed the atomic, the word is still in read mode, because only a batch that starts with
  a writer closes it: another reader can join between the move of the head and the commit,
  which overwrites the count. A writer then shares the atomic with a reader and an assertion
  in `pop` fails. Three reads are needed, so `structures` checks the exclusion with two.
- **Two atomics for one key** (`lf_hashtable`): `Does_Not_Exist` is the same value as
  `Whatever`.
- **`start()` of the lock-free runtime need not return** (`lf_stop`) after `soft_kill`: a
  signal to a thread that has not reached its wait is lost.
- **An assertion of the lock-free pool can fail** (`lf_pool`). An array that has grown copies
  an entry when its index is looked up for a push, and a slot of the newer array that another
  index with the same remainder fills with NULL hides the entry of the older one. Who has
  taken that entry's index, but not yet emptied its slot, finds the NULL: "must write a NULL
  on an rs pop" fails. What holds until then is `PoolResourceOnce`, which is proved.

Other disagreements met while modelling, without a run of their own: the mode of a read-write
atomic may become `Upgradeable` (`atomic/OFluxAtomic.h:287`), as the Read or Write computed
before is overwritten; a thread that was in a blocking call during `soft_kill` may lock the
manager lock twice (`OFluxRunTime.cpp:440`; never while the runtime runs,
`NoDoubleLockWhileRunning`); a thread that `pthread_create` failed to make stays counted
(`OFluxRunTime.cpp:351`), so that `start()` does not return; the gather point need not be
"entered just once" (`OFluxScatterGather.h:35-37`), as an event keeps its reference until it is
deleted and `isLast` is true for nobody when the last two branches ask before either is; in the
lock-free runtime the gathered object can be deleted twice, because `disown` decrements and
reads the count again in a second step (`OFluxScatterGather.h:158-160`), so that two may both
find 0 (`GatherOnce` bounds the deletions only with the manager lock); a pool of the exerciser
hands an item out through both windows in the classic style (`set_wtype`), which
`ExerciserPool` does not exclude: it counts each window's items, and says only of the lock-free
style that an item is with one event; a timer that is cancelled between the swaps of the two
lists expires; after a failed read of the web server two handlers close one descriptor;
`add_merge` of the compiler (`src/src/compiler/generateXML.ml:716`) takes successors with equal
names for equal, so that a changed one is not in an `<add>` as the comment at line 58 says:
with `plugin1` and `plugin3` of `src/src/examples/plugin` loaded, `exec1` is executed twice and
`a1` never. `FlowCompile` merges as the code does; none of the eight programs of `progress` has
such successors.

## 5. What is proved

The theorems hold for every value of the constants that satisfies the named assumptions of
the modules (finite sets of events and threads where something is counted, fewer submitters
than slots, fewer threads than a batch has places, and the like; each is justified where it
is stated). Each says `Spec => []P` for a property `P` of a passing run unless the table says
otherwise.

| Module | Theorems | Properties |
|---|---|---|
| `EventGuards_proofs` | `Inductive` `TypeCorrect` `WaitersCorrect` `OrderCorrect` `OwnershipCorrect` `CountCorrect` `WaitersBlockedCorrect` `ExclusionCorrect` `OvertakingCorrect` `PromiseKept` | `TypeOK` `WaitsOnce` `GuardsInOrder` `OwnedOnce` `HeldCount` `WaitersBlocked` `GuardExclusion` `NoOvertaking` (an action property), `KeepsPromise` (a refinement) |
| `GuardOrder_proofs` | `OneOrderNoDeadlock` `SortedGuardsNoDeadlock` | `NoCircularWait`, under a hypothesis on the plans |
| `ClassicRunTime_proofs` | `TypesCorrect` `CountsCorrect` `LockExcludes` `NoDoubleLockWhileRunning` `NoStallCorrect` | `CountsAgree` `NoStall`, and three invariants that no run checks |
| `LockFreeRunTime_proofs` | `SleepersCorrect` `OneSourceCorrect` `DequeCorrect` | `RunTimeSleepers` `RunTimeOneSource` `DequeExactlyOnce` |
| `LFAtomics_proofs`, `AtomicMaps_proofs`, `Parts_proofs`, `Structures_proofs` | `ExclusiveCorrect` `PoolCorrect` `ShimCorrect` `EventsCorrect` `SourceCorrect` `ContainersCorrect` `ReclaimCorrect` `GatherCorrect` `ExerciserCorrect` `WebServerCorrect` `MapsCorrect` `MapsExclude` | `ExclusiveOneHolder` `PoolResourceOnce` `ShimKeepsLockFree` `EventsKept` `OneSource` `ContainersKept` `MemoryKept` `GatherOnce` `ExerciserPool` `WebServerSockets` `AtomicMapsKept`, and one invariant that no run checks |

`LFAtomics_proofs`, `AtomicMaps_proofs` and `Parts_proofs` prove invariants of the components on their own;
`Structures_proofs` carries them over to `MCStructures`, where a step is one of the chosen
part and leaves the others alone.

### The inductive invariants

Hardly a property is inductive. What had to be added says how the code works:

**EventGuards** (`IInv`). `WaitsOnce`, `OwnedOnce` and `GuardsInOrder` together make every
waiter of an atomic a different event that only one handler works on, at the position
where it waits. So an acquisition adds one pair to the holders and a release replaces the
releaser's pair by one for each released waiter: `_held` counts the holders (`Counted`, with
a bijection between `1..n` and the new ones). `Modes` says which requests a holder may have
beside it in each mode; `WaitersBlocked` needs it, because a batch ends at a waiter that cannot
join. `GuardExclusion` follows from the last two.

**GuardQueue.** Every step of `EventGuards` is shown to be a step of the abstract queue under
the mapping, or a stutter; `IInv` gives that the waiters' requests are what the line has.
`NoOvertaking` is read off the same steps.

**NoCircularWait.** If all plans follow one order of the atomics, the atomics that a circle of
events waits for have a last one; its holder waits for one that comes later, which is not in
the circle (this needs `GuardsInOrder`, and finitely many events). The second theorem
derives the order from `Compare`, `SortGuards` and `GetKeysSort` for nodes that refer to no guard
with two access types, late keys or equal keys. The run `guards_deadlock` shows that these
hypotheses are needed; the nodes of `guards_safety` satisfy them.

**ClassicRunTime.** One holder of the lock; the counts as cardinalities of sets of threads;
while the runtime runs only a thread away from the lock is marked as detached
(`MarkedAway`). `NoStall` is proved from an invariant on who must still signal: when events are
queued and nobody has the lock, some thread is on its way to it, a signal is retained, or
all threads that may be there are out.

**The lock-free exclusive atomic** (`XInv`). Only who holds the atomic moves the head, and the
list is taken only when the mark of a free list is at the head; the invariant says where
the mark and every holder can be (on the list, private to a pusher, unlinked by who pops,
or free). A pusher linked behind an unlinked holder is lost, but harms nobody.

**The lock-free pool** (`PlInv`). A push takes its index with the compare-and-swap on the packed
word and a pop with the one on its output counter, so an index is one thread's. Each newer array
is a multiple of the older ones, so indices that share a slot of it share one of those
(`PlCoarser`). In an array (`PlArray`) every index is looked up somewhere, an index in use is
looked up where no other in use shares its slot, and a slot in use there is marked with its
index; an entry may vanish from view (that is the finding), but none appears and none is copied
under another index, because the copy is made for the index that the older slot is marked with.
What a thread has read before a compare-and-swap is carried along its program counter
(`PlSides`, `PlRead`). A resource then has one owner or one place, an event that waits one
place or one thread that has popped it (`PlOwned`, `PlWaits`), and `PoolNoIdle` is
inductive with `PlRead`: who pushes onto one queue saw the other empty after it read the
packed word.

**Reclamation.** An unlinked node is with the thread that puts it off and nowhere else; a
scan in progress has found every announced node that it has passed and that is still used;
at most one node per other thread stays in the batch, which is larger.

**The I/O shim.** A descriptor has one call of a closing kind at a time; a regular file is one
that the kernel has open, because `close` forgets it first; the answers of `poll` and
`mincore` may be stale only where the state can change in the harmless direction.

**Events and flows.** A flow with an event has instances, and `load_flow` deletes from the
oldest flow up to one that has; places of events move injectively; the event of the current
source gives way to exactly one, and a new flow has no events before its first.

**Circular buffer.** An item is put only within `_size` of `_out` with one place to spare, so
that the places of the items under way differ; whoever moves `_half_out` is alone until it
moves `_out`, and is then responsible for the next item, unless that item's submitter is.

**Linked list.** The locations lead from the head through the nodes inserted, each once; the
others are loose.

**Sleepers.** A thread passes its own queue at most once between two events, with two
failures it has looked into it, so that whoever sleeps has an empty one; and the last thread
awake does not become a sleeper.

**Deque.** The end of the elements is `_bottom`, or one more while the owner pops; the array
has room for one more, so nothing from the top to the end is overwritten; what a thief read
is right as long as `_top` has not moved.

**One source.** Each source event is in one queue or with one thread; one thread at a time
loads; the sources of older flows are off once a load is over.

**Scatter and gather.** The references that were counted are those of the branches that still
have one; who goes on to the gather point is the only one left; and when no branch has a
reference or is about to look at the count, the object was deleted (`SgDeletes`).

**The exerciser's pools.** Items that are out and items in the window are as many as there are
(`ExCounts`), because only who runs has an item and who waits has an empty cell; who waits
found the window empty, and it stays so, because what comes back is handed over (`ExIdle`).

**Web server.** The places a socket can be (in `select`, found by it, in `listen_outs`, with a
request) are apart; what `select` found is still marked and what `accept` returned was not
open; `listen_outs` is empty while `select` waits; an error handler runs only after a failure.

**The pool and the maps** (`AmInv`). An event gets its references in the order of its plan, one
to each guard, and gives them up in the reverse order; that `haveit` is set exactly of those
before its position (`AmRefs`) is what makes the rest inductive. The cells of the pool are a
list without repetition and the events' cells, apart (`AmCells`); that a cell off the list has
a NULL `_next` and is not the last is why `put` recognises it. Data is in `_dq` or in a cell
that has it, `_q` holds the waiting events once each, and one of the two is empty
(`AmDataKept`). For the atomic of a key `_held` counts the holders of that key, the waiters are
the events that wait for it, a holder with Exclusive is alone, in Read mode all holders read,
and an empty atomic has a holder or a waiter (`AmAtoms`): a release that finds no waiter and
`_held` at 0 is therefore that of the last who needs it, and collecting the atomic cannot leave
a reference behind. `MapsExclude` follows. The proof needs that the pool has finitely many data.

### What stays with TLC

- Liveness (`EveryEventRuns`, `EventsProgress`, `KillStops`, `QueueRuns`, `LoadEnds`): fairness and
  ENABLED are outside the prover's fragment.
- `RoutesAsWritten` and the other properties of `FlowReader`: `FlowCompile` has RECURSIVE
  operators, and what the reader's folds compute needs induction over data, for which the
  library's theorems have parameters that no installed backend instantiates.
- `HandedOutOnce` (the timer and the memory pool): the splay and the chains of elements
  are recursive functions; the same reason.
- `ReadWriteExclusion` does not hold for every value of the constants (`lf_readwrite`), so
  there is no theorem to prove: with at most two reads in all it holds, which TLC checks.
- `NobodyWaitsInVain`, of the read-write atomic as well: TLC finds no counterexample with three
  reads either, but the invariant would have to describe a list whose word may miscount
  the readers. Not proved.
- `HashCopyTransparent`: provable in principle, not proved (section 6).

## 6. Not modelled, and what is left

Besides the components listed in section 1: a detached node function that releases its
guards early (it would need the classic atomics word by word), writes larger than a
send buffer, `hard_kill`, keys that are recomputed while an event waits, two flows with
different magic numbers running at once over the guards, and submissions by threads that
are not the runtime's. Some hazards are covered in part, as their notes in `PROJECT.json` say:
the window inside `HeldAtomic::acquire_or_wait` is one step; an error handler of a melded chain
gets an output whose contents are not modelled; node functions return, so a wake up that is lost
while the last thread awake stays in a blocking source is not seen; whether the key of a
predecessor was freed is not modelled; the circular buffer has fewer submitters than slots; and
the web server is checked until a call fails.

Next: `HashCopyTransparent`, for tables that grow any number of times. That the
lock-free atomics implement `GuardQueue` is not to be proved: `lf_exclusive` and
`lf_readwrite` show that they do not.

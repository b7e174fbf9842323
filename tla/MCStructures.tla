---------------------------- MODULE MCStructures ----------------------------
(***************************************************************************)
(* Model checking of the parts that share no state with each other: the    *)
(* lock-free atomics and the memory they are made of, and of the classic   *)
(* runtime the I/O shim, the pool and the maps of atomics, the life of     *)
(* events and flows, its containers, scatter and gather, the exerciser and *)
(* two programs of the examples.  part says which of them a behaviour is   *)
(* about; the variables of the others are not used.                        *)
(***************************************************************************)
EXTENDS LFExclusive, LFReadWrite, LFPool, LFMemoryPool, LFReclaim,
        IOShim, AtomicMaps, EventLife, CircularBuffer, LinkedList,
        ScatterGather, Exerciser, Timer, WebServer, TLC

CONSTANT Parts          \* the parts to check

VARIABLE part

lfvars  == <<xvars, rwvars, pvars, mpvars, smrvars>>
ownvars == <<shvars, amvars, elvars, cbvars, llvars>>
progvars == <<sgvars, exvars, tmvars, wsvars>>
allvars == <<part, lfvars, ownvars, progvars>>

Unused(v) == v = "unused"

XUnused ==
  /\ Unused(head) /\ Unused(tail) /\ Unused(next) /\ Unused(ev) /\ Unused(free)
  /\ Unused(pc) /\ Unused(h) /\ Unused(hn) /\ Unused(t) /\ Unused(e)

RWUnused ==
  /\ Unused(rhead) /\ Unused(rtail) /\ Unused(word) /\ Unused(val) /\ Unused(mode)
  /\ Unused(rfree) /\ Unused(wtype) /\ Unused(rpc) /\ Unused(reg) /\ Unused(plan)

PoolUnused ==
  /\ Unused(evq) /\ Unused(rsq) /\ Unused(uin) /\ Unused(evout) /\ Unused(rsout)
  /\ Unused(data) /\ Unused(ppc) /\ Unused(loc) /\ Unused(todo)

MpUnused ==
  /\ Unused(arr) /\ Unused(mhead) /\ Unused(mtail) /\ Unused(link) /\ Unused(touch)
  /\ Unused(held) /\ Unused(mppc) /\ Unused(mpreg) /\ Unused(gets)

SmrUnused ==
  /\ Unused(cell) /\ Unused(hazard) /\ Unused(dlist) /\ Unused(unused)
  /\ Unused(spc) /\ Unused(sreg) /\ Unused(ops)

ShUnused ==
  /\ Unused(eminfo) /\ Unused(shRunning) /\ Unused(shLock) /\ Unused(shpc) /\ Unused(shDetached)
  /\ Unused(call) /\ Unused(regular) /\ Unused(object) /\ Unused(ready) /\ Unused(room)
  /\ Unused(resident)

AmUnused ==
  /\ Unused(apc) /\ Unused(hold) /\ Unused(won) /\ Unused(widx) /\ Unused(busy)
  /\ Unused(made) /\ Unused(apNext) /\ Unused(apData) /\ Unused(apList) /\ Unused(apLast)
  /\ Unused(dq) /\ Unused(pq) /\ Unused(map) /\ Unused(state) /\ Unused(filled)

ElUnused ==
  /\ Unused(style) /\ Unused(up) /\ Unused(active) /\ Unused(deleted) /\ Unused(isSource)
  /\ Unused(used) /\ Unused(inQueue) /\ Unused(worker)

CbUnused ==
  /\ Unused(cin) /\ Unused(halfOut) /\ Unused(cout) /\ Unused(array) /\ Unused(cpc)
  /\ Unused(cbin) /\ Unused(seenIn) /\ Unused(tmp) /\ Unused(ran)

LlUnused == Unused(at) /\ Unused(previous) /\ Unused(ltail) /\ Unused(entered)

SgUnused ==
  /\ Unused(sgStyle) /\ Unused(sgpc) /\ Unused(refCount) /\ Unused(put) /\ Unused(gathered)
  /\ Unused(freed)

TmUnused ==
  /\ Unused(now) /\ Unused(newList) /\ Unused(cancelList) /\ Unused(timer) /\ Unused(gen)
  /\ Unused(byId) /\ Unused(byTime) /\ Unused(splay) /\ Unused(refused) /\ Unused(left)
  /\ Unused(stopped)

WsUnused ==
  /\ Unused(bound) /\ Unused(inUse) /\ Unused(listenOuts) /\ Unused(selecting) /\ Unused(page)
  /\ Unused(peer) /\ Unused(pieces) /\ Unused(failed) /\ Unused(aborted)

ExUnused ==
  /\ Unused(exStyle) /\ Unused(firstCells) /\ Unused(memory) /\ Unused(window)
  /\ Unused(exWaiters) /\ Unused(exev)

PartInit ==
  /\ part \in Parts
  /\ IF part = "exclusive" THEN XInit    ELSE XUnused
  /\ IF part = "readwrite" THEN RWInit   ELSE RWUnused
  /\ IF part = "pool"      THEN PoolInit ELSE PoolUnused
  /\ IF part = "memory"    THEN MpInit   ELSE MpUnused
  /\ IF part = "reclaim"   THEN SmrInit  ELSE SmrUnused
  /\ IF part = "shim"      THEN ShInit   ELSE ShUnused
  /\ IF part = "maps"      THEN AmInit   ELSE AmUnused
  /\ IF part = "events"    THEN ElInit   ELSE ElUnused
  /\ IF part = "buffer"    THEN CbInit   ELSE CbUnused
  /\ IF part = "list"      THEN LlInit   ELSE LlUnused
  /\ IF part = "gather"    THEN SgInit   ELSE SgUnused
  /\ IF part = "exerciser" THEN ExInit   ELSE ExUnused
  /\ IF part = "timer"     THEN TmInit   ELSE TmUnused
  /\ IF part = "webserver" THEN WsInit   ELSE WsUnused

LFNext ==
  /\ UNCHANGED <<ownvars, progvars>>
  /\ \/ part = "exclusive" /\ XNext
        /\ UNCHANGED <<rwvars, pvars, mpvars, smrvars>>
     \/ part = "readwrite" /\ RWNext
        /\ UNCHANGED <<xvars, pvars, mpvars, smrvars>>
     \/ part = "pool" /\ PoolNext
        /\ UNCHANGED <<xvars, rwvars, mpvars, smrvars>>
     \/ part = "memory" /\ MpNext
        /\ UNCHANGED <<xvars, rwvars, pvars, smrvars>>
     \/ part = "reclaim" /\ SmrNext
        /\ UNCHANGED <<xvars, rwvars, pvars, mpvars>>

OwnNext ==
  /\ UNCHANGED <<lfvars, progvars>>
  /\ \/ part = "shim" /\ ShNext
        /\ UNCHANGED <<amvars, elvars, cbvars, llvars>>
     \/ part = "maps" /\ AmNext
        /\ UNCHANGED <<shvars, elvars, cbvars, llvars>>
     \/ part = "events" /\ ElNext
        /\ UNCHANGED <<shvars, amvars, cbvars, llvars>>
     \/ part = "buffer" /\ CbNext
        /\ UNCHANGED <<shvars, amvars, elvars, llvars>>
     \/ part = "list" /\ LlNext
        /\ UNCHANGED <<shvars, amvars, elvars, cbvars>>

ProgNext ==
  /\ UNCHANGED <<lfvars, ownvars>>
  /\ \/ part = "gather"    /\ SgNext /\ UNCHANGED <<exvars, tmvars, wsvars>>
     \/ part = "exerciser" /\ ExNext /\ UNCHANGED <<sgvars, tmvars, wsvars>>
     \/ part = "timer"     /\ TmNext /\ UNCHANGED <<sgvars, exvars, wsvars>>
     \/ part = "webserver" /\ WsNext /\ UNCHANGED <<sgvars, exvars, tmvars>>

PartSpec == PartInit /\ [][UNCHANGED part /\ (LFNext \/ OwnNext \/ ProgNext)]_allvars

\* The parts have their model values in common, so that this is a small group.
Symmetry ==
  UNION {Permutations(Event), Permutations(RWNode), Permutations(SmrThread)}

\* Every way in which the events ask, with at most two reads and four accesses
\* altogether.
Asked(p, m) == Cardinality({w \in RWEvent \X (1..2) : w[2] \in DOMAIN p[w[1]] /\ p[w[1]][w[2]] = m})

MixedPlans ==
  LET Asks == UNION {[1..n -> {"Read", "Write"}] : n \in 0..2}
  IN  {p \in [RWEvent -> Asks] : Asked(p, "Read") <= 2 /\ Asked(p, "Read") + Asked(p, "Write") <= 4}

\* Three reads: one that joins, one that waits behind a writer, and one that
\* the first hands over to.
Joiner == <<"Read">>
Writer == <<"Write", "Read">>
Reader == <<"Read", "Write">>

ThreeReads ==
  {p \in [RWEvent -> {Joiner, Writer, Reader}] : {p[x] : x \in RWEvent} = {Joiner, Writer, Reader}}

\* What the nodes of a flow need of a pool and of a map with two keys.
PoolRef        == [at |-> AmPool, wtype |-> Exclusive]
KeyRef(k, how) == [at |-> k, wtype |-> how]

MapPlans ==
  { <<PoolRef>>, <<KeyRef("k", Exclusive)>>, <<KeyRef("k", Read)>>,
    <<PoolRef, KeyRef("k", Exclusive)>>, <<PoolRef, KeyRef("k", Read)>>, <<KeyRef("l", Exclusive)>> }

\* The properties of the part that a behaviour is about.  Each is stated and
\* explained in the module of that structure.

\* One event at a time holds an exclusive atomic, which is marked free exactly
\* when nobody does; a holder on the list is neither free nor private (push and
\* pop of ExclusiveWaiterList, SMR).
ExclusiveOneHolder == part = "exclusive" => XTypeOK /\ XOneHolder /\ XFreeIsFree /\ XListOwned

\* Nobody waits outside the exclusive list ("2 -> 3 : cas tail->next from NULL
\* to e").
ExclusiveNoLostWaiter == part = "exclusive" => XNoLostWaiter

\* Writers are alone, readers share with readers, and the assertion "release mode should
\* match waiter state" holds (push and pop of ReadWriteWaiterList).
ReadWriteExclusion == part = "readwrite" => RWTypeOK /\ RWExclusion /\ ReleaseModeMatches

\* The assertion of ReadWriteWaiterList::pop by itself: "release mode should match waiter
\* state".
ReadWriteReleaseMatches == part = "readwrite" => ReleaseModeMatches

\* A resource of the pool is never in two places, nobody waits for the pool while a resource
\* is free, who has taken an index finds its slot free, and the waiter that is given a
\* resource has none (acquire_or_wait and release of PoolEventList, CircularArray).
PoolResourceOnce == part = "pool" => PoolTypeOK /\ PoolNeverTwice /\ PoolNoIdle /\ PoolPushSucceeds

\* The assertions of PoolEventList hold, among them "must write a NULL on an rs pop" and
\* "must write NULL on ev pop": what was pushed onto the growable array is found there.
PoolAssertionsHold == part = "pool" => PoolAssertions

\* Nobody waits outside the readwrite list or a batch being handed out, and somebody
\* holds an atomic that has waiters (push and pop of ReadWriteWaiterList).
NobodyWaitsInVain == part = "readwrite" => RWNoLostWaiter /\ RWNoStall

\* No node is reclaimed that a thread has announced and uses, and a scan makes room
\* (PerThread::scan).
MemoryKept == part = "reclaim" => NoUseAfterReclaim /\ BatchHasRoom

\* Who goes to the kernel with the manager lock is not kept there, and a node function
\* has back what it had after a call that gave the lock up (the shim's calls,
\* UnlockRunTime).
ShimKeepsLockFree == part = "shim" => LockHolderNeverBlocks /\ BackAsBefore

\* The data of a pool are in one place each, and its cells on the free list once
\* (AtomicPool::get and put, AtomicPooled::release); an atomic of a map is deleted when
\* nobody has it or waits for it, and not before (garbage_collect).
AtomicMapsKept == part = "maps" => PoolIsKept /\ CollectedInTime

\* What an event reads has not been deleted, and its node neither (EventBase, load_flow).
EventsKept == part = "events" => InputsLive /\ NodesLive

\* The current flow's source has one event (successors_on_no_error, get_successors).
OneSource == part = "events" => OneSourceEvent

\* run2 of the items is executed in order, one at a time, and none is left behind
\* (CircularBuffer::submit); the list is what was inserted and not removed
\* (LinkedListRemovable).
ContainersKept ==
  /\ part = "buffer" => CbSequential /\ CbNothingLeft
  /\ part = "list"   => LlIsList

\* The gather point is entered at most once, with every result; the object is there while
\* somebody has a reference and was deleted when nobody has (Scatter::disown, isLast).
GatherOnce == part = "gather" => GatheredOnce

\* The exerciser's pools keep what they have, and nobody waits beside a free item (set_wtype,
\* AtomicPooled::acquire_or_wait, release).
ExerciserPool == part = "exerciser" => ExercisedPool

\* An element of the memory pool is in one place (RawMemPoolElementList), and a timer event
\* leaves once, expired or cancelled (LockFreeList, Expire_splay).
HandedOutOnce ==
  /\ part = "memory" => PoolElementOnce
  /\ part = "timer"  => TimerLeavesOnce

\* As long as no call fails, each socket is with one request or waited for (Listen,
\* Reply, closeSocket).
WebServerSockets == part = "webserver" => SocketsOnce
=============================================================================

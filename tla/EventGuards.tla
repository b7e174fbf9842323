----------------------------- MODULE EventGuards -----------------------------
(***************************************************************************)
(* How events acquire, hold and hand over their guards: the AtomicsHolder  *)
(* of each event (src/runtime/atomic/OFluxAtomicHolder.cpp), the handler   *)
(* that executes an event (RunTimeThread::handle of the two runtimes,      *)
(* src/runtime/event/OFluxEventOperations.cpp) and release_all_guards      *)
(* (src/runtime/OFluxEarlyRelease.cpp), over the atomics of module Atomic. *)
(*                                                                         *)
(* An event slot goes through                                              *)
(*    free      no event                                                   *)
(*    acquire   acquire_all_or_wait is running on it                       *)
(*    wait      it sits in the waiters of one atomic                       *)
(*    granted   a release took it out of the waiters and handed it the     *)
(*              atomic; it is in the releaser's released_events            *)
(*    acquired  it has every guard and is in a handler's successor_events  *)
(*    queued    it is on a runtime queue                                   *)
(*    run       its node function executes                                 *)
(*    succ      its handler acquires guards for its successors             *)
(*    release   its handler is in the loop of AtomicsHolder::release       *)
(*    reacquire its handler calls acquire_all_or_wait on what it released  *)
(*    erelease, ereacquire   the same two, inside release_all_guards       *)
(*                                                                         *)
(* Every call of an atomic is one step, and the handlers of all events     *)
(* interleave: that is what the lock-free runtime does, and the classic    *)
(* runtime, which runs a handler under its manager lock, does a subset.    *)
(***************************************************************************)
EXTENDS Atomic, FiniteSets

CONSTANTS
    Event,   \* slots for events; an event that was executed frees its slot
    Atom,    \* the atomics: one per guard and key
    ExclusiveAtom,  \* those of exclusive guards, the others are readwrite
    Null,    \* the NULL atomic of a conditional guard that does not apply
    Plan,    \* the guards an event can need, in the order of get_keys_sort
    MaxAtomicsPerNode   \* MAX_ATOMICS_PER_NODE, how many that can be

\* An element of a plan: the atomic of a guard reference and the reference's
\* wtype, which fits the guard's class.
Fits(r) == r.atom \in Atom => (r.wtype = Exclusive <=> r.atom \in ExclusiveAtom)

Need == {r \in [atom : Atom \cup {Null}, wtype : WType] : Fits(r)}

ASSUME NullAssumption == Null \notin Atom /\ ExclusiveAtom \subseteq Atom
ASSUME PlanAssumption == 
    /\ MaxAtomicsPerNode \in Nat
    /\ Plan \subseteq Seq(Need)
    /\ \A p \in Plan : Len(p) <= MaxAtomicsPerNode

VARIABLES
    atoms,    \* the state of every atomic
    present,  \* the data pointer of the atomic is not NULL
    pc,       \* where the event is, see above
    ha,       \* _sorted: the event's HeldAtomics in acquisition order
    on,       \* _working_on: where acquire_all_or_wait goes on (1-based)
    idx,      \* i of the loop in AtomicsHolder::release (1-based)
    own       \* the events in the local vectors of this event's handler

vars == <<atoms, present, pc, ha, on, idx, own>>

HeldAtomic == 
    {r \in [atom : Atom \cup {Null}, wtype : WType, haveit : BOOLEAN] : Fits(r)}

PC == {"free", "acquire", "wait", "granted", "acquired", "queued", "run",
       "succ", "release", "reacquire", "erelease", "ereacquire"}

\* AtomicsHolder::add and get_keys_sort for an event that needs "plan".
Holder(plan) == 
    [i \in DOMAIN plan |-> 
        [atom |-> plan[i].atom, wtype |-> plan[i].wtype, haveit |-> FALSE]]

\* HeldAtomic::halftakeit (and a successful acquire_or_wait) on the i-th of
\* a holder's HeldAtomics, and the _atomic = NULL that follows a release.
TakeIt(hold, i)   == [hold EXCEPT ![i] = [@ EXCEPT !.haveit = TRUE]]
ForgetIt(hold, i) == [hold EXCEPT ![i] = [@ EXCEPT !.atom = Null]]

\* Event x holds its i-th atomic; HeldAtomic::skipit for a NULL one.
Holds(x, i) == ha[x][i].haveit /\ ha[x][i].atom # Null

(***************************************************************************)
(* Start up: RunTime::start acquires the guards of the initial and source  *)
(* events and then queues those that have them all, which is what the end  *)
(* of a handler does; slot b stands for the starting thread.               *)
(***************************************************************************)
Init ==
    /\ atoms = [a \in Atom |-> NewAtomic]
    /\ present \in [Atom -> BOOLEAN]
    /\ \E b \in Event : \E S \in SUBSET (Event \ {b}) : \E f \in [S -> Plan] :
         /\ pc = [x \in Event |-> IF x = b THEN "reacquire"
                                  ELSE IF x \in S THEN "acquire" ELSE "free"]
         /\ ha = [x \in Event |-> IF x \in S THEN Holder(f[x]) ELSE <<>>]
         /\ own = [x \in Event |-> IF x = b THEN S ELSE {}]
    /\ on = [x \in Event |-> 1]
    /\ idx = [x \in Event |-> 0]

(***************************************************************************)
(* AtomicsHolder::acquire_all_or_wait, one turn of its loop per step.      *)
(***************************************************************************)
\* A NULL atomic, or one that was handed over: nothing to do.
SkipAtomic(e) ==
    /\ pc[e] = "acquire"
    /\ on[e] <= Len(ha[e])
    /\ ha[e][on[e]].atom = Null \/ ha[e][on[e]].haveit
    /\ on' = [on EXCEPT ![e] = @ + 1]
    /\ UNCHANGED <<atoms, present, pc, ha, idx, own>>

\* HeldAtomic::acquire_or_wait succeeds.
AcquireAtomic(e) ==
    LET h == ha[e][on[e]]
    IN  /\ pc[e] = "acquire"
        /\ on[e] <= Len(ha[e])
        /\ h.atom # Null /\ ~ h.haveit
        /\ Grants(atoms[h.atom], h.wtype, present[h.atom])
        /\ atoms' = [atoms EXCEPT ![h.atom] = Acquired(@, h.wtype)]
        /\ ha' = [ha EXCEPT ![e] = TakeIt(@, on[e])]
        /\ on' = [on EXCEPT ![e] = @ + 1]
        /\ UNCHANGED <<present, pc, idx, own>>

\* Mutant: the caller keeps an event that waits.
WaitForAtomic_Keep(e) ==
    LET h == ha[e][on[e]]
    IN  /\ pc[e] = "acquire"
        /\ on[e] <= Len(ha[e])
        /\ h.atom # Null /\ ~ h.haveit
        /\ ~ Grants(atoms[h.atom], h.wtype, present[h.atom])
        /\ atoms' = [atoms EXCEPT ![h.atom] = Queued(@, e, h.wtype)]
        /\ pc' = [pc EXCEPT ![e] = "wait"]
        /\ UNCHANGED <<present, ha, on, idx, own>>

\* HeldAtomic::acquire_or_wait puts the event in the atomic's waiters: from
\* here on it is not the caller's event any more.
WaitForAtomic(e) ==
    LET h == ha[e][on[e]]
    IN  /\ pc[e] = "acquire"
        /\ on[e] <= Len(ha[e])
        /\ h.atom # Null /\ ~ h.haveit
        /\ ~ Grants(atoms[h.atom], h.wtype, present[h.atom])
        /\ atoms' = [atoms EXCEPT ![h.atom] = Queued(@, e, h.wtype)]
        /\ pc' = [pc EXCEPT ![e] = "wait"]
        /\ own' = [x \in Event |-> own[x] \ {e}]
        /\ UNCHANGED <<present, ha, on, idx>>

\* Mutant: the loop ends before the last guard.
AcquiredAll_OffByOne(e) ==
    /\ pc[e] = "acquire"
    /\ on[e] >= Len(ha[e])
    /\ pc' = [pc EXCEPT ![e] = "acquired"]
    /\ UNCHANGED <<atoms, present, ha, on, idx, own>>

\* The loop ends with every guard acquired: the caller keeps the event in its
\* vector of events to queue.
AcquiredAll(e) ==
    /\ pc[e] = "acquire"
    /\ on[e] > Len(ha[e])
    /\ pc' = [pc EXCEPT ![e] = "acquired"]
    /\ UNCHANGED <<atoms, present, ha, on, idx, own>>

(***************************************************************************)
(* The handler of an event.                                                *)
(***************************************************************************)
\* A thread pops the event and calls its node function.
Execute(e) ==
    /\ pc[e] = "queued"
    /\ pc' = [pc EXCEPT ![e] = "run"]
    /\ UNCHANGED <<atoms, present, ha, on, idx, own>>

\* The node function sets the data of an atomic it may write; one that is
\* held upgradeable is only filled in when it was NULL.
SetData(e) ==
    /\ pc[e] = "run"
    /\ \E i \in DOMAIN ha[e], b \in BOOLEAN :
         /\ Holds(e, i)
         /\ \/ ha[e][i].wtype \in {Write, Exclusive}
            \/ ha[e][i].wtype = Upgradeable /\ ~ present[ha[e][i].atom]
         /\ present[ha[e][i].atom] # b
         /\ present' = [present EXCEPT ![ha[e][i].atom] = b]
    /\ UNCHANGED <<atoms, pc, ha, on, idx, own>>

\* The node function calls release_all_guards.
EarlyRelease(e) ==
    /\ pc[e] = "run"
    /\ \E i \in DOMAIN ha[e] : Holds(e, i)
    /\ pc' = [pc EXCEPT ![e] = "erelease"]
    /\ idx' = [idx EXCEPT ![e] = Len(ha[e])]
    /\ UNCHANGED <<atoms, present, ha, on, own>>

\* The node function returns: successors_on_no_error or successors_on_error
\* creates events; which ones is the flow's business.
CreateSuccessors(e) ==
    /\ pc[e] = "run"
    /\ \E S \in SUBSET {x \in Event : pc[x] = "free"} : \E f \in [S -> Plan] :
         /\ pc' = [x \in Event |-> IF x = e THEN "succ"
                                   ELSE IF x \in S THEN "acquire" ELSE pc[x]]
         /\ ha' = [x \in Event |-> IF x \in S THEN Holder(f[x]) ELSE ha[x]]
         /\ own' = [own EXCEPT ![e] = S]
    /\ UNCHANGED <<atoms, present, on, idx>>

\* No event of the handler of e is still acquiring.
Settled(e) == \A x \in own[e] : pc[x] # "acquire"

\* All successors have their guards or wait: on to AtomicsHolder::release.
BeginRelease(e) ==
    /\ pc[e] = "succ"
    /\ Settled(e)
    /\ pc' = [pc EXCEPT ![e] = "release"]
    /\ idx' = [idx EXCEPT ![e] = Len(ha[e])]
    /\ UNCHANGED <<atoms, present, ha, on, own>>

\* Where a released event finds the atomic it was waiting for.
HandOverIndex(x, a) ==
    CHOOSE j \in on[x] .. Len(ha[x]) :
       /\ ha[x][j].atom = a
       /\ \A k \in on[x] .. (j - 1) : ha[x][k].atom # a

\* One turn of the loop in AtomicsHolder::release, last guard first, for an
\* atomic that is held: release it, give it to the events it released
\* (halftakeit), forget it.
ReleaseAtomic(e) ==
    LET i == idx[e]
        h == ha[e][i]
    IN  /\ pc[e] \in {"release", "erelease"}
        /\ i > 0
        /\ Holds(e, i)
        /\ \E n \in 0 .. Len(atoms[h.atom].waiters) :
             LET Rel == {atoms[h.atom].waiters[k].event : k \in 1 .. n}
             IN  /\ IsBatch(atoms[h.atom], h.wtype, present[h.atom], n)
                 /\ atoms' = [atoms EXCEPT ![h.atom] = Released(@, h.wtype, n)]
                 /\ ha' = [x \in Event |->
                      IF x = e THEN ForgetIt(ha[e], i)
                      ELSE IF x \in Rel 
                      THEN TakeIt(ha[x], HandOverIndex(x, h.atom))
                      ELSE ha[x]]
                 /\ on' = [x \in Event |->
                      IF x \in Rel /\ HandOverIndex(x, h.atom) = on[x]
                      THEN on[x] + 1 ELSE on[x]]
                 /\ pc' = [x \in Event |-> IF x \in Rel THEN "granted" ELSE pc[x]]
                 /\ own' = [own EXCEPT ![e] = @ \cup Rel]
        /\ idx' = [idx EXCEPT ![e] = @ - 1]
        /\ UNCHANGED present

\* The turn for an atomic that is NULL or was released early.
SkipRelease(e) ==
    /\ pc[e] \in {"release", "erelease"}
    /\ idx[e] > 0
    /\ ~ Holds(e, idx[e])
    /\ idx' = [idx EXCEPT ![e] = @ - 1]
    /\ UNCHANGED <<atoms, present, pc, ha, on, own>>

\* The loop is over: acquire_all_or_wait is called on each released event.
EndRelease(e) ==
    /\ pc[e] \in {"release", "erelease"}
    /\ idx[e] = 0
    /\ pc' = [x \in Event |-> 
                IF x = e 
                THEN IF pc[e] = "release" THEN "reacquire" ELSE "ereacquire"
                ELSE IF x \in own[e] /\ pc[x] = "granted" THEN "acquire" 
                ELSE pc[x]]
    /\ UNCHANGED <<atoms, present, ha, on, idx, own>>

\* The handler queues the successors and released events that have all their
\* guards, and the event is destroyed.
EndHandler(e) ==
    /\ pc[e] = "reacquire"
    /\ Settled(e)
    /\ pc' = [x \in Event |-> IF x = e THEN "free" 
                              ELSE IF x \in own[e] THEN "queued" ELSE pc[x]]
    /\ ha' = [ha EXCEPT ![e] = <<>>]
    /\ on' = [on EXCEPT ![e] = 1]
    /\ own' = [own EXCEPT ![e] = {}]
    /\ UNCHANGED <<atoms, present, idx>>

\* release_all_guards submits those events and returns to the node function.
EndEarlyRelease(e) ==
    /\ pc[e] = "ereacquire"
    /\ Settled(e)
    /\ pc' = [x \in Event |-> IF x = e THEN "run"
                              ELSE IF x \in own[e] THEN "queued" ELSE pc[x]]
    /\ own' = [own EXCEPT ![e] = {}]
    /\ UNCHANGED <<atoms, present, ha, on, idx>>

Acquire(e) == SkipAtomic(e) \/ AcquireAtomic(e) \/ WaitForAtomic(e) \/ AcquiredAll(e)
Release(e) == ReleaseAtomic(e) \/ SkipRelease(e) \/ EndRelease(e)

\* The steps the runtime takes for e by itself, without the node function
\* choosing to.
Advance(e) == 
    \/ Acquire(e) \/ Execute(e) \/ CreateSuccessors(e) \/ BeginRelease(e)
    \/ Release(e) \/ EndHandler(e) \/ EndEarlyRelease(e)

\* With no event left there is nothing to run: the runtime stops.
OutOfEvents == (\A e \in Event : pc[e] = "free") /\ UNCHANGED vars

Next == 
    \/ \E e \in Event : Advance(e) \/ SetData(e) \/ EarlyRelease(e)
    \/ OutOfEvents

Spec == Init /\ [][Next]_vars

\* Threads keep handling events and node functions return.
FairSpec == Spec /\ \A e \in Event : WF_vars(Advance(e))
-----------------------------------------------------------------------------
(***************************************************************************)
(* Properties.                                                             *)
(***************************************************************************)
TypeOK ==
    /\ atoms \in [Atom -> AtomicState(Event)]
    /\ present \in [Atom -> BOOLEAN]
    /\ pc \in [Event -> PC]
    /\ ha \in [Event -> Seq(HeldAtomic)]
    /\ on \in [Event -> Nat \ {0}]
    /\ idx \in [Event -> Nat]
    /\ own \in [Event -> SUBSET Event]

\* Who has the atomic, as the pairs of an event and a position in its holder.
HoldersIn(hold, a) == 
    UNION {{<<x, i>> : i \in {j \in DOMAIN hold[x] : 
                                  hold[x][j].atom = a /\ hold[x][j].haveit}}
           : x \in Event}
Holders(a) == HoldersIn(ha, a)

\* The atomic an event waits for.
Target(x) == ha[x][on[x]].atom

\* The atomic's own count agrees with what the events believe: _held is the
\* number of HeldAtomics that have it and did not release it yet.
HeldCount == \A a \in Atom : atoms[a].held = Cardinality(Holders(a))

\* Guards are atomic constraints: two holders of one atomic are readers, or
\* upgradeable where the data is already there.
GuardExclusion ==
    \A a \in Atom : \A g, h \in Holders(a) : 
        g # h => \/ ha[g[1]][g[2]].wtype = Read
                 \/ ha[g[1]][g[2]].wtype = Upgradeable /\ present[a]

\* An event that waits is in the waiters of exactly one atomic, once, with the
\* type and at the position its holder says; nobody else is in any waiters
\* (the assertion "should have found a held atomic for this released event").
WaitsOnce ==
    /\ \A a \in Atom : \A k \in 1 .. Len(atoms[a].waiters) :
         LET w == atoms[a].waiters[k]
         IN  /\ pc[w.event] = "wait"
             /\ on[w.event] \in DOMAIN ha[w.event]
             /\ Target(w.event) = a
             /\ ha[w.event][on[w.event]].wtype = w.wtype
             /\ \A m \in 1 .. Len(atoms[a].waiters) : 
                  atoms[a].waiters[m].event = w.event => m = k
    /\ \A x \in Event : pc[x] = "wait" =>
         \E a \in Atom : \E k \in 1 .. Len(atoms[a].waiters) :
            atoms[a].waiters[k].event = x

\* An event has exactly the atomics before the position it has reached, one
\* that is queued or runs has them all, and one whose handler is done with
\* AtomicsHolder::release has none.
GuardsInOrder ==
    \A x \in Event : \A i \in DOMAIN ha[x] :
        /\ ha[x][i].haveit => i < on[x]
        /\ i < on[x] => ha[x][i].haveit \/ ha[x][i].atom = Null
        /\ pc[x] \notin {"acquire", "wait", "granted"} => i < on[x]
        /\ pc[x] \in {"release", "erelease"} /\ i > idx[x] => ha[x][i].atom = Null
        /\ pc[x] \in {"reacquire", "ereacquire"} => ha[x][i].atom = Null
        /\ pc[x] # "free"

\* No event is lost between two vectors and none is in two of them: every
\* event on its way to a queue belongs to exactly one running handler.
OwnedOnce ==
    \A x \in Event :
        /\ pc[x] \in {"acquire", "granted", "acquired"} 
             => \E y \in Event : x \in own[y]
        /\ \A y, z \in Event : x \in own[y] /\ x \in own[z] => y = z
        /\ \A y \in Event : x \in own[y] => 
             /\ pc[x] \in {"acquire", "granted", "acquired"}
             /\ pc[y] \in {"succ", "release", "reacquire", "erelease", "ereacquire"}
             /\ pc[x] = "granted" => pc[y] \in {"release", "erelease"}

\* Waiters are waited for: whenever an event is in the waiters somebody will
\* release the atomic, and it is not a reader in front of an atomic that
\* readers have.
WaitersBlocked ==
    \A a \in Atom : atoms[a].waiters # <<>> =>
        /\ Holders(a) # {}
        /\ atoms[a].mode = Read => 
             ~ JoinsReaders(atoms[a].waiters[1].wtype, present[a])

\* No set of events waits for each other: in any set of waiting events one
\* waits for an atomic that none of the set has.
NoCircularWait ==
    \A S \in (SUBSET {x \in Event : pc[x] = "wait"}) \ {{}} :
        \E x \in S : \A h \in Holders(Target(x)) : h[1] \notin S

\* Whoever gets an atomic in a step in which another event keeps waiting for
\* it was ahead of that event in the waiters.
Position(a, x) == 
    CHOOSE k \in DOMAIN atoms[a].waiters : atoms[a].waiters[k].event = x
WaitsFor(a, x) == \E k \in DOMAIN atoms[a].waiters : atoms[a].waiters[k].event = x

NoOvertaking ==
    [][\A a \in Atom : \A x \in Event :
          WaitsFor(a, x) /\ WaitsFor(a, x)' =>
              \A h \in Holders(a)' \ Holders(a) :
                  /\ WaitsFor(a, h[1]) 
                  /\ Position(a, h[1]) < Position(a, x)]_vars

\* Every event that starts to acquire its guards is executed.
EveryEventRuns == \A x \in Event : pc[x] = "acquire" ~> pc[x] = "run"

\* The atomics with the events' holders keep the promise of GuardQueue.
Client == Event \X (1 .. MaxAtomicsPerNode)
Inside == 
    [a \in Atom |-> 
       {[who |-> h, wtype |-> ha[h[1]][h[2]].wtype] : h \in Holders(a)}]
Line == 
    [a \in Atom |-> 
       [k \in DOMAIN atoms[a].waiters |->
          LET w == atoms[a].waiters[k]
          IN  [who |-> <<w.event, on[w.event]>>, wtype |-> w.wtype]]]
Promise == INSTANCE GuardQueue WITH inside <- Inside, line <- Line
KeepsPromise == Promise!Spec
=============================================================================

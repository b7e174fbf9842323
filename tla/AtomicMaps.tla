----------------------------- MODULE AtomicMaps -----------------------------
(***************************************************************************)
(* Where the atomics of the classic runtime come from and where they go    *)
(* (src/runtime/atomic/OFluxAtomic.h, OFluxAtomic.cpp): the pool, whose    *)
(* AtomicPooled cells are taken from a free list and put back, and which   *)
(* passes its data from cell to cell; and the map of a guard that is       *)
(* garbage collected, which makes an atomic for a key when an event needs  *)
(* it and deletes it when nobody does.                                     *)
(*                                                                         *)
(* Events go through the states of EventGuards.  Handlers have the manager *)
(* lock: busy is the event whose handler runs, and an event that runs      *)
(* without being busy is in a blocking call.  Guard functions that say no  *)
(* are in EventGuards.                                                     *)
(***************************************************************************)
EXTENDS Atomic, FiniteSets

CONSTANTS AmEvent,      \* slots for events
          AmPlan,       \* the guards an event can need, in the order of get_keys_sort
          AmPool,       \* the pool as an element of a plan; any other is a key
          AmKey,
          AmAtom,       \* memory for the atomics of the map, with their keys
          AmCell,       \* memory for AtomicPooled, never given back
          AmData,       \* the data of the pool
          AmNull

Ref == [at : {AmPool} \cup AmKey, wtype : {Read, Exclusive}]

\* A node with two references to one pool could wait for what it holds.
ASSUME AtomicMapsAssumption ==
  /\ AmPool \notin AmKey /\ AmNull \notin AmEvent \cup AmAtom \cup AmCell \cup AmData
  /\ IsFiniteSet(AmData)
  /\ \A p \in AmPlan : p \in Seq(Ref) /\ \A i, j \in DOMAIN p : p[i].at = p[j].at => i = j
  /\ Cardinality(AmCell) >= Cardinality(AmEvent) + Cardinality(AmData)
  /\ Cardinality(AmAtom) >= Cardinality(AmKey)

VARIABLES apc, hold, won, widx,             \* as pc, ha, on and idx of EventGuards
          busy,                             \* the event that is being handled
          made, apNext, apData,             \* the cells there are, their _next and _data
          apList, apLast,                   \* _ap_list and _ap_last of the pool
          dq, pq,                           \* _dq and _q of the pool
          map,                              \* _map
          state, filled                     \* an atomic of the map, its data is not NULL

eventvars == <<apc, hold, won, widx, busy>>
listvars  == <<made, apNext, apList, apLast>>
poolvars  == <<listvars, apData, dq, pq>>
mapvars   == <<map, state, filled>>
amvars    == <<eventvars, poolvars, mapvars>>

Build(plan) == [i \in DOMAIN plan |-> [at |-> plan[i].at, wtype |-> plan[i].wtype,
                                       atom |-> AmNull, haveit |-> FALSE]]

\* GuardInserter: a new cell for each data, then ~GuardInserter releases them.
Populated(cells) ==
  LET n == Len(cells)
  IN  /\ apNext = [c \in AmCell |->
                     IF \E i \in 2 .. n : cells[i] = c
                     THEN cells[(CHOOSE i \in 2 .. n : cells[i] = c) - 1] ELSE AmNull]
      /\ apList = IF n = 0 THEN AmNull ELSE cells[n]
      /\ apLast = IF n = 0 THEN AmNull ELSE cells[1]
      /\ apData = [c \in AmCell |-> AmNull]
      /\ made = {cells[i] : i \in 1 .. n}

Orders(S) == {s \in [1 .. Cardinality(S) -> S] : \A i, j \in DOMAIN s : s[i] = s[j] => i = j}

AmInit ==
  /\ dq \in Orders(AmData) /\ pq = <<>>
  /\ \E cells \in [DOMAIN dq -> AmCell] :
        (\A i, j \in DOMAIN cells : cells[i] = cells[j] => i = j) /\ Populated(cells)
  /\ map = [k \in AmKey |-> AmNull]
  /\ state = [a \in AmAtom |-> NewAtomic]
  /\ filled = {}
  /\ \E b \in AmEvent : \E S \in SUBSET (AmEvent \ {b}) : \E f \in [S -> AmPlan] :
       /\ busy = b
       /\ apc = [x \in AmEvent |-> IF x = b THEN "reacquire" ELSE IF x \in S THEN "key" ELSE "none"]
       /\ hold = [x \in AmEvent |-> IF x \in S THEN Build(f[x]) ELSE <<>>]
  /\ won = [x \in AmEvent |-> 1]
  /\ widx = [x \in AmEvent |-> 0]

(***************************************************************************)
(* The free list of the pool and the map.                                  *)
(***************************************************************************)
\* For structures: the cell that is taken keeps its _next.
PoolTake_NoReset(c) ==
  IF apList # AmNull
  THEN /\ c = apList
       /\ apList' = apNext[c]
       /\ apLast' = IF apNext[c] = AmNull THEN AmNull ELSE apLast
       /\ UNCHANGED <<made, apNext>>
  ELSE c \notin made /\ made' = made \cup {c} /\ UNCHANGED <<apList, apLast, apNext>>

\* AtomicPool::get, which gives c.
PoolTake(c) ==
  IF apList # AmNull
  THEN /\ c = apList
       /\ apList' = apNext[c]
       /\ apLast' = IF apNext[c] = AmNull THEN AmNull ELSE apLast
       /\ apNext' = [apNext EXCEPT ![c] = AmNull]
       /\ UNCHANGED made
  ELSE c \notin made /\ made' = made \cup {c} /\ UNCHANGED <<apList, apLast, apNext>>

\* AtomicPool::put, which ignores a cell that is on the list.
PoolPut(c) ==
  IF apNext[c] = AmNull /\ c # apLast
  THEN /\ apNext' = [apNext EXCEPT ![c] = apList]
       /\ apLast' = IF apList = AmNull THEN c ELSE apLast
       /\ apList' = c
       /\ UNCHANGED made
  ELSE UNCHANGED listvars

Alive == {map[k] : k \in AmKey} \ {AmNull}

\* AtomicMapStdMap::get, which finds or makes a.
MapGet(k, a) == IF map[k] # AmNull THEN a = map[k] ELSE a \in AmAtom \ Alive

\* For structures: an atomic that its readers still hold, or that was handed over,
\* is collected as well.
Collectable_Always(a) == a \notin filled

\* When AtomicsHolder::release and HeldAtomic collect an atomic that was just released.
Collectable(a) == state'[a].waiters = <<>> /\ state'[a].held = 0 /\ a \notin filled

(***************************************************************************)
(* acquire_all_or_wait.                                                    *)
(***************************************************************************)
Acquiring(x) == apc[x] = "acquire" /\ won[x] <= Len(hold[x])
Now(x) == hold[x][won[x]]
HaveIt(x, a) == [hold EXCEPT ![x][won[x]] = [@ EXCEPT !.atom = a, !.haveit = TRUE]]

\* get_keys_sort: the cell of a reference to the pool; those to the map are late.
Key(x) ==
  /\ apc[x] = "key" /\ apc' = [apc EXCEPT ![x] = "acquire"]
  /\ IF \E i \in DOMAIN hold[x] : hold[x][i].at = AmPool
     THEN \E i \in DOMAIN hold[x], c \in AmCell :
            /\ hold[x][i].at = AmPool /\ PoolTake(c)
            /\ hold' = [hold EXCEPT ![x][i].atom = c]
     ELSE UNCHANGED <<hold, listvars>>
  /\ UNCHANGED <<won, widx, busy, apData, dq, pq, mapvars>>

\* AtomicPooled::acquire_or_wait.
AcquireData(x) ==
  /\ Acquiring(x) /\ Now(x).at = AmPool /\ ~Now(x).haveit
  /\ IF dq # <<>>
     THEN /\ apData' = [apData EXCEPT ![Now(x).atom] = Head(dq)] /\ dq' = Tail(dq)
          /\ hold' = HaveIt(x, Now(x).atom) /\ won' = [won EXCEPT ![x] = @ + 1]
          /\ UNCHANGED <<pq, apc>>
     ELSE /\ pq' = Append(pq, x) /\ apc' = [apc EXCEPT ![x] = "wait"]
          /\ UNCHANGED <<apData, dq, hold, won>>
  /\ UNCHANGED <<widx, busy, listvars, mapvars>>

\* HeldAtomic::build of a late guard, and the acquire_or_wait of what it finds.
AcquireKeyed(x) ==
  /\ Acquiring(x) /\ Now(x).at # AmPool /\ ~Now(x).haveit
  /\ \E a \in AmAtom :
       /\ MapGet(Now(x).at, a) /\ map' = [map EXCEPT ![Now(x).at] = a]
       /\ LET at == IF a \in Alive THEN state[a] ELSE NewAtomic
          IN  IF Grants(at, Now(x).wtype, a \in filled)
              THEN /\ state' = [state EXCEPT ![a] = Acquired(at, Now(x).wtype)]
                   /\ hold' = HaveIt(x, a) /\ won' = [won EXCEPT ![x] = @ + 1]
                   /\ UNCHANGED apc
              ELSE /\ state' = [state EXCEPT ![a] = Queued(at, x, Now(x).wtype)]
                   /\ hold' = [hold EXCEPT ![x][won[x]].atom = a]
                   /\ apc' = [apc EXCEPT ![x] = "wait"]
                   /\ UNCHANGED won
  /\ UNCHANGED <<widx, busy, filled, poolvars>>

HaveAll(x) ==
  /\ apc[x] = "acquire" /\ won[x] > Len(hold[x])
  /\ apc' = [apc EXCEPT ![x] = "acquired"]
  /\ UNCHANGED <<hold, won, widx, busy, poolvars, mapvars>>

(***************************************************************************)
(* The handler.                                                            *)
(***************************************************************************)
Run(x) ==
  /\ apc[x] = "queued" /\ busy = AmNull
  /\ apc' = [apc EXCEPT ![x] = "run"]
  /\ UNCHANGED <<hold, won, widx, busy, poolvars, mapvars>>

\* The node function sets or clears the data of an atomic that it may write.
Fill(x) ==
  /\ apc[x] = "run"
  /\ \E i \in DOMAIN hold[x] :
       /\ hold[x][i].at # AmPool /\ hold[x][i].wtype = Exclusive /\ hold[x][i].atom # AmNull
       /\ filled' \in {filled \cup {hold[x][i].atom}, filled \ {hold[x][i].atom}}
  /\ UNCHANGED <<eventvars, poolvars, map, state>>

\* release_all_guards.
ReleaseEarly(x) ==
  /\ apc[x] = "run" /\ busy = AmNull /\ \E i \in DOMAIN hold[x] : hold[x][i].atom # AmNull
  /\ busy' = x /\ apc' = [apc EXCEPT ![x] = "erelease"]
  /\ widx' = [widx EXCEPT ![x] = Len(hold[x])]
  /\ UNCHANGED <<hold, won, poolvars, mapvars>>

\* The node function returns and has successors, which acquire before it releases.
Succeed(x) ==
  /\ apc[x] = "run" /\ busy = AmNull /\ busy' = x
  /\ \E S \in SUBSET {y \in AmEvent : apc[y] = "none"} : \E f \in [S -> AmPlan] :
       /\ apc' = [y \in AmEvent |-> IF y = x THEN "succ" ELSE IF y \in S THEN "key" ELSE apc[y]]
       /\ hold' = [y \in AmEvent |-> IF y \in S THEN Build(f[y]) ELSE hold[y]]
  /\ UNCHANGED <<won, widx, poolvars, mapvars>>

AllSettled == \A y \in AmEvent : apc[y] \notin {"key", "acquire"}

StartRelease(x) ==
  /\ apc[x] = "succ" /\ AllSettled
  /\ apc' = [apc EXCEPT ![x] = "release"] /\ widx' = [widx EXCEPT ![x] = Len(hold[x])]
  /\ UNCHANGED <<hold, won, busy, poolvars, mapvars>>

\* halftakeit of the event y that got the atomic it waited for.
Given(x, Y) ==
  /\ apc' = [y \in AmEvent |-> IF y \in Y THEN "granted" ELSE apc[y]]
  /\ hold' = [y \in AmEvent |-> IF y = x THEN [hold[x] EXCEPT ![widx[x]].atom = AmNull]
                                ELSE IF y \in Y THEN [hold[y] EXCEPT ![won[y]].haveit = TRUE]
                                ELSE hold[y]]
  /\ won' = [y \in AmEvent |-> IF y \in Y THEN won[y] + 1 ELSE won[y]]
  /\ widx' = [widx EXCEPT ![x] = @ - 1]

Releasing(x) == apc[x] \in {"release", "erelease"} /\ widx[x] > 0

\* AtomicPooled::release, and the relinquish that follows it when it was handed over.
ReleaseData(x) ==
  LET c == hold[x][widx[x]].atom
  IN  /\ Releasing(x) /\ hold[x][widx[x]].at = AmPool /\ c # AmNull
      /\ IF pq # <<>>
         THEN LET y == Head(pq)
              IN  /\ apData' = [apData EXCEPT ![hold[y][won[y]].atom] = apData[c], ![c] = AmNull]
                  /\ pq' = Tail(pq) /\ Given(x, {y}) /\ UNCHANGED dq
         ELSE /\ dq' = IF apData[c] # AmNull THEN Append(dq, apData[c]) ELSE dq
              /\ apData' = [apData EXCEPT ![c] = AmNull]
              /\ Given(x, {}) /\ UNCHANGED pq
      /\ PoolPut(c)
      /\ UNCHANGED <<busy, mapvars>>

\* release of an atomic of the map, and its collection.
ReleaseKeyed(x) ==
  LET h == hold[x][widx[x]]
  IN  /\ Releasing(x) /\ h.at # AmPool /\ h.atom # AmNull
      /\ \E n \in 0 .. Len(state[h.atom].waiters) :
           /\ IsBatch(state[h.atom], h.wtype, h.atom \in filled, n)
           /\ state' = [state EXCEPT ![h.atom] = Released(@, h.wtype, n)]
           /\ Given(x, {state[h.atom].waiters[i].event : i \in 1 .. n})
           /\ map' = IF n = 0 /\ Collectable(h.atom) THEN [map EXCEPT ![h.at] = AmNull] ELSE map
      /\ UNCHANGED <<busy, filled, poolvars>>

\* Released early.
SkipReleased(x) ==
  /\ Releasing(x) /\ hold[x][widx[x]].atom = AmNull
  /\ widx' = [widx EXCEPT ![x] = @ - 1]
  /\ UNCHANGED <<apc, hold, won, busy, poolvars, mapvars>>

AllReleased(x) ==
  /\ apc[x] \in {"release", "erelease"} /\ widx[x] = 0
  /\ apc' = [y \in AmEvent |-> IF y = x THEN (IF apc[x] = "release" THEN "reacquire" ELSE "ereacquire")
                               ELSE IF apc[y] = "granted" THEN "acquire" ELSE apc[y]]
  /\ UNCHANGED <<hold, won, widx, busy, poolvars, mapvars>>

\* Events that have their guards are queued; the event is deleted, unless its node
\* function goes on.
Handled(x) ==
  /\ apc[x] \in {"reacquire", "ereacquire"} /\ AllSettled
  /\ apc' = [y \in AmEvent |-> IF y = x THEN (IF apc[x] = "reacquire" THEN "none" ELSE "run")
                               ELSE IF apc[y] = "acquired" THEN "queued" ELSE apc[y]]
  /\ IF apc[x] = "reacquire"
     THEN hold' = [hold EXCEPT ![x] = <<>>] /\ won' = [won EXCEPT ![x] = 1]
     ELSE UNCHANGED <<hold, won>>
  /\ busy' = AmNull
  /\ UNCHANGED <<widx, poolvars, mapvars>>

AmNext == \E x \in AmEvent :
  \/ Key(x) \/ AcquireData(x) \/ AcquireKeyed(x) \/ HaveAll(x)
  \/ Run(x) \/ Fill(x) \/ ReleaseEarly(x) \/ Succeed(x) \/ StartRelease(x)
  \/ ReleaseData(x) \/ ReleaseKeyed(x) \/ SkipReleased(x) \/ AllReleased(x) \/ Handled(x)

-----------------------------------------------------------------------------
HeldAtomics == UNION {{hold[x][i] : i \in DOMAIN hold[x]} : x \in AmEvent}

\* The cells on the free list, in the order of their _next.
CellOnList(s) ==
  /\ Len(s) > 0 => s[1] = apList /\ s[Len(s)] = apLast /\ apNext[apLast] = AmNull
  /\ Len(s) = 0 => apList = AmNull /\ apLast = AmNull
  /\ \A i \in 1 .. (Len(s) - 1) : apNext[s[i]] = s[i + 1]

\* The pool keeps what it was given: a cell is on the free list once or an event has it,
\* data is in _dq or in a cell that an event has, and nobody waits while there is some
\* (get, put, get_data, put_data and AtomicPooled::release).
PoolIsKept ==
  LET inUse == {h.atom : h \in {g \in HeldAtomics : g.at = AmPool}} \ {AmNull}
      full  == {c \in made : apData[c] # AmNull}
  IN  /\ \E s \in Orders(made \ inUse) : CellOnList(s)
      /\ full = {h.atom : h \in {g \in HeldAtomics : g.at = AmPool /\ g.haveit}} \ {AmNull}
      /\ \A d \in AmData : Cardinality({i \in DOMAIN dq : dq[i] = d}) + Cardinality({c \in full : apData[c] = d}) = 1
      /\ pq # <<>> => dq = <<>>

\* An atomic that an event holds or waits for is the one in the map (two events that
\* need a key do not get an atomic each), and one that nobody needs, and that has no
\* data, is not kept (garbage_collect).
CollectedInTime ==
  LET keyed == {h \in HeldAtomics : h.at # AmPool /\ h.atom # AmNull}
  IN  /\ \A h \in keyed : h.atom = map[h.at]
      /\ \A a \in Alive : a \in filled \/ \E h \in keyed : h.atom = a
=============================================================================

--------------------------- MODULE AtomicMaps_proofs ---------------------------
(***************************************************************************)
(* The pool and the map of a guard that is garbage collected.  An event    *)
(* has its atomics in the order of its plan.  A cell of the pool is with   *)
(* one event or on the free list; data is in _dq or in a cell of an event  *)
(* that has it; whoever waits for data is in _q, and then _dq is empty.    *)
(* Of the atomic of a key, _held counts the events that have it, the       *)
(* waiters are the events that wait for it, an Exclusive holder is alone,  *)
(* and one that is empty has a holder or a waiter.                         *)
(***************************************************************************)
EXTENDS AtomicMaps, SequenceTheorems, FiniteSetTheorems, TLAPS

\* Where an event is, and where it has all its guards.
AmPC == {"none", "key", "acquire", "wait", "granted", "acquired", "queued", "run",
         "succ", "release", "erelease", "reacquire", "ereacquire"}
AmHaving == {"acquired", "queued", "run", "succ", "release", "erelease", "reacquire", "ereacquire"}

\* A HeldAtomic, an entry of _waiters, and an atomic of the map.
AmHeldType ==
  [at : {AmPool} \cup AmKey, wtype : {Read, Exclusive}, atom : AmAtom \cup AmCell \cup {AmNull},
   haveit : BOOLEAN]

AmEntry == [event : AmEvent, wtype : {Read, Exclusive}]

AmStateType == [held : Nat, mode : {None} \cup WType, waiters : Seq(AmEntry)]

\* The variables keep their types.
AmTypes ==
  /\ apc \in [AmEvent -> AmPC]
  /\ hold \in [AmEvent -> Seq(AmHeldType)]
  /\ won \in [AmEvent -> Nat] /\ widx \in [AmEvent -> Nat]
  /\ apNext \in [AmCell -> AmCell \cup {AmNull}]
  /\ apData \in [AmCell -> AmData \cup {AmNull}]
  /\ dq \in Seq(AmData) /\ pq \in Seq(AmEvent)
  /\ map \in [AmKey -> AmAtom \cup {AmNull}]
  /\ state \in [AmAtom -> AmStateType]

\* What a reference of x can be.
AmRefs(x) ==
  /\ \A i, j \in DOMAIN hold[x] : hold[x][i].at = hold[x][j].at => i = j
  /\ \A i \in DOMAIN hold[x] :
       /\ hold[x][i].at = AmPool => hold[x][i].atom \in AmCell \cup {AmNull}
       /\ hold[x][i].at # AmPool => hold[x][i].atom \in AmAtom \cup {AmNull}
       /\ hold[x][i].haveit <=> i < won[x]
       /\ apc[x] \in AmHaving => i < won[x]
       /\ apc[x] = "key" => hold[x][i].atom = AmNull
       /\ i >= won[x] /\ hold[x][i].at # AmPool /\ hold[x][i].atom # AmNull
            => apc[x] = "wait" /\ i = won[x]
       /\ apc[x] \in {"acquire", "wait", "granted"} /\ hold[x][i].at = AmPool => hold[x][i].atom # AmNull
       /\ apc[x] \in {"release", "erelease"} /\ i > widx[x] => hold[x][i].atom = AmNull
       /\ apc[x] \in {"reacquire", "ereacquire"} => hold[x][i].atom = AmNull
  /\ won[x] >= 1
  /\ apc[x] \in {"none", "key"} => won[x] = 1
  /\ apc[x] = "none" => hold[x] = <<>>
  /\ apc[x] = "wait" => won[x] \in DOMAIN hold[x] /\ hold[x][won[x]].atom # AmNull
  /\ apc[x] \in {"release", "erelease"} => widx[x] <= Len(hold[x])

AmShape == \A x \in AmEvent : AmRefs(x)

\* Who has a cell of the pool, who has data in it, and who waits for data.
AmUses(x, c) == \E i \in DOMAIN hold[x] : hold[x][i].at = AmPool /\ hold[x][i].atom = c
AmGets(x, c) == \E i \in DOMAIN hold[x] : hold[x][i].at = AmPool /\ hold[x][i].atom = c /\ hold[x][i].haveit
AmPoolWaits == {x \in AmEvent : apc[x] = "wait" /\ hold[x][won[x]].at = AmPool}

\* Who has the atomic of a key, and who waits for it.
AmHas(x, k, w) == \E i \in DOMAIN hold[x] : /\ hold[x][i].at = k /\ hold[x][i].wtype = w
                                            /\ hold[x][i].haveit /\ hold[x][i].atom # AmNull
AmWants(x, k, w) == apc[x] = "wait" /\ hold[x][won[x]].at = k /\ hold[x][won[x]].wtype = w
AmHolders(k) == {u \in AmEntry :
   \E i \in DOMAIN hold[u.event] : /\ hold[u.event][i].at = k /\ hold[u.event][i].wtype = u.wtype
                                   /\ hold[u.event][i].haveit /\ hold[u.event][i].atom # AmNull}
AmWaiting(k) == {u \in AmEntry : /\ apc[u.event] = "wait" /\ hold[u.event][won[u.event]].at = k
                                 /\ hold[u.event][won[u.event]].wtype = u.wtype}

AmInUse == {c \in AmCell : \E x \in AmEvent : AmUses(x, c)}
AmGot == {c \in AmCell : \E x \in AmEvent : AmGets(x, c)}

\* The free list.
AmOnList(s, S) ==
  /\ CellOnList(s) /\ S = {s[i] : i \in DOMAIN s}
  /\ \A i, j \in DOMAIN s : s[i] = s[j] => i = j
  /\ \A c \in AmCell \ S : apNext[c] = AmNull

\* A cell is with one event or on the free list.
AmCells ==
  /\ made \subseteq AmCell /\ AmInUse \subseteq made
  /\ \A x, y \in AmEvent, c \in AmCell : AmUses(x, c) /\ AmUses(y, c) => x = y
  /\ \E s \in Seq(AmCell) : AmOnList(s, made \ AmInUse)

\* The data of the pool, when the cells in got have some.
AmDataIn(got) ==
  /\ \A c \in AmCell : apData[c] # AmNull <=> c \in got
  /\ \A i, j \in DOMAIN dq : dq[i] = dq[j] => i = j
  /\ \A c, d \in AmCell : apData[c] = apData[d] /\ apData[c] # AmNull => c = d
  /\ \A c \in AmCell, i \in DOMAIN dq : apData[c] # dq[i]
  /\ \A d \in AmData : (\E i \in DOMAIN dq : dq[i] = d) \/ (\E c \in AmCell : apData[c] = d)

\* The data, and the events of _q, each of which is there once.
AmDataKept ==
  /\ AmDataIn(AmGot)
  /\ \A i, j \in DOMAIN pq : pq[i] = pq[j] => i = j
  /\ \A i \in DOMAIN pq : pq[i] \in AmPoolWaits
  /\ pq # <<>> => dq = <<>>

\* An atomic that the events in H have and those in W wait for.
AmStateOf(atm, H, W) ==
  /\ IsFiniteSet(H) /\ atm.held = Cardinality(H)
  /\ W = {atm.waiters[i] : i \in DOMAIN atm.waiters}
  /\ \A i, j \in DOMAIN atm.waiters : atm.waiters[i].event = atm.waiters[j].event => i = j
  /\ atm.held = 0 => atm.mode = None
  /\ atm.mode = Read => \A u \in H : u.wtype = Read
  /\ \A u \in H : u.wtype = Exclusive => H = {u}

\* The atomic of k, when it is a.
AmAtomOf(k, a) ==
  /\ AmStateOf(state[a], AmHolders(k), AmWaiting(k))
  /\ a \in filled \/ AmHolders(k) # {} \/ AmWaiting(k) # {}

\* The atomics of the map: no two keys have the same, and an event has no other of its key.
AmAtoms ==
  /\ \A k \in AmKey, a \in AmAtom : map[k] = a => AmAtomOf(k, a)
  /\ \A k \in AmKey : map[k] = AmNull => AmHolders(k) = {} /\ AmWaiting(k) = {}
  /\ \A k, l \in AmKey : map[k] = map[l] /\ map[k] # AmNull => k = l
  /\ \A x \in AmEvent : \A i \in DOMAIN hold[x] :
       hold[x][i].at # AmPool /\ hold[x][i].atom # AmNull => hold[x][i].atom = map[hold[x][i].at]

\* The inductive invariant.
AmInv == AmTypes /\ AmShape /\ AmCells /\ AmDataKept /\ AmAtoms

\* Nobody gets or gives up a cell, data or a place among those who wait for data.
AmCellsSame ==
  /\ \A x \in AmEvent, c \in AmCell : /\ AmUses(x, c)' <=> AmUses(x, c)
                                      /\ AmGets(x, c)' <=> AmGets(x, c)
  /\ AmPoolWaits' = AmPoolWaits

\* The references of an event that nothing happens to.
LEMMA AmRefsSame ==
  ASSUME NEW x, AmRefs(x), apc'[x] = apc[x], hold'[x] = hold[x], won'[x] = won[x], widx'[x] = widx[x]
  PROVE  AmRefs(x)'
  BY DEF AmRefs

\* A holder that is built needs everything it is for.
LEMMA AmBuild ==
  ASSUME NEW plan0 \in AmPlan
  PROVE  /\ Build(plan0) \in Seq(AmHeldType)
         /\ \A i \in DOMAIN Build(plan0) : Build(plan0)[i].atom = AmNull /\ Build(plan0)[i].haveit = FALSE
         /\ \A i, j \in DOMAIN Build(plan0) : Build(plan0)[i].at = Build(plan0)[j].at => i = j
  <1>1. plan0 \in Seq(Ref) /\ \A i, j \in DOMAIN plan0 : plan0[i].at = plan0[j].at => i = j
    BY AtomicMapsAssumption
  <1>2. PICK n \in Nat : n = Len(plan0) /\ DOMAIN plan0 = 1 .. n
    BY <1>1
  <1>3. \A i \in 1 .. n : plan0[i] \in Ref
    BY <1>1, <1>2
  <1> DEFINE r(i) == [at |-> plan0[i].at, wtype |-> plan0[i].wtype, atom |-> AmNull, haveit |-> FALSE]
  <1>4. \A i \in 1 .. n : r(i) \in AmHeldType
    BY <1>3 DEF Ref, AmHeldType
  <1>5. Build(plan0) = [i \in 1 .. n |-> r(i)]
    BY <1>2 DEF Build
  <1> HIDE DEF r
  <1>6. Build(plan0) \in Seq(AmHeldType) /\ DOMAIN Build(plan0) = 1 .. n
    BY <1>4, <1>5
  <1>7. \A i \in 1 .. n : Build(plan0)[i] = r(i)
    BY <1>5
  <1> QED
    BY <1>1, <1>2, <1>6, <1>7 DEF r

\* Nobody gets or gives up anything: the holders that change have nothing.
AmQuiet ==
  \A y \in AmEvent :
    /\ apc'[y] = "wait" <=> apc[y] = "wait"
    /\ \/ hold'[y] = hold[y] /\ (apc[y] = "wait" => won'[y] = won[y])
       \/ /\ apc[y] # "wait"
          /\ \A i \in DOMAIN hold[y] : hold[y][i].atom = AmNull
          /\ \A i \in DOMAIN hold'[y] : hold'[y][i].atom = AmNull

\* Then nobody gets or gives up anything.
LEMMA AmQuietRelations ==
  ASSUME AmQuiet
  PROVE  /\ AmCellsSame
         /\ \A k : AmHolders(k)' = AmHolders(k) /\ AmWaiting(k)' = AmWaiting(k)
  <1>0. AmNull \notin AmCell
    BY AtomicMapsAssumption
  <1>1. ASSUME NEW y \in AmEvent, NEW c \in AmCell
        PROVE  /\ (\E i \in DOMAIN hold'[y] : hold'[y][i].at = AmPool /\ hold'[y][i].atom = c)
                  <=> (\E i \in DOMAIN hold[y] : hold[y][i].at = AmPool /\ hold[y][i].atom = c)
               /\ (\E i \in DOMAIN hold'[y] : hold'[y][i].at = AmPool /\ hold'[y][i].atom = c /\ hold'[y][i].haveit)
                  <=> (\E i \in DOMAIN hold[y] : hold[y][i].at = AmPool /\ hold[y][i].atom = c /\ hold[y][i].haveit)
    BY <1>0 DEF AmQuiet
  <1>2. \A x \in AmEvent, c \in AmCell : AmUses(x, c)' <=> AmUses(x, c)
    BY <1>1 DEF AmUses
  <1>3. \A x \in AmEvent, c \in AmCell : AmGets(x, c)' <=> AmGets(x, c)
    BY <1>1 DEF AmGets
  <1>4. AmPoolWaits' = AmPoolWaits
    BY DEF AmPoolWaits, AmQuiet
  <1>5. ASSUME NEW k PROVE AmHolders(k)' = AmHolders(k)
    <2>1. ASSUME NEW u \in AmEntry
          PROVE  (\E i \in DOMAIN hold'[u.event] : /\ hold'[u.event][i].at = k /\ hold'[u.event][i].wtype = u.wtype
                                                  /\ hold'[u.event][i].haveit /\ hold'[u.event][i].atom # AmNull)
                 <=> (\E i \in DOMAIN hold[u.event] : /\ hold[u.event][i].at = k /\ hold[u.event][i].wtype = u.wtype
                                                   /\ hold[u.event][i].haveit /\ hold[u.event][i].atom # AmNull)
      <3>1. u.event \in AmEvent
        BY DEF AmEntry
      <3> QED
        BY <3>1 DEF AmQuiet
    <2> QED
      BY <2>1 DEF AmHolders
  <1>6. ASSUME NEW k PROVE AmWaiting(k)' = AmWaiting(k)
    <2>1. \A u \in AmEntry : u.event \in AmEvent
      BY DEF AmEntry
    <2> QED
      BY <2>1 DEF AmWaiting, AmQuiet
  <1> QED
    BY <1>2, <1>3, <1>4, <1>5, <1>6 DEF AmCellsSame

\* The pool is left alone.
LEMMA AmPoolAlone ==
  ASSUME AmCells, AmDataKept, UNCHANGED poolvars, AmCellsSame
  PROVE  AmCells' /\ AmDataKept'
  <1>1. AmInUse' = AmInUse /\ AmGot' = AmGot
    BY DEF AmInUse, AmGot, AmCellsSame
  <1>2. made' = made /\ apNext' = apNext /\ apList' = apList /\ apLast' = apLast /\ apData' = apData /\ dq' = dq /\ pq' = pq
    BY DEF poolvars, listvars
  <1>3. AmCells'
    <2>1. PICK s \in Seq(AmCell) : AmOnList(s, made \ AmInUse)
      BY DEF AmCells
    <2>2. AmOnList(s, made \ AmInUse)'
      BY <1>1, <1>2, <2>1 DEF AmOnList, CellOnList
    <2> QED
      BY <1>1, <1>2, <2>2 DEF AmCells, AmCellsSame
  <1>4. AmDataKept'
    BY <1>1, <1>2 DEF AmDataKept, AmDataIn, AmCellsSame
  <1> QED
    BY <1>3, <1>4

\* Every atomic that an event has or waits for is in the map.
AmFound == \A x \in AmEvent : \A i \in DOMAIN hold[x] :
             hold[x][i].at # AmPool /\ hold[x][i].atom # AmNull => hold[x][i].atom = map[hold[x][i].at]

\* The map is left alone.
LEMMA AmMapAlone ==
  ASSUME AmAtoms, UNCHANGED mapvars, AmFound',
         \A k \in AmKey : AmHolders(k)' = AmHolders(k) /\ AmWaiting(k)' = AmWaiting(k)
  PROVE  AmAtoms'
  <1>1. map' = map /\ state' = state /\ filled' = filled
    BY DEF mapvars
  <1>2. \A k \in AmKey, a \in AmAtom : AmAtomOf(k, a) => AmAtomOf(k, a)'
    BY <1>1 DEF AmAtomOf, AmStateOf
  <1> QED
    BY <1>1, <1>2 DEF AmAtoms, AmFound

\* A holder is a sequence of references.
LEMMA AmHoldTyped ==
  ASSUME AmTypes, NEW x \in AmEvent
  PROVE  /\ hold[x] \in Seq(AmHeldType) /\ Len(hold[x]) \in Nat /\ DOMAIN hold[x] = 1 .. Len(hold[x])
         /\ \A i \in DOMAIN hold[x] : hold[x][i] \in AmHeldType
         /\ won[x] \in Nat /\ widx[x] \in Nat /\ apc[x] \in AmPC
  BY ElementOfSeq DEF AmTypes

\* Steps that change where an event is, and nothing that it has.
LEMMA AmMoves ==
  ASSUME AmInv, NEW x \in AmEvent,
         HaveAll(x) \/ Run(x) \/ ReleaseEarly(x) \/ StartRelease(x) \/ SkipReleased(x) \/ AllReleased(x)
  PROVE  AmInv'
  <1>0. AmTypes /\ AmShape /\ AmCells /\ AmDataKept /\ AmAtoms
    BY DEF AmInv
  <1>1. hold' = hold /\ won' = won /\ UNCHANGED poolvars /\ UNCHANGED mapvars
    BY DEF HaveAll, Run, ReleaseEarly, StartRelease, SkipReleased, AllReleased
  <1>2. /\ apc' \in [AmEvent -> AmPC] /\ widx' \in [AmEvent -> Nat]
        /\ \A y \in AmEvent : y # x => /\ widx'[y] = widx[y]
                                       /\ apc'[y] = apc[y] \/ (apc[y] = "granted" /\ apc'[y] = "acquire")
        /\ \/ apc[x] = "acquire" /\ apc'[x] = "acquired" /\ won[x] > Len(hold[x]) /\ widx'[x] = widx[x]
           \/ apc[x] = "queued" /\ apc'[x] = "run" /\ widx'[x] = widx[x]
           \/ apc[x] = "run" /\ apc'[x] = "erelease" /\ widx'[x] = Len(hold[x])
           \/ apc[x] = "succ" /\ apc'[x] = "release" /\ widx'[x] = Len(hold[x])
           \/ /\ apc[x] \in {"release", "erelease"} /\ apc'[x] = apc[x] /\ hold[x][widx[x]].atom = AmNull
              /\ widx[x] > 0 /\ widx'[x] = widx[x] - 1
           \/ apc[x] = "release" /\ apc'[x] = "reacquire" /\ widx[x] = 0 /\ widx'[x] = 0
           \/ apc[x] = "erelease" /\ apc'[x] = "ereacquire" /\ widx[x] = 0 /\ widx'[x] = 0
    <2>0. apc \in [AmEvent -> AmPC] /\ widx \in [AmEvent -> Nat] /\ Len(hold[x]) \in Nat
      BY <1>0, AmHoldTyped DEF AmTypes
    <2>1. CASE HaveAll(x)
      BY <2>0, <2>1 DEF HaveAll, AmPC
    <2>2. CASE Run(x)
      BY <2>0, <2>2 DEF Run, AmPC
    <2>3. CASE ReleaseEarly(x)
      BY <2>0, <2>3 DEF ReleaseEarly, AmPC
    <2>4. CASE StartRelease(x)
      BY <2>0, <2>4 DEF StartRelease, AmPC
    <2>5. CASE SkipReleased(x)
      BY <2>0, <2>5 DEF SkipReleased, Releasing, AmPC
    <2>6. CASE AllReleased(x)
      BY <2>0, <2>6 DEF AllReleased, AmPC
    <2> QED
      BY <2>1, <2>2, <2>3, <2>4, <2>5, <2>6
  <1>3. AmTypes'
    BY <1>0, <1>1, <1>2 DEF AmTypes, poolvars, listvars, mapvars
  <1>4. AmShape'
    <2> SUFFICES ASSUME NEW y \in AmEvent PROVE AmRefs(y)'
      BY DEF AmShape
    <2>0. AmRefs(y) /\ Len(hold[y]) \in Nat /\ DOMAIN hold[y] = 1 .. Len(hold[y]) /\ won[y] \in Nat /\ widx[y] \in Nat
      BY <1>0, AmHoldTyped DEF AmShape
    <2>1. CASE y # x
      <3>1. widx'[y] = widx[y] /\ (apc'[y] = apc[y] \/ (apc[y] = "granted" /\ apc'[y] = "acquire"))
        BY <1>2, <2>1
      <3> QED
        BY <1>1, <2>0, <3>1 DEF AmRefs, AmHaving
    <2>2. CASE y = x
      BY <1>1, <1>2, <2>0, <2>2 DEF AmRefs, AmHaving
    <2> QED
      BY <2>1, <2>2
  <1>5. AmQuiet
    BY <1>1, <1>2 DEF AmQuiet
  <1>6. AmFound'
    BY <1>0, <1>1 DEF AmFound, AmAtoms, mapvars
  <1> QED
    BY <1>0, <1>1, <1>3, <1>4, <1>5, <1>6, AmQuietRelations, AmPoolAlone, AmMapAlone DEF AmInv

\* The node function sets or clears data of an atomic that it has for itself.
LEMMA AmFills == ASSUME AmInv, NEW x \in AmEvent, Fill(x) PROVE AmInv'
  <1>0. AmTypes /\ AmShape /\ AmCells /\ AmDataKept /\ AmAtoms
    BY DEF AmInv
  <1>1. UNCHANGED <<eventvars, poolvars, map, state>>
    BY DEF Fill
  <1>2. PICK i \in DOMAIN hold[x] :
          /\ apc[x] = "run" /\ hold[x][i].at # AmPool /\ hold[x][i].atom # AmNull
          /\ filled' \in {filled \cup {hold[x][i].atom}, filled \ {hold[x][i].atom}}
    BY DEF Fill
  <1>3. AmTypes' /\ AmShape'
    BY <1>0, <1>1 DEF AmTypes, AmShape, AmRefs, AmHaving, eventvars, poolvars, listvars
  <1>4. AmQuiet
    BY <1>1 DEF AmQuiet, eventvars
  <1>5. AmCells' /\ AmDataKept'
    BY <1>0, <1>1, <1>4, AmQuietRelations, AmPoolAlone
  <1> DEFINE k0 == hold[x][i].at
  <1>6. k0 \in AmKey /\ hold[x][i].atom = map[k0] /\ AmHolders(k0) # {}
    <2>1. hold[x][i] \in AmHeldType /\ hold[x][i].haveit
      BY <1>0, <1>2, AmHoldTyped DEF AmShape, AmRefs, AmHaving
    <2>2. [event |-> x, wtype |-> hold[x][i].wtype] \in AmHolders(k0)
      BY <1>2, <2>1 DEF AmHolders, AmEntry, AmHeldType
    <2> QED
      BY <1>0, <1>2, <2>1, <2>2 DEF AmHeldType, AmAtoms
  <1>7. \A k \in AmKey, a \in AmAtom : map[k] = a /\ AmAtomOf(k, a) => AmAtomOf(k, a)'
    <2> SUFFICES ASSUME NEW k \in AmKey, NEW a \in AmAtom, map[k] = a, AmAtomOf(k, a) PROVE AmAtomOf(k, a)'
      OBVIOUS
    <2>1. AmHolders(k)' = AmHolders(k) /\ AmWaiting(k)' = AmWaiting(k)
      BY <1>4, AmQuietRelations
    <2>2. state' = state
      BY <1>1
    <2>3. a \in filled' \/ AmHolders(k) # {} \/ AmWaiting(k) # {}
      <3>1. CASE k = k0
        BY <1>6, <3>1
      <3>2. CASE k # k0
        <4>1. a # map[k0]
          BY <1>0, <1>6, <3>2, AtomicMapsAssumption DEF AmAtoms
        <4>2. a \in filled' <=> a \in filled
          BY <1>2, <1>6, <4>1
        <4> QED
          BY <4>2 DEF AmAtomOf, AmStateOf
      <3> QED
        BY <3>1, <3>2
    <2> QED
      BY <2>1, <2>2, <2>3 DEF AmAtomOf, AmStateOf
  <1>8. AmFound'
    BY <1>0, <1>1 DEF AmFound, AmAtoms, eventvars
  <1>9. AmAtoms'
    BY <1>0, <1>1, <1>4, <1>7, <1>8, AmQuietRelations DEF AmAtoms, AmFound
  <1> QED
    BY <1>3, <1>5, <1>9 DEF AmInv

\* Successors are made; they need what their plans say and have nothing.
LEMMA AmSucceeds == ASSUME AmInv, NEW x \in AmEvent, Succeed(x) PROVE AmInv'
  <1>0. AmTypes /\ AmShape /\ AmCells /\ AmDataKept /\ AmAtoms
    BY DEF AmInv
  <1>1. UNCHANGED <<won, widx, poolvars, mapvars>> /\ apc[x] = "run"
    BY DEF Succeed
  <1>2. PICK S \in SUBSET {y \in AmEvent : apc[y] = "none"} : \E f \in [S -> AmPlan] :
          /\ apc' = [y \in AmEvent |-> IF y = x THEN "succ" ELSE IF y \in S THEN "key" ELSE apc[y]]
          /\ hold' = [y \in AmEvent |-> IF y \in S THEN Build(f[y]) ELSE hold[y]]
    BY DEF Succeed
  <1>3. PICK f \in [S -> AmPlan] :
          /\ apc' = [y \in AmEvent |-> IF y = x THEN "succ" ELSE IF y \in S THEN "key" ELSE apc[y]]
          /\ hold' = [y \in AmEvent |-> IF y \in S THEN Build(f[y]) ELSE hold[y]]
    BY <1>2
  <1>4. \A y \in S : /\ y # x /\ y \in AmEvent /\ apc[y] = "none" /\ apc'[y] = "key" /\ f[y] \in AmPlan
                     /\ hold'[y] = Build(f[y]) /\ hold[y] = <<>> /\ won[y] = 1
    BY <1>0, <1>1, <1>3 DEF AmShape, AmRefs
  <1>b. \A y \in S : /\ hold'[y] \in Seq(AmHeldType)
                     /\ \A i \in DOMAIN hold'[y] : hold'[y][i].atom = AmNull /\ hold'[y][i].haveit = FALSE
                     /\ \A i, j \in DOMAIN hold'[y] : hold'[y][i].at = hold'[y][j].at => i = j
    <2> SUFFICES ASSUME NEW y \in S
                 PROVE  /\ hold'[y] \in Seq(AmHeldType)
                        /\ \A i \in DOMAIN hold'[y] : hold'[y][i].atom = AmNull /\ hold'[y][i].haveit = FALSE
                        /\ \A i, j \in DOMAIN hold'[y] : hold'[y][i].at = hold'[y][j].at => i = j
      OBVIOUS
    <2>1. PICK p0 \in AmPlan : p0 = f[y]
      BY <1>4
    <2>2. hold'[y] = Build(p0)
      BY <1>4, <2>1
    <2> QED
      BY <2>2, AmBuild
  <1>5. \A y \in AmEvent \ S : hold'[y] = hold[y] /\ (y # x => apc'[y] = apc[y])
    BY <1>3
  <1>6. apc'[x] = "succ"
    BY <1>3
  <1>7. AmTypes'
    <2>1. apc' \in [AmEvent -> AmPC]
      BY <1>0, <1>3 DEF AmTypes, AmPC
    <2>2. \A y \in AmEvent : hold'[y] \in Seq(AmHeldType)
      BY <1>0, <1>b, <1>5 DEF AmTypes
    <2>3. hold' \in [AmEvent -> Seq(AmHeldType)]
      BY <1>3, <2>2
    <2> QED
      BY <1>0, <1>1, <2>1, <2>3 DEF AmTypes, poolvars, listvars, mapvars
  <1>8. AmShape'
    <2> SUFFICES ASSUME NEW y \in AmEvent PROVE AmRefs(y)'
      BY DEF AmShape
    <2>0. AmRefs(y)
      BY <1>0 DEF AmShape
    <2>1. CASE y \in S
      <3>1. /\ \A i \in DOMAIN hold'[y] : hold'[y][i].atom = AmNull /\ hold'[y][i].haveit = FALSE
            /\ \A i, j \in DOMAIN hold'[y] : hold'[y][i].at = hold'[y][j].at => i = j
            /\ DOMAIN hold'[y] \subseteq Nat \ {0}
        BY <1>b, <2>1
      <3>2. apc'[y] = "key" /\ won'[y] = 1
        BY <1>1, <1>4, <2>1
      <3> QED
        BY <3>1, <3>2 DEF AmRefs, AmHaving
    <2>2. CASE y = x
      BY <1>1, <1>4, <1>5, <1>6, <2>0, <2>2 DEF AmRefs, AmHaving
    <2>3. CASE y \notin S /\ y # x
      BY <1>1, <1>5, <2>0, <2>3, AmRefsSame
    <2> QED
      BY <2>1, <2>2, <2>3
  <1>9. AmQuiet
    <2> SUFFICES ASSUME NEW y \in AmEvent
                 PROVE  /\ apc'[y] = "wait" <=> apc[y] = "wait"
                        /\ \/ hold'[y] = hold[y] /\ (apc[y] = "wait" => won'[y] = won[y])
                           \/ /\ apc[y] # "wait"
                              /\ \A i \in DOMAIN hold[y] : hold[y][i].atom = AmNull
                              /\ \A i \in DOMAIN hold'[y] : hold'[y][i].atom = AmNull
      BY DEF AmQuiet
    <2>1. CASE y \in S
      BY <1>4, <1>b, <2>1
    <2>2. CASE y \notin S
      BY <1>1, <1>5, <1>6, <2>2
    <2> QED
      BY <2>1, <2>2
  <1>10. AmFound'
    <2> SUFFICES ASSUME NEW y \in AmEvent, NEW i \in DOMAIN hold'[y], hold'[y][i].at # AmPool, hold'[y][i].atom # AmNull
                 PROVE  hold'[y][i].atom = map[hold'[y][i].at]
      BY <1>1 DEF AmFound, mapvars
    <2>1. y \notin S
      BY <1>b
    <2> QED
      BY <1>0, <1>5, <2>1 DEF AmAtoms
  <1> QED
    BY <1>0, <1>1, <1>7, <1>8, <1>9, <1>10, AmQuietRelations, AmPoolAlone, AmMapAlone DEF AmInv

\* An event that ends has given up everything.
LEMMA AmEnds == ASSUME AmInv, NEW x \in AmEvent, Handled(x) PROVE AmInv'
  <1>0. AmTypes /\ AmShape /\ AmCells /\ AmDataKept /\ AmAtoms
    BY DEF AmInv
  <1>1. UNCHANGED <<widx, poolvars, mapvars>> /\ apc[x] \in {"reacquire", "ereacquire"}
    BY DEF Handled
  <1>2. /\ apc' \in [AmEvent -> AmPC]
        /\ apc'[x] = IF apc[x] = "reacquire" THEN "none" ELSE "run"
        /\ \A y \in AmEvent : y # x => \/ apc'[y] = apc[y]
                                       \/ apc[y] = "acquired" /\ apc'[y] = "queued"
    BY <1>0 DEF Handled, AmTypes, AmPC
  <1>3. /\ \A y \in AmEvent : y # x => hold'[y] = hold[y] /\ won'[y] = won[y]
        /\ \/ hold'[x] = hold[x] /\ won'[x] = won[x] /\ apc[x] = "ereacquire"
           \/ hold'[x] = <<>> /\ won'[x] = 1 /\ apc[x] = "reacquire"
        /\ hold' \in [AmEvent -> Seq(AmHeldType)] /\ won' \in [AmEvent -> Nat]
    <2>1. hold \in [AmEvent -> Seq(AmHeldType)] /\ won \in [AmEvent -> Nat]
      BY <1>0 DEF AmTypes
    <2>2. CASE apc[x] = "reacquire"
      <3>1. hold' = [hold EXCEPT ![x] = <<>>] /\ won' = [won EXCEPT ![x] = 1]
        BY <2>2 DEF Handled
      <3>2. <<>> \in Seq(AmHeldType)
        OBVIOUS
      <3> QED
        BY <2>1, <2>2, <3>1, <3>2
    <2>3. CASE apc[x] = "ereacquire"
      BY <2>1, <2>3 DEF Handled
    <2> QED
      BY <1>1, <2>2, <2>3
  <1>4. AmTypes'
    BY <1>0, <1>1, <1>2, <1>3 DEF AmTypes, poolvars, listvars, mapvars
  <1>5. \A i \in DOMAIN hold[x] : hold[x][i].atom = AmNull
    BY <1>0, <1>1 DEF AmShape, AmRefs
  <1>6. AmShape'
    <2> SUFFICES ASSUME NEW y \in AmEvent PROVE AmRefs(y)'
      BY DEF AmShape
    <2>0. AmRefs(y) /\ widx'[y] = widx[y]
      BY <1>0, <1>1 DEF AmShape
    <2>1. CASE y # x
      <3>1. hold'[y] = hold[y] /\ won'[y] = won[y]
        BY <1>3, <2>1
      <3>2. CASE apc'[y] = apc[y]
        BY <2>0, <3>1, <3>2, AmRefsSame
      <3>3. CASE apc[y] = "acquired" /\ apc'[y] = "queued"
        BY <2>0, <3>1, <3>3 DEF AmRefs, AmHaving
      <3> QED
        BY <1>2, <2>1, <3>2, <3>3
    <2>2. CASE y = x /\ apc[x] = "ereacquire"
      BY <1>2, <1>3, <2>0, <2>2 DEF AmRefs, AmHaving
    <2>3. CASE y = x /\ apc[x] = "reacquire"
      <3>1. hold'[y] = <<>> /\ won'[y] = 1 /\ apc'[y] = "none"
        BY <1>2, <1>3, <2>3
      <3> QED
        BY <3>1 DEF AmRefs, AmHaving
    <2> QED
      BY <1>1, <2>1, <2>2, <2>3
  <1>7. AmQuiet
    <2> SUFFICES ASSUME NEW y \in AmEvent
                 PROVE  /\ apc'[y] = "wait" <=> apc[y] = "wait"
                        /\ \/ hold'[y] = hold[y] /\ (apc[y] = "wait" => won'[y] = won[y])
                           \/ /\ apc[y] # "wait"
                              /\ \A i \in DOMAIN hold[y] : hold[y][i].atom = AmNull
                              /\ \A i \in DOMAIN hold'[y] : hold'[y][i].atom = AmNull
      BY DEF AmQuiet
    <2>1. CASE y # x
      BY <1>2, <1>3, <2>1
    <2>2. CASE y = x
      BY <1>1, <1>2, <1>3, <1>5, <2>2
    <2> QED
      BY <2>1, <2>2
  <1>8. AmFound'
    <2> SUFFICES ASSUME NEW y \in AmEvent, NEW i \in DOMAIN hold'[y], hold'[y][i].at # AmPool, hold'[y][i].atom # AmNull
                 PROVE  hold'[y][i].atom = map[hold'[y][i].at]
      BY <1>1 DEF AmFound, mapvars
    <2>1. hold'[y] = hold[y]
      <3>1. CASE hold'[y] = <<>>
        BY <3>1
      <3> QED
        BY <1>3, <3>1
    <2> QED
      BY <1>0, <2>1 DEF AmAtoms
  <1> QED
    BY <1>0, <1>1, <1>4, <1>6, <1>7, <1>8, AmQuietRelations, AmPoolAlone, AmMapAlone DEF AmInv

-----------------------------------------------------------------------------
\* A cell that is taken off the free list.
LEMMA AmTakes ==
  ASSUME NEW s \in Seq(AmCell), NEW S \in SUBSET AmCell, AmOnList(s, S), apNext \in [AmCell -> AmCell \cup {AmNull}],
         NEW c \in AmCell, PoolTake(c)
  PROVE  /\ apNext' \in [AmCell -> AmCell \cup {AmNull}]
         /\ \/ c \in S /\ made' = made
            \/ S = {} /\ c \notin made /\ made' = made \cup {c}
         /\ \E r \in Seq(AmCell) : AmOnList(r, S \ {c})'
  <1>0. AmNull \notin AmCell
    BY AtomicMapsAssumption
  <1>1. PICK n \in Nat : n = Len(s) /\ DOMAIN s = 1 .. n /\ \A i \in 1 .. n : s[i] \in AmCell
    BY ElementOfSeq
  <1>2. CASE apList = AmNull
    <2>1. n = 0
      BY <1>0, <1>1, <1>2 DEF AmOnList, CellOnList
    <2>2. S = {}
      BY <1>1, <2>1 DEF AmOnList
    <2>3. c \notin made /\ made' = made \cup {c} /\ UNCHANGED <<apList, apLast, apNext>>
      BY <1>2 DEF PoolTake
    <2>4. AmOnList(s, S \ {c})'
      BY <2>2, <2>3 DEF AmOnList, CellOnList
    <2> QED
      BY <2>2, <2>3, <2>4
  <1>3. CASE apList # AmNull
    <2>1. /\ c = apList /\ made' = made /\ apList' = apNext[c]
          /\ apLast' = IF apNext[c] = AmNull THEN AmNull ELSE apLast
          /\ apNext' = [apNext EXCEPT ![c] = AmNull]
      BY <1>3 DEF PoolTake
    <2>2. n > 0 /\ s[1] = c
      BY <1>1, <1>3, <2>1 DEF AmOnList, CellOnList
    <2>3. PICK r : r = Tail(s)
      OBVIOUS
    <2>4. /\ r \in Seq(AmCell) /\ Len(r) = n - 1 /\ DOMAIN r = 1 .. (n - 1)
          /\ \A i \in 1 .. (n - 1) : r[i] = s[i + 1]
      BY <1>1, <2>2, <2>3
    <2>5. /\ \A i, j \in 1 .. n : s[i] = s[j] => i = j
          /\ \A i \in 1 .. (n - 1) : apNext[s[i]] = s[i + 1]
          /\ s[n] = apLast /\ apNext[apLast] = AmNull /\ S = {s[i] : i \in 1 .. n}
          /\ \A d \in AmCell \ S : apNext[d] = AmNull
      BY <1>1, <2>2 DEF AmOnList, CellOnList
    <2>6. /\ apNext' \in [AmCell -> AmCell \cup {AmNull}] /\ apNext'[c] = AmNull
          /\ \A d \in AmCell : d # c => apNext'[d] = apNext[d]
      BY <2>1
    <2>7. CASE n = 1
      <3>1. apList' = AmNull /\ apLast' = AmNull /\ S = {c}
        BY <2>1, <2>2, <2>5, <2>7
      <3>2. Len(r) = 0 /\ DOMAIN r = {} /\ S \ {c} = {} /\ \A d \in AmCell : apNext'[d] = AmNull
        <4>1. Len(r) = 0 /\ DOMAIN r = {} /\ S \ {c} = {}
          BY <2>4, <2>7, <3>1
        <4>2. \A d \in AmCell : apNext'[d] = AmNull
          BY <2>5, <2>6, <3>1
        <4> QED
          BY <4>1, <4>2
      <3>3. CellOnList(r)'
        BY <2>4, <2>7, <3>1, <3>2 DEF CellOnList
      <3>4. {r[i] : i \in DOMAIN r} = {} /\ \A i, j \in DOMAIN r : r[i] = r[j] => i = j
        BY <3>2
      <3>5. AmOnList(r, S \ {c})'
        BY <3>2, <3>3, <3>4 DEF AmOnList
      <3>6. c \in S
        BY <3>1
      <3> QED
        BY <2>1, <2>4, <2>6, <3>5, <3>6
    <2>8. CASE n > 1
      <3>1. apList' = s[2] /\ apLast' = s[n] /\ apLast' = apLast
        BY <1>0, <1>1, <2>1, <2>2, <2>5, <2>8
      <3>2. /\ r[1] = apList' /\ r[n - 1] = apLast' /\ apNext'[apLast'] = AmNull
        BY <1>1, <2>4, <2>5, <2>6, <2>8, <3>1
      <3>3. \A i \in 1 .. (n - 2) : apNext'[r[i]] = r[i + 1]
        <4> SUFFICES ASSUME NEW i \in 1 .. (n - 2) PROVE apNext'[r[i]] = r[i + 1]
          OBVIOUS
        <4>1. r[i] = s[i + 1] /\ r[i + 1] = s[i + 2] /\ s[i + 1] # s[1] /\ s[i + 1] \in AmCell
          BY <1>1, <2>4, <2>5
        <4>2. apNext[s[i + 1]] = s[i + 2]
          BY <2>5
        <4> QED
          BY <2>2, <2>6, <4>1, <4>2
      <3>4. \A i, j \in 1 .. (n - 1) : r[i] = r[j] => i = j
        <4> SUFFICES ASSUME NEW i \in 1 .. (n - 1), NEW j \in 1 .. (n - 1), r[i] = r[j] PROVE i = j
          OBVIOUS
        <4>1. s[i + 1] = s[j + 1] /\ i + 1 \in 1 .. n /\ j + 1 \in 1 .. n
          BY <2>4
        <4> QED
          BY <2>5, <4>1
      <3>5. S \ {c} = {r[i] : i \in 1 .. (n - 1)}
        <4>1. ASSUME NEW d \in S \ {c} PROVE d \in {r[i] : i \in 1 .. (n - 1)}
          <5>1. PICK i \in 1 .. n : d = s[i]
            BY <2>5
          <5>2. i # 1
            BY <2>2, <5>1
          <5>3. i - 1 \in 1 .. (n - 1) /\ r[i - 1] = s[i]
            BY <2>4, <5>2
          <5> QED
            BY <5>1, <5>3
        <4>2. ASSUME NEW i \in 1 .. (n - 1) PROVE r[i] \in S \ {c}
          <5>1. r[i] = s[i + 1] /\ i + 1 \in 1 .. n /\ i + 1 # 1 /\ 1 \in 1 .. n
            BY <2>4
          <5> QED
            BY <2>2, <2>5, <5>1
        <4> QED
          BY <4>1, <4>2
      <3>6. \A d \in AmCell \ (S \ {c}) : apNext'[d] = AmNull
        BY <2>5, <2>6
      <3>7. CellOnList(r)'
        BY <2>4, <2>8, <3>2, <3>3 DEF CellOnList
      <3>8. AmOnList(r, S \ {c})'
        BY <2>4, <3>4, <3>5, <3>6, <3>7 DEF AmOnList
      <3>9. c \in S
        BY <1>1, <2>2, <2>5
      <3> QED
        BY <2>1, <2>4, <2>6, <3>8, <3>9
    <2> QED
      <3>1. n = 1 \/ n > 1
        BY <1>1, <2>2
      <3> QED
        BY <2>7, <2>8, <3>1, Zenon
  <1> QED
    BY <1>2, <1>3

\* A cell that is put on it.
LEMMA AmPuts ==
  ASSUME NEW s \in Seq(AmCell), NEW S \in SUBSET AmCell, AmOnList(s, S), apNext \in [AmCell -> AmCell \cup {AmNull}],
         NEW c \in AmCell, c \notin S, PoolPut(c)
  PROVE  /\ apNext' \in [AmCell -> AmCell \cup {AmNull}] /\ made' = made
         /\ \E r \in Seq(AmCell) : AmOnList(r, S \cup {c})'
  <1>0. AmNull \notin AmCell
    BY AtomicMapsAssumption
  <1>1. PICK n \in Nat : n = Len(s) /\ DOMAIN s = 1 .. n /\ \A i \in 1 .. n : s[i] \in AmCell
    BY ElementOfSeq
  <1>2. /\ \A i, j \in 1 .. n : s[i] = s[j] => i = j
        /\ \A i \in 1 .. (n - 1) : apNext[s[i]] = s[i + 1]
        /\ S = {s[i] : i \in 1 .. n}
        /\ \A d \in AmCell \ S : apNext[d] = AmNull
        /\ n > 0 => s[1] = apList /\ s[n] = apLast /\ apNext[apLast] = AmNull
        /\ n = 0 => apList = AmNull /\ apLast = AmNull
    BY <1>1 DEF AmOnList, CellOnList
  <1>3. c # apLast /\ apNext[c] = AmNull
    <2>1. CASE n = 0
      BY <1>0, <1>2, <2>1
    <2>2. CASE n > 0
      <3>1. apLast \in S
        BY <1>2, <2>2
      <3> QED
        BY <1>2, <3>1
    <2> QED
      BY <2>1, <2>2
  <1>4. /\ apNext' = [apNext EXCEPT ![c] = apList] /\ apLast' = (IF apList = AmNull THEN c ELSE apLast)
        /\ apList' = c /\ made' = made
    BY <1>3 DEF PoolPut
  <1>5. apList \in AmCell \cup {AmNull} /\ (apList = AmNull <=> n = 0)
    BY <1>0, <1>1, <1>2
  <1>6. /\ apNext' \in [AmCell -> AmCell \cup {AmNull}] /\ apNext'[c] = apList
        /\ \A d \in AmCell : d # c => apNext'[d] = apNext[d]
    BY <1>4, <1>5
  <1>7. PICK r : r = <<c>> \o s
    OBVIOUS
  <1>8. /\ r \in Seq(AmCell) /\ Len(r) = n + 1 /\ DOMAIN r = 1 .. (n + 1) /\ r[1] = c
        /\ \A i \in 1 .. n : r[i + 1] = s[i]
    BY <1>1, <1>7
  <1>9. \A i \in 2 .. (n + 1) : i - 1 \in 1 .. n /\ r[i] = s[i - 1] /\ r[i] \in S /\ r[i] # c /\ r[i] \in AmCell
    <2> SUFFICES ASSUME NEW i \in 2 .. (n + 1) PROVE i - 1 \in 1 .. n /\ r[i] = s[i - 1] /\ r[i] \in S /\ r[i] # c /\ r[i] \in AmCell
      OBVIOUS
    <2>1. i - 1 \in 1 .. n /\ (i - 1) + 1 = i
      OBVIOUS
    <2>2. r[i] = s[i - 1]
      BY <1>8, <2>1
    <2> QED
      BY <1>1, <1>2, <2>1, <2>2
  <1>10. r[n + 1] = apLast' /\ apNext'[apLast'] = AmNull
    <2>1. CASE n = 0
      BY <1>4, <1>5, <1>6, <1>8, <2>1
    <2>2. CASE n > 0
      <3>1. apLast' = apLast /\ s[n] = apLast /\ apLast \in AmCell /\ apLast # c
        BY <1>1, <1>2, <1>3, <1>4, <1>5, <2>2
      <3>2. r[n + 1] = s[n]
        BY <1>8, <2>2
      <3> QED
        BY <1>2, <1>6, <2>2, <3>1, <3>2
    <2> QED
      BY <2>1, <2>2
  <1>11. \A i \in 1 .. n : apNext'[r[i]] = r[i + 1]
    <2> SUFFICES ASSUME NEW i \in 1 .. n PROVE apNext'[r[i]] = r[i + 1]
      OBVIOUS
    <2>1. r[i + 1] = s[i]
      BY <1>8
    <2>2. CASE i = 1
      BY <1>2, <1>6, <1>8, <2>1, <2>2
    <2>3. CASE i # 1
      <3>1. i \in 2 .. (n + 1) /\ i - 1 \in 1 .. (n - 1) /\ (i - 1) + 1 = i
        BY <2>3
      <3>2. apNext'[r[i]] = apNext[s[i - 1]]
        BY <1>6, <1>9, <3>1
      <3> QED
        BY <1>2, <2>1, <3>1, <3>2
    <2> QED
      BY <2>2, <2>3
  <1>12. \A i, j \in 1 .. (n + 1) : r[i] = r[j] => i = j
    <2> SUFFICES ASSUME NEW i \in 1 .. (n + 1), NEW j \in 1 .. (n + 1), r[i] = r[j] PROVE i = j
      OBVIOUS
    <2>1. CASE i = 1 \/ j = 1
      BY <1>8, <1>9, <2>1
    <2>2. CASE i # 1 /\ j # 1
      <3>1. i \in 2 .. (n + 1) /\ j \in 2 .. (n + 1)
        BY <2>2
      <3> QED
        BY <1>2, <1>9, <3>1
    <2> QED
      BY <2>1, <2>2
  <1>13. S \cup {c} = {r[i] : i \in 1 .. (n + 1)}
    <2>1. \A d \in S : \E i \in 1 .. (n + 1) : d = r[i]
      BY <1>2, <1>8, SMTT(30)
    <2>2. \A i \in 1 .. (n + 1) : r[i] \in S \cup {c}
      BY <1>8, <1>9
    <2>3. 1 \in 1 .. (n + 1) /\ r[1] = c
      BY <1>8
    <2> QED
      BY <2>1, <2>2, <2>3
  <1>14. CellOnList(r)'
    BY <1>4, <1>8, <1>10, <1>11 DEF CellOnList
  <1>15. AmOnList(r, S \cup {c})'
    BY <1>2, <1>6, <1>8, <1>12, <1>13, <1>14 DEF AmOnList
  <1> QED
    BY <1>4, <1>6, <1>8, <1>15

-----------------------------------------------------------------------------
\* Data is taken from _dq, passed from cell to cell, or put back.
LEMMA AmDataTakes ==
  ASSUME NEW got \in SUBSET AmCell, AmDataIn(got), apData \in [AmCell -> AmData \cup {AmNull}], dq \in Seq(AmData),
         dq # <<>>, NEW d \in AmCell, d \notin got, apData' = [apData EXCEPT ![d] = dq[1]],
         dq' \in Seq(AmData), Len(dq') = Len(dq) - 1, \A i \in 1 .. (Len(dq) - 1) : dq'[i] = dq[i + 1]
  PROVE  /\ AmDataIn(got \cup {d})'
         /\ apData' \in [AmCell -> AmData \cup {AmNull}] /\ dq' \in Seq(AmData)
  <1>1. PICK n \in Nat \ {0} : n = Len(dq) /\ DOMAIN dq = 1 .. n /\ \A i \in 1 .. n : dq[i] \in AmData
    BY ElementOfSeq
  <1>2. /\ DOMAIN dq' = 1 .. (n - 1) /\ \A i \in 1 .. (n - 1) : dq'[i] = dq[i + 1] /\ i + 1 \in 1 .. n
        /\ dq' \in Seq(AmData) /\ dq[1] \in AmData
    BY <1>1
  <1>3. /\ apData' \in [AmCell -> AmData \cup {AmNull}] /\ apData'[d] = dq[1]
        /\ \A c \in AmCell : c # d => apData'[c] = apData[c]
    BY <1>2
  <1>4. AmNull \notin AmData /\ apData[d] = AmNull
    BY AtomicMapsAssumption DEF AmDataIn
  <1>5. /\ \A c \in AmCell : apData[c] # AmNull <=> c \in got
        /\ \A i, j \in 1 .. n : dq[i] = dq[j] => i = j
        /\ \A c, b \in AmCell : apData[c] = apData[b] /\ apData[c] # AmNull => c = b
        /\ \A c \in AmCell, i \in 1 .. n : apData[c] # dq[i]
        /\ \A b \in AmData : (\E i \in 1 .. n : dq[i] = b) \/ (\E c \in AmCell : apData[c] = b)
    BY <1>1 DEF AmDataIn
  <1>6. \A c \in AmCell : apData'[c] # AmNull <=> c \in got \cup {d}
    BY <1>2, <1>3, <1>4, <1>5
  <1>7. \A i, j \in 1 .. (n - 1) : dq'[i] = dq'[j] => i = j
    <2> SUFFICES ASSUME NEW i \in 1 .. (n - 1), NEW j \in 1 .. (n - 1), dq'[i] = dq'[j] PROVE i = j
      OBVIOUS
    <2>1. i + 1 = j + 1
      BY <1>2, <1>5
    <2> QED
      BY <2>1
  <1>8. \A c, b \in AmCell : apData'[c] = apData'[b] /\ apData'[c] # AmNull => c = b
    BY <1>1, <1>3, <1>5
  <1>9. \A c \in AmCell, i \in 1 .. (n - 1) : apData'[c] # dq'[i]
    <2> SUFFICES ASSUME NEW c \in AmCell, NEW i \in 1 .. (n - 1), apData'[c] = dq'[i] PROVE FALSE
      OBVIOUS
    <2>1. dq'[i] = dq[i + 1] /\ i + 1 \in 1 .. n /\ 1 \in 1 .. n /\ i + 1 # 1
      BY <1>2
    <2>2. c = d
      BY <1>3, <1>5, <2>1
    <2>3. dq[1] = dq[i + 1]
      BY <1>3, <2>1, <2>2
    <2> QED
      BY <1>5, <2>1, <2>3
  <1>10. \A b \in AmData : (\E i \in 1 .. (n - 1) : dq'[i] = b) \/ (\E c \in AmCell : apData'[c] = b)
    <2> SUFFICES ASSUME NEW b \in AmData PROVE (\E i \in 1 .. (n - 1) : dq'[i] = b) \/ (\E c \in AmCell : apData'[c] = b)
      OBVIOUS
    <2>1. CASE \E c \in AmCell : apData[c] = b
      BY <1>3, <1>4, <2>1
    <2>2. ASSUME NEW i \in 1 .. n, dq[i] = b PROVE (\E j \in 1 .. (n - 1) : dq'[j] = b) \/ (\E c \in AmCell : apData'[c] = b)
      <3>1. CASE i = 1
        BY <1>3, <2>2, <3>1
      <3>2. CASE i # 1
        <4>1. i - 1 \in 1 .. (n - 1) /\ (i - 1) + 1 = i
          BY <3>2
        <4> QED
          BY <1>2, <2>2, <4>1
      <3> QED
        BY <3>1, <3>2
    <2> QED
      BY <1>5, <2>1, <2>2
  <1>11. /\ \A i, j \in DOMAIN dq' : dq'[i] = dq'[j] => i = j
         /\ \A b \in AmCell, i \in DOMAIN dq' : apData'[b] # dq'[i]
         /\ \A b \in AmData : (\E i \in DOMAIN dq' : dq'[i] = b) \/ (\E a \in AmCell : apData'[a] = b)
    BY <1>2, <1>7, <1>9, <1>10
  <1>12. AmDataIn(got \cup {d})'
    BY <1>6, <1>8, <1>11 DEF AmDataIn
  <1> QED
    BY <1>2, <1>3, <1>12

\* AtomicPooled::release to who waits: data goes from c to d.
LEMMA AmDataPasses ==
  ASSUME NEW got \in SUBSET AmCell, AmDataIn(got), apData \in [AmCell -> AmData \cup {AmNull}],
         NEW c \in got, NEW d \in AmCell, d \notin got,
         apData' = [apData EXCEPT ![d] = apData[c], ![c] = AmNull], dq' = dq
  PROVE  /\ AmDataIn((got \ {c}) \cup {d})'
         /\ apData' \in [AmCell -> AmData \cup {AmNull}]
  <1>1. /\ apData' \in [AmCell -> AmData \cup {AmNull}] /\ apData'[d] = apData[c] /\ apData'[c] = AmNull
        /\ \A b \in AmCell : b # c /\ b # d => apData'[b] = apData[b]
    BY DEF AmDataIn
  <1>2. apData[c] # AmNull /\ apData[d] = AmNull /\ AmNull \notin AmData
    BY AtomicMapsAssumption DEF AmDataIn
  <1>3. \A b \in AmCell : apData'[b] # AmNull <=> b \in (got \ {c}) \cup {d}
    BY <1>1, <1>2 DEF AmDataIn
  <1>4. \A a, b \in AmCell : apData'[a] = apData'[b] /\ apData'[a] # AmNull => a = b
    BY <1>1, <1>2 DEF AmDataIn
  <1>5. \A b \in AmCell, i \in DOMAIN dq : apData'[b] # dq[i]
    <2>1. \A b \in AmCell : apData'[b] = AmNull \/ \E a \in AmCell : apData'[b] = apData[a]
      BY <1>1
    <2>2. \A i \in DOMAIN dq : dq[i] # AmNull
      BY <1>2 DEF AmDataIn
    <2> QED
      BY <2>1, <2>2 DEF AmDataIn
  <1>6. \A b \in AmData : (\E i \in DOMAIN dq : dq[i] = b) \/ (\E a \in AmCell : apData'[a] = b)
    <2> SUFFICES ASSUME NEW b \in AmData PROVE (\E i \in DOMAIN dq : dq[i] = b) \/ (\E a \in AmCell : apData'[a] = b)
      OBVIOUS
    <2>1. ASSUME NEW a \in AmCell, apData[a] = b PROVE \E a2 \in AmCell : apData'[a2] = b
      BY <1>1, <1>2, <2>1
    <2> QED
      BY <2>1 DEF AmDataIn
  <1>7. \A i, j \in DOMAIN dq : dq[i] = dq[j] => i = j
    BY DEF AmDataIn
  <1> QED
    BY <1>1, <1>3, <1>4, <1>5, <1>6, <1>7 DEF AmDataIn

\* AtomicPooled::release when nobody waits: data goes to the end of _dq.
LEMMA AmDataReturns ==
  ASSUME NEW got \in SUBSET AmCell, AmDataIn(got), apData \in [AmCell -> AmData \cup {AmNull}], dq \in Seq(AmData),
         NEW c \in got, apData' = [apData EXCEPT ![c] = AmNull], dq' = Append(dq, apData[c])
  PROVE  /\ AmDataIn(got \ {c})'
         /\ apData' \in [AmCell -> AmData \cup {AmNull}] /\ dq' \in Seq(AmData)
  <1>1. PICK n \in Nat : n = Len(dq) /\ DOMAIN dq = 1 .. n /\ \A i \in 1 .. n : dq[i] \in AmData
    BY ElementOfSeq
  <1>2. apData[c] \in AmData /\ AmNull \notin AmData
    BY AtomicMapsAssumption DEF AmDataIn
  <1>3. /\ DOMAIN dq' = 1 .. (n + 1) /\ \A i \in 1 .. n : dq'[i] = dq[i]
        /\ dq'[n + 1] = apData[c] /\ dq' \in Seq(AmData)
    BY <1>1, <1>2
  <1>4. /\ apData' \in [AmCell -> AmData \cup {AmNull}] /\ apData'[c] = AmNull
        /\ \A b \in AmCell : b # c => apData'[b] = apData[b]
    OBVIOUS
  <1>5. /\ \A b \in AmCell : apData[b] # AmNull <=> b \in got
        /\ \A i, j \in 1 .. n : dq[i] = dq[j] => i = j
        /\ \A a, b \in AmCell : apData[a] = apData[b] /\ apData[a] # AmNull => a = b
        /\ \A b \in AmCell, i \in 1 .. n : apData[b] # dq[i]
        /\ \A b \in AmData : (\E i \in 1 .. n : dq[i] = b) \/ (\E a \in AmCell : apData[a] = b)
    BY <1>1 DEF AmDataIn
  <1>6. \A b \in AmCell : apData'[b] # AmNull <=> b \in got \ {c}
    BY <1>4, <1>5
  <1>7. \A i, j \in 1 .. (n + 1) : dq'[i] = dq'[j] => i = j
    <2> SUFFICES ASSUME NEW i \in 1 .. (n + 1), NEW j \in 1 .. (n + 1), dq'[i] = dq'[j] PROVE i = j
      OBVIOUS
    <2>1. CASE i \in 1 .. n /\ j \in 1 .. n
      BY <1>3, <1>5, <2>1
    <2>2. CASE i \in 1 .. n /\ j = n + 1
      BY <1>3, <1>5, <2>2
    <2>3. CASE j \in 1 .. n /\ i = n + 1
      BY <1>3, <1>5, <2>3
    <2> QED
      BY <2>1, <2>2, <2>3
  <1>8. \A a, b \in AmCell : apData'[a] = apData'[b] /\ apData'[a] # AmNull => a = b
    BY <1>4, <1>5
  <1>9. \A b \in AmCell, i \in 1 .. (n + 1) : apData'[b] # dq'[i]
    <2> SUFFICES ASSUME NEW b \in AmCell, NEW i \in 1 .. (n + 1), apData'[b] = dq'[i] PROVE FALSE
      OBVIOUS
    <2>1. CASE i \in 1 .. n
      BY <1>1, <1>2, <1>3, <1>4, <1>5, <2>1
    <2>2. CASE i = n + 1
      BY <1>2, <1>3, <1>4, <1>5, <2>2
    <2> QED
      BY <2>1, <2>2
  <1>10. \A b \in AmData : (\E i \in 1 .. (n + 1) : dq'[i] = b) \/ (\E a \in AmCell : apData'[a] = b)
    <2> SUFFICES ASSUME NEW b \in AmData PROVE (\E i \in 1 .. (n + 1) : dq'[i] = b) \/ (\E a \in AmCell : apData'[a] = b)
      OBVIOUS
    <2>1. CASE \E i \in 1 .. n : dq[i] = b
      BY <1>1, <1>3, <2>1
    <2>2. ASSUME NEW a \in AmCell, apData[a] = b PROVE (\E i \in 1 .. (n + 1) : dq'[i] = b) \/ (\E d \in AmCell : apData'[d] = b)
      <3>1. n + 1 \in 1 .. (n + 1)
        BY <1>1
      <3> QED
        BY <1>3, <1>4, <2>2, <3>1
    <2> QED
      BY <1>5, <2>1, <2>2
  <1>11. \A b \in AmCell : apData'[b] # AmNull <=> b \in got \ {c}
    BY <1>6
  <1>12. /\ \A i, j \in DOMAIN dq' : dq'[i] = dq'[j] => i = j
         /\ \A b \in AmCell, i \in DOMAIN dq' : apData'[b] # dq'[i]
         /\ \A b \in AmData : (\E i \in DOMAIN dq' : dq'[i] = b) \/ (\E a \in AmCell : apData'[a] = b)
    BY <1>3, <1>7, <1>9, <1>10
  <1>13. AmDataIn(got \ {c})'
    BY <1>8, <1>11, <1>12 DEF AmDataIn
  <1> QED
    BY <1>3, <1>4, <1>13

-----------------------------------------------------------------------------
\* The cell of an event is that of its only reference to the pool.
LEMMA AmCellOf ==
  ASSUME NEW x \in AmEvent, AmRefs(x), NEW i \in DOMAIN hold[x], hold[x][i].at = AmPool, NEW d \in AmCell
  PROVE  /\ AmUses(x, d) <=> hold[x][i].atom = d
         /\ AmGets(x, d) <=> hold[x][i].atom = d /\ hold[x][i].haveit
  <1>1. \A j \in DOMAIN hold[x] : hold[x][j].at = AmPool => j = i
    BY DEF AmRefs
  <1>2. AmUses(x, d) <=> \E j \in DOMAIN hold[x] : hold[x][j].at = AmPool /\ hold[x][j].atom = d
    BY DEF AmUses
  <1>3. AmGets(x, d) <=> \E j \in DOMAIN hold[x] : hold[x][j].at = AmPool /\ hold[x][j].atom = d
                                                         /\ hold[x][j].haveit
    BY DEF AmGets
  <1> QED
    BY <1>1, <1>2, <1>3

\* The same after a step.
LEMMA AmCellOfNext ==
  ASSUME NEW x \in AmEvent, AmRefs(x)', NEW i \in DOMAIN hold'[x], hold'[x][i].at = AmPool, NEW d \in AmCell
  PROVE  /\ AmUses(x, d)' <=> hold'[x][i].atom = d
         /\ AmGets(x, d)' <=> hold'[x][i].atom = d /\ hold'[x][i].haveit
  <1>1. \A j \in DOMAIN hold'[x] : hold'[x][j].at = AmPool => j = i
    BY DEF AmRefs
  <1>2. AmUses(x, d)' <=> \E j \in DOMAIN hold'[x] : hold'[x][j].at = AmPool /\ hold'[x][j].atom = d
    BY DEF AmUses
  <1>3. AmGets(x, d)' <=> \E j \in DOMAIN hold'[x] : hold'[x][j].at = AmPool /\ hold'[x][j].atom = d
                                                          /\ hold'[x][j].haveit
    BY DEF AmGets
  <1> QED
    BY <1>1, <1>2, <1>3

\* The references to keys stay as they are.
AmKeysAlone ==
  \A y \in AmEvent :
    /\ DOMAIN hold'[y] = DOMAIN hold[y]
    /\ \A j \in DOMAIN hold[y] : /\ hold'[y][j].at = hold[y][j].at
                                 /\ hold[y][j].at # AmPool => hold'[y][j] = hold[y][j]
    /\ apc[y] = "wait" => won[y] \in DOMAIN hold[y]
    /\ apc'[y] = "wait" => won'[y] \in DOMAIN hold'[y]
    /\ (apc[y] = "wait" /\ hold[y][won[y]].at # AmPool) <=> (apc'[y] = "wait" /\ hold'[y][won'[y]].at # AmPool)
    /\ apc[y] = "wait" /\ hold[y][won[y]].at # AmPool => won'[y] = won[y]

\* Then holders and waiters of the keys are the same.
LEMMA AmKeysRelations ==
  ASSUME AmKeysAlone
  PROVE  /\ \A k \in AmKey : AmHolders(k)' = AmHolders(k) /\ AmWaiting(k)' = AmWaiting(k)
         /\ AmFound /\ map' = map => AmFound'
  <1>0. AmPool \notin AmKey /\ \A u \in AmEntry : u.event \in AmEvent
    BY AtomicMapsAssumption DEF AmEntry
  <1>1. ASSUME NEW k \in AmKey PROVE AmHolders(k)' = AmHolders(k)
    <2>1. ASSUME NEW u \in AmEntry
          PROVE  (\E i \in DOMAIN hold'[u.event] : /\ hold'[u.event][i].at = k /\ hold'[u.event][i].wtype = u.wtype
                                                  /\ hold'[u.event][i].haveit /\ hold'[u.event][i].atom # AmNull)
                 <=> (\E i \in DOMAIN hold[u.event] : /\ hold[u.event][i].at = k /\ hold[u.event][i].wtype = u.wtype
                                                   /\ hold[u.event][i].haveit /\ hold[u.event][i].atom # AmNull)
      BY <1>0 DEF AmKeysAlone
    <2> QED
      BY <2>1 DEF AmHolders
  <1>2. ASSUME NEW k \in AmKey PROVE AmWaiting(k)' = AmWaiting(k)
    <2>1. ASSUME NEW u \in AmEntry
          PROVE  (apc'[u.event] = "wait" /\ hold'[u.event][won'[u.event]].at = k /\ hold'[u.event][won'[u.event]].wtype = u.wtype)
                 <=> (apc[u.event] = "wait" /\ hold[u.event][won[u.event]].at = k /\ hold[u.event][won[u.event]].wtype = u.wtype)
      <3>1. PICK y \in AmEvent : y = u.event
        BY <1>0
      <3>2. /\ (apc[y] = "wait" /\ hold[y][won[y]].at # AmPool) <=> (apc'[y] = "wait" /\ hold'[y][won'[y]].at # AmPool)
            /\ apc[y] = "wait" /\ hold[y][won[y]].at # AmPool =>
                 won'[y] = won[y] /\ hold'[y][won[y]] = hold[y][won[y]]
        BY DEF AmKeysAlone
      <3> QED
        BY <1>0, <3>1, <3>2
    <2> QED
      BY <2>1 DEF AmWaiting
  <1>3. AmFound /\ map' = map => AmFound'
    BY DEF AmFound, AmKeysAlone
  <1> QED
    BY <1>1, <1>2, <1>3

\* Those to the pool do.
AmPoolRefsAlone ==
  \A y \in AmEvent :
    /\ DOMAIN hold'[y] = DOMAIN hold[y]
    /\ \A j \in DOMAIN hold[y] : /\ hold'[y][j].at = hold[y][j].at
                                 /\ hold[y][j].at = AmPool => hold'[y][j] = hold[y][j]
    /\ (apc[y] = "wait" /\ hold[y][won[y]].at = AmPool) <=> (apc'[y] = "wait" /\ hold'[y][won'[y]].at = AmPool)

\* Then the pool is as it was for everyone.
LEMMA AmPoolRelations ==
  ASSUME AmPoolRefsAlone
  PROVE  AmCellsSame
  <1>1. ASSUME NEW y \in AmEvent, NEW c \in AmCell
        PROVE  /\ (\E i \in DOMAIN hold'[y] : hold'[y][i].at = AmPool /\ hold'[y][i].atom = c)
                  <=> (\E i \in DOMAIN hold[y] : hold[y][i].at = AmPool /\ hold[y][i].atom = c)
               /\ (\E i \in DOMAIN hold'[y] : hold'[y][i].at = AmPool /\ hold'[y][i].atom = c /\ hold'[y][i].haveit)
                  <=> (\E i \in DOMAIN hold[y] : hold[y][i].at = AmPool /\ hold[y][i].atom = c /\ hold[y][i].haveit)
    BY DEF AmPoolRefsAlone
  <1>2. \A x \in AmEvent, c \in AmCell : AmUses(x, c)' <=> AmUses(x, c)
    BY <1>1 DEF AmUses
  <1>3. \A x \in AmEvent, c \in AmCell : AmGets(x, c)' <=> AmGets(x, c)
    BY <1>1 DEF AmGets
  <1>4. AmPoolWaits' = AmPoolWaits
    BY DEF AmPoolWaits, AmPoolRefsAlone
  <1> QED
    BY <1>2, <1>3, <1>4 DEF AmCellsSame

\* An event that keeps its references keeps its cells.
LEMMA AmCellsOfOthers ==
  ASSUME NEW y \in AmEvent, hold'[y] = hold[y]
  PROVE  \A c \in AmCell : /\ AmUses(y, c)' <=> AmUses(y, c)
                           /\ AmGets(y, c)' <=> AmGets(y, c)
  BY DEF AmUses, AmGets

-----------------------------------------------------------------------------
\* get_keys_sort.
LEMMA AmKeys == ASSUME AmInv, NEW x \in AmEvent, Key(x) PROVE AmInv'
  <1>0. AmTypes /\ AmShape /\ AmCells /\ AmDataKept /\ AmAtoms
    BY DEF AmInv
  <1>1. /\ apc[x] = "key" /\ apc' = [apc EXCEPT ![x] = "acquire"]
        /\ won' = won /\ widx' = widx /\ apData' = apData /\ dq' = dq /\ pq' = pq /\ UNCHANGED mapvars
    BY DEF Key
  <1>2. /\ apc' \in [AmEvent -> AmPC] /\ apc'[x] = "acquire" /\ \A y \in AmEvent : y # x => apc'[y] = apc[y]
    BY <1>0, <1>1 DEF AmTypes, AmPC
  <1>3. /\ AmRefs(x) /\ DOMAIN hold[x] = 1 .. Len(hold[x]) /\ Len(hold[x]) \in Nat /\ won[x] = 1
        /\ \A j \in DOMAIN hold[x] : hold[x][j].atom = AmNull /\ hold[x][j].haveit = FALSE /\ hold[x][j] \in AmHeldType
        /\ hold[x] \in Seq(AmHeldType)
    <2>1. AmRefs(x)
      BY <1>0 DEF AmShape
    <2>2. won[x] = 1 /\ \A j \in DOMAIN hold[x] : hold[x][j].atom = AmNull /\ ~hold[x][j].haveit
      BY <1>0, <1>1, <2>1, AmHoldTyped DEF AmRefs
    <2>3. \A j \in DOMAIN hold[x] : hold[x][j].haveit \in BOOLEAN
      BY <1>0, AmHoldTyped DEF AmHeldType
    <2> QED
      BY <1>0, <2>1, <2>2, <2>3, AmHoldTyped
  <1>4. CASE ~\E i \in DOMAIN hold[x] : hold[x][i].at = AmPool
    <2>1. hold' = hold /\ UNCHANGED listvars
      BY <1>4 DEF Key
    <2>2. AmTypes'
      BY <1>0, <1>1, <1>2, <2>1 DEF AmTypes, listvars, mapvars
    <2>3. AmShape'
      <3> SUFFICES ASSUME NEW y \in AmEvent PROVE AmRefs(y)'
        BY DEF AmShape
      <3>1. CASE y # x
        BY <1>0, <1>1, <1>2, <2>1, <3>1, AmRefsSame DEF AmShape
      <3>2. CASE y = x
        BY <1>1, <1>2, <1>3, <1>4, <2>1, <3>2 DEF AmRefs, AmHaving
      <3> QED
        BY <3>1, <3>2
    <2>4. AmQuiet
      BY <1>1, <1>2, <2>1 DEF AmQuiet
    <2>5. AmFound'
      BY <1>0, <1>1, <2>1 DEF AmFound, AmAtoms, mapvars
    <2>6. UNCHANGED poolvars
      BY <1>1, <2>1 DEF poolvars
    <2> QED
      BY <1>0, <1>1, <2>2, <2>3, <2>4, <2>5, <2>6, AmQuietRelations, AmPoolAlone, AmMapAlone DEF AmInv
  <1>5. ASSUME NEW i \in DOMAIN hold[x], NEW c \in AmCell,
               hold[x][i].at = AmPool, PoolTake(c), hold' = [hold EXCEPT ![x][i].atom = c]
        PROVE  AmInv'
    <2>0. AmNull \notin AmCell
      BY AtomicMapsAssumption
    <2>1. /\ hold' \in [AmEvent -> Seq(AmHeldType)]
          /\ \A y \in AmEvent : y # x => hold'[y] = hold[y]
          /\ DOMAIN hold'[x] = DOMAIN hold[x] /\ Len(hold'[x]) = Len(hold[x])
          /\ \A j \in DOMAIN hold[x] : j # i => hold'[x][j] = hold[x][j]
          /\ hold'[x][i].at = AmPool /\ hold'[x][i].atom = c /\ hold'[x][i].haveit = FALSE
      <3>1. PICK g : g = [hold[x][i] EXCEPT !.atom = c]
        OBVIOUS
      <3>2. g \in AmHeldType /\ g.at = AmPool /\ g.atom = c /\ g.haveit = FALSE
        BY <1>3, <1>5, <3>1 DEF AmHeldType
      <3>3. hold' = [hold EXCEPT ![x] = [hold[x] EXCEPT ![i] = g]]
        BY <1>5, <3>1
      <3>4. PICK r : r = [hold[x] EXCEPT ![i] = g]
        OBVIOUS
      <3>5. r \in Seq(AmHeldType) /\ Len(r) = Len(hold[x]) /\ DOMAIN r = DOMAIN hold[x] /\ r[i] = g
            /\ \A j \in DOMAIN hold[x] : j # i => r[j] = hold[x][j]
        BY <1>3, <1>5, <3>2, <3>4
      <3>6. hold \in [AmEvent -> Seq(AmHeldType)] /\ hold' = [hold EXCEPT ![x] = r]
        BY <1>0, <3>3, <3>4 DEF AmTypes
      <3>7. hold'[x] = r /\ hold' \in [AmEvent -> Seq(AmHeldType)] /\ \A y \in AmEvent : y # x => hold'[y] = hold[y]
        BY <3>5, <3>6
      <3> QED
        BY <3>2, <3>5, <3>7
    <2>2. PICK s \in Seq(AmCell) : AmOnList(s, made \ AmInUse)
      BY <1>0 DEF AmCells
    <2>3. PICK S \in SUBSET AmCell : S = made \ AmInUse /\ AmOnList(s, S)
      BY <1>0, <2>2 DEF AmCells
    <2>4. apNext \in [AmCell -> AmCell \cup {AmNull}]
      BY <1>0 DEF AmTypes
    <2>5. /\ apNext' \in [AmCell -> AmCell \cup {AmNull}]
          /\ \/ c \in S /\ made' = made
             \/ S = {} /\ c \notin made /\ made' = made \cup {c}
          /\ \E r \in Seq(AmCell) : AmOnList(r, S \ {c})'
      BY <1>5, <2>3, <2>4, AmTakes
    <2>6. AmShape'
      <3> SUFFICES ASSUME NEW y \in AmEvent PROVE AmRefs(y)'
        BY DEF AmShape
      <3>1. CASE y # x
        BY <1>0, <1>1, <1>2, <2>1, <3>1, AmRefsSame DEF AmShape
      <3>2. CASE y = x
        <4>1. \A j \in DOMAIN hold'[x] : /\ hold'[x][j].at = hold[x][j].at /\ hold'[x][j].haveit = FALSE
                                         /\ hold'[x][j].atom = IF j = i THEN c ELSE AmNull
                                         /\ hold'[x][j].at = AmPool => j = i
          BY <1>3, <1>5, <2>1 DEF AmRefs
        <4>2. apc'[x] = "acquire" /\ won'[x] = 1 /\ widx'[x] = widx[x]
          BY <1>1, <1>2, <1>3
        <4>3. /\ \A j \in DOMAIN hold'[x] : j \in Nat /\ j >= 1
              /\ \A j, l \in DOMAIN hold'[x] : hold'[x][j].at = hold'[x][l].at => j = l
          BY <1>3, <2>1, <4>1, SMTT(30) DEF AmRefs
        <4>4. AmRefs(x)'
          BY <1>5, <2>0, <4>1, <4>2, <4>3 DEF AmRefs, AmHaving
        <4> QED
          BY <3>2, <4>4
      <3> QED
        BY <3>1, <3>2
    <2>7. AmTypes'
      BY <1>0, <1>1, <1>2, <2>1, <2>5 DEF AmTypes, mapvars
    <2>8. AmKeysAlone
      <3> SUFFICES ASSUME NEW y \in AmEvent
                   PROVE  /\ DOMAIN hold'[y] = DOMAIN hold[y]
                          /\ \A j \in DOMAIN hold[y] : /\ hold'[y][j].at = hold[y][j].at
                                                       /\ hold[y][j].at # AmPool => hold'[y][j] = hold[y][j]
                          /\ apc[y] = "wait" => won[y] \in DOMAIN hold[y]
                          /\ apc'[y] = "wait" => won'[y] \in DOMAIN hold'[y]
                          /\ (apc[y] = "wait" /\ hold[y][won[y]].at # AmPool)
                               <=> (apc'[y] = "wait" /\ hold'[y][won'[y]].at # AmPool)
                          /\ apc[y] = "wait" /\ hold[y][won[y]].at # AmPool => won'[y] = won[y]
        BY DEF AmKeysAlone
      <3>1. CASE y # x
        BY <1>0, <1>1, <1>2, <2>1, <3>1 DEF AmShape, AmRefs
      <3>2. CASE y = x
        BY <1>1, <1>2, <1>5, <2>1, <3>2
      <3> QED
        BY <3>1, <3>2
    <2>9. AmAtoms'
      <3>1. AmFound'
        BY <1>0, <1>1, <2>8, AmKeysRelations DEF AmAtoms, AmFound, mapvars
      <3> QED
        BY <1>0, <1>1, <2>8, <3>1, AmKeysRelations, AmMapAlone
    <2>10. \A d \in AmCell : ~AmUses(x, d) /\ ~AmGets(x, d)
      BY <1>3, <1>5, <2>0, AmCellOf
    <2>11. \A d \in AmCell : (AmUses(x, d)' <=> d = c) /\ ~AmGets(x, d)'
      <3>1. AmRefs(x)' /\ i \in DOMAIN hold'[x] /\ hold'[x][i].at = AmPool /\ hold'[x][i].atom = c /\ hold'[x][i].haveit = FALSE
        BY <1>5, <2>1, <2>6 DEF AmShape
      <3> QED
        BY <3>1, AmCellOfNext
    <2>12. \A y \in AmEvent, d \in AmCell :
             /\ AmUses(y, d)' <=> AmUses(y, d) \/ (y = x /\ d = c)
             /\ AmGets(y, d)' <=> AmGets(y, d)
      <3> SUFFICES ASSUME NEW y \in AmEvent, NEW d \in AmCell
                   PROVE  /\ AmUses(y, d)' <=> AmUses(y, d) \/ (y = x /\ d = c)
                          /\ AmGets(y, d)' <=> AmGets(y, d)
        OBVIOUS
      <3>1. CASE y # x
        BY <2>1, <3>1, AmCellsOfOthers
      <3>2. CASE y = x
        BY <2>10, <2>11, <3>2
      <3> QED
        BY <3>1, <3>2
    <2>13. AmInUse' = AmInUse \cup {c} /\ AmGot' = AmGot
      <3>1. \A d \in AmCell : d \in AmInUse' <=> d \in AmInUse \/ d = c
        BY <2>12 DEF AmInUse
      <3>2. \A d \in AmCell : d \in AmGot' <=> d \in AmGot
        BY <2>12 DEF AmGot
      <3>3. AmInUse \subseteq AmCell /\ AmInUse' \subseteq AmCell /\ AmGot \subseteq AmCell /\ AmGot' \subseteq AmCell
        BY DEF AmInUse, AmGot
      <3> QED
        BY <3>1, <3>2, <3>3
    <2>14. AmPoolWaits' = AmPoolWaits
      <3> SUFFICES ASSUME NEW y \in AmEvent
                   PROVE  (apc'[y] = "wait" /\ hold'[y][won'[y]].at = AmPool) <=> (apc[y] = "wait" /\ hold[y][won[y]].at = AmPool)
        BY DEF AmPoolWaits
      <3>1. CASE y # x
        BY <1>1, <1>2, <2>1, <3>1
      <3>2. CASE y = x
        BY <1>1, <1>2, <3>2
      <3> QED
        BY <3>1, <3>2
    <2>15. c \notin AmInUse
      BY <1>0, <2>3, <2>5 DEF AmCells
    <2>16. AmCells'
      <3>1. made' \subseteq AmCell /\ AmInUse' \subseteq made'
        BY <1>0, <2>3, <2>5, <2>13 DEF AmCells
      <3>2. made' \ AmInUse' = S \ {c}
        BY <2>3, <2>5, <2>13, <2>15
      <3>3. \A y, z \in AmEvent, d \in AmCell : AmUses(y, d)' /\ AmUses(z, d)' => y = z
        BY <1>0, <2>12, <2>15 DEF AmCells, AmInUse
      <3>4. PICK r \in Seq(AmCell) : AmOnList(r, S \ {c})'
        BY <2>5
      <3>5. AmOnList(r, made \ AmInUse)'
        BY <3>2, <3>4 DEF AmOnList
      <3> QED
        BY <3>1, <3>3, <3>5 DEF AmCells
    <2>17. AmDataKept'
      BY <1>0, <1>1, <2>13, <2>14 DEF AmDataKept, AmDataIn
    <2> QED
      BY <2>6, <2>7, <2>9, <2>16, <2>17 DEF AmInv
  <1> QED
    BY <1>4, <1>5 DEF Key

\* The reference g takes the place of x's i-th.
LEMMA AmOneRef ==
  ASSUME NEW x \in AmEvent, hold \in [AmEvent -> Seq(AmHeldType)], NEW i \in DOMAIN hold[x], NEW g \in AmHeldType,
         hold' = [hold EXCEPT ![x] = [hold[x] EXCEPT ![i] = g]]
  PROVE  /\ hold' \in [AmEvent -> Seq(AmHeldType)]
         /\ \A y \in AmEvent : y # x => hold'[y] = hold[y]
         /\ DOMAIN hold'[x] = DOMAIN hold[x] /\ Len(hold'[x]) = Len(hold[x])
         /\ \A j \in DOMAIN hold[x] : j # i => hold'[x][j] = hold[x][j]
         /\ hold'[x][i] = g
  <1>1. hold[x] \in Seq(AmHeldType)
    OBVIOUS
  <1>2. PICK r : r = [hold[x] EXCEPT ![i] = g]
    OBVIOUS
  <1>3. r \in Seq(AmHeldType) /\ Len(r) = Len(hold[x]) /\ DOMAIN r = DOMAIN hold[x] /\ r[i] = g
        /\ \A j \in DOMAIN hold[x] : j # i => r[j] = hold[x][j]
    BY <1>1, <1>2
  <1>4. hold'[x] = r /\ hold' \in [AmEvent -> Seq(AmHeldType)] /\ \A y \in AmEvent : y # x => hold'[y] = hold[y]
    BY <1>2, <1>3
  <1> QED
    BY <1>3, <1>4

\* AtomicPooled::acquire_or_wait that finds data.
LEMMA AmGetsData == ASSUME AmInv, NEW x \in AmEvent, AcquireData(x), dq # <<>> PROVE AmInv'
  <1>0. AmTypes /\ AmShape /\ AmCells /\ AmDataKept /\ AmAtoms
    BY DEF AmInv
  <1>1. PICK i : i = won[x]
    OBVIOUS
  <1>2. PICK c : c = hold[x][i].atom
    OBVIOUS
  <1>3. /\ apc[x] = "acquire" /\ i <= Len(hold[x]) /\ hold[x][i].at = AmPool /\ ~hold[x][i].haveit
        /\ apData' = [apData EXCEPT ![c] = Head(dq)] /\ dq' = Tail(dq)
        /\ hold' = [hold EXCEPT ![x][i] = [@ EXCEPT !.atom = c, !.haveit = TRUE]]
        /\ won' = [won EXCEPT ![x] = @ + 1]
        /\ pq' = pq /\ apc' = apc /\ widx' = widx /\ UNCHANGED listvars /\ UNCHANGED mapvars
    BY <1>1, <1>2 DEF AcquireData, Acquiring, Now, HaveIt
  <1>4. AmNull \notin AmCell
    BY AtomicMapsAssumption
  <1>5. /\ AmRefs(x) /\ i \in DOMAIN hold[x] /\ i \in Nat /\ hold[x][i] \in AmHeldType /\ c \in AmCell
        /\ DOMAIN hold[x] = 1 .. Len(hold[x])
    BY <1>0, <1>1, <1>2, <1>3, AmHoldTyped DEF AmShape, AmRefs
  <1>6. PICK g : g = [hold[x][i] EXCEPT !.atom = c, !.haveit = TRUE]
    OBVIOUS
  <1>7. g \in AmHeldType /\ g.at = AmPool /\ g.atom = c /\ g.haveit = TRUE
    BY <1>3, <1>5, <1>6 DEF AmHeldType
  <1>9. hold' = [hold EXCEPT ![x] = [hold[x] EXCEPT ![i] = g]]
    BY <1>3, <1>6
  <1>10. /\ hold' \in [AmEvent -> Seq(AmHeldType)]
         /\ \A y \in AmEvent : y # x => hold'[y] = hold[y]
         /\ DOMAIN hold'[x] = DOMAIN hold[x] /\ Len(hold'[x]) = Len(hold[x])
         /\ \A j \in DOMAIN hold[x] : j # i => hold'[x][j] = hold[x][j]
         /\ hold'[x][i] = g
    BY <1>0, <1>5, <1>7, <1>9, AmOneRef DEF AmTypes
  <1>11. won' \in [AmEvent -> Nat] /\ won'[x] = i + 1 /\ \A y \in AmEvent : y # x => won'[y] = won[y]
    BY <1>0, <1>1, <1>3 DEF AmTypes
  <1>12. AmShape'
    <2> SUFFICES ASSUME NEW y \in AmEvent PROVE AmRefs(y)'
      BY DEF AmShape
    <2>1. CASE y # x
      BY <1>0, <1>3, <1>10, <1>11, <2>1, AmRefsSame DEF AmShape
    <2>2. CASE y = x
      <3>1. \A j \in DOMAIN hold'[x] : /\ hold'[x][j].at = hold[x][j].at /\ hold'[x][j].atom = hold[x][j].atom
                                       /\ hold'[x][j].haveit <=> hold[x][j].haveit \/ j = i
        BY <1>2, <1>3, <1>7, <1>10
      <3>2. \A j, l \in DOMAIN hold'[x] : hold'[x][j].at = hold'[x][l].at => j = l
        BY <1>5, <1>10, <3>1 DEF AmRefs
      <3>3. AmRefs(x)'
        BY <1>1, <1>3, <1>5, <1>10, <1>11, <3>1, <3>2 DEF AmRefs, AmHaving
      <3> QED
        BY <2>2, <3>3
    <2> QED
      BY <2>1, <2>2
  <1>13. AmKeysAlone
    <2> SUFFICES ASSUME NEW y \in AmEvent
                 PROVE  /\ DOMAIN hold'[y] = DOMAIN hold[y]
                        /\ \A j \in DOMAIN hold[y] : /\ hold'[y][j].at = hold[y][j].at
                                                     /\ hold[y][j].at # AmPool => hold'[y][j] = hold[y][j]
                        /\ apc[y] = "wait" => won[y] \in DOMAIN hold[y]
                        /\ apc'[y] = "wait" => won'[y] \in DOMAIN hold'[y]
                        /\ (apc[y] = "wait" /\ hold[y][won[y]].at # AmPool)
                             <=> (apc'[y] = "wait" /\ hold'[y][won'[y]].at # AmPool)
                        /\ apc[y] = "wait" /\ hold[y][won[y]].at # AmPool => won'[y] = won[y]
      BY DEF AmKeysAlone
    <2>1. CASE y # x
      BY <1>0, <1>3, <1>10, <1>11, <2>1 DEF AmShape, AmRefs
    <2>2. CASE y = x
      BY <1>3, <1>7, <1>10, <2>2
    <2> QED
      BY <2>1, <2>2
  <1>14. AmAtoms'
    <2>1. AmFound'
      BY <1>0, <1>3, <1>13, AmKeysRelations DEF AmAtoms, AmFound, mapvars
    <2> QED
      BY <1>0, <1>3, <1>13, <2>1, AmKeysRelations, AmMapAlone
  <1>15. \A d \in AmCell : (AmUses(x, d) <=> d = c) /\ ~AmGets(x, d)
    BY <1>2, <1>3, <1>5, AmCellOf
  <1>16. \A d \in AmCell : (AmUses(x, d)' <=> d = c) /\ (AmGets(x, d)' <=> d = c)
    <2>1. AmRefs(x)' /\ i \in DOMAIN hold'[x] /\ hold'[x][i].at = AmPool /\ hold'[x][i].atom = c /\ hold'[x][i].haveit
      BY <1>5, <1>7, <1>10, <1>12 DEF AmShape
    <2> QED
      BY <2>1, AmCellOfNext
  <1>17. \A y \in AmEvent, d \in AmCell : /\ AmUses(y, d)' <=> AmUses(y, d)
                                          /\ AmGets(y, d)' <=> AmGets(y, d) \/ (y = x /\ d = c)
    <2> SUFFICES ASSUME NEW y \in AmEvent, NEW d \in AmCell
                 PROVE  /\ AmUses(y, d)' <=> AmUses(y, d)
                        /\ AmGets(y, d)' <=> AmGets(y, d) \/ (y = x /\ d = c)
      OBVIOUS
    <2>1. CASE y # x
      BY <1>10, <2>1, AmCellsOfOthers
    <2>2. CASE y = x
      BY <1>15, <1>16, <2>2
    <2> QED
      BY <2>1, <2>2
  <1>18. AmInUse' = AmInUse /\ AmGot' = AmGot \cup {c}
    <2>1. \A d \in AmCell : d \in AmInUse' <=> d \in AmInUse
      BY <1>17 DEF AmInUse
    <2>2. \A d \in AmCell : d \in AmGot' <=> d \in AmGot \/ d = c
      BY <1>17 DEF AmGot
    <2>3. AmInUse \subseteq AmCell /\ AmInUse' \subseteq AmCell /\ AmGot \subseteq AmCell /\ AmGot' \subseteq AmCell
      BY DEF AmInUse, AmGot
    <2> QED
      BY <1>5, <2>1, <2>2, <2>3
  <1>19. c \notin AmGot
    <2>1. \A y \in AmEvent : AmGets(y, c) => AmUses(y, c)
      BY DEF AmGets, AmUses
    <2> QED
      BY <1>0, <1>5, <1>15, <2>1 DEF AmGot, AmCells
  <1>20. AmCells'
    <2>1. PICK s \in Seq(AmCell) : AmOnList(s, made \ AmInUse)
      BY <1>0 DEF AmCells
    <2>2. made' = made /\ apNext' = apNext /\ apList' = apList /\ apLast' = apLast
      BY <1>3 DEF listvars
    <2>3. AmOnList(s, made \ AmInUse)'
      BY <1>18, <2>1, <2>2 DEF AmOnList, CellOnList
    <2> QED
      BY <1>0, <1>17, <1>18, <2>2, <2>3 DEF AmCells
  <1>21. AmDataIn(AmGot)' /\ apData' \in [AmCell -> AmData \cup {AmNull}] /\ dq' \in Seq(AmData)
    <2>1. AmDataIn(AmGot) /\ apData \in [AmCell -> AmData \cup {AmNull}] /\ dq \in Seq(AmData)
      BY <1>0 DEF AmDataKept, AmTypes
    <2>2. /\ apData' = [apData EXCEPT ![c] = dq[1]]
          /\ dq' \in Seq(AmData) /\ Len(dq') = Len(dq) - 1 /\ \A j \in 1 .. (Len(dq) - 1) : dq'[j] = dq[j + 1]
      BY <1>3, <2>1
    <2>3. PICK got \in SUBSET AmCell : got = AmGot
      BY DEF AmGot
    <2>4. /\ AmDataIn(got \cup {c})' /\ apData' \in [AmCell -> AmData \cup {AmNull}] /\ dq' \in Seq(AmData)
      <3>1. AmDataIn(got) /\ c \notin got
        BY <1>19, <2>1, <2>3 DEF AmDataIn
      <3> QED
        BY <1>5, <2>1, <2>2, <3>1, AmDataTakes
    <2> QED
      BY <1>18, <2>3, <2>4 DEF AmDataIn
  <1>22. AmPoolWaits' = AmPoolWaits
    <2> SUFFICES ASSUME NEW y \in AmEvent
                 PROVE  (apc'[y] = "wait" /\ hold'[y][won'[y]].at = AmPool) <=> (apc[y] = "wait" /\ hold[y][won[y]].at = AmPool)
      BY DEF AmPoolWaits
    <2>1. CASE y # x
      BY <1>3, <1>10, <1>11, <2>1
    <2>2. CASE y = x
      BY <1>3, <2>2
    <2> QED
      BY <2>1, <2>2
  <1>23. AmDataKept'
    <2>1. pq = <<>> /\ pq' = <<>>
      BY <1>0, <1>3 DEF AmDataKept
    <2> QED
      BY <1>21, <2>1 DEF AmDataKept
  <1>24. AmTypes'
    BY <1>0, <1>3, <1>10, <1>11, <1>21 DEF AmTypes, listvars, mapvars
  <1> QED
    BY <1>12, <1>14, <1>20, <1>23, <1>24 DEF AmInv

\* AtomicPooled::acquire_or_wait that finds none.
LEMMA AmWaitsForData == ASSUME AmInv, NEW x \in AmEvent, AcquireData(x), dq = <<>> PROVE AmInv'
  <1>0. AmTypes /\ AmShape /\ AmCells /\ AmDataKept /\ AmAtoms
    BY DEF AmInv
  <1>1. /\ apc[x] = "acquire" /\ won[x] <= Len(hold[x]) /\ hold[x][won[x]].at = AmPool
        /\ pq' = Append(pq, x) /\ apc' = [apc EXCEPT ![x] = "wait"]
        /\ apData' = apData /\ dq' = dq /\ hold' = hold /\ won' = won /\ widx' = widx
        /\ UNCHANGED listvars /\ UNCHANGED mapvars
    BY DEF AcquireData, Acquiring, Now
  <1>2. apc' \in [AmEvent -> AmPC] /\ apc'[x] = "wait" /\ \A y \in AmEvent : y # x => apc'[y] = apc[y]
    BY <1>0, <1>1 DEF AmTypes, AmPC
  <1>3. won[x] \in DOMAIN hold[x] /\ hold[x][won[x]].atom # AmNull
    BY <1>0, <1>1, AmHoldTyped DEF AmShape, AmRefs
  <1>4. PICK n \in Nat : n = Len(pq) /\ DOMAIN pq = 1 .. n /\ \A j \in 1 .. n : pq[j] \in AmEvent
    BY <1>0, ElementOfSeq DEF AmTypes
  <1>5. /\ pq' \in Seq(AmEvent) /\ DOMAIN pq' = 1 .. (n + 1) /\ pq'[n + 1] = x
        /\ \A j \in 1 .. n : pq'[j] = pq[j]
    BY <1>0, <1>1, <1>4 DEF AmTypes
  <1>6. AmTypes'
    BY <1>0, <1>1, <1>2, <1>5 DEF AmTypes, listvars, mapvars
  <1>7. AmShape'
    <2> SUFFICES ASSUME NEW y \in AmEvent PROVE AmRefs(y)'
      BY DEF AmShape
    <2>1. CASE y # x
      BY <1>0, <1>1, <1>2, <2>1, AmRefsSame DEF AmShape
    <2>2. CASE y = x
      <3>1. AmRefs(x)
        BY <1>0 DEF AmShape
      <3> QED
        BY <1>1, <1>2, <1>3, <2>2, <3>1 DEF AmRefs, AmHaving
    <2> QED
      BY <2>1, <2>2
  <1>8. AmKeysAlone
    <2> SUFFICES ASSUME NEW y \in AmEvent
                 PROVE  /\ apc[y] = "wait" => won[y] \in DOMAIN hold[y]
                        /\ apc'[y] = "wait" => won[y] \in DOMAIN hold[y]
                        /\ (apc[y] = "wait" /\ hold[y][won[y]].at # AmPool)
                             <=> (apc'[y] = "wait" /\ hold[y][won[y]].at # AmPool)
      BY <1>1 DEF AmKeysAlone
    <2>1. CASE y # x
      BY <1>0, <1>2, <2>1 DEF AmShape, AmRefs
    <2>2. CASE y = x
      BY <1>1, <1>2, <1>3, <2>2
    <2> QED
      BY <2>1, <2>2
  <1>9. AmAtoms'
    <2>1. AmFound'
      BY <1>0, <1>1, <1>8, AmKeysRelations DEF AmAtoms, AmFound, mapvars
    <2> QED
      BY <1>0, <1>1, <1>8, <2>1, AmKeysRelations, AmMapAlone
  <1>10. \A y \in AmEvent, d \in AmCell : /\ AmUses(y, d)' <=> AmUses(y, d)
                                          /\ AmGets(y, d)' <=> AmGets(y, d)
    BY <1>1, AmCellsOfOthers
  <1>11. AmInUse' = AmInUse /\ AmGot' = AmGot
    BY <1>10 DEF AmInUse, AmGot
  <1>12. AmCells'
    <2>1. PICK s \in Seq(AmCell) : AmOnList(s, made \ AmInUse)
      BY <1>0 DEF AmCells
    <2>2. made' = made /\ apNext' = apNext /\ apList' = apList /\ apLast' = apLast
      BY <1>1 DEF listvars
    <2>3. AmOnList(s, made \ AmInUse)'
      BY <1>11, <2>1, <2>2 DEF AmOnList, CellOnList
    <2> QED
      BY <1>0, <1>10, <1>11, <2>2, <2>3 DEF AmCells
  <1>13. x \notin AmPoolWaits /\ AmPoolWaits' = AmPoolWaits \cup {x}
    BY <1>1, <1>2 DEF AmPoolWaits
  <1>14. AmDataKept'
    <2>1. AmDataIn(AmGot)'
      BY <1>0, <1>1, <1>11 DEF AmDataKept, AmDataIn
    <2>2. \A j \in 1 .. n : pq[j] \in AmPoolWaits /\ pq[j] # x
      BY <1>0, <1>4, <1>13 DEF AmDataKept
    <2>3. \A j \in 1 .. (n + 1) : pq'[j] \in AmPoolWaits'
      BY <1>5, <1>13, <2>2
    <2>4. \A j, l \in 1 .. (n + 1) : pq'[j] = pq'[l] => j = l
      <3> SUFFICES ASSUME NEW j \in 1 .. (n + 1), NEW l \in 1 .. (n + 1), pq'[j] = pq'[l] PROVE j = l
        OBVIOUS
      <3>1. CASE j \in 1 .. n /\ l \in 1 .. n
        BY <1>0, <1>4, <1>5, <3>1 DEF AmDataKept
      <3>2. CASE j = n + 1 \/ l = n + 1
        BY <1>5, <2>2, <3>2
      <3> QED
        BY <3>1, <3>2
    <2> QED
      BY <1>1, <1>5, <2>1, <2>3, <2>4 DEF AmDataKept
  <1> QED
    BY <1>6, <1>7, <1>9, <1>12, <1>14 DEF AmInv

-----------------------------------------------------------------------------
\* One reference of x is released and the events in Y get what they wait for.
AmPassed(y) ==
  /\ apc[y] = "wait" /\ apc'[y] = "granted" /\ won'[y] = won[y] + 1
  /\ won[y] \in DOMAIN hold[y] /\ ~hold[y][won[y]].haveit
  /\ DOMAIN hold'[y] = DOMAIN hold[y]
  /\ \A j \in DOMAIN hold[y] : j # won[y] => hold'[y][j] = hold[y][j]
  /\ hold'[y][won[y]].at = hold[y][won[y]].at /\ hold'[y][won[y]].wtype = hold[y][won[y]].wtype
  /\ hold'[y][won[y]].atom = hold[y][won[y]].atom /\ hold'[y][won[y]].haveit

\* x gave up its reference i, and the events in Y got it.
AmGave(x, i, Y) ==
  /\ apc[x] \in {"release", "erelease"} /\ i = widx[x] /\ i \in DOMAIN hold[x] /\ hold[x][i].haveit
  /\ apc'[x] = apc[x] /\ won'[x] = won[x]
  /\ DOMAIN hold'[x] = DOMAIN hold[x]
  /\ \A j \in DOMAIN hold[x] : j # i => hold'[x][j] = hold[x][j]
  /\ hold'[x][i].atom = AmNull /\ hold'[x][i].at = hold[x][i].at
  /\ \A y \in Y : y # x /\ AmPassed(y)
  /\ \A z \in AmEvent : z \notin Y /\ z # x => hold'[z] = hold[z] /\ apc'[z] = apc[z] /\ won'[z] = won[z]

\* Given is such a step, and what an event refers to stays well formed.
LEMMA AmGives ==
  ASSUME AmTypes, AmShape, NEW x \in AmEvent, Releasing(x), NEW Y \in SUBSET AmEvent,
         \A y \in Y : apc[y] = "wait", Given(x, Y)
  PROVE  /\ AmGave(x, widx[x], Y) /\ AmShape'
         /\ apc' \in [AmEvent -> AmPC] /\ hold' \in [AmEvent -> Seq(AmHeldType)]
         /\ won' \in [AmEvent -> Nat] /\ widx' \in [AmEvent -> Nat]
  <1>1. PICK i : i = widx[x]
    OBVIOUS
  <1>2. /\ apc[x] \in {"release", "erelease"} /\ i \in DOMAIN hold[x] /\ i \in Nat \ {0} /\ AmRefs(x)
        /\ hold[x] \in Seq(AmHeldType) /\ hold[x][i] \in AmHeldType /\ hold[x][i].haveit
        /\ DOMAIN hold[x] = 1 .. Len(hold[x])
    <2>1. apc[x] \in {"release", "erelease"} /\ i > 0 /\ i \in Nat /\ AmRefs(x)
      BY <1>1, AmHoldTyped DEF Releasing, AmShape
    <2>2. i \in DOMAIN hold[x] /\ i < won[x]
      BY <1>1, <2>1, AmHoldTyped DEF AmRefs, AmHaving
    <2>3. hold[x][i] \in AmHeldType /\ hold[x][i].haveit
      BY <2>1, <2>2, AmHoldTyped DEF AmRefs
    <2> QED
      BY <2>1, <2>2, <2>3, AmHoldTyped
  <1>3. \A y \in Y : /\ y \in AmEvent /\ y # x /\ apc[y] = "wait" /\ won[y] \in DOMAIN hold[y] /\ AmRefs(y)
                     /\ hold[y] \in Seq(AmHeldType) /\ hold[y][won[y]] \in AmHeldType /\ ~hold[y][won[y]].haveit
    <2> SUFFICES ASSUME NEW y \in Y
                 PROVE  /\ y \in AmEvent /\ y # x /\ apc[y] = "wait" /\ won[y] \in DOMAIN hold[y] /\ AmRefs(y)
                        /\ hold[y] \in Seq(AmHeldType) /\ hold[y][won[y]] \in AmHeldType /\ ~hold[y][won[y]].haveit
      OBVIOUS
    <2>1. y \in AmEvent /\ apc[y] = "wait" /\ y # x /\ AmRefs(y) /\ won[y] \in Nat
      BY <1>2, AmHoldTyped DEF AmShape
    <2>2. won[y] \in DOMAIN hold[y] /\ ~hold[y][won[y]].haveit
      BY <2>1 DEF AmRefs
    <2>3. hold[y][won[y]] \in AmHeldType /\ hold[y] \in Seq(AmHeldType)
      BY <2>1, <2>2, AmHoldTyped
    <2> QED
      BY <2>1, <2>2, <2>3 DEF AmHeldType
  <1> DEFINE gx == [hold[x] EXCEPT ![i].atom = AmNull]
             gy(y) == [hold[y] EXCEPT ![won[y]].haveit = TRUE]
  <1>4. /\ apc' = [y \in AmEvent |-> IF y \in Y THEN "granted" ELSE apc[y]]
        /\ hold' = [y \in AmEvent |-> IF y = x THEN gx ELSE IF y \in Y THEN gy(y) ELSE hold[y]]
        /\ won' = [y \in AmEvent |-> IF y \in Y THEN won[y] + 1 ELSE won[y]]
        /\ widx' = [widx EXCEPT ![x] = @ - 1]
    BY <1>1, Zenon DEF Given
  <1>5. /\ gx \in Seq(AmHeldType) /\ DOMAIN gx = DOMAIN hold[x] /\ Len(gx) = Len(hold[x])
        /\ \A j \in DOMAIN hold[x] : j # i => gx[j] = hold[x][j]
        /\ gx[i].atom = AmNull /\ gx[i].at = hold[x][i].at /\ gx[i].haveit
    <2>1. PICK g : g = [hold[x][i] EXCEPT !.atom = AmNull]
      OBVIOUS
    <2>2. g \in AmHeldType /\ g.at = hold[x][i].at /\ g.atom = AmNull /\ g.haveit = TRUE
      BY <1>2, <2>1 DEF AmHeldType
    <2>3. gx = [hold[x] EXCEPT ![i] = g]
      BY <2>1
    <2> HIDE DEF gx
    <2>4. /\ gx \in Seq(AmHeldType) /\ DOMAIN gx = DOMAIN hold[x] /\ Len(gx) = Len(hold[x]) /\ gx[i] = g
          /\ \A j \in DOMAIN hold[x] : j # i => gx[j] = hold[x][j]
      BY <1>2, <2>2, <2>3
    <2> QED
      BY <2>2, <2>4
  <1>6. ASSUME NEW y \in Y
        PROVE  /\ gy(y) \in Seq(AmHeldType) /\ DOMAIN gy(y) = DOMAIN hold[y]
               /\ \A j \in DOMAIN hold[y] : j # won[y] => gy(y)[j] = hold[y][j]
               /\ gy(y)[won[y]].at = hold[y][won[y]].at /\ gy(y)[won[y]].wtype = hold[y][won[y]].wtype
               /\ gy(y)[won[y]].atom = hold[y][won[y]].atom /\ gy(y)[won[y]].haveit
    <2>1. PICK g : g = [hold[y][won[y]] EXCEPT !.haveit = TRUE]
      OBVIOUS
    <2>2. g \in AmHeldType /\ g.at = hold[y][won[y]].at /\ g.wtype = hold[y][won[y]].wtype
          /\ g.atom = hold[y][won[y]].atom /\ g.haveit = TRUE
      BY <1>3, <2>1 DEF AmHeldType
    <2>3. gy(y) = [hold[y] EXCEPT ![won[y]] = g]
      BY <2>1
    <2> HIDE DEF gy
    <2>4. PICK q, m : q = hold[y] /\ m = won[y] /\ q \in Seq(AmHeldType) /\ m \in DOMAIN q
      BY <1>3
    <2>5. PICK f : f = [q EXCEPT ![m] = g]
      OBVIOUS
    <2>6. f \in Seq(AmHeldType) /\ DOMAIN f = DOMAIN q /\ f[m] = g /\ \A j \in DOMAIN q : j # m => f[j] = q[j]
      BY <2>2, <2>4, <2>5
    <2>7. gy(y) = f
      BY <2>3, <2>4, <2>5, Zenon
    <2> QED
      BY <2>2, <2>4, <2>6, <2>7
  <1>7. hold'[x] = gx /\ x \notin Y
    BY <1>3, <1>4
  <1>8. \A y \in Y : hold'[y] = gy(y) /\ apc'[y] = "granted" /\ won'[y] = won[y] + 1
    BY <1>3, <1>4
  <1>9. \A z \in AmEvent : z \notin Y /\ z # x => hold'[z] = hold[z] /\ apc'[z] = apc[z] /\ won'[z] = won[z]
    BY <1>4
  <1>10. apc'[x] = apc[x] /\ won'[x] = won[x] /\ widx'[x] = i - 1 /\ \A z \in AmEvent : z # x => widx'[z] = widx[z]
    BY <1>1, <1>4, <1>7 DEF AmTypes
  <1> HIDE DEF gx, gy
  <1>11. \A y \in Y : y # x /\ AmPassed(y)
    BY <1>3, <1>6, <1>8 DEF AmPassed
  <1>12. AmGave(x, i, Y)
    <2>1. /\ apc[x] \in {"release", "erelease"} /\ i = widx[x] /\ i \in DOMAIN hold[x] /\ hold[x][i].haveit
          /\ apc'[x] = apc[x] /\ won'[x] = won[x]
      BY <1>1, <1>2, <1>10
    <2>2. /\ DOMAIN hold'[x] = DOMAIN hold[x]
          /\ \A j \in DOMAIN hold[x] : j # i => hold'[x][j] = hold[x][j]
          /\ hold'[x][i].atom = AmNull /\ hold'[x][i].at = hold[x][i].at
      BY <1>5, <1>7
    <2> QED
      BY <1>9, <1>11, <2>1, <2>2, Zenon DEF AmGave
  <1>13. AmShape'
    <2> SUFFICES ASSUME NEW z \in AmEvent PROVE AmRefs(z)'
      BY DEF AmShape
    <2>0. AmRefs(z) /\ DOMAIN hold[z] = 1 .. Len(hold[z]) /\ Len(hold[z]) \in Nat /\ won[z] \in Nat
      BY AmHoldTyped DEF AmShape
    <2>1. CASE z \notin Y /\ z # x
      BY <1>9, <1>10, <2>0, <2>1, AmRefsSame
    <2>2. CASE z = x
      <3>1. \A j \in DOMAIN hold'[x] : /\ hold'[x][j].at = hold[x][j].at
                                       /\ hold'[x][j].atom = AmNull \/ (j # i /\ hold'[x][j].atom = hold[x][j].atom)
                                       /\ hold'[x][j].haveit <=> hold[x][j].haveit
                                       /\ j > i - 1 /\ j # i => j > i
        BY <1>2, <1>5, <1>7
      <3>2. /\ \A j, l \in DOMAIN hold'[x] : hold'[x][j].at = hold'[x][l].at => j = l
            /\ \A j \in DOMAIN hold'[x] : j > i - 1 => hold'[x][j].atom = AmNull
            /\ i - 1 <= Len(hold'[x])
        <4>1. DOMAIN hold'[x] = DOMAIN hold[x] /\ Len(hold'[x]) = Len(hold[x]) /\ Len(hold[x]) \in Nat
          BY <1>2, <1>5, <1>7
        <4>2. \A j \in DOMAIN hold'[x] : j > i => hold'[x][j].atom = AmNull
          BY <1>1, <1>2, <3>1, <4>1 DEF AmRefs
        <4>3. hold'[x][i].atom = AmNull
          BY <1>5, <1>7
        <4> QED
          BY <1>2, <3>1, <4>1, <4>2, <4>3 DEF AmRefs
      <3>3. DOMAIN hold'[x] = DOMAIN hold[x]
        BY <1>5, <1>7
      <3>4. AmRefs(x)'
        <4>1. \A j \in DOMAIN hold'[x] :
                /\ hold'[x][j].at = AmPool => hold'[x][j].atom \in AmCell \cup {AmNull}
                /\ hold'[x][j].at # AmPool => hold'[x][j].atom \in AmAtom \cup {AmNull}
                /\ hold'[x][j].haveit <=> j < won[x]
                /\ j < won[x] /\ won[x] >= 1
          BY <1>2, <3>1, <3>3, <2>0, <2>2 DEF AmRefs, AmHaving
        <4>2. won[x] >= 1 /\ won[x] \in Nat /\ DOMAIN hold'[x] \subseteq Nat
          BY <1>2, <2>0, <2>2, <3>3 DEF AmRefs
        <4> QED
          BY <1>2, <1>10, <3>2, <4>1, <4>2 DEF AmRefs, AmHaving
      <3> QED
        BY <2>2, <3>4
    <2>3. CASE z \in Y
      <3>1. \A j \in DOMAIN hold'[z] : /\ hold'[z][j].at = hold[z][j].at /\ hold'[z][j].atom = hold[z][j].atom
                                       /\ hold'[z][j].haveit <=> hold[z][j].haveit \/ j = won[z]
        <4> SUFFICES ASSUME NEW j \in DOMAIN hold'[z]
                     PROVE  /\ hold'[z][j].at = hold[z][j].at /\ hold'[z][j].atom = hold[z][j].atom
                            /\ hold'[z][j].haveit <=> hold[z][j].haveit \/ j = won[z]
          OBVIOUS
        <4>1. CASE j = won[z]
          <5>1. /\ hold'[z][won[z]].at = hold[z][won[z]].at
                /\ hold'[z][won[z]].atom = hold[z][won[z]].atom /\ hold'[z][won[z]].haveit
            BY <1>11, <2>3 DEF AmPassed
          <5> QED
            BY <4>1, <5>1, Zenon
        <4>2. CASE j # won[z]
          <5>1. hold'[z][j] = hold[z][j]
            BY <1>11, <2>3, <4>2 DEF AmPassed
          <5> QED
            BY <4>2, <5>1
        <4> QED
          BY <4>1, <4>2
      <3>2. DOMAIN hold'[z] = DOMAIN hold[z] /\ apc[z] = "wait" /\ apc'[z] = "granted" /\ won'[z] = won[z] + 1
        BY <1>11, <2>3 DEF AmPassed
      <3>3. \A j, l \in DOMAIN hold'[z] : hold'[z][j].at = hold'[z][l].at => j = l
        BY <2>0, <3>1, <3>2 DEF AmRefs
      <3> QED
        BY <2>0, <3>1, <3>2, <3>3 DEF AmRefs, AmHaving
    <2> QED
      BY <2>1, <2>2, <2>3
  <1>14. /\ apc' \in [AmEvent -> AmPC] /\ won' \in [AmEvent -> Nat] /\ widx' \in [AmEvent -> Nat]
    BY <1>1, <1>2, <1>4 DEF AmTypes, AmPC
  <1>15. hold' \in [AmEvent -> Seq(AmHeldType)]
    <2>1. \A z \in AmEvent : hold'[z] \in Seq(AmHeldType)
      <3> SUFFICES ASSUME NEW z \in AmEvent PROVE hold'[z] \in Seq(AmHeldType)
        OBVIOUS
      <3>1. CASE z = x
        BY <1>5, <1>7, <3>1
      <3>2. CASE z \in Y
        BY <1>6, <1>8, <3>2
      <3>3. CASE z \notin Y /\ z # x
        BY <1>9, <3>3 DEF AmTypes
      <3> QED
        BY <3>1, <3>2, <3>3
    <2> QED
      BY <1>4, <2>1
  <1> QED
    BY <1>1, <1>12, <1>13, <1>14, <1>15

\* What that is for the cells, when it is data.
LEMMA AmGavePool ==
  ASSUME AmTypes, AmShape, AmShape', NEW x \in AmEvent, NEW i, NEW Y \in SUBSET AmPoolWaits, AmGave(x, i, Y),
         hold[x][i].at = AmPool
  PROVE  /\ \A z \in AmEvent, d \in AmCell : /\ AmUses(z, d)' <=> AmUses(z, d) /\ z # x
                                             /\ AmGets(z, d)' <=> (AmGets(z, d) /\ z # x) \/ (z \in Y /\ AmUses(z, d))
         /\ \A d \in AmCell : (AmUses(x, d) <=> hold[x][i].atom = d) /\ (AmGets(x, d) <=> hold[x][i].atom = d)
         /\ AmPoolWaits' = AmPoolWaits \ Y
         /\ AmKeysAlone
  <1>0. AmNull \notin AmCell /\ x \notin Y
    BY AtomicMapsAssumption DEF AmGave
  <1>1. \A y \in Y : y \in AmEvent /\ y # x /\ AmPassed(y) /\ hold[y][won[y]].at = AmPool
    BY DEF AmGave, AmPoolWaits
  <1>2. \A z \in AmEvent : z \notin Y /\ z # x => hold'[z] = hold[z] /\ apc'[z] = apc[z] /\ won'[z] = won[z]
    BY DEF AmGave
  <1>3. /\ i \in DOMAIN hold[x] /\ hold[x][i].haveit /\ DOMAIN hold'[x] = DOMAIN hold[x]
        /\ hold'[x][i].atom = AmNull /\ hold'[x][i].at = AmPool
        /\ \A j \in DOMAIN hold[x] : j # i => hold'[x][j] = hold[x][j]
        /\ apc[x] \in {"release", "erelease"} /\ apc'[x] = apc[x]
    BY DEF AmGave
  <1>4. ASSUME NEW d \in AmCell
        PROVE  /\ AmUses(x, d) <=> hold[x][i].atom = d
               /\ AmGets(x, d) <=> hold[x][i].atom = d
               /\ ~AmUses(x, d)' /\ ~AmGets(x, d)'
    <2>1. AmRefs(x) /\ AmRefs(x)'
      BY DEF AmShape
    <2>2. /\ AmUses(x, d) <=> hold[x][i].atom = d
          /\ AmGets(x, d) <=> hold[x][i].atom = d /\ hold[x][i].haveit
      BY <1>3, <2>1, AmCellOf
    <2>3. /\ AmUses(x, d)' <=> hold'[x][i].atom = d
          /\ AmGets(x, d)' <=> hold'[x][i].atom = d /\ hold'[x][i].haveit
      BY <1>3, <2>1, AmCellOfNext
    <2> QED
      BY <1>0, <1>3, <2>2, <2>3
  <1>5. ASSUME NEW y \in Y, NEW d \in AmCell
        PROVE  (AmUses(y, d)' <=> AmUses(y, d)) /\ (AmGets(y, d)' <=> AmUses(y, d))
    <2>1. AmRefs(y) /\ AmRefs(y)' /\ y \in AmEvent
      BY <1>1 DEF AmShape
    <2>2. PICK j : j = won[y]
      OBVIOUS
    <2>3. /\ j \in DOMAIN hold[y] /\ hold[y][j].at = AmPool /\ j \in DOMAIN hold'[y] /\ hold'[y][j].at = AmPool
          /\ hold'[y][j].atom = hold[y][j].atom /\ hold'[y][j].haveit
      BY <1>1, <2>2 DEF AmPassed
    <2>4. AmUses(y, d) <=> hold[y][j].atom = d
      BY <2>1, <2>3, AmCellOf
    <2>5. /\ AmUses(y, d)' <=> hold'[y][j].atom = d
          /\ AmGets(y, d)' <=> hold'[y][j].atom = d /\ hold'[y][j].haveit
      BY <2>1, <2>3, AmCellOfNext
    <2> QED
      BY <2>3, <2>4, <2>5
  <1>6. ASSUME NEW z \in AmEvent, z \notin Y, z # x, NEW d \in AmCell
        PROVE  (AmUses(z, d)' <=> AmUses(z, d)) /\ (AmGets(z, d)' <=> AmGets(z, d))
    BY <1>2, <1>6, AmCellsOfOthers
  <1>7. ASSUME NEW y \in Y, NEW d \in AmCell PROVE ~AmGets(y, d)
    <2>1. AmRefs(y) /\ y \in AmEvent /\ won[y] \in DOMAIN hold[y] /\ hold[y][won[y]].at = AmPool /\ ~hold[y][won[y]].haveit
      BY <1>1 DEF AmShape, AmPassed
    <2> QED
      BY <2>1, AmCellOf
  <1>8. \A z \in AmEvent, d \in AmCell : /\ AmUses(z, d)' <=> AmUses(z, d) /\ z # x
                                         /\ AmGets(z, d)' <=> (AmGets(z, d) /\ z # x) \/ (z \in Y /\ AmUses(z, d))
    <2> SUFFICES ASSUME NEW z \in AmEvent, NEW d \in AmCell
                 PROVE  /\ AmUses(z, d)' <=> AmUses(z, d) /\ z # x
                        /\ AmGets(z, d)' <=> (AmGets(z, d) /\ z # x) \/ (z \in Y /\ AmUses(z, d))
      OBVIOUS
    <2>1. CASE z = x
      BY <1>0, <1>4, <2>1
    <2>2. CASE z \in Y
      BY <1>1, <1>5, <1>7, <2>2
    <2>3. CASE z \notin Y /\ z # x
      BY <1>6, <2>3
    <2> QED
      BY <2>1, <2>2, <2>3
  <1>9. AmPoolWaits' = AmPoolWaits \ Y
    <2>1. \A z \in AmEvent : (apc'[z] = "wait" /\ hold'[z][won'[z]].at = AmPool)
                               <=> (apc[z] = "wait" /\ hold[z][won[z]].at = AmPool /\ z \notin Y)
      <3> SUFFICES ASSUME NEW z \in AmEvent
                   PROVE  (apc'[z] = "wait" /\ hold'[z][won'[z]].at = AmPool)
                            <=> (apc[z] = "wait" /\ hold[z][won[z]].at = AmPool /\ z \notin Y)
        OBVIOUS
      <3>1. CASE z = x
        BY <1>3, <3>1
      <3>2. CASE z \in Y
        BY <1>1, <3>2 DEF AmPassed
      <3>3. CASE z \notin Y /\ z # x
        BY <1>2, <3>3
      <3> QED
        BY <3>1, <3>2, <3>3
    <2> QED
      BY <2>1 DEF AmPoolWaits
  <1>10. AmKeysAlone
    <2> SUFFICES ASSUME NEW y \in AmEvent
                 PROVE  /\ DOMAIN hold'[y] = DOMAIN hold[y]
                        /\ \A j \in DOMAIN hold[y] : /\ hold'[y][j].at = hold[y][j].at
                                                     /\ hold[y][j].at # AmPool => hold'[y][j] = hold[y][j]
                        /\ apc[y] = "wait" => won[y] \in DOMAIN hold[y]
                        /\ apc'[y] = "wait" => won'[y] \in DOMAIN hold'[y]
                        /\ (apc[y] = "wait" /\ hold[y][won[y]].at # AmPool)
                             <=> (apc'[y] = "wait" /\ hold'[y][won'[y]].at # AmPool)
                        /\ apc[y] = "wait" /\ hold[y][won[y]].at # AmPool => won'[y] = won[y]
      BY DEF AmKeysAlone
    <2>0. apc[y] = "wait" => won[y] \in DOMAIN hold[y]
      BY DEF AmShape, AmRefs
    <2>1. CASE y = x
      <3>1. \A j \in DOMAIN hold[x] : /\ hold'[x][j].at = hold[x][j].at
                                      /\ hold[x][j].at # AmPool => hold'[x][j] = hold[x][j]
        BY <1>3
      <3> QED
        BY <1>3, <2>1, <3>1
    <2>2. CASE y \in Y
      <3>1. \A j \in DOMAIN hold[y] : /\ hold'[y][j].at = hold[y][j].at
                                      /\ hold[y][j].at # AmPool => hold'[y][j] = hold[y][j]
        BY <1>1, <2>2 DEF AmPassed
      <3>2. /\ DOMAIN hold'[y] = DOMAIN hold[y] /\ apc'[y] = "granted" /\ hold[y][won[y]].at = AmPool
        BY <1>1, <2>2 DEF AmPassed
      <3> QED
        BY <2>0, <3>1, <3>2
    <2>3. CASE y \notin Y /\ y # x
      BY <1>2, <2>0, <2>3
    <2> QED
      BY <2>1, <2>2, <2>3
  <1> QED
    BY <1>4, <1>8, <1>9, <1>10

\* AtomicPooled::release.
LEMMA AmReleasesData == ASSUME AmInv, NEW x \in AmEvent, ReleaseData(x) PROVE AmInv'
  <1>0. AmTypes /\ AmShape /\ AmCells /\ AmDataKept /\ AmAtoms
    BY DEF AmInv
  <1>1. PICK i, c : i = widx[x] /\ c = hold[x][i].atom
    OBVIOUS
  <1>2. PICK Y \in SUBSET AmEvent : /\ Y = IF pq # <<>> THEN {Head(pq)} ELSE {}
                                    /\ pq # <<>> => Head(pq) = pq[1] /\ pq[1] \in AmPoolWaits
    <2>1. ASSUME pq # <<>> PROVE Head(pq) = pq[1] /\ pq[1] \in AmPoolWaits
      <3>1. pq \in Seq(AmEvent) /\ 1 \in DOMAIN pq
        BY <1>0, <2>1, EmptySeq DEF AmTypes
      <3> QED
        BY <1>0, <3>1 DEF AmDataKept
    <2> QED
      BY <2>1 DEF AmPoolWaits
  <1>3. Releasing(x) /\ hold[x][i].at = AmPool /\ c # AmNull /\ Given(x, Y) /\ PoolPut(c)
        /\ busy' = busy /\ map' = map /\ state' = state /\ filled' = filled
    BY <1>1, <1>2 DEF ReleaseData, mapvars
  <1>4. Y \subseteq AmPoolWaits
    BY <1>2
  <1>5. /\ AmGave(x, i, Y) /\ AmShape'
        /\ apc' \in [AmEvent -> AmPC] /\ hold' \in [AmEvent -> Seq(AmHeldType)]
        /\ won' \in [AmEvent -> Nat] /\ widx' \in [AmEvent -> Nat]
    BY <1>0, <1>1, <1>3, <1>4, AmGives DEF AmPoolWaits
  <1>6. /\ \A z \in AmEvent, d \in AmCell : /\ AmUses(z, d)' <=> AmUses(z, d) /\ z # x
                                            /\ AmGets(z, d)' <=> (AmGets(z, d) /\ z # x) \/ (z \in Y /\ AmUses(z, d))
        /\ \A d \in AmCell : (AmUses(x, d) <=> c = d) /\ (AmGets(x, d) <=> c = d)
        /\ AmPoolWaits' = AmPoolWaits \ Y
        /\ AmKeysAlone
    BY <1>0, <1>1, <1>3, <1>4, <1>5, AmGavePool
  <1>7. i \in DOMAIN hold[x] /\ c \in AmCell
    <2>1. i \in DOMAIN hold[x]
      BY <1>5 DEF AmGave
    <2> QED
      BY <1>0, <1>1, <1>3, <2>1 DEF AmShape, AmRefs
  <1>8. AmAtoms'
    BY <1>0, <1>3, <1>6, AmKeysRelations, AmMapAlone DEF AmAtoms, AmFound, mapvars
  <1>9. AmInUse' = AmInUse \ {c} /\ c \in AmInUse /\ c \in AmGot
    <2>1. \A z \in AmEvent : AmUses(z, c) => z = x
      BY <1>0, <1>6, <1>7 DEF AmCells
    <2> QED
      BY <1>6, <1>7, <2>1 DEF AmInUse, AmGot
  <1>10. AmCells' /\ apNext' \in [AmCell -> AmCell \cup {AmNull}]
    <2>1. PICK s \in Seq(AmCell) : AmOnList(s, made \ AmInUse)
      BY <1>0 DEF AmCells
    <2>2. PICK S \in SUBSET AmCell : S = made \ AmInUse /\ c \notin S
      <3>1. (made \ AmInUse) \in SUBSET AmCell
        BY <1>0 DEF AmCells
      <3>2. c \notin made \ AmInUse
        BY <1>9
      <3> QED
        BY <3>1, <3>2
    <2>3. apNext' \in [AmCell -> AmCell \cup {AmNull}] /\ made' = made /\ \E r \in Seq(AmCell) : AmOnList(r, S \cup {c})'
      BY <1>0, <1>3, <1>7, <2>1, <2>2, AmPuts DEF AmTypes
    <2>4. made' \ AmInUse' = S \cup {c}
      BY <1>0, <1>9, <2>2, <2>3 DEF AmCells
    <2>5. \E r \in Seq(AmCell) : AmOnList(r, made \ AmInUse)'
      BY <2>3, <2>4 DEF AmOnList
    <2>6. \A y, z \in AmEvent, d \in AmCell : AmUses(y, d)' /\ AmUses(z, d)' => y = z
      BY <1>0, <1>6 DEF AmCells
    <2> QED
      BY <1>0, <1>9, <2>3, <2>5, <2>6 DEF AmCells
  <1>11. CASE pq # <<>>
    <2>0. PICK y \in AmEvent : y = pq[1] /\ Y = {y} /\ y = Head(pq) /\ y \in AmPoolWaits
      BY <1>2, <1>11 DEF AmPoolWaits
    <2>1. PICK d : y = pq[1] /\ Y = {y} /\ y = Head(pq) /\ d = hold[y][won[y]].atom /\ y \in AmPoolWaits
      BY <2>0
    <2>2. AmPassed(y) /\ y # x
      BY <1>5, <2>1 DEF AmGave
    <2>3. AmRefs(y) /\ won[y] \in DOMAIN hold[y] /\ hold[y][won[y]].at = AmPool /\ apc[y] = "wait" /\ ~hold[y][won[y]].haveit
      BY <1>0, <2>1, <2>2 DEF AmShape, AmPassed, AmPoolWaits
    <2>4. d \in AmCell
      BY <2>1, <2>3 DEF AmRefs
    <2>5. \A b \in AmCell : (AmUses(y, b) <=> d = b) /\ ~AmGets(y, b)
      BY <2>1, <2>3, AmCellOf
    <2>6. \A z \in AmEvent : AmUses(z, d) <=> z = y
      BY <1>0, <2>4, <2>5 DEF AmCells
    <2>7. d \notin AmGot
      <3>1. \A z \in AmEvent : AmGets(z, d) => AmUses(z, d)
        BY DEF AmGets, AmUses
      <3> QED
        BY <2>4, <2>5, <2>6, <3>1 DEF AmGot
    <2>8. AmGot' = (AmGot \ {c}) \cup {d}
      <3>1. \A z \in AmEvent, b \in AmCell : AmGets(z, b) => AmUses(z, b)
        BY DEF AmGets, AmUses
      <3>2. \A z \in AmEvent : AmGets(z, c) => z = x
        BY <1>0, <1>6, <1>7, <3>1 DEF AmCells
      <3>3. \A b \in AmCell : (\E z \in AmEvent : AmGets(z, b)') <=> ((\E z \in AmEvent : AmGets(z, b)) /\ b # c) \/ b = d
        <4> SUFFICES ASSUME NEW b \in AmCell
                     PROVE  (\E z \in AmEvent : AmGets(z, b)') <=> ((\E z \in AmEvent : AmGets(z, b)) /\ b # c) \/ b = d
          OBVIOUS
        <4>1. CASE b = d
          BY <1>6, <2>1, <2>5, <4>1
        <4>2. CASE b # d
          <5>1. \A z \in AmEvent : AmGets(z, b)' <=> AmGets(z, b) /\ z # x
            BY <1>6, <2>1, <2>5, <4>2
          <5>2. \A z \in AmEvent : AmGets(z, b) => (z = x <=> b = c)
            BY <1>6, <3>2
          <5> QED
            BY <4>2, <5>1, <5>2
        <4> QED
          BY <4>1, <4>2
      <3> QED
        BY <2>4, <3>3 DEF AmGot
    <2>9. apData' = [apData EXCEPT ![d] = apData[c], ![c] = AmNull] /\ pq' = Tail(pq) /\ dq' = dq
      BY <1>1, <1>11, <2>1 DEF ReleaseData
    <2>10. AmDataIn(AmGot)' /\ apData' \in [AmCell -> AmData \cup {AmNull}]
      <3>1. PICK got \in SUBSET AmCell : got = AmGot
        BY DEF AmGot
      <3>2. AmDataIn((got \ {c}) \cup {d})' /\ apData' \in [AmCell -> AmData \cup {AmNull}]
        BY <1>0, <1>9, <2>4, <2>7, <2>9, <3>1, AmDataPasses DEF AmDataKept, AmTypes
      <3> QED
        BY <2>8, <3>1, <3>2 DEF AmDataIn
    <2>11. PICK n \in Nat \ {0} : n = Len(pq) /\ DOMAIN pq = 1 .. n
      BY <1>0, <1>11, EmptySeq DEF AmTypes
    <2>12. /\ pq' \in Seq(AmEvent) /\ DOMAIN pq' = 1 .. (n - 1)
           /\ \A j \in 1 .. (n - 1) : pq'[j] = pq[j + 1] /\ j + 1 \in 1 .. n /\ j + 1 # 1
      BY <1>0, <1>11, <2>9, <2>11 DEF AmTypes
    <2>13. \A j, l \in DOMAIN pq' : pq'[j] = pq'[l] => j = l
      <3> SUFFICES ASSUME NEW j \in 1 .. (n - 1), NEW l \in 1 .. (n - 1), pq'[j] = pq'[l] PROVE j = l
        BY <2>12
      <3>1. pq[j + 1] = pq[l + 1] /\ j + 1 \in 1 .. n /\ l + 1 \in 1 .. n
        BY <2>12
      <3>2. j + 1 = l + 1
        BY <1>0, <2>11, <3>1 DEF AmDataKept
      <3> QED
        BY <3>2
    <2>14. \A j \in DOMAIN pq' : pq'[j] \in AmPoolWaits'
      <3> SUFFICES ASSUME NEW j \in 1 .. (n - 1) PROVE pq'[j] \in AmPoolWaits'
        BY <2>12
      <3>1. pq'[j] = pq[j + 1] /\ j + 1 \in 1 .. n /\ 1 \in 1 .. n /\ j + 1 # 1
        BY <2>12
      <3>2. pq[j + 1] \in AmPoolWaits /\ pq[j + 1] # pq[1]
        BY <1>0, <2>11, <3>1 DEF AmDataKept
      <3> QED
        BY <1>6, <2>1, <3>1, <3>2
    <2>15. AmDataKept'
      <3>1. dq' = <<>>
        BY <1>0, <1>11, <2>9 DEF AmDataKept
      <3> QED
        BY <2>10, <2>13, <2>14, <3>1 DEF AmDataKept
    <2>16. AmTypes'
      BY <1>0, <1>3, <1>5, <1>10, <2>9, <2>10, <2>12 DEF AmTypes
    <2> QED
      BY <1>5, <1>8, <1>10, <2>15, <2>16 DEF AmInv
  <1>12. CASE pq = <<>>
    <2>1. Y = {}
      BY <1>2, <1>12
    <2>2. AmGot' = AmGot \ {c}
      <3>1. \A z \in AmEvent, b \in AmCell : AmGets(z, b) => AmUses(z, b)
        BY DEF AmGets, AmUses
      <3>2. \A z \in AmEvent : AmGets(z, c) => z = x
        BY <1>0, <1>6, <1>7, <3>1 DEF AmCells
      <3>3. \A b \in AmCell : (\E z \in AmEvent : AmGets(z, b)') <=> (\E z \in AmEvent : AmGets(z, b)) /\ b # c
        <4> SUFFICES ASSUME NEW b \in AmCell
                     PROVE  (\E z \in AmEvent : AmGets(z, b)') <=> (\E z \in AmEvent : AmGets(z, b)) /\ b # c
          OBVIOUS
        <4>1. \A z \in AmEvent : AmGets(z, b)' <=> AmGets(z, b) /\ z # x
          BY <1>6, <2>1
        <4>2. \A z \in AmEvent : AmGets(z, b) => (z = x <=> b = c)
          BY <1>6, <3>2
        <4> QED
          BY <4>1, <4>2
      <3> QED
        BY <3>3 DEF AmGot
    <2>3. apData[c] # AmNull
      BY <1>0, <1>7, <1>9 DEF AmDataKept, AmDataIn
    <2>4. dq' = Append(dq, apData[c]) /\ apData' = [apData EXCEPT ![c] = AmNull] /\ pq' = pq
      BY <1>1, <1>12, <2>3 DEF ReleaseData
    <2>5. AmDataIn(AmGot)' /\ apData' \in [AmCell -> AmData \cup {AmNull}] /\ dq' \in Seq(AmData)
      <3>1. PICK got \in SUBSET AmCell : got = AmGot
        BY DEF AmGot
      <3>2. AmDataIn(got \ {c})' /\ apData' \in [AmCell -> AmData \cup {AmNull}] /\ dq' \in Seq(AmData)
        BY <1>0, <1>9, <2>4, <3>1, AmDataReturns DEF AmDataKept, AmTypes
      <3> QED
        BY <2>2, <3>1, <3>2 DEF AmDataIn
    <2>6. pq' = <<>> /\ DOMAIN pq' = {} /\ pq' \in Seq(AmEvent)
      BY <1>0, <1>12, <2>4 DEF AmTypes
    <2>7. AmDataKept'
      BY <2>5, <2>6 DEF AmDataKept
    <2>8. AmTypes'
      BY <1>0, <1>3, <1>5, <1>10, <2>5, <2>6 DEF AmTypes
    <2> QED
      BY <1>5, <1>8, <1>10, <2>7, <2>8 DEF AmInv
  <1> QED
    BY <1>11, <1>12

-----------------------------------------------------------------------------
\* The atomic that AtomicMapStdMap::get makes, a request that is granted and one that waits.
LEMMA AmNewState == AmStateOf(NewAtomic, {}, {}) /\ NewAtomic \in AmStateType
  BY FS_EmptySet DEF AmStateOf, NewAtomic, AmStateType, None

\* acquire_or_wait that takes the atomic: one holder more.
LEMMA AmGrants ==
  ASSUME NEW atm \in AmStateType, NEW H \in SUBSET AmEntry, NEW W, AmStateOf(atm, H, W),
         NEW ent \in AmEntry, ent \notin H, NEW a, NEW S, Grants(atm, ent.wtype, a \in S)
  PROVE  AmStateOf(Acquired(atm, ent.wtype), H \cup {ent}, W) /\ Acquired(atm, ent.wtype) \in AmStateType
  <1>1. ent.wtype \in {Read, Exclusive} /\ Read # Exclusive /\ Read # None /\ None = 0
    BY DEF AmEntry, Read, Exclusive, None
  <1>2. /\ IsFiniteSet(H) /\ atm.held = Cardinality(H) /\ atm.held \in Nat
        /\ IsFiniteSet(H \cup {ent}) /\ Cardinality(H \cup {ent}) = Cardinality(H) + 1
    BY FS_AddElement, FS_CardinalityType DEF AmStateOf
  <1>3. PICK b : b = Acquired(atm, ent.wtype)
    OBVIOUS
  <1>4. CASE atm.held = 0
    <2>1. H = {} /\ Cardinality(H \cup {ent}) = 1
      <3>1. Cardinality(H) = 0
        BY <1>2, <1>4
      <3>2. H = {}
        BY <1>2, <3>1, FS_EmptySet, Zenon
      <3>3. Cardinality(H \cup {ent}) = 0 + 1
        BY <1>2, <3>1
      <3> QED
        BY <3>2, <3>3
    <2>2. b.held = 1 /\ b.waiters = atm.waiters /\ b \in AmStateType /\ (b.mode = Read => ent.wtype = Read)
      <3>1. CASE ent.wtype = Exclusive
        <4>1. b = [atm EXCEPT !.held = 1] /\ atm.mode = None
          BY <1>3, <1>4, <3>1 DEF Acquired, AmStateOf
        <4> QED
          BY <1>1, <4>1 DEF AmStateType
      <3>2. CASE ent.wtype = Read
        <4>1. b = [atm EXCEPT !.held = 1, !.mode = Read]
          BY <1>1, <1>3, <1>4, <3>2 DEF Acquired
        <4> QED
          BY <3>2, <4>1 DEF AmStateType, WType
      <3> QED
        BY <1>1, <3>1, <3>2
    <2>3. /\ IsFiniteSet(H \cup {ent}) /\ b.held = Cardinality(H \cup {ent})
          /\ b.mode = Read => \A u \in H \cup {ent} : u.wtype = Read
          /\ \A u \in H \cup {ent} : u.wtype = Exclusive => H \cup {ent} = {u}
      BY <1>2, <2>1, <2>2
    <2>4. /\ W = {b.waiters[i] : i \in DOMAIN b.waiters}
          /\ \A i, j \in DOMAIN b.waiters : b.waiters[i].event = b.waiters[j].event => i = j
      BY <2>2 DEF AmStateOf
    <2>5. AmStateOf(b, H \cup {ent}, W)
      BY <2>2, <2>3, <2>4 DEF AmStateOf
    <2> QED
      BY <1>3, <2>2, <2>5
  <1>5. CASE atm.held # 0
    <2>1. ent.wtype = Read /\ atm.mode = Read
      BY <1>1, <1>5 DEF Grants
    <2>2. b = [atm EXCEPT !.held = @ + 1]
      BY <1>1, <1>3, <1>5, <2>1 DEF Acquired
    <2>3. b.held = atm.held + 1 /\ b.waiters = atm.waiters /\ b.mode = Read /\ b \in AmStateType
      BY <1>2, <2>1, <2>2 DEF AmStateType
    <2>4. \A u \in H \cup {ent} : u.wtype = Read
      BY <2>1 DEF AmStateOf
    <2>5. /\ W = {b.waiters[i] : i \in DOMAIN b.waiters}
          /\ \A i, j \in DOMAIN b.waiters : b.waiters[i].event = b.waiters[j].event => i = j
      BY <2>3 DEF AmStateOf
    <2>6. AmStateOf(b, H \cup {ent}, W)
      BY <1>1, <1>2, <2>3, <2>4, <2>5 DEF AmStateOf
    <2> QED
      BY <1>3, <2>3, <2>6
  <1> QED
    BY <1>4, <1>5

\* acquire_or_wait that does not: one waiter more.
LEMMA AmQueues ==
  ASSUME NEW atm \in AmStateType, NEW H, NEW W, AmStateOf(atm, H, W),
         NEW ent \in AmEntry, \A u \in W : u.event # ent.event
  PROVE  AmStateOf(Queued(atm, ent.event, ent.wtype), H, W \cup {ent}) /\ Queued(atm, ent.event, ent.wtype) \in AmStateType
  <1>1. PICK b, q : b = Queued(atm, ent.event, ent.wtype) /\ q = atm.waiters
    OBVIOUS
  <1>2. q \in Seq(AmEntry) /\ ent = [event |-> ent.event, wtype |-> ent.wtype]
    BY <1>1 DEF AmStateType, AmEntry
  <1>3. PICK n \in Nat : n = Len(q) /\ DOMAIN q = 1 .. n
    BY <1>2
  <1>4. PICK r : r = Append(q, ent)
    OBVIOUS
  <1>5. r \in Seq(AmEntry) /\ DOMAIN r = 1 .. (n + 1) /\ r[n + 1] = ent /\ \A j \in 1 .. n : r[j] = q[j]
    BY <1>2, <1>3, <1>4
  <1>6. b = [atm EXCEPT !.waiters = r]
    BY <1>1, <1>2, <1>4 DEF Queued
  <1>7. b \in AmStateType /\ b.waiters = r /\ b.held = atm.held /\ b.mode = atm.mode
    BY <1>5, <1>6 DEF AmStateType
  <1>8. W = {q[j] : j \in 1 .. n}
    BY <1>1, <1>3 DEF AmStateOf
  <1>9. W \cup {ent} = {r[j] : j \in DOMAIN r}
    <2>1. \A u : u \in W \cup {ent} <=> \E j \in 1 .. (n + 1) : r[j] = u
      <3> SUFFICES ASSUME NEW u PROVE u \in W \cup {ent} <=> \E j \in 1 .. (n + 1) : r[j] = u
        OBVIOUS
      <3>1. u \in W <=> \E j \in 1 .. n : q[j] = u
        BY <1>8
      <3>2. \A j \in 1 .. (n + 1) : j \in 1 .. n \/ j = n + 1
        OBVIOUS
      <3>3. \A j \in 1 .. n : j \in 1 .. (n + 1)
        OBVIOUS
      <3> QED
        BY <1>5, <3>1, <3>2, <3>3
    <2> QED
      BY <1>5, <2>1
  <1>10. \A i, j \in 1 .. (n + 1) : r[i].event = r[j].event => i = j
    <2>1. \A i, j \in 1 .. n : q[i].event = q[j].event => i = j
      BY <1>1, <1>3 DEF AmStateOf
    <2>2. \A i \in 1 .. n : q[i].event # ent.event
      BY <1>8
    <2>3. \A j \in 1 .. (n + 1) : j \in 1 .. n \/ j = n + 1
      OBVIOUS
    <2> QED
      BY <1>5, <2>1, <2>2, <2>3
  <1>11. AmStateOf(b, H, W \cup {ent})
    <2>1. /\ IsFiniteSet(H) /\ b.held = Cardinality(H) /\ (b.held = 0 => b.mode = None)
          /\ b.mode = Read => \A u \in H : u.wtype = Read
          /\ \A u \in H : u.wtype = Exclusive => H = {u}
      BY <1>7 DEF AmStateOf
    <2>2. /\ W \cup {ent} = {b.waiters[j] : j \in DOMAIN b.waiters}
          /\ \A i, j \in DOMAIN b.waiters : b.waiters[i].event = b.waiters[j].event => i = j
      BY <1>5, <1>7, <1>9, <1>10
    <2> QED
      BY <2>1, <2>2 DEF AmStateOf
  <1> QED
    BY <1>1, <1>7, <1>11

\* A release that hands the atomic to the first n waiters.
LEMMA AmReleases ==
  ASSUME NEW atm \in AmStateType, NEW H \in SUBSET AmEntry, NEW W, AmStateOf(atm, H, W), NEW ent \in H, NEW a, NEW S,
         NEW n \in 0 .. Len(atm.waiters), IsBatch(atm, ent.wtype, a \in S, n)
  PROVE  /\ AmStateOf(Released(atm, ent.wtype, n), (H \ {ent}) \cup {atm.waiters[j] : j \in 1 .. n},
                      W \ {atm.waiters[j] : j \in 1 .. n})
         /\ Released(atm, ent.wtype, n) \in AmStateType
         /\ n = 0 => Released(atm, ent.wtype, n).waiters = atm.waiters
  <1>1. ent \in AmEntry /\ ent.wtype \in {Read, Exclusive} /\ Read # Exclusive /\ Read # None /\ None = 0 /\ None # Exclusive
    BY DEF AmEntry, Read, Exclusive, None
  <1>2. PICK q, m : q = atm.waiters /\ m = Len(q)
    OBVIOUS
  <1>3. q \in Seq(AmEntry) /\ m \in Nat /\ DOMAIN q = 1 .. m /\ n \in 0 .. m /\ \A j \in 1 .. m : q[j] \in AmEntry
    BY <1>2, ElementOfSeq DEF AmStateType
  <1>4. /\ IsFiniteSet(H) /\ atm.held = Cardinality(H) /\ atm.held \in Nat /\ atm.mode \in {None} \cup WType
        /\ IsFiniteSet(H \ {ent}) /\ Cardinality(H \ {ent}) = atm.held - 1 /\ Cardinality(H \ {ent}) \in Nat
        /\ \A u \in H : u.wtype = Exclusive => H = {u}
        /\ atm.mode = Read => \A u \in H : u.wtype = Read
    <2>1. IsFiniteSet(H) /\ atm.held = Cardinality(H) /\ atm.held \in Nat
      BY FS_CardinalityType DEF AmStateOf
    <2>2. IsFiniteSet(H \ {ent}) /\ Cardinality(H \ {ent}) = Cardinality(H) - 1 /\ Cardinality(H \ {ent}) \in Nat
      BY <2>1, FS_RemoveElement, FS_CardinalityType
    <2> QED
      BY <2>1, <2>2 DEF AmStateOf, AmStateType
  <1>5. PICK hd : hd = HeldAfter(atm, ent.wtype)
    OBVIOUS
  <1>6. hd = Cardinality(H \ {ent}) /\ hd \in Nat
    <2>1. CASE ent.wtype = Exclusive
      <3>1. H \ {ent} = {}
        BY <1>4, <2>1
      <3> QED
        BY <1>5, <2>1, <3>1, FS_EmptySet DEF HeldAfter
    <2>2. CASE ent.wtype # Exclusive
      BY <1>4, <1>5, <2>2 DEF HeldAfter
    <2> QED
      BY <2>1, <2>2
  <1>7. /\ W = {q[j] : j \in 1 .. m}
        /\ \A i, j \in 1 .. m : q[i].event = q[j].event => i = j
    BY <1>2, <1>3 DEF AmStateOf
  <1>8. PICK b : b = Released(atm, ent.wtype, n)
    OBVIOUS
  <1>9. CASE n = 0
    <2>1. {q[j] : j \in 1 .. n} = {}
      BY <1>9
    <2>2. PICK md : md = IF hd = 0 THEN None ELSE atm.mode
      OBVIOUS
    <2>3. b = [atm EXCEPT !.held = hd, !.mode = md]
      BY <1>5, <1>8, <1>9, <2>2 DEF Released
    <2>4. b.held = hd /\ b.mode = md /\ b.waiters = q /\ b \in AmStateType
      BY <1>2, <1>4, <1>6, <2>2, <2>3 DEF AmStateType
    <2>5. /\ \A u \in H \ {ent} : u.wtype = Exclusive => H \ {ent} = {u}
          /\ b.mode = Read => \A u \in H \ {ent} : u.wtype = Read
      BY <1>1, <1>4, <2>2, <2>4
    <2>6. b.held = 0 => b.mode = None
      BY <2>2, <2>4
    <2>7. /\ W = {b.waiters[j] : j \in DOMAIN b.waiters}
          /\ \A i, j \in DOMAIN b.waiters : b.waiters[i].event = b.waiters[j].event => i = j
      BY <1>3, <1>7, <2>4
    <2>8. AmStateOf(b, H \ {ent}, W)
      BY <1>4, <1>6, <2>4, <2>5, <2>6, <2>7 DEF AmStateOf
    <2>9. (H \ {ent}) \cup {q[j] : j \in 1 .. n} = H \ {ent} /\ W \ {q[j] : j \in 1 .. n} = W
      BY <2>1
    <2> QED
      BY <1>2, <1>8, <2>4, <2>8, <2>9
  <1>10. CASE n # 0
    <2>1. n \in 1 .. m /\ hd = 0 /\ (q[1].wtype # Read => n = 1)
          /\ (q[1].wtype = Read => \A j \in 2 .. n : JoinsReaders(q[j].wtype, a \in S))
      <3>1. n \in 1 .. m
        BY <1>3, <1>10
      <3>2. ~(HeldAfter(atm, ent.wtype) # 0 \/ atm.waiters = <<>>)
        BY <1>10 DEF IsBatch
      <3> QED
        BY <1>2, <1>5, <3>1, <3>2 DEF IsBatch
    <2>2. H \ {ent} = {}
      BY <1>4, <1>6, <2>1, FS_EmptySet
    <2>3. PICK G : G = {q[j] : j \in 1 .. n}
      OBVIOUS
    <2>4. \A j \in 1 .. n : q[j].wtype \in {Read, Exclusive} /\ (q[1].wtype = Read => q[j].wtype = Read)
      <3>1. \A j \in 1 .. n : q[j] \in AmEntry
        BY <1>3
      <3>2. \A w \in {Read, Exclusive} : JoinsReaders(w, a \in S) => w = Read
        BY DEF JoinsReaders, Read, Exclusive, Upgradeable
      <3>3. \A j \in 1 .. n : j = 1 \/ j \in 2 .. n
        OBVIOUS
      <3>4. \A j \in 1 .. n : q[j].wtype \in {Read, Exclusive}
        BY <3>1 DEF AmEntry
      <3> QED
        BY <2>1, <3>2, <3>3, <3>4
    <2>5. IsFiniteSet(G) /\ Cardinality(G) = n
      <3>1. ExistsBijection(1 .. n, G)
        <4>1. PICK f : f = [j \in 1 .. n |-> q[j]]
          OBVIOUS
        <4>2. \A j, l \in 1 .. n : q[j] = q[l] => j = l
          <5> SUFFICES ASSUME NEW j \in 1 .. n, NEW l \in 1 .. n, q[j] = q[l] PROVE j = l
            OBVIOUS
          <5>1. q[j].event = q[l].event /\ j \in 1 .. m /\ l \in 1 .. m
            BY <1>3, <2>1
          <5> QED
            BY <1>7, <5>1
        <4>3. f \in [1 .. n -> G] /\ (\A j, l \in 1 .. n : j # l => f[j] # f[l]) /\ (\A u \in G : \E j \in 1 .. n : f[j] = u)
          BY <2>3, <4>1, <4>2
        <4>4. f \in Bijection(1 .. n, G)
          BY <4>3 DEF Bijection, Injection, Surjection, IsInjective
        <4> QED
          BY <4>4 DEF ExistsBijection
      <3> QED
        BY <2>1, <3>1, FS_NatBijection, FS_CountingElements
    <2>6. PICK r : r = SubSeq(q, n + 1, m)
      OBVIOUS
    <2>7. /\ r \in Seq(AmEntry) /\ DOMAIN r = 1 .. (m - n)
          /\ \A j \in 1 .. (m - n) : r[j] = q[j + n] /\ j + n \in (n + 1) .. m
      BY <1>3, <2>1, <2>6
    <2>8. PICK md : md = IF ent.wtype = Exclusive THEN None ELSE q[1].wtype
      OBVIOUS
    <2>9. b = [held |-> n, mode |-> md, waiters |-> r]
      BY <1>2, <1>8, <1>10, <2>6, <2>8 DEF Released
    <2>10. md \in {None} \cup WType /\ (md = Read => q[1].wtype = Read)
      BY <1>1, <2>1, <2>4, <2>8 DEF WType
    <2>11. b.held = n /\ b.mode = md /\ b.waiters = r /\ b \in AmStateType
      BY <2>1, <2>7, <2>9, <2>10 DEF AmStateType
    <2>12. /\ \A u \in G : u.wtype = Exclusive => G = {u}
           /\ b.mode = Read => \A u \in G : u.wtype = Read
      <3>1. ASSUME NEW u \in G, u.wtype = Exclusive PROVE G = {u}
        <4>1. PICK j \in 1 .. n : q[j] = u
          BY <2>3
        <4>2. q[1].wtype # Read
          BY <1>1, <2>4, <3>1, <4>1
        <4>3. n = 1
          BY <2>1, <4>2
        <4> QED
          BY <2>3, <4>1, <4>3
      <3>2. b.mode = Read => \A u \in G : u.wtype = Read
        BY <2>3, <2>4, <2>10, <2>11
      <3> QED
        BY <3>1, <3>2
    <2>13. W \ G = {r[j] : j \in 1 .. (m - n)}
      <3>1. \A u : u \in W \ G <=> \E j \in 1 .. (m - n) : r[j] = u
        <4> SUFFICES ASSUME NEW u PROVE u \in W \ G <=> \E j \in 1 .. (m - n) : r[j] = u
          OBVIOUS
        <4>1. ASSUME u \in W, u \notin G PROVE \E j \in 1 .. (m - n) : r[j] = u
          <5>1. PICK l \in 1 .. m : q[l] = u
            BY <1>7, <4>1
          <5>2. l \notin 1 .. n
            BY <2>3, <4>1, <5>1
          <5>3. l - n \in 1 .. (m - n) /\ (l - n) + n = l
            BY <1>3, <2>1, <5>2
          <5>4. r[l - n] = q[l]
            BY <2>7, <5>3
          <5> QED
            BY <5>1, <5>3, <5>4
        <4>2. ASSUME NEW j \in 1 .. (m - n), r[j] = u PROVE u \in W /\ u \notin G
          <5>1. u = q[j + n] /\ j + n \in 1 .. m /\ j + n \notin 1 .. n
            BY <1>3, <2>1, <2>7, <4>2
          <5>2. \A l \in 1 .. n : l \in 1 .. m /\ (q[l] = q[j + n] => l = j + n)
            <6> SUFFICES ASSUME NEW l \in 1 .. n PROVE l \in 1 .. m /\ (q[l] = q[j + n] => l = j + n)
              OBVIOUS
            <6>1. l \in 1 .. m /\ (q[l] = q[j + n] => q[l].event = q[j + n].event)
              BY <1>3, <2>1
            <6> QED
              BY <1>7, <5>1, <6>1
          <5> QED
            BY <1>7, <2>3, <5>1, <5>2
        <4> QED
          BY <4>1, <4>2
      <3> QED
        BY <3>1
    <2>14. \A i, j \in 1 .. (m - n) : r[i].event = r[j].event => i = j
      <3> SUFFICES ASSUME NEW i \in 1 .. (m - n), NEW j \in 1 .. (m - n), r[i].event = r[j].event PROVE i = j
        OBVIOUS
      <3>1. i + n \in 1 .. m /\ j + n \in 1 .. m /\ q[i + n].event = q[j + n].event
        BY <1>3, <2>1, <2>7
      <3>2. i + n = j + n
        BY <1>7, <3>1
      <3> QED
        BY <1>3, <2>1, <3>2
    <2>15. AmStateOf(b, G, W \ G)
      <3>1. /\ W \ G = {b.waiters[j] : j \in DOMAIN b.waiters}
            /\ \A i, j \in DOMAIN b.waiters : b.waiters[i].event = b.waiters[j].event => i = j
        BY <2>7, <2>11, <2>13, <2>14
      <3>2. b.held # 0 /\ b.held = Cardinality(G)
        BY <2>1, <2>5, <2>11
      <3> QED
        BY <2>5, <2>12, <3>1, <3>2 DEF AmStateOf
    <2>16. (H \ {ent}) \cup G = G
      BY <2>2
    <2> QED
      BY <1>2, <1>8, <1>10, <2>3, <2>11, <2>15, <2>16
  <1> QED
    BY <1>9, <1>10

-----------------------------------------------------------------------------
\* The holders and the waiters of a key, event by event.
LEMMA AmHoldersAre ==
  ASSUME NEW k
  PROVE  /\ \A u : u \in AmHolders(k) <=> u \in AmEntry /\ AmHas(u.event, k, u.wtype)
         /\ \A u : u \in AmWaiting(k) <=> u \in AmEntry /\ AmWants(u.event, k, u.wtype)
         /\ \A u : u \in AmHolders(k)' <=> u \in AmEntry /\ AmHas(u.event, k, u.wtype)'
         /\ \A u : u \in AmWaiting(k)' <=> u \in AmEntry /\ AmWants(u.event, k, u.wtype)'
         /\ \A u \in AmEntry : u.event \in AmEvent /\ u.wtype \in {Read, Exclusive}
  BY DEF AmHolders, AmWaiting, AmHas, AmWants, AmEntry

\* The holders and the waiters of a key, when everyone has and wants what it did.
LEMMA AmHoldersSame ==
  ASSUME NEW k, \A z \in AmEvent, w \in {Read, Exclusive} : AmHas(z, k, w)' <=> AmHas(z, k, w)
  PROVE  AmHolders(k)' = AmHolders(k)
  <1>1. \A u : u \in AmHolders(k)' <=> u \in AmHolders(k)
    BY AmHoldersAre
  <1> QED
    BY <1>1

LEMMA AmWaitingSame ==
  ASSUME NEW k, \A z \in AmEvent, w \in {Read, Exclusive} : AmWants(z, k, w)' <=> AmWants(z, k, w)
  PROVE  AmWaiting(k)' = AmWaiting(k)
  <1>1. \A u : u \in AmWaiting(k)' <=> u \in AmWaiting(k)
    BY AmHoldersAre
  <1> QED
    BY <1>1

\* What an event has when one of its references changes.
AmHasChanged(x, i) ==
  /\ \A k, w : k # hold[x][i].at => (AmHas(x, k, w)' <=> AmHas(x, k, w))
  /\ \A k, w : k = hold[x][i].at =>
       /\ AmHas(x, k, w) <=> hold[x][i].wtype = w /\ hold[x][i].haveit /\ hold[x][i].atom # AmNull
       /\ AmHas(x, k, w)' <=> hold'[x][i].wtype = w /\ hold'[x][i].haveit /\ hold'[x][i].atom # AmNull

\* It has what the reference that changed says, and of other keys what it had.
LEMMA AmRefChange ==
  ASSUME NEW x \in AmEvent, AmRefs(x), AmRefs(x)', NEW i \in DOMAIN hold[x], DOMAIN hold'[x] = DOMAIN hold[x],
         \A j \in DOMAIN hold[x] : j # i => hold'[x][j] = hold[x][j], hold'[x][i].at = hold[x][i].at
  PROVE  AmHasChanged(x, i)
  <1>1. \A j \in DOMAIN hold[x] : hold[x][j].at = hold[x][i].at => j = i
    BY DEF AmRefs
  <1>2. \A j \in DOMAIN hold'[x] : hold'[x][j].at = hold[x][i].at => j = i
    BY <1>1
  <1>3. \A k, w : AmHas(x, k, w) <=> \E j \in DOMAIN hold[x] : /\ hold[x][j].at = k /\ hold[x][j].wtype = w
                                                             /\ hold[x][j].haveit /\ hold[x][j].atom # AmNull
    BY DEF AmHas
  <1>4. \A k, w : AmHas(x, k, w)' <=> \E j \in DOMAIN hold'[x] : /\ hold'[x][j].at = k /\ hold'[x][j].wtype = w
                                                                /\ hold'[x][j].haveit /\ hold'[x][j].atom # AmNull
    BY DEF AmHas
  <1>5. ASSUME NEW k, NEW w, k # hold[x][i].at PROVE AmHas(x, k, w)' <=> AmHas(x, k, w)
    <2>1. ASSUME NEW j \in DOMAIN hold[x]
          PROVE  (/\ hold[x][j].at = k /\ hold[x][j].wtype = w /\ hold[x][j].haveit /\ hold[x][j].atom # AmNull)
                 <=> (/\ hold'[x][j].at = k /\ hold'[x][j].wtype = w /\ hold'[x][j].haveit /\ hold'[x][j].atom # AmNull)
      <3>1. CASE j = i
        BY <1>5, <3>1
      <3>2. CASE j # i
        BY <3>2
      <3> QED
        BY <3>1, <3>2
    <2> QED
      BY <1>3, <1>4, <2>1
  <1>6. ASSUME NEW k, NEW w, k = hold[x][i].at
        PROVE  /\ AmHas(x, k, w) <=> hold[x][i].wtype = w /\ hold[x][i].haveit /\ hold[x][i].atom # AmNull
               /\ AmHas(x, k, w)' <=> hold'[x][i].wtype = w /\ hold'[x][i].haveit /\ hold'[x][i].atom # AmNull
    BY <1>1, <1>2, <1>3, <1>4, <1>6
  <1> QED
    BY <1>5, <1>6 DEF AmHasChanged

\* An event that keeps its references has what it had.
LEMMA AmHasSame ==
  ASSUME NEW z, hold'[z] = hold[z]
  PROVE  \A k, w : AmHas(z, k, w)' <=> AmHas(z, k, w)
  BY DEF AmHas

LEMMA AmWantsSame ==
  ASSUME NEW z, hold'[z] = hold[z], apc'[z] = apc[z], won'[z] = won[z]
  PROVE  \A k, w : AmWants(z, k, w)' <=> AmWants(z, k, w)
  BY DEF AmWants

\* One key's atomic changes.
LEMMA AmOneKey ==
  ASSUME AmAtoms, NEW k0 \in AmKey, NEW a \in AmAtom, filled' = filled,
         \A k \in AmKey : k # k0 => map'[k] = map[k] /\ map[k] # a,
         \A b \in AmAtom : b # a => state'[b] = state[b],
         \/ map'[k0] = a /\ AmAtomOf(k0, a)'
         \/ map'[k0] = AmNull /\ AmHolders(k0)' = {} /\ AmWaiting(k0)' = {},
         \A k \in AmKey : k # k0 => AmHolders(k)' = AmHolders(k) /\ AmWaiting(k)' = AmWaiting(k),
         AmFound'
  PROVE  AmAtoms'
  <1>0. a # AmNull
    BY AtomicMapsAssumption
  <1>1. ASSUME NEW k \in AmKey, NEW b \in AmAtom, map'[k] = b PROVE AmAtomOf(k, b)'
    <2>1. CASE k = k0
      <3>1. b = a
        BY <1>0, <1>1, <2>1, AtomicMapsAssumption
      <3>2. AmAtomOf(k0, a)'
        BY <1>0, <1>1, <2>1, AtomicMapsAssumption
      <3> QED
        BY <2>1, <3>1, <3>2 DEF AmAtomOf
    <2>2. CASE k # k0
      <3>1. b # a /\ map[k] = b
        BY <1>1, <2>2
      <3>2. AmAtomOf(k, b)
        BY <3>1 DEF AmAtoms
      <3>3. state'[b] = state[b] /\ AmHolders(k)' = AmHolders(k) /\ AmWaiting(k)' = AmWaiting(k)
        BY <2>2, <3>1
      <3> QED
        BY <3>2, <3>3 DEF AmAtomOf, AmStateOf
    <2> QED
      BY <2>1, <2>2
  <1>2. \A k \in AmKey : map'[k] = AmNull => AmHolders(k)' = {} /\ AmWaiting(k)' = {}
    BY <1>0 DEF AmAtoms
  <1>3. \A k, l \in AmKey : map'[k] = map'[l] /\ map'[k] # AmNull => k = l
    BY DEF AmAtoms
  <1> QED
    BY <1>1, <1>2, <1>3 DEF AmAtoms, AmFound

\* The atomic that a late guard finds or makes.
LEMMA AmFinds ==
  ASSUME AmTypes, AmAtoms, NEW k \in AmKey, NEW a \in AmAtom, MapGet(k, a),
         NEW atm, atm = IF a \in Alive THEN state[a] ELSE NewAtomic
  PROVE  /\ atm \in AmStateType /\ AmStateOf(atm, AmHolders(k), AmWaiting(k))
         /\ \A l \in AmKey : l # k => map[l] # a
         /\ map[k] # AmNull => map[k] = a
  <1>0. a # AmNull
    BY AtomicMapsAssumption
  <1>1. CASE map[k] # AmNull
    <2>1. map[k] = a /\ a \in Alive
      BY <1>0, <1>1 DEF MapGet, Alive
    <2>2. atm = state[a] /\ atm \in AmStateType /\ AmAtomOf(k, a)
      BY <2>1 DEF AmTypes, AmAtoms
    <2>3. AmStateOf(atm, AmHolders(k), AmWaiting(k))
      BY <2>2 DEF AmAtomOf, AmStateOf
    <2>4. \A l \in AmKey : l # k => map[l] # a
      BY <1>0, <2>1 DEF AmAtoms
    <2> QED
      BY <2>1, <2>2, <2>3, <2>4
  <1>2. CASE map[k] = AmNull
    <2>1. a \notin Alive
      BY <1>2 DEF MapGet
    <2>2. AmHolders(k) = {} /\ AmWaiting(k) = {}
      BY <1>2 DEF AmAtoms
    <2>3. atm = NewAtomic
      BY <2>1
    <2>4. atm \in AmStateType /\ AmStateOf(atm, AmHolders(k), AmWaiting(k))
      BY <2>2, <2>3, AmNewState DEF AmStateOf
    <2>5. \A l \in AmKey : map[l] # a
      BY <1>0, <2>1 DEF Alive
    <2> QED
      BY <1>2, <2>4, <2>5
  <1> QED
    BY <1>1, <1>2

\* The invariant after an event got the atomic of k or queued for it.
LEMMA AmFindsFor ==
  ASSUME AmTypes, AmCells, AmDataKept, AmAtoms, NEW k \in AmKey, NEW a \in AmAtom, NEW b \in AmStateType,
         \A l \in AmKey : l # k => map[l] # a /\ map'[l] = map[l],
         map' \in [AmKey -> AmAtom \cup {AmNull}], map'[k] = a,
         state' \in [AmAtom -> AmStateType], state'[a] = b, \A c \in AmAtom : c # a => state'[c] = state[c],
         filled' = filled, UNCHANGED poolvars,
         apc' \in [AmEvent -> AmPC], hold' \in [AmEvent -> Seq(AmHeldType)], won' \in [AmEvent -> Nat], widx' = widx,
         AmShape', AmPoolRefsAlone, AmStateOf(b, AmHolders(k)', AmWaiting(k)'),
         AmHolders(k)' # {} \/ AmWaiting(k)' # {},
         \A l \in AmKey : l # k => AmHolders(l)' = AmHolders(l) /\ AmWaiting(l)' = AmWaiting(l),
         AmFound'
  PROVE  AmInv'
  <1>1. AmTypes'
    BY DEF AmTypes, poolvars, listvars
  <1>2. AmAtomOf(k, a)'
    <2>1. PICK st, H, W : st = state'[a] /\ H = AmHolders(k)' /\ W = AmWaiting(k)'
      OBVIOUS
    <2>2. AmStateOf(b, H, W) /\ st = b
      BY <2>1, Zenon
    <2>3. AmStateOf(st, H, W)
      BY <2>2, Zenon
    <2> QED
      BY <2>1, <2>3, Zenon DEF AmAtomOf
  <1>3. AmAtoms'
    BY <1>2, AmOneKey
  <1>4. AmCells' /\ AmDataKept'
    BY AmPoolRelations, AmPoolAlone
  <1> QED
    BY <1>1, <1>3, <1>4 DEF AmInv

\* The acquire_or_wait of an atomic of the map, which is a: it is granted.
AmGotKeyed(x, a, atm) ==
  /\ Acquiring(x) /\ Now(x).at # AmPool /\ ~Now(x).haveit
  /\ MapGet(Now(x).at, a) /\ map' = [map EXCEPT ![Now(x).at] = a]
  /\ atm = IF a \in Alive THEN state[a] ELSE NewAtomic
  /\ Grants(atm, Now(x).wtype, a \in filled)
  /\ state' = [state EXCEPT ![a] = Acquired(atm, Now(x).wtype)]
  /\ hold' = HaveIt(x, a) /\ won' = [won EXCEPT ![x] = @ + 1] /\ apc' = apc
  /\ widx' = widx /\ filled' = filled /\ UNCHANGED poolvars

\* HeldAtomic::build, and an acquire_or_wait that takes the atomic.
LEMMA AmGetsKeyed ==
  ASSUME AmInv, NEW x \in AmEvent, NEW a \in AmAtom, NEW atm, AmGotKeyed(x, a, atm)
  PROVE  AmInv'
  <1>0. AmTypes /\ AmShape /\ AmCells /\ AmDataKept /\ AmAtoms
    BY DEF AmInv
  <1>1. PICK i, k, w : i = won[x] /\ k = hold[x][i].at /\ w = hold[x][i].wtype
    OBVIOUS
  <1>2. /\ apc[x] = "acquire" /\ i <= Len(hold[x]) /\ k # AmPool /\ ~hold[x][i].haveit
        /\ hold' = [hold EXCEPT ![x][i] = [@ EXCEPT !.atom = a, !.haveit = TRUE]]
        /\ MapGet(k, a) /\ atm = IF a \in Alive THEN state[a] ELSE NewAtomic
        /\ Grants(atm, w, a \in filled)
        /\ map' = [map EXCEPT ![k] = a] /\ state' = [state EXCEPT ![a] = Acquired(atm, w)]
        /\ won' = [won EXCEPT ![x] = @ + 1] /\ apc' = apc
        /\ widx' = widx /\ filled' = filled /\ UNCHANGED poolvars
    BY <1>1 DEF AmGotKeyed, Acquiring, Now, HaveIt
  <1>3. /\ AmRefs(x) /\ i \in DOMAIN hold[x] /\ i \in Nat /\ hold[x][i] \in AmHeldType
        /\ DOMAIN hold[x] = 1 .. Len(hold[x])
    BY <1>0, <1>1, <1>2, AmHoldTyped DEF AmShape, AmRefs
  <1>4. k \in AmKey /\ w \in {Read, Exclusive} /\ a # AmNull
    BY <1>1, <1>2, <1>3, AtomicMapsAssumption DEF AmHeldType
  <1>5. PICK g : g = [hold[x][i] EXCEPT !.atom = a, !.haveit = TRUE]
    OBVIOUS
  <1>6. g \in AmHeldType /\ g.at = k /\ g.wtype = w /\ g.atom = a /\ g.haveit
    BY <1>1, <1>2, <1>3, <1>5 DEF AmHeldType
  <1>7. hold' = [hold EXCEPT ![x] = [hold[x] EXCEPT ![i] = g]]
    BY <1>2, <1>5
  <1>8. /\ hold' \in [AmEvent -> Seq(AmHeldType)]
        /\ \A y \in AmEvent : y # x => hold'[y] = hold[y]
        /\ DOMAIN hold'[x] = DOMAIN hold[x] /\ Len(hold'[x]) = Len(hold[x])
        /\ \A j \in DOMAIN hold[x] : j # i => hold'[x][j] = hold[x][j]
        /\ hold'[x][i] = g
    BY <1>0, <1>3, <1>6, <1>7, AmOneRef DEF AmTypes
  <1>9. won' \in [AmEvent -> Nat] /\ won'[x] = i + 1 /\ \A y \in AmEvent : y # x => won'[y] = won[y]
    BY <1>0, <1>1, <1>2 DEF AmTypes
  <1>10. AmShape'
    <2> SUFFICES ASSUME NEW y \in AmEvent PROVE AmRefs(y)'
      BY DEF AmShape
    <2>1. CASE y # x
      BY <1>0, <1>2, <1>8, <1>9, <2>1, AmRefsSame DEF AmShape
    <2>2. CASE y = x
      <3>1. \A j \in DOMAIN hold'[x] : /\ hold'[x][j].at = hold[x][j].at
                                       /\ j # i => hold'[x][j].atom = hold[x][j].atom
                                       /\ j = i => hold'[x][j].atom = a /\ hold'[x][j].at # AmPool
                                       /\ hold'[x][j].haveit <=> hold[x][j].haveit \/ j = i
        BY <1>1, <1>2, <1>6, <1>8
      <3>2. \A j, l \in DOMAIN hold'[x] : hold'[x][j].at = hold'[x][l].at => j = l
        BY <1>3, <1>8, <3>1 DEF AmRefs
      <3>3. AmRefs(x)'
        BY <1>1, <1>2, <1>3, <1>8, <1>9, <3>1, <3>2 DEF AmRefs, AmHaving
      <3> QED
        BY <2>2, <3>3
    <2> QED
      BY <2>1, <2>2
  <1>11. AmPoolRefsAlone
    <2> SUFFICES ASSUME NEW y \in AmEvent
                 PROVE  /\ DOMAIN hold'[y] = DOMAIN hold[y]
                        /\ \A j \in DOMAIN hold[y] : /\ hold'[y][j].at = hold[y][j].at
                                                     /\ hold[y][j].at = AmPool => hold'[y][j] = hold[y][j]
                        /\ (apc[y] = "wait" /\ hold[y][won[y]].at = AmPool)
                             <=> (apc'[y] = "wait" /\ hold'[y][won'[y]].at = AmPool)
      BY DEF AmPoolRefsAlone
    <2>1. CASE y # x
      BY <1>2, <1>8, <1>9, <2>1
    <2>2. CASE y = x
      BY <1>1, <1>2, <1>6, <1>8, <2>2
    <2> QED
      BY <2>1, <2>2
  <1>12. /\ atm \in AmStateType /\ AmStateOf(atm, AmHolders(k), AmWaiting(k))
         /\ \A l \in AmKey : l # k => map[l] # a
         /\ map[k] # AmNull => map[k] = a
    BY <1>0, <1>2, <1>4, AmFinds
  <1>13. PICK ent \in AmEntry : ent.event = x /\ ent.wtype = w
    <2>1. [event |-> x, wtype |-> w] \in AmEntry
      BY <1>4 DEF AmEntry
    <2> QED
      BY <2>1
  <1>14. /\ \A l, v : l # k => (AmHas(x, l, v)' <=> AmHas(x, l, v))
         /\ \A v : ~AmHas(x, k, v) /\ (AmHas(x, k, v)' <=> v = w)
    <2>1. AmRefs(x)' /\ hold'[x][i].at = hold[x][i].at
      BY <1>1, <1>6, <1>8, <1>10 DEF AmShape
    <2>2. /\ \A l, v : l # k => (AmHas(x, l, v)' <=> AmHas(x, l, v))
          /\ \A v : /\ AmHas(x, k, v) <=> hold[x][i].wtype = v /\ hold[x][i].haveit /\ hold[x][i].atom # AmNull
                    /\ AmHas(x, k, v)' <=> hold'[x][i].wtype = v /\ hold'[x][i].haveit /\ hold'[x][i].atom # AmNull
      <3>1. /\ \A l, v : l # hold[x][i].at => (AmHas(x, l, v)' <=> AmHas(x, l, v))
            /\ \A l, v : l = hold[x][i].at =>
                 /\ AmHas(x, l, v) <=> hold[x][i].wtype = v /\ hold[x][i].haveit /\ hold[x][i].atom # AmNull
                 /\ AmHas(x, l, v)' <=> hold'[x][i].wtype = v /\ hold'[x][i].haveit /\ hold'[x][i].atom # AmNull
        <4>1. AmRefs(x) /\ i \in DOMAIN hold[x] /\ DOMAIN hold'[x] = DOMAIN hold[x]
          BY <1>3, <1>8
        <4>2. \A j \in DOMAIN hold[x] : j # i => hold'[x][j] = hold[x][j]
          BY <1>8
        <4>3. AmHasChanged(x, i)
          BY <2>1, <4>1, <4>2, AmRefChange
        <4> QED
          BY <4>3 DEF AmHasChanged
      <3> QED
        BY <1>1, <3>1
    <2> QED
      BY <1>2, <1>4, <1>6, <1>8, <2>2
  <1>15. \A y \in AmEvent : \A l, v : /\ y # x => (AmHas(y, l, v)' <=> AmHas(y, l, v))
                                      /\ AmWants(y, l, v)' <=> AmWants(y, l, v)
    <2>1. ASSUME NEW y \in AmEvent, y # x, NEW l, NEW v
          PROVE  (AmHas(y, l, v)' <=> AmHas(y, l, v)) /\ (AmWants(y, l, v)' <=> AmWants(y, l, v))
      BY <1>2, <1>8, <1>9, <2>1, AmHasSame, AmWantsSame
    <2>2. \A l, v : ~AmWants(x, l, v)' /\ ~AmWants(x, l, v)
      BY <1>2 DEF AmWants
    <2> QED
      BY <2>1, <2>2
  <1>16. \A l \in AmKey : l # k => AmHolders(l)' = AmHolders(l)
    <2>1. ASSUME NEW l \in AmKey, l # k PROVE \A z \in AmEvent, v \in {Read, Exclusive} : AmHas(z, l, v)' <=> AmHas(z, l, v)
      BY <1>14, <1>15, <2>1
    <2> QED
      BY <2>1, AmHoldersSame
  <1>17. \A l \in AmKey : AmWaiting(l)' = AmWaiting(l)
    BY <1>15, AmWaitingSame
  <1>18. ent \notin AmHolders(k) /\ AmHolders(k)' = AmHolders(k) \cup {ent}
    <2>1. ASSUME NEW u \in AmEntry PROVE u \in AmHolders(k)' <=> u \in AmHolders(k) \/ u = ent
      <3>1. CASE u.event = x
        <4>1. u = ent <=> u.wtype = w
          BY <1>13, <3>1 DEF AmEntry
        <4> QED
          BY <1>14, <3>1, <4>1, AmHoldersAre
      <3>2. CASE u.event # x
        BY <1>13, <1>15, <3>2, AmHoldersAre
      <3> QED
        BY <3>1, <3>2
    <2>2. ent \notin AmHolders(k)
      BY <1>13, <1>14, AmHoldersAre
    <2>3. AmHolders(k) \subseteq AmEntry /\ AmHolders(k)' \subseteq AmEntry
      BY DEF AmHolders
    <2> QED
      BY <2>1, <2>2, <2>3
  <1>19. PICK b : b = Acquired(atm, w)
    OBVIOUS
  <1>20. b \in AmStateType /\ AmStateOf(b, AmHolders(k)', AmWaiting(k)')
    <2>1. PICK H \in SUBSET AmEntry : H = AmHolders(k)
      BY DEF AmHolders
    <2>2. Grants(atm, ent.wtype, a \in filled) /\ AmStateOf(atm, H, AmWaiting(k)) /\ ent \notin H
      BY <1>2, <1>12, <1>13, <1>18, <2>1
    <2>3. AmStateOf(b, H \cup {ent}, AmWaiting(k)) /\ b \in AmStateType
      BY <1>12, <1>13, <1>19, <2>2, AmGrants
    <2> QED
      BY <1>4, <1>17, <1>18, <2>1, <2>3 DEF AmStateOf
  <1>21. AmFound'
    <2> SUFFICES ASSUME NEW y \in AmEvent, NEW j \in DOMAIN hold'[y],
                        hold'[y][j].at # AmPool, hold'[y][j].atom # AmNull
                 PROVE  hold'[y][j].atom = map'[hold'[y][j].at]
      BY DEF AmFound
    <2>1. map'[k] = a /\ \A l \in AmKey : l # k => map'[l] = map[l]
      BY <1>0, <1>2, <1>4 DEF AmTypes
    <2>2. CASE y = x /\ j = i
      BY <1>6, <1>8, <2>1, <2>2
    <2>3. CASE ~(y = x /\ j = i)
      <3>1. hold'[y][j] = hold[y][j] /\ j \in DOMAIN hold[y]
        BY <1>8, <2>3
      <3>2. hold[y][j].atom = map[hold[y][j].at] /\ hold[y][j].at \in AmKey
        <4>1. hold[y][j] \in AmHeldType
          BY <1>0, <3>1, AmHoldTyped
        <4> QED
          BY <1>0, <3>1, <4>1 DEF AmAtoms, AmHeldType
      <3> QED
        BY <1>12, <2>1, <3>1, <3>2
    <2> QED
      BY <2>2, <2>3
  <1>22. /\ map' \in [AmKey -> AmAtom \cup {AmNull}] /\ map'[k] = a
         /\ \A l \in AmKey : l # k => map[l] # a /\ map'[l] = map[l]
         /\ state' \in [AmAtom -> AmStateType] /\ state'[a] = b
         /\ \A c \in AmAtom : c # a => state'[c] = state[c]
         /\ apc' \in [AmEvent -> AmPC] /\ widx' = widx /\ filled' = filled /\ UNCHANGED poolvars
    BY <1>0, <1>2, <1>4, <1>12, <1>19, <1>20 DEF AmTypes
  <1>23. AmHolders(k)' # {} /\ \A l \in AmKey : l # k => AmHolders(l)' = AmHolders(l) /\ AmWaiting(l)' = AmWaiting(l)
    BY <1>16, <1>17, <1>18
  <1> QED
    BY <1>0, <1>4, <1>8, <1>9, <1>10, <1>11, <1>20, <1>21, <1>22, <1>23, AmFindsFor

\* It is not.
AmAskedKeyed(x, a, atm) ==
  /\ Acquiring(x) /\ Now(x).at # AmPool /\ ~Now(x).haveit
  /\ MapGet(Now(x).at, a) /\ map' = [map EXCEPT ![Now(x).at] = a]
  /\ atm = IF a \in Alive THEN state[a] ELSE NewAtomic
  /\ state' = [state EXCEPT ![a] = Queued(atm, x, Now(x).wtype)]
  /\ hold' = [hold EXCEPT ![x][won[x]].atom = a] /\ apc' = [apc EXCEPT ![x] = "wait"] /\ won' = won
  /\ widx' = widx /\ filled' = filled /\ UNCHANGED poolvars

\* HeldAtomic::build, and an acquire_or_wait that queues.
LEMMA AmWaitsKeyed ==
  ASSUME AmInv, NEW x \in AmEvent, NEW a \in AmAtom, NEW atm, AmAskedKeyed(x, a, atm)
  PROVE  AmInv'
  <1>0. AmTypes /\ AmShape /\ AmCells /\ AmDataKept /\ AmAtoms
    BY DEF AmInv
  <1>1. PICK i, k, w : i = won[x] /\ k = hold[x][i].at /\ w = hold[x][i].wtype
    OBVIOUS
  <1>2. /\ apc[x] = "acquire" /\ i <= Len(hold[x]) /\ k # AmPool /\ ~hold[x][i].haveit
        /\ hold' = [hold EXCEPT ![x][i].atom = a]
        /\ MapGet(k, a) /\ atm = IF a \in Alive THEN state[a] ELSE NewAtomic
        /\ map' = [map EXCEPT ![k] = a] /\ state' = [state EXCEPT ![a] = Queued(atm, x, w)]
        /\ apc' = [apc EXCEPT ![x] = "wait"] /\ won' = won
        /\ widx' = widx /\ filled' = filled /\ UNCHANGED poolvars
    BY <1>1 DEF AmAskedKeyed, Acquiring, Now
  <1>3. /\ AmRefs(x) /\ i \in DOMAIN hold[x] /\ i \in Nat /\ hold[x][i] \in AmHeldType
        /\ DOMAIN hold[x] = 1 .. Len(hold[x])
    BY <1>0, <1>1, <1>2, AmHoldTyped DEF AmShape, AmRefs
  <1>4. k \in AmKey /\ w \in {Read, Exclusive} /\ a # AmNull
    BY <1>1, <1>2, <1>3, AtomicMapsAssumption DEF AmHeldType
  <1>5. PICK g : g = [hold[x][i] EXCEPT !.atom = a]
    OBVIOUS
  <1>6. g \in AmHeldType /\ g.at = k /\ g.wtype = w /\ g.atom = a /\ ~g.haveit
    BY <1>1, <1>2, <1>3, <1>5 DEF AmHeldType
  <1>7. hold' = [hold EXCEPT ![x] = [hold[x] EXCEPT ![i] = g]]
    BY <1>2, <1>5
  <1>8. /\ hold' \in [AmEvent -> Seq(AmHeldType)]
        /\ \A y \in AmEvent : y # x => hold'[y] = hold[y]
        /\ DOMAIN hold'[x] = DOMAIN hold[x] /\ Len(hold'[x]) = Len(hold[x])
        /\ \A j \in DOMAIN hold[x] : j # i => hold'[x][j] = hold[x][j]
        /\ hold'[x][i] = g
    BY <1>0, <1>3, <1>6, <1>7, AmOneRef DEF AmTypes
  <1>9. apc' \in [AmEvent -> AmPC] /\ apc'[x] = "wait" /\ \A y \in AmEvent : y # x => apc'[y] = apc[y]
    BY <1>0, <1>2 DEF AmTypes, AmPC
  <1>10. AmShape'
    <2> SUFFICES ASSUME NEW y \in AmEvent PROVE AmRefs(y)'
      BY DEF AmShape
    <2>1. CASE y # x
      BY <1>0, <1>2, <1>8, <1>9, <2>1, AmRefsSame DEF AmShape
    <2>2. CASE y = x
      <3>1. \A j \in DOMAIN hold'[x] : /\ hold'[x][j].at = hold[x][j].at
                                       /\ j # i => hold'[x][j].atom = hold[x][j].atom
                                       /\ j = i => hold'[x][j].atom = a /\ hold'[x][j].at # AmPool
                                       /\ hold'[x][j].haveit <=> hold[x][j].haveit
        BY <1>1, <1>2, <1>6, <1>8
      <3>2. \A j, l \in DOMAIN hold'[x] : hold'[x][j].at = hold'[x][l].at => j = l
        BY <1>3, <1>8, <3>1 DEF AmRefs
      <3>3. AmRefs(x)'
        BY <1>1, <1>2, <1>3, <1>4, <1>8, <1>9, <3>1, <3>2 DEF AmRefs, AmHaving
      <3> QED
        BY <2>2, <3>3
    <2> QED
      BY <2>1, <2>2
  <1>11. AmPoolRefsAlone
    <2> SUFFICES ASSUME NEW y \in AmEvent
                 PROVE  /\ DOMAIN hold'[y] = DOMAIN hold[y]
                        /\ \A j \in DOMAIN hold[y] : /\ hold'[y][j].at = hold[y][j].at
                                                     /\ hold[y][j].at = AmPool => hold'[y][j] = hold[y][j]
                        /\ (apc[y] = "wait" /\ hold[y][won[y]].at = AmPool)
                             <=> (apc'[y] = "wait" /\ hold'[y][won'[y]].at = AmPool)
      BY DEF AmPoolRefsAlone
    <2>1. CASE y # x
      BY <1>2, <1>8, <1>9, <2>1
    <2>2. CASE y = x
      BY <1>1, <1>2, <1>6, <1>8, <2>2
    <2> QED
      BY <2>1, <2>2
  <1>12. /\ atm \in AmStateType /\ AmStateOf(atm, AmHolders(k), AmWaiting(k))
         /\ \A l \in AmKey : l # k => map[l] # a
         /\ map[k] # AmNull => map[k] = a
    BY <1>0, <1>2, <1>4, AmFinds
  <1>13. PICK ent \in AmEntry : ent.event = x /\ ent.wtype = w
    <2>1. [event |-> x, wtype |-> w] \in AmEntry
      BY <1>4 DEF AmEntry
    <2> QED
      BY <2>1
  <1>14. \A l, v : ~(l = k /\ AmHas(x, k, v)) /\ (AmHas(x, l, v)' <=> AmHas(x, l, v))
    <2>1. AmRefs(x)' /\ hold'[x][i].at = hold[x][i].at
      BY <1>1, <1>6, <1>8, <1>10 DEF AmShape
    <2>2. /\ \A l, v : l # hold[x][i].at => (AmHas(x, l, v)' <=> AmHas(x, l, v))
          /\ \A l, v : l = hold[x][i].at =>
               /\ AmHas(x, l, v) <=> hold[x][i].wtype = v /\ hold[x][i].haveit /\ hold[x][i].atom # AmNull
               /\ AmHas(x, l, v)' <=> hold'[x][i].wtype = v /\ hold'[x][i].haveit /\ hold'[x][i].atom # AmNull
      <3>1. AmRefs(x) /\ i \in DOMAIN hold[x] /\ DOMAIN hold'[x] = DOMAIN hold[x]
        BY <1>3, <1>8
      <3>2. \A j \in DOMAIN hold[x] : j # i => hold'[x][j] = hold[x][j]
        BY <1>8
      <3>3. AmHasChanged(x, i)
        BY <2>1, <3>1, <3>2, AmRefChange
      <3> QED
        BY <3>3 DEF AmHasChanged
    <2> QED
      BY <1>1, <1>2, <1>6, <1>8, <2>2
  <1>15. \A y \in AmEvent : \A l, v : /\ AmHas(y, l, v)' <=> AmHas(y, l, v)
                                      /\ y # x => (AmWants(y, l, v)' <=> AmWants(y, l, v))
    <2>1. ASSUME NEW y \in AmEvent, y # x, NEW l, NEW v
          PROVE  (AmHas(y, l, v)' <=> AmHas(y, l, v)) /\ (AmWants(y, l, v)' <=> AmWants(y, l, v))
      BY <1>2, <1>8, <1>9, <2>1, AmHasSame, AmWantsSame
    <2> QED
      BY <1>14, <2>1
  <1>16. \A l, v : ~AmWants(x, l, v) /\ (AmWants(x, l, v)' <=> l = k /\ v = w)
    <2>1. won'[x] = i /\ hold'[x][i].at = k /\ hold'[x][i].wtype = w
      BY <1>1, <1>2, <1>6, <1>8
    <2> QED
      BY <1>2, <1>9, <2>1 DEF AmWants
  <1>17. \A l \in AmKey : AmHolders(l)' = AmHolders(l)
    BY <1>15, AmHoldersSame
  <1>18. \A l \in AmKey : l # k => AmWaiting(l)' = AmWaiting(l)
    <2>1. ASSUME NEW l \in AmKey, l # k PROVE \A z \in AmEvent, v \in {Read, Exclusive} : AmWants(z, l, v)' <=> AmWants(z, l, v)
      BY <1>15, <1>16, <2>1
    <2> QED
      BY <2>1, AmWaitingSame
  <1>19. (\A u \in AmWaiting(k) : u.event # x) /\ AmWaiting(k)' = AmWaiting(k) \cup {ent}
    <2>1. ASSUME NEW u \in AmEntry PROVE u \in AmWaiting(k)' <=> u \in AmWaiting(k) \/ u = ent
      <3>1. CASE u.event = x
        <4>1. u = ent <=> u.wtype = w
          BY <1>13, <3>1 DEF AmEntry
        <4> QED
          BY <1>16, <3>1, <4>1, AmHoldersAre
      <3>2. CASE u.event # x
        BY <1>13, <1>15, <3>2, AmHoldersAre
      <3> QED
        BY <3>1, <3>2
    <2>2. \A u \in AmWaiting(k) : u.event # x
      BY <1>16, AmHoldersAre
    <2>3. AmWaiting(k) \subseteq AmEntry /\ AmWaiting(k)' \subseteq AmEntry
      BY DEF AmWaiting
    <2> QED
      BY <2>1, <2>2, <2>3
  <1>20. PICK b : b = Queued(atm, x, w)
    OBVIOUS
  <1>21. b \in AmStateType /\ AmStateOf(b, AmHolders(k)', AmWaiting(k)')
    <2>1. AmStateOf(b, AmHolders(k), AmWaiting(k) \cup {ent}) /\ b \in AmStateType
      BY <1>12, <1>13, <1>19, <1>20, AmQueues
    <2> QED
      BY <1>4, <1>17, <1>19, <2>1 DEF AmStateOf
  <1>22. AmFound'
    <2> SUFFICES ASSUME NEW y \in AmEvent, NEW j \in DOMAIN hold'[y],
                        hold'[y][j].at # AmPool, hold'[y][j].atom # AmNull
                 PROVE  hold'[y][j].atom = map'[hold'[y][j].at]
      BY DEF AmFound
    <2>1. map'[k] = a /\ \A l \in AmKey : l # k => map'[l] = map[l]
      BY <1>0, <1>2, <1>4 DEF AmTypes
    <2>2. CASE y = x /\ j = i
      BY <1>6, <1>8, <2>1, <2>2
    <2>3. CASE ~(y = x /\ j = i)
      <3>1. hold'[y][j] = hold[y][j] /\ j \in DOMAIN hold[y]
        BY <1>8, <2>3
      <3>2. hold[y][j].atom = map[hold[y][j].at] /\ hold[y][j].at \in AmKey
        <4>1. hold[y][j] \in AmHeldType
          BY <1>0, <3>1, AmHoldTyped
        <4> QED
          BY <1>0, <3>1, <4>1 DEF AmAtoms, AmHeldType
      <3> QED
        BY <1>12, <2>1, <3>1, <3>2
    <2> QED
      BY <2>2, <2>3
  <1>23. /\ map' \in [AmKey -> AmAtom \cup {AmNull}] /\ map'[k] = a
         /\ \A l \in AmKey : l # k => map[l] # a /\ map'[l] = map[l]
         /\ state' \in [AmAtom -> AmStateType] /\ state'[a] = b
         /\ \A c \in AmAtom : c # a => state'[c] = state[c]
         /\ won' \in [AmEvent -> Nat] /\ widx' = widx /\ filled' = filled /\ UNCHANGED poolvars
    BY <1>0, <1>2, <1>4, <1>12, <1>20, <1>21 DEF AmTypes
  <1>24. AmWaiting(k)' # {} /\ \A l \in AmKey : l # k => AmHolders(l)' = AmHolders(l) /\ AmWaiting(l)' = AmWaiting(l)
    BY <1>17, <1>18, <1>19
  <1> QED
    BY <1>0, <1>4, <1>8, <1>9, <1>10, <1>11, <1>21, <1>22, <1>23, <1>24, AmFindsFor

\* One or the other.
LEMMA AmAcquiresKeyed == ASSUME AmInv, NEW x \in AmEvent, AcquireKeyed(x) PROVE AmInv'
  <1>1. \E a \in AmAtom : \E atm : AmGotKeyed(x, a, atm) \/ AmAskedKeyed(x, a, atm)
    <2>1. PICK a \in AmAtom :
            /\ MapGet(Now(x).at, a) /\ map' = [map EXCEPT ![Now(x).at] = a]
            /\ LET atm == IF a \in Alive THEN state[a] ELSE NewAtomic
               IN  IF Grants(atm, Now(x).wtype, a \in filled)
                   THEN /\ state' = [state EXCEPT ![a] = Acquired(atm, Now(x).wtype)]
                        /\ hold' = HaveIt(x, a) /\ won' = [won EXCEPT ![x] = @ + 1]
                        /\ UNCHANGED apc
                   ELSE /\ state' = [state EXCEPT ![a] = Queued(atm, x, Now(x).wtype)]
                        /\ hold' = [hold EXCEPT ![x][won[x]].atom = a]
                        /\ apc' = [apc EXCEPT ![x] = "wait"]
                        /\ UNCHANGED won
      BY DEF AcquireKeyed
    <2>2. /\ Acquiring(x) /\ Now(x).at # AmPool /\ ~Now(x).haveit
          /\ widx' = widx /\ filled' = filled /\ UNCHANGED poolvars
      BY DEF AcquireKeyed
    <2>3. PICK atm : atm = IF a \in Alive THEN state[a] ELSE NewAtomic
      OBVIOUS
    <2>4. CASE Grants(atm, Now(x).wtype, a \in filled)
      <3>1. AmGotKeyed(x, a, atm)
        BY <2>1, <2>2, <2>3, <2>4 DEF AmGotKeyed
      <3> QED
        BY <3>1
    <2>5. CASE ~Grants(atm, Now(x).wtype, a \in filled)
      <3>1. AmAskedKeyed(x, a, atm)
        BY <2>1, <2>2, <2>3, <2>5 DEF AmAskedKeyed
      <3> QED
        BY <3>1
    <2> QED
      BY <2>4, <2>5
  <1> QED
    BY <1>1, AmGetsKeyed, AmWaitsKeyed

-----------------------------------------------------------------------------
\* What a release is for the holders and the waiters, when it is that of an atomic of the map.
AmGaveFor(x, i, k, Y) ==
  /\ \A z \in AmEvent : \A l, v : l # k => /\ AmHas(z, l, v)' <=> AmHas(z, l, v)
                                           /\ AmWants(z, l, v)' <=> AmWants(z, l, v)
  /\ \A z \in AmEvent : \A v : /\ AmHas(z, k, v)' <=> (AmHas(z, k, v) /\ z # x) \/ (z \in Y /\ AmWants(z, k, v))
                               /\ AmWants(z, k, v)' <=> AmWants(z, k, v) /\ z \notin Y
  /\ \A v : AmHas(x, k, v) <=> hold[x][i].wtype = v /\ hold[x][i].atom # AmNull
  /\ AmPoolRefsAlone

\* Given is that when what was given up is of a key.
LEMMA AmGaveKeyed ==
  ASSUME AmTypes, AmShape, AmShape', NEW x \in AmEvent, NEW i, NEW k \in AmKey, NEW Y \in SUBSET AmEvent, AmGave(x, i, Y),
         hold[x][i].at = k, \A y \in Y : hold[y][won[y]].at = k
  PROVE  AmGaveFor(x, i, k, Y)
  <1>0. AmPool \notin AmKey /\ k # AmPool /\ x \notin Y
    BY AtomicMapsAssumption DEF AmGave
  <1>1. \A y \in Y : y \in AmEvent /\ y # x /\ AmPassed(y) /\ hold[y][won[y]].at = k
    BY DEF AmGave
  <1>2. \A z \in AmEvent : z \notin Y /\ z # x => hold'[z] = hold[z] /\ apc'[z] = apc[z] /\ won'[z] = won[z]
    BY DEF AmGave
  <1>3. /\ i \in DOMAIN hold[x] /\ hold[x][i].haveit /\ DOMAIN hold'[x] = DOMAIN hold[x]
        /\ hold'[x][i].atom = AmNull /\ hold'[x][i].at = hold[x][i].at
        /\ \A j \in DOMAIN hold[x] : j # i => hold'[x][j] = hold[x][j]
        /\ apc[x] \in {"release", "erelease"} /\ apc'[x] = apc[x]
    BY DEF AmGave
  <1>4. /\ \A l, v : l # k => (AmHas(x, l, v)' <=> AmHas(x, l, v))
        /\ \A v : ~AmHas(x, k, v)' /\ (AmHas(x, k, v) <=> hold[x][i].wtype = v /\ hold[x][i].atom # AmNull)
        /\ \A l, v : ~AmWants(x, l, v) /\ ~AmWants(x, l, v)'
    <2>1. AmRefs(x) /\ AmRefs(x)'
      BY DEF AmShape
    <2>2. /\ \A l, v : l # hold[x][i].at => (AmHas(x, l, v)' <=> AmHas(x, l, v))
          /\ \A l, v : l = hold[x][i].at =>
               /\ AmHas(x, l, v) <=> hold[x][i].wtype = v /\ hold[x][i].haveit /\ hold[x][i].atom # AmNull
               /\ AmHas(x, l, v)' <=> hold'[x][i].wtype = v /\ hold'[x][i].haveit /\ hold'[x][i].atom # AmNull
      BY <1>3, <2>1, AmRefChange DEF AmHasChanged
    <2>3. \A l, v : ~AmWants(x, l, v) /\ ~AmWants(x, l, v)'
      BY <1>3 DEF AmWants
    <2> QED
      BY <1>3, <2>2, <2>3
  <1>5. ASSUME NEW y \in Y
        PROVE  /\ \A l, v : l # k => (AmHas(y, l, v)' <=> AmHas(y, l, v)) /\ ~AmWants(y, l, v)
               /\ \A v : ~AmHas(y, k, v) /\ (AmHas(y, k, v)' <=> AmWants(y, k, v))
               /\ \A l, v : ~AmWants(y, l, v)'
    <2>1. AmRefs(y) /\ AmRefs(y)' /\ y \in AmEvent
      BY <1>1 DEF AmShape
    <2>2. PICK j : j = won[y]
      OBVIOUS
    <2>3. /\ apc[y] = "wait" /\ apc'[y] = "granted"
          /\ j \in DOMAIN hold[y] /\ hold[y][j].at = k /\ DOMAIN hold'[y] = DOMAIN hold[y]
          /\ \A m \in DOMAIN hold[y] : m # j => hold'[y][m] = hold[y][m]
          /\ hold'[y][j].at = hold[y][j].at /\ hold'[y][j].wtype = hold[y][j].wtype
          /\ hold'[y][j].atom = hold[y][j].atom /\ hold'[y][j].haveit /\ ~hold[y][j].haveit
      BY <1>1, <2>2 DEF AmPassed
    <2>4. hold[y][j].atom # AmNull
      BY <2>1, <2>2, <2>3 DEF AmRefs
    <2>5. /\ \A l, v : l # hold[y][j].at => (AmHas(y, l, v)' <=> AmHas(y, l, v))
          /\ \A l, v : l = hold[y][j].at =>
               /\ AmHas(y, l, v) <=> hold[y][j].wtype = v /\ hold[y][j].haveit /\ hold[y][j].atom # AmNull
               /\ AmHas(y, l, v)' <=> hold'[y][j].wtype = v /\ hold'[y][j].haveit /\ hold'[y][j].atom # AmNull
      BY <2>1, <2>3, AmRefChange DEF AmHasChanged
    <2>6. \A l, v : ~AmWants(y, l, v)' /\ (AmWants(y, l, v) <=> l = k /\ hold[y][j].wtype = v)
      BY <2>2, <2>3 DEF AmWants
    <2> QED
      BY <2>3, <2>4, <2>5, <2>6
  <1>6. ASSUME NEW z \in AmEvent, z \notin Y, z # x
        PROVE  \A l, v : (AmHas(z, l, v)' <=> AmHas(z, l, v)) /\ (AmWants(z, l, v)' <=> AmWants(z, l, v))
    BY <1>2, <1>6, AmHasSame, AmWantsSame
  <1>7. ASSUME NEW z \in AmEvent
        PROVE  /\ \A l, v : l # k => /\ AmHas(z, l, v)' <=> AmHas(z, l, v)
                                     /\ AmWants(z, l, v)' <=> AmWants(z, l, v)
               /\ \A v : /\ AmHas(z, k, v)' <=> (AmHas(z, k, v) /\ z # x) \/ (z \in Y /\ AmWants(z, k, v))
                         /\ AmWants(z, k, v)' <=> AmWants(z, k, v) /\ z \notin Y
    <2>1. CASE z = x
      BY <1>0, <1>4, <2>1
    <2>2. CASE z \in Y
      BY <1>1, <1>5, <2>2
    <2>3. CASE z \notin Y /\ z # x
      BY <1>6, <2>3
    <2> QED
      BY <2>1, <2>2, <2>3
  <1>8. AmPoolRefsAlone
    <2> SUFFICES ASSUME NEW y \in AmEvent
                 PROVE  /\ DOMAIN hold'[y] = DOMAIN hold[y]
                        /\ \A j \in DOMAIN hold[y] : /\ hold'[y][j].at = hold[y][j].at
                                                     /\ hold[y][j].at = AmPool => hold'[y][j] = hold[y][j]
                        /\ (apc[y] = "wait" /\ hold[y][won[y]].at = AmPool)
                             <=> (apc'[y] = "wait" /\ hold'[y][won'[y]].at = AmPool)
      BY DEF AmPoolRefsAlone
    <2>1. CASE y = x
      <3>1. \A j \in DOMAIN hold[x] : /\ hold'[x][j].at = hold[x][j].at
                                      /\ hold[x][j].at = AmPool => hold'[x][j] = hold[x][j]
        BY <1>0, <1>3
      <3> QED
        BY <1>3, <2>1, <3>1
    <2>2. CASE y \in Y
      <3>1. \A j \in DOMAIN hold[y] : /\ hold'[y][j].at = hold[y][j].at
                                      /\ hold[y][j].at = AmPool => hold'[y][j] = hold[y][j]
        BY <1>0, <1>1, <2>2 DEF AmPassed
      <3>2. /\ DOMAIN hold'[y] = DOMAIN hold[y] /\ apc'[y] = "granted" /\ hold[y][won[y]].at # AmPool
        BY <1>0, <1>1, <2>2 DEF AmPassed
      <3> QED
        BY <3>1, <3>2
    <2>3. CASE y \notin Y /\ y # x
      BY <1>2, <2>3
    <2> QED
      BY <2>1, <2>2, <2>3
  <1> QED
    BY <1>4, <1>7, <1>8 DEF AmGaveFor

\* A reference that is left is what it was.
LEMMA AmGaveRefs ==
  ASSUME NEW x \in AmEvent, NEW i, NEW Y, AmGave(x, i, Y), NEW y \in AmEvent, NEW j \in DOMAIN hold'[y],
         hold'[y][j].atom # AmNull
  PROVE  j \in DOMAIN hold[y] /\ hold[y][j].at = hold'[y][j].at /\ hold[y][j].atom = hold'[y][j].atom
  <1>1. CASE y = x
    BY <1>1 DEF AmGave
  <1>2. CASE y \in Y
    <2>1. AmPassed(y)
      BY <1>2 DEF AmGave
    <2> QED
      BY <2>1 DEF AmPassed
  <1>3. CASE y # x /\ y \notin Y
    BY <1>3 DEF AmGave
  <1> QED
    BY <1>1, <1>2, <1>3

\* Who has a reference to an atomic of the map has the atomic or waits for it.
LEMMA AmNeeds ==
  ASSUME AmTypes', AmShape', NEW y \in AmEvent, NEW j \in DOMAIN hold'[y], NEW k \in AmKey,
         hold'[y][j].at = k, hold'[y][j].atom # AmNull
  PROVE  AmHolders(k)' # {} \/ AmWaiting(k)' # {}
  <1>1. hold'[y][j] \in AmHeldType /\ j \in Nat /\ won'[y] \in Nat /\ k # AmPool
    <2>1. hold'[y] \in Seq(AmHeldType) /\ won'[y] \in Nat
      BY DEF AmTypes
    <2>2. hold'[y][j] \in AmHeldType /\ j \in Nat
      BY <2>1, ElementOfSeq
    <2> QED
      BY <2>1, <2>2, AtomicMapsAssumption
  <1>2. PICK u \in AmEntry : u.event = y /\ u.wtype = hold'[y][j].wtype
    <2>1. [event |-> y, wtype |-> hold'[y][j].wtype] \in AmEntry
      BY <1>1 DEF AmEntry, AmHeldType
    <2> QED
      BY <2>1
  <1>3. hold'[y][j].haveit \/ (apc'[y] = "wait" /\ j = won'[y])
    <2>1. AmRefs(y)'
      BY DEF AmShape
    <2> QED
      BY <1>1, <2>1 DEF AmRefs
  <1>4. CASE hold'[y][j].haveit
    <2>1. AmHas(y, k, u.wtype)'
      BY <1>2, <1>4 DEF AmHas
    <2> QED
      BY <1>2, <2>1, AmHoldersAre
  <1>5. CASE apc'[y] = "wait" /\ j = won'[y]
    <2>1. AmWants(y, k, u.wtype)'
      BY <1>2, <1>5 DEF AmWants
    <2> QED
      BY <1>2, <2>1, AmHoldersAre
  <1> QED
    BY <1>3, <1>4, <1>5

\* release of an atomic of the map.
LEMMA AmReleasesKeyed == ASSUME AmInv, NEW x \in AmEvent, ReleaseKeyed(x) PROVE AmInv'
  <1>0. AmTypes /\ AmShape /\ AmCells /\ AmDataKept /\ AmAtoms
    BY DEF AmInv
  <1> DEFINE h0 == hold[x][widx[x]]
             s0 == state[h0.atom]
  <1>1. PICK n, Y, b :
          /\ n \in 0 .. Len(s0.waiters)
          /\ IsBatch(s0, h0.wtype, h0.atom \in filled, n)
          /\ b = Released(s0, h0.wtype, n) /\ state' = [state EXCEPT ![h0.atom] = b]
          /\ Y = {s0.waiters[j].event : j \in 1 .. n} /\ Given(x, Y)
          /\ map' = IF n = 0 /\ Collectable(h0.atom) THEN [map EXCEPT ![h0.at] = AmNull] ELSE map
    <2>1. PICK n \in 0 .. Len(s0.waiters) :
            /\ IsBatch(s0, h0.wtype, h0.atom \in filled, n)
            /\ state' = [state EXCEPT ![h0.atom] = Released(s0, h0.wtype, n)]
            /\ Given(x, {s0.waiters[j].event : j \in 1 .. n})
            /\ map' = IF n = 0 /\ Collectable(h0.atom) THEN [map EXCEPT ![h0.at] = AmNull] ELSE map
      BY Zenon DEF ReleaseKeyed
    <2>2. PICK Y, b : Y = {s0.waiters[j].event : j \in 1 .. n} /\ b = Released(s0, h0.wtype, n)
      OBVIOUS
    <2>3. Given(x, Y) /\ state' = [state EXCEPT ![h0.atom] = b]
      BY <2>1, <2>2, Zenon
    <2> QED
      BY <2>1, <2>2, <2>3, Zenon
  <1>2. PICK i, k, w, a, st, q : /\ i = widx[x] /\ k = h0.at /\ w = h0.wtype /\ a = h0.atom
                                 /\ st = s0 /\ q = s0.waiters
    OBVIOUS
  <1>3. /\ Releasing(x) /\ k # AmPool /\ a # AmNull
        /\ busy' = busy /\ filled' = filled /\ UNCHANGED poolvars
        /\ i = widx[x] /\ k = hold[x][i].at /\ w = hold[x][i].wtype /\ a = hold[x][i].atom
        /\ st = state[a] /\ q = st.waiters
    BY <1>2 DEF ReleaseKeyed
  <1>4. /\ n \in 0 .. Len(q) /\ IsBatch(st, w, a \in filled, n)
        /\ b = Released(st, w, n) /\ state' = [state EXCEPT ![a] = b]
        /\ Y = {q[j].event : j \in 1 .. n} /\ Given(x, Y)
        /\ map' = IF n = 0 /\ Collectable(a) THEN [map EXCEPT ![k] = AmNull] ELSE map
    <2>1. Y = {q[j].event : j \in 1 .. n}
      BY <1>1, <1>2
    <2>2. n \in 0 .. Len(q) /\ IsBatch(st, w, a \in filled, n) /\ b = Released(st, w, n)
      BY <1>1, <1>2, Zenon
    <2>3. map' = IF n = 0 /\ Collectable(a) THEN [map EXCEPT ![k] = AmNull] ELSE map
      BY <1>1, <1>2, Zenon
    <2>4. Given(x, Y) /\ state' = [state EXCEPT ![a] = b]
      BY <1>1, <1>2, Zenon
    <2> QED
      BY <2>1, <2>2, <2>3, <2>4
  <1> HIDE DEF h0, s0
  <1>5. /\ AmRefs(x) /\ i \in DOMAIN hold[x] /\ hold[x][i] \in AmHeldType /\ hold[x][i].haveit
    <2>1. apc[x] \in {"release", "erelease"} /\ i > 0 /\ i \in Nat /\ AmRefs(x)
      BY <1>0, <1>3, AmHoldTyped DEF Releasing, AmShape
    <2>2. i \in DOMAIN hold[x] /\ i < won[x]
      BY <1>0, <1>3, <2>1, AmHoldTyped DEF AmRefs, AmHaving
    <2> QED
      BY <1>0, <2>1, <2>2, AmHoldTyped DEF AmRefs
  <1>6. k \in AmKey /\ w \in {Read, Exclusive} /\ a \in AmAtom /\ map[k] = a
    <2>1. k \in AmKey /\ w \in {Read, Exclusive}
      BY <1>3, <1>5 DEF AmHeldType
    <2>2. a \in AmAtom /\ map[k] = a
      BY <1>0, <1>3, <1>5 DEF AmAtoms, AmRefs
    <2> QED
      BY <2>1, <2>2
  <1>7. st \in AmStateType /\ AmStateOf(st, AmHolders(k), AmWaiting(k)) /\ q \in Seq(AmEntry)
        /\ DOMAIN q = 1 .. Len(q) /\ Len(q) \in Nat /\ \A j \in 1 .. Len(q) : q[j] \in AmEntry
    <2>1. st \in AmStateType
      BY <1>0, <1>3, <1>6 DEF AmTypes
    <2>2. AmAtomOf(k, a)
      BY <1>0, <1>6 DEF AmAtoms
    <2>3. AmStateOf(st, AmHolders(k), AmWaiting(k))
      <3>1. AmStateOf(state[a], AmHolders(k), AmWaiting(k)) /\ st = state[a]
        BY <1>3, <2>2, Zenon DEF AmAtomOf
      <3> QED
        BY <3>1, Zenon
    <2>4. q \in Seq(AmEntry)
      BY <1>3, <2>1 DEF AmStateType
    <2> QED
      BY <2>1, <2>3, <2>4, ElementOfSeq
  <1>8. PICK G : G = {q[j] : j \in 1 .. n} /\ Y = {q[j].event : j \in 1 .. n}
    BY <1>4
  <1>9. \A j \in 1 .. n : q[j] \in AmWaiting(k) /\ q[j] \in AmEntry
    <2>1. AmWaiting(k) = {q[j] : j \in DOMAIN q}
      <3>1. q = st.waiters /\ AmStateOf(st, AmHolders(k), AmWaiting(k))
        BY <1>3, <1>7
      <3>2. AmWaiting(k) = {st.waiters[j] : j \in DOMAIN st.waiters}
        BY <3>1, Zenon DEF AmStateOf
      <3> QED
        BY <3>1, <3>2
    <2> QED
      BY <1>4, <1>7, <2>1
  <1>10. \A u \in AmEntry : (u.event \in Y /\ AmWants(u.event, k, u.wtype)) <=> u \in G
    <2> SUFFICES ASSUME NEW u \in AmEntry PROVE (u.event \in Y /\ AmWants(u.event, k, u.wtype)) <=> u \in G
      OBVIOUS
    <2>1. ASSUME u.event \in Y, AmWants(u.event, k, u.wtype) PROVE u \in G
      <3>1. PICK j \in 1 .. n : u.event = q[j].event
        BY <1>8, <2>1
      <3>2. q[j] \in AmEntry /\ AmWants(q[j].event, k, q[j].wtype)
        BY <1>9, AmHoldersAre
      <3>3. u.wtype = q[j].wtype
        BY <2>1, <3>1, <3>2 DEF AmWants
      <3>4. u = q[j]
        BY <3>1, <3>2, <3>3 DEF AmEntry
      <3> QED
        BY <1>8, <3>4
    <2>2. ASSUME u \in G PROVE u.event \in Y /\ AmWants(u.event, k, u.wtype)
      <3>1. PICK j \in 1 .. n : u = q[j]
        BY <1>8, <2>2
      <3> QED
        BY <1>8, <1>9, <3>1, AmHoldersAre
    <2> QED
      BY <2>1, <2>2
  <1>11. Y \subseteq AmEvent /\ \A y \in Y : apc[y] = "wait" /\ hold[y][won[y]].at = k
    <2>1. ASSUME NEW y \in Y PROVE y \in AmEvent /\ apc[y] = "wait" /\ hold[y][won[y]].at = k
      <3>1. PICK j \in 1 .. n : y = q[j].event
        BY <1>8
      <3>2. q[j] \in AmEntry /\ AmWants(q[j].event, k, q[j].wtype) /\ q[j].event \in AmEvent
        BY <1>9, AmHoldersAre
      <3> QED
        BY <3>1, <3>2 DEF AmWants
    <2> QED
      BY <2>1
  <1>12. /\ AmGave(x, i, Y) /\ AmShape'
         /\ apc' \in [AmEvent -> AmPC] /\ hold' \in [AmEvent -> Seq(AmHeldType)]
         /\ won' \in [AmEvent -> Nat] /\ widx' \in [AmEvent -> Nat]
    <2> QED
      BY <1>0, <1>3, <1>4, <1>11, AmGives
  <1>13. /\ \A z \in AmEvent : \A l, v : l # k => /\ AmHas(z, l, v)' <=> AmHas(z, l, v)
                                                  /\ AmWants(z, l, v)' <=> AmWants(z, l, v)
         /\ \A z \in AmEvent : \A v : /\ AmHas(z, k, v)' <=> (AmHas(z, k, v) /\ z # x) \/ (z \in Y /\ AmWants(z, k, v))
                                      /\ AmWants(z, k, v)' <=> AmWants(z, k, v) /\ z \notin Y
         /\ \A v : AmHas(x, k, v) <=> w = v
         /\ AmPoolRefsAlone
    <2>1. hold[x][i].at = k /\ AmTypes /\ AmShape /\ AmShape' /\ AmGave(x, i, Y) /\ Y \in SUBSET AmEvent
          /\ \A y \in Y : hold[y][won[y]].at = k
      BY <1>0, <1>3, <1>11, <1>12
    <2>2. AmGaveFor(x, i, k, Y)
      BY <1>6, <2>1, AmGaveKeyed
    <2> QED
      BY <1>3, <2>2 DEF AmGaveFor
  <1>14. \A l \in AmKey : l # k => AmHolders(l)' = AmHolders(l) /\ AmWaiting(l)' = AmWaiting(l)
    <2>1. ASSUME NEW l \in AmKey, l # k
          PROVE  \A z \in AmEvent, v \in {Read, Exclusive} : /\ AmHas(z, l, v)' <=> AmHas(z, l, v)
                                                             /\ AmWants(z, l, v)' <=> AmWants(z, l, v)
      BY <1>13, <2>1
    <2> QED
      BY <2>1, AmHoldersSame, AmWaitingSame
  <1>15. PICK ent \in AmEntry : ent.event = x /\ ent.wtype = w
    <2>1. [event |-> x, wtype |-> w] \in AmEntry
      BY <1>6 DEF AmEntry
    <2> QED
      BY <2>1
  <1>16. ent \in AmHolders(k) /\ \A u \in AmHolders(k) : u.event = x <=> u = ent
    <2>1. ent \in AmHolders(k)
      BY <1>13, <1>15, AmHoldersAre
    <2>2. ASSUME NEW u \in AmHolders(k), u.event = x PROVE u = ent
      <3>1. u \in AmEntry /\ u.wtype = w
        BY <1>13, <2>2, AmHoldersAre
      <3> QED
        BY <1>15, <2>2, <3>1 DEF AmEntry
    <2> QED
      BY <1>15, <2>1, <2>2
  <1>17. AmHolders(k)' = (AmHolders(k) \ {ent}) \cup G
    <2>1. ASSUME NEW u \in AmEntry PROVE u \in AmHolders(k)' <=> (u \in AmHolders(k) /\ u # ent) \/ u \in G
      <3>1. u \in AmHolders(k)' <=> (u \in AmHolders(k) /\ u.event # x) \/ u \in G
        BY <1>10, <1>13, AmHoldersAre
      <3> QED
        BY <1>16, <3>1
    <2>2. AmHolders(k) \subseteq AmEntry /\ AmHolders(k)' \subseteq AmEntry /\ G \subseteq AmEntry
      BY <1>8, <1>9 DEF AmHolders
    <2> QED
      BY <2>1, <2>2
  <1>18. AmWaiting(k)' = AmWaiting(k) \ G
    <2>1. ASSUME NEW u \in AmEntry PROVE u \in AmWaiting(k)' <=> u \in AmWaiting(k) /\ u \notin G
      BY <1>10, <1>13, AmHoldersAre
    <2>2. AmWaiting(k) \subseteq AmEntry /\ AmWaiting(k)' \subseteq AmEntry
      BY DEF AmWaiting
    <2> QED
      BY <2>1, <2>2
  <1>20. b \in AmStateType /\ AmStateOf(b, AmHolders(k)', AmWaiting(k)')
    <2>1. PICK H \in SUBSET AmEntry : H = AmHolders(k)
      BY DEF AmHolders
    <2>2. ent \in H /\ AmStateOf(st, H, AmWaiting(k)) /\ IsBatch(st, ent.wtype, a \in filled, n) /\ n \in 0 .. Len(st.waiters)
      BY <1>3, <1>4, <1>7, <1>15, <1>16, <2>1
    <2>3. /\ AmStateOf(Released(st, ent.wtype, n), (H \ {ent}) \cup {st.waiters[j] : j \in 1 .. n},
                       AmWaiting(k) \ {st.waiters[j] : j \in 1 .. n})
          /\ Released(st, ent.wtype, n) \in AmStateType
      BY <1>7, <2>2, AmReleases
    <2>4. G = {st.waiters[j] : j \in 1 .. n} /\ b = Released(st, ent.wtype, n)
      BY <1>3, <1>4, <1>8, <1>15
    <2>5. AmStateOf(b, (H \ {ent}) \cup G, AmWaiting(k) \ G) /\ b \in AmStateType
      BY <2>3, <2>4, Zenon
    <2>6. AmHolders(k)' = (H \ {ent}) \cup G /\ AmWaiting(k)' = AmWaiting(k) \ G
      BY <1>17, <1>18, <2>1
    <2>7. PICK H2, W2 : H2 = AmHolders(k)' /\ W2 = AmWaiting(k)'
      OBVIOUS
    <2>8. H2 = (H \ {ent}) \cup G /\ W2 = AmWaiting(k) \ G
      BY <2>6, <2>7
    <2>9. AmStateOf(b, H2, W2)
      BY <2>5, <2>8, Zenon
    <2> QED
      BY <2>5, <2>7, <2>9, Zenon
  <1>21. /\ state' \in [AmAtom -> AmStateType] /\ state'[a] = b /\ \A c \in AmAtom : c # a => state'[c] = state[c]
    BY <1>0, <1>4, <1>6, <1>20 DEF AmTypes
  <1>22. \A l \in AmKey : l # k => map[l] # a
    BY <1>0, <1>3, <1>6 DEF AmAtoms
  <1>23. IsFiniteSet(AmHolders(k)') /\ b.held = Cardinality(AmHolders(k)')
         /\ AmWaiting(k)' = {b.waiters[j] : j \in DOMAIN b.waiters} /\ b.waiters \in Seq(AmEntry)
    BY <1>20 DEF AmStateOf, AmStateType
  <1>24. CASE n = 0 /\ Collectable(a)
    <2>1. map' = [map EXCEPT ![k] = AmNull] /\ b.held = 0 /\ b.waiters = <<>>
      BY <1>4, <1>21, <1>24 DEF Collectable
    <2>2. AmHolders(k)' = {} /\ AmWaiting(k)' = {}
      <3>1. Cardinality(AmHolders(k)') = 0 /\ IsFiniteSet(AmHolders(k)')
        BY <1>23, <2>1
      <3>2. AmHolders(k)' = {}
        BY <3>1, FS_EmptySet, Zenon
      <3>3. DOMAIN b.waiters = {}
        BY <2>1
      <3> QED
        BY <1>23, <3>2, <3>3
    <2>3. map' \in [AmKey -> AmAtom \cup {AmNull}] /\ map'[k] = AmNull /\ \A l \in AmKey : l # k => map'[l] = map[l]
      BY <1>0, <1>6, <2>1 DEF AmTypes
    <2>4. AmTypes'
      BY <1>0, <1>3, <1>12, <1>21, <2>3 DEF AmTypes, poolvars, listvars
    <2>5. AmFound'
      <3> SUFFICES ASSUME NEW y \in AmEvent, NEW j \in DOMAIN hold'[y],
                          hold'[y][j].at # AmPool, hold'[y][j].atom # AmNull
                   PROVE  hold'[y][j].atom = map'[hold'[y][j].at]
        BY DEF AmFound
      <3>1. j \in DOMAIN hold[y] /\ hold[y][j].at = hold'[y][j].at /\ hold[y][j].atom = hold'[y][j].atom
            /\ hold[y][j].at \in AmKey
        <4>4. j \in DOMAIN hold[y] /\ hold[y][j].at = hold'[y][j].at /\ hold[y][j].atom = hold'[y][j].atom
          BY <1>12, AmGaveRefs
        <4>5. hold[y][j] \in AmHeldType
          BY <1>0, <4>4, AmHoldTyped
        <4> QED
          BY <4>4, <4>5 DEF AmHeldType
      <3>2. hold'[y][j].at # k
        BY <1>6, <1>12, <2>2, <2>4, AmNeeds
      <3> QED
        BY <1>0, <2>3, <3>1, <3>2 DEF AmAtoms
    <2>6. AmAtoms'
      BY <1>0, <1>3, <1>6, <1>14, <1>21, <1>22, <2>2, <2>3, <2>5, AmOneKey
    <2>7. AmCells' /\ AmDataKept'
      BY <1>0, <1>3, <1>13, AmPoolRelations, AmPoolAlone
    <2> QED
      BY <1>12, <2>4, <2>6, <2>7 DEF AmInv
  <1>25. CASE ~(n = 0 /\ Collectable(a))
    <2>1. map' = map
      BY <1>4, <1>25
    <2>2. a \in filled \/ AmHolders(k)' # {} \/ AmWaiting(k)' # {}
      <3>1. CASE n = 0
        <4>1. ~(b.waiters = <<>> /\ b.held = 0 /\ a \notin filled)
          BY <1>21, <1>25, <3>1 DEF Collectable
        <4>2. ASSUME AmWaiting(k)' = {} PROVE b.waiters = <<>>
          <5>1. DOMAIN b.waiters = {}
            BY <1>23, <4>2
          <5>2. PICK r \in Seq(AmEntry) : r = b.waiters
            BY <1>23
          <5>3. DOMAIN r = {}
            BY <5>1, <5>2, Zenon
          <5>4. ASSUME r # <<>> PROVE FALSE
            <6>1. Len(r) \in Nat \ {0}
              BY <5>4, EmptySeq
            <6>2. 1 \in DOMAIN r
              BY <6>1
            <6> QED
              BY <5>3, <6>2
          <5> QED
            BY <5>2, <5>4, Zenon
        <4>3. ASSUME AmHolders(k)' = {} PROVE b.held = 0
          BY <1>23, <4>3, FS_EmptySet
        <4> QED
          BY <4>1, <4>2, <4>3
      <3>2. CASE n # 0
        <4>1. q[1] \in G
          BY <1>4, <1>7, <1>8, <3>2
        <4> QED
          BY <1>17, <4>1
      <3> QED
        BY <3>1, <3>2
    <2>3. AmAtomOf(k, a)'
      <3>1. PICK s2, H2, W2 : s2 = state'[a] /\ H2 = AmHolders(k)' /\ W2 = AmWaiting(k)'
        OBVIOUS
      <3>2. AmStateOf(b, H2, W2) /\ s2 = b
        BY <1>20, <1>21, <3>1, Zenon
      <3>3. AmStateOf(s2, H2, W2)
        BY <3>2, Zenon
      <3>4. a \in filled' \/ H2 # {} \/ W2 # {}
        BY <1>3, <2>2, <3>1
      <3> QED
        BY <3>1, <3>3, <3>4, Zenon DEF AmAtomOf
    <2>4. AmTypes'
      BY <1>0, <1>3, <1>12, <1>21, <2>1 DEF AmTypes, poolvars, listvars
    <2>5. AmFound'
      <3> SUFFICES ASSUME NEW y \in AmEvent, NEW j \in DOMAIN hold'[y],
                          hold'[y][j].at # AmPool, hold'[y][j].atom # AmNull
                   PROVE  hold'[y][j].atom = map[hold'[y][j].at]
        BY <2>1 DEF AmFound
      <3>2. j \in DOMAIN hold[y] /\ hold[y][j].at = hold'[y][j].at /\ hold[y][j].atom = hold'[y][j].atom
        BY <1>12, AmGaveRefs
      <3> QED
        BY <1>0, <3>2 DEF AmAtoms
    <2>6. \A l \in AmKey : l # k => map'[l] = map[l] /\ map[l] # a
      BY <1>22, <2>1
    <2>7. map'[k] = a
      BY <1>6, <2>1
    <2>8. AmAtoms'
      BY <1>0, <1>3, <1>6, <1>14, <1>21, <2>3, <2>5, <2>6, <2>7, AmOneKey
    <2>9. AmCells' /\ AmDataKept'
      BY <1>0, <1>3, <1>13, AmPoolRelations, AmPoolAlone
    <2> QED
      BY <1>12, <2>4, <2>8, <2>9 DEF AmInv
  <1> QED
    BY <1>24, <1>25

-----------------------------------------------------------------------------
\* Every step keeps the invariant.
LEMMA AmNextInv == AmInv /\ [AmNext]_amvars => AmInv'
  <1> SUFFICES ASSUME AmInv, [AmNext]_amvars PROVE AmInv'
    OBVIOUS
  <1>1. CASE UNCHANGED amvars
    <2>0. AmTypes /\ AmShape /\ AmCells /\ AmDataKept /\ AmAtoms
      BY DEF AmInv
    <2>1. apc' = apc /\ hold' = hold /\ won' = won /\ widx' = widx /\ UNCHANGED poolvars /\ UNCHANGED mapvars
      BY <1>1 DEF amvars, eventvars
    <2>2. AmTypes'
      BY <2>0, <2>1 DEF AmTypes, poolvars, listvars, mapvars
    <2>3. AmShape'
      BY <2>0, <2>1, AmRefsSame DEF AmShape
    <2>4. AmQuiet
      BY <2>1 DEF AmQuiet
    <2>5. AmFound'
      BY <2>0, <2>1 DEF AmFound, AmAtoms, mapvars
    <2> QED
      BY <2>0, <2>1, <2>2, <2>3, <2>4, <2>5, AmQuietRelations, AmPoolAlone, AmMapAlone DEF AmInv
  <1>2. CASE AmNext
    <2> SUFFICES ASSUME NEW x \in AmEvent,
                        \/ Key(x) \/ AcquireData(x) \/ AcquireKeyed(x) \/ HaveAll(x)
                        \/ Run(x) \/ Fill(x) \/ ReleaseEarly(x) \/ Succeed(x) \/ StartRelease(x)
                        \/ ReleaseData(x) \/ ReleaseKeyed(x) \/ SkipReleased(x) \/ AllReleased(x) \/ Handled(x)
                 PROVE  AmInv'
      BY <1>2 DEF AmNext
    <2>1. CASE Key(x)
      BY <2>1, AmKeys
    <2>2. CASE AcquireData(x)
      <3>1. CASE dq = <<>>
        BY <2>2, <3>1, AmWaitsForData
      <3>2. CASE dq # <<>>
        BY <2>2, <3>2, AmGetsData
      <3> QED
        BY <3>1, <3>2
    <2>3. CASE AcquireKeyed(x)
      BY <2>3, AmAcquiresKeyed
    <2>4. CASE \/ HaveAll(x) \/ Run(x) \/ ReleaseEarly(x) \/ StartRelease(x) \/ SkipReleased(x) \/ AllReleased(x)
      BY <2>4, AmMoves
    <2>5. CASE Fill(x)
      BY <2>5, AmFills
    <2>6. CASE Succeed(x)
      BY <2>6, AmSucceeds
    <2>7. CASE ReleaseData(x)
      BY <2>7, AmReleasesData
    <2>8. CASE ReleaseKeyed(x)
      BY <2>8, AmReleasesKeyed
    <2>9. CASE Handled(x)
      BY <2>9, AmEnds
    <2> QED
      BY <2>1, <2>2, <2>3, <2>4, <2>5, <2>6, <2>7, <2>8, <2>9
  <1> QED
    BY <1>1, <1>2

\* The order in which the data is found in _dq at first.
LEMMA AmOrder ==
  ASSUME NEW q \in Orders(AmData)
  PROVE  /\ q \in Seq(AmData)
         /\ \A i, j \in DOMAIN q : q[i] = q[j] => i = j
         /\ \A d \in AmData : \E i \in DOMAIN q : q[i] = d
  <1>1. PICK n : n = Cardinality(AmData)
    OBVIOUS
  <1>2. IsFiniteSet(AmData) /\ n \in Nat
    BY <1>1, FS_CardinalityType, AtomicMapsAssumption
  <1>3. q \in [1 .. n -> AmData] /\ \A i, j \in 1 .. n : q[i] = q[j] => i = j
    BY <1>1 DEF Orders
  <1>4. q \in Injection(1 .. n, AmData)
    BY <1>3 DEF Injection, IsInjective
  <1>5. Cardinality(1 .. n) = n
    BY <1>2, FS_Interval
  <1>6. q \in Surjection(1 .. n, AmData)
    BY <1>1, <1>2, <1>4, <1>5, FS_Injection
  <1>7. \A d \in AmData : \E i \in 1 .. n : q[i] = d
    BY <1>6 DEF Surjection
  <1> QED
    BY <1>2, <1>3, <1>7

\* The cells that were made for it are on the free list, the last one first.
LEMMA AmPopulated ==
  ASSUME NEW n \in Nat, NEW cells \in [1 .. n -> AmCell], \A i, j \in 1 .. n : cells[i] = cells[j] => i = j,
         Populated(cells)
  PROVE  /\ apNext \in [AmCell -> AmCell \cup {AmNull}] /\ apData = [c \in AmCell |-> AmNull] /\ made \subseteq AmCell
         /\ \E s \in Seq(AmCell) : AmOnList(s, made)
  <1>0. AmNull \notin AmCell
    BY AtomicMapsAssumption
  <1>1. cells \in Seq(AmCell) /\ Len(cells) = n
    OBVIOUS
  <1>2. /\ apNext = [c \in AmCell |->
                     IF \E i \in 2 .. n : cells[i] = c
                     THEN cells[(CHOOSE i \in 2 .. n : cells[i] = c) - 1] ELSE AmNull]
        /\ apList = IF n = 0 THEN AmNull ELSE cells[n]
        /\ apLast = IF n = 0 THEN AmNull ELSE cells[1]
        /\ apData = [c \in AmCell |-> AmNull]
        /\ made = {cells[i] : i \in 1 .. n}
    BY <1>1 DEF Populated
  <1>3. \A i \in 2 .. n : apNext[cells[i]] = cells[i - 1]
    <2> SUFFICES ASSUME NEW i \in 2 .. n PROVE apNext[cells[i]] = cells[i - 1]
      OBVIOUS
    <2>1. PICK m : m = CHOOSE j \in 2 .. n : cells[j] = cells[i]
      OBVIOUS
    <2>2. m \in 2 .. n /\ cells[m] = cells[i]
      BY <2>1
    <2>3. m = i /\ cells[i] \in AmCell
      BY <2>2
    <2>4. apNext[cells[i]] = cells[(CHOOSE j \in 2 .. n : cells[j] = cells[i]) - 1]
      BY <1>2, <2>3
    <2> QED
      BY <2>1, <2>3, <2>4
  <1>4. \A c \in AmCell : (\A i \in 2 .. n : cells[i] # c) => apNext[c] = AmNull
    BY <1>2
  <1>5. apNext \in [AmCell -> AmCell \cup {AmNull}]
    <2>1. \A c \in AmCell : apNext[c] \in AmCell \cup {AmNull}
      <3> SUFFICES ASSUME NEW c \in AmCell PROVE apNext[c] \in AmCell \cup {AmNull}
        OBVIOUS
      <3>1. CASE \A i \in 2 .. n : cells[i] # c
        BY <1>4, <3>1
      <3>2. ASSUME NEW i \in 2 .. n, cells[i] = c PROVE apNext[c] \in AmCell
        BY <1>3, <3>2
      <3> QED
        BY <3>1, <3>2
    <2>2. apNext = [c \in AmCell |-> apNext[c]]
      BY <1>2
    <2> QED
      BY <2>1, <2>2
  <1>6. PICK s : s = [i \in 1 .. n |-> cells[n + 1 - i]]
    OBVIOUS
  <1>7. /\ s \in Seq(AmCell) /\ Len(s) = n /\ DOMAIN s = 1 .. n
        /\ \A i \in 1 .. n : s[i] = cells[n + 1 - i] /\ n + 1 - i \in 1 .. n
    <2>1. \A i \in 1 .. n : n + 1 - i \in 1 .. n
      OBVIOUS
    <2> QED
      BY <1>6, <2>1
  <1>8. made = {s[i] : i \in DOMAIN s}
    <2>1. \A i \in 1 .. n : n + 1 - i \in 1 .. n /\ s[n + 1 - i] = cells[i]
      <3> SUFFICES ASSUME NEW i \in 1 .. n PROVE n + 1 - i \in 1 .. n /\ s[n + 1 - i] = cells[i]
        OBVIOUS
      <3>1. n + 1 - i \in 1 .. n /\ n + 1 - (n + 1 - i) = i
        OBVIOUS
      <3> QED
        BY <1>7, <3>1
    <2>2. \A c : c \in made <=> \E i \in 1 .. n : cells[i] = c
      BY <1>2
    <2>3. \A c : (\E i \in 1 .. n : cells[i] = c) <=> (\E i \in 1 .. n : s[i] = c)
      BY <1>7, <2>1
    <2> QED
      BY <1>7, <2>2, <2>3
  <1>9. \A i, j \in 1 .. n : s[i] = s[j] => i = j
    <2> SUFFICES ASSUME NEW i \in 1 .. n, NEW j \in 1 .. n, s[i] = s[j] PROVE i = j
      OBVIOUS
    <2>1. n + 1 - i = n + 1 - j
      BY <1>7
    <2> QED
      BY <2>1
  <1>10. \A c \in AmCell \ made : apNext[c] = AmNull
    BY <1>2, <1>4
  <1>11. \A i \in 1 .. (n - 1) : apNext[s[i]] = s[i + 1]
    <2> SUFFICES ASSUME NEW i \in 1 .. (n - 1) PROVE apNext[s[i]] = s[i + 1]
      OBVIOUS
    <2>1. /\ i \in 1 .. n /\ i + 1 \in 1 .. n /\ n + 1 - i \in 2 .. n
          /\ (n + 1 - i) - 1 = n + 1 - (i + 1)
      OBVIOUS
    <2>2. s[i] = cells[n + 1 - i] /\ s[i + 1] = cells[n + 1 - (i + 1)]
      BY <1>7, <2>1
    <2>3. apNext[cells[n + 1 - i]] = cells[(n + 1 - i) - 1]
      BY <1>3, <2>1
    <2> QED
      BY <2>1, <2>2, <2>3
  <1>12. n > 0 => s[1] = apList /\ s[n] = apLast /\ apNext[apLast] = AmNull
    <2> SUFFICES ASSUME n > 0 PROVE s[1] = apList /\ s[n] = apLast /\ apNext[apLast] = AmNull
      OBVIOUS
    <2>1. s[1] = cells[n] /\ s[n] = cells[1] /\ 1 \in 1 .. n
      <3>1. 1 \in 1 .. n /\ n \in 1 .. n /\ n + 1 - 1 = n /\ n + 1 - n = 1
        OBVIOUS
      <3> QED
        BY <1>7, <3>1
    <2>2. \A i \in 2 .. n : cells[i] # cells[1]
      BY <2>1
    <2> QED
      BY <1>2, <1>4, <2>1, <2>2
  <1>13. CellOnList(s)
    BY <1>2, <1>7, <1>11, <1>12 DEF CellOnList
  <1>14. AmOnList(s, made)
    BY <1>7, <1>8, <1>9, <1>10, <1>13 DEF AmOnList
  <1>15. made \subseteq AmCell
    BY <1>2
  <1>16. \E t1 \in Seq(AmCell) : AmOnList(t1, made)
    BY <1>7, <1>14
  <1> QED
    BY <1>2, <1>5, <1>15, <1>16

\* It holds at first.
LEMMA AmInitInv == AmInit => AmInv
  <1> SUFFICES ASSUME AmInit PROVE AmInv
    OBVIOUS
  <1>0. AmNull \notin AmCell /\ AmNull \notin AmData /\ AmNull \notin AmAtom /\ AmPool \notin AmKey
    BY AtomicMapsAssumption
  <1>1. /\ dq \in Seq(AmData) /\ pq = <<>>
        /\ \A i, j \in DOMAIN dq : dq[i] = dq[j] => i = j
        /\ \A d \in AmData : \E i \in DOMAIN dq : dq[i] = d
        /\ \A i \in DOMAIN dq : dq[i] \in AmData
    BY AmOrder, ElementOfSeq DEF AmInit
  <1>2. /\ apNext \in [AmCell -> AmCell \cup {AmNull}] /\ apData = [c \in AmCell |-> AmNull] /\ made \subseteq AmCell
        /\ \E s \in Seq(AmCell) : AmOnList(s, made)
    <2>1. PICK n \in Nat : DOMAIN dq = 1 .. n
      BY <1>1
    <2>2. PICK cells \in [1 .. n -> AmCell] : (\A i, j \in 1 .. n : cells[i] = cells[j] => i = j) /\ Populated(cells)
      BY <2>1 DEF AmInit
    <2> QED
      BY <2>2, AmPopulated
  <1>3. /\ map = [k \in AmKey |-> AmNull] /\ state = [a \in AmAtom |-> NewAtomic]
        /\ won = [x \in AmEvent |-> 1] /\ widx = [x \in AmEvent |-> 0]
    BY DEF AmInit
  <1>4. PICK b \in AmEvent, S \in SUBSET AmEvent : b \notin S /\ \E f \in [S -> AmPlan] :
          /\ busy = b
          /\ apc = [x \in AmEvent |-> IF x = b THEN "reacquire" ELSE IF x \in S THEN "key" ELSE "none"]
          /\ hold = [x \in AmEvent |-> IF x \in S THEN Build(f[x]) ELSE <<>>]
    BY DEF AmInit
  <1>5. PICK f \in [S -> AmPlan] :
          /\ apc = [x \in AmEvent |-> IF x = b THEN "reacquire" ELSE IF x \in S THEN "key" ELSE "none"]
          /\ hold = [x \in AmEvent |-> IF x \in S THEN Build(f[x]) ELSE <<>>]
    BY <1>4
  <1>6. \A x \in AmEvent : /\ apc[x] \in {"reacquire", "key", "none"} /\ hold[x] \in Seq(AmHeldType)
                           /\ apc[x] # "key" => hold[x] = <<>>
                           /\ \A i \in DOMAIN hold[x] : hold[x][i].atom = AmNull /\ hold[x][i].haveit = FALSE
                           /\ \A i, j \in DOMAIN hold[x] : hold[x][i].at = hold[x][j].at => i = j
    <2> SUFFICES ASSUME NEW x \in AmEvent
                 PROVE  /\ apc[x] \in {"reacquire", "key", "none"} /\ hold[x] \in Seq(AmHeldType)
                        /\ apc[x] # "key" => hold[x] = <<>>
                        /\ \A i \in DOMAIN hold[x] : hold[x][i].atom = AmNull /\ hold[x][i].haveit = FALSE
                        /\ \A i, j \in DOMAIN hold[x] : hold[x][i].at = hold[x][j].at => i = j
      OBVIOUS
    <2>1. CASE x \in S
      <3>3. f[x] \in AmPlan
        BY <2>1
      <3>4. hold[x] = IF x \in S THEN Build(f[x]) ELSE <<>>
        BY <1>5
      <3>0. f[x] \in AmPlan /\ hold[x] = Build(f[x])
        BY <2>1, <3>3, <3>4
      <3>1. PICK p \in AmPlan : p = f[x] /\ hold[x] = Build(p)
        BY <3>0
      <3>2. apc[x] = "key"
        <4>1. apc[x] = IF x = b THEN "reacquire" ELSE IF x \in S THEN "key" ELSE "none"
          BY <1>5
        <4>2. b \notin S
          BY <1>4
        <4> QED
          BY <2>1, <4>1, <4>2
      <3> QED
        BY <3>1, <3>2, AmBuild
    <2>2. CASE x \notin S
      <3>1. hold[x] = <<>> /\ apc[x] \in {"reacquire", "none"}
        BY <1>5, <2>2
      <3> QED
        BY <3>1, EmptySeq
    <2> QED
      BY <2>1, <2>2
  <1>7. AmTypes
    <2>1. apc \in [AmEvent -> AmPC] /\ hold \in [AmEvent -> Seq(AmHeldType)]
      <3>1. apc = [x \in AmEvent |-> apc[x]] /\ hold = [x \in AmEvent |-> hold[x]]
        BY <1>5
      <3>2. \A x \in AmEvent : apc[x] \in AmPC /\ hold[x] \in Seq(AmHeldType)
        BY <1>6 DEF AmPC
      <3> QED
        BY <3>1, <3>2
    <2>2. won \in [AmEvent -> Nat] /\ widx \in [AmEvent -> Nat] /\ map \in [AmKey -> AmAtom \cup {AmNull}]
          /\ state \in [AmAtom -> AmStateType]
      BY <1>3, AmNewState
    <2>3. apData \in [AmCell -> AmData \cup {AmNull}] /\ pq \in Seq(AmEvent)
      BY <1>1, <1>2, EmptySeq
    <2> QED
      BY <1>1, <1>2, <2>1, <2>2, <2>3 DEF AmTypes
  <1>8. AmShape
    <2> SUFFICES ASSUME NEW x \in AmEvent PROVE AmRefs(x)
      BY DEF AmShape
    <2>1. won[x] = 1 /\ widx[x] = 0 /\ hold[x] \in Seq(AmHeldType)
      BY <1>3, <1>6
    <2>2. PICK m \in Nat : Len(hold[x]) = m /\ DOMAIN hold[x] = 1 .. m
      BY <2>1
    <2>3. \A i \in DOMAIN hold[x] : /\ hold[x][i].atom = AmNull /\ ~hold[x][i].haveit
                                   /\ ~(i < won[x])
      <3>1. \A i \in DOMAIN hold[x] : ~(i < 1)
        BY <2>2
      <3> QED
        BY <1>6, <2>1, <3>1
    <2>4. apc[x] \in {"reacquire", "key", "none"} /\ (apc[x] # "key" => hold[x] = <<>>)
      BY <1>6
    <2>5. apc[x] \notin AmHaving \/ DOMAIN hold[x] = {}
      BY <2>4 DEF AmHaving
    <2>6. \A i, j \in DOMAIN hold[x] : hold[x][i].at = hold[x][j].at => i = j
      BY <1>6
    <2> QED
      BY <2>1, <2>2, <2>3, <2>4, <2>5, <2>6 DEF AmRefs
  <1>9. \A x \in AmEvent, c \in AmCell : ~AmUses(x, c) /\ ~AmGets(x, c)
    BY <1>0, <1>6 DEF AmUses, AmGets
  <1>10. AmInUse = {} /\ AmGot = {}
    BY <1>9 DEF AmInUse, AmGot
  <1>11. AmCells
    <2>1. \E s \in Seq(AmCell) : AmOnList(s, made \ AmInUse)
      BY <1>2, <1>10
    <2> QED
      BY <1>2, <1>9, <1>10, <2>1 DEF AmCells
  <1>12. AmDataKept
    <2>1. \A c \in AmCell : apData[c] = AmNull
      BY <1>2
    <2>2. AmDataIn(AmGot)
      BY <1>0, <1>1, <1>10, <2>1 DEF AmDataIn
    <2> QED
      BY <1>1, <2>2 DEF AmDataKept
  <1>13. AmAtoms
    <2>1. \A k \in AmKey : AmHolders(k) = {} /\ AmWaiting(k) = {}
      <3>1. \A u \in AmEntry : u.event \in AmEvent
        BY DEF AmEntry
      <3>2. \A k, u : u \notin AmHolders(k) /\ u \notin AmWaiting(k)
        BY <1>6, <3>1 DEF AmHolders, AmWaiting
      <3> QED
        BY <3>2
    <2>2. \A k \in AmKey : map[k] = AmNull
      BY <1>3
    <2>3. \A x \in AmEvent : \A i \in DOMAIN hold[x] : hold[x][i].atom = AmNull
      BY <1>6
    <2> QED
      BY <1>0, <2>1, <2>2, <2>3 DEF AmAtoms
  <1> QED
    BY <1>7, <1>8, <1>11, <1>12, <1>13 DEF AmInv

-----------------------------------------------------------------------------
\* An event's references, as AtomicMaps states them.
LEMMA AmHeldOf ==
  ASSUME AmTypes
  PROVE  /\ \A x \in AmEvent : \A i \in DOMAIN hold[x] : hold[x][i] \in HeldAtomics
         /\ \A h0 \in HeldAtomics : \E x \in AmEvent : \E i \in DOMAIN hold[x] : hold[x][i] = h0
  BY DEF HeldAtomics

\* The cells that events have, and those of them that have data.
LEMMA AmCellsOf ==
  ASSUME AmTypes, AmShape
  PROVE  /\ {g.atom : g \in {h0 \in HeldAtomics : h0.at = AmPool}} \ {AmNull} = AmInUse
         /\ {g.atom : g \in {h0 \in HeldAtomics : h0.at = AmPool /\ h0.haveit}} \ {AmNull} = AmGot
  <1>0. AmNull \notin AmCell
    BY AtomicMapsAssumption
  <1>1. \A x \in AmEvent : \A i \in DOMAIN hold[x] :
          hold[x][i].at = AmPool => hold[x][i].atom \in AmCell \cup {AmNull}
    BY DEF AmShape, AmRefs
  <1>2. \A c : c \in AmInUse <=> (c # AmNull /\ \E h0 \in HeldAtomics : h0.at = AmPool /\ h0.atom = c)
    <2> SUFFICES ASSUME NEW c
                 PROVE  c \in AmInUse <=> (c # AmNull /\ \E h0 \in HeldAtomics : h0.at = AmPool /\ h0.atom = c)
      OBVIOUS
    <2>1. c \in AmInUse <=> c \in AmCell /\ \E x \in AmEvent : \E i \in DOMAIN hold[x] : hold[x][i].at = AmPool /\ hold[x][i].atom = c
      BY DEF AmInUse, AmUses
    <2>2. (\E h0 \in HeldAtomics : h0.at = AmPool /\ h0.atom = c)
            <=> (\E x \in AmEvent : \E i \in DOMAIN hold[x] : hold[x][i].at = AmPool /\ hold[x][i].atom = c)
      BY AmHeldOf
    <2> QED
      BY <1>0, <1>1, <2>1, <2>2
  <1>3. \A c : c \in AmGot <=> (c # AmNull /\ \E h0 \in HeldAtomics : h0.at = AmPool /\ h0.haveit /\ h0.atom = c)
    <2> SUFFICES ASSUME NEW c
                 PROVE  c \in AmGot <=> (c # AmNull /\ \E h0 \in HeldAtomics : h0.at = AmPool /\ h0.haveit /\ h0.atom = c)
      OBVIOUS
    <2>1. c \in AmGot <=> c \in AmCell /\ \E x \in AmEvent : \E i \in DOMAIN hold[x] :
                            hold[x][i].at = AmPool /\ hold[x][i].atom = c /\ hold[x][i].haveit
      BY DEF AmGot, AmGets
    <2>2. (\E h0 \in HeldAtomics : h0.at = AmPool /\ h0.haveit /\ h0.atom = c)
            <=> (\E x \in AmEvent : \E i \in DOMAIN hold[x] :
                   hold[x][i].at = AmPool /\ hold[x][i].atom = c /\ hold[x][i].haveit)
      BY AmHeldOf
    <2> QED
      BY <1>0, <1>1, <2>1, <2>2
  <1>4. {g.atom : g \in {h0 \in HeldAtomics : h0.at = AmPool}} \ {AmNull} = AmInUse
    BY <1>2
  <1>5. {g.atom : g \in {h0 \in HeldAtomics : h0.at = AmPool /\ h0.haveit}} \ {AmNull} = AmGot
    BY <1>3
  <1> QED
    BY <1>4, <1>5

\* A sequence that has each element of a set once is one of its orders.
LEMMA AmIsOrder ==
  ASSUME NEW s \in Seq(AmCell), NEW S, S = {s[i] : i \in DOMAIN s},
         \A i, j \in DOMAIN s : s[i] = s[j] => i = j
  PROVE  s \in Orders(S)
  <1>1. PICK n \in Nat : n = Len(s) /\ DOMAIN s = 1 .. n
    OBVIOUS
  <1>2. s \in [1 .. n -> S]
    BY <1>1
  <1>3. s \in Bijection(1 .. n, S)
    BY <1>1, <1>2 DEF Bijection, Injection, Surjection, IsInjective
  <1>4. ExistsBijection(1 .. n, S)
    BY <1>3 DEF ExistsBijection
  <1>5. Cardinality(S) = n
    BY <1>1, <1>4, FS_CountingElements
  <1> QED
    BY <1>1, <1>2, <1>5 DEF Orders

\* Data of the pool is in one place.
LEMMA AmOnePlace ==
  ASSUME AmTypes, AmCells, AmDataKept, NEW d \in AmData
  PROVE  Cardinality({i \in DOMAIN dq : dq[i] = d}) + Cardinality({c \in AmGot : apData[c] = d}) = 1
  <1>0. AmNull \notin AmData
    BY AtomicMapsAssumption
  <1>1. AmDataIn(AmGot) /\ AmGot \subseteq AmCell
    BY DEF AmDataKept, AmGot
  <1>2. CASE \E i \in DOMAIN dq : dq[i] = d
    <2>1. PICK i \in DOMAIN dq : dq[i] = d
      BY <1>2
    <2>2. {j \in DOMAIN dq : dq[j] = d} = {i}
      BY <1>1, <2>1 DEF AmDataIn
    <2>3. {c \in AmGot : apData[c] = d} = {}
      BY <1>1, <2>1 DEF AmDataIn
    <2>4. Cardinality({j \in DOMAIN dq : dq[j] = d}) = 1
      BY <2>2, FS_Singleton
    <2>5. Cardinality({c \in AmGot : apData[c] = d}) = 0
      BY <2>3, FS_EmptySet
    <2> QED
      BY <2>4, <2>5
  <1>3. CASE ~\E i \in DOMAIN dq : dq[i] = d
    <2>1. PICK c \in AmCell : apData[c] = d
      BY <1>1, <1>3 DEF AmDataIn
    <2>2. c \in AmGot
      BY <1>0, <1>1, <2>1 DEF AmDataIn
    <2>3. {ent \in AmGot : apData[ent] = d} = {c}
      BY <1>0, <1>1, <2>1, <2>2 DEF AmDataIn
    <2>4. {j \in DOMAIN dq : dq[j] = d} = {}
      BY <1>3
    <2>5. Cardinality({ent \in AmGot : apData[ent] = d}) = 1
      BY <2>3, FS_Singleton
    <2>6. Cardinality({j \in DOMAIN dq : dq[j] = d}) = 0
      BY <2>4, FS_EmptySet
    <2> QED
      BY <2>5, <2>6
  <1> QED
    BY <1>2, <1>3

\* It says what AtomicMaps promises of the pool,
LEMMA AmKeepsPool == AmInv => PoolIsKept
  <1> SUFFICES ASSUME AmInv PROVE PoolIsKept
    OBVIOUS
  <1>0. AmTypes /\ AmShape /\ AmCells /\ AmDataKept
    BY DEF AmInv
  <1> DEFINE cellsUsed == {hd.atom : hd \in {g \in HeldAtomics : g.at = AmPool}} \ {AmNull}
             full  == {c \in made : apData[c] # AmNull}
             got   == {hd.atom : hd \in {g \in HeldAtomics : g.at = AmPool /\ g.haveit}} \ {AmNull}
  <1>1. cellsUsed = AmInUse /\ got = AmGot
    BY <1>0, AmCellsOf
  <1>2. AmGot \subseteq AmInUse /\ AmInUse \subseteq made /\ made \subseteq AmCell
    BY <1>0 DEF AmCells, AmGot, AmInUse, AmGets, AmUses
  <1>3. full = AmGot
    BY <1>0, <1>2 DEF AmDataKept, AmDataIn
  <1>4. \E s \in Orders(made \ cellsUsed) : CellOnList(s)
    <2>1. PICK s \in Seq(AmCell) : AmOnList(s, made \ AmInUse)
      BY <1>0 DEF AmCells
    <2>2. PICK S : S = made \ AmInUse
      OBVIOUS
    <2>3. S = {s[i] : i \in DOMAIN s} /\ (\A i, j \in DOMAIN s : s[i] = s[j] => i = j) /\ CellOnList(s)
      BY <2>1, <2>2 DEF AmOnList
    <2>4. s \in Orders(S)
      BY <2>3, AmIsOrder
    <2> QED
      BY <1>1, <2>2, <2>3, <2>4
  <1>5. \A d \in AmData : Cardinality({i \in DOMAIN dq : dq[i] = d}) + Cardinality({c \in full : apData[c] = d}) = 1
    BY <1>0, <1>3, AmOnePlace
  <1>6. pq # <<>> => dq = <<>>
    BY <1>0 DEF AmDataKept
  <1> HIDE DEF cellsUsed, full, got
  <1> QED
    BY <1>1, <1>3, <1>4, <1>5, <1>6 DEF PoolIsKept, cellsUsed, full, got

\* and of the map.
LEMMA AmCollects == AmInv => CollectedInTime
  <1> SUFFICES ASSUME AmInv PROVE CollectedInTime
    OBVIOUS
  <1>0. AmTypes /\ AmShape /\ AmAtoms
    BY DEF AmInv
  <1>1. \A h0 \in HeldAtomics : h0.at # AmPool /\ h0.atom # AmNull => h0.atom = map[h0.at]
    BY <1>0, AmHeldOf DEF AmAtoms
  <1>2. ASSUME NEW a \in Alive, a \notin filled
        PROVE  \E h0 \in HeldAtomics : h0.at # AmPool /\ h0.atom # AmNull /\ h0.atom = a
    <2>1. PICK k \in AmKey : map[k] = a /\ a # AmNull
      BY DEF Alive
    <2>2. a \in AmAtom /\ k # AmPool
      BY <1>0, <2>1, AtomicMapsAssumption DEF AmTypes
    <2>3. AmHolders(k) # {} \/ AmWaiting(k) # {}
      BY <1>0, <1>2, <2>1, <2>2 DEF AmAtoms, AmAtomOf
    <2>4. \E x \in AmEvent : \E i \in DOMAIN hold[x] : hold[x][i].at = k /\ hold[x][i].atom # AmNull
      <3>1. ASSUME NEW u \in AmHolders(k) PROVE \E i \in DOMAIN hold[u.event] : hold[u.event][i].at = k /\ hold[u.event][i].atom # AmNull
        BY DEF AmHolders
      <3>2. ASSUME NEW u \in AmWaiting(k)
            PROVE  /\ won[u.event] \in DOMAIN hold[u.event] /\ hold[u.event][won[u.event]].at = k
                   /\ hold[u.event][won[u.event]].atom # AmNull
        <4>1. u.event \in AmEvent /\ apc[u.event] = "wait" /\ hold[u.event][won[u.event]].at = k
          BY DEF AmWaiting, AmEntry
        <4>2. AmRefs(u.event)
          BY <1>0, <4>1 DEF AmShape
        <4> QED
          BY <4>1, <4>2 DEF AmRefs
      <3>3. \A u : u \in AmHolders(k) \/ u \in AmWaiting(k) => u.event \in AmEvent
        BY DEF AmHolders, AmWaiting, AmEntry
      <3> QED
        BY <2>3, <3>1, <3>2, <3>3
    <2>7. PICK x \in AmEvent : \E i \in DOMAIN hold[x] : hold[x][i].at = k /\ hold[x][i].atom # AmNull
      BY <2>4
    <2>5. PICK i \in DOMAIN hold[x] : hold[x][i].at = k /\ hold[x][i].atom # AmNull
      BY <2>7
    <2>6. hold[x][i].atom = a
      BY <1>0, <2>1, <2>2, <2>5 DEF AmAtoms
    <2> QED
      BY <1>0, <2>2, <2>5, <2>6, AmHeldOf
  <1> DEFINE keyed == {hd \in HeldAtomics : hd.at # AmPool /\ hd.atom # AmNull}
  <1>3. \A hd \in keyed : hd.atom = map[hd.at]
    BY <1>1
  <1>4. \A a \in Alive : a \in filled \/ \E hd \in keyed : hd.atom = a
    BY <1>2
  <1> QED
    BY <1>3, <1>4 DEF CollectedInTime

\* An Exclusive holder of the atomic of a key is alone.
LEMMA AmExcludes ==
  ASSUME AmInv, NEW k \in AmKey, NEW u \in AmHolders(k), NEW v \in AmHolders(k), u.wtype = Exclusive
  PROVE  v = u
  <1>0. AmTypes /\ AmAtoms
    BY DEF AmInv
  <1>1. map[k] # AmNull /\ map[k] \in AmAtom
    BY <1>0 DEF AmAtoms, AmTypes
  <1>2. AmStateOf(state[map[k]], AmHolders(k), AmWaiting(k))
    BY <1>0, <1>1 DEF AmAtoms, AmAtomOf
  <1> QED
    BY <1>2 DEF AmStateOf
=============================================================================

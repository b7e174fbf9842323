------------------------------ MODULE LFDeque ------------------------------
(***************************************************************************)
(* The work-stealing deque of a thread of the lock-free runtime            *)
(* (CircularWorkStealingDeque): the owner pushes and pops at the bottom,   *)
(* thieves take from the top with one compare-and-swap.  Each action is    *)
(* one access to _bottom, _top, _active_array or an array.                 *)
(***************************************************************************)
EXTENDS Integers, Sequences, FiniteSets

CONSTANTS DqThief,      \* threads that steal
          DqSize,       \* entries of the first array (default_log_size)
          DqPushes,     \* bound: elements pushed; element n is the n-th
          DqOps         \* bound: pops of the owner, and steals of each thief

\* A thread does not steal from itself.
ASSUME LFDequeAssumption ==
  DqSize \in Nat \ {0} /\ DqPushes \in Nat /\ DqOps \in Nat /\ "owner" \notin DqThief

VARIABLES bottom, dqtop,    \* _bottom, _top
          arrays, active,   \* the arrays made so far, and _active_array
          dpc, dreg,        \* program counters and locals of owner and thieves
          taken,            \* who got which elements
          pushed,           \* elements pushed so far
          turns             \* operations left

dqvars == <<bottom, dqtop, arrays, active, dpc, dreg, taken, pushed, turns>>

DqOwner == "owner"
DqThread == DqThief \cup {DqOwner}
Empty == 0                  \* the sentinel; elements are numbered from 1

DqLen(a) == Len(arrays[a])
DqGet(a, i) == arrays[a][(i % DqLen(a)) + 1]
DqPut(arr, i, o) == [arr EXCEPT ![(i % Len(arr)) + 1] = o]

\* CircularArray::grow: twice the size, the elements from t to b - 1.
DqGrow(a, b, t) ==
  LET n == 2 * DqLen(a)
  IN  [j \in 1 .. n |-> IF \E i \in t .. b - 1 : i % n = j - 1
                        THEN DqGet(a, CHOOSE i \in t .. b - 1 : i % n = j - 1) ELSE Empty]

DqInit ==
  /\ bottom = 0 /\ dqtop = 0 /\ active = 1 /\ pushed = 0
  /\ arrays = <<[j \in 1 .. DqSize |-> Empty]>>
  /\ dpc = [x \in DqThread |-> "idle"]
  /\ dreg = [x \in DqThread |-> [t |-> 0, a |-> 1, e |-> Empty]]
  /\ taken = [x \in DqThread |-> <<>>]
  /\ turns = [x \in DqThread |-> DqOps]

DqGo(x, from, to) == dpc[x] = from /\ dpc' = [dpc EXCEPT ![x] = to]
ReadTop(x) == dreg' = [dreg EXCEPT ![x].t = dqtop]
DqTakes(x, e) == taken' = [taken EXCEPT ![x] = Append(@, e)]
Turn(x) == turns[x] > 0 /\ turns' = [turns EXCEPT ![x] = @ - 1]

(* pushBottom *)
PushStart ==
  /\ pushed < DqPushes /\ DqGo(DqOwner, "idle", "push")
  /\ ReadTop(DqOwner)
  /\ UNCHANGED <<bottom, dqtop, arrays, active, taken, pushed, turns>>

PushGrow ==
  /\ dpc[DqOwner] = "push" /\ bottom - dreg[DqOwner].t >= DqLen(active) - 1
  /\ arrays' = Append(arrays, DqGrow(active, bottom, dreg[DqOwner].t))
  /\ active' = active + 1
  /\ DqGo(DqOwner, "push", "put")
  /\ UNCHANGED <<bottom, dqtop, dreg, taken, pushed, turns>>

PushPut ==
  /\ \/ dpc[DqOwner] = "put"
     \/ dpc[DqOwner] = "push" /\ bottom - dreg[DqOwner].t < DqLen(active) - 1
  /\ arrays' = [arrays EXCEPT ![active] = DqPut(@, bottom, pushed + 1)]
  /\ dpc' = [dpc EXCEPT ![DqOwner] = "publish"]
  /\ UNCHANGED <<bottom, dqtop, active, dreg, taken, pushed, turns>>

PushPublish ==
  /\ DqGo(DqOwner, "publish", "idle")
  /\ bottom' = bottom + 1 /\ pushed' = pushed + 1
  /\ UNCHANGED <<dqtop, arrays, active, dreg, taken, turns>>

(* popBottom *)
PopReserve ==
  /\ Turn(DqOwner) /\ DqGo(DqOwner, "idle", "poptop")
  /\ bottom' = bottom - 1
  /\ UNCHANGED <<dqtop, arrays, active, dreg, taken, pushed>>

\* For lf_runtime: the last element is taken without a compare-and-swap.
PopTopLast ==
  LET size == bottom - dqtop
  IN  /\ ReadTop(DqOwner)
      /\ DqGo(DqOwner, "poptop", IF size < 0 THEN "popempty" ELSE "idle")
      /\ IF size >= 0 THEN DqTakes(DqOwner, DqGet(active, bottom)) ELSE UNCHANGED taken
      /\ UNCHANGED <<bottom, dqtop, arrays, active, pushed, turns>>

\* The store of _bottom comes before the read of _top (store_load_barrier).
PopTop ==
  LET size == bottom - dqtop
  IN  /\ ReadTop(DqOwner)
      /\ DqGo(DqOwner, "poptop", IF size < 0 THEN "popempty" ELSE IF size > 0 THEN "idle" ELSE "popcas")
      /\ IF size > 0 THEN DqTakes(DqOwner, DqGet(active, bottom)) ELSE UNCHANGED taken
      /\ UNCHANGED <<bottom, dqtop, arrays, active, pushed, turns>>

DqPopEmpty ==
  /\ DqGo(DqOwner, "popempty", "idle")
  /\ bottom' = dreg[DqOwner].t
  /\ UNCHANGED <<dqtop, arrays, active, dreg, taken, pushed, turns>>

\* The last element: the owner competes with the thieves.
PopCas ==
  /\ DqGo(DqOwner, "popcas", "poplast")
  /\ IF dqtop = dreg[DqOwner].t
     THEN dqtop' = dqtop + 1 /\ DqTakes(DqOwner, DqGet(active, bottom))
     ELSE UNCHANGED <<dqtop, taken>>
  /\ UNCHANGED <<bottom, arrays, active, dreg, pushed, turns>>

PopLast ==
  /\ DqGo(DqOwner, "poplast", "idle")
  /\ bottom' = dreg[DqOwner].t + 1
  /\ UNCHANGED <<dqtop, arrays, active, dreg, taken, pushed, turns>>

(* steal *)
StealTop(x) ==
  /\ Turn(x) /\ DqGo(x, "idle", "bottom")
  /\ ReadTop(x)
  /\ UNCHANGED <<bottom, dqtop, arrays, active, taken, pushed>>

StealBottom(x) ==
  /\ DqGo(x, "bottom", IF bottom - dreg[x].t <= 0 THEN "idle" ELSE "array")
  /\ UNCHANGED <<bottom, dqtop, arrays, active, dreg, taken, pushed, turns>>

StealArray(x) ==
  /\ DqGo(x, "array", "get")
  /\ dreg' = [dreg EXCEPT ![x].a = active]
  /\ UNCHANGED <<bottom, dqtop, arrays, active, taken, pushed, turns>>

StealGet(x) ==
  /\ DqGo(x, "get", "cas")
  /\ dreg' = [dreg EXCEPT ![x].e = DqGet(dreg[x].a, dreg[x].t)]
  /\ UNCHANGED <<bottom, dqtop, arrays, active, taken, pushed, turns>>

\* abort when another took the element.
StealCas(x) ==
  /\ DqGo(x, "cas", "idle")
  /\ IF dqtop = dreg[x].t THEN dqtop' = dqtop + 1 /\ DqTakes(x, dreg[x].e) ELSE UNCHANGED <<dqtop, taken>>
  /\ UNCHANGED <<bottom, arrays, active, dreg, pushed, turns>>

DqNext ==
  \/ PushStart \/ PushGrow \/ PushPut \/ PushPublish
  \/ PopReserve \/ PopTop \/ DqPopEmpty \/ PopCas \/ PopLast
  \/ \E x \in DqThief : StealTop(x) \/ StealBottom(x) \/ StealArray(x) \/ StealGet(x) \/ StealCas(x)

----------------------------------------------------------------------------
DqGot == UNION {{<<x, i>> : i \in DOMAIN taken[x]} : x \in DqThread}
DqElement(g) == taken[g[1]][g[2]]

\* Every element that was pushed is taken at most once, by the owner or by a
\* thief, and nothing else is ever taken.
DequeTakenOnce ==
  /\ \A g \in DqGot : DqElement(g) \in 1 .. pushed
  /\ \A g, g2 \in DqGot : DqElement(g) = DqElement(g2) => g = g2

\* No element is lost: between two operations of the owner the entries from
\* _top to _bottom hold exactly the elements nobody took.  Thieves take them in
\* the order in which they were pushed.
DequeKeeps ==
  dpc[DqOwner] = "idle" =>
    /\ Cardinality(DqGot) + (bottom - dqtop) = pushed
    /\ {DqGet(active, i) : i \in dqtop .. bottom - 1} = (1 .. pushed) \ {DqElement(g) : g \in DqGot}

ThievesInOrder ==
  \A x \in DqThief : \A i, j \in DOMAIN taken[x] : i < j => taken[x][i] < taken[x][j]
============================================================================

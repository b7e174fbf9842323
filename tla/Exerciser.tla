------------------------------ MODULE Exerciser ------------------------------
(***************************************************************************)
(* The exerciser (src/src/runtime/oflux_exercise.cpp,                      *)
(* src/src/runtime/flow/OFluxFlowExerciseFunctions.cpp) runs a flow with   *)
(* dummy node functions, to see how its guards are acquired.  Each guard   *)
(* of the flow has a ClAtomic or an LFAtomic, which has an atomic map of   *)
(* each kind; set_wtype, called for each reference to the guard when the   *)
(* flow is loaded, copies the map of the kind that the reference wants,    *)
(* byte by byte, over the one that is used.                                *)
(*                                                                         *)
(* For an exclusive or a readwrite guard the copy is as good as the        *)
(* original, which nobody uses any more.  This module is about a guard     *)
(* that is a pool, whose cells say which pool they belong to: those that   *)
(* pool_init made belong to the original, in the classic style.  What the  *)
(* two pools have as _dq are two windows on the same memory.  The          *)
(* PoolEventList of the lock-free style is behind a pointer: the copy has  *)
(* the same.                                                               *)
(***************************************************************************)
EXTENDS Naturals, SequencesExt, FiniteSetsExt

CONSTANTS ExEvent,      \* slots for events
          ExStyles,     \* guard styles: "classic", "lockfree"
          ExPoolSize,   \* EXERCISE_POOLSIZE
          ExSlots,      \* bound: the memory of a _dq
          ExNull

ASSUME ExerciserAssumption ==
  /\ ExStyles \subseteq {"classic", "lockfree"}
  /\ ExPoolSize \in Nat \ {0} /\ ExSlots \in Nat /\ ExPoolSize <= ExSlots
  /\ ExNull \notin 1 .. ExPoolSize

VARIABLES exStyle,
          firstCells,   \* the cells of the original that the copy's _ap_list still has
          memory,       \* the memory of the windows
          window,       \* _dq of "original" and "copy": [from, to)
          exWaiters,    \* _q of "original" and "copy"
          exev          \* an event: how far it is, the pool of its cell and _data

exvars == <<exStyle, firstCells, memory, window, exWaiters, exev>>

ExPools == {"original", "copy"}
ExItems == 1 .. ExPoolSize
NoEvent == [pc |-> "none", kind |-> "node", pool |-> "copy", item |-> ExNull]

\* pool_init fills the original, whose cells and whose items are as many.
PoolFilled == [i \in 0 .. ExSlots - 1 |-> IF i < ExPoolSize THEN i + 1 ELSE ExNull]

Filled == [from |-> 0, to |-> ExPoolSize]

\* ManyThings::overwrite.
Overwritten(w) == [p \in ExPools |-> w]

\* set_wtype of the two styles: the copy has the original's cells too, but not if they
\* are taken from an allocator.
ClSetWtype == window = Overwritten(Filled) /\ firstCells = ExPoolSize
LFSetWtype == window = Overwritten(Filled) /\ firstCells = 0

ExInit ==
  /\ exStyle \in ExStyles
  /\ IF exStyle = "classic" THEN ClSetWtype ELSE LFSetWtype
  /\ memory = PoolFilled
  /\ exWaiters = [p \in ExPools |-> <<>>]
  /\ exev = [e \in ExEvent |-> NoEvent]

\* The guard translator says no to one value in ten.
TranslatorSays == BOOLEAN

\* The pool whose cell get makes or takes from the list for an event.
CellOf(taken) == IF taken \/ exStyle = "lockfree" THEN "original" ELSE "copy"

\* create_special: an event of a source, of an error handler or of another node.  The
\* guard translator may say no: the event then needs no cell.
CreateSpecial(e) ==
  /\ exev[e].pc = "none"
  /\ \E kind \in {"source", "node"}, asks \in TranslatorSays :
       LET first == asks /\ firstCells > 0
       IN  /\ exev' = [exev EXCEPT ![e] = [pc   |-> IF asks THEN "acquire" ELSE "run", kind |-> kind,
                                           pool |-> CellOf(first), item |-> ExNull]]
           /\ firstCells' = IF first THEN firstCells - 1 ELSE firstCells
  /\ UNCHANGED <<exStyle, memory, window, exWaiters>>

\* acquire_or_wait of e's cell.
AcquireItem(e) ==
  LET p == exev[e].pool
      w == window[p]
  IN  /\ exev[e].pc = "acquire"
      /\ IF w.from < w.to
         THEN /\ exev' = [exev EXCEPT ![e].pc = "run", ![e].item = memory[w.from]]
              /\ window' = [window EXCEPT ![p].from = @ + 1]
              /\ UNCHANGED exWaiters
         ELSE /\ exev' = [exev EXCEPT ![e].pc = "wait"]
              /\ exWaiters' = [exWaiters EXCEPT ![p] = Append(@, e)]
              /\ UNCHANGED window
      /\ UNCHANGED <<exStyle, firstCells, memory>>

\* For structures: release forgets that the cell has no data any more.
CellEmptied_Keeps(e) == exev[e].item

\* _data of a cell that was released.
CellEmptied(e) == ExNull

\* release of e's cell, if it has data: to the first who waits, or back into the pool.
ReleaseItem(e, next) ==
  LET p == exev[e].pool
      w == window[p]
      after(f) == [f EXCEPT ![e].pc = next, ![e].item = IF next = "none" THEN ExNull ELSE CellEmptied(e)]
  IN  IF exev[e].item = ExNull
      THEN exev' = after(exev) /\ UNCHANGED <<memory, window, exWaiters>>
      ELSE IF exWaiters[p] # <<>>
      THEN /\ exev' = after([exev EXCEPT ![Head(exWaiters[p])].pc = "run",
                                         ![Head(exWaiters[p])].item = exev[e].item])
           /\ exWaiters' = [exWaiters EXCEPT ![p] = Tail(@)]
           /\ UNCHANGED <<memory, window>>
      ELSE /\ w.to < ExSlots
           /\ memory' = [memory EXCEPT ![w.to] = exev[e].item]
           /\ window' = [window EXCEPT ![p].to = @ + 1]
           /\ exev' = after(exev) /\ UNCHANGED exWaiters

\* exercise_source_node_function releases its guards, and waits a little.
SourceFunction(e) ==
  /\ exev[e].pc = "run" /\ exev[e].kind = "source"
  /\ ReleaseItem(e, "wait a little")
  /\ UNCHANGED <<exStyle, firstCells>>

\* The release after the node function: of a source, there is nothing left.
NodeFunctionEnds(e) ==
  /\ \/ exev[e].pc = "run" /\ exev[e].kind # "source"
     \/ exev[e].pc = "wait a little"
  /\ ReleaseItem(e, "none")
  /\ UNCHANGED <<exStyle, firstCells>>

ExNext ==
  \E e \in ExEvent :
    CreateSpecial(e) \/ AcquireItem(e) \/ SourceFunction(e) \/ NodeFunctionEnds(e)

ExHolders(p) == {e \in ExEvent : exev[e].item # ExNull /\ exev[e].pool = p}

(***************************************************************************)
(* Each of the two pools keeps as many items as it has: an item is out or  *)
(* in its window; and nobody waits for a pool that has one in its window.  *)
(* In the lock-free style an item is with one event at a time.  In the     *)
(* classic style that is not so: it is in both windows, and the nodes of   *)
(* the flow run with up to twice as many items as there are.               *)
(***************************************************************************)
ExercisedPool ==
  /\ \A p \in ExPools : /\ Cardinality(ExHolders(p)) + (window[p].to - window[p].from) = ExPoolSize
                       /\ exWaiters[p] # <<>> => window[p].from = window[p].to
  /\ exStyle = "lockfree" =>
       \A e, f \in ExEvent : e # f /\ exev[e].item # ExNull => exev[e].item # exev[f].item
=============================================================================

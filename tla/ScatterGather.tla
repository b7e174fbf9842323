---------------------------- MODULE ScatterGather ----------------------------
(***************************************************************************)
(* Scatter and gather: a node that splays references to one Gatherable     *)
(* object, the nodes that pass their reference on, and the gather point,   *)
(* whose condition is that one reference is left                           *)
(* (src/src/runtime/OFluxScatterGather.h), in the flow that                *)
(* src/src/examples/scattergather shows it with:                           *)
(*                                                                         *)
(*     Foo -> Bar -> [isLast] Collect                                      *)
(*                                                                         *)
(* A Bar's event keeps its reference in its output until the event is      *)
(* deleted.  The classic runtime does that with the manager lock, which it *)
(* may have given up since it asked isLast (the AutoUnLock at the top of   *)
(* RunTimeThread::start); the lock-free runtime has no such lock.          *)
(***************************************************************************)
EXTENDS Naturals, FiniteSets

CONSTANTS SgBar,        \* the events of Bar, one for each reference Foo splays
          SgStyles      \* runtimes: "classic", "lockfree"

ASSUME ScatterGatherAssumption == 
  IsFiniteSet(SgBar) /\ SgBar # {} /\ SgStyles \subseteq {"classic", "lockfree"}

VARIABLES sgStyle,
          sgpc,         \* where a Bar's event is
          refCount,     \* _ref_count of the object
          put,          \* the Bars whose result is in the object
          gathered,     \* how many times Collect was entered
          freed         \* how many times the object was deleted

sgvars == <<sgStyle, sgpc, refCount, put, gathered, freed>>

SgInit ==
  /\ sgStyle \in SgStyles
  /\ sgpc = [b \in SgBar |-> "foo"] /\ refCount = 0
  /\ put = {} /\ gathered = 0 /\ freed = 0

\* The constructor of Foo's own reference counts one, clone one for each output, and the
\* destructor of Foo's own takes one off.
Constructed   == 1
Cloned(c)     == c + Cardinality(SgBar)
CountAfterFoo == Cloned(Constructed) - 1

Foo ==
  /\ \A b \in SgBar : sgpc[b] = "foo"
  /\ refCount' = CountAfterFoo
  /\ sgpc' = [b \in SgBar |-> "bar"]
  /\ UNCHANGED <<sgStyle, put, gathered, freed>>

Passes(b, from, to) == sgpc[b] = from /\ sgpc' = [sgpc EXCEPT ![b] = to]

\* Bar's assignment takes its input's reference over; nothing is counted.
Bar(b) ==
  /\ Passes(b, "bar", "ask")
  /\ put' = put \cup {b}
  /\ UNCHANGED <<sgStyle, refCount, gathered, freed>>

\* For structures: as though clone had counted one more than there are.
IsLast_OneOff(c) == c <= 2

IsLast(c) == c = 1

\* get_successors of Bar, whose only case has the condition isLast.
Ask(b) ==
  /\ IF IsLast(refCount) THEN Passes(b, "ask", "collect") ELSE Passes(b, "ask", "drop")
  /\ UNCHANGED <<sgStyle, refCount, put, gathered, freed>>

\* Collect's event has Bar's as predecessor, and with it the reference.
Collect(b) ==
  /\ Passes(b, "collect", "drop")
  /\ gathered' = gathered + 1
  /\ UNCHANGED <<sgStyle, refCount, put, freed>>

\* disown with the manager lock.
Disown(b) ==
  /\ sgStyle = "classic" /\ Passes(b, "drop", "done")
  /\ refCount' = refCount - 1
  /\ freed' = IF refCount' = 0 THEN freed + 1 ELSE freed
  /\ UNCHANGED <<sgStyle, put, gathered>>

\* disown without it: decr, and then count, of an object that may have been deleted.
Decr(b) ==
  /\ sgStyle = "lockfree" /\ Passes(b, "drop", "count")
  /\ refCount' = refCount - 1
  /\ UNCHANGED <<sgStyle, put, gathered, freed>>

DeleteIfLast(b) ==
  /\ Passes(b, "count", "done")
  /\ \/ refCount = 0 /\ freed' = freed + 1
     \/ (refCount # 0 \/ freed > 0) /\ UNCHANGED freed
  /\ UNCHANGED <<sgStyle, refCount, put, gathered>>

SgNext ==
  \/ Foo
  \/ \E b \in SgBar : Bar(b) \/ Ask(b) \/ Collect(b) \/ Disown(b) \/ Decr(b) \/ DeleteIfLast(b)

SgHolders == {b \in SgBar : sgpc[b] \in {"bar", "ask", "collect", "drop"}}

SgDone == sgpc = [b \in SgBar |-> "done"]

(***************************************************************************)
(* The gather point is entered with every result in the object and not     *)
(* twice; that it is entered at all is not so, because the last two Bars   *)
(* may both ask before the reference of either is gone.  While somebody    *)
(* has a reference the object is there, and when nobody has one any more   *)
(* it was deleted ("remove itself from the P reference count and delete if *)
(* necessary (last one)"), with the manager lock once; without it two may  *)
(* both find that they were the last, and delete it again.                 *)
(***************************************************************************)
GatheredOnce ==
  /\ gathered <= 1
  /\ \A b \in SgBar : sgpc[b] = "collect" => put = SgBar /\ SgHolders = {b}
  /\ SgHolders # {} => freed = 0
  /\ SgDone => freed >= 1
  /\ sgStyle = "classic" => freed <= 1
=============================================================================

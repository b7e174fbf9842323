----------------------------- MODULE EventLife -----------------------------
(***************************************************************************)
(* The life of events and flows: events are created by start, by their     *)
(* predecessors and by load_flow                                           *)
(* (src/runtime/event/OFluxEventOperations.cpp), own their predecessor     *)
(* until they have executed, because their input is part of its output     *)
(* (src/runtime/event/OFluxEvent.h, OFluxEventBase.cpp, OFluxSharedPtr.h), *)
(* and belong to the flow that was current then, which load_flow deletes   *)
(* once it thinks that no event needs it (RunTime::load_flow of the two    *)
(* runtimes, src/runtime/flow/OFluxFlow.cpp).  The melding runtime         *)
(* (src/runtime/OFluxMeldingRunTime.cpp) executes a detached node's only   *)
(* successor in place if that is detached too.                             *)
(*                                                                         *)
(* Guards are left out.  A thread is idle (in its loop), in run (a node    *)
(* function) or back (about to make the successors of what it executed).   *)
(* An event is a value, with its predecessor in it: nothing of an event    *)
(* changes any more once it is the predecessor of another.                 *)
(***************************************************************************)
EXTENDS Naturals, SequencesExt, FiniteSetsExt

CONSTANTS ElThread,
          ElQueue,      \* bound: events in the queue and with threads
          ElStyles,     \* runtimes: "classic", "melding", "lockfree"
          ElFlows,      \* bound: how many flows are loaded
          ElOutputs,    \* bound: how many outputs a node function splays
          ElNone

ASSUME EventLifeAssumption ==
  /\ ElStyles \subseteq {"classic", "melding", "lockfree"}
  /\ ElFlows \in Nat \ {0} /\ ElOutputs \in Nat \ {0} /\ ElQueue \in Nat

VARIABLES style,
          up,           \* _running
          active,       \* _active_flows, newest first
          deleted,      \* flows that were
          isSource,     \* the flows whose sources have _is_source
          used,         \* the flows with a node whose instances() is not 0
          inQueue,      \* _queue, or the threads' deques
          worker        \* what a thread is doing

elflows == <<active, deleted, isSource, used>>
elvars  == <<style, up, elflows, inQueue, worker>>

\* A flow with each kind of node: an initial one, a source, its successor and an error
\* handler; work and last are detached and have no guards.
Sources    == {"source", "initial"}
DetachedNodes == {"work", "last", "error"}
AllNodes   == Sources \cup DetachedNodes
Targets(n) == CASE n = "source" -> {"source", "work"} [] n = "work" -> {"last"} [] OTHER -> {}
Handler(n) == IF n \in {"source", "work"} THEN {"error"} ELSE {}

IsSource(f, n)  == n \in Sources /\ f \in isSource
IsInitial(n)    == n = "initial"

Resting(e) == [pc |-> "idle", ev |-> e, rc |-> 0, n |-> 0]
Running(e) == [pc |-> "run", ev |-> e, rc |-> 0, n |-> 0]
Idle == Resting(ElNone)

\* An event, its predecessor, and the event whose output its input is in.
NewEvent(n, f, pred, input) == [node |-> n, flow |-> f, pred |-> pred, input |-> input]

ElInit ==
  /\ style \in ElStyles /\ up = FALSE
  /\ active = <<1>> /\ deleted = {} /\ isSource = {1} /\ used = {}
  /\ inQueue = <<>>
  /\ worker = [t \in ElThread |-> Idle]

Busy == {t \in ElThread : worker[t].pc # "idle"}

Enqueue(events, busy) == /\ Len(inQueue \o events) + Cardinality(busy) <= ElQueue
                         /\ inQueue' = inQueue \o events

(* Flows *)
\* push_initials_and_sources of flow f, at the end of the queue.  The deques of the
\* lock-free runtime take the last first.
PushSources(f) ==
  LET nodes == IF style = "lockfree" THEN <<"initial", "source">> ELSE <<"source", "initial">>
  IN  Enqueue([i \in 1 .. 2 |-> NewEvent(nodes[i], f, ElNone, ElNone)], Busy)

Start ==
  /\ ~up /\ up' = TRUE
  /\ PushSources(active[1]) /\ used' = used \cup {active[1]}
  /\ UNCHANGED <<style, active, deleted, isSource, worker>>

\* For structures: has_instances says no.
HasInstances_No(f) == FALSE

\* instances() is cumulative.
HasInstances(f) == f \in used

\* How many of the oldest flows load_flow deletes, and which it turned off on its way:
\* it stops at the first that has instances.
Deletes(n) ==
  /\ n \in 0 .. Len(active)
  /\ \A i \in 0 .. (n - 1) : ~HasInstances(active[Len(active) - i])
  /\ n < Len(active) => HasInstances(active[Len(active) - n])

LoadFlow ==
  LET new == Len(active) + Cardinality(deleted) + 1
  IN  /\ style # "lockfree" /\ new <= ElFlows
      /\ IF up THEN PushSources(new) ELSE UNCHANGED inQueue
      /\ \E n \in 0 .. Len(active) :
           LET gone == {active[i] : i \in (Len(active) - n + 1) .. Len(active)}
               off  == {active[i] : i \in Max({1, Len(active) - n}) .. Len(active)}
           IN  /\ Deletes(n)
               /\ active' = <<new>> \o SubSeq(active, 1, Len(active) - n)
               /\ deleted' = deleted \cup gone
               /\ isSource' = (isSource \ off) \cup {new}
      /\ used' = IF up THEN used \cup {new} ELSE used
      /\ UNCHANGED <<style, up, worker>>

\* load_flow of the lock-free runtime, by one thread at a time.
LoadFlowLF ==
  LET new == Len(active) + 1
  IN  /\ style = "lockfree" /\ new <= ElFlows
      /\ IF up THEN PushSources(new) ELSE UNCHANGED inQueue
      /\ active' = <<new>> \o active
      /\ isSource' = (isSource \ {active[1]}) \cup {new}
      /\ used' = IF up THEN used \cup {new} ELSE used
      /\ UNCHANGED <<style, up, deleted, worker>>

(* Threads *)
\* The loop takes the first of the queue, in the lock-free runtime the last of its own
\* deque or the first of another's.
TakeEvent(t) ==
  /\ worker[t].pc = "idle" /\ inQueue # <<>>
  /\ \E k \in {1, Len(inQueue)} :
       /\ k # 1 => style = "lockfree"
       /\ inQueue' = RemoveAt(inQueue, k)
       /\ worker' = [worker EXCEPT ![t] = Running(inQueue[k])]
  /\ UNCHANGED <<style, up, elflows>>

\* An event stays until the thread takes another one, or waits: because the queue is
\* empty, or to let others run before it.
Rest(t) ==
  /\ worker[t].pc = "idle" /\ worker[t].ev # ElNone
  /\ worker' = [worker EXCEPT ![t] = Idle]
  /\ UNCHANGED <<style, up, elflows, inQueue>>

\* EventBase::release after a node function that returned 0; the input is not read again.
Executed(e, rc) == IF rc = 0 THEN NewEvent(e.node, e.flow, ElNone, ElNone) ELSE e

ExecuteNode(t) ==
  /\ worker[t].pc = "run"
  /\ \E rc \in {0, 1}, n \in 1 .. ElOutputs :
       /\ rc # 0 /\ style # "melding" => n = 1   \* the others are not looked at
       /\ worker' = [worker EXCEPT ![t] =
                    [pc |-> "back", ev |-> Executed(@.ev, rc), rc |-> rc, n |-> n]]
  /\ UNCHANGED <<style, up, elflows, inQueue>>

\* get_successors of what executed e with the return code rc.
Successors(e, rc) ==
  IF rc = 0 THEN Targets(e.node)
  ELSE Handler(e.node)
       \cup (IF IsSource(e.flow, e.node) /\ ~IsInitial(e.node) THEN {e.node} ELSE {})

\* execute_detached of the melding runtime executes the only successor in place.
Melds(w) ==
  /\ style = "melding" /\ w.ev.node \in DetachedNodes
  /\ w.n = 1 /\ Cardinality(Successors(w.ev, w.rc)) = 1
  /\ Successors(w.ev, w.rc) \subseteq DetachedNodes

Meld(t) ==
  LET w == worker[t]
  IN  /\ w.pc = "back" /\ Melds(w)
      /\ \E n \in Successors(w.ev, w.rc) :
           worker' = [worker EXCEPT ![t] =
                        Running(NewEvent(n, w.ev.flow, w.ev, w.ev))]
      /\ used' = used \cup {w.ev.flow}
      /\ UNCHANGED <<style, up, active, deleted, isSource, inQueue>>

\* For structures: a source respawns once for every output.
MakesSource_PerOutput(f, n, o) == TRUE

\* "only one source allowed even with splaying"
MakesSource(f, n, o) == IsSource(f, n) => o = 1

\* One output after the other, and for each of them the successors by their names.
ByName == {<<"error", "source">>, <<"source", "work">>}
Comes(x, y) == x[1] < y[1] \/ (x[1] = y[1] /\ <<x[2], y[2]>> \in ByName)
InTurn(S) == {s \in [1 .. Cardinality(S) -> S] : \A i, j \in DOMAIN s : i < j => Comes(s[i], s[j])}

\* successors_on_no_error: outputs, with the nodes that get an event of them.
OnNoError(w) ==
  LET made   == {x \in (1 .. w.n) \X Successors(w.ev, 0) : MakesSource(w.ev.flow, x[2], x[1])}
      new(n) == IF IsSource(w.ev.flow, n) THEN NewEvent(n, w.ev.flow, ElNone, ElNone)
                ELSE NewEvent(n, w.ev.flow, w.ev, w.ev)
  IN  {[k \in DOMAIN s |-> new(s[k][2])] : s \in InTurn(made)}

\* successors_on_error: those of a source have no predecessor.
OnError(w) ==
  LET e      == w.ev
      new(n) == IF IsSource(e.flow, e.node) THEN NewEvent(n, e.flow, ElNone, ElNone)
                ELSE NewEvent(n, e.flow, e.pred, e.input)
  IN  {[k \in DOMAIN s |-> new(s[k][2])] : s \in InTurn({1} \X Successors(e, w.rc))}

Handle(t) ==
  LET w == worker[t]
  IN  /\ w.pc = "back" /\ ~Melds(w)
      /\ \E new \in IF w.rc = 0 THEN OnNoError(w) ELSE OnError(w) :
           /\ Enqueue(new, Busy \ {t})
           /\ used' = IF new = <<>> THEN used ELSE used \cup {w.ev.flow}
      /\ worker' = [worker EXCEPT ![t] =
                      Resting(IF style = "lockfree" THEN ElNone ELSE w.ev)]
      /\ UNCHANGED <<style, up, active, deleted, isSource>>

ElNext ==
  \/ Start \/ LoadFlow \/ LoadFlowLF
  \/ \E t \in ElThread : TakeEvent(t) \/ Rest(t) \/ ExecuteNode(t) \/ Meld(t) \/ Handle(t)

(* Properties *)
Waiting == {inQueue[i] : i \in DOMAIN inQueue}
Working == {worker[t].ev : t \in ElThread} \ {ElNone}

\* Those whose input is yet to be read, by the node function or by the handler of its error.
Readers == Waiting \cup {worker[t].ev : t \in {u \in ElThread :
             worker[u].pc = "run" \/ worker[u].rc # 0}}

\* An event keeps the event that its input is in for as long as the input can be read
\* ("Events hold a reference to the previous event to hold onto the memory",
\* OFluxEventBase.h).
InputsLive == \A e \in Readers : e.input # ElNone => e.pred = e.input

\* No event's node, nor its predecessor's, is in a flow that load_flow deleted
\* (has_instances).
NodesLive ==
  \A e \in Waiting \cup Working :
    /\ e.flow \notin deleted
    /\ e.pred # ElNone => e.pred.flow \notin deleted

\* Where events are, in the queue and executed by threads.
EventPlaces == {<<"queue", i>> : i \in DOMAIN inQueue} \cup {<<"thread", t>> : t \in Busy}
EventAt(p) == IF p[1] = "queue" THEN inQueue[p[2]] ELSE worker[p[2]].ev

\* The current flow's source has one event, whatever its node function returned and
\* however many outputs it made (successors_on_no_error, get_successors, load_flow).
OfCurrentSource(e) == e.node = "source" /\ e.flow = active[1]
OneSourceEvent ==
  up => \E p \in EventPlaces : \A q \in EventPlaces : OfCurrentSource(EventAt(q)) <=> q = p
=============================================================================

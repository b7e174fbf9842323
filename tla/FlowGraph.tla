------------------------------ MODULE FlowGraph ------------------------------
(***************************************************************************)
(* The flow of a running program: nodes, the successors of a node, the     *)
(* cases of a successor with their conditions, and the libraries of the    *)
(* plugins the flow was built from.  A flow is a value here; FlowReader    *)
(* builds one, element by element.                                         *)
(***************************************************************************)
EXTENDS Naturals, Sequences, FiniteSets, SequencesExt

NoName == <<>>          \* NULL, for names

(* Conditions and cases *)
\* A condition is called on one argument; v is the set of <<condition, argument>>
\* that hold of the event's output.
Satisfied(cd, v) == (<<cd.name, cd.argno>> \in v) # cd.neg

\* Case::satisfied: every condition of the case.
CaseSatisfied(cs, v) == \A k \in DOMAIN cs.conds : Satisfied(cs.conds[k], v)

CaseAdd(cs, cd) == [cs EXCEPT !.conds = Append(@, cd)]

(* Successor *)
\* For progress: every case goes to the end.
SuccessorAddBack(s, cs, front) == Append(s, cs)

SuccessorAdd(s, cs, front) == IF front THEN <<cs>> \o s ELSE Append(s, cs)

\* Successor::get_successor: the first satisfied case, if there is one.
FirstSatisfied(s, v) ==
  LET hit == {k \in DOMAIN s : CaseSatisfied(s[k], v)}
  IN  IF hit = {} THEN {} ELSE {s[CHOOSE k \in hit : \A j \in hit : k <= j].to}

(* SuccessorList, a map from names *)
SuccessorListAdd(sl, name, s) ==
  IF name \in DOMAIN sl THEN sl ELSE [n \in DOMAIN sl \cup {name} |-> IF n = name THEN s ELSE sl[n]]

HasTarget(sl, to) == \E n \in DOMAIN sl : \E k \in DOMAIN sl[n] : sl[n][k].to = to

(* Node *)
NewNode(at) ==
  [source |-> at.source, door |-> at.door, iserr |-> at.iserr, succ |-> <<>>, haslist |-> FALSE,
   err |-> NoName, refs |-> <<>>]

\* Node::getIsInitial: a source that does not start itself again.
IsInitial(n, nd) == nd.source /\ ~HasTarget(nd.succ, n)

\* Node::get_successors after return code 0.
Successors(nd, v) == UNION {FirstSatisfied(nd.succ[n], v) : n \in DOMAIN nd.succ}

\* The same after an error: the handler, and a source itself.
OnError(n, nd) ==
  (IF nd.err = NoName THEN {} ELSE {nd.err}) \cup (IF nd.source /\ ~IsInitial(n, nd) THEN {n} ELSE {})

(* Library: the object of one load of a plugin *)
\* For progress: one of the flow before counts.
HaveLibraryBefore(fl, p) == \E k \in DOMAIN (fl.libs \o fl.prev) : (fl.libs \o fl.prev)[k].name = p

HaveLibrary(fl, p) == \E k \in DOMAIN fl.libs : fl.libs[k].name = p

PrevLibrary(fl, p) ==
  LET prev == {k \in DOMAIN fl.prev : fl.prev[k].name = p}
  IN  IF prev = {} THEN {} ELSE {fl.prev[CHOOSE k \in prev : \A j \in prev : k <= j]}

\* Flow::addLibrary, the flow's part of it: init is called when the flow that is
\* replaced did not have the plugin.
FlowAddLibrary(fl, lib) == [fl EXCEPT !.libs = Append(@, lib)]
CallsInit(fl, p) == PrevLibrary(fl, p) = {}

(* Flow *)
NewFlow == [nodes |-> <<>>, guards |-> {}, order |-> {}, magic |-> <<>>, libs |-> <<>>, prev |-> <<>>]

\* Flow::Flow(const Flow &, name): the libraries are taken over.
\* For progress: they are not.
FlowAfterNone(existing) == NewFlow

FlowAfter(existing) == [NewFlow EXCEPT !.prev = existing.libs]

\* Flow::add(Node *), a map insert that keeps what is there.
FlowAddNode(fl, n, nd) ==
  [fl EXCEPT !.nodes = [x \in DOMAIN @ \cup {n} |-> IF x \in DOMAIN @ THEN @[x] ELSE nd]]

FlowSetNode(fl, n, nd) == [fl EXCEPT !.nodes[n] = nd]
FlowAddGuard(fl, g) == [fl EXCEPT !.guards = @ \cup {g}]
FlowAddPrecedence(fl, b, a) == [fl EXCEPT !.order = @ \cup {<<b, a>>}]

(* Magic numbers, by which an event's guards are put in order *)
\* The guards that have precedences, and those before one of them.
Ordered(fl) == UNION {{o[1], o[2]} : o \in fl.order}
Before(fl, g) == {o[1] : o \in {p \in fl.order : p[2] = g}}

\* A guard is ready when those before it have their numbers.
\* For progress: in the order the guards come.
ReadyAnyway(fl, line, g) == g \notin ToSet(line)

Ready(fl, line, g) == g \notin ToSet(line) /\ Before(fl, g) \subseteq ToSet(line)

\* The passes of MagicSorter::numberAll over the guards in the order of their addresses:
\* the next number goes to the next ready one, round and round.
NumberNext(fl, line, addresses) ==
  LET at(g) == CHOOSE k \in DOMAIN addresses : addresses[k] = g
      ready == {k \in DOMAIN addresses : Ready(fl, line, addresses[k])}
      later == {k \in ready : line # <<>> /\ k > at(Last(line))}
      first(S) == CHOOSE k \in S : \A j \in S : k <= j
  IN  IF ready = {} THEN line ELSE Append(line, addresses[first(IF later = {} THEN ready ELSE later)])

NumberOrdered(fl, addresses) ==
  LET line[k \in 0 .. Len(addresses)] == IF k = 0 THEN <<>> ELSE NumberNext(fl, line[k - 1], addresses)
  IN  line[Len(addresses)]

\* "assert(allassigned)"
AllAssigned(fl, addresses) == ToSet(NumberOrdered(fl, addresses)) = Ordered(fl)

\* Then the other guards, by name.
NumberAll(fl, addresses) ==
  LET line == NumberOrdered(fl, addresses) \o SetToSeq(fl.guards \ Ordered(fl))
  IN  [g \in fl.guards |-> CHOOSE k \in DOMAIN line : line[k] = g]

\* Node::sortGuards; GuardOrder says what becomes of two references to one guard.
SortRefs(nd, m) == [nd EXCEPT !.refs = SortSeq(@, LAMBDA x, y : m[x.name] < m[y.name])]

\* Flow::assignMagicNumbers
AssignMagicNumbers(fl, addresses) ==
  LET m == NumberAll(fl, addresses)
  IN  [fl EXCEPT !.magic = m, !.nodes = [n \in DOMAIN @ |-> SortRefs(@[n], m)]]

SourceNodes(fl) == {n \in DOMAIN fl.nodes : fl.nodes[n].source}
DoorNodes(fl) == {n \in DOMAIN fl.nodes : fl.nodes[n].door}
=============================================================================

------------------------------ MODULE FlowReader ------------------------------
(***************************************************************************)
(* Reading a flow from the XML of the program and of its plugins, and      *)
(* reading it again when the program is told to.  The reader is a stack    *)
(* machine that the parser drives, one start or end of an element at a     *)
(* time; a plugin that depends on another one has that one read first, in  *)
(* the middle of its own file.                                             *)
(***************************************************************************)
EXTENDS FlowGraph

CONSTANTS Plans,       \* sources, compiled: the plugins that have a file, in the order of their
                       \* names, those whose library cannot be loaded or has no function maps,
                       \* and the elements of each file, that of the program too
          Main,        \* the file of the program, and its scope
          MaxLoads     \* bound: loads, the first one included

ASSUME FlowReaderAssumption == MaxLoads \in Nat \ {0}

VARIABLES plan,        \* what the files hold
          dir,         \* PluginSource: the files in the directory
          phase,       \* Reader::read, and why it ended
          input,       \* the files being read: file, position, state to go back to
          rs,          \* _reader_state and its parents, innermost first
          allow,       \* _allow_addition
          scope,       \* _scope_name
          fmaps,       \* _scoped_fmaps
          visited,     \* _depends_visited
          todo,        \* readxmldir: files yet to read
          flow,        \* the flow being built
          targets,     \* _add_targets: node a case goes to, scope it was read in
          handlers,    \* _set_error_handlers: node, its error handler
          active,      \* the flow of the running program, if there is one
          inits,       \* calls of the init function of each plugin
          loads        \* loads begun

frvars == <<plan, dir, phase, input, rs, allow, scope, fmaps, visited, todo, flow, targets,
            handlers, active, inits, loads>>

\* A reader state: its element, its object (null when the factory returned NULL),
\* whether the object is new, its name, and what the flag was.
Frame(el, name) == [el |-> el, name |-> name, null |-> TRUE, obj |-> NoName, fresh |-> FALSE, old |-> allow]
Holding(el, name, obj, fresh) == [Frame(el, name) EXCEPT !.null = FALSE, !.obj = obj, !.fresh = fresh]

FRInit ==
  /\ plan \in Plans /\ dir \in SUBSET ToSet(plan.files)
  /\ phase = "start" /\ input = <<>> /\ rs = <<>> /\ allow = TRUE /\ scope = Main
  /\ fmaps = <<>> /\ visited = {} /\ todo = <<>> /\ flow = NewFlow /\ targets = <<>>
  /\ handlers = <<>> /\ active = {} /\ inits = [p \in ToSet(plan.files) |-> 0] /\ loads = 0

\* Reader::Reader and the start of Reader::read.
Load ==
  /\ phase = "start" /\ loads < MaxLoads
  /\ phase' = "main" /\ loads' = loads + 1
  /\ input' = <<[file |-> Main, pos |-> 1, keep |-> <<>>]>>
  /\ rs' = <<>> /\ allow' = TRUE /\ scope' = Main /\ visited' = {} /\ todo' = <<>>
  /\ fmaps' = [s \in {Main} |-> <<Main>>]
  /\ flow' = NewFlow /\ targets' = <<>> /\ handlers' = <<>>
  /\ UNCHANGED <<plan, dir, active, inits>>

Fail ==
  /\ phase' = "failed"
  /\ UNCHANGED <<plan, dir, input, rs, allow, scope, fmaps, visited, todo, flow, targets,
                 handlers, active, inits, loads>>

(* The parser *)
Elements == plan.xml[input[1].file]
Reading == phase \in {"main", "dir"} /\ input # <<>> /\ input[1].pos <= Len(Elements)
Token == Elements[input[1].pos]
Step == [input EXCEPT ![1].pos = @ + 1]

Starts(el) == Reading /\ Token.open /\ Token.el = el
Ends(el) == Reading /\ ~Token.open /\ rs # <<>> /\ Head(rs).el = el

\* What pushState and popState leave alone.
Rest == <<plan, dir, phase, active, loads, fmaps, visited, todo>>

\* Reader::pushState with the state that a factory makes.
Push(frame) == input' = Step /\ rs' = <<frame>> \o rs

\* Reader::get<T>: the nearest state of that element.
Nearest(el) == {k \in DOMAIN rs : rs[k].el = el /\ \A j \in 1 .. k - 1 : rs[j].el # el}
Get(el) == LET k == CHOOSE k \in Nearest(el) : TRUE IN rs[k]

\* ReaderState::parent_obj: a state of <add> stands for its own parent.
Deref(s) == LET own == {k \in DOMAIN s : s[k].el # "add"} IN CHOOSE k \in own : \A j \in own : k <= j

\* The object of the state below the innermost one, changed; an object whose parent
\* is NULL is deleted.
PopInto(F(_)) ==
  LET up == Tail(rs)
      k == Deref(up)
  IN  rs' = IF up[k].null THEN up ELSE [up EXCEPT ![k].obj = F(@)]

Pop == rs' = Tail(rs)

(* <flow> *)
\* flow_element_factory<flow::Flow>: for a reload, from the flow there is.
OpenFlow ==
  /\ Starts("flow")
  /\ flow' = IF active = {} THEN NewFlow ELSE FlowAfter(CHOOSE fl \in active : TRUE)
  /\ Push(Frame("flow", NoName))
  /\ UNCHANGED Rest /\ UNCHANGED <<allow, scope, targets, handlers, inits>>

CloseFlow ==
  /\ Ends("flow") /\ Pop /\ input' = Step
  /\ UNCHANGED Rest /\ UNCHANGED <<allow, scope, flow, targets, handlers, inits>>

(* <add>, and <plugin>, which is one *)
OpenAdd ==
  /\ Starts("add") \/ Starts("plugin")
  /\ Push(Frame("add", NoName)) /\ allow' = TRUE
  /\ UNCHANGED Rest /\ UNCHANGED <<scope, flow, targets, handlers, inits>>

CloseAdd ==
  /\ Ends("add") /\ Pop /\ input' = Step /\ allow' = Head(rs).old
  /\ UNCHANGED Rest /\ UNCHANGED <<scope, flow, targets, handlers, inits>>

\* ReaderStateRemoval is not implemented: an exception.
OpenRemove == Starts("remove") /\ Fail

(* <library> and <depend> *)
\* flow_element_factory<flow::Library>: the object of the flow before, or one
\* whose only dependency is the program.
OpenLibrary ==
  /\ Starts("library")
  /\ LET p == Token.at.name
         prev == PrevLibrary(flow, p)
         lib == IF prev = {} THEN [name |-> p, made |-> loads, deps |-> <<Main>>]
                ELSE CHOOSE l \in prev : TRUE
     IN  Push(Holding("library", p, lib, TRUE))
  /\ UNCHANGED Rest /\ UNCHANGED <<allow, scope, flow, targets, handlers, inits>>

\* ScopedFunctionMaps::add: its own functions and those of its dependencies.
ContextOf(l) == <<l.name>> \o FlattenSeq([k \in DOMAIN l.deps |-> fmaps[l.deps[k]]])

\* pc_add<flow::Library>: dlopen or the look up of flowfunctionmaps__ fails.
Broken(p) == p \in plan.broken
CloseLibraryBad == Ends("library") /\ Broken(Head(rs).obj.name) /\ Fail

\* pc_add<flow::Library> and Reader::addLibrary.
CloseLibrary ==
  /\ Ends("library") /\ ~Broken(Head(rs).obj.name) /\ Pop /\ input' = Step
  /\ LET l == Head(rs).obj
     IN  /\ scope' = l.name
         /\ fmaps' = IF l.name \in DOMAIN fmaps THEN fmaps
                     ELSE [s \in DOMAIN fmaps \cup {l.name} |-> IF s = l.name THEN ContextOf(l) ELSE fmaps[s]]
         /\ flow' = FlowAddLibrary(flow, l)
         /\ inits' = IF CallsInit(flow, l.name) THEN [inits EXCEPT ![l.name] = @ + 1] ELSE inits
  /\ UNCHANGED <<plan, dir, phase, active, loads, visited, todo, allow, targets, handlers>>

\* Reader::readPluginIfUnread: what can go wrong.
\* For progress: a plugin whose file is being read is read again; one that was
\* read already counts as being read.
BadDependNever(p) == p \notin dir
BadDependVisited(p) == p \notin dir \/ p \in visited

BadDepend(p) == p \notin dir \/ (~HaveLibrary(flow, p) /\ p \in visited)

OpenDependBad == Starts("depend") /\ BadDepend(Token.at.name) /\ Fail

\* The state climbs to the flow, and comes back when the file was read.
FlowState == SubSeq(rs, CHOOSE k \in Nearest("flow") : TRUE, Len(rs))

OpenDepend ==
  /\ Starts("depend") /\ ~BadDepend(Token.at.name)
  /\ LET p == Token.at.name
         after == <<Frame("depend", p)>> \o rs
     IN  IF HaveLibrary(flow, p)
         THEN input' = Step /\ rs' = after /\ UNCHANGED visited
         ELSE /\ visited' = visited \cup {p}
              /\ input' = <<[file |-> p, pos |-> 1, keep |-> after]>> \o Step
              /\ rs' = FlowState
  /\ UNCHANGED <<plan, dir, phase, active, loads, fmaps, todo, allow, scope, flow, targets, handlers, inits>>

(* <guard>, <guardprecedence>, <guardref> *)
OpenGuard ==
  /\ Starts("guard") /\ Push(Frame("guard", Token.at.name))
  /\ UNCHANGED Rest /\ UNCHANGED <<allow, scope, flow, targets, handlers, inits>>

CloseGuard ==
  /\ Ends("guard") /\ Pop /\ input' = Step
  /\ flow' = IF allow THEN FlowAddGuard(flow, Head(rs).name) ELSE flow
  /\ UNCHANGED Rest /\ UNCHANGED <<allow, scope, targets, handlers, inits>>

OpenPrecedence ==
  /\ Starts("guardprecedence")
  /\ flow' = FlowAddPrecedence(flow, Token.at.before, Token.at.after)
  /\ Push(Frame("guardprecedence", NoName))
  /\ UNCHANGED Rest /\ UNCHANGED <<allow, scope, targets, handlers, inits>>

\* Functions are looked up in those of the scope: the library that the compiler makes
\* with a file has the ones the file names.
Functions(f, el) ==
  {plan.xml[f][k].at.name : k \in {j \in DOMAIN plan.xml[f] : plan.xml[f][j].open /\ plan.xml[f][j].el = el}}
LookupConditional(c) == \E k \in DOMAIN fmaps[scope] : c \in Functions(fmaps[scope][k], "condition")
LookupGuardTranslator(g) == \E k \in DOMAIN fmaps[scope] : g \in Functions(fmaps[scope][k], "guardref")

\* A reference, or a condition, without a function is an exception.
NeedsFunction(found) == phase' = IF found THEN phase ELSE "failed"

OpenGuardRef ==
  /\ Starts("guardref")
  /\ NeedsFunction(allow => LookupGuardTranslator(Token.at.name))
  /\ Push(IF allow THEN Holding("guardref", Token.at.name, Token.at, TRUE) ELSE Frame("guardref", Token.at.name))
  /\ UNCHANGED <<plan, dir, active, loads, fmaps, visited, todo>>
  /\ UNCHANGED <<allow, scope, flow, targets, handlers, inits>>

CloseGuardRef ==
  /\ Ends("guardref") /\ input' = Step
  /\ IF allow /\ ~Head(rs).null
     THEN PopInto(LAMBDA nd : [nd EXCEPT !.refs = Append(@, Head(rs).obj)])
     ELSE Pop
  /\ UNCHANGED Rest /\ UNCHANGED <<allow, scope, flow, targets, handlers, inits>>

(* <node> *)
\* flow_element_factory<flow::Node>: an external one is that of the flow, and
\* nothing is added to it outside of an <add>.
OpenNode ==
  LET n == Token.at.name
      ext == Token.at.external
  IN  /\ Starts("node")
      /\ \/ ext /\ n \in DOMAIN flow.nodes /\ Push(Holding("node", n, flow.nodes[n], FALSE))
         \/ ext /\ n \notin DOMAIN flow.nodes /\ Push(Frame("node", n))
         \/ ~ext /\ allow /\ Push(Holding("node", n, NewNode(Token.at), TRUE))
      /\ allow' = (allow /\ ~ext)
      /\ UNCHANGED Rest /\ UNCHANGED <<scope, flow, targets, handlers, inits>>

\* popState sets the flag, then pc_add<flow::Node> adds a node that is new.
CloseNode ==
  LET f == Head(rs)
  IN  /\ Ends("node") /\ Pop /\ input' = Step /\ allow' = TRUE
      /\ flow' = CASE f.null -> flow
                    [] ~f.null /\ f.fresh -> FlowAddNode(flow, f.name, f.obj)
                    [] OTHER -> FlowSetNode(flow, f.name, f.obj)
      /\ UNCHANGED Rest /\ UNCHANGED <<scope, targets, handlers, inits>>

(* <errorhandler> *)

OpenErrorHandler ==
  /\ Starts("errorhandler")
  /\ handlers' = IF allow THEN Append(handlers, [node |-> Get("node").name, err |-> Token.at.name]) ELSE handlers
  /\ Push(Frame("errorhandler", Token.at.name))
  /\ UNCHANGED Rest /\ UNCHANGED <<allow, scope, flow, targets, inits>>

(* <successorlist> and <successor> *)
OpenSuccessorList ==
  /\ Starts("successorlist")
  /\ Push(CASE allow -> Holding("successorlist", NoName, <<>>, TRUE)
            [] ~allow /\ Get("node").null -> Frame("successorlist", NoName)
            [] OTHER -> Holding("successorlist", NoName, Get("node").obj.succ, FALSE))
  /\ UNCHANGED Rest /\ UNCHANGED <<allow, scope, flow, targets, handlers, inits>>

\* pc_add<flow::SuccessorList>: a node's first list stays; a list that was found
\* rather than made is the node's own.
CloseSuccessorList ==
  LET f == Head(rs)
  IN  /\ Ends("successorlist") /\ input' = Step
      /\ IF f.null THEN Pop
         ELSE PopInto(LAMBDA nd : IF nd.haslist /\ f.fresh THEN nd
                                  ELSE [nd EXCEPT !.succ = f.obj, !.haslist = TRUE])
      /\ UNCHANGED Rest /\ UNCHANGED <<allow, scope, flow, targets, handlers, inits>>

OpenSuccessor ==
  LET name == Token.at.name
      sl == Get("successorlist")
  IN  /\ Starts("successor")
      /\ Push(CASE allow -> Holding("successor", name, <<>>, TRUE)
                [] ~allow /\ name \in DOMAIN sl.obj -> Holding("successor", name, sl.obj[name], FALSE)
                [] OTHER -> Frame("successor", name))
      /\ UNCHANGED Rest /\ UNCHANGED <<allow, scope, flow, targets, handlers, inits>>

CloseSuccessor ==
  LET f == Head(rs)
  IN  /\ Ends("successor") /\ input' = Step
      /\ CASE f.null -> Pop
           [] ~f.null /\ f.fresh -> PopInto(LAMBDA sl : SuccessorListAdd(sl, f.name, f.obj))
           [] OTHER -> PopInto(LAMBDA sl : [sl EXCEPT ![f.name] = f.obj])
      /\ UNCHANGED Rest /\ UNCHANGED <<allow, scope, flow, targets, handlers, inits>>

(* <case> and <condition> *)
OpenCase ==
  LET to == Token.at.nodetarget
  IN  /\ Starts("case")
      /\ IF allow
         THEN /\ Push(Holding("case", to, [to |-> to, conds |-> <<>>], TRUE))
              /\ targets' = Append(targets, [to |-> to, scope |-> scope])
         ELSE Push(Frame("case", to)) /\ UNCHANGED targets
      /\ UNCHANGED Rest /\ UNCHANGED <<allow, scope, flow, handlers, inits>>

\* pc_add<flow::Case>: to the front inside of an <add> or a plugin.
CloseCase ==
  LET front == \E k \in DOMAIN Tail(rs) : Tail(rs)[k].el = "add"
  IN  /\ Ends("case") /\ input' = Step
      /\ IF allow /\ ~Head(rs).null
         THEN PopInto(LAMBDA s : SuccessorAdd(s, Head(rs).obj, front))
         ELSE Pop
      /\ UNCHANGED Rest /\ UNCHANGED <<allow, scope, flow, targets, handlers, inits>>

OpenCondition ==
  /\ Starts("condition")
  /\ NeedsFunction(LookupConditional(Token.at.name))
  /\ Push(IF allow THEN Holding("condition", Token.at.name, Token.at, TRUE) ELSE Frame("condition", Token.at.name))
  /\ UNCHANGED <<plan, dir, active, loads, fmaps, visited, todo>>
  /\ UNCHANGED <<allow, scope, flow, targets, handlers, inits>>

CloseCondition ==
  /\ Ends("condition") /\ input' = Step
  /\ IF allow /\ ~Head(rs).null THEN PopInto(LAMBDA cs : CaseAdd(cs, Head(rs).obj)) ELSE Pop
  /\ UNCHANGED Rest /\ UNCHANGED <<allow, scope, flow, targets, handlers, inits>>

\* The states of the other elements only go away.
CloseOther ==
  /\ Ends("depend") \/ Ends("guardprecedence") \/ Ends("errorhandler")
  /\ Pop /\ input' = Step
  /\ UNCHANGED Rest /\ UNCHANGED <<allow, scope, flow, targets, handlers, inits>>

(* Files *)
Between == input = <<>> \/ (Len(input) = 1 /\ input[1].pos > Len(Elements))
AtEnd == input # <<>> /\ input[1].pos > Len(Elements)

\* The end of a plugin that another one depends on: _reader_state = preserve.
\* For progress: the element is read once more.
EndDependAgain ==
  /\ phase = "dir" /\ Len(input) > 1 /\ AtEnd
  /\ rs' = input[1].keep
  /\ input' = [Tail(input) EXCEPT ![1].pos = @ - 1]
  /\ UNCHANGED <<plan, dir, phase, allow, scope, fmaps, visited, todo, flow, targets, handlers, active, inits, loads>>

EndDepend ==
  /\ phase = "dir" /\ Len(input) > 1 /\ AtEnd
  /\ rs' = input[1].keep
  /\ input' = Tail(input)
  /\ UNCHANGED <<plan, dir, phase, allow, scope, fmaps, visited, todo, flow, targets, handlers, active, inits, loads>>

\* The end of the program's file, and Reader::readxmldir: the files in order.
EndMain ==
  /\ phase = "main" /\ AtEnd
  /\ phase' = "dir" /\ input' = <<>> /\ visited' = visited \cup {Main}
  /\ todo' = SelectSeq(plan.files, LAMBDA p : p \in dir)
  /\ rs' = <<Frame("flow", NoName)>>
  /\ UNCHANGED <<plan, dir, allow, scope, fmaps, flow, targets, handlers, active, inits, loads>>

\* For progress: a file that was read stays the next one.
NextFileStays ==
  /\ phase = "dir" /\ todo # <<>> /\ Between
  /\ todo' = IF Head(todo) \in visited THEN todo ELSE Tail(todo)
  /\ input' = IF Head(todo) \in visited THEN <<>> ELSE <<[file |-> Head(todo), pos |-> 1, keep |-> <<>>]>>
  /\ UNCHANGED <<plan, dir, phase, rs, allow, scope, fmaps, visited, flow, targets, handlers, active, inits, loads>>

NextFile ==
  /\ phase = "dir" /\ todo # <<>> /\ Between
  /\ todo' = Tail(todo)
  /\ input' = IF Head(todo) \in visited THEN <<>> ELSE <<[file |-> Head(todo), pos |-> 1, keep |-> <<>>]>>
  /\ UNCHANGED <<plan, dir, phase, rs, allow, scope, fmaps, visited, flow, targets, handlers, active, inits, loads>>

\* AddTarget::execute and SetErrorHandler::execute.
TargetsFound ==
  /\ \A k \in DOMAIN targets : targets[k].to \in DOMAIN flow.nodes /\ targets[k].scope \in DOMAIN fmaps
  /\ \A k \in DOMAIN handlers : /\ handlers[k].err \in DOMAIN flow.nodes
                                /\ flow.nodes[handlers[k].err].iserr

ErrorsSet ==
  FoldLeft(LAMBDA fl, h : [fl EXCEPT !.nodes[h.node].err = h.err], flow, handlers)

\* The end of Reader::read; the guards are numbered, and the flow takes the place of
\* the one before.
Finish ==
  /\ phase = "dir" /\ todo = <<>> /\ Between
  /\ rs' = Tail(rs) /\ input' = <<>>
  /\ \E addresses \in SetToSeqs(Ordered(flow)) :
       LET numbered == AssignMagicNumbers(ErrorsSet, addresses)
       IN  IF TargetsFound /\ AllAssigned(flow, addresses)
           THEN phase' = "done" /\ flow' = numbered /\ active' = {numbered}
           ELSE phase' = "failed" /\ UNCHANGED <<flow, active>>
  /\ UNCHANGED <<plan, dir, allow, scope, fmaps, visited, todo, targets, handlers, inits, loads>>

\* Plugins come and go before the next load.
ChangeDir ==
  /\ phase = "done" /\ loads < MaxLoads
  /\ dir' \in SUBSET ToSet(plan.files)
  /\ phase' = "start"
  /\ UNCHANGED <<plan, input, rs, allow, scope, fmaps, visited, todo, flow, targets, handlers, active, inits, loads>>

FRNext ==
  \/ Load \/ OpenFlow \/ CloseFlow \/ OpenAdd \/ CloseAdd \/ OpenRemove
  \/ OpenLibrary \/ CloseLibraryBad \/ CloseLibrary \/ OpenDependBad \/ OpenDepend
  \/ OpenGuard \/ CloseGuard \/ OpenPrecedence \/ OpenGuardRef \/ CloseGuardRef
  \/ OpenNode \/ CloseNode \/ OpenErrorHandler
  \/ OpenSuccessorList \/ CloseSuccessorList \/ OpenSuccessor \/ CloseSuccessor
  \/ OpenCase \/ CloseCase \/ OpenCondition \/ CloseCondition \/ CloseOther
  \/ EndDepend \/ EndMain \/ NextFile \/ Finish \/ ChangeDir

FRSpec == FRInit /\ [][FRNext]_frvars
FRFairSpec == FRSpec /\ WF_frvars(FRNext)
-----------------------------------------------------------------------------
(***************************************************************************)
(* Properties                                                              *)
(***************************************************************************)
DependsOn(p) ==
  {plan.xml[p][k].at.name : k \in {j \in DOMAIN plan.xml[p] : plan.xml[p][j].open /\ plan.xml[p][j].el = "depend"}}

LibraryNames(fl) == {fl.libs[k].name : k \in DOMAIN fl.libs}
Running == UNION {LibraryNames(fl) : fl \in active}

\* The reader's state is of its type: in particular the flag and the stack are
\* what they were before a file whenever no file is open.
FlowReaderTypes ==
  /\ phase \in {"start", "main", "dir", "done", "failed"}
  /\ \A k \in DOMAIN input : input[k].pos \in 1 .. Len(plan.xml[input[k].file]) + 1
  /\ scope \in DOMAIN fmaps \cup {Main} /\ (phase # "start" => LibraryNames(flow) \subseteq dir)
  /\ input = <<>> /\ phase # "failed" => allow /\ Len(rs) = (IF phase = "dir" THEN 1 ELSE 0)

\* A dependency is not read again while it is being read, and a library is added
\* once: plugins that depend on one another do not read each other for ever.  (The
\* outermost file may be open a second time before the cycle is seen, since only
\* dependencies are tracked; DependencyTracker, Reader::readPluginIfUnread.)
FilesReadOnce ==
  /\ FlowReaderTypes
  /\ \A j, k \in 1 .. Len(input) - 1 : input[j].file = input[k].file => j = k
  /\ \A j, k \in DOMAIN flow.libs : flow.libs[j].name = flow.libs[k].name => j = k

\* The plugins that those in S depend on, S included.
Reach(S) ==
  LET f[n \in 0 .. Cardinality(dir)] == IF n = 0 THEN S ELSE f[n - 1] \cup UNION {DependsOn(p) : p \in f[n - 1] \cap dir}
  IN  f[Cardinality(dir)]

\* Some set of guards each come after another one of it.
Cyclic(order) == \E S \in SUBSET Ordered(flow) \ {{}} : \A g \in S : \E o \in order : o[2] = g /\ o[1] \in S

\* A load fails for a reason only: a file that is missing, a library that cannot be
\* used, plugins that depend on one another or whose guards are in a circle, or an
\* element that is not implemented.
\* Plugins may share a dependency, in whatever order their files are read, and a
\* function is found wherever the file of its plugin is read (ScopedFunctionMaps).
FailsForCause ==
  phase = "failed" =>
    \/ \E p \in dir : ~(DependsOn(p) \subseteq dir)
    \/ \E p \in dir : Broken(p)
    \/ \E p \in dir : p \in Reach(DependsOn(p))
    \/ \E p \in dir : \E k \in DOMAIN plan.xml[p] : plan.xml[p][k].el = "remove"
    \/ Cyclic(flow.order)

\* When the init function of a plugin is called, every plugin it depends on is in the
\* flow and was initialised since it came, whatever the order of the files, and it is not
\* called for a plugin that the running flow has; a flow that takes another one's place
\* has every plugin in the directory, and the same library objects for those that stay
\* (Flow::addLibrary, Flow::getPrevLibrary, ~Flow).
LibrariesInOrder ==
  [][/\ \A p \in DOMAIN inits :
          inits'[p] # inits[p] =>
            /\ inits'[p] = inits[p] + 1 /\ p \notin Running
            /\ DependsOn(p) \subseteq LibraryNames(flow) /\ \A q \in DependsOn(p) : inits[q] > 0
     /\ active' # active =>
          \A fl \in active' :
            /\ LibraryNames(fl) = dir
            /\ \A k \in DOMAIN fl.libs : \A old \in active : \A j \in DOMAIN old.libs :
                 fl.libs[k].name = old.libs[j].name => fl.libs[k].made = old.libs[j].made]_frvars

\* The guards of a running flow have different numbers, and a guard that comes before
\* another one, by a precedence or as its argument, has the smaller one, whatever the
\* addresses; the references of every node are in that order (MagicSorter::numberAll,
\* Node::sortGuards).
MagicNumbersRespectOrder ==
  \A fl \in active :
    /\ \A g, h \in fl.guards : g # h => fl.magic[g] # fl.magic[h]
    /\ \A o \in fl.order : 0 < fl.magic[o[1]] /\ fl.magic[o[1]] < fl.magic[o[2]]
    /\ \A n \in DOMAIN fl.nodes : \A j, k \in DOMAIN fl.nodes[n].refs :
         j < k => fl.magic[fl.nodes[n].refs[j].name] <= fl.magic[fl.nodes[n].refs[k].name]

\* Every load comes to an end.
LoadEnds == (phase = "main") ~> (phase \in {"done", "failed"})
=============================================================================

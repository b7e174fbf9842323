------------------------------- MODULE MCFlow -------------------------------
(***************************************************************************)
(* FlowReader on files that FlowCompile makes of small programs with       *)
(* plugins, and the property that ties the two together: the flow that the *)
(* program runs sends every event where the sources say.                   *)
(***************************************************************************)
EXTENDS FlowReader

C == INSTANCE FlowCompile

(* Building blocks of sources *)
Z(n) == <<0, n>>
Nd(n) == [name |-> n, ext |-> FALSE, abstract |-> FALSE, detached |-> FALSE, refs |-> <<>>]
Abstract(n) == [Nd(n) EXCEPT !.abstract = TRUE]
Ext(d) == [d EXCEPT !.ext = TRUE]
SourceLine(n, c, tos) == [name |-> n, amp |-> FALSE, conc |-> FALSE, conds |-> <<c>>, tos |-> tos]
Both(n, tos) == [SourceLine(n, <<>>, tos) EXCEPT !.conc = TRUE]
Reduce(n, tos) == [Both(n, tos) EXCEPT !.amp = TRUE]
All == <<>>
Empty ==
  [ok |-> TRUE, nodes |-> <<>>, guards |-> <<>>, conds |-> <<>>, mains |-> <<>>, exprs |-> <<>>,
   errs |-> <<>>, terms |-> <<>>, order |-> <<>>, incl |-> <<>>, depend |-> <<>>]

\* A source, a hook with one line, a sink; and an error handler and a guard.
Kernel ==
  [Empty EXCEPT
    !.nodes = <<Nd(Z("src")), Abstract(Z("hook")), [Nd(Z("exe")) EXCEPT !.refs = <<[guard |-> Z("g"), wtype |-> 1, args |-> <<>>]>>],
                Nd(Z("sink")), Nd(Z("oops"))>>,
    !.guards = <<[name |-> Z("g"), ext |-> FALSE]>>,
    !.mains = <<[name |-> Z("src"), to |-> Z("hook"), kind |-> "loop"]>>,
    !.exprs = <<SourceLine(Z("hook"), All, <<Z("exe"), Z("sink")>>)>>,
    !.errs = <<[on |-> Z("exe"), handler |-> Z("oops")]>>]

\* A hook with two lines, the second one concurrent, and a source that runs once.
Choosing ==
  [Kernel EXCEPT
    !.nodes = @ \o <<Abstract(Z("pair")), Nd(Z("log"))>>,
    !.mains = <<[name |-> Z("src"), to |-> Z("hook"), kind |-> "once"]>>,
    !.exprs = <<SourceLine(Z("hook"), Z("c"), <<Z("exe")>>), SourceLine(Z("hook"), Z("d"), <<Z("pair")>>),
                Both(Z("pair"), <<Z("log"), Z("sink")>>)>>]

HookExt == Ext(Abstract(Z("hook")))

\* A plugin with a line for the hook, its own guard after that of the program, and
\* a chain of its own with a hook in it.
Handler ==
  [Empty EXCEPT
    !.nodes = <<HookExt, Ext(Nd(Z("sink"))), Abstract(Z("next")), Nd(Z("x")),
                [Nd(Z("y")) EXCEPT !.refs = <<[guard |-> Z("g"), wtype |-> 1, args |-> <<>>],
                                              [guard |-> Z("h"), wtype |-> 2, args |-> <<Z("g")>>]>>]>>,
    !.guards = <<[name |-> Z("g"), ext |-> TRUE], [name |-> Z("h"), ext |-> FALSE]>>,
    !.exprs = <<SourceLine(Z("hook"), Z("p"), <<Z("x"), Z("next")>>), SourceLine(Z("next"), All, <<Z("y"), Z("sink")>>)>>]

\* One that runs beside whatever the hook does.
Beside == [Empty EXCEPT !.nodes = <<HookExt, Nd(Z("x"))>>, !.exprs = <<Reduce(Z("hook"), <<Z("x")>>)>>]

\* One with two lines for the hook of the program.
TwoLines ==
  [Empty EXCEPT
    !.nodes = <<HookExt, Nd(Z("x")), Nd(Z("y"))>>,
    !.exprs = <<SourceLine(Z("hook"), Z("p"), <<Z("x")>>), SourceLine(Z("hook"), Z("q"), <<Z("y")>>)>>]

\* One that includes the first plugin and has a line for the hook in that one.
Deeper ==
  [Empty EXCEPT
    !.nodes = <<Ext(Abstract(<<1, "next">>)), Nd(Z("z"))>>, !.incl = <<1>>,
    !.exprs = <<SourceLine(<<1, "next">>, Z("q"), <<Z("z")>>)>>]

\* One that says again under which condition the hook of the program is taken.
Covering ==
  [Empty EXCEPT
    !.nodes = <<HookExt, Nd(Z("x"))>>, !.conds = <<Z("d")>>,
    !.exprs = <<SourceLine(Z("hook"), Z("d"), <<Z("x")>>)>>]
OnePair == [Choosing EXCEPT !.exprs = Tail(@)]

\* Two plugins that put the guards of the program in opposite orders, and one that
\* puts a third guard in between.
Guarded == [Kernel EXCEPT !.guards = @ \o <<[name |-> Z("h"), ext |-> FALSE]>>]
After(g, h) ==
  [Empty EXCEPT
    !.nodes = <<[Nd(Z("x")) EXCEPT !.refs = <<[guard |-> Z(h), wtype |-> 1, args |-> <<Z(g)>>],
                                              [guard |-> Z(g), wtype |-> 1, args |-> <<>>]>>]>>,
    !.guards = <<[name |-> Z("g"), ext |-> TRUE], [name |-> Z("h"), ext |-> TRUE]>>]
Between3 ==
  [After("h", "g") EXCEPT !.guards = Append(@, [name |-> Z("k"), ext |-> FALSE]),
    !.order = <<<<Z("h"), Z("k")>>, <<Z("k"), Z("g")>>>>]

\* A plugin that only depends on others.
Needs(ps) == [Empty EXCEPT !.nodes = <<Nd(Z("own"))>>, !.depend = ps]

Good(main, plug) == [main |-> main, plug |-> plug]
Written ==
  <<Good(Kernel, <<Handler, TwoLines, Deeper>>),
    Good(Kernel, <<Beside, Handler>>),
    Good(Choosing, <<Handler, TwoLines>>),
    Good(OnePair, <<Covering>>),
    Good(Guarded, <<After("g", "h"), After("h", "g")>>), Good(Guarded, <<Between3>>),
    Good(Kernel, <<Needs(<<3>>), Needs(<<3>>), Needs(<<>>)>>),
    Good(Kernel, <<Needs(<<2>>), Needs(<<3>>), Needs(<<2>>)>>)>>

\* The files, compiled.
XmlOf(k, f) == IF f = 0 THEN C!ProgramXml(Written[k].main) ELSE C!PluginXml(Written[k].main, Written[k].plug, f)
Compiled(k) ==
  LET x == [f \in 0 .. Len(Written[k].plug) |-> XmlOf(k, f)]
  IN  [id |-> k, broken |-> {}, files |-> SelectSeq([f \in 1 .. Len(Written[k].plug) |-> f], LAMBDA f : C!Compiles(x[f])),
       xml |-> [f \in DOMAIN x |-> C!Tokens(x[f])]]

\* Two of the programs also with a library that cannot be loaded: that of a plugin that
\* others depend on or include, or that of one that depends on or includes another.
MCPlans ==
  {Compiled(k) : k \in DOMAIN Written} \cup {[Compiled(k) EXCEPT !.broken = {f}] : k \in {1, 7}, f \in {1, 3}}
-----------------------------------------------------------------------------
\* What the sources say: the nodes an event goes to from n, each as often as it is
\* named; v is the set of conditions that hold.
RECURSIVE Targets(_, _, _, _)
Targets(fm, pg, v, n) ==
  LET lines == fm[n].lines
      holds(k) == \A i \in DOMAIN lines[k].conds :
                    lines[k].conds[i] = C!Star \/ <<lines[k].conds[i], i>> \in v
      hit == {k \in DOMAIN lines : holds(k)}
  IN  CASE fm[n].kind \in {"source", "node"} -> IF n \in ToSet(pg.terms) THEN <<>> ELSE <<n>>
        [] fm[n].kind = "conc" -> FlattenSeq([k \in DOMAIN lines |-> Targets(fm, pg, v, lines[k].to)])
        [] fm[n].kind = "choice" /\ hit # {} ->
             Targets(fm, pg, v, lines[CHOOSE k \in hit : \A j \in hit : k <= j].to)
        [] OTHER -> <<>>

Conditions(pg) == {<<c, 1>> : c \in UNION {ToSet(pg.exprs[k].conds) : k \in DOMAIN pg.exprs} \ {C!Star}}

Again(pg, n) == \E k \in DOMAIN pg.mains : pg.mains[k].name = n /\ pg.mains[k].kind = "loop"

\* The concrete nodes of a whole program, and where an event goes from each.
RoutesOf(pg) ==
  LET fm == C!BuildFlowMap(pg)
      want(n, v) == (IF fm[n].to = NoName THEN <<>> ELSE Targets(fm, pg, v, fm[n].to))
                    \o (IF Again(pg, n) THEN <<n>> ELSE <<>>)
  IN  [n \in {x \in {pg.nodes[k].name : k \in DOMAIN pg.nodes} : C!IsConcrete(fm, pg, x)} |->
        [v \in SUBSET Conditions(pg) |-> want(n, v)]]

\* The orders plugins can be loaded in, each after those that it includes.
Orders(k) ==
  LET f == DOMAIN Written[k].plug
      incl(p) == ToSet(Written[k].plug[p].incl)
  IN  {s \in UNION {[1 .. n -> f] : n \in 0 .. Cardinality(f)} :
        \A j \in DOMAIN s : incl(s[j]) \subseteq {s[i] : i \in 1 .. j - 1} /\ \A i \in 1 .. j - 1 : s[i] # s[j]}
RouteTable == [k \in DOMAIN Written |-> [o \in Orders(k) |-> RoutesOf(C!WithPlugins(Written[k].main, Written[k].plug, o))]]

Times(s, t) == Cardinality({k \in DOMAIN s : s[k] = t})
Fired(nd, v, t) == Cardinality({n \in DOMAIN nd.succ : FirstSatisfied(nd.succ[n], v) = {t}})

\* Once a load is done every concrete node of the whole program is in the flow, and
\* whichever conditions hold an event goes from it to the nodes that the sources
\* name, as often as they name them, and to no others: what the compiler makes of
\* paths, negations and differences, and the reader of additions, is right together
\* (emit_program_xml', emit_plugin_xml, Successor::add, Node::get_successors).
RoutesAsWritten ==
  phase = "done" =>
    \A fl \in active :
      LET routes == RouteTable[plan.id][[j \in DOMAIN fl.libs |-> fl.libs[j].name]]
      IN  \A n \in DOMAIN routes :
            /\ n \in DOMAIN fl.nodes
            /\ \A v \in DOMAIN routes[n] : \A t \in DOMAIN fl.nodes :
                 Fired(fl.nodes[n], v, t) = Times(routes[n][v], t)
=============================================================================

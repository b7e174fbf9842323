----------------------------- MODULE FlowCompile -----------------------------
(***************************************************************************)
(* The compiler, from a parsed program to the XML that the reader gets:    *)
(* a plugin is put before the program it extends, the expressions become a *)
(* map from nodes to what follows them, the paths through abstract nodes   *)
(* become successors with cases, and a plugin's file is the difference of  *)
(* the program without and with it.                                        *)
(*                                                                         *)
(* A name is a pair <<plugin, name>>, 0 standing for the program itself.   *)
(* All nodes take the same arguments, so no argument is renumbered.        *)
(* A program is a record of the sequences                                  *)
(*   nodes   [name, ext, abstract, detached, refs], refs of [guard, wtype, args] *)
(*   guards  [name, ext]        conds  external conditions                 *)
(*   mains   [name, to, kind]   exprs  [name, amp, conc, conds, tos]       *)
(*   errs    [on, handler]      terms  terminated nodes                    *)
(*   order   pairs of guards    incl   plugins whose text is included      *)
(*   depend  declared dependencies                                         *)
(***************************************************************************)
EXTENDS FlowGraph

Star == NoName           \* no condition on an argument

Names(s) == {s[k].name : k \in DOMAIN s}
MapSeq(F(_), s) == [k \in DOMAIN s |-> F(s[k])]
FoldSeqL(F(_, _), base, s) == FoldLeft(F, base, s)

(* Flatten *)
\* flatten_plugin': what is not external gets the plugin's name.
Qualified(p, ext, n) == IF n = NoName \/ n \in ext THEN n ELSE <<p, n[2]>>

ExtNames(s) == {s[k].name : k \in {j \in DOMAIN s : s[j].ext}}

FlattenPlugin(p, pg) ==
  LET q(n) == Qualified(p, ExtNames(pg.nodes), n)
      g(n) == Qualified(p, ExtNames(pg.guards), n)
      c(n) == Qualified(p, ToSet(pg.conds), n)
      ref(r) == [r EXCEPT !.guard = g(@), !.args = MapSeq(g, @)]
  IN  [pg EXCEPT
         !.nodes = MapSeq(LAMBDA nd : [nd EXCEPT !.name = q(@), !.refs = MapSeq(ref, @)], @),
         !.guards = MapSeq(LAMBDA gd : [gd EXCEPT !.name = g(@)], @),
         !.mains = MapSeq(LAMBDA m : [m EXCEPT !.name = q(@), !.to = q(@)], @),
         !.exprs = MapSeq(LAMBDA e : [e EXCEPT !.name = q(@), !.conds = MapSeq(c, @), !.tos = MapSeq(q, @)], @),
         !.errs = MapSeq(LAMBDA e : [e EXCEPT !.on = q(@), !.handler = q(@)], @),
         !.terms = MapSeq(q, @),
         !.order = MapSeq(LAMBDA o : <<g(o[1]), g(o[2])>>, @)]

\* program_append: the plugin's declarations first, its externals checked.
Own(s) == SelectSeq(s, LAMBDA x : ~x.ext)

ProgramAppend(pg, to) ==
  [ok     |-> to.ok /\ ExtNames(pg.nodes) \subseteq Names(Own(to.nodes))
                    /\ ExtNames(pg.guards) \subseteq Names(Own(to.guards)),
   nodes  |-> Own(pg.nodes) \o to.nodes,   guards |-> Own(pg.guards) \o to.guards,
   mains  |-> pg.mains \o to.mains,        exprs  |-> pg.exprs \o to.exprs,
   errs   |-> pg.errs \o to.errs,          terms  |-> pg.terms \o to.terms,
   order  |-> pg.order \o to.order]

\* remove_reductions: "n &= x" makes n concurrent, x being the first.
PutIn(pg, amp) ==
  LET same(e) == e.name = amp.name
      hit == SelectSeq(pg.exprs, same)
      old == IF hit = <<>> THEN [amp EXCEPT !.tos = <<>>, !.conc = TRUE] ELSE hit[1]
      new == [old EXCEPT !.tos = amp.tos \o @, !.conc = TRUE, !.amp = FALSE]
  IN  [pg EXCEPT !.ok = @ /\ Len(hit) < 2 /\ (old.conc \/ Len(old.tos) < 2),
                 !.exprs = <<new>> \o SelectSeq(@, LAMBDA e : ~same(e))]

RemoveReductions(pg) ==
  FoldSeqL(PutIn, [pg EXCEPT !.exprs = SelectSeq(@, LAMBDA e : ~e.amp)],
           SelectSeq(pg.exprs, LAMBDA e : e.amp))

\* get_implicit_gr_orderings: a guard after those its arguments name.
ImplicitOrder(nodes) ==
  FlattenSeq(MapSeq(LAMBDA nd : FlattenSeq(MapSeq(LAMBDA r : MapSeq(LAMBDA a : <<a, r.guard>>, r.args),
                                                  nd.refs)), nodes))

NoDuplicates(s) == Cardinality(Names(s)) = Len(s)

Flatten(pg) ==
  LET r == RemoveReductions(pg)
  IN  [r EXCEPT !.order = @ \o ImplicitOrder(r.nodes),
                !.ok = @ /\ NoDuplicates(r.nodes) /\ NoDuplicates(r.guards)]

\* The program with the plugins of a list put before it, one after another.
WithPlugins(main, plug, list) ==
  Flatten(FoldSeqL(LAMBDA pg, p : ProgramAppend(FlattenPlugin(p, plug[p]), pg),
                   [main EXCEPT !.ok = TRUE], list))

(* Flow: the map from nodes to flows; a reference is a name, NoName a fresh null *)
NullFlow == [kind |-> "null", to |-> NoName, err |-> NoName, lines |-> <<>>]

BuildMap(pg) == [n \in Names(pg.nodes) \cup {NoName} |-> NullFlow]

Broken(fm) == [fm EXCEPT ![NoName].kind = "error"]
IsBroken(fm) == fm[NoName].kind = "error"
IsNull(fm, n) == fm[n].kind = "null"

\* addtoend: r becomes what follows the ends of n.  An end is a reference to a
\* null flow, of a node that nothing was said of yet too.
RECURSIVE AddToEnd(_, _, _, _), AddToLines(_, _, _, _, _)
AddToEnd(fm, seen, r, n) ==
  CASE IsBroken(fm) \/ IsNull(fm, r) -> fm
    [] n \in seen \/ fm[n].kind \in {"null", "source"} -> Broken(fm)
    [] fm[n].kind = "node" ->
         IF IsNull(fm, fm[n].to) THEN [fm EXCEPT ![n].to = r]
         ELSE AddToEnd(fm, seen \cup {n}, r, fm[n].to)
    [] OTHER -> AddToLines(fm, seen \cup {n}, r, n, 1)

AddToLines(fm, seen, r, n, k) ==
  IF k > Len(fm[n].lines) THEN fm
  ELSE LET to == fm[n].lines[k].to
       IN  AddToLines(IF IsNull(fm, to) THEN [fm EXCEPT ![n].lines[k].to = r]
                      ELSE AddToEnd(fm, seen, r, to), seen, r, n, k + 1)

\* commit_conseq: the chain of an expression, from its end; r follows tos[k].
RECURSIVE CommitConseq(_, _, _, _, _)
CommitConseq(fm, n, tos, k, r) ==
  IF k = 0 \/ IsBroken(fm) THEN fm
  ELSE LET h == tos[k]
           next == CASE fm[h].kind \in {"choice", "conc"} -> AddToEnd(fm, {n}, r, h)
                     [] fm[h].kind = "null" -> IF k = Len(tos) THEN fm
                                               ELSE [fm EXCEPT ![h] = [NullFlow EXCEPT !.kind = "node", !.to = r]]
                     [] fm[h].kind = "node" /\ IsNull(fm, fm[h].to) -> [fm EXCEPT ![h].to = r]
                     [] OTHER -> Broken(fm)
       IN  CommitConseq(next, n, tos, k - 1, h)

AddChoice(fm, e) ==
  IF fm[e.name].kind \notin {"null", "choice"} THEN Broken(fm)
  ELSE LET done == CommitConseq(fm, e.name, e.tos, Len(e.tos), NoName)
           line == [conds |-> e.conds, to |-> e.tos[1]]
       IN  [done EXCEPT ![e.name] = [NullFlow EXCEPT !.kind = "choice", !.lines = <<line>> \o fm[e.name].lines]]

AddConcurrent(fm, e) ==
  IF ~IsNull(fm, e.name) THEN Broken(fm)
  ELSE [fm EXCEPT ![e.name] = [NullFlow EXCEPT !.kind = "conc",
                                 !.lines = MapSeq(LAMBDA t : [conds |-> <<>>, to |-> t], e.tos)]]

AddExpr(fm, e) == IF IsBroken(fm) THEN fm ELSE IF e.conc THEN AddConcurrent(fm, e) ELSE AddChoice(fm, e)

AddMain(fm, m) ==
  IF IsNull(fm, m.name) THEN [fm EXCEPT ![m.name] = [NullFlow EXCEPT !.kind = "source", !.to = m.to]]
  ELSE Broken(fm)

AddNamed(fm) == [n \in DOMAIN fm |-> IF n # NoName /\ IsNull(fm, n) THEN [fm[n] EXCEPT !.kind = "node"] ELSE fm[n]]

\* add_error: the handler may be an expression with one alternative.
AddError(fm, e) ==
  LET f == fm[e.handler]
      single == f.kind \in {"choice", "conc"} /\ Len(f.lines) = 1
      h == IF single THEN f.lines[1].to ELSE e.handler
  IN  IF /\ f.kind = "node" \/ single
         /\ fm[e.on].kind \in {"source", "node"} /\ fm[e.on].err = NoName
      THEN [fm EXCEPT ![e.on].err = h]
      ELSE Broken(fm)

\* find_error_handlers
RECURSIVE HandlerNames(_, _)
HandlerNames(fm, n) == {n} \cup UNION {HandlerNames(fm, fm[n].lines[k].to) : k \in DOMAIN fm[n].lines}

ErrHandlers(fm, pg) == UNION {HandlerNames(fm, pg.errs[k].handler) : k \in DOMAIN pg.errs}

\* build_flow_map: the last expression first.
BuildFlowMap(pg) ==
  LET exprs == FoldSeqL(AddExpr, BuildMap(pg), Reverse(pg.exprs))
      mains == FoldSeqL(AddMain, exprs, pg.mains)
  IN  IF ~pg.ok \/ IsBroken(exprs) \/ IsBroken(mains) THEN Broken(BuildMap(pg))
      ELSE FoldSeqL(AddError, AddNamed(mains), pg.errs)

(* Conditions of a case: for each argument, a set of <<condition, negated>> *)
CanonCase(conds) == MapSeq(LAMBDA c : IF c = Star THEN {} ELSE {<<c, FALSE>>}, conds)

AndCanon(c1, c2) ==
  [k \in 1 .. (IF Len(c1) > Len(c2) THEN Len(c1) ELSE Len(c2)) |->
     (IF k <= Len(c1) THEN c1[k] ELSE {}) \cup (IF k <= Len(c2) THEN c2[k] ELSE {})]

\* negate_canon_condition: none for a line without conditions, and an exception
\* for a line with more than one.
Negations(c) ==
  {m \in (DOMAIN c) \X UNION ToSet(c) : m[2] \in c[m[1]]}

Unit(c) == MapSeq(LAMBDA s : {}, c)

NegateCanon(c) ==
  LET ns == Negations(c)
  IN  IF ns = {} THEN Unit(c)
      ELSE LET n == CHOOSE m \in ns : TRUE
           IN  [Unit(c) EXCEPT ![n[1]] = {<<n[2][1], ~n[2][2]>>}]

AlwaysFalse(c) == \E k \in DOMAIN c : \E x \in c[k] : <<x[1], ~x[2]>> \in c[k]

GenCond(c) ==
  FlattenSeq([k \in DOMAIN c |-> MapSeq(LAMBDA x : [name |-> x[1], argno |-> k, neg |-> x[2]], SetToSeq(c[k]))])

(* XML *)
El(tag, at, kids) == [tag |-> tag, at |-> at, kids |-> kids]
BadXml == El("error", NoName, <<>>)
SameHere == El("samehere", NoName, <<>>)

RECURSIVE HasTag(_, _)
HasTag(x, tag) == x.tag = tag \/ \E k \in DOMAIN x.kids : HasTag(x.kids[k], tag)

CaseOf(n, c) == El("case", [nodetarget |-> n], MapSeq(LAMBDA cd : El("condition", cd, <<>>), GenCond(c)))

\* prod: the successors of two lines side by side, the first line's cases first.
Prod(ll1, ll2) ==
  [k \in 1 .. (IF Len(ll1) > Len(ll2) THEN Len(ll1) ELSE Len(ll2)) |->
     (IF k <= Len(ll2) THEN ll2[k] ELSE <<>>) \o (IF k <= Len(ll1) THEN ll1[k] ELSE <<>>)]

\* gen_succ': a sequence of sequences of cases, one for each successor.
RECURSIVE GenSucc(_, _, _, _)
GenSucc(fm, pg, cc, n) ==
  LET abstract == \E k \in DOMAIN pg.nodes : pg.nodes[k].name = n /\ pg.nodes[k].abstract
      lines == fm[n].lines
      \* what onfold has gathered before line k
      neg[k \in 0 .. Len(lines)] ==
        IF k = 0 THEN Unit(lines[1].conds) ELSE AndCanon(neg[k - 1], NegateCanon(CanonCase(lines[k].conds)))
      line(k) == GenSucc(fm, pg, AndCanon(AndCanon(cc, CanonCase(lines[k].conds)), neg[k - 1]), lines[k].to)
  IN  CASE fm[n].kind \in {"source", "node"} ->
             IF n \in ToSet(pg.terms) \/ AlwaysFalse(cc) THEN <<>>
             ELSE << <<IF abstract THEN BadXml ELSE CaseOf(n, cc)>> >>
        [] fm[n].kind = "choice" ->
             IF \E k \in DOMAIN lines : Cardinality(Negations(CanonCase(lines[k].conds))) > 1 THEN << <<BadXml>> >>
             ELSE FoldSeqL(Prod, << <<>> >>, [k \in DOMAIN lines |-> line(Len(lines) + 1 - k)])
        [] fm[n].kind = "conc" -> FlattenSeq([k \in DOMAIN lines |-> GenSucc(fm, pg, cc, lines[k].to)])
        [] OTHER -> <<>>

\* min_ns: a plugin gives way to the one it uses.
MinNs(uses, ns1, ns2) ==
  IF <<ns1, ns2>> \in uses \/ {<<ns1, 0>>, <<0, ns2>>} \subseteq uses THEN ns2 ELSE ns1

CaseNs(c) == IF c.tag = "error" THEN 0 ELSE c.at.nodetarget[1]

SuccNs(uses, cases) ==
  FoldSeqL(LAMBDA ns, c : MinNs(uses, ns, CaseNs(c)), CaseNs(Last(cases)), Tail(Reverse(cases)))

\* gen_succ: names are numbered in each namespace, from the last successor.
SuccessorEls(uses, ll) ==
  LET s == Reverse(SelectSeq(ll, LAMBDA cases : cases # <<>>))
      ns(k) == SuccNs(uses, s[k])
      nth(k) == Cardinality({j \in 1 .. k - 1 : ns(j) = ns(k)})
  IN  Reverse([k \in DOMAIN s |-> El("successor", [name |-> <<ns(k), nth(k)>>], s[k])])

Erste == <<99, 0>>     \* the successor that starts a source again

(* emit_program_xml' *)
IsConcrete(fm, pg, n) ==
  /\ fm[n].kind \in {"source", "node"}
  /\ \A k \in DOMAIN pg.nodes : pg.nodes[k].name = n => ~pg.nodes[k].abstract

EmitNode(fm, pg, uses, nd) ==
  LET main == SelectSeq(pg.mains, LAMBDA m : m.name = nd.name)
      again == IF main # <<>> /\ Head(main).kind = "loop"
               THEN <<El("successor", [name |-> Erste], <<CaseOf(nd.name, <<>>)>>)>> ELSE <<>>
      succ == IF fm[nd.name].to = NoName THEN <<>>
              ELSE SuccessorEls(uses, GenSucc(fm, pg, <<>>, fm[nd.name].to))
      eh == fm[nd.name].err
  IN  El("node", [name |-> nd.name, external |-> nd.ext, source |-> main # <<>> /\ Head(main).kind # "door", door |-> main # <<>> /\ Head(main).kind = "door",
                  iserr |-> nd.name \in ErrHandlers(fm, pg), detached |-> nd.detached],
         MapSeq(LAMBDA r : El("guardref", [name |-> r.guard, wtype |-> r.wtype, late |-> r.args # <<>>], <<>>), nd.refs)
         \o (IF eh = NoName \/ eh \in ToSet(pg.terms) THEN <<>> ELSE <<El("errorhandler", [name |-> eh], <<>>)>>)
         \o <<El("successorlist", NoName, succ \o again)>>)

\* CycleFind.detect: an edge is refused when its source can be reached from its end.
RECURSIVE Reaches(_, _, _)
Reaches(edges, x, y) == x = y \/ \E e \in {d \in edges : d[1] = x} : Reaches(edges \ {e}, e[2], y)

DetectCycle(order) ==
  \E k \in DOMAIN order : Reaches({order[j] : j \in 1 .. k - 1}, order[k][2], order[k][1])

\* What the elements inside of <flow> are: guards, precedences, nodes.
EmitProgram(pg, uses) ==
  LET fm == BuildFlowMap(pg)
      nodes == SelectSeq(pg.nodes, LAMBDA nd : IsConcrete(fm, pg, nd.name))
  IN  IF IsBroken(fm) \/ DetectCycle(pg.order) THEN <<BadXml>>
      ELSE MapSeq(LAMBDA g : El("guard", [name |-> g.name], <<>>), pg.guards)
           \o MapSeq(LAMBDA o : El("guardprecedence", [before |-> o[1], after |-> o[2]], <<>>), pg.order)
           \o MapSeq(LAMBDA nd : EmitNode(fm, pg, uses, nd), nodes)

Key(x) == <<x.tag, IF x.tag = "guardprecedence" THEN <<x.at.before, x.at.after>> ELSE x.at>>
KeyName(x) == IF x.tag = "node" THEN <<x.tag, x.at.name>> ELSE Key(x)

(* Xml.diff *)
\* Successors are sorted by name; the elements of the other tags are in order.
NameBefore(x, y) ==
  \/ x.at.name[1] < y.at.name[1]
  \/ x.at.name[1] = y.at.name[1] /\ x.at.name[2] < y.at.name[2]

SortedKids(x) == IF x.tag = "successorlist" THEN SortSeq(x.kids, NameBefore) ELSE x.kids

Alike(x, y) == x.tag = y.tag /\ x.at = y.at

\* add_merge: what only the longer one has is added.
CondAdd(acc, ll) == IF acc = <<>> THEN ll ELSE <<El("add", NoName, acc)>> \o ll

RECURSIVE AddMerge(_, _, _)
AddMerge(acc, shorter, longer) ==
  CASE shorter = <<>> -> CondAdd(acc \o longer, <<>>)
    [] shorter # <<>> /\ longer = <<>> -> <<El("remove", NoName, shorter)>> \o CondAdd(acc, <<>>)
    [] OTHER -> IF Alike(Head(shorter), Head(longer))
                THEN CondAdd(acc, <<Head(longer)>> \o AddMerge(<<>>, Tail(shorter), Tail(longer)))
                ELSE AddMerge(Append(acc, Head(longer)), shorter, Tail(longer))

\* diffhandler
DiffHandler(b, a) ==
  IF Alike(b, a) /\ b.tag \in {"successorlist", "successor"}
  THEN El(b.tag, b.at, AddMerge(<<>>, SortedKids(b), SortedKids(a)))
  ELSE BadXml

RECURSIVE Diff(_, _)
Diff(b, a) ==
  LET kb == SortedKids(b)
      ka == SortedKids(a)
      res == [k \in DOMAIN kb |-> Diff(kb[k], ka[k])]
  IN  IF Alike(b, a) /\ Len(kb) = Len(ka)
      THEN IF \A k \in DOMAIN res : res[k] = SameHere THEN SameHere ELSE El(b.tag, b.at, res)
      ELSE DiffHandler(b, a)

\* Xml.filter: what is the same goes.
RECURSIVE Filtered(_)
Filtered(x) == [x EXCEPT !.kids = MapSeq(Filtered, SelectSeq(x.kids, LAMBDA y : y # SameHere))]

MakeExternal(x) == IF x.tag = "node" THEN [x EXCEPT !.at.external = TRUE] ELSE x

\* emit_plugin_xml
EmitPlugin(p, depends, bef, aft) ==
  LET keys == {KeyName(bef[k]) : k \in DOMAIN bef}
      old == SelectSeq(aft, LAMBDA x : KeyName(x) \in keys)
      new == SelectSeq(aft, LAMBDA x : KeyName(x) \notin keys)
      changes == SelectSeq([k \in DOMAIN bef |-> Diff(bef[k], old[k])], LAMBDA x : x # SameHere)
      library == El("library", [name |-> p], MapSeq(LAMBDA d : El("depend", [name |-> d], <<>>), depends))
  IN  IF Len(old) # Len(bef) THEN BadXml
      ELSE El("plugin", NoName, <<library>> \o new \o MapSeq(LAMBDA x : MakeExternal(Filtered(x)), changes))

(* xmain *)
ProgramXml(main) == El("flow", NoName, EmitProgram(WithPlugins(main, <<>>, <<>>), {}))

\* The plugins that a plugin's source has: those it includes, then itself.
PluginXml(main, plug, p) ==
  LET list == Append(plug[p].incl, p)
      uses == {<<q, 0>> : q \in ToSet(list)} \cup {<<p, q>> : q \in ToSet(list)}
      bef == WithPlugins(main, plug, plug[p].incl)
      aft == WithPlugins(main, plug, list)
  IN  EmitPlugin(p, plug[p].incl \o plug[p].depend, EmitProgram(bef, uses), EmitProgram(aft, uses))

Compiles(x) == ~HasTag(x, "error")

\* What the parser reports to the reader.
RECURSIVE Tokens(_)
Tokens(x) ==
  <<[open |-> TRUE, el |-> x.tag, at |-> x.at]>> \o FlattenSeq(MapSeq(Tokens, x.kids))
  \o <<[open |-> FALSE, el |-> x.tag, at |-> NoName]>>
=============================================================================

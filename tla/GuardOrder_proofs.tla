-------------------------- MODULE GuardOrder_proofs --------------------------
(***************************************************************************)
(* Why events do not wait for each other in a circle.  The order in which  *)
(* HeldAtomic::compare and get_keys_sort put the guards of an event        *)
(* (GuardOrder) is one order of all atomics, as long as no node refers to  *)
(* one guard with two access types, with keys that are computed late or    *)
(* with keys that turn out equal; and events that acquire their guards in  *)
(* one order of all atomics never wait for each other in a circle          *)
(* (EventGuards).  MCGuards makes the plans out of the nodes; here its     *)
(* Nodes, and what they refer to, are any.                                 *)
(***************************************************************************)
EXTENDS MCGuards, EventGuards_proofs, WellFoundedInduction

-----------------------------------------------------------------------------
(***************************************************************************)
(* Events that acquire in one order.                                       *)
(***************************************************************************)
\* R is an order of the atomics: <<b, a>> is in it when b comes after a.
IsOrder(R) ==
    /\ \A a \in Atom : <<a, a>> \notin R
    /\ \A a, b, c \in Atom : <<a, b>> \in R /\ <<b, c>> \in R => <<a, c>> \in R

\* The atomics of s, where they are not NULL, are in this order.
InOrder(R, s) ==
    \A i, j \in DOMAIN s : 
        i < j /\ s[i].atom # Null /\ s[j].atom # Null => <<s[j].atom, s[i].atom>> \in R

\* A finite set of atomics has one that no other of the set comes after.
LEMMA LastOf ==
    ASSUME NEW R, IsOrder(R), NEW T \in SUBSET Atom, IsFiniteSet(T), T # {}
    PROVE  \E a \in T : \A b \in T : <<b, a>> \notin R
  <1> DEFINE after(a) == {b \in T : <<b, a>> \in R}
             N == {Cardinality(after(a)) : a \in T}
  <1>1. ASSUME NEW a \in T PROVE IsFiniteSet(after(a)) /\ Cardinality(after(a)) \in Nat
    BY FS_Subset, FS_CardinalityType
  <1>2. N \subseteq Nat /\ N # {}
    BY <1>1
  <1>3. PICK n \in N : \A m \in N : ~ (<<m, n>> \in OpToRel(<, Nat))
    BY <1>2, NatLessThanWellFounded, WFMin
  <1>4. PICK a \in T : n = Cardinality(after(a))
    BY <1>3
  <1>5. ASSUME NEW b \in T, <<b, a>> \in R PROVE FALSE
    <2>1. after(b) \subseteq after(a)
      BY <1>5 DEF IsOrder
    <2>2. b \in after(a) /\ b \notin after(b)
      BY <1>5 DEF IsOrder
    <2>3. after(b) \in SUBSET after(a) /\ after(b) # after(a)
      BY <2>1, <2>2
    <2>4. /\ IsFiniteSet(after(a)) /\ Cardinality(after(a)) \in Nat
          /\ Cardinality(after(b)) \in Nat
      BY <1>1
    <2> HIDE DEF after
    <2>5. Cardinality(after(b)) < Cardinality(after(a))
      BY <2>3, <2>4, FS_Subset
    <2>6. Cardinality(after(b)) \in N
      OBVIOUS
    <2>7. <<Cardinality(after(b)), n>> \in OpToRel(<, Nat)
      BY <2>4, <2>5, <1>4 DEF OpToRel
    <2> QED
      BY <2>6, <2>7, <1>3
  <1> QED
    BY <1>5

\* Every holder has its atomics in the order R.
HoldersInOrder(R) == \A x \in Event : InOrder(R, ha[x])

\* A step leaves an event its holder, at most with some atomics forgotten, or
\* gives it a new one.
LEMMA HolderSteps ==
    ASSUME TypeOK, [Next]_vars, NEW x \in Event
    PROVE  \/ ha'[x] = <<>> 
           \/ \E p \in Plan : ha'[x] = Holder(p)
           \/ /\ DOMAIN ha'[x] = DOMAIN ha[x]
              /\ \A i \in DOMAIN ha[x] : ha'[x][i].atom \in {ha[x][i].atom, Null}
  <1> DEFINE Kept(s) == /\ DOMAIN s = DOMAIN ha[x] 
                        /\ \A i \in DOMAIN s : s[i].atom \in {ha[x][i].atom, Null}
  <1>1. Kept(ha[x])
    OBVIOUS
  <1>2. \A k : Kept(TakeIt(ha[x], k)) /\ Kept(ForgetIt(ha[x], k))
    <2> SUFFICES ASSUME NEW k PROVE Kept(TakeIt(ha[x], k)) /\ Kept(ForgetIt(ha[x], k))
      OBVIOUS
    <2>1. \A i \in DOMAIN ha[x] : ha[x][i] \in HeldAtomic
      BY ElementOfSeq DEF TypeOK
    <2>2. \A r \in HeldAtomic : /\ [r EXCEPT !.haveit = TRUE].atom = r.atom
                                /\ [r EXCEPT !.atom = Null].atom = Null
      BY DEF HeldAtomic
    <2> QED
      BY <2>1, <2>2 DEF TakeIt, ForgetIt
  <1>3. ha \in [Event -> Seq(HeldAtomic)]
    BY DEF TypeOK
  <1> HIDE DEF Kept
  <1>4. ASSUME NEW e \in Event, Advance(e)
        PROVE  Kept(ha'[x]) \/ ha'[x] = <<>> \/ \E p \in Plan : ha'[x] = Holder(p)
    <2>1. CASE AcquireAtomic(e)
      BY <1>1, <1>2, <1>3, <2>1 DEF AcquireAtomic
    <2>2. CASE CreateSuccessors(e)
      <3>1. PICK S \in SUBSET {y \in Event : pc[y] = "free"} : \E f \in [S -> Plan] :
                   ha' = [y \in Event |-> IF y \in S THEN Holder(f[y]) ELSE ha[y]]
        BY <2>2 DEF CreateSuccessors
      <3>2. PICK f \in [S -> Plan] : 
                   ha' = [y \in Event |-> IF y \in S THEN Holder(f[y]) ELSE ha[y]]
        BY <3>1
      <3> QED
        BY <1>1, <3>2
    <2>3. CASE ReleaseAtomic(e)
      <3>1. PICK Rel : 
                ha' = [y \in Event |->
                      IF y = e THEN ForgetIt(ha[e], idx[e])
                      ELSE IF y \in Rel 
                      THEN TakeIt(ha[y], HandOverIndex(y, ha[e][idx[e]].atom))
                      ELSE ha[y]]
        BY <2>3 DEF ReleaseAtomic
      <3> QED
        BY <1>1, <1>2, <3>1
    <2>4. CASE EndHandler(e)
      BY <1>1, <1>3, <2>4 DEF EndHandler
    <2>5. CASE ha' = ha
      BY <1>1, <2>5
    <2> QED
      BY <1>4, <2>1, <2>2, <2>3, <2>4, <2>5
      DEF Advance, Acquire, Release, SkipAtomic, WaitForAtomic, AcquiredAll, Execute, 
          BeginRelease, SkipRelease, EndRelease, EndEarlyRelease
  <1>5. ASSUME ha' = ha PROVE Kept(ha'[x])
    BY <1>1, <1>5
  <1>6. Kept(ha'[x]) \/ ha'[x] = <<>> \/ \E p \in Plan : ha'[x] = Holder(p)
    <2>1. ASSUME NEW e \in Event, SetData(e) \/ EarlyRelease(e) PROVE ha' = ha
      BY <2>1 DEF SetData, EarlyRelease
    <2>2. OutOfEvents \/ UNCHANGED vars => ha' = ha
      BY DEF OutOfEvents, vars
    <2>3. \/ \E e \in Event : Advance(e) \/ SetData(e) \/ EarlyRelease(e)
          \/ OutOfEvents \/ UNCHANGED vars
      BY DEF Next
    <2>4. (\E e \in Event : Advance(e)) \/ ha' = ha
      BY <2>1, <2>2, <2>3
    <2> QED
      BY <1>4, <1>5, <2>4
  <1> QED
    BY <1>6 DEF Kept

LEMMA NewHolderInOrder ==
    ASSUME NEW R, NEW p \in Plan, InOrder(R, p)
    PROVE  InOrder(R, Holder(p))
  BY DEF InOrder, Holder

LEMMA HoldersStayInOrder ==
    ASSUME NEW R, \A p \in Plan : InOrder(R, p)
    PROVE  /\ Init => HoldersInOrder(R)
           /\ TypeOK /\ HoldersInOrder(R) /\ [Next]_vars => HoldersInOrder(R)'
  <1>1. InOrder(R, <<>>)
    BY DEF InOrder
  <1>2. ASSUME Init PROVE HoldersInOrder(R)
    <2>1. PICK S \in SUBSET Event : \E f \in [S -> Plan] :
                  ha = [x \in Event |-> IF x \in S THEN Holder(f[x]) ELSE <<>>]
      BY <1>2 DEF Init
    <2>2. PICK f \in [S -> Plan] :
                  ha = [x \in Event |-> IF x \in S THEN Holder(f[x]) ELSE <<>>]
      BY <2>1
    <2>3. \A x \in S : f[x] \in Plan
      BY <2>2
    <2> QED
      BY <1>1, <2>2, <2>3, NewHolderInOrder DEF HoldersInOrder
  <1>3. ASSUME TypeOK, HoldersInOrder(R), [Next]_vars PROVE HoldersInOrder(R)'
    <2> SUFFICES ASSUME NEW x \in Event PROVE InOrder(R, ha'[x])
      BY DEF HoldersInOrder
    <2>1. CASE ha'[x] = <<>>
      BY <1>1, <2>1
    <2>2. CASE \E p \in Plan : ha'[x] = Holder(p)
      BY <2>2, NewHolderInOrder
    <2>3. CASE /\ DOMAIN ha'[x] = DOMAIN ha[x]
               /\ \A i \in DOMAIN ha[x] : ha'[x][i].atom \in {ha[x][i].atom, Null}
      BY <1>3, <2>3 DEF HoldersInOrder, InOrder
    <2> QED
      BY <1>3, <2>1, <2>2, <2>3, HolderSteps
  <1> QED
    BY <1>2, <1>3

\* Holders in one order do not wait for each other in a circle.
LEMMA OrderUnties ==
    ASSUME NEW R, IsOrder(R), IsFiniteSet(Event), IInv, HoldersInOrder(R)
    PROVE  NoCircularWait
  <1> SUFFICES ASSUME NEW S \in (SUBSET {x \in Event : pc[x] = "wait"}) \ {{}}
               PROVE  \E x \in S : \A h \in Holders(Target(x)) : h[1] \notin S
    BY DEF NoCircularWait
  <1> DEFINE T == {Target(x) : x \in S}
  <1>1. ASSUME NEW x \in S 
        PROVE  /\ x \in Event /\ on[x] \in DOMAIN ha[x] /\ Target(x) \in Atom
    <2>1. x \in Event /\ pc[x] = "wait"
      OBVIOUS
    <2>2. PICK a \in Atom : \E k \in 1 .. Len(atoms[a].waiters) : atoms[a].waiters[k].event = x
      BY <2>1 DEF IInv, WaitsOnce
    <2> QED
      BY <2>1, <2>2 DEF IInv, WaitsOnce
  <1>2. T \subseteq Atom /\ T # {}
    BY <1>1
  <1>3. IsFiniteSet(T)
    <2>1. IsFiniteSet(S)
      BY FS_Subset
    <2> DEFINE f == [x \in S |-> Target(x)]
    <2>2. f \in Surjection(S, T)
      BY DEF Surjection
    <2> HIDE DEF f, T
    <2> QED
      BY ONLY <2>1, <2>2, FS_Surjection
  <1>4. PICK x \in S : \A b \in T : <<b, Target(x)>> \notin R
    <2>1. PICK a \in T : \A b \in T : <<b, a>> \notin R
      <3> HIDE DEF T
      <3> QED
        BY <1>2, <1>3, LastOf
    <2> QED
      BY <2>1
  <1>5. ASSUME NEW h \in Holders(Target(x)), h[1] \in S PROVE FALSE
    <2>1. PICK y \in Event : \E i \in DOMAIN ha[y] : 
               h = <<y, i>> /\ ha[y][i].atom = Target(x) /\ ha[y][i].haveit
      BY HolderPairs DEF Holders
    <2>2. PICK i \in DOMAIN ha[y] : 
               h = <<y, i>> /\ ha[y][i].atom = Target(x) /\ ha[y][i].haveit
      BY <2>1
    <2>3. y \in S /\ i < on[y]
      BY <1>5, <2>2 DEF IInv, GuardsInOrder
    <2>4. Target(y) \in T /\ Target(y) \in Atom /\ on[y] \in DOMAIN ha[y] /\ Target(x) \in Atom
      BY <1>1, <2>3
    <2>5. <<Target(y), Target(x)>> \in R
      BY <2>2, <2>3, <2>4, NullAssumption DEF HoldersInOrder, InOrder, Target
    <2> QED
      BY <1>4, <2>4, <2>5
  <1> QED
    BY <1>5

\* Whatever the plans are, events that acquire in one order of all atomics never
\* wait for each other in a circle.
THEOREM OneOrderNoDeadlock ==
    ASSUME IsFiniteSet(Event), NEW R, IsOrder(R), \A p \in Plan : InOrder(R, p)
    PROVE  Spec => []NoCircularWait
  <1>1. Init => HoldersInOrder(R)
    BY HoldersStayInOrder
  <1>2. IInv /\ HoldersInOrder(R) /\ [Next]_vars => HoldersInOrder(R)'
    BY HoldersStayInOrder DEF IInv
  <1>3. IInv /\ HoldersInOrder(R) => NoCircularWait
    BY OrderUnties
  <1> QED
    BY <1>1, <1>2, <1>3, Inductive, PTL DEF Spec

-----------------------------------------------------------------------------
(***************************************************************************)
(* The order that get_keys_sort makes.                                     *)
(***************************************************************************)
Reference == [guard : Int, wtype : WType, key : Int, late : BOOLEAN]

\* A node whose references to one guard have one access type and keys that are
\* known beforehand and differ, where the guards apply.
WellKeyed(node) ==
    \A i, j \in DOMAIN node : 
        i # j /\ node[i].guard = node[j].guard =>
            /\ node[i].wtype = node[j].wtype
            /\ ~ node[i].late /\ ~ node[j].late
            /\ node[i].key # node[j].key \/ node[i].key = NoKey

\* By guard, the references to one guard by key.
Before(x, y) == x.guard < y.guard \/ (x.guard = y.guard /\ x.key < y.key)

LEMMA ArrangementsKeep ==
    ASSUME NEW s, \A i \in DOMAIN s : s[i] \in Reference, WellKeyed(s),
           NEW t \in Arrangements(s)
    PROVE  /\ DOMAIN t = DOMAIN s
           /\ \A i \in DOMAIN t : \E k \in DOMAIN s : t[i] = s[k]
           /\ \A i \in DOMAIN t : t[i] \in Reference
           /\ WellKeyed(t)
  <1>1. PICK p \in [DOMAIN s -> DOMAIN s] : 
            /\ t = [i \in DOMAIN s |-> s[p[i]]]
            /\ \A i, j \in DOMAIN s : p[i] = p[j] => i = j
    BY DEF Arrangements
  <1>2. DOMAIN t = DOMAIN s /\ \A i \in DOMAIN s : t[i] = s[p[i]] /\ p[i] \in DOMAIN s
    BY <1>1
  <1>3. WellKeyed(t)
    BY <1>1, <1>2 DEF WellKeyed
  <1> QED
    BY <1>2, <1>3

LEMMA CompareOrders ==
    ASSUME NEW x \in Reference, NEW y \in Reference, Compare(x, y) <= 0,
           x.guard = y.guard => x.wtype = y.wtype /\ ~ x.late /\ ~ y.late /\ x.key # y.key
    PROVE  Before(x, y)
  BY DEF Compare, Sign, Before, Reference

\* std::sort by magic number followed by qsort, or std::sort alone when no two
\* references are to one guard, puts the references in the order Before.
LEMMA AcquireOrdersAscend ==
    ASSUME NEW node \in Seq(Reference), WellKeyed(node), NEW t \in AcquireOrders(node)
    PROVE  /\ DOMAIN t = DOMAIN node
           /\ \A i \in DOMAIN t : \E k \in DOMAIN node : t[i] = node[k]
           /\ \A i, j \in DOMAIN t : 
                 i < j /\ t[i].key # NoKey /\ t[j].key # NoKey => Before(t[i], t[j])
  <1>1. PICK s \in SortGuards(node) : t \in GetKeysSort(s)
    BY DEF AcquireOrders
  <1>2. \A i \in DOMAIN node : node[i] \in Reference
    BY ElementOfSeq
  <1>3. /\ DOMAIN s = DOMAIN node 
        /\ \A i \in DOMAIN s : \E k \in DOMAIN node : s[i] = node[k]
        /\ \A i \in DOMAIN s : s[i] \in Reference
        /\ WellKeyed(s)
    BY <1>2, ArrangementsKeep DEF SortGuards
  <1>4. CASE CompletelySorted(s)
    <2>1. t = s
      BY <1>1, <1>4 DEF GetKeysSort
    <2> QED
      BY <1>3, <1>4, <2>1 DEF CompletelySorted, Before
  <1>5. CASE ~ CompletelySorted(s)
    <2>1. t \in Arrangements(s) /\ \A i, j \in DOMAIN t : i < j => Compare(t[i], t[j]) <= 0
      BY <1>1, <1>5 DEF GetKeysSort
    <2>2. /\ DOMAIN t = DOMAIN s
          /\ \A i \in DOMAIN t : \E k \in DOMAIN s : t[i] = s[k]
          /\ \A i \in DOMAIN t : t[i] \in Reference
          /\ WellKeyed(t)
      BY <1>3, <2>1, ArrangementsKeep
    <2>3. ASSUME NEW i \in DOMAIN t, NEW j \in DOMAIN t, i < j, 
                 t[i].key # NoKey, t[j].key # NoKey
          PROVE  Before(t[i], t[j])
      <3>1. i # j
        BY <1>3, <2>2, <2>3
      <3>2. t[i].guard = t[j].guard => 
                t[i].wtype = t[j].wtype /\ ~ t[i].late /\ ~ t[j].late /\ t[i].key # t[j].key
        BY <2>2, <2>3, <3>1 DEF WellKeyed
      <3> QED
        BY <2>1, <2>2, <2>3, <3>2, CompareOrders
    <2> QED
      BY <1>3, <2>2, <2>3
  <1> QED
    BY <1>4, <1>5

\* The atomics by guard and key, later ones first.
ByGuardAndKey == 
    {r \in (Int \X Int) \X (Int \X Int) : 
        \/ r[2][1] < r[1][1]
        \/ r[2][1] = r[1][1] /\ r[2][2] < r[1][2]}

\* Events of a flow in which no node refers to one guard with two access types,
\* with keys that are computed late or with keys that turn out equal never wait
\* for each other in a circle: the order of HeldAtomic::compare is enough.
THEOREM SortedGuardsNoDeadlock ==
    ASSUME IsFiniteSet(Event), Atom = MCAtom, Plan = MCPlan,
           \A n \in Nodes : n \in Seq(Reference) /\ WellKeyed(n)
    PROVE  Spec => []NoCircularWait
  <1>1. Atom \subseteq Int \X Int
    <2> SUFFICES ASSUME NEW a \in Atom PROVE a \in Int \X Int
      OBVIOUS
    <2>1. PICK n \in Nodes : a \in {AtomOf(n[i]) : i \in DOMAIN n} /\ a # Null
      BY DEF MCAtom
    <2>2. PICK i \in DOMAIN n : a = AtomOf(n[i])
      BY <2>1
    <2>3. n[i] \in Reference
      BY <2>2, ElementOfSeq
    <2> QED
      BY <2>1, <2>2, <2>3 DEF AtomOf, Reference
  <1>2. IsOrder(ByGuardAndKey)
    BY <1>1 DEF IsOrder, ByGuardAndKey
  <1>3. ASSUME NEW p \in Plan PROVE InOrder(ByGuardAndKey, p)
    <2>1. PICK n \in Nodes : p \in {PlanOf(s) : s \in AcquireOrders(n)}
      BY DEF MCPlan
    <2>2. PICK t \in AcquireOrders(n) : p = PlanOf(t)
      BY <2>1
    <2>3. /\ DOMAIN t = DOMAIN n
          /\ \A i \in DOMAIN t : \E k \in DOMAIN n : t[i] = n[k]
          /\ \A i, j \in DOMAIN t : 
                 i < j /\ t[i].key # NoKey /\ t[j].key # NoKey => Before(t[i], t[j])
      BY AcquireOrdersAscend
    <2>4. \A i \in DOMAIN t : t[i] \in Reference
      BY <2>3, ElementOfSeq
    <2>5. DOMAIN p = DOMAIN t /\ \A i \in DOMAIN t : p[i].atom = AtomOf(t[i])
      BY <2>2 DEF PlanOf
    <2>6. ASSUME NEW i \in DOMAIN t, NEW j \in DOMAIN t, i < j, 
                 AtomOf(t[i]) # Null, AtomOf(t[j]) # Null
          PROVE  <<AtomOf(t[j]), AtomOf(t[i])>> \in ByGuardAndKey
      <3>1. t[i].key # NoKey /\ t[j].key # NoKey
        BY <2>6 DEF AtomOf
      <3>2. Before(t[i], t[j]) /\ t[i] \in Reference /\ t[j] \in Reference
        BY <2>3, <2>4, <2>6, <3>1
      <3>3. /\ AtomOf(t[i]) = <<t[i].guard, t[i].key>> 
            /\ AtomOf(t[j]) = <<t[j].guard, t[j].key>>
        BY <3>1 DEF AtomOf
      <3> QED
        BY <3>2, <3>3 DEF Before, Reference, ByGuardAndKey
    <2> QED
      BY <2>5, <2>6 DEF InOrder
  <1> QED
    BY <1>2, <1>3, OneOrderNoDeadlock
=============================================================================

-------------------------- MODULE EventGuards_proofs --------------------------
(***************************************************************************)
(* What EventGuards' runs check on small instances, for every set of       *)
(* events, atomics and plans.                                              *)
(***************************************************************************)
EXTENDS EventGuards, FiniteSetTheorems, SequenceTheorems, TLAPS

\* _held counts a finite number of holders.
Counted == \A a \in Atom : 
    IsFiniteSet(Holders(a)) /\ atoms[a].held = Cardinality(Holders(a))

\* What _mode says about the holders.
Modes == \A a \in Atom :
    /\ a \in ExclusiveAtom => atoms[a].mode = None /\ atoms[a].held <= 1
    /\ a \notin ExclusiveAtom =>
         /\ atoms[a].held = 0 <=> atoms[a].mode = None
         /\ atoms[a].mode \in {Write, Upgradeable} => atoms[a].held = 1
         /\ atoms[a].mode = Read => 
              \A h \in Holders(a) : JoinsReaders(ha[h[1]][h[2]].wtype, present[a])

\* A free slot starts from the first guard; a release loop stays in range.
InRange == \A x \in Event :
    /\ pc[x] = "free" => on[x] = 1
    /\ pc[x] \in {"release", "erelease"} => idx[x] <= Len(ha[x])

IInv == 
    /\ TypeOK /\ InRange /\ WaitsOnce /\ GuardsInOrder /\ OwnedOnce 
    /\ Counted /\ Modes /\ WaitersBlocked

\* A step that leaves the atomics alone, their holders, and whoever waits.
GuardsAlone ==
    /\ UNCHANGED <<atoms, present>>
    /\ \A a \in Atom : Holders(a)' = Holders(a)
    /\ \A a \in Atom : \A h \in Holders(a) : 
          ha'[h[1]][h[2]].wtype = ha[h[1]][h[2]].wtype
    /\ \A x \in Event : pc[x] = "wait" => on'[x] = on[x]

\* Event e gets atomic c, which nobody waits for, for its i-th guard.
Gets(e, i, c, w) ==
    /\ UNCHANGED present
    /\ pc[e] = "acquire" /\ i \in 1 .. Len(ha[e])
    /\ i = on[e] /\ ha[e][i].atom = c /\ ha[e][i].wtype = w
    /\ atoms[c].waiters = <<>>
    /\ \/ Holders(c) = {}
       \/ /\ JoinsReaders(w, present[c])
          /\ \A h \in Holders(c) : JoinsReaders(ha[h[1]][h[2]].wtype, present[c])
    /\ \A a \in Atom : atoms'[a].waiters = atoms[a].waiters
    /\ Holders(c)' = Holders(c) \cup {<<e, i>>}
    /\ ha'[e][i].wtype = w
    /\ \A a \in Atom : a # c => Holders(a)' = Holders(a)
    /\ \A a \in Atom : \A h \in Holders(a) : 
          ha'[h[1]][h[2]].wtype = ha[h[1]][h[2]].wtype
    /\ \A x \in Event : pc[x] = "wait" => on'[x] = on[x]

\* Event e is put in the waiters of c, which somebody has, for its i-th guard.
Queues(e, i, c, w) ==
    /\ UNCHANGED <<present, ha, on>>
    /\ pc[e] = "acquire" /\ i \in 1 .. Len(ha[e])
    /\ i = on[e] /\ ha[e][i].atom = c /\ ha[e][i].wtype = w
    /\ Holders(c) # {}
    /\ atoms'[c].waiters = Append(atoms[c].waiters, [event |-> e, wtype |-> w])
    /\ \A a \in Atom : a # c => atoms'[a] = atoms[a]

\* The data of c is set by the only event that has it, which may write it.
SetsData(e, i, c) ==
    /\ UNCHANGED <<atoms, ha, on>>
    /\ pc[e] = "run" /\ i \in 1 .. Len(ha[e])
    /\ Holders(c) = {<<e, i>>}
    /\ ha[e][i].wtype # Read
    /\ present' = [present EXCEPT ![c] = ~ @]

\* Event e gives up c, its i-th guard, and the first n of the waiters q get it:
\* none as long as somebody else has it or nobody waits.
GivesUp(e, i, c, n) ==
    LET q == atoms[c].waiters
    IN  /\ UNCHANGED present
        /\ i \in 1 .. Len(ha[e]) /\ <<e, i>> \in Holders(c) /\ n \in 0 .. Len(q)
        /\ n = 0 => /\ Holders(c)' = Holders(c) \ {<<e, i>>}
                    /\ Holders(c) # {<<e, i>>} \/ q = <<>>
                    /\ atoms'[c].waiters = q
        /\ n > 0 => /\ Holders(c) = {<<e, i>>}
                    /\ Holders(c)' = {<<q[k].event, on[q[k].event]>> : k \in 1 .. n}
                    /\ atoms'[c].waiters = SubSeq(q, n + 1, Len(q))
                    /\ q[1].wtype # Read => n = 1
                    /\ q[1].wtype = Read =>
                         /\ \A k \in 1 .. n : JoinsReaders(q[k].wtype, present[c])
                         /\ n < Len(q) => ~ JoinsReaders(q[n+1].wtype, present[c])
        /\ \A a \in Atom : a # c => Holders(a)' = Holders(a) /\ atoms'[a] = atoms[a]
        /\ \A x \in Event : \A j \in 1 .. Len(ha[x]) : ha'[x][j].wtype = ha[x][j].wtype
        /\ \A x \in Event : 
              pc[x] = "wait" /\ (\A k \in 1 .. n : q[k].event # x) => on'[x] = on[x]

-----------------------------------------------------------------------------
\* Membership of Holders, spelled out.
LEMMA HolderPairs ==
    ASSUME NEW hold, NEW a
    PROVE  \A h : h \in HoldersIn(hold, a) <=>
               \E x \in Event : \E i \in DOMAIN hold[x] :
                   h = <<x, i>> /\ hold[x][i].atom = a /\ hold[x][i].haveit
  BY DEF HoldersIn

LEMMA HoldersExcept ==
    ASSUME NEW H, NEW K, NEW a, NEW p,
           \A x \in Event : \A j : <<x, j>> # p =>
               (<<x, j>> \in HoldersIn(H, a) <=> <<x, j>> \in HoldersIn(K, a))
    PROVE  \A h : h # p => (h \in HoldersIn(H, a) <=> h \in HoldersIn(K, a))
  <1>1. ASSUME NEW M, NEW h, h \in HoldersIn(M, a)
        PROVE  \E x \in Event : \E j : h = <<x, j>>
    <2>1. \E x \in Event : \E i \in DOMAIN M[x] :
                   h = <<x, i>> /\ M[x][i].atom = a /\ M[x][i].haveit
      BY <1>1, HolderPairs
    <2> QED
      BY <2>1
  <1> QED
    BY <1>1

LEMMA SeqUpdate ==
    ASSUME NEW S, NEW s \in Seq(S), NEW i \in 1 .. Len(s), NEW v \in S
    PROVE  /\ [s EXCEPT ![i] = v] \in Seq(S)
           /\ Len([s EXCEPT ![i] = v]) = Len(s)
           /\ \A j \in 1 .. Len(s) : [s EXCEPT ![i] = v][j] = IF j = i THEN v ELSE s[j]
  OBVIOUS

\* TakeIt changes haveit at one position and nothing else.
LEMMA TakeItFacts ==
    ASSUME NEW s \in Seq(HeldAtomic), NEW i \in 1 .. Len(s)
    PROVE  /\ TakeIt(s, i) \in Seq(HeldAtomic)
           /\ Len(TakeIt(s, i)) = Len(s)
           /\ TakeIt(s, i)[i].haveit = TRUE
           /\ TakeIt(s, i)[i].atom = s[i].atom
           /\ TakeIt(s, i)[i].wtype = s[i].wtype
           /\ \A j \in 1 .. Len(s) : j # i => TakeIt(s, i)[j] = s[j]
  <1> DEFINE v == [s[i] EXCEPT !.haveit = TRUE]
  <1>1. s[i] \in HeldAtomic
    BY ElementOfSeq
  <1>2. v \in HeldAtomic /\ v.haveit = TRUE /\ v.atom = s[i].atom /\ v.wtype = s[i].wtype
    BY <1>1 DEF HeldAtomic, Fits
  <1>3. TakeIt(s, i) = [s EXCEPT ![i] = v]
    BY DEF TakeIt
  <1> HIDE DEF v
  <1> QED
    BY <1>2, <1>3, SeqUpdate

\* ForgetIt changes atom at one position and nothing else.
LEMMA ForgetItFacts ==
    ASSUME NEW s \in Seq(HeldAtomic), NEW i \in 1 .. Len(s)
    PROVE  /\ ForgetIt(s, i) \in Seq(HeldAtomic)
           /\ Len(ForgetIt(s, i)) = Len(s)
           /\ ForgetIt(s, i)[i].atom = Null
           /\ ForgetIt(s, i)[i].haveit = s[i].haveit
           /\ ForgetIt(s, i)[i].wtype = s[i].wtype
           /\ \A j \in 1 .. Len(s) : j # i => ForgetIt(s, i)[j] = s[j]
  <1> DEFINE v == [s[i] EXCEPT !.atom = Null]
  <1>1. s[i] \in HeldAtomic
    BY ElementOfSeq
  <1>2. v \in HeldAtomic /\ v.atom = Null /\ v.haveit = s[i].haveit /\ v.wtype = s[i].wtype
    BY <1>1, NullAssumption DEF HeldAtomic, Fits
  <1>3. ForgetIt(s, i) = [s EXCEPT ![i] = v]
    BY DEF ForgetIt
  <1> HIDE DEF v
  <1> QED
    BY <1>2, <1>3, SeqUpdate

-----------------------------------------------------------------------------
\* Facts about the values of the variables that most leaves need.
LEMMA Shape ==
    ASSUME TypeOK, NEW x \in Event
    PROVE  /\ ha[x] \in Seq(HeldAtomic)
           /\ Len(ha[x]) \in Nat /\ DOMAIN ha[x] = 1 .. Len(ha[x])
           /\ \A i \in 1 .. Len(ha[x]) : 
                /\ ha[x][i] \in HeldAtomic
                /\ ha[x][i].atom \in Atom \cup {Null}
                /\ ha[x][i].wtype \in WType
                /\ ha[x][i].haveit \in BOOLEAN
                /\ Fits(ha[x][i])
           /\ on[x] \in Nat \ {0} /\ idx[x] \in Nat
  <1>1. ha[x] \in Seq(HeldAtomic) /\ on[x] \in Nat \ {0} /\ idx[x] \in Nat
    BY DEF TypeOK
  <1>2. Len(ha[x]) \in Nat /\ DOMAIN ha[x] = 1 .. Len(ha[x])
    BY <1>1, LenProperties
  <1>3. \A i \in 1 .. Len(ha[x]) : ha[x][i] \in HeldAtomic
    BY <1>1, ElementOfSeq
  <1> QED
    BY <1>1, <1>2, <1>3 DEF HeldAtomic

\* The waiters of an atomic are entries of events.
LEMMA WaiterShape ==
    ASSUME TypeOK, NEW a \in Atom
    PROVE  /\ atoms[a] \in AtomicState(Event)
           /\ atoms[a].held \in Nat /\ atoms[a].mode \in Mode
           /\ atoms[a].waiters \in Seq(QueueEntry(Event))
           /\ Len(atoms[a].waiters) \in Nat
           /\ \A k \in 1 .. Len(atoms[a].waiters) :
                /\ atoms[a].waiters[k] \in QueueEntry(Event)
                /\ atoms[a].waiters[k].event \in Event
                /\ atoms[a].waiters[k].wtype \in WType
  <1>1. atoms[a] \in AtomicState(Event)
    BY DEF TypeOK
  <1>2. atoms[a].waiters \in Seq(QueueEntry(Event))
    BY <1>1 DEF AtomicState
  <1>3. \A k \in 1 .. Len(atoms[a].waiters) : atoms[a].waiters[k] \in QueueEntry(Event)
    BY <1>2, ElementOfSeq
  <1> QED
    BY <1>1, <1>2, <1>3, LenProperties DEF AtomicState, QueueEntry

\* A holder made for a plan has nothing yet.
LEMMA NewHolder ==
    ASSUME NEW p \in Plan
    PROVE  /\ Holder(p) \in Seq(HeldAtomic)
           /\ \A i \in DOMAIN Holder(p) : Holder(p)[i].haveit = FALSE
  <1>1. p \in Seq(Need)
    BY PlanAssumption
  <1>2. \A i \in 1 .. Len(p) : p[i] \in Need
    BY <1>1, ElementOfSeq
  <1>3. DOMAIN Holder(p) = 1 .. Len(p) /\ Len(p) \in Nat
    BY <1>1, LenProperties DEF Holder
  <1>4. \A i \in 1 .. Len(p) : Holder(p)[i] \in HeldAtomic /\ Holder(p)[i].haveit = FALSE
    BY <1>2, <1>3 DEF Holder, Need, HeldAtomic, Fits
  <1>5. Holder(p) = [i \in 1 .. Len(p) |-> Holder(p)[i]]
    BY <1>3 DEF Holder
  <1> QED
    BY <1>3, <1>4, <1>5, IsASeq

\* A step that leaves the atomics, their data and who holds them alone.
LEMMA AtomsUntouched ==
    ASSUME IInv, UNCHANGED <<atoms, present>>,
           \A a \in Atom : Holders(a)' = Holders(a),
           \A a \in Atom : \A h \in Holders(a) : 
               ha'[h[1]][h[2]].wtype = ha[h[1]][h[2]].wtype
    PROVE  Counted' /\ Modes' /\ WaitersBlocked'
  <1>1. Counted'
    BY DEF IInv, Counted
  <1>2. Modes'
    BY Zenon DEF IInv, Modes
  <1>3. WaitersBlocked'
    BY DEF IInv, WaitersBlocked
  <1> QED
    BY <1>1, <1>2, <1>3

LEMMA InitIInv == Init => IInv
  <1> SUFFICES ASSUME Init PROVE IInv
    OBVIOUS
  <1>0. PICK b \in Event : \E S \in SUBSET (Event \ {b}) : \E f \in [S -> Plan] :
          /\ pc = [x \in Event |-> IF x = b THEN "reacquire"
                                   ELSE IF x \in S THEN "acquire" ELSE "free"]
          /\ ha = [x \in Event |-> IF x \in S THEN Holder(f[x]) ELSE <<>>]
          /\ own = [x \in Event |-> IF x = b THEN S ELSE {}]
    BY DEF Init
  <1>a. PICK S \in SUBSET (Event \ {b}) : \E f \in [S -> Plan] :
          /\ pc = [x \in Event |-> IF x = b THEN "reacquire"
                                   ELSE IF x \in S THEN "acquire" ELSE "free"]
          /\ ha = [x \in Event |-> IF x \in S THEN Holder(f[x]) ELSE <<>>]
          /\ own = [x \in Event |-> IF x = b THEN S ELSE {}]
    BY <1>0
  <1>b. PICK f \in [S -> Plan] :
          /\ pc = [x \in Event |-> IF x = b THEN "reacquire"
                                   ELSE IF x \in S THEN "acquire" ELSE "free"]
          /\ ha = [x \in Event |-> IF x \in S THEN Holder(f[x]) ELSE <<>>]
          /\ own = [x \in Event |-> IF x = b THEN S ELSE {}]
    BY <1>a
  <1>1. \A x \in Event : ha[x] \in Seq(HeldAtomic) 
                         /\ \A i \in DOMAIN ha[x] : ha[x][i].haveit = FALSE
    <2>1. ASSUME NEW x \in S
          PROVE  ha[x] \in Seq(HeldAtomic) /\ \A i \in DOMAIN ha[x] : ha[x][i].haveit = FALSE
      <3>1. f[x] \in Plan /\ ha[x] = Holder(f[x])
        BY <1>b
      <3> QED
        BY <3>1, NewHolder
    <2>2. ASSUME NEW x \in Event, x \notin S
          PROVE  ha[x] \in Seq(HeldAtomic) /\ \A i \in DOMAIN ha[x] : ha[x][i].haveit = FALSE
      BY <1>b, <2>2
    <2> QED
      BY <2>1, <2>2
  <1>2. \A a \in Atom : Holders(a) = {}
    BY <1>1, HolderPairs DEF Holders
  <1>3. \A a \in Atom : /\ atoms[a].held = 0 /\ atoms[a].mode = None 
                        /\ atoms[a].waiters = <<>> /\ Len(atoms[a].waiters) = 0
                        /\ atoms[a] \in AtomicState(Event)
    BY DEF Init, NewAtomic, AtomicState, Mode, None
  <1>4. TypeOK
    BY <1>b, <1>1, <1>3 DEF Init, TypeOK, PC
  <1>5. InRange
    BY <1>b DEF Init, InRange
  <1>6. WaitsOnce
    <2>1. \A a \in Atom : 1 .. Len(atoms[a].waiters) = {}
      BY <1>3
    <2> QED
      BY ONLY <1>b, <2>1 DEF WaitsOnce
  <1>7. GuardsInOrder
    <2> SUFFICES ASSUME NEW x \in Event, NEW i \in DOMAIN ha[x]
                 PROVE  x \in S /\ ~ (i < on[x]) /\ pc[x] = "acquire"
      BY <1>1 DEF GuardsInOrder
    <2>1. x \in S
      BY <1>b
    <2>2. i \in 1 .. Len(ha[x])
      BY <1>1, LenProperties
    <2> QED
      BY <1>b, <2>1, <2>2 DEF Init
  <1>8. OwnedOnce
    <2>1. \A x, y \in Event : x \in own[y] <=> y = b /\ x \in S
      BY <1>b
    <2>2. /\ pc[b] = "reacquire"
          /\ \A x \in Event : pc[x] = "acquire" <=> x \in S
          /\ \A x \in Event : pc[x] # "granted" /\ pc[x] # "acquired"
      BY <1>b
    <2> QED
      BY <2>1, <2>2 DEF OwnedOnce
  <1>9. Counted
    BY <1>2, <1>3, FS_EmptySet DEF Counted
  <1>10. Modes
    BY <1>2, <1>3 DEF Modes, None, Read, Write, Upgradeable
  <1>11. WaitersBlocked
    BY <1>3 DEF WaitersBlocked
  <1> QED
    BY <1>4, <1>5, <1>6, <1>7, <1>8, <1>9, <1>10, <1>11 DEF IInv

-----------------------------------------------------------------------------
(***************************************************************************)
(* The steps that leave the atomics and the holders alone.                 *)
(***************************************************************************)
LEMMA HoldersUnchanged ==
    ASSUME IInv, UNCHANGED <<atoms, present, ha>>
    PROVE  Counted' /\ Modes' /\ WaitersBlocked'
  <1>1. \A a \in Atom : Holders(a)' = Holders(a)
    BY DEF Holders
  <1> QED
    BY <1>1, AtomsUntouched

\* What WaitsOnce says of one waiter, named by its event.
LEMMA WaiterOf ==
    ASSUME WaitsOnce, NEW a \in Atom, NEW k \in 1 .. Len(atoms[a].waiters),
           NEW x, x = atoms[a].waiters[k].event
    PROVE  /\ pc[x] = "wait" /\ on[x] \in DOMAIN ha[x] /\ ha[x][on[x]].atom = a
           /\ ha[x][on[x]].wtype = atoms[a].waiters[k].wtype
           /\ \A m \in 1 .. Len(atoms[a].waiters) : 
                atoms[a].waiters[m].event = x => m = k
  <1> DEFINE Waits(b, j) ==
               LET w == atoms[b].waiters[j]
               IN  /\ pc[w.event] = "wait"
                   /\ on[w.event] \in DOMAIN ha[w.event]
                   /\ ha[w.event][on[w.event]].atom = b
                   /\ ha[w.event][on[w.event]].wtype = w.wtype
                   /\ \A m \in 1 .. Len(atoms[b].waiters) : 
                        atoms[b].waiters[m].event = w.event => m = j
  <1>1. \A b \in Atom : \A j \in 1 .. Len(atoms[b].waiters) : Waits(b, j)
    BY Zenon DEF WaitsOnce, Target
  <1>2. Waits(a, k)
    <2> HIDE DEF Waits
    <2> QED
      BY ONLY <1>1, a \in Atom, k \in 1 .. Len(atoms[a].waiters), Zenon
  <1> QED
    BY ONLY <1>2, x = atoms[a].waiters[k].event, Zenon

\* The waiters and what their events say about it stay as they are.
LEMMA StillWaiting ==
    ASSUME IInv, TypeOK', \A a \in Atom : atoms'[a].waiters = atoms[a].waiters,
           \A x \in Event : pc[x] = "wait" => ha'[x] = ha[x] /\ on'[x] = on[x],
           \A x \in Event : pc'[x] = "wait" <=> pc[x] = "wait"
    PROVE  WaitsOnce'
  <1> USE DEF IInv
  <1>1. ASSUME NEW a \in Atom, NEW k \in 1 .. Len(atoms[a].waiters)
        PROVE  LET w == atoms[a].waiters[k]
               IN  /\ pc'[w.event] = "wait"
                   /\ on'[w.event] \in DOMAIN ha'[w.event]
                   /\ ha'[w.event][on'[w.event]].atom = a
                   /\ ha'[w.event][on'[w.event]].wtype = w.wtype
                   /\ \A m \in 1 .. Len(atoms[a].waiters) : 
                        atoms[a].waiters[m].event = w.event => m = k
    <2> DEFINE x == atoms[a].waiters[k].event
    <2>1. x \in Event
      BY WaiterShape
    <2>2. pc[x] = "wait" /\ on[x] \in DOMAIN ha[x] /\ ha[x][on[x]].atom = a
          /\ ha[x][on[x]].wtype = atoms[a].waiters[k].wtype
          /\ \A m \in 1 .. Len(atoms[a].waiters) : 
               atoms[a].waiters[m].event = x => m = k
      BY WaiterOf
    <2> QED
      BY <2>1, <2>2
  <1>2. \A x \in Event : pc'[x] = "wait" =>
           \E a \in Atom : \E k \in 1 .. Len(atoms[a].waiters) :
              atoms[a].waiters[k].event = x
    BY DEF WaitsOnce
  <1>3. \A a \in Atom : atoms'[a].waiters = atoms[a].waiters
    OBVIOUS
  <1>4. ASSUME NEW a \in Atom, NEW k \in 1 .. Len(atoms'[a].waiters)
        PROVE  LET w == atoms'[a].waiters[k]
               IN  /\ pc'[w.event] = "wait"
                   /\ on'[w.event] \in DOMAIN ha'[w.event]
                   /\ ha'[w.event][on'[w.event]].atom = a
                   /\ ha'[w.event][on'[w.event]].wtype = w.wtype
                   /\ \A m \in 1 .. Len(atoms'[a].waiters) :
                        atoms'[a].waiters[m].event = w.event => m = k
    <2>1. atoms'[a].waiters = atoms[a].waiters
      BY <1>3
    <2>2. k \in 1 .. Len(atoms[a].waiters)
      BY <2>1
    <2>3. LET w == atoms[a].waiters[k]
          IN  /\ pc'[w.event] = "wait"
              /\ on'[w.event] \in DOMAIN ha'[w.event]
              /\ ha'[w.event][on'[w.event]].atom = a
              /\ ha'[w.event][on'[w.event]].wtype = w.wtype
              /\ \A m \in 1 .. Len(atoms[a].waiters) :
                   atoms[a].waiters[m].event = w.event => m = k
      BY ONLY <1>1, <2>2, a \in Atom, Zenon
    <2> QED
      BY ONLY <2>1, <2>3
  <1>5. \A x \in Event : pc'[x] = "wait" =>
           \E a \in Atom : \E k \in 1 .. Len(atoms'[a].waiters) :
              atoms'[a].waiters[k].event = x
    BY <1>2, <1>3
  <1> QED
    BY ONLY <1>4, <1>5 DEF WaitsOnce, Target

LEMMA SkipAtomicIInv ==
    ASSUME IInv, NEW e \in Event, SkipAtomic(e)
    PROVE  IInv'
  <1> USE DEF IInv
  <1>1. TypeOK'
    BY DEF TypeOK, SkipAtomic
  <1>2. InRange'
    BY DEF InRange, SkipAtomic, TypeOK
  <1>3. WaitsOnce'
    BY <1>1, StillWaiting DEF SkipAtomic, TypeOK
  <1>4. GuardsInOrder'
    BY Shape DEF GuardsInOrder, SkipAtomic, TypeOK
  <1>5. OwnedOnce'
    BY DEF OwnedOnce, SkipAtomic
  <1> QED
    BY <1>1, <1>2, <1>3, <1>4, <1>5, HoldersUnchanged DEF SkipAtomic

LEMMA AcquiredAllIInv ==
    ASSUME IInv, NEW e \in Event, AcquiredAll(e)
    PROVE  IInv'
  <1> USE DEF IInv
  <1>1. TypeOK'
    BY DEF TypeOK, AcquiredAll, PC
  <1>2. InRange'
    BY DEF InRange, AcquiredAll, TypeOK
  <1>3. WaitsOnce'
    BY <1>1, StillWaiting DEF AcquiredAll, TypeOK
  <1>4. GuardsInOrder'
    BY Shape DEF GuardsInOrder, AcquiredAll, TypeOK
  <1>5. OwnedOnce'
    BY DEF OwnedOnce, AcquiredAll, TypeOK
  <1> QED
    BY <1>1, <1>2, <1>3, <1>4, <1>5, HoldersUnchanged DEF AcquiredAll

LEMMA ExecuteIInv ==
    ASSUME IInv, NEW e \in Event, Execute(e)
    PROVE  IInv'
  <1> USE DEF IInv
  <1>1. TypeOK'
    BY DEF TypeOK, Execute, PC
  <1>2. InRange'
    BY DEF InRange, Execute, TypeOK
  <1>3. WaitsOnce'
    BY <1>1, StillWaiting DEF Execute, TypeOK
  <1>4. GuardsInOrder'
    BY Shape DEF GuardsInOrder, Execute, TypeOK
  <1>5. OwnedOnce'
    BY DEF OwnedOnce, Execute, TypeOK
  <1> QED
    BY <1>1, <1>2, <1>3, <1>4, <1>5, HoldersUnchanged DEF Execute

\* Both calls of AtomicsHolder::release.
LEMMA EnterReleaseIInv ==
    ASSUME IInv, NEW e \in Event, EarlyRelease(e) \/ BeginRelease(e)
    PROVE  IInv'
  <1> USE DEF IInv
  <1>0. PICK c \in {"release", "erelease"} : 
           /\ pc' = [pc EXCEPT ![e] = c]
           /\ pc[e] \in {"run", "succ"}
           /\ \A x \in own[e] : pc[x] # "acquire" /\ pc[x] # "granted"
           /\ idx' = [idx EXCEPT ![e] = Len(ha[e])]
           /\ UNCHANGED <<atoms, present, ha, on, own>>
    <2>1. CASE EarlyRelease(e)
      BY <2>1 DEF EarlyRelease, OwnedOnce, TypeOK
    <2>2. CASE BeginRelease(e)
      BY <2>2 DEF BeginRelease, OwnedOnce, TypeOK, Settled
    <2> QED
      BY <2>1, <2>2
  <1>1. TypeOK'
    BY <1>0, Shape DEF TypeOK, PC
  <1>2. InRange'
    BY <1>0, Shape DEF InRange, TypeOK
  <1>3. WaitsOnce'
    BY <1>0, <1>1, StillWaiting DEF TypeOK
  <1>4. GuardsInOrder'
    BY <1>0, Shape DEF GuardsInOrder, TypeOK
  <1>5. OwnedOnce'
    BY <1>0 DEF OwnedOnce, TypeOK
  <1> QED
    BY <1>0, <1>1, <1>2, <1>3, <1>4, <1>5, HoldersUnchanged

LEMMA SkipReleaseIInv ==
    ASSUME IInv, NEW e \in Event, SkipRelease(e)
    PROVE  IInv'
  <1> USE DEF IInv
  <1>1. TypeOK'
    BY DEF TypeOK, SkipRelease
  <1>2. InRange'
    BY Shape DEF InRange, SkipRelease, TypeOK
  <1>3. WaitsOnce'
    BY <1>1, StillWaiting DEF SkipRelease, TypeOK
  <1>4. GuardsInOrder'
    BY Shape DEF GuardsInOrder, SkipRelease, TypeOK, Holds
  <1>5. OwnedOnce'
    BY DEF OwnedOnce, SkipRelease
  <1> QED
    BY <1>1, <1>2, <1>3, <1>4, <1>5, HoldersUnchanged DEF SkipRelease

LEMMA EndReleaseIInv ==
    ASSUME IInv, NEW e \in Event, EndRelease(e)
    PROVE  IInv'
  <1> USE DEF IInv
  <1>1. TypeOK'
    BY DEF TypeOK, EndRelease, PC
  <1>2. InRange'
    BY DEF InRange, EndRelease, TypeOK
  <1>3. WaitsOnce'
    BY <1>1, StillWaiting DEF EndRelease, TypeOK
  <1>4. GuardsInOrder'
    BY Shape DEF GuardsInOrder, EndRelease, TypeOK
  <1>5. OwnedOnce'
    BY DEF OwnedOnce, EndRelease, TypeOK
  <1> QED
    BY <1>1, <1>2, <1>3, <1>4, <1>5, HoldersUnchanged DEF EndRelease

LEMMA EndEarlyReleaseIInv ==
    ASSUME IInv, NEW e \in Event, EndEarlyRelease(e)
    PROVE  IInv'
  <1> USE DEF IInv
  <1>0. \A x \in own[e] : pc[x] = "acquired" /\ x # e
    BY DEF EndEarlyRelease, OwnedOnce, Settled, TypeOK
  <1>1. TypeOK'
    BY DEF TypeOK, EndEarlyRelease, PC
  <1>2. InRange'
    BY DEF InRange, EndEarlyRelease, TypeOK
  <1>3. WaitsOnce'
    BY <1>0, <1>1, StillWaiting DEF EndEarlyRelease, TypeOK
  <1>4. GuardsInOrder'
    BY <1>0, Shape DEF GuardsInOrder, EndEarlyRelease, TypeOK
  <1>5. OwnedOnce'
    BY <1>0 DEF OwnedOnce, EndEarlyRelease, TypeOK
  <1> QED
    BY <1>1, <1>2, <1>3, <1>4, <1>5, HoldersUnchanged DEF EndEarlyRelease

-----------------------------------------------------------------------------
(***************************************************************************)
(* The steps that make and destroy events or change the data.              *)
(***************************************************************************)
LEMMA CreateSuccessorsIInv ==
    ASSUME IInv, NEW e \in Event, CreateSuccessors(e)
    PROVE  IInv' /\ GuardsAlone
  <1> USE DEF IInv
  <1>a. PICK S \in SUBSET {x \in Event : pc[x] = "free"} : \E f \in [S -> Plan] :
         /\ pc' = [x \in Event |-> IF x = e THEN "succ"
                                   ELSE IF x \in S THEN "acquire" ELSE pc[x]]
         /\ ha' = [x \in Event |-> IF x \in S THEN Holder(f[x]) ELSE ha[x]]
         /\ own' = [own EXCEPT ![e] = S]
    BY DEF CreateSuccessors
  <1>b. PICK f \in [S -> Plan] :
         /\ pc' = [x \in Event |-> IF x = e THEN "succ"
                                   ELSE IF x \in S THEN "acquire" ELSE pc[x]]
         /\ ha' = [x \in Event |-> IF x \in S THEN Holder(f[x]) ELSE ha[x]]
         /\ own' = [own EXCEPT ![e] = S]
    BY <1>a
  <1>c. pc[e] = "run" /\ UNCHANGED <<atoms, present, on, idx>> /\ e \notin S
    BY DEF CreateSuccessors
  <1>d. \A x \in S : /\ pc[x] = "free" /\ on[x] = 1 /\ DOMAIN ha[x] = {}
                     /\ ha'[x] \in Seq(HeldAtomic)
                     /\ \A i \in DOMAIN ha'[x] : ha'[x][i].haveit = FALSE
    BY <1>b, NewHolder DEF GuardsInOrder, InRange
  <1>e. \A x \in Event : x \notin S => ha'[x] = ha[x]
    BY <1>b
  <1>1. TypeOK'
    BY <1>b, <1>c, <1>d DEF TypeOK, PC
  <1>2. InRange'
    BY <1>b, <1>c, <1>d DEF InRange, TypeOK
  <1>3. WaitsOnce'
    BY <1>1, <1>b, <1>c, <1>d, StillWaiting DEF TypeOK
  <1>4. GuardsInOrder'
    <2> SUFFICES ASSUME NEW x \in Event, NEW i \in DOMAIN ha'[x]
                 PROVE  /\ ha'[x][i].haveit => i < on'[x]
                        /\ i < on'[x] => ha'[x][i].haveit \/ ha'[x][i].atom = Null
                        /\ pc'[x] \notin {"acquire", "wait", "granted"} => i < on'[x]
                        /\ pc'[x] \in {"release", "erelease"} /\ i > idx'[x] 
                             => ha'[x][i].atom = Null
                        /\ pc'[x] \in {"reacquire", "ereacquire"} => ha'[x][i].atom = Null
                        /\ pc'[x] # "free"
      BY DEF GuardsInOrder
    <2>1. CASE x \in S
      <3>1. i \in 1 .. Len(ha'[x])
        BY <1>1, LenProperties DEF TypeOK
      <3>2. pc'[x] = "acquire"
        BY <2>1, <1>b, <1>c
      <3>3. on'[x] = 1 /\ i \in Nat /\ ~ (i < 1)
        BY <2>1, <3>1, <1>c, <1>d
      <3>4. ha'[x][i].haveit = FALSE
        BY <2>1, <1>d
      <3> QED
        BY <3>2, <3>3, <3>4
    <2>2. CASE x \notin S
      BY <2>2, <1>b, <1>c, <1>e DEF GuardsInOrder
    <2> QED
      BY <2>1, <2>2
  <1>5. OwnedOnce'
    <2>1. \A x \in Event : x \notin own[e]
      BY <1>c DEF OwnedOnce
    <2>2. \A y \in Event : own'[y] = IF y = e THEN S ELSE own[y]
      BY <1>b DEF TypeOK
    <2>3. \A x, y \in Event : x \in S => x \notin own[y]
      BY <1>d DEF OwnedOnce
    <2>4. \A y \in Event : own[y] # {} => y # e /\ y \notin S
      BY <2>1, <1>d DEF OwnedOnce, TypeOK
    <2> QED
      BY <2>1, <2>2, <2>3, <2>4, <1>b, <1>c DEF OwnedOnce
  <1>6. \A a \in Atom : Holders(a)' = Holders(a)
    BY <1>d, <1>e, HolderPairs DEF Holders, HoldersIn
  <1>7. \A a \in Atom : \A h \in Holders(a) : 
           ha'[h[1]][h[2]].wtype = ha[h[1]][h[2]].wtype
    <2> SUFFICES ASSUME NEW a \in Atom, NEW h \in Holders(a)
                 PROVE  h[1] \in Event /\ h[1] \notin S
      BY <1>e
    <2>1. PICK x \in Event : \E i \in DOMAIN ha[x] : h = <<x, i>>
      BY HolderPairs DEF Holders
    <2> QED
      BY <2>1, <1>d
  <1>8. GuardsAlone
    BY <1>6, <1>7, <1>c DEF GuardsAlone
  <1> QED
    BY <1>1, <1>2, <1>3, <1>4, <1>5, <1>6, <1>7, <1>8, <1>c, AtomsUntouched

LEMMA EndHandlerIInv ==
    ASSUME IInv, NEW e \in Event, EndHandler(e)
    PROVE  IInv' /\ GuardsAlone
  <1> USE DEF IInv
  <1>0. \A x \in own[e] : pc[x] = "acquired" /\ x # e
    BY DEF EndHandler, OwnedOnce, Settled, TypeOK
  <1>a. /\ pc[e] = "reacquire"
        /\ ha' = [ha EXCEPT ![e] = <<>>] /\ on' = [on EXCEPT ![e] = 1]
        /\ own' = [own EXCEPT ![e] = {}]
        /\ pc' = [x \in Event |-> IF x = e THEN "free" 
                              ELSE IF x \in own[e] THEN "queued" ELSE pc[x]]
        /\ UNCHANGED <<atoms, present, idx>>
    BY DEF EndHandler
  <1>b. \A i \in DOMAIN ha[e] : ha[e][i].atom = Null
    BY <1>a DEF GuardsInOrder
  <1>1. TypeOK'
    BY <1>a DEF TypeOK, PC
  <1>2. InRange'
    BY <1>a DEF InRange, TypeOK
  <1>3. WaitsOnce'
    BY <1>0, <1>1, <1>a, StillWaiting DEF TypeOK
  <1>4. GuardsInOrder'
    BY <1>0, <1>a, Shape DEF GuardsInOrder, TypeOK
  <1>5. OwnedOnce'
    BY <1>0, <1>a DEF OwnedOnce, TypeOK
  <1>6. \A a \in Atom : \A h \in Holders(a) : h[1] \in Event /\ h[1] # e
    BY <1>b, NullAssumption, HolderPairs DEF Holders
  <1>7. \A x \in Event : x # e => ha'[x] = ha[x]
    BY <1>a DEF TypeOK
  <1>8. ha'[e] = <<>> /\ DOMAIN ha'[e] = {}
    BY <1>a DEF TypeOK
  <1>9. \A a \in Atom : Holders(a)' = Holders(a)
    BY <1>b, <1>7, <1>8, NullAssumption DEF Holders, HoldersIn
  <1>10. \A a \in Atom : \A h \in Holders(a) : 
           ha'[h[1]][h[2]].wtype = ha[h[1]][h[2]].wtype
    BY <1>6, <1>7
  <1>11. GuardsAlone
    <2>1. \A x \in Event : pc[x] = "wait" => on'[x] = on[x]
      BY <1>a DEF TypeOK
    <2> QED
      BY <2>1, <1>9, <1>10, <1>a DEF GuardsAlone
  <1> QED
    BY <1>1, <1>2, <1>3, <1>4, <1>5, <1>9, <1>10, <1>11, <1>a, AtomsUntouched

\* Whoever sets the data has the atomic to itself, as a writer.
LEMMA SetDataIInv ==
    ASSUME IInv, NEW e \in Event, SetData(e)
    PROVE  IInv' /\ \E i \in Nat \ {0}, c \in Atom : SetsData(e, i, c)
  <1> USE DEF IInv
  <1>0. UNCHANGED <<atoms, pc, ha, on, idx, own>>
    BY DEF SetData
  <1>r. PICK i \in DOMAIN ha[e], b \in BOOLEAN :
         /\ Holds(e, i)
         /\ \/ ha[e][i].wtype \in {Write, Exclusive}
            \/ ha[e][i].wtype = Upgradeable /\ ~ present[ha[e][i].atom]
         /\ present[ha[e][i].atom] # b
         /\ present' = [present EXCEPT ![ha[e][i].atom] = b]
    BY DEF SetData
  <1>a. /\ Holds(e, i)
        /\ ~ JoinsReaders(ha[e][i].wtype, present[ha[e][i].atom])
        /\ present' = [present EXCEPT ![ha[e][i].atom] = b]
    BY <1>r DEF JoinsReaders, Write, Exclusive, Read, Upgradeable
  <1> DEFINE c == ha[e][i].atom
  <1>b. c \in Atom /\ <<e, i>> \in Holders(c)
    BY <1>a, Shape, HolderPairs, SMTT(30) DEF Holds, Holders
  <1>c. atoms[c].mode # Read
    <2>1. CASE c \in ExclusiveAtom
      BY <1>b, <2>1 DEF Modes, None, Read
    <2>2. CASE c \notin ExclusiveAtom
      <3>1. atoms[c].mode = Read => 
              \A h \in Holders(c) : JoinsReaders(ha[h[1]][h[2]].wtype, present[c])
        BY <1>b, <2>2 DEF Modes
      <3> QED
        BY <3>1, <1>a, <1>b DEF c
    <2> QED
      BY <2>1, <2>2
  <1>d. \A a \in Atom : a # c => present'[a] = present[a]
    BY <1>a DEF TypeOK
  <1> HIDE DEF c
  <1>1. TypeOK'
    BY <1>0, <1>a, <1>b DEF TypeOK, c
  <1>2. InRange'
    BY <1>0 DEF InRange
  <1>3. WaitsOnce'
    BY <1>0, <1>1, StillWaiting
  <1>4. GuardsInOrder'
    BY <1>0 DEF GuardsInOrder
  <1>5. OwnedOnce'
    BY <1>0 DEF OwnedOnce
  <1>6. \A a \in Atom : Holders(a)' = Holders(a)
    BY <1>0 DEF Holders
  <1>7. Counted'
    BY <1>0, <1>6 DEF Counted
  <1>8. Modes'
    BY <1>0, <1>6, <1>b, <1>c, <1>d DEF Modes
  <1>9. WaitersBlocked'
    BY <1>0, <1>6, <1>b, <1>c, <1>d DEF WaitersBlocked
  <1>10. SetsData(e, i, c)
    <2>1. present[c] \in BOOLEAN
      BY <1>b DEF TypeOK
    <2>2. present' = [present EXCEPT ![c] = ~ present[c]]
      BY <2>1, <1>r DEF c
    <2>3. pc[e] = "run" /\ i \in 1 .. Len(ha[e])
      BY Shape DEF SetData
    <2>4. atoms[c].held = 1
      <3>1. atoms[c].held # 0
        BY <1>b, FS_EmptySet DEF Counted
      <3>2. atoms[c].mode \in Mode /\ atoms[c].held \in Nat
        BY <1>b, WaiterShape
      <3> QED
        BY <3>1, <3>2, <1>b, <1>c DEF Modes, Mode
    <2>5. Holders(c) = {<<e, i>>}
      <3>1. \E h : Holders(c) = {h}
        BY <2>4, <1>b, FS_Singleton DEF Counted
      <3> QED
        BY <3>1, <1>b
    <2>6. ha[e][i].wtype # Read
      BY <1>a DEF JoinsReaders
    <2> QED
      BY <2>2, <2>3, <2>5, <2>6, <1>0 DEF SetsData
  <1>11. i \in Nat \ {0}
    BY Shape
  <1> QED
    BY <1>1, <1>2, <1>3, <1>4, <1>5, <1>7, <1>8, <1>9, <1>10, <1>11, <1>b

-----------------------------------------------------------------------------
(***************************************************************************)
(* acquire_or_wait.                                                        *)
(***************************************************************************)
LEMMA AcquiredFacts ==
    ASSUME NEW at \in AtomicState(Event), NEW w \in WType, NEW p, Grants(at, w, p)
    PROVE  /\ Acquired(at, w) \in AtomicState(Event)
           /\ Acquired(at, w).waiters = at.waiters
           /\ Acquired(at, w).held = at.held + 1
           /\ w = Exclusive => at.held = 0 /\ Acquired(at, w).mode = at.mode
           /\ w # Exclusive /\ at.held = 0 => Acquired(at, w).mode = w
           /\ at.held # 0 => /\ Acquired(at, w).mode = at.mode /\ at.mode = Read
                             /\ at.waiters = <<>> /\ JoinsReaders(w, p)
  <1>0. at.held \in Nat /\ at.mode \in Mode /\ at.waiters \in Seq(QueueEntry(Event))
    BY DEF AtomicState
  <1>1. CASE w = Exclusive
    <2>1. Acquired(at, w) = [held |-> 1, mode |-> at.mode, waiters |-> at.waiters]
      BY <1>1 DEF Acquired, AtomicState
    <2>2. at.held = 0
      BY <1>1 DEF Grants
    <2> QED
      BY <1>0, <1>1, <2>1, <2>2 DEF AtomicState
  <1>2. CASE w # Exclusive /\ at.held = 0
    <2>1. Acquired(at, w) = [held |-> 1, mode |-> w, waiters |-> at.waiters]
      BY <1>2 DEF Acquired, AtomicState
    <2>2. w \in Mode
      BY <1>2 DEF WType, Mode
    <2> QED
      BY <1>0, <1>2, <2>1, <2>2 DEF AtomicState
  <1>3. CASE at.held # 0
    <2>1. at.mode = Read /\ at.waiters = <<>> /\ JoinsReaders(w, p) /\ w # Exclusive
      BY <1>3 DEF Grants
    <2>2. Acquired(at, w) = [held |-> at.held + 1, mode |-> at.mode, waiters |-> at.waiters]
      BY <1>3, <2>1 DEF Acquired, AtomicState
    <2> QED
      BY <1>0, <1>3, <2>1, <2>2 DEF AtomicState
  <1> QED
    BY <1>1, <1>2, <1>3

LEMMA AcquireAtomicIInv ==
    ASSUME IInv, NEW e \in Event, AcquireAtomic(e)
    PROVE  IInv' /\ \E i \in Nat \ {0}, c \in Atom, w \in WType : Gets(e, i, c, w)
  <1> USE DEF IInv
  <1>0. PICK i \in Nat \ {0}, c \in Atom, w \in WType : 
            i = on[e] /\ c = ha[e][i].atom /\ w = ha[e][i].wtype
    BY Shape DEF AcquireAtomic
  <1>a. /\ pc[e] = "acquire" /\ i \in 1 .. Len(ha[e])
        /\ (w = Exclusive <=> c \in ExclusiveAtom)
        /\ ha[e][i].haveit = FALSE
        /\ Grants(atoms[c], w, present[c])
    BY <1>0, Shape DEF AcquireAtomic, Fits
  <1>b. /\ atoms' = [atoms EXCEPT ![c] = Acquired(atoms[c], w)]
        /\ ha' = [ha EXCEPT ![e] = TakeIt(ha[e], i)]
        /\ on' = [on EXCEPT ![e] = i + 1]
        /\ UNCHANGED <<present, pc, idx, own>>
    BY <1>0 DEF AcquireAtomic
  <1>c. /\ atoms[c] \in AtomicState(Event)
        /\ atoms'[c] = Acquired(atoms[c], w)
        /\ \A a \in Atom : a # c => atoms'[a] = atoms[a]
    BY <1>a, <1>b DEF TypeOK
  <1>d. /\ ha'[e] \in Seq(HeldAtomic) /\ Len(ha'[e]) = Len(ha[e])
        /\ ha'[e][i].haveit = TRUE /\ ha'[e][i].atom = c /\ ha'[e][i].wtype = w
        /\ \A j \in 1 .. Len(ha[e]) : j # i => ha'[e][j] = ha[e][j]
    <2>1. ha[e] \in Seq(HeldAtomic) /\ ha'[e] = TakeIt(ha[e], i)
      BY <1>b DEF TypeOK
    <2>2. ha[e][i].atom = c /\ ha[e][i].wtype = w
      BY <1>0
    <2>3. /\ TakeIt(ha[e], i) \in Seq(HeldAtomic)
          /\ Len(TakeIt(ha[e], i)) = Len(ha[e])
          /\ TakeIt(ha[e], i)[i].haveit = TRUE
          /\ TakeIt(ha[e], i)[i].atom = ha[e][i].atom
          /\ TakeIt(ha[e], i)[i].wtype = ha[e][i].wtype
          /\ \A j \in 1 .. Len(ha[e]) : j # i => TakeIt(ha[e], i)[j] = ha[e][j]
      BY <1>a, <2>1, TakeItFacts
    <2> QED
      BY <2>1, <2>2, <2>3
  <1>e. \A x \in Event : x # e => ha'[x] = ha[x] /\ on'[x] = on[x]
    BY <1>b DEF TypeOK
  <1>f. DOMAIN ha'[e] = 1 .. Len(ha[e]) /\ DOMAIN ha[e] = 1 .. Len(ha[e]) 
        /\ on'[e] = i + 1 /\ i \in Nat \ {0} /\ i = on[e]
    BY <1>0, <1>b, <1>d, Shape, LenProperties DEF TypeOK
  <1>1. TypeOK'
    BY <1>a, <1>b, <1>c, <1>d, <1>f, AcquiredFacts DEF TypeOK
  <1>2. InRange'
    BY <1>a, <1>b, <1>d, <1>e DEF InRange
  <1>3. WaitsOnce'
    <2>1. \A a \in Atom : atoms'[a].waiters = atoms[a].waiters
      BY <1>a, <1>c, AcquiredFacts
    <2> QED
      BY <2>1, <1>1, <1>a, <1>b, <1>e, StillWaiting
  <1>4. GuardsInOrder'
    <2> SUFFICES ASSUME NEW x \in Event, NEW j \in DOMAIN ha'[x]
                 PROVE  /\ ha'[x][j].haveit => j < on'[x]
                        /\ j < on'[x] => ha'[x][j].haveit \/ ha'[x][j].atom = Null
                        /\ pc[x] \notin {"acquire", "wait", "granted"} => j < on'[x]
                        /\ pc[x] \in {"release", "erelease"} /\ j > idx[x] 
                             => ha'[x][j].atom = Null
                        /\ pc[x] \in {"reacquire", "ereacquire"} => ha'[x][j].atom = Null
                        /\ pc[x] # "free"
      BY <1>b DEF GuardsInOrder
    <2>1. CASE x # e
      BY <2>1, <1>e DEF GuardsInOrder
    <2>2. CASE x = e /\ j # i
      <3>1. j \in DOMAIN ha[e] /\ j \in Nat /\ ha'[e][j] = ha[e][j]
        BY <2>2, <1>d, <1>f
      <3>2. /\ ha[e][j].haveit => j < i
            /\ j < i => ha[e][j].haveit \/ ha[e][j].atom = Null
        BY <3>1, <1>f DEF GuardsInOrder
      <3> QED
        BY <2>2, <3>1, <3>2, <1>a, <1>f
    <2>3. CASE x = e /\ j = i
      BY <2>3, <1>a, <1>d, <1>f
    <2> QED
      BY <2>1, <2>2, <2>3
  <1>5. OwnedOnce'
    BY <1>b DEF OwnedOnce
  <1>6. <<e, i>> \notin Holders(c)
    BY <1>a, HolderPairs DEF Holders
  <1>s. ASSUME NEW a \in Atom
        PROVE  \A h : h # <<e, i>> => (h \in HoldersIn(ha', a) <=> h \in HoldersIn(ha, a))
    <2>1. ASSUME NEW x \in Event, NEW j, <<x, j>> # <<e, i>>
          PROVE  /\ j \in DOMAIN ha'[x] <=> j \in DOMAIN ha[x]
                 /\ j \in DOMAIN ha[x] => ha'[x][j] = ha[x][j]
      BY <2>1, <1>d, <1>e, <1>f
    <2>2. \A x \in Event : \A j : <<x, j>> # <<e, i>> =>
               (<<x, j>> \in HoldersIn(ha', a) <=> <<x, j>> \in HoldersIn(ha, a))
      BY <2>1 DEF HoldersIn
    <2> QED
      BY <2>2, HoldersExcept
  <1>7. Holders(c)' = Holders(c) \cup {<<e, i>>}
    <2>1. <<e, i>> \in HoldersIn(ha', c)
      BY <1>a, <1>d, <1>f, HolderPairs
    <2>2. HoldersIn(ha', c) = HoldersIn(ha, c) \cup {<<e, i>>}
      BY <2>1, <1>s
    <2> QED
      BY <2>2 DEF Holders
  <1>8. ASSUME NEW a \in Atom, a # c PROVE Holders(a)' = Holders(a)
    <2>1. <<e, i>> \notin HoldersIn(ha', a) /\ <<e, i>> \notin HoldersIn(ha, a)
      BY <1>8, <1>0, <1>d, HolderPairs
    <2>2. \A h : h \in HoldersIn(ha', a) <=> h \in HoldersIn(ha, a)
      BY <2>1, <1>s
    <2> QED
      BY <2>2 DEF Holders
  <1>9. \A x \in Event : \A j \in DOMAIN ha[x] : ha'[x][j].wtype = ha[x][j].wtype
    BY <1>0, <1>d, <1>e, <1>f
  <1>10. \A a \in Atom : \A h \in Holders(a) : ha'[h[1]][h[2]].wtype = ha[h[1]][h[2]].wtype
    BY <1>9, HolderPairs DEF Holders
  <1>11. Counted'
    <2>1. IsFiniteSet(Holders(c)) /\ atoms[c].held = Cardinality(Holders(c))
      BY DEF Counted
    <2>2. IsFiniteSet(Holders(c)') /\ Cardinality(Holders(c)') = Cardinality(Holders(c)) + 1
      BY <2>1, <1>6, <1>7, FS_AddElement
    <2>3. atoms'[c].held = atoms[c].held + 1
      BY <1>a, <1>c, AcquiredFacts
    <2> QED
      BY <2>1, <2>2, <2>3, <1>c, <1>8 DEF Counted
  <1>12. Modes'
    <2> SUFFICES ASSUME NEW a \in Atom
                 PROVE  /\ a \in ExclusiveAtom => atoms'[a].mode = None /\ atoms'[a].held <= 1
                        /\ a \notin ExclusiveAtom =>
                             /\ atoms'[a].held = 0 <=> atoms'[a].mode = None
                             /\ atoms'[a].mode \in {Write, Upgradeable} => atoms'[a].held = 1
                             /\ atoms'[a].mode = Read => 
                                  \A h \in Holders(a)' : 
                                     JoinsReaders(ha'[h[1]][h[2]].wtype, present'[a])
      BY DEF Modes
    <2>1. CASE a # c
      BY <2>1, <1>b, <1>c, <1>8, <1>10 DEF Modes
    <2>2. CASE a = c /\ c \in ExclusiveAtom
      BY <2>2, <1>a, <1>c, AcquiredFacts DEF Modes, AtomicState
    <2>3. CASE a = c /\ c \notin ExclusiveAtom /\ atoms[c].held = 0
      <3>1. Holders(c) = {}
        BY <2>3, <1>a, FS_EmptySet DEF Counted
      <3>2. atoms'[c].mode = w /\ atoms'[c].held = 1 /\ w # Exclusive
        BY <2>3, <1>a, <1>c, AcquiredFacts
      <3> QED
        BY <2>3, <3>1, <3>2, <1>a, <1>d, <1>7 
           DEF WType, None, Read, Write, Exclusive, Upgradeable, JoinsReaders
    <2>4. CASE a = c /\ c \notin ExclusiveAtom /\ atoms[c].held # 0
      <3>1. atoms'[c].mode = Read /\ atoms[c].mode = Read /\ JoinsReaders(w, present[c])
            /\ atoms'[c].held = atoms[c].held + 1 /\ atoms[c].held \in Nat
        BY <2>4, <1>a, <1>c, AcquiredFacts DEF AtomicState
      <3>2. \A h \in Holders(c) : JoinsReaders(ha[h[1]][h[2]].wtype, present[c])
        BY <3>1, <2>4, <1>a DEF Modes
      <3>3. \A h \in Holders(c)' : JoinsReaders(ha'[h[1]][h[2]].wtype, present'[c])
        BY <3>1, <3>2, <1>7, <1>10, <1>a, <1>b, <1>d
      <3> QED
        BY <2>4, <3>1, <3>3 DEF None, Read, Write, Upgradeable
    <2> QED
      BY <2>1, <2>2, <2>3, <2>4
  <1>13. atoms[c].waiters = <<>>
    <2>1. CASE atoms[c].held = 0
      BY <2>1, <1>a, FS_EmptySet DEF Counted, WaitersBlocked
    <2>2. CASE atoms[c].held # 0
      BY <2>2, <1>a, <1>c, AcquiredFacts
    <2> QED
      BY <2>1, <2>2
  <1>14. \A a \in Atom : atoms'[a].waiters = atoms[a].waiters
    BY <1>a, <1>c, AcquiredFacts
  <1>15. WaitersBlocked'
    BY <1>13, <1>14, <1>b, <1>c, <1>8 DEF WaitersBlocked
  <1>16. Gets(e, i, c, w)
    <2>1. \/ Holders(c) = {}
          \/ /\ JoinsReaders(w, present[c])
             /\ \A h \in Holders(c) : JoinsReaders(ha[h[1]][h[2]].wtype, present[c])
      <3>1. CASE atoms[c].held = 0
        BY <3>1, <1>a, FS_EmptySet DEF Counted
      <3>2. CASE atoms[c].held # 0
        <4>1. atoms[c].mode = Read /\ JoinsReaders(w, present[c])
          BY <3>2, <1>a, <1>c, AcquiredFacts
        <4>2. c \notin ExclusiveAtom
          BY <4>1 DEF Modes, None, Read
        <4> QED
          BY <4>1, <4>2 DEF Modes
      <3> QED
        BY <3>1, <3>2
    <2>2. \A x \in Event : pc[x] = "wait" => on'[x] = on[x]
      BY <1>a, <1>e
    <2> QED
      BY <2>1, <2>2, <1>0, <1>a, <1>b, <1>d, <1>7, <1>8, <1>10, <1>13, <1>14 DEF Gets
  <1> QED
    BY <1>1, <1>2, <1>3, <1>4, <1>5, <1>11, <1>12, <1>15, <1>16

LEMMA WaitForAtomicIInv ==
    ASSUME IInv, NEW e \in Event, WaitForAtomic(e)
    PROVE  IInv' /\ \E i \in Nat \ {0}, c \in Atom, w \in WType : Queues(e, i, c, w)
  <1> USE DEF IInv
  <1>0. PICK i \in Nat \ {0}, c \in Atom, w \in WType : 
            i = on[e] /\ c = ha[e][i].atom /\ w = ha[e][i].wtype
    BY Shape DEF WaitForAtomic
  <1> DEFINE entry == [event |-> e, wtype |-> w]
             s == atoms[c].waiters
  <1>a. pc[e] = "acquire" /\ i \in 1 .. Len(ha[e]) /\ ~ Grants(atoms[c], w, present[c])
    BY <1>0, Shape DEF WaitForAtomic
  <1>b. /\ atoms' = [atoms EXCEPT ![c] = Queued(atoms[c], e, w)]
        /\ pc' = [pc EXCEPT ![e] = "wait"]
        /\ own' = [x \in Event |-> own[x] \ {e}]
        /\ UNCHANGED <<present, ha, on, idx>>
    BY <1>0 DEF WaitForAtomic
  <1> HIDE DEF s, entry
  <1>c. /\ s \in Seq(QueueEntry(Event)) /\ entry \in QueueEntry(Event)
        /\ entry.event = e /\ entry.wtype = w /\ Len(s) \in Nat
    BY <1>a, WaiterShape DEF QueueEntry, entry, s
  <1>d. /\ atoms'[c].waiters = Append(s, entry)
        /\ atoms'[c].held = atoms[c].held /\ atoms'[c].mode = atoms[c].mode
        /\ atoms'[c] \in AtomicState(Event)
        /\ \A a \in Atom : a # c => atoms'[a] = atoms[a]
    <2>1. atoms[c] \in AtomicState(Event) /\ atoms'[c] = Queued(atoms[c], e, w)
          /\ \A a \in Atom : a # c => atoms'[a] = atoms[a]
      BY <1>b DEF TypeOK
    <2>2. Queued(atoms[c], e, w) = 
            [held |-> atoms[c].held, mode |-> atoms[c].mode, waiters |-> Append(s, entry)]
      BY <2>1 DEF Queued, AtomicState, s, entry
    <2>3. Append(s, entry) \in Seq(QueueEntry(Event))
      BY <1>c, AppendProperties
    <2> QED
      BY <2>1, <2>2, <2>3 DEF AtomicState
  <1>e. /\ Len(Append(s, entry)) = Len(s) + 1
        /\ Append(s, entry)[Len(s) + 1] = entry
        /\ \A k \in 1 .. Len(s) : Append(s, entry)[k] = s[k]
        /\ Append(s, entry) # <<>>
    BY <1>c, AppendProperties
  <1>1. TypeOK'
    BY <1>a, <1>b, <1>d DEF TypeOK, PC
  <1>2. InRange'
    BY <1>a, <1>b DEF InRange, TypeOK
  <1>3. WaitsOnce'
    <2>1. ASSUME NEW a \in Atom, NEW k \in 1 .. Len(atoms[a].waiters), 
                 NEW x, x = atoms[a].waiters[k].event
          PROVE  /\ x \in Event /\ x # e /\ pc'[x] = "wait"
                 /\ on'[x] \in DOMAIN ha'[x] /\ ha'[x][on'[x]].atom = a
                 /\ ha'[x][on'[x]].wtype = atoms[a].waiters[k].wtype
                 /\ \A m \in 1 .. Len(atoms[a].waiters) : 
                      atoms[a].waiters[m].event = x => m = k
      <3>1. x \in Event
        BY <2>1, WaiterShape
      <3>2. /\ pc[x] = "wait" /\ on[x] \in DOMAIN ha[x] /\ ha[x][on[x]].atom = a
            /\ ha[x][on[x]].wtype = atoms[a].waiters[k].wtype
            /\ \A m \in 1 .. Len(atoms[a].waiters) : 
                 atoms[a].waiters[m].event = x => m = k
        BY <2>1, WaiterOf
      <3>3. x # e
        BY <3>2, <1>a
      <3>4. pc'[x] = "wait"
        BY <3>1, <3>2, <1>b DEF TypeOK
      <3> QED
        BY <3>1, <3>2, <3>3, <3>4, <1>b
    <2>2. ASSUME NEW a \in Atom, a # c, NEW k \in 1 .. Len(atoms'[a].waiters)
          PROVE  LET v == atoms'[a].waiters[k]
                 IN  /\ pc'[v.event] = "wait"
                     /\ on'[v.event] \in DOMAIN ha'[v.event]
                     /\ ha'[v.event][on'[v.event]].atom = a
                     /\ ha'[v.event][on'[v.event]].wtype = v.wtype
                     /\ \A m \in 1 .. Len(atoms'[a].waiters) : 
                          atoms'[a].waiters[m].event = v.event => m = k
      <3>1. atoms'[a].waiters = atoms[a].waiters /\ k \in 1 .. Len(atoms[a].waiters)
        BY <2>2, <1>d
      <3> DEFINE x == atoms[a].waiters[k].event
      <3>2. /\ x \in Event /\ pc'[x] = "wait"
            /\ on'[x] \in DOMAIN ha'[x] /\ ha'[x][on'[x]].atom = a
            /\ ha'[x][on'[x]].wtype = atoms[a].waiters[k].wtype
            /\ \A m \in 1 .. Len(atoms[a].waiters) : 
                 atoms[a].waiters[m].event = x => m = k
        BY ONLY <2>1, <3>1, a \in Atom
      <3> QED
        BY ONLY <3>1, <3>2
    <2>3. ASSUME NEW k \in 1 .. Len(s)
          PROVE  /\ s[k].event \in Event /\ s[k].event # e
                 /\ pc'[s[k].event] = "wait"
                 /\ on'[s[k].event] \in DOMAIN ha'[s[k].event]
                 /\ ha'[s[k].event][on'[s[k].event]].atom = c
                 /\ ha'[s[k].event][on'[s[k].event]].wtype = s[k].wtype
                 /\ \A m \in 1 .. Len(s) : s[m].event = s[k].event => m = k
      BY <2>1 DEF s
    <2>4. ASSUME NEW k \in 1 .. (Len(s) + 1)
          PROVE  LET v == Append(s, entry)[k]
                 IN  /\ pc'[v.event] = "wait"
                     /\ on'[v.event] \in DOMAIN ha'[v.event]
                     /\ ha'[v.event][on'[v.event]].atom = c
                     /\ ha'[v.event][on'[v.event]].wtype = v.wtype
                     /\ \A m \in 1 .. (Len(s) + 1) : 
                          Append(s, entry)[m].event = v.event => m = k
      <3>1. CASE k = Len(s) + 1
        <4>1. i \in DOMAIN ha[e] /\ pc'[e] = "wait"
          BY <1>a, <1>b, Shape DEF TypeOK
        <4>2. \A m \in 1 .. (Len(s) + 1) : Append(s, entry)[m].event = e => m = k
          BY <3>1, <2>3, <1>c, <1>e
        <4> QED
          BY <3>1, <4>1, <4>2, <1>0, <1>b, <1>c, <1>e
      <3>2. CASE k # Len(s) + 1
        <4>1. k \in 1 .. Len(s) /\ Append(s, entry)[k] = s[k]
          BY <3>2, <1>c, <1>e
        <4>2. \A m \in 1 .. (Len(s) + 1) : Append(s, entry)[m].event = s[k].event => m = k
          BY <4>1, <2>3, <1>c, <1>e, SMTT(40)
        <4> QED
          BY <4>1, <4>2, <2>3, <1>b
      <3> QED
        BY <3>1, <3>2
    <2>5. ASSUME NEW x \in Event, pc'[x] = "wait"
          PROVE  \E a \in Atom : \E k \in 1 .. Len(atoms'[a].waiters) :
                     atoms'[a].waiters[k].event = x
      <3>1. CASE x = e
        BY <3>1, <1>a, <1>c, <1>d, <1>e
      <3>2. CASE x # e
        <4>1. pc[x] = "wait"
          BY <3>2, <2>5, <1>b DEF TypeOK
        <4>2. PICK a \in Atom : \E k \in 1 .. Len(atoms[a].waiters) :
                     atoms[a].waiters[k].event = x
          BY <4>1 DEF WaitsOnce
        <4> QED
          BY <4>2, <1>c, <1>d, <1>e DEF s
      <3> QED
        BY <3>1, <3>2
    <2>6. \A k \in 1 .. Len(atoms'[c].waiters) :
            LET v == atoms'[c].waiters[k]
            IN  /\ pc'[v.event] = "wait"
                /\ on'[v.event] \in DOMAIN ha'[v.event]
                /\ ha'[v.event][on'[v.event]].atom = c
                /\ ha'[v.event][on'[v.event]].wtype = v.wtype
                /\ \A m \in 1 .. Len(atoms'[c].waiters) : 
                     atoms'[c].waiters[m].event = v.event => m = k
      BY <2>4, <1>d, <1>e
    <2>7. \A a \in Atom : \A k \in 1 .. Len(atoms'[a].waiters) :
            LET v == atoms'[a].waiters[k]
            IN  /\ pc'[v.event] = "wait"
                /\ on'[v.event] \in DOMAIN ha'[v.event]
                /\ ha'[v.event][on'[v.event]].atom = a
                /\ ha'[v.event][on'[v.event]].wtype = v.wtype
                /\ \A m \in 1 .. Len(atoms'[a].waiters) : 
                     atoms'[a].waiters[m].event = v.event => m = k
      <3> DEFINE Wait(a) == \A k \in 1 .. Len(atoms'[a].waiters) :
                   LET v == atoms'[a].waiters[k]
                   IN  /\ pc'[v.event] = "wait"
                       /\ on'[v.event] \in DOMAIN ha'[v.event]
                       /\ ha'[v.event][on'[v.event]].atom = a
                       /\ ha'[v.event][on'[v.event]].wtype = v.wtype
                       /\ \A m \in 1 .. Len(atoms'[a].waiters) : 
                            atoms'[a].waiters[m].event = v.event => m = k
      <3>1. \A a \in Atom \ {c} : Wait(a)
        BY ONLY <2>2, Zenon
      <3>2. Wait(c)
        BY ONLY <2>6, Zenon
      <3>3. \A a \in Atom : Wait(a)
        <4> HIDE DEF Wait
        <4> QED
          BY ONLY <3>1, <3>2
      <3> QED
        BY ONLY <3>3
    <2> QED
      BY <2>5, <2>7, Zenon DEF WaitsOnce, Target
  <1>4. GuardsInOrder'
    BY <1>a, <1>b DEF GuardsInOrder, TypeOK
  <1>5. OwnedOnce'
    BY <1>a, <1>b DEF OwnedOnce, TypeOK
  <1>6. \A a \in Atom : Holders(a)' = Holders(a)
    BY <1>b DEF Holders
  <1>7. Counted'
    BY <1>6, <1>d DEF Counted
  <1>8. Modes'
    BY <1>b, <1>6, <1>d, SMTT(40) DEF Modes
  <1>7a. Holders(c) # {}
    BY <1>a, FS_EmptySet DEF Counted, Grants
  <1>7b. Queues(e, i, c, w)
    BY <1>0, <1>a, <1>b, <1>d, <1>7a DEF Queues, s, entry
  <1>9. WaitersBlocked'
    <2>2. atoms[c].mode = Read => ~ JoinsReaders(Append(s, entry)[1].wtype, present[c])
      <3>1. CASE s = <<>>
        <4>1. Append(s, entry)[1].wtype = w
          BY <3>1, <1>c, <1>e
        <4>2. atoms[c].mode = Read /\ JoinsReaders(w, present[c]) => w # Exclusive
          BY DEF JoinsReaders, Exclusive, Read, Upgradeable
        <4> QED
          BY <3>1, <4>1, <4>2, <1>a DEF Grants, s
      <3>2. CASE s # <<>>
        <4>1. Append(s, entry)[1] = s[1]
          BY <3>2, <1>c, <1>e, EmptySeq
        <4> QED
          BY <3>2, <4>1, <1>a DEF WaitersBlocked, s
      <3> QED
        BY <3>1, <3>2
    <2> QED
      BY <2>2, <1>7a, <1>b, <1>d, <1>6 DEF WaitersBlocked
  <1> QED
    BY <1>1, <1>2, <1>3, <1>4, <1>5, <1>7, <1>8, <1>9, <1>7b

-----------------------------------------------------------------------------
(***************************************************************************)
(* AtomicsHolder::release.                                                 *)
(***************************************************************************)
\* What release leaves behind, for a caller that has the atomic.
LeavesBehind(at, w, p, n) ==
    LET q == at.waiters
        r == Released(at, w, n)
    IN  /\ r \in AtomicState(Event)
        /\ n = 0 => /\ r.held = at.held - 1 /\ r.waiters = q
                    /\ at.held = 1 => q = <<>> /\ r.mode = None
                    /\ at.held # 1 => r.mode = at.mode
        /\ n > 0 => /\ at.held = 1 /\ r.held = n
                    /\ r.mode = IF w = Exclusive THEN None ELSE q[1].wtype
                    /\ q[1].wtype # Read => n = 1
                    /\ q[1].wtype = Read =>
                         /\ \A k \in 1 .. n : JoinsReaders(q[k].wtype, p)
                         /\ n < Len(q) => ~ JoinsReaders(q[n+1].wtype, p)
        /\ Len(r.waiters) = Len(q) - n
        /\ \A k \in 1 .. (Len(q) - n) : r.waiters[k] = q[n + k]

LEMMA ReleasedFacts ==
    ASSUME NEW at \in AtomicState(Event), NEW w \in WType, NEW p, 
           NEW n \in 0 .. Len(at.waiters), IsBatch(at, w, p, n),
           at.held # 0, w = Exclusive => at.held = 1,
           w # Exclusive => \A k \in 1 .. Len(at.waiters) : at.waiters[k].wtype # Exclusive
    PROVE  LeavesBehind(at, w, p, n)
  <1> DEFINE q == at.waiters
  <1>0. at.held \in Nat /\ at.mode \in Mode /\ q \in Seq(QueueEntry(Event)) /\ Len(q) \in Nat
    BY DEF AtomicState
  <1>1. HeldAfter(at, w) = at.held - 1
    BY <1>0 DEF HeldAfter
  <1>2. CASE n = 0
    <2>1. Released(at, w, n) = [held |-> at.held - 1, waiters |-> q,
                                mode |-> IF at.held - 1 = 0 THEN None ELSE at.mode]
      BY <1>0, <1>1, <1>2 DEF Released, AtomicState
    <2>2. at.held = 1 => q = <<>>
      BY <1>0, <1>1, <1>2 DEF IsBatch
    <2>3. None \in Mode
      BY DEF Mode
    <2> QED
      BY <1>0, <1>2, <2>1, <2>2, <2>3 DEF AtomicState, LeavesBehind
  <1>3. CASE n > 0
    <2>1. /\ at.held = 1 /\ q # <<>>
          /\ q[1].wtype # Read => n = 1
          /\ q[1].wtype = Read => 
               /\ \A k \in 2 .. n : JoinsReaders(q[k].wtype, p)
               /\ n < Len(q) => ~ JoinsReaders(q[n+1].wtype, p)
      BY <1>0, <1>1, <1>3 DEF IsBatch
    <2>2. Released(at, w, n) = [held |-> n, 
                                mode |-> IF w = Exclusive THEN None ELSE q[1].wtype,
                                waiters |-> SubSeq(q, n + 1, Len(q))]
      BY <1>3 DEF Released
    <2>3. /\ SubSeq(q, n + 1, Len(q)) \in Seq(QueueEntry(Event))
          /\ Len(SubSeq(q, n + 1, Len(q))) = Len(q) - n
          /\ \A k \in 1 .. (Len(q) - n) : SubSeq(q, n + 1, Len(q))[k] = q[n + k]
      <3>1. \A k \in (n + 1) .. Len(q) : q[k] \in QueueEntry(Event)
        BY <1>0, <1>3, ElementOfSeq
      <3> QED
        BY <1>0, <1>3, <3>1, SubSeqProperties
    <2>4. q[1] \in QueueEntry(Event)
      BY <1>0, <1>3, ElementOfSeq
    <2>5. (IF w = Exclusive THEN None ELSE q[1].wtype) \in Mode
      BY <1>0, <1>3, <2>4 DEF QueueEntry, Mode, WType
    <2>6. q[1].wtype = Read => \A k \in 1 .. n : JoinsReaders(q[k].wtype, p)
      BY <2>1, <1>3 DEF JoinsReaders
    <2> HIDE DEF q
    <2>7. /\ Released(at, w, n).held = n
          /\ Released(at, w, n).mode = IF w = Exclusive THEN None ELSE q[1].wtype
          /\ Released(at, w, n).waiters = SubSeq(q, n + 1, Len(q))
      BY <2>2
    <2>8. Released(at, w, n) \in AtomicState(Event)
      BY <1>3, <2>2, <2>3, <2>5 DEF AtomicState
    <2> QED
      BY <1>0, <1>3, <2>1, <2>3, <2>6, <2>7, <2>8 DEF q, LeavesBehind
  <1> QED
    BY <1>2, <1>3

\* What one turn of the release loop does, for the i-th guard of e, an atomic
\* c held with type w, when n waiters get it.
ReleaseStep(e, i, c, w, n) ==
    LET q == atoms[c].waiters
        Released1 == {q[k].event : k \in 1 .. n}
    IN  /\ pc[e] \in {"release", "erelease"}
        /\ i = idx[e] /\ i \in 1 .. Len(ha[e])
        /\ ha[e][i].atom = c /\ ha[e][i].wtype = w /\ ha[e][i].haveit
        /\ n \in 0 .. Len(q) /\ IsBatch(atoms[c], w, present[c], n)
        /\ atoms' = [atoms EXCEPT ![c] = Released(atoms[c], w, n)]
        /\ idx' = [idx EXCEPT ![e] = i - 1] 
        /\ own' = [own EXCEPT ![e] = own[e] \cup Released1]
        /\ present' = present
        /\ \A k \in 1 .. Len(q) :
             /\ q[k].event \in Event /\ q[k].event # e /\ pc[q[k].event] = "wait"
             /\ on[q[k].event] \in 1 .. Len(ha[q[k].event])
             /\ ha[q[k].event][on[q[k].event]].atom = c
             /\ ha[q[k].event][on[q[k].event]].wtype = q[k].wtype
             /\ \A m \in 1 .. Len(q) : q[m].event = q[k].event => m = k
        /\ ha' = [x \in Event |-> IF x = e THEN ForgetIt(ha[e], i)
                                  ELSE IF x \in Released1 THEN TakeIt(ha[x], on[x])
                                  ELSE ha[x]]
        /\ on' = [x \in Event |-> IF x \in Released1 THEN on[x] + 1 ELSE on[x]]
        /\ pc' = [x \in Event |-> IF x \in Released1 THEN "granted" ELSE pc[x]]

\* halftakeit finds the position the released event waits at: the assertion
\* "should have found a held atomic for this released event" holds.
LEMMA HandOverIndexIsOn ==
    ASSUME NEW x \in Event, NEW a, on[x] \in 1 .. Len(ha[x]), Len(ha[x]) \in Nat,
           ha[x][on[x]].atom = a
    PROVE  HandOverIndex(x, a) = on[x]
  <1> DEFINE P(j) == /\ ha[x][j].atom = a
                     /\ \A k \in on[x] .. (j - 1) : ha[x][k].atom # a
  <1>1. on[x] \in on[x] .. Len(ha[x]) /\ P(on[x])
    OBVIOUS
  <1>2. \A j \in on[x] .. Len(ha[x]) : P(j) => j = on[x]
    OBVIOUS
  <1>3. HandOverIndex(x, a) = CHOOSE j \in on[x] .. Len(ha[x]) : P(j)
    BY DEF HandOverIndex
  <1> HIDE DEF P
  <1> QED
    BY <1>1, <1>2, <1>3

LEMMA ReleaseAtomicSteps ==
    ASSUME IInv, NEW e \in Event, ReleaseAtomic(e)
    PROVE  \E i \in Nat \ {0}, c \in Atom, w \in WType, n \in Nat : 
              ReleaseStep(e, i, c, w, n)
  <1> USE DEF IInv
  <1>0. PICK i \in Nat \ {0}, c \in Atom, w \in WType : 
            i = idx[e] /\ c = ha[e][i].atom /\ w = ha[e][i].wtype
            /\ i \in 1 .. Len(ha[e]) /\ ha[e][i].haveit
    <2>1. pc[e] \in {"release", "erelease"} /\ idx[e] > 0 /\ Holds(e, idx[e])
      BY DEF ReleaseAtomic
    <2>2. idx[e] \in 1 .. Len(ha[e])
      BY <2>1, Shape DEF InRange
    <2> QED
      BY <2>1, <2>2, Shape DEF Holds
  <1> DEFINE q == atoms[c].waiters
             R(n) == {q[k].event : k \in 1 .. n}
  <1>1. PICK n \in 0 .. Len(q) :
          /\ IsBatch(atoms[c], w, present[c], n)
          /\ atoms' = [atoms EXCEPT ![c] = Released(atoms[c], w, n)]
          /\ ha' = [x \in Event |->
               IF x = e THEN ForgetIt(ha[e], i)
               ELSE IF x \in R(n) THEN TakeIt(ha[x], HandOverIndex(x, c))
               ELSE ha[x]]
          /\ on' = [x \in Event |->
               IF x \in R(n) /\ HandOverIndex(x, c) = on[x] THEN on[x] + 1 ELSE on[x]]
          /\ pc' = [x \in Event |-> IF x \in R(n) THEN "granted" ELSE pc[x]]
          /\ own' = [own EXCEPT ![e] = own[e] \cup R(n)]
    <2> DEFINE Turn(ii, a, t) == \E n \in 0 .. Len(atoms[a].waiters) :
          LET Rel == {atoms[a].waiters[k].event : k \in 1 .. n}
          IN  /\ IsBatch(atoms[a], t, present[a], n)
              /\ atoms' = [atoms EXCEPT ![a] = Released(atoms[a], t, n)]
              /\ ha' = [x \in Event |->
                   IF x = e THEN ForgetIt(ha[e], ii)
                   ELSE IF x \in Rel THEN TakeIt(ha[x], HandOverIndex(x, a))
                   ELSE ha[x]]
              /\ on' = [x \in Event |->
                   IF x \in Rel /\ HandOverIndex(x, a) = on[x] 
                   THEN on[x] + 1 ELSE on[x]]
              /\ pc' = [x \in Event |-> IF x \in Rel THEN "granted" ELSE pc[x]]
              /\ own' = [own EXCEPT ![e] = own[e] \cup Rel]
    <2>1. Turn(idx[e], ha[e][idx[e]].atom, ha[e][idx[e]].wtype)
      BY Zenon DEF ReleaseAtomic
    <2>2. idx[e] = i /\ ha[e][idx[e]].atom = c /\ ha[e][idx[e]].wtype = w
      BY <1>0
    <2> HIDE DEF Turn
    <2>3. Turn(i, c, w)
      BY <2>1, <2>2
    <2> QED
      BY <2>3, Zenon DEF Turn
  <1>2. /\ pc[e] \in {"release", "erelease"} /\ present' = present
        /\ idx' = [idx EXCEPT ![e] = i - 1]
    BY <1>0 DEF ReleaseAtomic
  <1>3. ASSUME NEW k \in 1 .. Len(q), NEW x, x = q[k].event
        PROVE  /\ x \in Event /\ x # e /\ pc[x] = "wait"
               /\ on[x] \in 1 .. Len(ha[x]) /\ Len(ha[x]) \in Nat
               /\ ha[x][on[x]].atom = c /\ ha[x][on[x]].wtype = q[k].wtype
               /\ \A m \in 1 .. Len(q) : q[m].event = x => m = k
    <2>1. x \in Event
      BY <1>3, WaiterShape
    <2>2. /\ pc[x] = "wait" /\ on[x] \in DOMAIN ha[x] /\ ha[x][on[x]].atom = c
          /\ ha[x][on[x]].wtype = q[k].wtype
          /\ \A m \in 1 .. Len(q) : q[m].event = x => m = k
      BY <1>3, WaiterOf
    <2> QED
      BY <2>1, <2>2, <1>2, Shape
  <1>4. n \in Nat /\ Len(q) \in Nat /\ 1 .. n \subseteq 1 .. Len(q)
    BY WaiterShape
  <1>5. ASSUME NEW x \in R(n) PROVE HandOverIndex(x, c) = on[x]
    <2>1. PICK k \in 1 .. n : x = q[k].event
      OBVIOUS
    <2> QED
      BY <2>1, <1>3, <1>4, HandOverIndexIsOn, SMTT(40)
  <1> HIDE DEF R
  <1>6. /\ ha' = [x \in Event |-> IF x = e THEN ForgetIt(ha[e], i)
                                  ELSE IF x \in R(n) THEN TakeIt(ha[x], on[x])
                                  ELSE ha[x]]
        /\ on' = [x \in Event |-> IF x \in R(n) THEN on[x] + 1 ELSE on[x]]
    BY <1>1, <1>5
  <1>7. \A k \in 1 .. Len(q) :
          /\ q[k].event \in Event /\ q[k].event # e /\ pc[q[k].event] = "wait"
          /\ on[q[k].event] \in 1 .. Len(ha[q[k].event])
          /\ ha[q[k].event][on[q[k].event]].atom = c
          /\ ha[q[k].event][on[q[k].event]].wtype = q[k].wtype
          /\ \A m \in 1 .. Len(q) : q[m].event = q[k].event => m = k
    BY <1>3, SMTT(40)
  <1>8. ReleaseStep(e, i, c, w, n)
    BY <1>0, <1>1, <1>2, <1>6, <1>7, Zenon DEF ReleaseStep, R
  <1> QED
    BY <1>8, <1>4

LEMMA ReleaseAtomicIInv ==
    ASSUME IInv, NEW e \in Event, ReleaseAtomic(e)
    PROVE  IInv' /\ \E i \in Nat \ {0}, c \in Atom, n \in Nat : GivesUp(e, i, c, n)
  <1> USE DEF IInv
  <1>0. PICK i \in Nat \ {0}, c \in Atom, w \in WType, n \in Nat : ReleaseStep(e, i, c, w, n)
    BY ReleaseAtomicSteps
  <1> DEFINE q == atoms[c].waiters
             R == {q[k].event : k \in 1 .. n}
  <1>1. /\ pc[e] \in {"release", "erelease"}
        /\ i = idx[e] /\ i \in 1 .. Len(ha[e])
        /\ ha[e][i].atom = c /\ ha[e][i].wtype = w /\ ha[e][i].haveit
        /\ n \in 0 .. Len(q) /\ IsBatch(atoms[c], w, present[c], n)
        /\ (w = Exclusive <=> c \in ExclusiveAtom)
        /\ Len(q) \in Nat
    BY <1>0, Shape, WaiterShape DEF ReleaseStep, Fits
  <1>2. /\ atoms' = [atoms EXCEPT ![c] = Released(atoms[c], w, n)]
        /\ idx' = [idx EXCEPT ![e] = i - 1] 
        /\ own' = [own EXCEPT ![e] = own[e] \cup R]
        /\ present' = present
        /\ on' = [x \in Event |-> IF x \in R THEN on[x] + 1 ELSE on[x]]
        /\ pc' = [x \in Event |-> IF x \in R THEN "granted" ELSE pc[x]]
    BY <1>0, Zenon DEF ReleaseStep
  <1>3. ha' = [x \in Event |-> IF x = e THEN ForgetIt(ha[e], i)
                               ELSE IF x \in R THEN TakeIt(ha[x], on[x]) ELSE ha[x]]
    BY <1>0, Zenon DEF ReleaseStep
  <1>4. \A k \in 1 .. Len(q) :
          /\ q[k].event \in Event /\ q[k].event # e /\ pc[q[k].event] = "wait"
          /\ on[q[k].event] \in 1 .. Len(ha[q[k].event])
          /\ ha[q[k].event][on[q[k].event]].atom = c
          /\ ha[q[k].event][on[q[k].event]].wtype = q[k].wtype
          /\ \A m \in 1 .. Len(q) : q[m].event = q[k].event => m = k
    BY <1>0, Zenon DEF ReleaseStep
  <1>5. \A x \in R : /\ x \in Event /\ x # e /\ pc[x] = "wait"
                     /\ on[x] \in 1 .. Len(ha[x]) /\ ha[x][on[x]].atom = c
    <2>1. 1 .. n \subseteq 1 .. Len(q)
      BY <1>1
    <2> QED
      BY ONLY <2>1, <1>4, SMTT(30)
  \* The three kinds of holders after the step.
  <1>6. /\ ha'[e] \in Seq(HeldAtomic) /\ Len(ha'[e]) = Len(ha[e])
        /\ ha'[e][i].atom = Null /\ ha'[e][i].haveit = ha[e][i].haveit
        /\ ha'[e][i].wtype = ha[e][i].wtype
        /\ \A j \in 1 .. Len(ha[e]) : j # i => ha'[e][j] = ha[e][j]
    <2>1. ha[e] \in Seq(HeldAtomic) /\ ha'[e] = ForgetIt(ha[e], i)
      BY <1>3 DEF TypeOK
    <2>2. /\ ForgetIt(ha[e], i) \in Seq(HeldAtomic)
          /\ Len(ForgetIt(ha[e], i)) = Len(ha[e])
          /\ ForgetIt(ha[e], i)[i].atom = Null
          /\ ForgetIt(ha[e], i)[i].haveit = ha[e][i].haveit
          /\ ForgetIt(ha[e], i)[i].wtype = ha[e][i].wtype
          /\ \A j \in 1 .. Len(ha[e]) : j # i => ForgetIt(ha[e], i)[j] = ha[e][j]
      BY <1>1, <2>1, ForgetItFacts
    <2> QED
      BY <2>1, <2>2
  <1>7. ASSUME NEW x \in R
        PROVE  /\ ha'[x] \in Seq(HeldAtomic) /\ Len(ha'[x]) = Len(ha[x])
               /\ ha'[x][on[x]].atom = c /\ ha'[x][on[x]].haveit = TRUE
               /\ ha'[x][on[x]].wtype = ha[x][on[x]].wtype
               /\ \A j \in 1 .. Len(ha[x]) : j # on[x] => ha'[x][j] = ha[x][j]
    <2>1. ha[x] \in Seq(HeldAtomic) /\ ha'[x] = TakeIt(ha[x], on[x])
      BY <1>3, <1>5 DEF TypeOK
    <2>2. /\ TakeIt(ha[x], on[x]) \in Seq(HeldAtomic)
          /\ Len(TakeIt(ha[x], on[x])) = Len(ha[x])
          /\ TakeIt(ha[x], on[x])[on[x]].haveit = TRUE
          /\ TakeIt(ha[x], on[x])[on[x]].atom = ha[x][on[x]].atom
          /\ TakeIt(ha[x], on[x])[on[x]].wtype = ha[x][on[x]].wtype
          /\ \A j \in 1 .. Len(ha[x]) : j # on[x] => TakeIt(ha[x], on[x])[j] = ha[x][j]
      BY <1>5, <2>1, TakeItFacts
    <2> QED
      BY <1>5, <2>1, <2>2
  <1>8. ASSUME NEW x \in Event, x # e, x \notin R
        PROVE  ha'[x] = ha[x] /\ on'[x] = on[x] /\ pc'[x] = pc[x]
    BY <1>2, <1>3, <1>8
  <1>9. on'[e] = on[e] /\ pc'[e] = pc[e] /\ e \notin R
    BY <1>2, <1>5
  <1>10. \A x \in R : on'[x] = on[x] + 1 /\ pc'[x] = "granted"
    BY <1>2, <1>5
  <1>11. ASSUME NEW x \in Event
         PROVE  /\ ha'[x] \in Seq(HeldAtomic) /\ Len(ha'[x]) = Len(ha[x])
                /\ DOMAIN ha'[x] = 1 .. Len(ha[x]) /\ Len(ha[x]) \in Nat
                /\ DOMAIN ha[x] = 1 .. Len(ha[x])
                /\ on[x] \in Nat \ {0}
    <2>1. ha'[x] \in Seq(HeldAtomic) /\ Len(ha'[x]) = Len(ha[x])
      BY <1>6, <1>7, <1>8, Shape
    <2> QED
      BY <2>1, Shape, LenProperties
  <1> HIDE DEF q, R
  \* The atomic itself.
  <1>12. /\ atoms[c] \in AtomicState(Event)
         /\ atoms'[c] = Released(atoms[c], w, n)
         /\ \A a \in Atom : a # c => atoms'[a] = atoms[a]
    BY <1>2 DEF TypeOK
  <1>13. <<e, i>> \in Holders(c) /\ IsFiniteSet(Holders(c)) 
         /\ atoms[c].held = Cardinality(Holders(c)) /\ atoms[c].held # 0
    <2>1. <<e, i>> \in Holders(c)
      BY <1>1, <1>11, HolderPairs DEF Holders
    <2>2. IsFiniteSet(Holders(c)) /\ atoms[c].held = Cardinality(Holders(c))
      BY DEF Counted
    <2> QED
      BY <2>1, <2>2, FS_EmptySet
  <1>14. w = Exclusive => atoms[c].held = 1
    BY <1>1, <1>12, <1>13 DEF Modes, AtomicState
  <1>15. \A k \in 1 .. Len(q) : q[k].wtype = Exclusive <=> w = Exclusive
    <2> SUFFICES ASSUME NEW k \in 1 .. Len(q) PROVE q[k].wtype = Exclusive <=> w = Exclusive
      OBVIOUS
    <2> DEFINE x == q[k].event
    <2>1. x \in Event /\ on[x] \in 1 .. Len(ha[x]) /\ ha[x][on[x]].atom = c
          /\ ha[x][on[x]].wtype = q[k].wtype
      BY <1>4
    <2>2. Fits(ha[x][on[x]])
      BY <2>1, Shape
    <2> QED
      BY <2>1, <2>2, <1>1 DEF Fits
  <1>16. /\ atoms'[c] \in AtomicState(Event)
         /\ n = 0 => /\ atoms'[c].held = atoms[c].held - 1
                     /\ atoms'[c].waiters = q
                     /\ atoms[c].held = 1 => q = <<>> /\ atoms'[c].mode = None
                     /\ atoms[c].held # 1 => atoms'[c].mode = atoms[c].mode
         /\ n > 0 => /\ atoms[c].held = 1 /\ atoms'[c].held = n
                     /\ atoms'[c].mode = IF w = Exclusive THEN None ELSE q[1].wtype
                     /\ q[1].wtype # Read => n = 1
                     /\ q[1].wtype = Read =>
                          /\ \A k \in 1 .. n : JoinsReaders(q[k].wtype, present[c])
                          /\ n < Len(q) => ~ JoinsReaders(q[n+1].wtype, present[c])
         /\ Len(atoms'[c].waiters) = Len(q) - n
         /\ \A k \in 1 .. (Len(q) - n) : atoms'[c].waiters[k] = q[n + k]
    <2>1. w # Exclusive => \A k \in 1 .. Len(atoms[c].waiters) : 
                              atoms[c].waiters[k].wtype # Exclusive
      BY <1>15 DEF q
    <2>2. n \in 0 .. Len(atoms[c].waiters)
      BY <1>1 DEF q
    <2>3. LeavesBehind(atoms[c], w, present[c], n)
      BY <1>1, <1>12, <1>13, <1>14, <2>1, <2>2, ReleasedFacts DEF q
    <2> QED
      BY <2>3, <1>12, Zenon DEF q, LeavesBehind
  \* Who has which atomic.
  <1> DEFINE D == {<<x, on[x]>> : x \in R}
  <1>17. \A x \in Event : \A j \in 1 .. Len(ha[x]) : ha'[x][j].wtype = ha[x][j].wtype
    <2> SUFFICES ASSUME NEW x \in Event, NEW j \in 1 .. Len(ha[x])
                 PROVE  ha'[x][j].wtype = ha[x][j].wtype
      OBVIOUS
    <2>1. CASE x = e
      BY <2>1, <1>6
    <2>2. CASE x \in R
      BY <2>2, <1>7
    <2>3. CASE x # e /\ x \notin R
      BY <2>3, <1>8
    <2> QED
      BY <2>1, <2>2, <2>3
  <1>18. ASSUME NEW a \in Atom, a # c PROVE Holders(a)' = Holders(a)
    <2>1. ASSUME NEW x \in Event, NEW j 
          PROVE  <<x, j>> \in HoldersIn(ha', a) <=> <<x, j>> \in HoldersIn(ha, a)
      <3>1. ASSUME j \in 1 .. Len(ha[x])
            PROVE  ha'[x][j].atom = a /\ ha'[x][j].haveit <=> ha[x][j].atom = a /\ ha[x][j].haveit
        <4>1. CASE x = e
          BY <3>1, <4>1, <1>1, <1>6, <1>18, NullAssumption
        <4>2. CASE x \in R
          BY <3>1, <4>2, <1>5, <1>7, <1>18
        <4>3. CASE x # e /\ x \notin R
          BY <4>3, <1>8
        <4> QED
          BY <4>1, <4>2, <4>3
      <3> QED
        BY <3>1, <1>11, HolderPairs
    <2>2. \A h : h \in HoldersIn(ha', a) <=> h \in HoldersIn(ha, a)
      <3>1. <<e, i>> \in HoldersIn(ha', a) <=> <<e, i>> \in HoldersIn(ha, a)
        BY <2>1
      <3>2. \A x \in Event : \A j : <<x, j>> # <<e, i>> =>
               (<<x, j>> \in HoldersIn(ha', a) <=> <<x, j>> \in HoldersIn(ha, a))
        BY <2>1
      <3> QED
        BY <3>1, <3>2, HoldersExcept
    <2> QED
      BY <2>2 DEF Holders
  <1>19. \A h : h \in HoldersIn(ha', c) <=> h \in (HoldersIn(ha, c) \ {<<e, i>>}) \cup D
    <2>1. ASSUME NEW x \in Event, NEW j 
          PROVE  <<x, j>> \in HoldersIn(ha', c) <=> 
                   \/ <<x, j>> \in HoldersIn(ha, c) /\ <<x, j>> # <<e, i>>
                   \/ x \in R /\ j = on[x]
      <3>1. ASSUME j \in 1 .. Len(ha[x])
            PROVE  ha'[x][j].atom = c /\ ha'[x][j].haveit <=> 
                     \/ ha[x][j].atom = c /\ ha[x][j].haveit /\ ~ (x = e /\ j = i)
                     \/ x \in R /\ j = on[x]
        <4>1. CASE x = e
          BY <3>1, <4>1, <1>6, <1>9, NullAssumption
        <4>2. CASE x \in R
          BY <3>1, <4>2, <1>5, <1>7, <1>9
        <4>3. CASE x # e /\ x \notin R
          BY <4>3, <1>8
        <4> QED
          BY <4>1, <4>2, <4>3
      <3>2. x \in R /\ j = on[x] => j \in 1 .. Len(ha[x])
        BY <1>5
      <3> QED
        BY <3>1, <3>2, <1>11, HolderPairs
    <2>2. \A x, j : <<x, j>> \in D <=> x \in R /\ j = on[x]
      OBVIOUS
    <2>3. ASSUME NEW h, h \in HoldersIn(ha', c) \/ h \in HoldersIn(ha, c) \/ h \in D
          PROVE  \E x \in Event : \E j : h = <<x, j>>
      <3>1. CASE h \in HoldersIn(ha', c)
        BY <3>1 DEF HoldersIn
      <3>2. CASE h \in HoldersIn(ha, c)
        BY <3>2 DEF HoldersIn
      <3>3. CASE h \in D
        BY <3>3, <1>5
      <3> QED
        BY <2>3, <3>1, <3>2, <3>3
    <2> HIDE DEF D
    <2> QED
      BY <2>1, <2>2, <2>3
  <1>20. Holders(c)' = (Holders(c) \ {<<e, i>>}) \cup D
    BY <1>19 DEF Holders
  <1>21. \A h \in D : \E k \in 1 .. n : h = <<q[k].event, on[q[k].event]>>
    BY DEF R
  <1>22. IsFiniteSet(D) /\ Cardinality(D) = n
    <2> DEFINE f == [k \in 1 .. n |-> <<q[k].event, on[q[k].event]>>]
    <2>1. f \in Surjection(1 .. n, D)
      <3>1. f \in [1 .. n -> D]
        BY DEF R
      <3>2. \A h \in D : \E k \in 1 .. n : f[k] = h
        BY <1>21
      <3> QED
        BY <3>1, <3>2 DEF Surjection
    <2>2. f \in Injection(1 .. n, D)
      <3>1. \A k, m \in 1 .. n : f[k] = f[m] => k = m
        BY <1>1, <1>4, SMTT(40)
      <3> QED
        BY <2>1, <3>1 DEF Surjection, Injection, IsInjective
    <2>3. IsFiniteSet(1 .. n) /\ Cardinality(1 .. n) = n
      BY FS_Interval
    <2> HIDE DEF f
    <2> QED
      BY <2>1, <2>2, <2>3, FS_Surjection
  <1>23. /\ IsFiniteSet(Holders(c)') /\ Cardinality(Holders(c)') = atoms'[c].held
         /\ n > 0 => Holders(c)' = D
         /\ n = 0 => Holders(c)' = Holders(c) \ {<<e, i>>}
    <2>1. CASE n = 0
      <3>1. D = {}
        BY <2>1 DEF R
      <3>2. Holders(c)' = Holders(c) \ {<<e, i>>}
        BY <3>1, <1>20
      <3>3. /\ IsFiniteSet(Holders(c) \ {<<e, i>>}) 
            /\ Cardinality(Holders(c) \ {<<e, i>>}) = Cardinality(Holders(c)) - 1
        BY <1>13, FS_RemoveElement
      <3>4. atoms'[c].held = atoms[c].held - 1
        BY <2>1, <1>16
      <3> QED
        BY <2>1, <3>2, <3>3, <3>4, <1>13
    <2>2. CASE n > 0
      <3>1. \E h : Holders(c) = {h}
        BY <2>2, <1>13, <1>16, FS_Singleton, ZenonT(40)
      <3>2. Holders(c)' = D
        BY <3>1, <1>13, <1>20
      <3> QED
        BY <2>2, <3>2, <1>16, <1>22
    <2> QED
      BY <2>1, <2>2
  <1> HIDE DEF D
  <1>24. \A a \in Atom : \A h \in Holders(a) : 
            ha'[h[1]][h[2]].wtype = ha[h[1]][h[2]].wtype
    <2> SUFFICES ASSUME NEW a \in Atom, NEW h \in Holders(a)
                 PROVE  ha'[h[1]][h[2]].wtype = ha[h[1]][h[2]].wtype
      OBVIOUS
    <2>1. PICK x \in Event : \E j \in DOMAIN ha[x] : h = <<x, j>>
      BY HolderPairs DEF Holders
    <2>2. PICK j \in DOMAIN ha[x] : h = <<x, j>>
      BY <2>1
    <2> QED
      BY <2>2, <1>11, <1>17
  \* The conjuncts of the invariant.
  <1>25. TypeOK'
    <2>1. \A a \in Atom : atoms'[a] \in AtomicState(Event)
      BY <1>12, <1>16, WaiterShape
    <2>2. atoms' \in [Atom -> AtomicState(Event)]
      BY <2>1, <1>2 DEF TypeOK
    <2>3. ha' \in [Event -> Seq(HeldAtomic)]
      BY <1>3, <1>11
    <2>4. on' \in [Event -> Nat \ {0}]
      BY <1>2 DEF TypeOK
    <2>5. pc' \in [Event -> PC]
      BY <1>2 DEF TypeOK, PC
    <2>6. idx' \in [Event -> Nat]
      BY <1>2 DEF TypeOK
    <2>7. own' \in [Event -> SUBSET Event]
      BY <1>2, <1>5 DEF TypeOK
    <2> QED
      BY <2>2, <2>3, <2>4, <2>5, <2>6, <2>7, <1>2 DEF TypeOK
  <1>26. InRange'
    <2> SUFFICES ASSUME NEW x \in Event
                 PROVE  /\ pc'[x] = "free" => on'[x] = 1
                        /\ pc'[x] \in {"release", "erelease"} => idx'[x] <= Len(ha'[x])
      BY DEF InRange
    <2>1. CASE x = e
      BY <2>1, <1>1, <1>2, <1>6, <1>9, <1>11 DEF TypeOK
    <2>2. CASE x \in R
      BY <2>2, <1>10
    <2>3. CASE x # e /\ x \notin R
      BY <2>3, <1>2, <1>8 DEF InRange, TypeOK
    <2> QED
      BY <2>1, <2>2, <2>3
  <1>27. GuardsInOrder'
    <2> SUFFICES ASSUME NEW x \in Event, NEW j \in 1 .. Len(ha[x])
                 PROVE  /\ ha'[x][j].haveit => j < on'[x]
                        /\ j < on'[x] => ha'[x][j].haveit \/ ha'[x][j].atom = Null
                        /\ pc'[x] \notin {"acquire", "wait", "granted"} => j < on'[x]
                        /\ pc'[x] \in {"release", "erelease"} /\ j > idx'[x] 
                             => ha'[x][j].atom = Null
                        /\ pc'[x] \in {"reacquire", "ereacquire"} => ha'[x][j].atom = Null
                        /\ pc'[x] # "free"
      BY <1>11 DEF GuardsInOrder
    <2>0. /\ ha[x][j].haveit => j < on[x]
          /\ j < on[x] => ha[x][j].haveit \/ ha[x][j].atom = Null
          /\ pc[x] \notin {"acquire", "wait", "granted"} => j < on[x]
          /\ pc[x] \in {"release", "erelease"} /\ j > idx[x] => ha[x][j].atom = Null
          /\ pc[x] \in {"reacquire", "ereacquire"} => ha[x][j].atom = Null
          /\ pc[x] # "free"
      BY <1>11 DEF GuardsInOrder
    <2>1. CASE x = e /\ j = i
      BY <2>0, <2>1, <1>1, <1>6, <1>9
    <2>2. CASE x = e /\ j # i
      <3>1. ha'[x][j] = ha[x][j] /\ on'[x] = on[x] /\ pc'[x] = pc[x]
        BY <2>2, <1>6, <1>9
      <3>2. j > idx'[x] => j > idx[x]
        BY <2>2, <1>1, <1>2 DEF TypeOK
      <3> QED
        BY <2>0, <2>2, <3>1, <3>2, <1>1
    <2>3. CASE x \in R /\ j = on[x]
      <3>1. ha'[x][j].haveit = TRUE /\ on'[x] = on[x] + 1 /\ pc'[x] = "granted"
        BY <2>3, <1>7, <1>10
      <3> QED
        BY <2>3, <3>1, <1>11
    <2>4. CASE x \in R /\ j # on[x]
      <3>1. ha'[x][j] = ha[x][j] /\ on'[x] = on[x] + 1 /\ pc'[x] = "granted"
        BY <2>4, <1>7, <1>10
      <3> QED
        BY <2>0, <2>4, <3>1, <1>11
    <2>5. CASE x # e /\ x \notin R
      BY <2>0, <2>5, <1>2, <1>8 DEF TypeOK
    <2> QED
      BY <2>1, <2>2, <2>3, <2>4, <2>5
  <1>28. OwnedOnce'
    <2>1. \A x \in R : \A y \in Event : x \notin own[y]
      BY <1>5 DEF OwnedOnce
    <2>2. \A y \in Event : own'[y] = IF y = e THEN own[e] \cup R ELSE own[y]
      BY <1>2 DEF TypeOK
    <2>3. \A x \in Event : pc'[x] = IF x \in R THEN "granted" ELSE pc[x]
      BY <1>2
    <2>4. \A y \in Event : own[y] # {} => y \notin R
      BY <1>5 DEF OwnedOnce, TypeOK
    <2> QED
      BY <2>1, <2>2, <2>3, <2>4, <1>1, <1>5, <1>9 DEF OwnedOnce
  <1>29. Counted'
    BY <1>12, <1>18, <1>23 DEF Counted
  <1>30. Modes'
    <2> SUFFICES ASSUME NEW a \in Atom
                 PROVE  /\ a \in ExclusiveAtom => atoms'[a].mode = None /\ atoms'[a].held <= 1
                        /\ a \notin ExclusiveAtom =>
                             /\ atoms'[a].held = 0 <=> atoms'[a].mode = None
                             /\ atoms'[a].mode \in {Write, Upgradeable} => atoms'[a].held = 1
                             /\ atoms'[a].mode = Read => 
                                  \A h \in Holders(a)' : 
                                     JoinsReaders(ha'[h[1]][h[2]].wtype, present'[a])
      BY DEF Modes
    <2>1. CASE a # c
      BY <2>1, <1>2, <1>12, <1>18, <1>24 DEF Modes
    <2>2. CASE a = c /\ c \in ExclusiveAtom
      <3>1. CASE n = 0
        BY <2>2, <3>1, <1>1, <1>14, <1>16
      <3>2. CASE n > 0
        <4>1. q[1].wtype = Exclusive
          BY <2>2, <3>2, <1>1, <1>15
        <4>2. n = 1
          BY <3>2, <4>1, <1>16 DEF Exclusive, Read
        <4> QED
          BY <2>2, <3>2, <4>2, <1>1, <1>16
      <3> QED
        BY <3>1, <3>2
    <2>3. CASE a = c /\ c \notin ExclusiveAtom /\ n = 0 /\ atoms[c].held = 1
      BY <2>3, <1>16 DEF None, Read, Write, Upgradeable
    <2>4. CASE a = c /\ c \notin ExclusiveAtom /\ n = 0 /\ atoms[c].held # 1
      <3>1. /\ atoms'[c].mode = atoms[c].mode /\ atoms'[c].held = atoms[c].held - 1
            /\ atoms[c].held \in Nat
        BY <2>4, <1>12, <1>16 DEF AtomicState
      <3>2. atoms[c].mode \notin {None, Write, Upgradeable}
        BY <2>4, <1>13 DEF Modes
      <3>3. \A h \in Holders(c)' : h \in Holders(c)
        BY <2>4, <1>23
      <3>4. atoms[c].mode = Read => \A h \in Holders(c) : JoinsReaders(ha[h[1]][h[2]].wtype, present[c])
        BY <2>4 DEF Modes
      <3>5. atoms[c].mode = Read => \A h \in Holders(c)' : 
                                       JoinsReaders(ha'[h[1]][h[2]].wtype, present[c])
        BY <3>3, <3>4, <1>24
      <3> QED
        BY <2>4, <3>1, <3>2, <3>5, <1>2, <1>13
    <2>5. CASE a = c /\ c \notin ExclusiveAtom /\ n > 0
      <3>1. /\ atoms'[c].mode = q[1].wtype /\ atoms'[c].held = n /\ q[1].wtype \in WType
            /\ q[1].wtype # Exclusive
        BY <2>5, <1>1, <1>15, <1>16, WaiterShape DEF q
      <3>2. q[1].wtype = Read => \A h \in D : JoinsReaders(ha'[h[1]][h[2]].wtype, present[c])
        <4> SUFFICES ASSUME q[1].wtype = Read, NEW h \in D
                     PROVE  JoinsReaders(ha'[h[1]][h[2]].wtype, present[c])
          OBVIOUS
        <4>1. PICK k \in 1 .. n : h = <<q[k].event, on[q[k].event]>>
          BY <1>21
        <4> DEFINE x == q[k].event
        <4>2. /\ x \in Event /\ on[x] \in 1 .. Len(ha[x]) /\ ha[x][on[x]].wtype = q[k].wtype
              /\ JoinsReaders(q[k].wtype, present[c])
          BY <2>5, <1>1, <1>4, <1>16
        <4>3. ha'[x][on[x]].wtype = q[k].wtype
          BY <4>2, <1>17
        <4> QED
          BY <4>1, <4>2, <4>3
      <3> QED
        BY <2>5, <3>1, <3>2, <1>2, <1>16, <1>23 
           DEF WType, None, Read, Write, Exclusive, Upgradeable
    <2> QED
      BY <2>1, <2>2, <2>3, <2>4, <2>5, <1>1
  <1>31. WaitersBlocked'
    <2> SUFFICES ASSUME NEW a \in Atom, atoms'[a].waiters # <<>>
                 PROVE  /\ Holders(a)' # {}
                        /\ atoms'[a].mode = Read => 
                             ~ JoinsReaders(atoms'[a].waiters[1].wtype, present'[a])
      BY DEF WaitersBlocked
    <2>1. CASE a # c
      BY <2>1, <1>2, <1>12, <1>18 DEF WaitersBlocked
    <2>2. CASE a = c /\ n = 0
      <3>1. atoms'[c].waiters = q /\ q # <<>> /\ atoms[c].held # 1
            /\ atoms'[c].held = atoms[c].held - 1 /\ atoms'[c].mode = atoms[c].mode
            /\ atoms[c].held \in Nat
        BY <2>2, <1>12, <1>16 DEF AtomicState
      <3>2. Holders(c)' # {}
        BY <3>1, <1>13, <1>23, FS_EmptySet
      <3> QED
        BY <2>2, <3>1, <3>2, <1>2 DEF WaitersBlocked, q
    <2>3. CASE a = c /\ n > 0
      <3>1. Holders(c)' # {}
        BY <2>3, <1>16, <1>23, FS_EmptySet
      <3>2. Len(atoms'[c].waiters) = Len(q) - n /\ Len(atoms'[c].waiters) # 0
            /\ Len(atoms'[c].waiters) \in Nat
        <4>1. atoms'[c].waiters \in Seq(QueueEntry(Event))
          BY <1>16 DEF AtomicState
        <4> QED
          BY <4>1, <2>3, <1>16, EmptySeq, LenProperties
      <3>3. n < Len(q) /\ atoms'[c].waiters[1] = q[n + 1]
        BY <3>2, <1>1, <1>16
      <3>4. atoms'[c].mode = Read => q[1].wtype = Read
        BY <2>3, <1>16 DEF None, Read
      <3> QED
        BY <2>3, <3>1, <3>3, <3>4, <1>2, <1>16
    <2> QED
      BY <2>1, <2>2, <2>3, <1>1
  <1>32. ASSUME NEW a \in Atom, NEW k \in 1 .. Len(atoms[a].waiters), NEW x, 
                x = atoms[a].waiters[k].event
         PROVE  /\ x \in Event /\ pc[x] = "wait"
                /\ on[x] \in DOMAIN ha[x] /\ ha[x][on[x]].atom = a
                /\ ha[x][on[x]].wtype = atoms[a].waiters[k].wtype
                /\ \A m \in 1 .. Len(atoms[a].waiters) : 
                     atoms[a].waiters[m].event = x => m = k
    BY <1>32, WaiterShape, WaiterOf
  <1>33. ASSUME NEW x \in Event, pc[x] = "wait", x \notin R
         PROVE  pc'[x] = "wait" /\ on'[x] = on[x] /\ ha'[x] = ha[x]
    BY <1>1, <1>8, <1>33
  <1>34. WaitsOnce'
    <2>1. ASSUME NEW a \in Atom, NEW k \in 1 .. Len(atoms'[a].waiters)
          PROVE  LET v == atoms'[a].waiters[k]
                 IN  /\ pc'[v.event] = "wait"
                     /\ on'[v.event] \in DOMAIN ha'[v.event]
                     /\ ha'[v.event][on'[v.event]].atom = a
                     /\ ha'[v.event][on'[v.event]].wtype = v.wtype
                     /\ \A m \in 1 .. Len(atoms'[a].waiters) : 
                          atoms'[a].waiters[m].event = v.event => m = k
      <3>1. CASE a # c
        <4>1. atoms'[a] = atoms[a]
          BY <3>1, <1>12
        <4> DEFINE x == atoms[a].waiters[k].event
        <4>2. /\ x \in Event /\ pc[x] = "wait"
              /\ on[x] \in DOMAIN ha[x] /\ ha[x][on[x]].atom = a
              /\ ha[x][on[x]].wtype = atoms[a].waiters[k].wtype
              /\ \A m \in 1 .. Len(atoms[a].waiters) : 
                     atoms[a].waiters[m].event = x => m = k
          BY <4>1, <1>32
        <4>3. x \notin R
          BY <3>1, <4>2, <1>5
        <4> QED
          BY <4>1, <4>2, <4>3, <1>33
      <3>2. CASE a = c
        <4>1. Len(atoms'[c].waiters) = Len(q) - n 
              /\ \A m \in 1 .. (Len(q) - n) : atoms'[c].waiters[m] = q[n + m]
          BY <1>16
        <4>2. k \in 1 .. (Len(q) - n) /\ n + k \in 1 .. Len(q) /\ atoms'[c].waiters[k] = q[n + k]
          BY <3>2, <4>1, <1>1
        <4> DEFINE x == q[n + k].event
        <4>3. /\ x \in Event /\ pc[x] = "wait"
              /\ on[x] \in DOMAIN ha[x] /\ ha[x][on[x]].atom = c
              /\ ha[x][on[x]].wtype = q[n + k].wtype
              /\ \A m \in 1 .. Len(q) : q[m].event = x => m = n + k
          BY <4>2, <1>4, <1>11
        <4>4. x \notin R
          <5>1. \A m \in 1 .. n : q[m].event # x
            BY <4>2, <4>3, <1>1
          <5> QED
            BY <5>1 DEF R
        <4>5. \A m \in 1 .. (Len(q) - n) : q[n + m].event = x => m = k
          BY <4>2, <4>3, <1>1
        <4> QED
          BY <3>2, <4>1, <4>2, <4>3, <4>4, <4>5, <1>33, SMTT(40)
      <3> QED
        BY <3>1, <3>2
    <2>2. ASSUME NEW x \in Event, pc'[x] = "wait"
          PROVE  \E a \in Atom : \E k \in 1 .. Len(atoms'[a].waiters) :
                     atoms'[a].waiters[k].event = x
      <3>1. pc[x] = "wait" /\ x \notin R
        BY <2>2, <1>2
      <3>a. PICK a \in Atom : \E k \in 1 .. Len(atoms[a].waiters) :
                                 atoms[a].waiters[k].event = x
        BY <3>1 DEF WaitsOnce
      <3>2. PICK k \in 1 .. Len(atoms[a].waiters) : atoms[a].waiters[k].event = x
        BY <3>a
      <3>3. CASE a # c
        BY <3>2, <3>3, <1>12
      <3>4. CASE a = c
        <4>1. k \in 1 .. Len(q) /\ q[k].event = x
          BY <3>2, <3>4 DEF q
        <4>2. ~ (k \in 1 .. n)
          BY <3>1, <4>1 DEF R
        <4>3. k - n \in 1 .. (Len(q) - n) /\ n + (k - n) = k
          BY <4>1, <4>2, <1>1
        <4>4. atoms'[c].waiters[k - n].event = x /\ k - n \in 1 .. Len(atoms'[c].waiters)
          BY <4>1, <4>3, <1>16
        <4> QED
          BY <4>4
      <3> QED
        BY <3>3, <3>4
    <2> QED
      BY <2>1, <2>2 DEF WaitsOnce, Target
  <1>35. GivesUp(e, i, c, n)
    <2>1. n = 0 => Holders(c) # {<<e, i>>} \/ q = <<>>
      BY <1>13, <1>16, FS_Singleton
    <2>2. ASSUME n > 0 PROVE Holders(c) = {<<e, i>>}
      <3>1. \E h : Holders(c) = {h}
        BY <2>2, <1>13, <1>16, FS_Singleton, ZenonT(40)
      <3> QED
        BY <3>1, <1>13
    <2>3. n > 0 => Holders(c)' = {<<q[k].event, on[q[k].event]>> : k \in 1 .. n}
      BY <1>23 DEF D, R
    <2>4. ASSUME n > 0 PROVE atoms'[c].waiters = SubSeq(q, n + 1, Len(q))
      <3>1. Released(atoms[c], w, n) =
              [held |-> n, mode |-> IF w = Exclusive THEN None ELSE q[1].wtype,
               waiters |-> SubSeq(q, n + 1, Len(q))]
        BY <2>4 DEF Released, q
      <3> QED
        BY <3>1, <1>12
    <2>5. \A x \in Event : pc[x] = "wait" /\ (\A k \in 1 .. n : q[k].event # x) => on'[x] = on[x]
      BY <1>2 DEF R
    <2>6. \A a \in Atom : a # c => Holders(a)' = Holders(a) /\ atoms'[a] = atoms[a]
      BY <1>12, <1>18
    <2>7. n = 0 => Holders(c)' = Holders(c) \ {<<e, i>>} /\ atoms'[c].waiters = q
      BY <1>16, <1>23
    <2>8. n > 0 => /\ q[1].wtype # Read => n = 1
                   /\ q[1].wtype = Read =>
                        /\ \A k \in 1 .. n : JoinsReaders(q[k].wtype, present[c])
                        /\ n < Len(q) => ~ JoinsReaders(q[n+1].wtype, present[c])
      BY <1>16
    <2> QED
      BY <2>1, <2>2, <2>3, <2>4, <2>5, <2>6, <2>7, <2>8, <1>1, <1>2, <1>13, <1>17, Zenon 
         DEF GivesUp, q
  <1> QED
    BY <1>25, <1>26, <1>27, <1>28, <1>29, <1>30, <1>31, <1>34, <1>35

-----------------------------------------------------------------------------
(***************************************************************************)
(* The invariant is inductive.                                             *)
(***************************************************************************)
LEMMA StutterIInv ==
    ASSUME IInv, UNCHANGED vars
    PROVE  IInv'
  <1>1. UNCHANGED <<atoms, present, pc, ha, on, idx, own>>
    BY DEF vars
  <1>2. \A a \in Atom : Holders(a)' = Holders(a)
    BY <1>1 DEF Holders
  <1>3. TypeOK' /\ InRange' /\ GuardsInOrder' /\ OwnedOnce'
    BY <1>1 DEF IInv, TypeOK, InRange, GuardsInOrder, OwnedOnce
  <1>4. WaitsOnce'
    BY <1>1, <1>3, StillWaiting
  <1> QED
    BY <1>1, <1>3, <1>4, HoldersUnchanged DEF IInv

LEMMA NextIInv == IInv /\ [Next]_vars => IInv'
  <1> SUFFICES ASSUME IInv, [Next]_vars PROVE IInv'
    OBVIOUS
  <1>1. ASSUME NEW e \in Event, Acquire(e) PROVE IInv'
    BY <1>1, SkipAtomicIInv, AcquireAtomicIInv, WaitForAtomicIInv, AcquiredAllIInv DEF Acquire
  <1>2. ASSUME NEW e \in Event, Release(e) PROVE IInv'
    BY <1>2, ReleaseAtomicIInv, SkipReleaseIInv, EndReleaseIInv DEF Release
  <1>3. ASSUME NEW e \in Event, Advance(e) PROVE IInv'
    BY <1>1, <1>2, <1>3, ExecuteIInv, CreateSuccessorsIInv, EnterReleaseIInv, 
       EndHandlerIInv, EndEarlyReleaseIInv DEF Advance
  <1>4. ASSUME NEW e \in Event, SetData(e) \/ EarlyRelease(e) PROVE IInv'
    BY <1>4, SetDataIInv, EnterReleaseIInv
  <1>5. CASE OutOfEvents \/ UNCHANGED vars
    BY <1>5, StutterIInv DEF OutOfEvents
  <1> QED
    BY <1>3, <1>4, <1>5 DEF Next

\* What a step can do to the atomics, as the callers of acquire_or_wait and
\* release see it.
StepKind ==
    \/ GuardsAlone
    \/ \E e \in Event, i \in Nat \ {0}, c \in Atom : 
         \/ \E w \in WType : Gets(e, i, c, w) \/ Queues(e, i, c, w)
         \/ SetsData(e, i, c)
         \/ \E n \in Nat : GivesUp(e, i, c, n)

LEMMA QuietSteps ==
    ASSUME IInv, UNCHANGED <<atoms, present, ha>>, 
           \A x \in Event : pc[x] = "wait" => on'[x] = on[x]
    PROVE  GuardsAlone
  BY DEF GuardsAlone, Holders

LEMMA StepKinds == IInv /\ [Next]_vars => StepKind
  <1> SUFFICES ASSUME IInv, [Next]_vars PROVE StepKind
    OBVIOUS
  <1> USE DEF StepKind
  <1>1. ASSUME NEW e \in Event, SkipAtomic(e) PROVE GuardsAlone
    BY <1>1, QuietSteps DEF SkipAtomic, IInv, TypeOK
  <1>2. ASSUME NEW e \in Event, 
               \/ AcquiredAll(e) \/ Execute(e) \/ EarlyRelease(e) \/ BeginRelease(e) 
               \/ SkipRelease(e) \/ EndRelease(e) \/ EndEarlyRelease(e)
        PROVE  GuardsAlone
    <2>1. UNCHANGED <<atoms, present, ha, on>>
      BY <1>2 DEF AcquiredAll, Execute, EarlyRelease, BeginRelease, SkipRelease, 
                  EndRelease, EndEarlyRelease
    <2> QED
      BY <2>1, QuietSteps
  <1>3. ASSUME NEW e \in Event, Acquire(e) PROVE StepKind
    BY <1>1, <1>2, <1>3, AcquireAtomicIInv, WaitForAtomicIInv DEF Acquire
  <1>4. ASSUME NEW e \in Event, Release(e) PROVE StepKind
    BY <1>2, <1>4, ReleaseAtomicIInv DEF Release
  <1>5. ASSUME NEW e \in Event, Advance(e) PROVE StepKind
    BY <1>2, <1>3, <1>4, <1>5, CreateSuccessorsIInv, EndHandlerIInv DEF Advance
  <1>6. ASSUME NEW e \in Event, SetData(e) \/ EarlyRelease(e) PROVE StepKind
    BY <1>2, <1>6, SetDataIInv
  <1>7. CASE OutOfEvents \/ UNCHANGED vars
    <2>1. UNCHANGED <<atoms, present, ha, on>>
      BY <1>7 DEF OutOfEvents, vars
    <2> QED
      BY <2>1, QuietSteps
  <1> QED
    BY <1>5, <1>6, <1>7 DEF Next

\* The invariant the theorems below rest on holds in every state.
THEOREM Inductive == Spec => []IInv
  BY InitIInv, NextIInv, PTL DEF Spec

-----------------------------------------------------------------------------
(***************************************************************************)
(* What follows.                                                           *)
(***************************************************************************)
\* Every variable keeps its type.
THEOREM TypeCorrect == Spec => []TypeOK
  <1>1. IInv => TypeOK
    BY DEF IInv
  <1> QED
    BY <1>1, Inductive, PTL

\* The assertion of AtomicsHolder::release that a released event has a
\* HeldAtomic for the atomic it was released from never fails, and no event
\* is in two waiters at once.
THEOREM WaitersCorrect == Spec => []WaitsOnce
  <1>1. IInv => WaitsOnce
    BY DEF IInv
  <1> QED
    BY <1>1, Inductive, PTL

\* An event runs only with all its guards, and leaves with none.
THEOREM OrderCorrect == Spec => []GuardsInOrder
  <1>1. IInv => GuardsInOrder
    BY DEF IInv
  <1> QED
    BY <1>1, Inductive, PTL

\* No event is lost or duplicated between handlers.
THEOREM OwnershipCorrect == Spec => []OwnedOnce
  <1>1. IInv => OwnedOnce
    BY DEF IInv
  <1> QED
    BY <1>1, Inductive, PTL

\* _held is the number of holders.
THEOREM CountCorrect == Spec => []HeldCount
  <1>1. IInv => HeldCount
    BY DEF IInv, Counted, HeldCount
  <1> QED
    BY <1>1, Inductive, PTL

\* No waiter is left in front of an atomic it could have.
THEOREM WaitersBlockedCorrect == Spec => []WaitersBlocked
  <1>1. IInv => WaitersBlocked
    BY DEF IInv
  <1> QED
    BY <1>1, Inductive, PTL

LEMMA TwoElements ==
    ASSUME NEW S, IsFiniteSet(S), NEW g \in S, NEW h \in S, g # h
    PROVE  Cardinality(S) # 0 /\ Cardinality(S) # 1
  BY FS_EmptySet, FS_Singleton

\* Guards are atomic constraints: two events have the same atomic only to
\* read it.
THEOREM ExclusionCorrect == Spec => []GuardExclusion
  <1>1. IInv => GuardExclusion
    <2> SUFFICES ASSUME IInv, NEW a \in Atom, NEW g \in Holders(a), NEW h \in Holders(a), g # h
                 PROVE  JoinsReaders(ha[g[1]][g[2]].wtype, present[a])
      BY DEF GuardExclusion, JoinsReaders
    <2>1. atoms[a].held # 0 /\ atoms[a].held # 1 /\ atoms[a].held \in Nat
      BY TwoElements, WaiterShape DEF IInv, Counted
    <2>2. a \notin ExclusiveAtom
      BY <2>1 DEF IInv, Modes
    <2>3. atoms[a].mode \in Mode /\ atoms[a].mode \notin {None, Write, Upgradeable}
      BY <2>1, <2>2, WaiterShape DEF IInv, Modes
    <2>4. atoms[a].mode = Read
      BY <2>3 DEF Mode
    <2> QED
      BY <2>2, <2>4 DEF IInv, Modes
  <1> QED
    BY <1>1, Inductive, PTL

-----------------------------------------------------------------------------
(***************************************************************************)
(* EventGuards keeps the promise of GuardQueue, and serves the waiters of  *)
(* every atomic in their order, for every set of events, atomics and       *)
(* plans.                                                                  *)
(***************************************************************************)
\* No event needs more guards than a node can have.
Short == \A x \in Event : Len(ha[x]) <= MaxAtomicsPerNode

-----------------------------------------------------------------------------
(***************************************************************************)
(* The waiters of an atomic, as sequences.                                 *)
(***************************************************************************)
LEMMA AppendPointwise ==
    ASSUME NEW S, NEW s \in Seq(S), NEW r \in S, 
           NEW L, L = [k \in 1 .. Len(s) + 1 |-> L[k]],
           \A k \in 1 .. Len(s) : L[k] = s[k], L[Len(s) + 1] = r
    PROVE  L = Append(s, r)
  <1>1. Len(s) \in Nat
    BY LenProperties
  <1>2. /\ Append(s, r) \in Seq(S) /\ Len(Append(s, r)) = Len(s) + 1
        /\ \A k \in 1 .. Len(s) : Append(s, r)[k] = s[k]
        /\ Append(s, r)[Len(s) + 1] = r
    BY AppendProperties
  <1>3. ASSUME NEW k \in 1 .. Len(s) + 1 PROVE L[k] = Append(s, r)[k]
    <2>1. CASE k = Len(s) + 1
      BY <2>1, <1>2
    <2>2. CASE k \in 1 .. Len(s)
      BY <2>2, <1>2
    <2> QED
      BY <2>1, <2>2, <1>1
  <1>4. Append(s, r) = [k \in 1 .. Len(s) + 1 |-> Append(s, r)[k]]
    BY <1>2, LenProperties
  <1> QED
    BY <1>3, <1>4

\* The rest of a sequence after its first n elements.
LEMMA RestPointwise ==
    ASSUME NEW S, NEW s \in Seq(S), NEW n \in 0 .. Len(s),
           NEW L, L = [k \in 1 .. Len(s) - n |-> L[k]],
           \A k \in 1 .. Len(s) - n : L[k] = s[n + k]
    PROVE  L = SubSeq(s, n + 1, Len(s))
  <1> DEFINE T == SubSeq(s, n + 1, Len(s))
  <1>1. Len(s) \in Nat /\ \A k \in (n + 1) .. Len(s) : s[k] \in S
    BY LenProperties, ElementOfSeq
  <1>2. /\ T \in Seq(S) /\ Len(T) = Len(s) - n
        /\ \A k \in 1 .. Len(s) - n : T[k] = s[n + k]
    BY <1>1, SubSeqProperties
  <1> HIDE DEF T
  <1>3. T = [k \in 1 .. Len(s) - n |-> T[k]]
    BY <1>2, LenProperties
  <1> QED
    BY <1>2, <1>3 DEF T

LEMMA WaiterFacts ==
    ASSUME IInv, NEW a \in Atom, NEW k \in 1 .. Len(atoms[a].waiters)
    PROVE  LET w == atoms[a].waiters[k]
           IN  /\ w.event \in Event /\ w.wtype \in WType
               /\ pc[w.event] = "wait"
               /\ on[w.event] \in 1 .. Len(ha[w.event])
               /\ ha[w.event][on[w.event]].wtype = w.wtype
               /\ \A m \in 1 .. Len(atoms[a].waiters) :
                    atoms[a].waiters[m].event = w.event => m = k
  <1> DEFINE x == atoms[a].waiters[k].event
  <1>1. x \in Event /\ atoms[a].waiters[k].wtype \in WType
    BY WaiterShape DEF IInv
  <1>2. /\ pc[x] = "wait" /\ on[x] \in DOMAIN ha[x]
        /\ ha[x][on[x]].wtype = atoms[a].waiters[k].wtype
        /\ \A m \in 1 .. Len(atoms[a].waiters) :
             atoms[a].waiters[m].event = x => m = k
    BY WaiterOf DEF IInv
  <1>3. DOMAIN ha[x] = 1 .. Len(ha[x])
    BY <1>1, Shape DEF IInv
  <1> QED
    BY <1>1, <1>2, <1>3

\* Position finds the one place an event has.
LEMMA PositionIs ==
    ASSUME IInv, NEW a \in Atom, NEW k \in 1 .. Len(atoms[a].waiters)
    PROVE  Position(a, atoms[a].waiters[k].event) = k
  <1> DEFINE x == atoms[a].waiters[k].event
  <1>1. \A m \in 1 .. Len(atoms[a].waiters) : atoms[a].waiters[m].event = x <=> m = k
    BY WaiterFacts
  <1>2. DOMAIN atoms[a].waiters = 1 .. Len(atoms[a].waiters)
    BY WaiterShape, LenProperties DEF IInv
  <1> QED
    BY <1>1, <1>2 DEF Position

-----------------------------------------------------------------------------
(***************************************************************************)
(* The order of arrival.                                                   *)
(***************************************************************************)
\* What NoOvertaking says of one step.
InTurn == 
    \A a \in Atom : \A x \in Event :
        WaitsFor(a, x) /\ WaitsFor(a, x)' =>
            \A h \in Holders(a)' \ Holders(a) : 
                /\ WaitsFor(a, h[1]) 
                /\ Position(a, h[1]) < Position(a, x)

LEMMA GivesUpInTurn ==
    ASSUME IInv, IInv', NEW e \in Event, NEW i \in Nat \ {0}, NEW c \in Atom, 
           NEW n \in Nat, GivesUp(e, i, c, n)
    PROVE  InTurn
  <1> SUFFICES ASSUME NEW a \in Atom, NEW x \in Event, WaitsFor(a, x), WaitsFor(a, x)',
                      NEW h \in Holders(a)' \ Holders(a)
               PROVE  WaitsFor(a, h[1]) /\ Position(a, h[1]) < Position(a, x)
    BY DEF InTurn
  <1> DEFINE q == atoms[c].waiters
  <1>1. a = c /\ n > 0
    BY DEF GivesUp
  <1>2. /\ n \in 0 .. Len(q) /\ Len(q) \in Nat /\ q \in Seq(QueueEntry(Event))
        /\ DOMAIN q = 1 .. Len(q)
    BY WaiterShape, LenProperties DEF GivesUp, IInv
  <1>3. atoms'[c].waiters = SubSeq(q, n + 1, Len(q))
    BY <1>1 DEF GivesUp
  <1>4. /\ Len(SubSeq(q, n + 1, Len(q))) = Len(q) - n
        /\ \A k \in 1 .. (Len(q) - n) : SubSeq(q, n + 1, Len(q))[k] = q[n + k]
    <2>1. \A k \in (n + 1) .. Len(q) : q[k] \in QueueEntry(Event)
      BY <1>2, ElementOfSeq
    <2> QED
      BY <1>2, <2>1, SubSeqProperties
  <1>5. PICK m \in 1 .. (Len(q) - n) : q[n + m].event = x
    <2>1. \E k \in DOMAIN atoms'[c].waiters : atoms'[c].waiters[k].event = x
      BY <1>1 DEF WaitsFor
    <2>2. DOMAIN atoms'[c].waiters = 1 .. (Len(q) - n)
      <3>1. atoms'[c].waiters \in Seq(QueueEntry(Event))
        BY WaiterShape DEF IInv, TypeOK, AtomicState
      <3> QED
        BY <3>1, <1>3, <1>4, LenProperties
    <2> QED
      BY <2>1, <2>2, <1>3, <1>4
  <1>6. PICK k \in 1 .. n : h = <<q[k].event, on[q[k].event]>>
    BY <1>1 DEF GivesUp
  <1>7. k \in 1 .. Len(q) /\ n + m \in 1 .. Len(q) /\ k < n + m
    BY <1>2
  <1>8. WaitsFor(c, h[1])
    BY <1>2, <1>6, <1>7 DEF WaitsFor
  <1>9. Position(c, h[1]) = k
    BY <1>6, <1>7, PositionIs
  <1>10. Position(c, x) = n + m
    BY <1>5, <1>7, PositionIs
  <1> QED
    BY <1>1, <1>7, <1>8, <1>9, <1>10

LEMMA StepInTurn ==
    ASSUME IInv, IInv', StepKind
    PROVE  InTurn
  <1>1. CASE GuardsAlone
    BY <1>1 DEF GuardsAlone, InTurn
  <1>2. ASSUME NEW e \in Event, NEW i \in Nat \ {0}, NEW c \in Atom, NEW w \in WType,
               Gets(e, i, c, w)
        PROVE  InTurn
    <2>1. \A x : ~ WaitsFor(c, x)
      BY <1>2 DEF Gets, WaitsFor
    <2>2. \A a \in Atom : a # c => Holders(a)' = Holders(a)
      BY <1>2 DEF Gets
    <2> QED
      BY <2>1, <2>2 DEF InTurn
  <1>3. ASSUME NEW e \in Event, NEW i \in Nat \ {0}, NEW c \in Atom,
               (\E w \in WType : Queues(e, i, c, w)) \/ SetsData(e, i, c)
        PROVE  InTurn
    <2>1. \A a \in Atom : Holders(a)' = Holders(a)
      BY <1>3 DEF Queues, SetsData, Holders
    <2> QED
      BY <2>1 DEF InTurn
  <1> QED
    BY <1>1, <1>2, <1>3, GivesUpInTurn DEF StepKind

\* Whoever gets an atomic while an event waits for it was in its waiters
\* before that event: acquire_or_wait lets nobody past, and release takes the
\* waiters from the front.
THEOREM OvertakingCorrect == Spec => NoOvertaking
  <1>1. IInv /\ IInv' /\ [Next]_vars => [InTurn]_vars
    BY StepKinds, StepInTurn
  <1> QED
    BY <1>1, Inductive, PTL DEF Spec, NoOvertaking, InTurn
-----------------------------------------------------------------------------
(***************************************************************************)
(* The promise of GuardQueue.                                              *)
(***************************************************************************)
LEMMA ShortHolder ==
    ASSUME NEW p \in Plan
    PROVE  Len(Holder(p)) <= MaxAtomicsPerNode
  <1>1. p \in Seq(Need) /\ Len(p) <= MaxAtomicsPerNode /\ Len(p) \in Nat
    BY PlanAssumption, LenProperties
  <1>2. DOMAIN Holder(p) = 1 .. Len(p)
    BY <1>1, LenProperties DEF Holder
  <1>3. Len(Holder(p)) = Len(p)
    BY <1>1, <1>2, NewHolder, LenProperties
  <1> QED
    BY <1>1, <1>3

LEMMA InitShort == Init => Short
  <1> SUFFICES ASSUME Init, NEW x \in Event PROVE Len(ha[x]) <= MaxAtomicsPerNode
    BY DEF Short
  <1>1. PICK S \in SUBSET Event : \E f \in [S -> Plan] :
          ha = [y \in Event |-> IF y \in S THEN Holder(f[y]) ELSE <<>>]
    BY DEF Init
  <1>2. PICK f \in [S -> Plan] :
          ha = [y \in Event |-> IF y \in S THEN Holder(f[y]) ELSE <<>>]
    BY <1>1
  <1> QED
    BY <1>2, ShortHolder, PlanAssumption

\* A step keeps the length of a holder, or makes one for a plan, or clears it.
LEMMA NextShort == IInv /\ Short /\ [Next]_vars => Short'
  <1> SUFFICES ASSUME IInv, Short, [Next]_vars, NEW x \in Event
               PROVE  Len(ha'[x]) <= MaxAtomicsPerNode
    BY DEF Short
  <1> DEFINE Stays == ha'[x] = ha[x]
  <1>0. Len(ha[x]) <= MaxAtomicsPerNode
    BY DEF Short
  <1>1. ASSUME NEW e \in Event, CreateSuccessors(e)
        PROVE  Len(ha'[x]) <= MaxAtomicsPerNode
    <2>1. PICK S \in SUBSET {y \in Event : pc[y] = "free"} : \E f \in [S -> Plan] :
            ha' = [y \in Event |-> IF y \in S THEN Holder(f[y]) ELSE ha[y]]
      BY <1>1 DEF CreateSuccessors
    <2>2. PICK f \in [S -> Plan] :
            ha' = [y \in Event |-> IF y \in S THEN Holder(f[y]) ELSE ha[y]]
      BY <2>1
    <2> QED
      BY <1>0, <2>2, ShortHolder
  <1>2. ASSUME NEW e \in Event, EndHandler(e)
        PROVE  Len(ha'[x]) <= MaxAtomicsPerNode
    BY <1>0, <1>2, PlanAssumption DEF EndHandler, IInv, TypeOK
  <1>3. ASSUME NEW e \in Event, AcquireAtomic(e)
        PROVE  Len(ha'[x]) <= MaxAtomicsPerNode
    <2>1. on[e] \in 1 .. Len(ha[e]) /\ ha[e] \in Seq(HeldAtomic)
      BY <1>3, Shape DEF AcquireAtomic, IInv
    <2>2. ha' = [ha EXCEPT ![e] = TakeIt(ha[e], on[e])]
      BY <1>3 DEF AcquireAtomic
    <2>3. Len(TakeIt(ha[e], on[e])) = Len(ha[e])
      BY <2>1, TakeItFacts
    <2>4. ha'[x] = IF x = e THEN TakeIt(ha[e], on[e]) ELSE ha[x]
      BY <2>2 DEF IInv, TypeOK
    <2> QED
      BY <1>0, <2>3, <2>4
  <1>4. ASSUME NEW e \in Event, ReleaseAtomic(e)
        PROVE  Len(ha'[x]) <= MaxAtomicsPerNode
    <2>1. PICK i \in Nat \ {0}, c \in Atom, w \in WType, n \in Nat : ReleaseStep(e, i, c, w, n)
      BY <1>4, ReleaseAtomicSteps
    <2> DEFINE R == {atoms[c].waiters[k].event : k \in 1 .. n}
    <2>2. /\ i \in 1 .. Len(ha[e]) /\ n \in 0 .. Len(atoms[c].waiters)
          /\ \A k \in 1 .. Len(atoms[c].waiters) : 
                on[atoms[c].waiters[k].event] \in 1 .. Len(ha[atoms[c].waiters[k].event])
      BY <2>1, Zenon DEF ReleaseStep
    <2>3. ha' = [y \in Event |-> IF y = e THEN ForgetIt(ha[e], i)
                                 ELSE IF y \in R THEN TakeIt(ha[y], on[y]) ELSE ha[y]]
      BY <2>1, Zenon DEF ReleaseStep
    <2>4. ha[x] \in Seq(HeldAtomic)
      BY Shape DEF IInv
    <2>5. x \in R => on[x] \in 1 .. Len(ha[x])
      BY <2>2, WaiterShape, SMTT(30) DEF IInv
    <2> HIDE DEF R
    <2>6. CASE x = e
      BY <2>2, <2>3, <2>4, <2>6, <1>0, ForgetItFacts
    <2>7. CASE x # e /\ x \in R
      BY <2>3, <2>4, <2>5, <2>7, <1>0, TakeItFacts
    <2>8. CASE x # e /\ x \notin R
      BY <2>3, <2>8, <1>0
    <2> QED
      BY <2>6, <2>7, <2>8
  <1>5. ASSUME NEW e \in Event, 
               \/ SkipAtomic(e) \/ WaitForAtomic(e) \/ AcquiredAll(e) \/ Execute(e) 
               \/ BeginRelease(e) \/ SkipRelease(e) \/ EndRelease(e) \/ EndEarlyRelease(e)
               \/ SetData(e) \/ EarlyRelease(e)
        PROVE  UNCHANGED ha
    BY <1>5 DEF SkipAtomic, WaitForAtomic, AcquiredAll, Execute, BeginRelease, 
                SkipRelease, EndRelease, EndEarlyRelease, SetData, EarlyRelease
  <1>6. CASE OutOfEvents \/ UNCHANGED vars
    BY <1>0, <1>6 DEF OutOfEvents, vars
  <1> QED
    BY <1>0, <1>1, <1>2, <1>3, <1>4, <1>5, <1>6 DEF Next, Advance, Acquire, Release

-----------------------------------------------------------------------------
\* A request as GuardQueue sees it.
RequestOf(x, i, w) == [who |-> <<x, i>>, wtype |-> w]

LEMMA InsideOf ==
    ASSUME NEW a \in Atom
    PROVE  /\ Inside[a] = {[who |-> h, wtype |-> ha[h[1]][h[2]].wtype] : h \in Holders(a)}
           /\ Inside'[a] = {[who |-> h, wtype |-> ha'[h[1]][h[2]].wtype] : h \in Holders(a)'}
  BY DEF Inside

\* Inside follows the holders as long as nobody's type changes.
LEMMA InsideSame ==
    ASSUME NEW a \in Atom, Holders(a)' = Holders(a),
           \A h \in Holders(a) : ha'[h[1]][h[2]].wtype = ha[h[1]][h[2]].wtype
    PROVE  Inside'[a] = Inside[a]
  <1> DEFINE r(h)  == [who |-> h, wtype |-> ha[h[1]][h[2]].wtype]
             rr(h) == [who |-> h, wtype |-> ha'[h[1]][h[2]].wtype]
  <1>1. Inside[a] = {r(h) : h \in Holders(a)} /\ Inside'[a] = {rr(h) : h \in Holders(a)}
    BY InsideOf
  <1>2. \A h \in Holders(a) : r(h) = rr(h)
    OBVIOUS
  <1> HIDE DEF r, rr
  <1> QED
    BY <1>1, <1>2

LEMMA LineOf ==
    ASSUME IInv, NEW a \in Atom
    PROVE  /\ Line[a] \in Seq([who : Event \X Nat, wtype : WType])
           /\ Len(Line[a]) = Len(atoms[a].waiters) /\ Len(Line[a]) \in Nat
           /\ \A k \in 1 .. Len(Line[a]) : 
                Line[a][k] = RequestOf(atoms[a].waiters[k].event, on[atoms[a].waiters[k].event],
                                       atoms[a].waiters[k].wtype)
  <1> DEFINE q == atoms[a].waiters
             r(k) == RequestOf(q[k].event, on[q[k].event], q[k].wtype)
  <1>1. Len(q) \in Nat /\ DOMAIN q = 1 .. Len(q)
    BY WaiterShape, LenProperties DEF IInv
  <1>2. Line[a] = [k \in 1 .. Len(q) |-> r(k)]
    BY <1>1 DEF Line, RequestOf
  <1>3. \A k \in 1 .. Len(q) : r(k) \in [who : Event \X Nat, wtype : WType]
    <2> SUFFICES ASSUME NEW k \in 1 .. Len(q) 
                 PROVE  r(k) \in [who : Event \X Nat, wtype : WType]
      OBVIOUS
    <2>1. q[k].event \in Event /\ q[k].wtype \in WType
      BY WaiterFacts
    <2>2. on[q[k].event] \in Nat
      BY <2>1, Shape DEF IInv
    <2> QED
      BY <2>1, <2>2 DEF RequestOf
  <1> HIDE DEF r, q
  <1>4. Line[a] \in Seq([who : Event \X Nat, wtype : WType])
    BY <1>1, <1>2, <1>3, IsASeq
  <1>5. Len(Line[a]) = Len(q)
    BY <1>1, <1>2, <1>4, LenProperties
  <1> QED
    BY <1>1, <1>2, <1>4, <1>5 DEF r, q

\* The line of an atomic whose waiters, and what they wait for, stay.
LEMMA LineSame ==
    ASSUME IInv, NEW a \in Atom, atoms'[a].waiters = atoms[a].waiters,
           \A x \in Event : pc[x] = "wait" => on'[x] = on[x]
    PROVE  Line'[a] = Line[a]
  <1>1. DOMAIN atoms[a].waiters = 1 .. Len(atoms[a].waiters)
    BY WaiterShape, LenProperties DEF IInv
  <1>2. \A k \in 1 .. Len(atoms[a].waiters) : 
            on'[atoms[a].waiters[k].event] = on[atoms[a].waiters[k].event]
    BY WaiterFacts
  <1> QED
    BY <1>1, <1>2 DEF Line

LEMMA SharesIs == \A r, data : Promise!Shares(r, data) <=> JoinsReaders(r.wtype, data)
  BY DEF Promise!Shares, JoinsReaders

\* The request of an event for one of its guards.
LEMMA IsRequest ==
    ASSUME IInv, Short, NEW e \in Event, NEW i \in 1 .. Len(ha[e]), NEW w \in WType
    PROVE  RequestOf(e, i, w) \in Promise!Request
  <1>1. Len(ha[e]) \in Nat /\ Len(ha[e]) <= MaxAtomicsPerNode /\ MaxAtomicsPerNode \in Nat
    BY Shape, PlanAssumption DEF IInv, Short
  <1> QED
    BY <1>1 DEF RequestOf, Promise!Request, Client

-----------------------------------------------------------------------------
(***************************************************************************)
(* Every kind of step is one of GuardQueue's.                              *)
(***************************************************************************)
Stutters == UNCHANGED <<present, Inside, Line>>

LEMMA AloneStutters ==
    ASSUME IInv, GuardsAlone
    PROVE  Stutters
  <1>1. \A a \in Atom : Inside'[a] = Inside[a]
    BY InsideSame DEF GuardsAlone
  <1>2. \A a \in Atom : Line'[a] = Line[a]
    BY LineSame DEF GuardsAlone
  <1>3. Inside' = Inside /\ Line' = Line
    BY <1>1, <1>2 DEF Inside, Line
  <1> QED
    BY <1>3 DEF Stutters, GuardsAlone

LEMMA GetsEnters ==
    ASSUME IInv, Short, NEW e \in Event, NEW i \in Nat \ {0}, NEW c \in Atom, 
           NEW w \in WType, Gets(e, i, c, w)
    PROVE  Promise!Enter(c, RequestOf(e, i, w)) /\ RequestOf(e, i, w) \in Promise!Request
  <1> DEFINE r == RequestOf(e, i, w)
  <1>1. r \in Promise!Request
    BY IsRequest DEF Gets
  <1>2. Line[c] = <<>>
    BY LineOf, EmptySeq, LenProperties DEF Gets
  <1>3. \/ Inside[c] = {}
        \/ \A s \in Inside[c] \cup {r} : Promise!Shares(s, present[c])
    <2>1. CASE Holders(c) = {}
      BY <2>1, InsideOf
    <2>2. CASE Holders(c) # {}
      <3>1. /\ JoinsReaders(w, present[c])
            /\ \A h \in Holders(c) : JoinsReaders(ha[h[1]][h[2]].wtype, present[c])
        BY <2>2 DEF Gets
      <3>2. \A s \in Inside[c] : JoinsReaders(s.wtype, present[c])
        BY <3>1, InsideOf
      <3> QED
        BY <3>1, <3>2, SharesIs DEF RequestOf
    <2> QED
      BY <2>1, <2>2
  <1>4. Inside'[c] = Inside[c] \cup {r}
    <2> DEFINE s(h) == [who |-> h, wtype |-> ha[h[1]][h[2]].wtype]
               t(h) == [who |-> h, wtype |-> ha'[h[1]][h[2]].wtype]
    <2>1. Inside[c] = {s(h) : h \in Holders(c)} /\ Inside'[c] = {t(h) : h \in Holders(c)'}
      BY InsideOf
    <2>2. Holders(c)' = Holders(c) \cup {<<e, i>>}
      BY DEF Gets
    <2>3. \A h \in Holders(c) : t(h) = s(h)
      BY DEF Gets
    <2>4. t(<<e, i>>) = r
      BY DEF Gets, RequestOf
    <2> HIDE DEF s, t, r
    <2> QED
      BY <2>1, <2>2, <2>3, <2>4
  <1>5. \A a \in Atom : a # c => Inside'[a] = Inside[a]
    BY InsideSame DEF Gets
  <1>6. Inside' = [Inside EXCEPT ![c] = Inside[c] \cup {r}]
    BY <1>4, <1>5 DEF Inside
  <1>7. Line' = Line
    <2>1. \A a \in Atom : Line'[a] = Line[a]
      BY LineSame DEF Gets
    <2> QED
      BY <2>1 DEF Line
  <1>8. present' = present
    BY DEF Gets
  <1> HIDE DEF r
  <1> QED
    BY <1>1, <1>2, <1>3, <1>6, <1>7, <1>8 DEF Promise!Enter, r

LEMMA QueuesStands ==
    ASSUME IInv, IInv', Short, NEW e \in Event, NEW i \in Nat \ {0}, NEW c \in Atom, 
           NEW w \in WType, Queues(e, i, c, w)
    PROVE  /\ Promise!StandInLine(c, RequestOf(e, i, w)) 
           /\ RequestOf(e, i, w) \in Promise!Request
  <1> DEFINE r == RequestOf(e, i, w)
             q == atoms[c].waiters
             entry == [event |-> e, wtype |-> w]
  <1>1. r \in Promise!Request
    BY IsRequest DEF Queues
  <1>2. \A a \in Atom : Holders(a)' = Holders(a)
    BY DEF Queues, Holders
  <1>3. Inside' = Inside
    BY <1>2 DEF Queues, Inside
  <1>4. Inside[c] # {}
    <2>1. Holders(c) # {}
      BY DEF Queues
    <2>2. Inside[c] = {[who |-> h, wtype |-> ha[h[1]][h[2]].wtype] : h \in Holders(c)}
      BY InsideOf
    <2> QED
      BY ONLY <2>1, <2>2
  <1>5. \A a \in Atom : a # c => Line'[a] = Line[a]
    BY LineSame DEF Queues
  <1>6. q \in Seq(QueueEntry(Event)) /\ Len(q) \in Nat /\ entry \in QueueEntry(Event)
    BY WaiterShape DEF IInv, QueueEntry
  <1>7. /\ Len(Append(q, entry)) = Len(q) + 1
        /\ \A k \in 1 .. Len(q) : Append(q, entry)[k] = q[k]
        /\ Append(q, entry)[Len(q) + 1] = entry
    BY <1>6, AppendProperties
  <1>8. atoms'[c].waiters = Append(q, entry) /\ on' = on /\ i = on[e]
    BY DEF Queues
  <1> HIDE DEF entry
  <1>9. /\ Line[c] \in Seq([who : Event \X Nat, wtype : WType])
        /\ Len(Line[c]) = Len(q) /\ Len(Line[c]) \in Nat
        /\ \A k \in 1 .. Len(q) : Line[c][k] = RequestOf(q[k].event, on[q[k].event], q[k].wtype)
    BY LineOf
  <1>10. DOMAIN atoms'[c].waiters = 1 .. Len(q) + 1
    <2>1. atoms'[c].waiters \in Seq(QueueEntry(Event))
      BY WaiterShape DEF IInv, TypeOK, AtomicState
    <2> QED
      BY <2>1, <1>7, <1>8, LenProperties
  <1> DEFINE L == Line'[c]
  <1>11. L = [k \in 1 .. Len(Line[c]) + 1 |->
                RequestOf(Append(q, entry)[k].event, on[Append(q, entry)[k].event], 
                          Append(q, entry)[k].wtype)]
    BY <1>8, <1>9, <1>10 DEF Line, RequestOf
  <1>12. Line'[c] = Append(Line[c], r)
    <2>1. r \in [who : Event \X Nat, wtype : WType]
      BY DEF RequestOf
    <2>2. L[Len(Line[c]) + 1] = r
      BY <1>6, <1>7, <1>8, <1>9, <1>11, SMTT(30) DEF entry
    <2>3. \A k \in 1 .. Len(Line[c]) : L[k] = Line[c][k]
      BY <1>6, <1>7, <1>9, <1>11
    <2>4. L = [k \in 1 .. Len(Line[c]) + 1 |-> L[k]]
      BY <1>11
    <2> DEFINE S == [who : Event \X Nat, wtype : WType]
               s == Line[c]
    <2>5. s \in Seq(S) /\ r \in S
      BY <2>1, <1>9
    <2> HIDE DEF L, r, S
    <2>6. L = Append(s, r)
      <3> HIDE DEF s
      <3> QED
        BY <2>2, <2>3, <2>4, <2>5, AppendPointwise DEF s
    <2> QED
      BY <2>6 DEF L
  <1>13. Line' = [Line EXCEPT ![c] = Append(Line[c], r)]
    <2> HIDE DEF r
    <2> QED
      BY <1>5, <1>12 DEF Line
  <1>14. present' = present
    BY DEF Queues
  <1> HIDE DEF r
  <1> QED
    BY <1>1, <1>3, <1>4, <1>13, <1>14 DEF Promise!StandInLine, r

LEMMA SetsDataChanges ==
    ASSUME IInv, NEW e \in Event, NEW i \in Nat \ {0}, NEW c \in Atom, SetsData(e, i, c)
    PROVE  Promise!Change(c)
  <1>1. Inside[c] = {[who |-> <<e, i>>, wtype |-> ha[e][i].wtype]}
    <2>1. Holders(c) = {<<e, i>>}
      BY DEF SetsData
    <2>2. Inside[c] = {[who |-> h, wtype |-> ha[h[1]][h[2]].wtype] : h \in Holders(c)}
      BY InsideOf
    <2> QED
      BY ONLY <2>1, <2>2
  <1>2. Inside' = Inside /\ Line' = Line
    <2>1. \A a \in Atom : Holders(a)' = Holders(a)
      BY DEF SetsData, Holders
    <2> QED
      BY <2>1 DEF SetsData, Inside, Line
  <1>3. ha[e][i].wtype # Read /\ present' = [present EXCEPT ![c] = ~ present[c]]
    BY DEF SetsData
  <1> QED
    BY <1>1, <1>2, <1>3 DEF Promise!Change

\* The last request to leave, with those that come in.
LEMMA GivesUpLeaves ==
    ASSUME IInv, IInv', NEW e \in Event, NEW i \in Nat \ {0}, NEW c \in Atom, 
           NEW n \in Nat, GivesUp(e, i, c, n)
    PROVE  /\ Promise!Leave(c, RequestOf(e, i, ha[e][i].wtype))
           /\ RequestOf(e, i, ha[e][i].wtype) \in Inside[c]
  <1> DEFINE r == RequestOf(e, i, ha[e][i].wtype)
             q == atoms[c].waiters
             s(h) == [who |-> h, wtype |-> ha[h[1]][h[2]].wtype]
             t(h) == [who |-> h, wtype |-> ha'[h[1]][h[2]].wtype]
  <1>1. Inside[c] = {s(h) : h \in Holders(c)} /\ Inside'[c] = {t(h) : h \in Holders(c)'}
    BY InsideOf
  <1>2. <<e, i>> \in Holders(c) /\ s(<<e, i>>) = r
    BY DEF GivesUp, RequestOf
  <1>3. \A g, h : s(g) = s(h) => g = h
    OBVIOUS
  <1>4. \A x \in Event : \A j \in 1 .. Len(ha[x]) : ha'[x][j].wtype = ha[x][j].wtype
    BY DEF GivesUp
  <1>5. \A a \in Atom : \A h \in Holders(a) : t(h) = s(h)
    <2> SUFFICES ASSUME NEW a \in Atom, NEW h \in Holders(a) 
                 PROVE  ha'[h[1]][h[2]].wtype = ha[h[1]][h[2]].wtype
      OBVIOUS
    <2>1. PICK x \in Event : \E j \in DOMAIN ha[x] : h = <<x, j>>
      BY HolderPairs DEF Holders
    <2>2. PICK j \in DOMAIN ha[x] : h = <<x, j>>
      BY <2>1
    <2>3. j \in 1 .. Len(ha[x])
      BY Shape DEF IInv
    <2> QED
      BY <2>2, <2>3, <1>4
  <1>6. \A a \in Atom : a # c => Inside'[a] = Inside[a]
    <2> SUFFICES ASSUME NEW a \in Atom, a # c PROVE Inside'[a] = Inside[a]
      OBVIOUS
    <2>1. Holders(a)' = Holders(a)
      BY DEF GivesUp
    <2> QED
      BY <2>1, <1>5, InsideSame
  <1>7. n \in 0 .. Len(q) /\ Len(q) \in Nat /\ q \in Seq(QueueEntry(Event)) /\ present' = present
    BY WaiterShape DEF GivesUp, IInv
  <1>8. /\ Line[c] \in Seq([who : Event \X Nat, wtype : WType])
        /\ Len(Line[c]) = Len(q)
        /\ \A k \in 1 .. Len(q) : Line[c][k] = RequestOf(q[k].event, on[q[k].event], q[k].wtype)
    BY LineOf
  <1>9. ASSUME NEW x \in Event, pc[x] = "wait", \A k \in 1 .. n : q[k].event # x
        PROVE  on'[x] = on[x]
    BY <1>9 DEF GivesUp
  <1>10. \A a \in Atom : a # c => Line'[a] = Line[a]
    <2> SUFFICES ASSUME NEW a \in Atom, a # c PROVE Line'[a] = Line[a]
      OBVIOUS
    <2>1. atoms'[a] = atoms[a]
      BY DEF GivesUp
    <2>2. DOMAIN atoms[a].waiters = 1 .. Len(atoms[a].waiters)
      BY WaiterShape, LenProperties DEF IInv
    <2>3. ASSUME NEW k \in 1 .. Len(atoms[a].waiters)
          PROVE  on'[atoms[a].waiters[k].event] = on[atoms[a].waiters[k].event]
      <3> DEFINE x == atoms[a].waiters[k].event
      <3>1. x \in Event /\ pc[x] = "wait" /\ ha[x][on[x]].atom = a
        <4>1. x \in Event
          BY WaiterShape DEF IInv
        <4> QED
          BY <4>1, WaiterOf DEF IInv
      <3>2. ASSUME NEW m \in 1 .. n PROVE q[m].event # x
        <4>1. m \in 1 .. Len(q)
          BY <1>7
        <4>2. ha[q[m].event][on[q[m].event]].atom = c
          BY <4>1, WaiterOf DEF IInv
        <4> QED
          BY <4>2, <3>1
      <3> QED
        BY <3>1, <3>2, <1>9
    <2> QED
      BY <2>1, <2>2, <2>3 DEF Line
  <1>11. CASE n = 0
    <2>1. /\ Holders(c)' = Holders(c) \ {<<e, i>>}
          /\ Holders(c) # {<<e, i>>} \/ q = <<>>
          /\ atoms'[c].waiters = q
      BY <1>11 DEF GivesUp
    <2>2. Inside'[c] = Inside[c] \ {r}
      <3>1. \A h \in Holders(c) : t(h) = s(h)
        BY <1>5
      <3> HIDE DEF s, t, r
      <3> QED
        BY <3>1, <2>1, <1>1, <1>2, <1>3
    <2>3. Inside[c] # {r} \/ Line[c] = <<>>
      <3>1. CASE q = <<>>
        BY <3>1, <1>8, EmptySeq
      <3>2. CASE Holders(c) # {<<e, i>>}
        <4>1. PICK h \in Holders(c) : h # <<e, i>>
          BY <3>2, <1>2
        <4> HIDE DEF s, r
        <4> QED
          BY <4>1, <1>1, <1>2, <1>3
      <3> QED
        BY <3>1, <3>2, <2>1
    <2>4. Line'[c] = Line[c]
      <3>1. DOMAIN q = 1 .. Len(q)
        BY <1>7, LenProperties
      <3>2. ASSUME NEW k \in 1 .. Len(q) PROVE on'[q[k].event] = on[q[k].event]
        <4>1. q[k].event \in Event /\ pc[q[k].event] = "wait"
          BY WaiterFacts
        <4>2. 1 .. n = {}
          BY <1>11
        <4> QED
          BY <4>1, <4>2, <1>9
      <3> QED
        BY <3>1, <3>2, <2>1 DEF Line
    <2>5. Inside' = [Inside EXCEPT ![c] = Inside[c] \ {r}] /\ Line' = Line
      <3> HIDE DEF r
      <3> QED
        BY <2>2, <2>4, <1>6, <1>10 DEF Inside, Line
    <2>6. r \in Inside[c]
      BY <1>1, <1>2
    <2> HIDE DEF r
    <2> QED
      BY <2>3, <2>5, <2>6, <1>7 DEF Promise!Leave, r
  <1>12. CASE n > 0
    <2>1. /\ Holders(c) = {<<e, i>>}
          /\ Holders(c)' = {<<q[k].event, on[q[k].event]>> : k \in 1 .. n}
          /\ atoms'[c].waiters = SubSeq(q, n + 1, Len(q))
          /\ q[1].wtype # Read => n = 1
          /\ q[1].wtype = Read =>
               /\ \A k \in 1 .. n : JoinsReaders(q[k].wtype, present[c])
               /\ n < Len(q) => ~ JoinsReaders(q[n+1].wtype, present[c])
      BY <1>12 DEF GivesUp
    <2>2. n \in 1 .. Len(Line[c]) /\ Line[c] # <<>> /\ 1 \in 1 .. Len(q)
      BY <1>7, <1>8, <1>12
    <2>3. Inside[c] = {r}
      <3> HIDE DEF s, r
      <3> QED
        BY <2>1, <1>1, <1>2
    <2>4. ASSUME NEW k \in 1 .. Len(q) PROVE Line[c][k].wtype = q[k].wtype
      <3>1. Line[c][k] = RequestOf(q[k].event, on[q[k].event], q[k].wtype)
        BY <1>8
      <3> QED
        BY <3>1 DEF RequestOf
    <2>5. Promise!MayEnterTogether(c, n)
      <3>1. n > 1 => \A k \in 1 .. n : Promise!Shares(Line[c][k], present[c])
        <4> SUFFICES ASSUME n > 1, NEW k \in 1 .. n 
                     PROVE  JoinsReaders(Line[c][k].wtype, present[c])
          BY SharesIs
        <4>1. k \in 1 .. Len(q) /\ q[1].wtype = Read
          BY <2>1, <1>7
        <4> QED
          BY <4>1, <2>1, <2>4
      <3>2. Line[c][1].wtype = Read /\ n < Len(Line[c]) 
               => ~ Promise!Shares(Line[c][n + 1], present[c])
        <4>1. n < Len(q) => n + 1 \in 1 .. Len(q)
          BY <1>7
        <4> QED
          BY <4>1, <2>1, <2>2, <2>4, <1>8, SharesIs
      <3> QED
        BY <3>1, <3>2 DEF Promise!MayEnterTogether
    <2>6. Inside'[c] = {Line[c][k] : k \in 1 .. n}
      <3>1. ASSUME NEW k \in 1 .. n 
            PROVE  t(<<q[k].event, on[q[k].event]>>) = Line[c][k]
        <4>1. k \in 1 .. Len(q)
          BY <1>7
        <4>2. /\ q[k].event \in Event /\ on[q[k].event] \in 1 .. Len(ha[q[k].event])
              /\ ha[q[k].event][on[q[k].event]].wtype = q[k].wtype
          BY <4>1, WaiterFacts
        <4>3. ha'[q[k].event][on[q[k].event]].wtype = q[k].wtype
          BY <4>2, <1>4
        <4> QED
          BY <4>1, <4>3, <1>8 DEF RequestOf
      <3> DEFINE p(k) == <<q[k].event, on[q[k].event]>>
      <3>2. Holders(c)' = {p(k) : k \in 1 .. n}
        BY <2>1
      <3>3. \A k \in 1 .. n : t(p(k)) = Line[c][k]
        BY <3>1
      <3> HIDE DEF p, t
      <3> QED
        BY <3>2, <3>3, <1>1
    <2>7. Line'[c] = SubSeq(Line[c], n + 1, Len(Line[c]))
      <3> DEFINE rest == SubSeq(q, n + 1, Len(q))
                 L == Line'[c]
      <3>1. /\ rest \in Seq(QueueEntry(Event)) /\ Len(rest) = Len(q) - n
            /\ \A k \in 1 .. Len(q) - n : rest[k] = q[n + k]
        <4>1. \A k \in (n + 1) .. Len(q) : q[k] \in QueueEntry(Event)
          BY <1>7, ElementOfSeq
        <4> QED
          BY <1>7, <4>1, SubSeqProperties, SMTT(30)
      <3>2. DOMAIN rest = 1 .. Len(q) - n
        BY <3>1, LenProperties
      <3> HIDE DEF rest
      <3>3. L = [k \in 1 .. Len(q) - n |-> 
                   RequestOf(rest[k].event, on'[rest[k].event], rest[k].wtype)]
        BY <3>2, <2>1 DEF Line, RequestOf, rest
      <3>4. ASSUME NEW k \in 1 .. Len(q) - n PROVE L[k] = Line[c][n + k]
        <4>1. n + k \in 1 .. Len(q) /\ rest[k] = q[n + k]
          BY <3>1, <1>7
        <4>2. /\ q[n + k].event \in Event /\ pc[q[n + k].event] = "wait"
              /\ \A m \in 1 .. Len(q) : q[m].event = q[n + k].event => m = n + k
          BY <4>1, WaiterFacts
        <4>3. \A m \in 1 .. n : q[m].event # q[n + k].event
          BY <4>1, <4>2, <1>7
        <4>4. on'[q[n + k].event] = on[q[n + k].event]
          BY <4>2, <4>3, <1>9
        <4> QED
          BY <4>1, <4>4, <3>3, <1>8, SMTT(30)
      <3>5. L = [k \in 1 .. Len(Line[c]) - n |-> L[k]]
        BY <3>3, <1>8
      <3> DEFINE S == [who : Event \X Nat, wtype : WType]
                 s0 == Line[c]
      <3>6. /\ s0 \in Seq(S) /\ n \in 0 .. Len(s0)
            /\ \A k \in 1 .. Len(s0) - n : L[k] = s0[n + k]
        BY <3>4, <1>7, <1>8
      <3>7. L = [k \in 1 .. Len(s0) - n |-> L[k]]
        BY <3>5
      <3> HIDE DEF L, S, s0
      <3>8. L = SubSeq(s0, n + 1, Len(s0))
        BY <3>6, <3>7, RestPointwise, Zenon
      <3> QED
        BY <3>8 DEF L, s0
    <2>8. /\ Inside' = [Inside EXCEPT ![c] = {Line[c][k] : k \in 1 .. n}]
          /\ Line' = [Line EXCEPT ![c] = SubSeq(Line[c], n + 1, Len(Line[c]))]
      BY <2>6, <2>7, <1>6, <1>10 DEF Inside, Line
    <2> HIDE DEF r
    <2> QED
      BY <2>2, <2>3, <2>5, <2>8, <1>7 DEF Promise!Leave, r
  <1> QED
    BY <1>7, <1>11, <1>12

-----------------------------------------------------------------------------
LEMMA InitPromise == Init => Promise!Init
  <1> SUFFICES ASSUME Init PROVE Promise!Init
    OBVIOUS
  <1>0. IInv
    BY InitIInv
  <1>1. ASSUME NEW a \in Atom PROVE Inside[a] = {} /\ Line[a] = <<>>
    <2>1. atoms[a].held = 0 /\ atoms[a].waiters = <<>> /\ Len(atoms[a].waiters) = 0
      BY DEF Init, NewAtomic
    <2>2. Holders(a) = {}
      BY <1>0, <2>1, FS_EmptySet DEF IInv, Counted
    <2> QED
      BY <1>0, <2>1, <2>2, InsideOf, LineOf, EmptySeq
  <1>2. Inside = [a \in Atom |-> {}] /\ Line = [a \in Atom |-> <<>>]
    BY <1>1 DEF Inside, Line
  <1> QED
    BY <1>2 DEF Init, Promise!Init

LEMMA StepPromise ==
    ASSUME IInv, IInv', Short, StepKind
    PROVE  [Promise!Next]_Promise!vars
  <1> SUFFICES ASSUME ~ UNCHANGED Promise!vars 
               PROVE  \E a \in Atom : 
                        \/ \E r \in Promise!Request : Promise!Enter(a, r) \/ Promise!StandInLine(a, r)
                        \/ \E r \in Inside[a] : Promise!Leave(a, r)
                        \/ Promise!Change(a)
    BY DEF Promise!Next
  <1>1. ~ GuardsAlone
    BY AloneStutters DEF Stutters, Promise!vars
  <1>2. PICK e \in Event, i \in Nat \ {0}, c \in Atom : 
         \/ \E w \in WType : Gets(e, i, c, w) \/ Queues(e, i, c, w)
         \/ SetsData(e, i, c)
         \/ \E n \in Nat : GivesUp(e, i, c, n)
    BY <1>1 DEF StepKind
  <1> QED
    BY <1>2, GetsEnters, QueuesStands, SetsDataChanges, GivesUpLeaves

\* The atomics with their counters, modes and flags, and the holders of the
\* events, implement the abstract guards: who is inside together may share,
\* the line is served in order and nobody stands in front of a free atomic.
THEOREM PromiseKept == Spec => KeepsPromise
  <1>1. IInv /\ IInv' /\ Short /\ [Next]_vars => [Promise!Next]_Promise!vars
    BY StepKinds, StepPromise
  <1>2. Spec => []Short
    BY InitShort, NextShort, Inductive, PTL DEF Spec
  <1> QED
    BY <1>1, <1>2, InitPromise, Inductive, PTL DEF Spec, KeepsPromise, Promise!Spec
=============================================================================

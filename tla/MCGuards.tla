------------------------------ MODULE MCGuards ------------------------------
(***************************************************************************)
(* EventGuards on a small flow whose nodes use one readwrite guard (magic  *)
(* number 1, one key) and one exclusive guard (magic number 2, two keys).  *)
(* The plans are what GuardOrder makes of the nodes' guard references.     *)
(***************************************************************************)
EXTENDS EventGuards, GuardOrder, TLC

CONSTANT Nodes

Ref(guard, wtype, key, late) == 
    [guard |-> guard, wtype |-> wtype, key |-> key, late |-> late]

\* The key of a conditional guard whose condition does not hold.
NoKey == -1

\* A reader, a writer, and an event that fills in or reads what the writer
\* left and needs the exclusive guard too.
SharingNodes ==
    { <<Ref(1, Read, 0, FALSE)>>,
      <<Ref(1, Write, 0, FALSE)>>,
      <<Ref(2, Exclusive, 1, FALSE), Ref(1, Upgradeable, 0, FALSE)>> }

\* A reader that needs the exclusive guard on a condition that does not hold, and
\* an event that needs the exclusive guard for two keys, in an order that depends
\* on its arguments.
KeyedNodes == 
    { <<Ref(1, Read, 0, FALSE), Ref(2, Exclusive, NoKey, FALSE)>>,
      <<Ref(2, Exclusive, 1, FALSE), Ref(2, Exclusive, 2, FALSE)>>,
      <<Ref(2, Exclusive, 2, FALSE), Ref(2, Exclusive, 1, FALSE)>> }

\* Readers and writers that compete, a writer needs a second guard.
StarvationNodes ==
    { <<Ref(1, Read, 0, FALSE)>>,
      <<Ref(2, Exclusive, 1, FALSE), Ref(1, Write, 0, FALSE)>> }

\* One readwrite guard with two keys, read for one and written for the other.
ReadOneWriteOther ==
    { <<Ref(1, Read, 1, FALSE), Ref(1, Write, 2, FALSE)>>,
      <<Ref(1, Read, 2, FALSE), Ref(1, Write, 1, FALSE)>> }

\* One exclusive guard whose keys are computed late, needed for two keys.
LateKeys ==
    { <<Ref(2, Exclusive, 1, TRUE), Ref(2, Exclusive, 2, TRUE)>>,
      <<Ref(2, Exclusive, 2, TRUE), Ref(2, Exclusive, 1, TRUE)>> }

AllNodes == SharingNodes \cup KeyedNodes
DeadlockNodes == ReadOneWriteOther \cup LateKeys

AtomOf(ref) == IF ref.key = NoKey THEN Null ELSE <<ref.guard, ref.key>>

PlanOf(refs) == [i \in DOMAIN refs |-> [atom |-> AtomOf(refs[i]), wtype |-> refs[i].wtype]]

MCPlan == UNION {{PlanOf(s) : s \in AcquireOrders(n)} : n \in Nodes}
MCAtom == (UNION {{AtomOf(n[i]) : i \in DOMAIN n} : n \in Nodes}) \ {Null}

MCExclusive == {a \in MCAtom : a[1] = 2}

Symmetry == Permutations(Event)
=============================================================================

----------------------------- MODULE LinkedList -----------------------------
(***************************************************************************)
(* The list of threads and of timers: LinkedListRemovable                  *)
(* (src/src/runtime/OFluxLinkedList.h), singly linked nodes that know the  *)
(* location of the pointer to them, so that a node is removed without a    *)
(* walk.  Its caller has the manager lock: an operation is one step.       *)
(*                                                                         *)
(* A location is Head, for &_head, or a node, for that node's &_next.      *)
(***************************************************************************)
EXTENDS Naturals, SequencesExt

CONSTANTS LlNode,       \* the nodes
          LlHead,       \* the location &_head
          LlNull        \* the null pointer

ASSUME LinkedListAssumption == LlHead \notin LlNode /\ LlNull \notin LlNode \cup {LlHead}

VARIABLES at,           \* what a location points to: _head and every _next
          previous,     \* every _previous
          ltail,        \* _tail: the location where insert_back puts a node
          entered       \* history: the nodes inserted and not removed, in list order

llvars == <<at, previous, ltail, entered>>

LlInit ==
  /\ at = [l \in LlNode \cup {LlHead} |-> LlNull]
  /\ previous = [n \in LlNode |-> LlNull]
  /\ ltail = LlNull
  /\ entered = <<>>

\* A node in no list, as the assertion of insert_front and insert_back wants.
Loose(n) == at[n] = LlNull /\ previous[n] = LlNull

\* For structures: the node that was first keeps its _previous.
FrontLinks_KeepsPrevious(n) == [previous EXCEPT ![n] = LlHead]

\* The node before which n is put now has n's _next as _previous.
FrontLinks(n) ==
  [m \in LlNode |-> IF m = n THEN LlHead ELSE IF m = at[LlHead] THEN n ELSE previous[m]]

InsertFront(n) ==
  /\ Loose(n)
  /\ ltail' = IF ltail = LlNull THEN n ELSE ltail
  /\ previous' = FrontLinks(n)
  /\ at' = [at EXCEPT ![n] = at[LlHead], ![LlHead] = n]
  /\ entered' = <<n>> \o entered

InsertBack(n) ==
  /\ Loose(n) /\ ltail # LlNull
  /\ previous' = [previous EXCEPT ![n] = ltail]
  /\ at' = [at EXCEPT ![ltail] = n]
  /\ ltail' = n
  /\ entered' = Append(entered, n)

\* Removable::remove, of a node with a _previous.
Unlinked(n) == [at EXCEPT ![previous[n]] = at[n], ![n] = LlNull]

\* Where _tail is without n.
TailWithout(n) ==
  LET t == IF ltail = n THEN previous[n] ELSE ltail
  IN  IF t = LlHead THEN LlNull ELSE t

RemoveNode(n) ==
  /\ previous[n] # LlNull
  /\ at' = Unlinked(n)
  /\ previous' = [m \in LlNode |->
       IF m = n THEN LlNull ELSE IF m = at[n] THEN previous[n] ELSE previous[m]]
  /\ ltail' = TailWithout(n)
  /\ \E i \in DOMAIN entered : entered[i] = n /\ entered' = RemoveAt(entered, i)

LlNext == \E n \in LlNode : InsertFront(n) \/ InsertBack(n) \/ RemoveNode(n)

(* Properties *)
\* fold and iter meet what was inserted and not removed, in order; every node knows the
\* location that points to it, and _tail is the location after the last.
LlIsList ==
  LET k       == Len(entered)
      loc(i)  == IF i = 0 THEN LlHead ELSE entered[i]
  IN  /\ \A i \in 1 .. k : at[loc(i - 1)] = entered[i] /\ previous[entered[i]] = loc(i - 1)
      /\ at[loc(k)] = LlNull
      /\ ltail = IF k = 0 THEN LlNull ELSE entered[k]
=============================================================================

------------------------------ MODULE GuardOrder ------------------------------
(***************************************************************************)
(* The order in which an event acquires its guards: HeldAtomic::compare    *)
(* (src/runtime/atomic/OFluxAtomicHolder.h), Node::sortGuards              *)
(* (src/runtime/flow/OFluxFlowNode.cpp) and AtomicsHolder::get_keys_sort   *)
(* (src/runtime/atomic/OFluxAtomicHolder.cpp).                             *)
(*                                                                         *)
(* A guard reference of a node, with the key one event computes for it, is *)
(* the record                                                              *)
(*    guard  the magic number of the guard                                 *)
(*    wtype  the access type                                               *)
(*    key    the key, a number                                             *)
(*    late   GuardReference::late(): the key is computed when the guard is *)
(*           acquired, so it takes no part in the order                    *)
(* and a node is the sequence of its references.                           *)
(***************************************************************************)
EXTENDS Naturals, Integers, Sequences

Sign(m, n) == IF m < n THEN -1 ELSE IF m = n THEN 0 ELSE 1

\* compare_lates: a late reference comes after one that is not.
CompareLates(x, y) == 
    IF x.late = y.late THEN 0 ELSE IF y.late THEN -1 ELSE 1

\* Mutant: keys take no part in the order.
Compare_NoKeys(x, y) ==
    IF x.guard # y.guard THEN Sign(x.guard, y.guard)
    ELSE IF x.wtype # y.wtype THEN Sign(x.wtype, y.wtype)
    ELSE CompareLates(x, y)

\* HeldAtomic::compare with ignoreLates = false.
Compare(x, y) ==
    IF x.guard # y.guard THEN Sign(x.guard, y.guard)
    ELSE IF x.wtype # y.wtype THEN Sign(x.wtype, y.wtype)
    ELSE IF x.late \/ y.late THEN CompareLates(x, y)
    ELSE Sign(x.key, y.key)

Arrangements(s) == 
    {[i \in DOMAIN s |-> s[p[i]]] : 
        p \in {q \in [DOMAIN s -> DOMAIN s] : \A i, j \in DOMAIN s : q[i] = q[j] => i = j}}

\* Node::sortGuards: std::sort by magic number, whatever it does with ties.
SortGuards(node) ==
    {s \in Arrangements(node) : \A i, j \in DOMAIN s : i < j => s[i].guard <= s[j].guard}

\* _is_guards_completely_sorted: no two references to one guard.
CompletelySorted(s) == \A i, j \in DOMAIN s : i < j => s[i].guard < s[j].guard

\* get_keys_sort: the results qsort can have, of which there are several when
\* references compare equal.
GetKeysSort(s) ==
    IF CompletelySorted(s) THEN {s}
    ELSE {t \in Arrangements(s) : \A i, j \in DOMAIN t : i < j => Compare(t[i], t[j]) <= 0}

\* Every order in which an event of the node can acquire its guards.
AcquireOrders(node) == UNION {GetKeysSort(s) : s \in SortGuards(node)}
=============================================================================

-------------------------- MODULE LFAtomics_proofs --------------------------
(***************************************************************************)
(* Inductive invariants of the lock-free exclusive atomic, for any number  *)
(* of events and holders, and of the lock-free pool, for any number of     *)
(* events and resources and arrays that grow any number of times.          *)
(***************************************************************************)
EXTENDS LFExclusive, LFPool, FiniteSetTheorems, TLAPS

-----------------------------------------------------------------------------
(***************************************************************************)
(* The exclusive atomic.                                                   *)
(*                                                                         *)
(* Only who holds the atomic moves the head, and it is taken only when the *)
(* mark of a free list is at the head; so the argument is about where the  *)
(* mark can be, which is about where every holder can be: on the list,     *)
(* private to a pusher that no hazard pointer names, unlinked by who pops, *)
(* or free.  A pusher that linked its holder behind one that was being     *)
(* unlinked is lost, and does the others no harm.                          *)
(***************************************************************************)
XPrivatePC == {"push", "push_hn", "push_take", "push_t", "push_tn", "push_link"}
XLinkingPC == {"push_swing", "push_ev"}
XUnlinkingPC == {"pop_clear", "pop_three"}
XAtHeadPC == {"pop_hn", "pop_t", "pop_tn", "pop_test", "pop_unlink", "pop_empty"}

XHolds(x) == pc[x] \in Popping \cup {"run"}

\* The holder that x has unlinked, to hand the atomic over to the event in it.
XUnlinks(x, n) == \/ pc[x] \in XUnlinkingPC /\ h[x] = n
                  \/ pc[x] = "pop_grant" /\ e[x] = n

\* Where the events that wait are found.
XLive(n) == n \in OnList \/ \E x \in Event : XUnlinks(x, n)

XTypes == XTypeOK /\ pc = [x \in Event |-> pc[x]]

\* One event holds the atomic, or nobody and the mark at the head says so.
XHolders ==
  /\ \A x, y \in Event : XHolds(x) /\ XHolds(y) => x = y
  /\ (next[head] = "one") <=> (\A x \in Event : ~XHolds(x))

\* The mark of a free list is at the head, the mark of a dead holder is not on the list.
XMarks ==
  /\ \A n \in Node : next[n] = "one" => n = head
  /\ \A n \in OnList : next[n] # "three"

\* No two holders have the same next, and none has the head, so that there is no cycle.
\* The last holder is the tail, or else one whose pusher is about to make it the tail.
XOrder ==
  /\ tail \in OnList
  /\ \A n \in OnList : next[n] # head
  /\ \A n, m \in OnList : next[n] \in Node /\ next[n] = next[m] => n = m
  /\ \A n \in OnList : next[n] \notin Node =>
       n = tail \/ (\E y \in Event : pc[y] = "push_swing" /\ e[y] = n)

\* A pusher's holder is its own, and not on the list before it is linked.
XOwned ==
  /\ \A x \in Event : (e[x] \in Node) <=> (pc[x] \in XPrivatePC \cup XLinkingPC \cup {"pop_grant"})
  /\ \A x, y \in Event : e[x] \in Node /\ e[x] = e[y] => x = y
  /\ \A x \in Event : e[x] \notin free
  /\ \A n \in OnList : n \notin free
  /\ \A x \in Event : pc[x] \in XPrivatePC \cup {"pop_grant"} => e[x] \notin OnList

\* Before it is linked it is empty, and no hazard pointer names it.
XPrivate ==
  \A x \in Event : pc[x] \in XPrivatePC =>
    /\ next[e[x]] = "nil" /\ ev[e[x]] = "nil"
    /\ \A y \in Event : h[y] # e[x] /\ t[y] # e[x]

\* What a step follows is a holder.
XPointers ==
  \A x \in Event :
    /\ pc[x] \in {"push_hn", "push_take"} \cup XAtHeadPC => h[x] \in Node
    /\ pc[x] \in {"push_tn", "push_link", "pop_tn"} \cup XLinkingPC => t[x] \in Node

\* A holder is linked behind one on the list that has no event yet; or behind one that
\* was being unlinked, and neither is on the list.
XLinking ==
  \A x \in Event : pc[x] \in XLinkingPC =>
    \/ t[x] \in OnList /\ next[t[x]] = e[x] /\ ev[t[x]] = "nil"
    \/ t[x] \notin OnList /\ e[x] \notin OnList

\* The tail does not go past a holder whose pusher is yet to make it the tail.
XSwinging ==
  \A x \in Event : pc[x] = "push_swing" =>
    /\ tail # e[x] /\ (\A y \in Event : t[y] # e[x])
    /\ t[x] \in OnList => tail = t[x]

\* Nobody moves the head but who holds the atomic, so that what it read is still true.
XPopping ==
  \A x \in Event :
    /\ pc[x] \in XAtHeadPC => h[x] = head
    /\ pc[x] \in {"pop_t", "pop_tn", "pop_test", "pop_empty"} =>
         hn[x] = "nil" \/ (hn[x] \in Node /\ next[head] = hn[x])
    /\ pc[x] = "pop_unlink" =>
         hn[x] \in Node /\ next[head] = hn[x] /\ head # tail /\ ev[head] # "nil"

\* A holder that is being unlinked belongs to who unlinks it.
XUnlinked ==
  \A x \in Event : pc[x] \in XUnlinkingPC =>
    h[x] \in Node /\ h[x] \notin OnList /\ h[x] \notin free /\ (\A y \in Event : e[y] # h[x])

\* An event found there waits, in one holder only, and the holder has a next.
XWaiters ==
  /\ \A n \in Node : XLive(n) /\ ev[n] # "nil" => pc[ev[n]] = "wait"
  /\ \A n, m \in Node : XLive(n) /\ XLive(m) /\ ev[n] # "nil" /\ ev[n] = ev[m] => n = m
  /\ \A n \in OnList : ev[n] # "nil" => next[n] \in Node
  /\ \A x \in Event, n \in Node : XUnlinks(x, n) => ev[n] # "nil"

XInv ==
  /\ XTypes /\ XHolders /\ XMarks /\ XOrder /\ XOwned /\ XPrivate /\ XPointers
  /\ XLinking /\ XSwinging /\ XPopping /\ XUnlinked /\ XWaiters

-----------------------------------------------------------------------------
\* The list has the holder that it starts from and, with a holder, its next.
LEMMA ListHasNext ==
  ASSUME NEW f, NEW n \in Node
  PROVE  /\ ListFrom(f, n) \subseteq Node /\ n \in ListFrom(f, n)
         /\ \A m \in ListFrom(f, n) : f[m] \in Node => f[m] \in ListFrom(f, n)
  BY DEF ListFrom

\* It is the least such set.
LEMMA ListIsLeast ==
  ASSUME NEW f, NEW n \in Node, NEW S \in SUBSET Node, n \in S,
         \A m \in S : f[m] \in Node => f[m] \in S
  PROVE  ListFrom(f, n) \subseteq S
  BY DEF ListFrom

\* Pointers that change elsewhere, and those that are no holders, do not change it.
LEMMA ListStays ==
  ASSUME NEW f, NEW g, NEW n \in Node,
         \A m \in ListFrom(f, n) : f[m] \in Node \/ g[m] \in Node => g[m] = f[m]
  PROVE  ListFrom(g, n) = ListFrom(f, n)
  <1> DEFINE F == ListFrom(f, n)
             G == ListFrom(g, n)
  <1>1. /\ F \subseteq Node /\ n \in F
        /\ \A m \in F : f[m] \in Node => f[m] \in F
    BY ListHasNext
  <1>2. /\ G \subseteq Node /\ n \in G
        /\ \A m \in G : g[m] \in Node => g[m] \in G
    BY ListHasNext
  <1>0. \A m \in F : f[m] \in Node \/ g[m] \in Node => g[m] = f[m]
    OBVIOUS
  <1> HIDE DEF F, G
  <1>3. G \subseteq F
    <2>1. \A m \in F : g[m] \in Node => g[m] \in F
      BY <1>0, <1>1
    <2> QED
      BY <1>1, <2>1, ListIsLeast DEF G
  <1>4. F \subseteq G
    <2>1. \A m \in G : f[m] \in Node => f[m] \in G
      BY <1>0, <1>2, <1>3
    <2> QED
      BY <1>2, <2>1, ListIsLeast DEF F
  <1> QED
    BY <1>3, <1>4 DEF F, G

\* A holder linked behind one that has no next is added.
LEMMA ListGrows ==
  ASSUME NEW f, NEW g, NEW n \in Node, NEW m \in ListFrom(f, n), NEW k \in Node,
         f[m] \notin Node, g[m] = k, g[k] \notin Node,
         \A i \in ListFrom(f, n) : i # m => g[i] = f[i]
  PROVE  ListFrom(g, n) = ListFrom(f, n) \cup {k}
  <1> DEFINE F == ListFrom(f, n)
             G == ListFrom(g, n)
  <1>1. /\ F \subseteq Node /\ n \in F /\ m \in F
        /\ \A i \in F : f[i] \in Node => f[i] \in F
    BY ListHasNext
  <1>2. /\ G \subseteq Node /\ n \in G
        /\ \A i \in G : g[i] \in Node => g[i] \in G
    BY ListHasNext
  <1>0. \A i \in F : i # m => g[i] = f[i]
    OBVIOUS
  <1> HIDE DEF F, G
  <1>3. G \subseteq F \cup {k}
    <2>1. \A i \in F \cup {k} : g[i] \in Node => g[i] \in F \cup {k}
      BY <1>0, <1>1
    <2>2. F \cup {k} \in SUBSET Node /\ n \in F \cup {k}
      BY <1>1
    <2>3. PICK S : S = F \cup {k}
      OBVIOUS
    <2>4. S \in SUBSET Node /\ n \in S /\ \A i \in S : g[i] \in Node => g[i] \in S
      BY <2>1, <2>2, <2>3
    <2>5. ListFrom(g, n) \subseteq S
      BY <2>4, ListIsLeast
    <2> QED
      BY <2>3, <2>5 DEF G
  <1>4. F \subseteq G
    <2>1. \A i \in F \cap G : f[i] \in Node => f[i] \in F \cap G
      BY <1>0, <1>1, <1>2
    <2>2. F \subseteq F \cap G
      BY <1>1, <1>2, <2>1, ListIsLeast DEF F
    <2> QED
      BY <2>2
  <1>5. k \in G
    BY <1>1, <1>2, <1>4
  <1> QED
    BY <1>3, <1>4, <1>5 DEF F, G

\* The list from the second holder is the list without the first.
LEMMA ListDrops ==
  ASSUME NEW f, NEW n \in Node, f[n] \in Node, \A m \in ListFrom(f, n) : f[m] # n
  PROVE  ListFrom(f, f[n]) = ListFrom(f, n) \ {n}
  <1> DEFINE F == ListFrom(f, n)
             G == ListFrom(f, f[n])
  <1>1. /\ F \subseteq Node /\ n \in F
        /\ \A m \in F : f[m] \in Node => f[m] \in F
    BY ListHasNext
  <1>2. /\ G \subseteq Node /\ f[n] \in G
        /\ \A m \in G : f[m] \in Node => f[m] \in G
    BY ListHasNext
  <1>0. \A m \in F : f[m] # n
    OBVIOUS
  <1> HIDE DEF F, G
  <1>3. G \subseteq F \ {n}
    <2>1. \A m \in F \ {n} : f[m] \in Node => f[m] \in F \ {n}
      BY <1>0, <1>1
    <2>2. F \ {n} \in SUBSET Node /\ f[n] \in F \ {n}
      BY <1>0, <1>1
    <2> QED
      BY <2>1, <2>2, ListIsLeast DEF G
  <1>4. F \subseteq G \cup {n}
    <2>1. \A m \in G \cup {n} : f[m] \in Node => f[m] \in G \cup {n}
      BY <1>2
    <2>2. G \cup {n} \in SUBSET Node /\ n \in G \cup {n}
      BY <1>2
    <2> QED
      BY <2>1, <2>2, ListIsLeast DEF F
  <1> QED
    BY <1>3, <1>4 DEF F, G

LEMMA XInitInv == XInit => XInv
  <1> SUFFICES ASSUME XInit PROVE XInv
    OBVIOUS
  <1>1. PICK n \in Node :
          /\ head = n /\ tail = n
          /\ next = [m \in Node |-> IF m = n THEN "one" ELSE "nil"]
          /\ free = Node \ {n}
    BY DEF XInit
  <1>2. /\ ev = [m \in Node |-> "nil"]
        /\ pc = [x \in Event |-> "idle"]
        /\ h = [x \in Event |-> "nil"] /\ hn = [x \in Event |-> "nil"]
        /\ t = [x \in Event |-> "nil"] /\ e = [x \in Event |-> "nil"]
    BY DEF XInit
  <1>3. OnList = {n}
    <2>1. n \in OnList
      BY <1>1, ListHasNext DEF OnList
    <2>2. \A m \in {n} : next[m] \in Node => next[m] \in {n}
      BY <1>1, LFExclusiveAssumption
    <2>3. {n} \in SUBSET Node /\ n \in {n}
      OBVIOUS
    <2>4. ListFrom(next, n) \subseteq {n}
      BY <2>2, <2>3, ListIsLeast
    <2> QED
      BY <1>1, <2>1, <2>4 DEF OnList
  <1>4. "nil" \notin Node /\ "one" \notin Node /\ "three" \notin Node
    BY LFExclusiveAssumption
  <1>5. XTypes
    <2>1. next \in [Node -> Node \cup {"nil", "one", "three"}] /\ free \subseteq Node
      BY <1>1
    <2>2. ev \in [Node -> Event \cup {"nil"}]
      BY <1>2
    <2>4. pc = [x \in Event |-> pc[x]]
      BY <1>2
    <2>3. /\ h \in [Event -> Node \cup {"nil"}] /\ t \in [Event -> Node \cup {"nil"}]
          /\ hn \in [Event -> Node \cup {"nil", "one", "three"}]
          /\ e \in [Event -> Node \cup {"nil"}]
      BY <1>2
    <2> QED
      BY <1>1, <2>1, <2>2, <2>3, <2>4 DEF XTypes, XTypeOK
  <1>6. XHolders /\ XMarks
    BY <1>1, <1>2, <1>3 DEF XHolders, XMarks, XHolds, Popping
  <1>7. XOrder
    BY <1>1, <1>2, <1>3, <1>4 DEF XOrder
  <1>8. XOwned
    BY <1>1, <1>2, <1>3, <1>4 DEF XOwned, XPrivatePC, XLinkingPC
  <1>9. XPrivate /\ XPointers /\ XLinking /\ XSwinging
    BY <1>2 DEF XPrivate, XPointers, XLinking, XSwinging, XPrivatePC, XLinkingPC, XAtHeadPC
  <1>10. XPopping /\ XUnlinked
    BY <1>2 DEF XPopping, XUnlinked, XUnlinkingPC, XAtHeadPC
  <1>11. XWaiters
    BY <1>1, <1>2, <1>3 DEF XWaiters, XLive, XUnlinks, XUnlinkingPC
  <1> QED
    BY <1>5, <1>6, <1>7, <1>8, <1>9, <1>10, <1>11 DEF XInv

\* What the types and the list give to every step.
LEMMA XKnown ==
  ASSUME XInv
  PROVE  /\ head \in Node /\ tail \in Node /\ OnList \subseteq Node /\ head \in OnList
         /\ \A n \in OnList : next[n] \in Node => next[n] \in OnList
         /\ "nil" \notin Node /\ "one" \notin Node /\ "three" \notin Node /\ "nil" \notin Event
         /\ \A n \in Node : next[n] \in Node \/ next[n] = "nil" \/ next[n] = "one" \/ next[n] = "three"
         /\ \A n \in Node : ev[n] \in Event \/ ev[n] = "nil"
         /\ \A x \in Event : /\ h[x] \in Node \/ h[x] = "nil"
                             /\ t[x] \in Node \/ t[x] = "nil"
                             /\ e[x] \in Node \/ e[x] = "nil"
         /\ \A x \in Event : \A v : [pc EXCEPT ![x] = v] = [y \in Event |-> IF y = x THEN v ELSE pc[y]]
         /\ \A x \in Event : \A v : [e EXCEPT ![x] = v] = [y \in Event |-> IF y = x THEN v ELSE e[y]]
         /\ \A x \in Event : \A v : [h EXCEPT ![x] = v] = [y \in Event |-> IF y = x THEN v ELSE h[y]]
         /\ \A x \in Event : \A v : [t EXCEPT ![x] = v] = [y \in Event |-> IF y = x THEN v ELSE t[y]]
         /\ \A x \in Event : \A v : [hn EXCEPT ![x] = v] = [y \in Event |-> IF y = x THEN v ELSE hn[y]]
         /\ \A n \in Node : \A v : [next EXCEPT ![n] = v] = [m \in Node |-> IF m = n THEN v ELSE next[m]]
         /\ \A n \in Node : \A v : [ev EXCEPT ![n] = v] = [m \in Node |-> IF m = n THEN v ELSE ev[m]]
  <1>1. XTypes
    BY DEF XInv
  <1>2. /\ OnList \subseteq Node /\ head \in OnList
        /\ \A n \in OnList : next[n] \in Node => next[n] \in OnList
    BY <1>1, ListHasNext DEF XTypes, XTypeOK, OnList
  <1>3. /\ \A n \in Node : next[n] \in Node \/ next[n] = "nil" \/ next[n] = "one" \/ next[n] = "three"
        /\ \A n \in Node : ev[n] \in Event \/ ev[n] = "nil"
        /\ \A x \in Event : /\ h[x] \in Node \/ h[x] = "nil"
                            /\ t[x] \in Node \/ t[x] = "nil"
                            /\ e[x] \in Node \/ e[x] = "nil"
    BY <1>1 DEF XTypes, XTypeOK
  <1>4. /\ \A x \in Event : \A v : [pc EXCEPT ![x] = v] = [y \in Event |-> IF y = x THEN v ELSE pc[y]]
        /\ \A x \in Event : \A v : [e EXCEPT ![x] = v] = [y \in Event |-> IF y = x THEN v ELSE e[y]]
        /\ \A x \in Event : \A v : [h EXCEPT ![x] = v] = [y \in Event |-> IF y = x THEN v ELSE h[y]]
        /\ \A x \in Event : \A v : [t EXCEPT ![x] = v] = [y \in Event |-> IF y = x THEN v ELSE t[y]]
        /\ \A x \in Event : \A v : [hn EXCEPT ![x] = v] = [y \in Event |-> IF y = x THEN v ELSE hn[y]]
    BY <1>1 DEF XTypes, XTypeOK
  <1>5. /\ \A n \in Node : \A v : [next EXCEPT ![n] = v] = [m \in Node |-> IF m = n THEN v ELSE next[m]]
        /\ \A n \in Node : \A v : [ev EXCEPT ![n] = v] = [m \in Node |-> IF m = n THEN v ELSE ev[m]]
    BY <1>1 DEF XTypes, XTypeOK
  <1> QED
    BY <1>1, <1>2, <1>3, <1>4, <1>5, LFExclusiveAssumption DEF XTypes, XTypeOK

\* Where a step goes to.
LEMMA XGoes ==
  ASSUME XInv, NEW x \in Event, NEW l, pc' = [pc EXCEPT ![x] = l]
  PROVE  /\ pc'[x] = l /\ (\A y \in Event : y # x => pc'[y] = pc[y])
         /\ pc' = [y \in Event |-> pc'[y]]
  <1>1. pc' = [y \in Event |-> IF y = x THEN l ELSE pc[y]]
    BY XKnown
  <1> QED
    BY <1>1

XLooksPC == XAtHeadPC \cup {"run", "pop"}

\* A step that only looks at the list, of a pusher or of the holder.
LEMMA XLooks ==
  ASSUME XInv, NEW x \in Event, NEW l,
         \/ pc[x] \in XPrivatePC /\ l \in XPrivatePC
         \/ pc[x] \in XLooksPC /\ l \in XLooksPC,
         pc'[x] = l, \A y \in Event : y # x => pc'[y] = pc[y],
         head' = head /\ tail' = tail /\ next' = next /\ ev' = ev /\ free' = free /\ e' = e,
         \A y \in Event : y # x => h'[y] = h[y] /\ t'[y] = t[y],
         h'[x] = h[x] \/ h'[x] = head, t'[x] = t[x] \/ t'[x] = tail,
         XTypes', XPointers', XPopping'
  PROVE  XInv'
  <1>0. head \in OnList /\ OnList \subseteq Node
    BY XKnown
  <1>1. \A y \in Event : pc'[y] = IF y = x THEN l ELSE pc[y]
    OBVIOUS
  <1>2. OnList' = OnList
    BY DEF OnList
  <1>3. \A y \in Event : XHolds(y)' <=> XHolds(y)
    BY <1>1 DEF XHolds, Popping, XPrivatePC, XLooksPC, XAtHeadPC
  <1>4. \A y \in Event : /\ pc'[y] \in XPrivatePC <=> pc[y] \in XPrivatePC
                         /\ pc'[y] \in XLinkingPC <=> pc[y] \in XLinkingPC
                         /\ pc'[y] \in XUnlinkingPC <=> pc[y] \in XUnlinkingPC
    BY <1>1 DEF XPrivatePC, XLooksPC, XAtHeadPC, XLinkingPC, XUnlinkingPC
  <1>5. \A y \in Event : /\ pc'[y] = "push_swing" <=> pc[y] = "push_swing"
                         /\ pc'[y] = "pop_grant" <=> pc[y] = "pop_grant"
                         /\ pc'[y] = "wait" <=> pc[y] = "wait"
    BY <1>1 DEF XPrivatePC, XLooksPC, XAtHeadPC
  <1>6. pc[x] \notin XLinkingPC /\ pc[x] \notin XUnlinkingPC /\ pc[x] # "push_swing"
    BY DEF XPrivatePC, XLooksPC, XAtHeadPC, XLinkingPC, XUnlinkingPC
  <1>7. XHolders'
    BY <1>3 DEF XInv, XHolders
  <1>8. XMarks' /\ XOrder'
    BY <1>2, <1>5 DEF XInv, XMarks, XOrder
  <1>9. XOwned'
    <2>1. XOwned
      BY DEF XInv
    <2> QED
      BY <1>2, <1>4, <1>5, <2>1 DEF XOwned
  <1>10. \A y \in Event : e[y] \in Node /\ (pc[y] \in XPrivatePC \/ pc[y] = "push_swing") => e[y] # head /\ e[y] # tail
    <2>1. XOwned /\ XOrder /\ XSwinging /\ XLinking
      BY DEF XInv
    <2>2. \A y \in Event : pc[y] \in XPrivatePC => e[y] \notin OnList
      BY <2>1 DEF XOwned
    <2>3. \A y \in Event : pc[y] = "push_swing" => e[y] # tail
      BY <2>1 DEF XSwinging
    <2>4. \A y \in Event : pc[y] = "push_swing" => e[y] # head
      BY <1>0, <2>1 DEF XLinking, XOrder, XLinkingPC
    <2> QED
      BY <1>0, <2>1, <2>2, <2>3, <2>4 DEF XOrder
  <1>11. XPrivate'
    <2>1. XPrivate /\ \A y \in Event : pc[y] \in XPrivatePC => e[y] \in Node
      BY DEF XInv, XOwned
    <2> QED
      BY <1>4, <1>10, <2>1 DEF XPrivate
  <1>12. XLinking'
    <2>1. XLinking
      BY DEF XInv
    <2> QED
      BY <1>2, <1>4, <1>6, <2>1 DEF XLinking
  <1>13. XSwinging'
    <2>1. XSwinging /\ \A y \in Event : pc[y] = "push_swing" => e[y] \in Node
      BY DEF XInv, XOwned, XLinkingPC
    <2> QED
      BY <1>2, <1>5, <1>6, <1>10, <2>1 DEF XSwinging
  <1>14. XUnlinked'
    <2>1. XUnlinked
      BY DEF XInv
    <2> QED
      BY <1>2, <1>4, <1>6, <2>1 DEF XUnlinked
  <1>15. \A y \in Event, n \in Node : XUnlinks(y, n)' <=> XUnlinks(y, n)
    BY <1>4, <1>5, <1>6 DEF XUnlinks
  <1>16. \A n \in Node : XLive(n)' <=> XLive(n)
    BY <1>2, <1>15 DEF XLive
  <1>17. XWaiters'
    <2>1. XWaiters /\ \A n \in Node : ev[n] \in Event \/ ev[n] = "nil"
      BY XKnown DEF XInv
    <2> QED
      BY <1>0, <1>2, <1>5, <1>15, <1>16, <2>1 DEF XWaiters
  <1> QED
    BY <1>7, <1>8, <1>9, <1>11, <1>12, <1>13, <1>14, <1>17 DEF XInv

\* The looks of a pusher do not concern who holds the atomic.
LEMMA XPopperStays ==
  ASSUME XInv, NEW x \in Event, NEW l, l \notin XAtHeadPC,
         pc'[x] = l, \A y \in Event : y # x => pc'[y] = pc[y],
         head' = head /\ tail' = tail /\ next' = next /\ ev' = ev,
         \A y \in Event : y # x => h'[y] = h[y] /\ hn'[y] = hn[y]
  PROVE  XPopping'
  <1>1. XPopping /\ \A y \in Event : pc'[y] = IF y = x THEN l ELSE pc[y]
    BY DEF XInv
  <1>2. \A y \in Event : pc'[y] \in XAtHeadPC => y # x
    BY <1>1
  <1>3. \A y \in Event : pc'[y] \in {"pop_t", "pop_tn", "pop_test", "pop_empty", "pop_unlink"} => pc'[y] \in XAtHeadPC
    BY DEF XAtHeadPC
  <1> QED
    BY <1>1, <1>2, <1>3 DEF XPopping

LEMMA XPusherLooks ==
  ASSUME XInv, NEW x \in Event,
         \/ PushHead(x) \/ PushNext(x) \/ PushTail(x) \/ PushCheckTail(x)
         \/ PushTake(x) /\ next[h[x]] # "one"
         \/ PushLink(x) /\ next[t[x]] # "nil"
  PROVE  XInv'
  <1>0. XTypes /\ XPointers
    BY DEF XInv
  <1>1. CASE PushHead(x)
    <2>1. pc[x] = "push" /\ pc' = [pc EXCEPT ![x] = "push_hn"] /\ h' = [h EXCEPT ![x] = head]
      BY <1>1 DEF PushHead, Goto
    <2>2. head' = head /\ tail' = tail /\ next' = next /\ ev' = ev /\ free' = free /\ hn' = hn /\ t' = t /\ e' = e
      BY <1>1 DEF PushHead, XList
    <2>3. XTypes'
      BY <1>0, <2>1, <2>2 DEF XTypes, XTypeOK
    <2>4. XPointers'
      <3>1. /\ pc'[x] = "push_hn" /\ \A y \in Event : y # x => pc'[y] = pc[y]
            /\ h'[x] = head /\ \A y \in Event : y # x => h'[y] = h[y]
        BY <2>1, XKnown
      <3>2. head \in Node
        BY XKnown
      <3> SUFFICES ASSUME NEW y \in Event
                   PROVE  /\ pc'[y] \in {"push_hn", "push_take"} \cup XAtHeadPC => h'[y] \in Node
                          /\ pc'[y] \in {"push_tn", "push_link", "pop_tn"} \cup XLinkingPC => t'[y] \in Node
        BY Zenon DEF XPointers, XAtHeadPC, XLinkingPC
      <3>3. CASE y = x
        BY <3>1, <3>2, <3>3 DEF XLinkingPC
      <3>4. CASE y # x
        BY <1>0, <2>2, <3>1, <3>4 DEF XPointers
      <3> QED
        BY <3>3, <3>4
    <2>5. XPopping'
      BY <2>1, <2>2, XPopperStays, XGoes, XKnown DEF XAtHeadPC
    <2> QED
      BY <2>1, <2>2, <2>3, <2>4, <2>5, XLooks, XGoes, XKnown DEF XPrivatePC
  <1>2. CASE PushNext(x) \/ PushCheckTail(x) \/ (PushTake(x) /\ next[h[x]] # "one") \/ (PushLink(x) /\ next[t[x]] # "nil")
    <2>a. PICK l : l = pc'[x]
      OBVIOUS
    <2>0. /\ \/ pc[x] = "push_hn" /\ l = "push_take"
             \/ pc[x] = "push_hn" /\ l = "push_t"
             \/ pc[x] = "push_take" /\ l = "push_t"
             \/ pc[x] = "push_tn" /\ l = "push"
             \/ pc[x] = "push_tn" /\ l = "push_link"
             \/ pc[x] = "push_link" /\ l = "push"
          /\ \A y \in Event : y # x => pc'[y] = pc[y]
          /\ pc' = [y \in Event |-> pc'[y]]
      <3>1. CASE PushNext(x)
        <4>1. \/ pc[x] = "push_hn" /\ pc' = [pc EXCEPT ![x] = "push_take"]
              \/ pc[x] = "push_hn" /\ pc' = [pc EXCEPT ![x] = "push_t"]
          BY <3>1, Zenon DEF PushNext, Goto
        <4> QED
          BY <2>a, <4>1, XGoes
      <3>2. CASE PushCheckTail(x)
        <4>1. \/ pc[x] = "push_tn" /\ pc' = [pc EXCEPT ![x] = "push"]
              \/ pc[x] = "push_tn" /\ pc' = [pc EXCEPT ![x] = "push_link"]
          BY <3>2, Zenon DEF PushCheckTail, Goto
        <4> QED
          BY <2>a, <4>1, XGoes
      <3>3. CASE PushTake(x) /\ next[h[x]] # "one"
        BY <2>a, <3>3, XGoes DEF PushTake, Goto
      <3>4. CASE PushLink(x) /\ next[t[x]] # "nil"
        BY <2>a, <3>4, XGoes DEF PushLink, Goto
      <3> QED
        BY <1>2, <3>1, <3>2, <3>3, <3>4
    <2>1. l \in XPrivatePC /\ pc[x] \in XPrivatePC /\ l \notin XAtHeadPC
      BY <2>0 DEF XPrivatePC, XAtHeadPC
    <2>2. head' = head /\ tail' = tail /\ next' = next /\ ev' = ev /\ free' = free /\ h' = h /\ t' = t /\ e' = e
      BY <1>2 DEF PushNext, PushCheckTail, PushTake, PushLink, Goto, XList, XLocal
    <2>3. hn' = hn \/ (hn' = [hn EXCEPT ![x] = next[h[x]]] /\ h[x] \in Node)
      BY <1>0, <1>2 DEF PushNext, PushCheckTail, PushTake, PushLink, XLocal, XPointers
    <2>4. XTypes'
      BY <1>0, <2>0, <2>2, <2>3 DEF XTypes, XTypeOK
    <2>5. XPointers'
      BY <1>0, <2>a, <2>0, <2>2, XKnown DEF XPointers, XAtHeadPC, XLinkingPC
    <2>6. XPopping'
      <3>1. \A y \in Event : y # x => hn'[y] = hn[y]
        <4>1. CASE hn' = [hn EXCEPT ![x] = next[h[x]]]
          <5>1. hn' = [y \in Event |-> IF y = x THEN next[h[x]] ELSE hn[y]]
            BY <4>1, XKnown
          <5> QED
            BY <5>1
        <4> QED
          BY <2>3, <4>1
      <3> QED
        BY <2>a, <2>0, <2>1, <2>2, <3>1, XPopperStays
    <2> QED
      BY <2>a, <2>0, <2>1, <2>2, <2>4, <2>5, <2>6, XLooks
  <1>3. CASE PushTail(x)
    <2>1. pc[x] = "push_t" /\ pc' = [pc EXCEPT ![x] = "push_tn"] /\ t' = [t EXCEPT ![x] = tail]
      BY <1>3 DEF PushTail, Goto
    <2>2. head' = head /\ tail' = tail /\ next' = next /\ ev' = ev /\ free' = free /\ hn' = hn /\ h' = h /\ e' = e
      BY <1>3 DEF PushTail, XList
    <2>6. pc'[x] = "push_tn" /\ \A y \in Event : y # x => pc'[y] = pc[y]
      BY <2>1, XGoes
    <2>7. tail \in Node /\ t'[x] = tail /\ \A y \in Event : y # x => t'[y] = t[y]
      BY <2>1, XKnown
    <2>8. pc[x] \in XPrivatePC /\ "push_tn" \in XPrivatePC
      BY <2>1 DEF XPrivatePC
    <2>3. XTypes'
      BY <1>0, <2>1, <2>2 DEF XTypes, XTypeOK
    <2>4. XPointers'
      BY <1>0, <2>1, <2>2, <2>6, <2>7 DEF XPointers, XAtHeadPC, XLinkingPC
    <2>5. XPopping'
      BY <2>1, <2>2, XPopperStays, XGoes, XKnown DEF XAtHeadPC
    <2> QED
      BY <2>2, <2>3, <2>4, <2>5, <2>6, <2>7, <2>8, XLooks
  <1> QED
    BY <1>1, <1>2, <1>3

LEMMA XHolderLooks ==
  ASSUME XInv, NEW x \in Event,
         \/ Release(x) \/ PopHead(x) \/ PopNext(x) \/ PopTail(x) \/ PopCheckTail(x) \/ PopTest(x)
         \/ PopUnlink(x) /\ head # h[x]
         \/ PopEmpty(x) /\ next[h[x]] # "nil"
  PROVE  XInv'
  <1>0. XTypes /\ XPointers /\ XPopping /\ XHolders /\ XMarks
    BY DEF XInv
  <1>a. XHolds(x)
    BY DEF XHolds, Popping, Release, PopHead, PopNext, PopTail, PopCheckTail, PopTest, PopUnlink, PopEmpty
  <1>b. \A y \in Event : y # x => pc[y] \notin XAtHeadPC
    BY <1>0, <1>a DEF XHolders, XHolds, Popping, XAtHeadPC
  <1>c. next[head] # "one" /\ next[head] # "three"
    BY <1>0, <1>a, XKnown DEF XHolders, XMarks
  <1>d. head' = head /\ tail' = tail /\ next' = next /\ ev' = ev /\ free' = free /\ e' = e
    BY DEF Release, PopHead, PopNext, PopTail, PopCheckTail, PopTest, PopUnlink, PopEmpty, XList, XLocal
  <1>1. CASE Release(x) \/ PopCheckTail(x) \/ PopTest(x) \/ (PopUnlink(x) /\ head # h[x]) \/ (PopEmpty(x) /\ next[h[x]] # "nil")
    <2>0. h' = h /\ t' = t /\ hn' = hn
      BY <1>1 DEF Release, PopCheckTail, PopTest, PopUnlink, PopEmpty, XLocal
    <2>a. PICK l : l = pc'[x]
      OBVIOUS
    <2>1. /\ \/ l = "pop" /\ pc[x] \in {"run", "pop_tn", "pop_test", "pop_unlink", "pop_empty"}
             \/ l = "pop_test" /\ pc[x] = "pop_tn"
             \/ l = "pop_empty" /\ pc[x] = "pop_test"
             \/ l = "pop_unlink" /\ pc[x] = "pop_test" /\ h[x] # tail /\ Linked(hn[x]) /\ ev[h[x]] # "nil"
          /\ \A y \in Event : y # x => pc'[y] = pc[y]
          /\ pc' = [y \in Event |-> pc'[y]]
      <3>1. CASE Release(x) \/ (PopUnlink(x) /\ head # h[x]) \/ (PopEmpty(x) /\ next[h[x]] # "nil")
        BY <2>a, <3>1, XGoes DEF Release, PopUnlink, PopEmpty, Goto
      <3>2. CASE PopCheckTail(x)
        <4>1. \/ pc[x] = "pop_tn" /\ pc' = [pc EXCEPT ![x] = "pop"]
              \/ pc[x] = "pop_tn" /\ pc' = [pc EXCEPT ![x] = "pop_test"]
          BY <3>2, Zenon DEF PopCheckTail, Goto
        <4> QED
          BY <2>a, <4>1, XGoes
      <3>3. CASE PopTest(x)
        <4>1. \/ /\ pc[x] = "pop_test" /\ pc' = [pc EXCEPT ![x] = "pop_unlink"]
                 /\ h[x] # tail /\ Linked(hn[x]) /\ ev[h[x]] # "nil"
              \/ pc[x] = "pop_test" /\ pc' = [pc EXCEPT ![x] = "pop_empty"]
              \/ pc[x] = "pop_test" /\ pc' = [pc EXCEPT ![x] = "pop"]
          BY <3>3, Zenon DEF PopTest, Goto
        <4> QED
          BY <2>a, <4>1, XGoes
      <3> QED
        BY <1>1, <3>1, <3>2, <3>3
    <2>2. l \in XLooksPC /\ pc[x] \in XLooksPC
      BY <2>1 DEF XLooksPC, XAtHeadPC
    <2>3. XTypes'
      BY <1>0, <1>d, <2>0, <2>1 DEF XTypes, XTypeOK
    <2>4. \A y \in Event : pc'[y] = IF y = x THEN l ELSE pc[y]
      BY <2>a, <2>1
    <2>5. XPointers'
      BY <1>0, <2>0, <2>1, <2>4 DEF XPointers, XAtHeadPC, XLinkingPC
    <2>6. XPopping'
      <3> SUFFICES ASSUME NEW y \in Event PROVE
             /\ pc'[y] \in XAtHeadPC => h[y] = head
             /\ pc'[y] \in {"pop_t", "pop_tn", "pop_test", "pop_empty"} =>
                  hn[y] = "nil" \/ (hn[y] \in Node /\ next[head] = hn[y])
             /\ pc'[y] = "pop_unlink" =>
                  hn[y] \in Node /\ next[head] = hn[y] /\ head # tail /\ ev[head] # "nil"
        BY <1>d, <2>0 DEF XPopping
      <3>1. CASE y # x
        BY <1>0, <2>4, <3>1 DEF XPopping
      <3>2. CASE y = x
        BY <1>0, <2>1, <2>4, <3>2, XKnown DEF XPopping, XAtHeadPC, Linked
      <3> QED
        BY <3>1, <3>2
    <2> QED
      BY <1>d, <2>a, <2>0, <2>1, <2>2, <2>3, <2>5, <2>6, XLooks
  <1>2. CASE PopHead(x)
    <2>1. /\ pc[x] = "pop" /\ pc' = [pc EXCEPT ![x] = "pop_hn"] /\ h' = [h EXCEPT ![x] = head]
          /\ t' = t /\ hn' = hn
      BY <1>2 DEF PopHead, Goto
    <2>2. XTypes'
      BY <1>0, <1>d, <2>1 DEF XTypes, XTypeOK
    <2>5. pc'[x] = "pop_hn" /\ \A y \in Event : y # x => pc'[y] = pc[y]
      BY <2>1, XGoes
    <2>6. pc[x] \in XLooksPC /\ "pop_hn" \in XLooksPC
      BY <2>1 DEF XLooksPC, XAtHeadPC
    <2>7. head \in Node /\ h'[x] = head /\ \A y \in Event : y # x => h'[y] = h[y]
      BY <2>1, XKnown
    <2>3. XPointers'
      BY <1>0, <2>1, <2>5, <2>7 DEF XPointers, XAtHeadPC, XLinkingPC
    <2>4. XPopping'
      BY <1>0, <1>d, <2>1, <2>5, <2>7 DEF XPopping, XAtHeadPC
    <2> QED
      BY <1>d, <2>1, <2>2, <2>3, <2>4, <2>5, <2>6, <2>7, XLooks
  <1>3. CASE PopNext(x)
    <2>1. /\ pc[x] = "pop_hn" /\ pc' = [pc EXCEPT ![x] = "pop_t"] /\ hn' = [hn EXCEPT ![x] = next[h[x]]]
          /\ t' = t /\ h' = h
      BY <1>3 DEF PopNext, Goto
    <2>0. h[x] = head
      BY <1>0, <2>1 DEF XPopping, XAtHeadPC
    <2>2. XTypes'
      BY <1>0, <1>d, <2>0, <2>1 DEF XTypes, XTypeOK
    <2>5. pc'[x] = "pop_t" /\ \A y \in Event : y # x => pc'[y] = pc[y]
      BY <2>1, XGoes
    <2>6. pc[x] \in XLooksPC /\ "pop_t" \in XLooksPC
      BY <2>1 DEF XLooksPC, XAtHeadPC
    <2>7. /\ hn'[x] = next[head] /\ \A y \in Event : y # x => hn'[y] = hn[y]
          /\ next[head] \in Node \/ next[head] = "nil"
      BY <1>c, <2>0, <2>1, XKnown
    <2>3. XPointers'
      BY <1>0, <2>1, <2>5 DEF XPointers, XAtHeadPC, XLinkingPC
    <2>4. XPopping'
      BY <1>0, <1>d, <2>0, <2>1, <2>5, <2>7 DEF XPopping, XAtHeadPC
    <2> QED
      BY <1>d, <2>1, <2>2, <2>3, <2>4, <2>5, <2>6, XLooks
  <1>4. CASE PopTail(x)
    <2>1. /\ pc[x] = "pop_t" /\ pc' = [pc EXCEPT ![x] = "pop_tn"] /\ t' = [t EXCEPT ![x] = tail]
          /\ h' = h /\ hn' = hn
      BY <1>4 DEF PopTail, Goto
    <2>2. XTypes'
      BY <1>0, <1>d, <2>1 DEF XTypes, XTypeOK
    <2>5. pc'[x] = "pop_tn" /\ \A y \in Event : y # x => pc'[y] = pc[y]
      BY <2>1, XGoes
    <2>6. pc[x] \in XLooksPC /\ "pop_tn" \in XLooksPC
      BY <2>1 DEF XLooksPC, XAtHeadPC
    <2>7. tail \in Node /\ t'[x] = tail /\ \A y \in Event : y # x => t'[y] = t[y]
      BY <2>1, XKnown
    <2>3. XPointers'
      BY <1>0, <2>1, <2>5, <2>7 DEF XPointers, XAtHeadPC, XLinkingPC
    <2>4. XPopping'
      BY <1>0, <1>d, <2>1, <2>5 DEF XPopping, XAtHeadPC
    <2> QED
      BY <1>d, <2>1, <2>2, <2>3, <2>4, <2>5, <2>6, <2>7, XLooks
  <1> QED
    BY <1>1, <1>2, <1>3, <1>4

\* A holder that came from the allocator is nobody else's.
LEMMA XAcquires == ASSUME XInv, NEW x \in Event, AcquireOrWait(x) PROVE XInv'
  <1>0. XTypes /\ XHolders /\ XMarks /\ XOrder /\ XOwned /\ XPrivate /\ XPointers /\ XLinking /\ XSwinging
        /\ XPopping /\ XUnlinked /\ XWaiters
    BY DEF XInv
  <1>1. PICK n \in Reclaimable :
          /\ e' = [e EXCEPT ![x] = n] /\ free' = free \ {n}
          /\ next' = [next EXCEPT ![n] = "nil"] /\ ev' = [ev EXCEPT ![n] = "nil"]
    BY DEF AcquireOrWait
  <1>2. /\ pc[x] = "idle" /\ pc' = [pc EXCEPT ![x] = "push"]
        /\ head' = head /\ tail' = tail /\ h' = h /\ hn' = hn /\ t' = t
    BY DEF AcquireOrWait, Goto
  <1>3. n \in Node /\ n \in free /\ (\A y \in Event : h[y] # n /\ t[y] # n /\ e[y] # n) /\ n \notin OnList
    BY <1>0 DEF Reclaimable, Hazards, XTypes, XTypeOK, XOwned
  <1>4. /\ pc'[x] = "push" /\ \A y \in Event : y # x => pc'[y] = pc[y]
        /\ e'[x] = n /\ \A y \in Event : y # x => e'[y] = e[y]
        /\ next'[n] = "nil" /\ \A m \in Node : m # n => next'[m] = next[m]
        /\ ev'[n] = "nil" /\ \A m \in Node : m # n => ev'[m] = ev[m]
    BY <1>1, <1>2, <1>3, XKnown
  <1>5. OnList' = OnList /\ OnList \subseteq Node /\ head \in OnList /\ "nil" \notin Node
    <2>1. \A m \in OnList : next'[m] = next[m]
      BY <1>3, <1>4, XKnown
    <2> QED
      BY <1>2, <2>1, XKnown, ListStays DEF OnList
  <1>6. \A y \in Event : XHolds(y)' <=> XHolds(y)
    BY <1>2, <1>4 DEF XHolds, Popping
  <1>7. \A y \in Event : pc'[y] \in XLinkingPC \cup XUnlinkingPC \cup XAtHeadPC \cup {"push_swing", "pop_grant"} => y # x
    BY <1>4 DEF XLinkingPC, XUnlinkingPC, XAtHeadPC
  <1>8. XTypes'
    BY <1>0, <1>1, <1>2, <1>3 DEF XTypes, XTypeOK
  <1>9. XHolders'
    BY <1>0, <1>2, <1>3, <1>4, <1>5, <1>6 DEF XHolders
  <1>10. XMarks'
    BY <1>0, <1>2, <1>3, <1>4, <1>5 DEF XMarks
  <1>11. XOrder'
    BY <1>0, <1>2, <1>3, <1>4, <1>5 DEF XOrder
  <1>12. XOwned'
    <2>1. \A y \in Event : (e'[y] \in Node) <=> (pc'[y] \in XPrivatePC \cup XLinkingPC \cup {"pop_grant"})
      BY <1>0, <1>3, <1>4 DEF XOwned, XPrivatePC
    <2>2. \A y \in Event : pc'[y] \in XPrivatePC \cup {"pop_grant"} => e'[y] \notin OnList
      BY <1>0, <1>3, <1>4 DEF XOwned
    <2> QED
      BY <1>0, <1>1, <1>3, <1>4, <1>5, <2>1, <2>2 DEF XOwned
  <1>13. XPrivate'
    <2>1. \A y \in Event : y # x /\ pc[y] \in XPrivatePC => e[y] \in Node /\ e[y] # n
      BY <1>0, <1>3 DEF XOwned
    <2> QED
      BY <1>0, <1>2, <1>3, <1>4, <2>1 DEF XPrivate
  <1>14. XPointers'
    BY <1>0, <1>2, <1>4, <1>7 DEF XPointers
  <1>15. XLinking'
    BY <1>0, <1>2, <1>3, <1>4, <1>5, <1>7 DEF XLinking
  <1>16. XSwinging'
    BY <1>0, <1>2, <1>3, <1>4, <1>5, <1>7 DEF XSwinging
  <1>17. XPopping'
    BY <1>0, <1>2, <1>3, <1>4, <1>5, <1>7 DEF XPopping, XAtHeadPC
  <1>18. XUnlinked'
    BY <1>0, <1>1, <1>2, <1>3, <1>4, <1>5, <1>7 DEF XUnlinked
  <1>19. /\ \A y \in Event, m \in Node : XUnlinks(y, m)' <=> XUnlinks(y, m)
         /\ \A m \in Node : XLive(m)' <=> XLive(m)
         /\ \A m \in Node : XLive(m) => m # n
         /\ \A y \in Event : ~XUnlinks(y, n)
    <2>1. \A y \in Event, m \in Node : XUnlinks(y, m)' <=> XUnlinks(y, m)
      BY <1>2, <1>4, <1>7 DEF XUnlinks, XUnlinkingPC
    <2>2. \A y \in Event : ~XUnlinks(y, n)
      BY <1>3 DEF XUnlinks
    <2> QED
      BY <1>3, <1>5, <2>1, <2>2 DEF XLive
  <1>20. XWaiters'
    <2>1. \A m \in Node : ev[m] \in Event \/ ev[m] = "nil"
      BY XKnown
    <2> QED
      BY <1>0, <1>2, <1>3, <1>4, <1>5, <1>19, <2>1 DEF XWaiters
  <1> QED
    BY <1>8, <1>9, <1>10, <1>11, <1>12, <1>13, <1>14, <1>15, <1>16, <1>17, <1>18, <1>20 DEF XInv

\* Who takes the free atomic is alone; its holder goes back unused.
LEMMA XTakes == ASSUME XInv, NEW x \in Event, PushTake(x), next[h[x]] = "one" PROVE XInv'
  <1>0. XTypes /\ XHolders /\ XMarks /\ XOrder /\ XOwned /\ XPrivate /\ XPointers /\ XLinking /\ XSwinging
        /\ XPopping /\ XUnlinked /\ XWaiters
    BY DEF XInv
  <1>1. /\ pc[x] = "push_take" /\ pc' = [pc EXCEPT ![x] = "run"]
        /\ next' = [next EXCEPT ![h[x]] = "nil", ![e[x]] = "three"]
        /\ free' = free \cup {e[x]} /\ e' = [e EXCEPT ![x] = "nil"]
        /\ h' = [h EXCEPT ![x] = "nil"] /\ t' = [t EXCEPT ![x] = "nil"]
        /\ head' = head /\ tail' = tail /\ ev' = ev /\ hn' = hn
    BY DEF PushTake, Goto, ReleaseHazards
  <1>2. h[x] = head /\ next[head] = "one" /\ (\A y \in Event : ~XHolds(y)) /\ e[x] \in Node /\ e[x] \notin OnList
    BY <1>0, <1>1 DEF XMarks, XHolders, XPointers, XOwned, XPrivatePC
  <1>3. PICK n \in Node : n = e[x]
    BY <1>2
  <1>4. OnList \subseteq Node /\ head \in OnList /\ head \in Node /\ "nil" \notin Node /\ "three" \notin Node
         /\ "one" \notin Node
    BY XKnown
  <1>5. /\ pc'[x] = "run" /\ \A y \in Event : y # x => pc'[y] = pc[y]
        /\ e'[x] = "nil" /\ \A y \in Event : y # x => e'[y] = e[y]
        /\ h'[x] = "nil" /\ \A y \in Event : y # x => h'[y] = h[y]
        /\ t'[x] = "nil" /\ \A y \in Event : y # x => t'[y] = t[y]
    BY <1>1, XKnown
  <1>6. next'[n] = "three" /\ next'[head] = "nil" /\ \A m \in Node : m # n /\ m # head => next'[m] = next[m]
    BY <1>0, <1>1, <1>2, <1>3, <1>4 DEF XTypes, XTypeOK
  <1>7. OnList' = OnList
    <2>1. \A m \in OnList : next[m] \in Node \/ next'[m] \in Node => next'[m] = next[m]
      BY <1>2, <1>3, <1>4, <1>6
    <2>2. ListFrom(next', head) = ListFrom(next, head)
      BY <1>4, <2>1, ListStays DEF OnList
    <2> QED
      BY <1>1, <2>2 DEF OnList
  <1>8. \A y \in Event : pc'[y] \in XPrivatePC \cup XLinkingPC \cup XUnlinkingPC \cup XAtHeadPC
                                     \cup {"push_swing", "pop_grant", "push_tn", "push_link", "pop_tn"} => y # x
    BY <1>5 DEF XPrivatePC, XLinkingPC, XUnlinkingPC, XAtHeadPC
  <1>9. XTypes'
    <2>1. next' \in [Node -> Node \cup {"nil", "one", "three"}]
      BY <1>0, <1>1 DEF XTypes, XTypeOK
    <2>2. pc' = [y \in Event |-> pc'[y]]
      BY <1>0, <1>1 DEF XTypes
    <2>3. e' \in [Event -> Node \cup {"nil"}] /\ h' \in [Event -> Node \cup {"nil"}] /\ t' \in [Event -> Node \cup {"nil"}]
      BY <1>0, <1>1 DEF XTypes, XTypeOK
    <2>4. free' \subseteq Node
      BY <1>0, <1>1, <1>2 DEF XTypes, XTypeOK
    <2> QED
      BY <1>0, <1>1, <2>1, <2>2, <2>3, <2>4 DEF XTypes, XTypeOK
  <1>10. XHolders'
    <2>1. \A y \in Event : XHolds(y)' <=> y = x
      BY <1>2, <1>5 DEF XHolds
    <2> QED
      BY <1>1, <1>6, <2>1 DEF XHolders
  <1>11. XMarks'
    BY <1>0, <1>1, <1>2, <1>3, <1>4, <1>6, <1>7 DEF XMarks
  <1>12. XOrder'
    <2>1. /\ \A m \in OnList : next'[m] \in Node => next'[m] = next[m]
          /\ \A m \in OnList : next'[m] \notin Node => next[m] \notin Node
      BY <1>2, <1>3, <1>4, <1>6
    <2>2. "push_swing" # "push_take"
      OBVIOUS
    <2>3. tail \in OnList /\ \A m \in OnList : next'[m] # head
      BY <1>0, <1>4, <2>1 DEF XOrder
    <2>4. \A m, k \in OnList : next'[m] \in Node /\ next'[m] = next'[k] => m = k
      BY <1>0, <2>1 DEF XOrder
    <2>5. \A m \in OnList : next'[m] \notin Node =>
            m = tail \/ (\E y \in Event : pc'[y] = "push_swing" /\ e'[y] = m)
      <3> SUFFICES ASSUME NEW m \in OnList, next'[m] \notin Node, m # tail
                   PROVE  \E y \in Event : pc'[y] = "push_swing" /\ e'[y] = m
        OBVIOUS
      <3>1. PICK y \in Event : pc[y] = "push_swing" /\ e[y] = m
        BY <1>0, <2>1 DEF XOrder
      <3>2. y # x
        BY <1>1, <3>1
      <3> QED
        BY <1>5, <3>1, <3>2
    <2> QED
      BY <1>1, <1>7, <2>3, <2>4, <2>5 DEF XOrder
  <1>13. XOwned'
    <2>1. \A y \in Event : (e'[y] \in Node) <=> (pc'[y] \in XPrivatePC \cup XLinkingPC \cup {"pop_grant"})
      BY <1>0, <1>4, <1>5, <1>8 DEF XOwned
    <2>2. \A y \in Event : pc'[y] \in XPrivatePC \cup {"pop_grant"} => e'[y] \notin OnList
      BY <1>0, <1>5, <1>8 DEF XOwned
    <2>3. \A y \in Event : e'[y] \notin free'
      BY <1>0, <1>1, <1>2, <1>4, <1>5 DEF XOwned, XTypes, XTypeOK
    <2>4. \A m \in OnList : m \notin free'
      BY <1>0, <1>1, <1>2 DEF XOwned
    <2>5. \A y, z \in Event : e'[y] \in Node /\ e'[y] = e'[z] => y = z
      BY <1>0, <1>4, <1>5 DEF XOwned
    <2> QED
      BY <1>7, <2>1, <2>2, <2>3, <2>4, <2>5 DEF XOwned
  <1>14. XPrivate'
    <2>1. \A y \in Event : y # x /\ pc[y] \in XPrivatePC => e[y] \in Node /\ e[y] # n /\ e[y] # head
      BY <1>0, <1>3, <1>4 DEF XOwned
    <2> SUFFICES ASSUME NEW y \in Event, pc'[y] \in XPrivatePC
                 PROVE  /\ next'[e'[y]] = "nil" /\ ev'[e'[y]] = "nil"
                        /\ \A z \in Event : h'[z] # e'[y] /\ t'[z] # e'[y]
      BY DEF XPrivate
    <2>2. y # x /\ pc[y] \in XPrivatePC /\ e'[y] = e[y]
      BY <1>5, <1>8
    <2>3. /\ next[e[y]] = "nil" /\ ev[e[y]] = "nil"
          /\ \A z \in Event : h[z] # e[y] /\ t[z] # e[y]
      BY <1>0, <2>2 DEF XPrivate
    <2>4. \A z \in Event : h'[z] # e[y] /\ t'[z] # e[y]
      BY <1>4, <1>5, <2>1, <2>2, <2>3
    <2> QED
      BY <1>1, <1>6, <2>1, <2>2, <2>3, <2>4
  <1>15. XPointers'
    BY <1>0, <1>1, <1>5 DEF XPointers, XAtHeadPC, XLinkingPC
  <1>16. XLinking'
    <2> SUFFICES ASSUME NEW y \in Event, pc'[y] \in XLinkingPC
                 PROVE  \/ t'[y] \in OnList /\ next'[t'[y]] = e'[y] /\ ev[t'[y]] = "nil"
                        \/ t'[y] \notin OnList /\ e'[y] \notin OnList
      BY <1>1, <1>7 DEF XLinking
    <2>1. y # x /\ pc[y] \in XLinkingPC /\ e'[y] = e[y] /\ t'[y] = t[y] /\ e[y] \in Node
      BY <1>0, <1>5, <1>8 DEF XOwned
    <2>2. t[y] \in OnList /\ next[t[y]] = e[y] => t[y] # head /\ t[y] # n
      BY <1>2, <1>3, <1>4, <2>1
    <2> QED
      BY <1>0, <1>4, <1>6, <2>1, <2>2 DEF XLinking
  <1>17. XSwinging'
    <2>1. \A y \in Event : pc[y] = "push_swing" => e[y] \in Node
      BY <1>0 DEF XOwned, XLinkingPC
    <2> QED
      BY <1>0, <1>1, <1>4, <1>5, <1>7, <1>8, <2>1 DEF XSwinging
  <1>18. XPopping'
    <2>1. \A y \in Event : pc'[y] \notin XAtHeadPC
      BY <1>2, <1>5, <1>8 DEF XHolds, Popping, XAtHeadPC
    <2> QED
      BY <2>1 DEF XPopping, XAtHeadPC
  <1>19. \A y \in Event, m \in Node : ~XUnlinks(y, m) /\ ~XUnlinks(y, m)'
    BY <1>2, <1>5, <1>8 DEF XUnlinks, XHolds, Popping, XUnlinkingPC
  <1>20. XUnlinked'
    BY <1>2, <1>5, <1>8 DEF XUnlinked, XHolds, Popping, XUnlinkingPC
  <1>21. \A m \in Node : XLive(m)' <=> XLive(m)
    BY <1>7, <1>19 DEF XLive
  <1>22. XWaiters'
    <2>1. ev[head] = "nil"
      BY <1>0, <1>2, <1>4 DEF XWaiters
    <2>2. \A m \in Node : ev[m] \in Event \/ ev[m] = "nil"
      BY XKnown
    <2>3. \A m \in Node : XLive(m)' /\ ev'[m] # "nil" => pc'[ev'[m]] = "wait"
      BY <1>0, <1>1, <1>5, <1>21, <2>2 DEF XWaiters
    <2>4. \A m \in OnList : ev[m] # "nil" => next'[m] \in Node
      BY <1>0, <1>2, <1>3, <1>4, <1>6, <2>1 DEF XWaiters
    <2> QED
      BY <1>0, <1>1, <1>7, <1>19, <1>21, <2>3, <2>4 DEF XWaiters
  <1> QED
    BY <1>9, <1>10, <1>11, <1>12, <1>13, <1>14, <1>15, <1>16, <1>17, <1>18, <1>20, <1>22 DEF XInv

\* A holder is linked behind one that has no next: on the list that is the tail.
LEMMA XLinks == ASSUME XInv, NEW x \in Event, PushLink(x), next[t[x]] = "nil" PROVE XInv'
  <1>0. XTypes /\ XHolders /\ XMarks /\ XOrder /\ XOwned /\ XPrivate /\ XPointers /\ XLinking /\ XSwinging
        /\ XPopping /\ XUnlinked /\ XWaiters
    BY DEF XInv
  <1>1. /\ pc[x] = "push_link" /\ pc' = [pc EXCEPT ![x] = "push_swing"]
        /\ next' = [next EXCEPT ![t[x]] = e[x]]
        /\ head' = head /\ tail' = tail /\ ev' = ev /\ free' = free
        /\ h' = h /\ t' = t /\ hn' = hn /\ e' = e
    BY DEF PushLink, Goto, XLocal
  <1>2. PICK k \in Node : k = e[x]
    BY <1>0, <1>1 DEF XOwned, XPrivatePC
  <1>3. PICK u \in Node : u = t[x]
    BY <1>0, <1>1 DEF XPointers
  <1>4. /\ k \notin OnList /\ k \notin free /\ next[k] = "nil" /\ ev[k] = "nil" /\ u # k /\ next[u] = "nil"
        /\ \A y \in Event : h[y] # k /\ t[y] # k
        /\ \A y \in Event : e[y] = k => y = x
    BY <1>0, <1>1, <1>2, <1>3 DEF XOwned, XPrivate, XPrivatePC
  <1>5. OnList \subseteq Node /\ head \in OnList /\ head \in Node /\ "nil" \notin Node
        /\ (\A m \in OnList : next[m] \in Node => next[m] \in OnList)
    BY XKnown
  <1>6. /\ pc'[x] = "push_swing" /\ \A y \in Event : y # x => pc'[y] = pc[y]
        /\ next'[u] = k /\ \A m \in Node : m # u => next'[m] = next[m]
    BY <1>1, <1>2, <1>3, XKnown
  <1>7. /\ OnList' = IF u \in OnList THEN OnList \cup {k} ELSE OnList
        /\ \A m \in Node : m # k => (m \in OnList' <=> m \in OnList)
    <2>1. CASE u \in OnList
      <3>1. /\ next[u] \notin Node /\ next'[k] \notin Node
            /\ \A m \in OnList : m # u => next'[m] = next[m]
        BY <1>4, <1>5, <1>6
      <3>2. ListFrom(next', head) = ListFrom(next, head) \cup {k}
        BY <1>5, <1>6, <2>1, <3>1, ListGrows DEF OnList
      <3>3. OnList' = OnList \cup {k}
        BY <1>1, <3>2 DEF OnList
      <3> QED
        BY <2>1, <3>3
    <2>2. CASE u \notin OnList
      <3>1. \A m \in OnList : next'[m] = next[m]
        BY <1>5, <1>6, <2>2
      <3>2. ListFrom(next', head) = ListFrom(next, head)
        BY <1>5, <3>1, ListStays DEF OnList
      <3>3. OnList' = OnList
        BY <1>1, <3>2 DEF OnList
      <3> QED
        BY <2>2, <3>3
    <2> QED
      BY <2>1, <2>2
  <1>8. u \in OnList => u = tail /\ ev[u] = "nil"
    <2> SUFFICES ASSUME u \in OnList PROVE u = tail /\ ev[u] = "nil"
      OBVIOUS
    <2>1. next[u] \notin Node
      BY <1>4, <1>5
    <2>2. \A y \in Event : pc[y] = "push_swing" => e[y] # u
      BY <1>0, <1>3 DEF XSwinging
    <2>3. u = tail
      BY <1>0, <2>1, <2>2 DEF XOrder
    <2>4. ev[u] = "nil"
      BY <1>0, <2>1 DEF XWaiters
    <2> QED
      BY <2>3, <2>4
  <1>9. \A y \in Event : pc'[y] \in XPrivatePC \cup XUnlinkingPC \cup XAtHeadPC \cup {"pop_grant"} => y # x
    BY <1>6 DEF XPrivatePC, XUnlinkingPC, XAtHeadPC
  <1>10. XTypes'
    <2>1. next' \in [Node -> Node \cup {"nil", "one", "three"}]
      BY <1>0, <1>1, <1>2 DEF XTypes, XTypeOK
    <2> QED
      BY <1>0, <1>1, <2>1 DEF XTypes, XTypeOK
  <1>11. XHolders'
    <2>1. \A y \in Event : XHolds(y)' <=> XHolds(y)
      BY <1>1, <1>6 DEF XHolds, Popping
    <2>2. next'[head] = "one" <=> next[head] = "one"
      BY <1>4, <1>5, <1>6, LFExclusiveAssumption
    <2> QED
      BY <1>0, <1>1, <2>1, <2>2 DEF XHolders
  <1>12. XMarks'
    <2>1. \A m \in Node : (next'[m] = "one" <=> next[m] = "one") /\ (next'[m] = "three" <=> next[m] = "three")
      BY <1>4, <1>6, LFExclusiveAssumption
    <2> QED
      BY <1>0, <1>1, <1>4, <1>5, <1>7, <2>1 DEF XMarks
  <1>13. XOrder'
    <2>1. tail \in OnList' /\ next'[k] = "nil"
      BY <1>0, <1>4, <1>6, <1>7 DEF XOrder
    <2>2. \A m \in OnList' : next'[m] # head
      BY <1>0, <1>4, <1>5, <1>6, <1>7 DEF XOrder
    <2>3. ASSUME NEW m \in OnList', NEW n \in OnList', next'[m] \in Node, next'[m] = next'[n]
          PROVE  m = n
      <3>1. m # k /\ n # k /\ m \in OnList /\ n \in OnList
        BY <1>5, <1>7, <2>1, <2>3
      <3>2. m = u \/ n = u => m = n
        BY <1>4, <1>5, <1>6, <2>3, <3>1
      <3>3. m # u /\ n # u => m = n
        BY <1>0, <1>5, <1>6, <2>3, <3>1 DEF XOrder
      <3> QED
        BY <3>2, <3>3
    <2>4. ASSUME NEW m \in OnList', next'[m] \notin Node, m # tail
          PROVE  \E y \in Event : pc'[y] = "push_swing" /\ e[y] = m
      <3>1. CASE m = k
        BY <1>2, <1>6, <3>1
      <3>2. CASE m # k
        <4>1. m \in OnList /\ m # u /\ next[m] \notin Node
          BY <1>5, <1>6, <1>7, <2>4, <3>2
        <4>2. PICK y \in Event : pc[y] = "push_swing" /\ e[y] = m
          BY <1>0, <2>4, <4>1 DEF XOrder
        <4>3. y # x
          BY <1>1, <4>2
        <4> QED
          BY <1>6, <4>2, <4>3
      <3> QED
        BY <3>1, <3>2
    <2> QED
      BY <1>1, <2>1, <2>2, <2>3, <2>4 DEF XOrder
  <1>14. XOwned'
    <2>1. \A y \in Event : (e[y] \in Node) <=> (pc'[y] \in XPrivatePC \cup XLinkingPC \cup {"pop_grant"})
      BY <1>0, <1>2, <1>6 DEF XOwned, XLinkingPC
    <2>2. \A y \in Event : pc'[y] \in XPrivatePC \cup {"pop_grant"} => e[y] \notin OnList'
      BY <1>0, <1>4, <1>6, <1>7, <1>9 DEF XOwned
    <2>3. \A m \in OnList' : m \notin free
      BY <1>0, <1>4, <1>7 DEF XOwned
    <2>4. XOwned
      BY <1>0
    <2> QED
      BY <1>1, <2>1, <2>2, <2>3, <2>4 DEF XOwned
  <1>15. XPrivate'
    <2> SUFFICES ASSUME NEW y \in Event, pc'[y] \in XPrivatePC
                 PROVE  /\ next'[e[y]] = "nil" /\ ev[e[y]] = "nil"
                        /\ \A z \in Event : h[z] # e[y] /\ t[z] # e[y]
      BY <1>1 DEF XPrivate
    <2>1. y # x /\ pc[y] \in XPrivatePC
      BY <1>6, <1>9
    <2>2. /\ next[e[y]] = "nil" /\ ev[e[y]] = "nil" /\ e[y] \in Node
          /\ \A z \in Event : h[z] # e[y] /\ t[z] # e[y]
      BY <1>0, <2>1 DEF XPrivate, XOwned
    <2> QED
      BY <1>3, <1>6, <2>2
  <1>16. XPointers'
    BY <1>0, <1>1, <1>3, <1>6, <1>9 DEF XPointers
  <1>17. XLinking'
    <2> SUFFICES ASSUME NEW y \in Event, pc'[y] \in XLinkingPC
                 PROVE  \/ t[y] \in OnList' /\ next'[t[y]] = e[y] /\ ev[t[y]] = "nil"
                        \/ t[y] \notin OnList' /\ e[y] \notin OnList'
      BY <1>1 DEF XLinking
    <2>1. CASE y = x
      BY <1>2, <1>3, <1>4, <1>6, <1>7, <1>8, <2>1
    <2>2. CASE y # x
      <3>1. pc[y] \in XLinkingPC /\ e[y] \in Node /\ e[y] # k /\ t[y] # k /\ t[y] \in Node
        BY <1>0, <1>4, <1>6, <2>2 DEF XOwned, XPointers
      <3>2. next[t[y]] = e[y] => t[y] # u
        BY <1>4, <1>5, <3>1
      <3> QED
        BY <1>0, <1>6, <1>7, <3>1, <3>2 DEF XLinking
    <2> QED
      BY <2>1, <2>2
  <1>18. XSwinging'
    <2> SUFFICES ASSUME NEW y \in Event, pc'[y] = "push_swing"
                 PROVE  /\ tail # e[y] /\ (\A z \in Event : t[z] # e[y])
                        /\ t[y] \in OnList' => tail = t[y]
      BY <1>1 DEF XSwinging
    <2>1. CASE y = x
      BY <1>0, <1>2, <1>3, <1>4, <1>7, <1>8, <2>1 DEF XOrder
    <2>2. CASE y # x
      <3>1. pc[y] = "push_swing" /\ t[y] # k /\ t[y] \in Node
        BY <1>0, <1>4, <1>6, <2>2 DEF XPointers, XLinkingPC
      <3> QED
        BY <1>0, <1>7, <3>1 DEF XSwinging
    <2> QED
      BY <2>1, <2>2
  <1>19. XPopping'
    <2>1. \A m \in Node : next[head] = m => next'[head] = m
      BY <1>4, <1>5, <1>6
    <2> QED
      BY <1>0, <1>1, <1>6, <1>9, <2>1 DEF XPopping, XAtHeadPC
  <1>20. XUnlinked'
    BY <1>0, <1>1, <1>4, <1>6, <1>7, <1>9 DEF XUnlinked
  <1>21. /\ \A y \in Event, m \in Node : XUnlinks(y, m)' <=> XUnlinks(y, m)
         /\ \A m \in Node : XLive(m)' => XLive(m) \/ m = k
    <2>1. \A y \in Event, m \in Node : XUnlinks(y, m)' <=> XUnlinks(y, m)
      BY <1>1, <1>6 DEF XUnlinks, XUnlinkingPC
    <2> QED
      BY <1>7, <2>1 DEF XLive
  <1>22. XWaiters'
    <2>1. \A m \in Node : ev[m] \in Event \/ ev[m] = "nil"
      BY XKnown
    <2>2. \A m \in Node : XLive(m)' /\ ev[m] # "nil" => XLive(m) /\ pc'[ev[m]] = "wait"
      BY <1>0, <1>1, <1>4, <1>6, <1>21, <2>1 DEF XWaiters
    <2>3. \A m \in OnList' : ev[m] # "nil" => next'[m] \in Node
      BY <1>0, <1>4, <1>5, <1>6, <1>7 DEF XWaiters
    <2> QED
      BY <1>0, <1>1, <1>21, <2>2, <2>3 DEF XWaiters
  <1> QED
    BY <1>10, <1>11, <1>12, <1>13, <1>14, <1>15, <1>16, <1>17, <1>18, <1>19, <1>20, <1>22 DEF XInv

\* The tail follows to the holder that was linked behind it.
LEMMA XSwings == ASSUME XInv, NEW x \in Event, PushSwing(x) PROVE XInv'
  <1>0. XTypes /\ XHolders /\ XMarks /\ XOrder /\ XOwned /\ XPrivate /\ XPointers /\ XLinking /\ XSwinging
        /\ XPopping /\ XUnlinked /\ XWaiters
    BY DEF XInv
  <1>1. /\ pc[x] = "push_swing" /\ pc' = [pc EXCEPT ![x] = "push_ev"]
        /\ tail' = IF tail = t[x] THEN e[x] ELSE tail
        /\ head' = head /\ next' = next /\ ev' = ev /\ free' = free
        /\ h' = h /\ t' = t /\ hn' = hn /\ e' = e
    BY DEF PushSwing, Goto, XLocal
  <1>2. /\ OnList' = OnList /\ OnList \subseteq Node /\ head \in OnList
        /\ (\A m \in OnList : next[m] \in Node => next[m] \in OnList)
    BY <1>1, XKnown DEF OnList
  <1>3. /\ pc'[x] = "push_ev" /\ \A y \in Event : y # x => pc'[y] = pc[y]
    BY <1>1, XKnown
  <1>4. e[x] \in Node /\ pc[x] \in XLinkingPC
    BY <1>0, <1>1 DEF XOwned, XLinkingPC
  <1>5. tail = t[x] => e[x] \in OnList /\ next[tail] = e[x] /\ e[x] # head
    BY <1>0, <1>2, <1>4 DEF XLinking, XOrder
  <1>6. e[x] \in OnList => tail = t[x]
    BY <1>0, <1>1, <1>4 DEF XLinking, XSwinging
  <1>7. \A y \in Event : pc'[y] \in {"push_swing", "pop_grant"} \cup XPrivatePC \cup XUnlinkingPC \cup XAtHeadPC
                          => y # x
    BY <1>3 DEF XPrivatePC, XUnlinkingPC, XAtHeadPC
  <1>8. XTypes'
    BY <1>0, <1>1, <1>4 DEF XTypes, XTypeOK
  <1>9. XHolders' /\ XMarks'
    <2>1. \A y \in Event : XHolds(y)' <=> XHolds(y)
      BY <1>1, <1>3 DEF XHolds, Popping
    <2> QED
      BY <1>0, <1>1, <1>2, <2>1 DEF XHolders, XMarks
  <1>10. XOrder'
    <2>1. tail' \in OnList
      BY <1>0, <1>1, <1>5 DEF XOrder
    <2>2. ASSUME NEW m \in OnList, next[m] \notin Node, m # tail'
          PROVE  \E y \in Event : pc'[y] = "push_swing" /\ e[y] = m
      <3>1. m # tail
        BY <1>1, <1>4, <1>5, <2>2
      <3>2. PICK y \in Event : pc[y] = "push_swing" /\ e[y] = m
        BY <1>0, <2>2, <3>1 DEF XOrder
      <3>3. y # x
        BY <1>1, <1>6, <2>2, <3>2
      <3> QED
        BY <1>3, <3>2, <3>3
    <2> QED
      BY <1>0, <1>1, <1>2, <2>1, <2>2 DEF XOrder
  <1>11. XOwned'
    <2>1. \A y \in Event : (e[y] \in Node) <=> (pc'[y] \in XPrivatePC \cup XLinkingPC \cup {"pop_grant"})
      BY <1>0, <1>3, <1>4 DEF XOwned, XLinkingPC
    <2>2. \A y \in Event : pc'[y] \in XPrivatePC \cup {"pop_grant"} => e[y] \notin OnList
      BY <1>0, <1>3, <1>7 DEF XOwned
    <2> QED
      BY <1>0, <1>1, <1>2, <2>1, <2>2 DEF XOwned
  <1>12. XPrivate'
    BY <1>0, <1>1, <1>3, <1>7 DEF XPrivate
  <1>13. XPointers'
    BY <1>0, <1>1, <1>3, <1>4 DEF XPointers, XAtHeadPC
  <1>14. XLinking'
    <2>1. \A y \in Event : pc'[y] \in XLinkingPC => pc[y] \in XLinkingPC
      BY <1>3, <1>4
    <2> QED
      BY <1>0, <1>1, <1>2, <2>1 DEF XLinking
  <1>15. XSwinging'
    <2> SUFFICES ASSUME NEW y \in Event, pc'[y] = "push_swing"
                 PROVE  /\ tail' # e[y] /\ (\A z \in Event : t[z] # e[y])
                        /\ t[y] \in OnList => tail' = t[y]
      BY <1>1, <1>2 DEF XSwinging
    <2>1. y # x /\ pc[y] = "push_swing" /\ e[y] # e[x] /\ pc[y] \in XLinkingPC
      BY <1>0, <1>3, <1>4, <1>7 DEF XOwned, XLinkingPC
    <2>2. tail # e[y] /\ (\A z \in Event : t[z] # e[y]) /\ (t[y] \in OnList => tail = t[y])
      BY <1>0, <2>1 DEF XSwinging
    <2>3. t[y] \in OnList => tail # t[x]
      BY <1>0, <1>5, <2>1, <2>2 DEF XLinking
    <2> QED
      BY <1>1, <2>1, <2>2, <2>3
  <1>16. XPopping'
    <2>1. head # tail => head # tail'
      BY <1>1, <1>5
    <2> QED
      BY <1>0, <1>1, <1>3, <1>7, <2>1 DEF XPopping, XAtHeadPC
  <1>17. XUnlinked'
    BY <1>0, <1>1, <1>2, <1>3, <1>7 DEF XUnlinked
  <1>18. /\ \A y \in Event, m \in Node : XUnlinks(y, m)' <=> XUnlinks(y, m)
         /\ \A m \in Node : XLive(m)' <=> XLive(m)
    <2>1. \A y \in Event, m \in Node : XUnlinks(y, m)' <=> XUnlinks(y, m)
      BY <1>1, <1>3 DEF XUnlinks, XUnlinkingPC
    <2> QED
      BY <1>2, <2>1 DEF XLive
  <1>19. XWaiters'
    <2>1. \A m \in Node : ev[m] \in Event \/ ev[m] = "nil"
      BY XKnown
    <2>2. \A m \in Node : XLive(m) /\ ev[m] # "nil" => pc'[ev[m]] = "wait"
      BY <1>0, <1>1, <1>3, <2>1 DEF XWaiters
    <2> QED
      BY <1>0, <1>1, <1>2, <1>18, <2>2 DEF XWaiters
  <1> QED
    BY <1>8, <1>9, <1>10, <1>11, <1>12, <1>13, <1>14, <1>15, <1>16, <1>17, <1>19 DEF XInv

\* The event goes into the holder that was the tail, and waits there.
LEMMA XWaits == ASSUME XInv, NEW x \in Event, PushEvent(x) PROVE XInv'
  <1>0. XTypes /\ XHolders /\ XMarks /\ XOrder /\ XOwned /\ XPrivate /\ XPointers /\ XLinking /\ XSwinging
        /\ XPopping /\ XUnlinked /\ XWaiters
    BY DEF XInv
  <1>1. /\ pc[x] = "push_ev" /\ pc' = [pc EXCEPT ![x] = "wait"]
        /\ ev' = [ev EXCEPT ![t[x]] = x] /\ e' = [e EXCEPT ![x] = "nil"]
        /\ h' = [h EXCEPT ![x] = "nil"] /\ t' = [t EXCEPT ![x] = "nil"]
        /\ head' = head /\ tail' = tail /\ next' = next /\ free' = free /\ hn' = hn
    BY DEF PushEvent, Goto, ReleaseHazards
  <1>2. /\ OnList' = OnList /\ OnList \subseteq Node /\ head \in OnList /\ "nil" \notin Node /\ x # "nil"
    BY <1>1, XKnown DEF OnList
  <1>3. PICK u \in Node : u = t[x]
    BY <1>0, <1>1 DEF XPointers, XLinkingPC
  <1>4. /\ pc'[x] = "wait" /\ \A y \in Event : y # x => pc'[y] = pc[y]
        /\ e'[x] = "nil" /\ \A y \in Event : y # x => e'[y] = e[y]
        /\ h'[x] = "nil" /\ \A y \in Event : y # x => h'[y] = h[y]
        /\ t'[x] = "nil" /\ \A y \in Event : y # x => t'[y] = t[y]
        /\ ev'[u] = x /\ \A m \in Node : m # u => ev'[m] = ev[m]
    BY <1>1, <1>3, XKnown
  <1>5. e[x] \in Node /\ pc[x] \in XLinkingPC
    BY <1>0, <1>1 DEF XOwned, XLinkingPC
  <1>6. \A y \in Event : pc'[y] \in {"push_swing", "pop_grant", "push_tn", "push_link", "pop_tn"}
                            \cup XPrivatePC \cup XLinkingPC \cup XUnlinkingPC \cup XAtHeadPC => y # x
    BY <1>4 DEF XPrivatePC, XLinkingPC, XUnlinkingPC, XAtHeadPC
  <1>7. XTypes'
    BY <1>0, <1>1, <1>3 DEF XTypes, XTypeOK
  <1>8. XHolders' /\ XMarks'
    <2>1. \A y \in Event : XHolds(y)' <=> XHolds(y)
      BY <1>1, <1>4 DEF XHolds, Popping
    <2> QED
      BY <1>0, <1>1, <1>2, <2>1 DEF XHolders, XMarks
  <1>9. XOrder'
    <2>1. ASSUME NEW m \in OnList, next[m] \notin Node, m # tail
          PROVE  \E y \in Event : pc'[y] = "push_swing" /\ e'[y] = m
      <3>1. PICK y \in Event : pc[y] = "push_swing" /\ e[y] = m
        BY <1>0, <2>1 DEF XOrder
      <3>2. y # x
        BY <1>1, <3>1
      <3> QED
        BY <1>4, <3>1, <3>2
    <2> QED
      BY <1>0, <1>1, <1>2, <2>1 DEF XOrder
  <1>10. XOwned'
    <2>1. \A y \in Event : (e'[y] \in Node) <=> (pc'[y] \in XPrivatePC \cup XLinkingPC \cup {"pop_grant"})
      BY <1>0, <1>2, <1>4, <1>6 DEF XOwned
    <2>2. \A y \in Event : pc'[y] \in XPrivatePC \cup {"pop_grant"} => e'[y] \notin OnList
      BY <1>0, <1>4, <1>6 DEF XOwned
    <2>3. \A y, z \in Event : e'[y] \in Node /\ e'[y] = e'[z] => y = z
      BY <1>0, <1>2, <1>4 DEF XOwned
    <2>4. \A y \in Event : e'[y] \notin free
      BY <1>0, <1>2, <1>4 DEF XOwned, XTypes, XTypeOK
    <2> QED
      BY <1>0, <1>1, <1>2, <2>1, <2>2, <2>3, <2>4 DEF XOwned
  <1>11. XPrivate'
    <2> SUFFICES ASSUME NEW y \in Event, pc'[y] \in XPrivatePC
                 PROVE  /\ next[e'[y]] = "nil" /\ ev'[e'[y]] = "nil"
                        /\ \A z \in Event : h'[z] # e'[y] /\ t'[z] # e'[y]
      BY <1>1 DEF XPrivate
    <2>1. y # x /\ pc[y] \in XPrivatePC /\ e'[y] = e[y]
      BY <1>4, <1>6
    <2>2. /\ next[e[y]] = "nil" /\ ev[e[y]] = "nil" /\ e[y] \in Node
          /\ \A z \in Event : h[z] # e[y] /\ t[z] # e[y]
      BY <1>0, <2>1 DEF XPrivate, XOwned
    <2> QED
      BY <1>2, <1>3, <1>4, <2>1, <2>2
  <1>12. XPointers'
    BY <1>0, <1>1, <1>4, <1>6 DEF XPointers, XPrivatePC
  <1>13. XLinking'
    <2> SUFFICES ASSUME NEW y \in Event, pc'[y] \in XLinkingPC
                 PROVE  \/ t'[y] \in OnList /\ next[t'[y]] = e'[y] /\ ev'[t'[y]] = "nil"
                        \/ t'[y] \notin OnList /\ e'[y] \notin OnList
      BY <1>1, <1>2 DEF XLinking
    <2>1. y # x /\ pc[y] \in XLinkingPC /\ e'[y] = e[y] /\ t'[y] = t[y] /\ e[y] \in Node /\ e[y] # e[x]
      BY <1>0, <1>4, <1>5, <1>6 DEF XOwned
    <2>2. t[y] \in OnList /\ next[t[y]] = e[y] => t[y] # u
      BY <1>0, <1>3, <1>5, <2>1 DEF XLinking
    <2> QED
      BY <1>0, <1>2, <1>4, <2>1, <2>2 DEF XLinking
  <1>14. XSwinging'
    <2> SUFFICES ASSUME NEW y \in Event, pc'[y] = "push_swing"
                 PROVE  /\ tail # e'[y] /\ (\A z \in Event : t'[z] # e'[y])
                        /\ t'[y] \in OnList => tail = t'[y]
      BY <1>1, <1>2 DEF XSwinging
    <2>1. y # x /\ pc[y] = "push_swing" /\ e'[y] = e[y] /\ t'[y] = t[y] /\ e[y] \in Node
      BY <1>0, <1>4, <1>6 DEF XOwned, XLinkingPC
    <2> QED
      BY <1>0, <1>2, <1>4, <2>1 DEF XSwinging
  <1>15. XPopping'
    <2>1. ev[head] # "nil" => ev'[head] # "nil"
      BY <1>2, <1>4
    <2> QED
      BY <1>0, <1>1, <1>4, <1>6, <2>1 DEF XPopping, XAtHeadPC
  <1>16. XUnlinked'
    BY <1>0, <1>1, <1>2, <1>4, <1>6 DEF XUnlinked
  <1>17. /\ \A y \in Event, m \in Node : XUnlinks(y, m)' <=> XUnlinks(y, m)
         /\ \A m \in Node : XLive(m)' <=> XLive(m)
    <2>1. \A y \in Event, m \in Node : XUnlinks(y, m)' <=> XUnlinks(y, m)
      BY <1>1, <1>4 DEF XUnlinks, XUnlinkingPC
    <2> QED
      BY <1>2, <2>1 DEF XLive
  <1>18. XWaiters'
    <2>1. \A m \in Node : ev[m] \in Event \/ ev[m] = "nil"
      BY XKnown
    <2>2. \A m \in Node : XLive(m) => ev[m] # x
      BY <1>0, <1>1, <1>2 DEF XWaiters
    <2>3. \A m \in Node : XLive(m) /\ ev'[m] # "nil" => pc'[ev'[m]] = "wait"
      BY <1>0, <1>4, <2>1, <2>2 DEF XWaiters
    <2>4. \A m, n \in Node : XLive(m) /\ XLive(n) /\ ev'[m] # "nil" /\ ev'[m] = ev'[n] => m = n
      BY <1>0, <1>4, <2>2 DEF XWaiters
    <2>5. \A m \in OnList : ev'[m] # "nil" => next[m] \in Node
      BY <1>0, <1>2, <1>3, <1>4, <1>5 DEF XWaiters, XLinking
    <2>6. \A y \in Event, m \in Node : XUnlinks(y, m) => ev'[m] # "nil"
      BY <1>0, <1>2, <1>4 DEF XWaiters
    <2> QED
      BY <1>1, <1>2, <1>17, <2>3, <2>4, <2>5, <2>6 DEF XWaiters
  <1> QED
    BY <1>7, <1>8, <1>9, <1>10, <1>11, <1>12, <1>13, <1>14, <1>15, <1>16, <1>18 DEF XInv

\* The head moves on, and who moved it has the holder that was the head.
LEMMA XUnlinksHead == ASSUME XInv, NEW x \in Event, PopUnlink(x), head = h[x] PROVE XInv'
  <1>0. XTypes /\ XHolders /\ XMarks /\ XOrder /\ XOwned /\ XPrivate /\ XPointers /\ XLinking /\ XSwinging
        /\ XPopping /\ XUnlinked /\ XWaiters
    BY DEF XInv
  <1>1. /\ pc[x] = "pop_unlink" /\ pc' = [pc EXCEPT ![x] = "pop_clear"] /\ head' = hn[x]
        /\ tail' = tail /\ next' = next /\ ev' = ev /\ free' = free
        /\ h' = h /\ t' = t /\ hn' = hn /\ e' = e
    BY DEF PopUnlink, Goto, XLocal
  <1>a. \A y \in Event : XHolds(y) => y = x
    BY <1>0, <1>1 DEF XHolders, XHolds, Popping
  <1>b. \A y \in Event : pc[y] \in XUnlinkingPC \cup XAtHeadPC \cup {"pop_grant"} => y = x
    BY <1>a DEF XHolds, Popping, XUnlinkingPC, XAtHeadPC
  <1>2. /\ OnList \subseteq Node /\ head \in OnList /\ head \in Node
        /\ (\A m \in OnList : next[m] \in Node => next[m] \in OnList)
        /\ "nil" \notin Node /\ "one" \notin Node
    BY XKnown
  <1>3. hn[x] \in Node /\ next[head] = hn[x] /\ head # tail /\ ev[head] # "nil" /\ hn[x] # head
    BY <1>0, <1>1, <1>2 DEF XPopping, XOrder
  <1>4. OnList' = OnList \ {head}
    <2>1. /\ \A m \in ListFrom(next, head) : next[m] # head
          /\ next[head] \in Node
      BY <1>0, <1>3 DEF XOrder, OnList
    <2>2. ListFrom(next, next[head]) = ListFrom(next, head) \ {head}
      BY <1>2, <2>1, ListDrops
    <2> QED
      BY <1>1, <1>3, <2>2 DEF OnList
  <1>5. /\ pc'[x] = "pop_clear" /\ \A y \in Event : y # x => pc'[y] = pc[y]
    BY <1>1, XKnown
  <1>6. \A y \in Event : e[y] # head
    BY <1>0, <1>2 DEF XOwned, XLinking, XOrder
  <1>7. \A y \in Event : pc'[y] \in {"push_swing", "pop_grant", "wait"}
                            \cup XPrivatePC \cup XLinkingPC \cup XAtHeadPC => y # x
    BY <1>5 DEF XPrivatePC, XLinkingPC, XAtHeadPC
  <1>8. XTypes'
    BY <1>0, <1>1, <1>3 DEF XTypes, XTypeOK
  <1>9. XHolders'
    <2>1. \A y \in Event : XHolds(y)' <=> XHolds(y)
      BY <1>1, <1>5 DEF XHolds, Popping
    <2>2. next[hn[x]] # "one" /\ XHolds(x)
      BY <1>0, <1>1, <1>3 DEF XMarks, XHolds, Popping
    <2> QED
      BY <1>0, <1>1, <2>1, <2>2 DEF XHolders
  <1>10. XMarks'
    BY <1>0, <1>1, <1>2, <1>3, <1>4 DEF XMarks
  <1>11. XOrder'
    <2>1. \A m \in OnList \ {head} : next[m] # hn[x]
      BY <1>0, <1>2, <1>3 DEF XOrder
    <2>2. ASSUME NEW m \in OnList \ {head}, next[m] \notin Node, m # tail
          PROVE  \E y \in Event : pc'[y] = "push_swing" /\ e[y] = m
      <3>1. PICK y \in Event : pc[y] = "push_swing" /\ e[y] = m
        BY <1>0, <2>2 DEF XOrder
      <3>2. y # x
        BY <1>1, <3>1
      <3> QED
        BY <1>5, <3>1, <3>2
    <2> QED
      BY <1>0, <1>1, <1>3, <1>4, <2>1, <2>2 DEF XOrder
  <1>12. XOwned'
    <2>1. \A y \in Event : (e[y] \in Node) <=> (pc'[y] \in XPrivatePC \cup XLinkingPC \cup {"pop_grant"})
      BY <1>0, <1>1, <1>5 DEF XOwned, XPrivatePC, XLinkingPC
    <2> QED
      BY <1>0, <1>1, <1>4, <1>5, <1>7, <2>1 DEF XOwned
  <1>13. XPrivate'
    BY <1>0, <1>1, <1>5, <1>7 DEF XPrivate
  <1>14. XPointers'
    BY <1>0, <1>1, <1>5 DEF XPointers, XAtHeadPC, XLinkingPC
  <1>15. XLinking'
    BY <1>0, <1>1, <1>3, <1>4, <1>5, <1>7 DEF XLinking
  <1>16. XSwinging'
    BY <1>0, <1>1, <1>4, <1>5, <1>7 DEF XSwinging
  <1>17. XPopping'
    <2>1. \A y \in Event : pc'[y] \notin XAtHeadPC
      BY <1>b, <1>5, <1>7
    <2> QED
      BY <2>1 DEF XPopping, XAtHeadPC
  <1>18. XUnlinked'
    <2>1. \A y \in Event : pc'[y] \in XUnlinkingPC => y = x
      BY <1>b, <1>5
    <2>2. head \notin free
      BY <1>0, <1>2 DEF XOwned
    <2> QED
      BY <1>1, <1>2, <1>4, <1>6, <2>1, <2>2 DEF XUnlinked
  <1>19. \A y \in Event, m \in Node : /\ XUnlinks(y, m)' <=> y = x /\ m = head
                                      /\ ~XUnlinks(y, m)
    BY <1>b, <1>1, <1>5 DEF XUnlinks, XUnlinkingPC
  <1>20. \A m \in Node : XLive(m)' <=> XLive(m)
    BY <1>2, <1>4, <1>19 DEF XLive
  <1>21. XWaiters'
    <2>1. \A m \in Node : ev[m] \in Event \/ ev[m] = "nil"
      BY XKnown
    <2>2. \A m \in Node : XLive(m) /\ ev[m] # "nil" => pc'[ev[m]] = "wait"
      BY <1>0, <1>1, <1>5, <2>1 DEF XWaiters
    <2> QED
      BY <1>0, <1>1, <1>3, <1>4, <1>19, <1>20, <2>2 DEF XWaiters
  <1> QED
    BY <1>8, <1>9, <1>10, <1>11, <1>12, <1>13, <1>14, <1>15, <1>16, <1>17, <1>18, <1>21 DEF XInv

\* The pointer of the unlinked holder is cleared.
LEMMA XClears == ASSUME XInv, NEW x \in Event, PopClear(x) PROVE XInv'
  <1>0. XTypes /\ XHolders /\ XMarks /\ XOrder /\ XOwned /\ XPrivate /\ XPointers /\ XLinking /\ XSwinging
        /\ XPopping /\ XUnlinked /\ XWaiters
    BY DEF XInv
  <1>1. /\ pc[x] = "pop_clear" /\ pc' = [pc EXCEPT ![x] = "pop_three"]
        /\ next' = [next EXCEPT ![h[x]] = "nil"]
        /\ head' = head /\ tail' = tail /\ ev' = ev /\ free' = free
        /\ h' = h /\ t' = t /\ hn' = hn /\ e' = e
    BY DEF PopClear, Goto, XLocal
  <1>a. \A y \in Event : XHolds(y) => y = x
    BY <1>0, <1>1 DEF XHolders, XHolds, Popping
  <1>b. \A y \in Event : pc[y] \in XUnlinkingPC \cup XAtHeadPC \cup {"pop_grant"} => y = x
    BY <1>a DEF XHolds, Popping, XUnlinkingPC, XAtHeadPC
  <1>2. /\ OnList \subseteq Node /\ head \in OnList /\ head \in Node /\ "nil" \notin Node
    BY XKnown
  <1>3. PICK u \in Node : u = h[x] /\ u \notin OnList /\ u \notin free /\ \A y \in Event : e[y] # u
    BY <1>0, <1>1 DEF XUnlinked, XUnlinkingPC
  <1>4. /\ pc'[x] = "pop_three" /\ \A y \in Event : y # x => pc'[y] = pc[y]
        /\ next'[u] = "nil" /\ \A m \in Node : m # u => next'[m] = next[m]
    BY <1>1, <1>3, XKnown
  <1>5. OnList' = OnList
    <2>1. \A m \in OnList : next'[m] = next[m]
      BY <1>2, <1>3, <1>4
    <2>2. ListFrom(next', head) = ListFrom(next, head)
      BY <1>2, <2>1, ListStays DEF OnList
    <2> QED
      BY <1>1, <2>2 DEF OnList
  <1>6. \A y \in Event : /\ pc'[y] \in XPrivatePC <=> pc[y] \in XPrivatePC
                         /\ pc'[y] \in XLinkingPC <=> pc[y] \in XLinkingPC
                         /\ pc'[y] \in XUnlinkingPC <=> pc[y] \in XUnlinkingPC
                         /\ pc'[y] \in XAtHeadPC <=> pc[y] \in XAtHeadPC
    BY <1>1, <1>4 DEF XPrivatePC, XLinkingPC, XUnlinkingPC, XAtHeadPC
  <1>7. \A y \in Event : /\ pc'[y] = "push_swing" <=> pc[y] = "push_swing"
                         /\ pc'[y] = "pop_grant" <=> pc[y] = "pop_grant"
                         /\ pc'[y] = "wait" <=> pc[y] = "wait"
    BY <1>1, <1>4
  <1>8. XTypes'
    <2>1. next' \in [Node -> Node \cup {"nil", "one", "three"}]
      BY <1>0, <1>1 DEF XTypes, XTypeOK
    <2> QED
      BY <1>0, <1>1, <2>1 DEF XTypes, XTypeOK
  <1>9. XHolders'
    <2>1. \A y \in Event : XHolds(y)' <=> XHolds(y)
      BY <1>1, <1>4 DEF XHolds, Popping
    <2>2. next'[head] = next[head]
      BY <1>2, <1>3, <1>4
    <2> QED
      BY <1>0, <1>1, <2>1, <2>2 DEF XHolders
  <1>10. XMarks'
    BY <1>0, <1>1, <1>2, <1>3, <1>4, <1>5 DEF XMarks
  <1>11. XOrder'
    <2>1. \A m \in OnList : next'[m] = next[m]
      BY <1>2, <1>3, <1>4
    <2> QED
      BY <1>0, <1>1, <1>5, <1>7, <2>1 DEF XOrder
  <1>12. XOwned'
    <2>1. XOwned
      BY <1>0
    <2> QED
      BY <1>1, <1>5, <1>6, <1>7, <2>1 DEF XOwned
  <1>13. XPrivate'
    <2>1. \A y \in Event : pc[y] \in XPrivatePC => e[y] \in Node /\ next'[e[y]] = next[e[y]]
      BY <1>0, <1>3, <1>4 DEF XOwned
    <2> QED
      BY <1>0, <1>1, <1>6, <2>1 DEF XPrivate
  <1>14. XPointers'
    BY <1>0, <1>1, <1>4 DEF XPointers, XAtHeadPC, XLinkingPC
  <1>15. XLinking'
    <2>1. \A m \in OnList : next'[m] = next[m]
      BY <1>2, <1>3, <1>4
    <2> QED
      BY <1>0, <1>1, <1>5, <1>6, <2>1 DEF XLinking
  <1>16. XSwinging'
    BY <1>0, <1>1, <1>5, <1>7 DEF XSwinging
  <1>17. XPopping'
    <2>1. \A y \in Event : pc'[y] \notin XAtHeadPC
      BY <1>b, <1>1, <1>6 DEF XAtHeadPC
    <2> QED
      BY <2>1 DEF XPopping, XAtHeadPC
  <1>18. XUnlinked'
    BY <1>0, <1>1, <1>5, <1>6 DEF XUnlinked
  <1>19. /\ \A y \in Event, m \in Node : XUnlinks(y, m)' <=> XUnlinks(y, m)
         /\ \A m \in Node : XLive(m)' <=> XLive(m)
    <2>1. \A y \in Event, m \in Node : XUnlinks(y, m)' <=> XUnlinks(y, m)
      BY <1>1, <1>6, <1>7 DEF XUnlinks
    <2> QED
      BY <1>5, <2>1 DEF XLive
  <1>20. XWaiters'
    <2>1. \A m \in Node : ev[m] \in Event \/ ev[m] = "nil"
      BY XKnown
    <2>2. \A m \in OnList : next'[m] = next[m]
      BY <1>2, <1>3, <1>4
    <2>3. \A m \in Node : XLive(m) /\ ev[m] # "nil" => pc'[ev[m]] = "wait"
      BY <1>0, <1>7, <2>1 DEF XWaiters
    <2> QED
      BY <1>0, <1>1, <1>5, <1>19, <2>2, <2>3 DEF XWaiters
  <1> QED
    BY <1>8, <1>9, <1>10, <1>11, <1>12, <1>13, <1>14, <1>15, <1>16, <1>17, <1>18, <1>20 DEF XInv

\* The holder is marked dead, and kept in a local once no hazard names it.
LEMMA XMarksDead == ASSUME XInv, NEW x \in Event, PopMark(x) PROVE XInv'
  <1>0. XTypes /\ XHolders /\ XMarks /\ XOrder /\ XOwned /\ XPrivate /\ XPointers /\ XLinking /\ XSwinging
        /\ XPopping /\ XUnlinked /\ XWaiters
    BY DEF XInv
  <1>1. /\ pc[x] = "pop_three" /\ pc' = [pc EXCEPT ![x] = "pop_grant"]
        /\ next' = [next EXCEPT ![h[x]] = "three"] /\ e' = [e EXCEPT ![x] = h[x]]
        /\ h' = [h EXCEPT ![x] = "nil"] /\ t' = [t EXCEPT ![x] = "nil"]
        /\ head' = head /\ tail' = tail /\ ev' = ev /\ free' = free /\ hn' = hn
    BY DEF PopMark, Goto, ReleaseHazards
  <1>a. \A y \in Event : XHolds(y) => y = x
    BY <1>0, <1>1 DEF XHolders, XHolds, Popping
  <1>b. \A y \in Event : pc[y] \in XUnlinkingPC \cup XAtHeadPC \cup {"pop_grant"} => y = x
    BY <1>a DEF XHolds, Popping, XUnlinkingPC, XAtHeadPC
  <1>2. /\ OnList \subseteq Node /\ head \in OnList /\ head \in Node /\ "nil" \notin Node
        /\ "three" \notin Node
    BY XKnown
  <1>3. PICK u \in Node : u = h[x] /\ u \notin OnList /\ u \notin free /\ \A y \in Event : e[y] # u
    BY <1>0, <1>1 DEF XUnlinked, XUnlinkingPC
  <1>4. /\ pc'[x] = "pop_grant" /\ \A y \in Event : y # x => pc'[y] = pc[y]
        /\ e'[x] = u /\ \A y \in Event : y # x => e'[y] = e[y]
        /\ h'[x] = "nil" /\ \A y \in Event : y # x => h'[y] = h[y]
        /\ t'[x] = "nil" /\ \A y \in Event : y # x => t'[y] = t[y]
        /\ next'[u] = "three" /\ \A m \in Node : m # u => next'[m] = next[m]
    <2>1. pc'[x] = "pop_grant" /\ \A y \in Event : y # x => pc'[y] = pc[y]
      BY <1>1, XKnown
    <2>2. e'[x] = u /\ \A y \in Event : y # x => e'[y] = e[y]
      BY <1>1, <1>3, XKnown
    <2>3. h'[x] = "nil" /\ \A y \in Event : y # x => h'[y] = h[y]
      BY <1>1, XKnown
    <2>4. t'[x] = "nil" /\ \A y \in Event : y # x => t'[y] = t[y]
      BY <1>1, XKnown
    <2>5. next'[u] = "three" /\ \A m \in Node : m # u => next'[m] = next[m]
      BY <1>1, <1>3, XKnown
    <2> QED
      BY <2>1, <2>2, <2>3, <2>4, <2>5
  <1>5. OnList' = OnList /\ \A m \in OnList : next'[m] = next[m]
    <2>1. \A m \in OnList : next'[m] = next[m]
      BY <1>2, <1>3, <1>4
    <2>2. ListFrom(next', head) = ListFrom(next, head)
      BY <1>2, <2>1, ListStays DEF OnList
    <2> QED
      BY <1>1, <2>1, <2>2 DEF OnList
  <1>6. \A y \in Event : pc'[y] \in XPrivatePC \cup XLinkingPC \cup {"push_swing", "push_tn", "push_link", "pop_tn"}
          => y # x
    BY <1>4 DEF XPrivatePC, XLinkingPC
  <1>7. \A y \in Event : pc'[y] \notin XUnlinkingPC /\ pc'[y] \notin XAtHeadPC
    BY <1>b, <1>4 DEF XUnlinkingPC, XAtHeadPC
  <1>8. XTypes'
    <2>1. next' \in [Node -> Node \cup {"nil", "one", "three"}]
      BY <1>0, <1>1 DEF XTypes, XTypeOK
    <2>2. pc' = [y \in Event |-> pc'[y]]
      BY <1>0, <1>1 DEF XTypes
    <2>3. h' \in [Event -> Node \cup {"nil"}] /\ t' \in [Event -> Node \cup {"nil"}]
      BY <1>0, <1>1 DEF XTypes, XTypeOK
    <2>4. e' \in [Event -> Node \cup {"nil"}]
      BY <1>0, <1>1, <1>3 DEF XTypes, XTypeOK
    <2>5. /\ head' \in Node /\ tail' \in Node /\ ev' \in [Node -> Event \cup {"nil"}]
          /\ free' \subseteq Node /\ hn' \in [Event -> Node \cup {"nil", "one", "three"}]
      BY <1>0, <1>1 DEF XTypes, XTypeOK
    <2> QED
      BY <2>1, <2>2, <2>3, <2>4, <2>5 DEF XTypes, XTypeOK
  <1>9. XHolders'
    <2>1. \A y \in Event : XHolds(y)' <=> XHolds(y)
      BY <1>1, <1>4 DEF XHolds, Popping
    <2> QED
      BY <1>0, <1>1, <1>2, <1>5, <2>1 DEF XHolders
  <1>10. XMarks'
    BY <1>0, <1>1, <1>2, <1>3, <1>4, <1>5 DEF XMarks
  <1>11. XOrder'
    <2>1. ASSUME NEW m \in OnList, next[m] \notin Node, m # tail
          PROVE  \E y \in Event : pc'[y] = "push_swing" /\ e'[y] = m
      <3>1. PICK y \in Event : pc[y] = "push_swing" /\ e[y] = m
        BY <1>0, <2>1 DEF XOrder
      <3>2. y # x
        BY <1>1, <3>1
      <3> QED
        BY <1>4, <3>1, <3>2
    <2> QED
      BY <1>0, <1>1, <1>5, <2>1 DEF XOrder
  <1>12. XOwned'
    <2>1. \A y \in Event : (e'[y] \in Node) <=> (pc'[y] \in XPrivatePC \cup XLinkingPC \cup {"pop_grant"})
      BY <1>0, <1>3, <1>4 DEF XOwned
    <2>2. \A y \in Event : pc'[y] \in XPrivatePC \cup {"pop_grant"} => e'[y] \notin OnList
      BY <1>0, <1>3, <1>4 DEF XOwned
    <2>3. \A y, z \in Event : e'[y] \in Node /\ e'[y] = e'[z] => y = z
      BY <1>0, <1>3, <1>4 DEF XOwned
    <2>4. \A y \in Event : e'[y] \notin free
      BY <1>0, <1>3, <1>4 DEF XOwned
    <2> QED
      BY <1>0, <1>1, <1>5, <2>1, <2>2, <2>3, <2>4 DEF XOwned
  <1>13. XPrivate'
    <2> SUFFICES ASSUME NEW y \in Event, pc'[y] \in XPrivatePC
                 PROVE  /\ next'[e'[y]] = "nil" /\ ev[e'[y]] = "nil"
                        /\ \A z \in Event : h'[z] # e'[y] /\ t'[z] # e'[y]
      BY <1>1 DEF XPrivate
    <2>1. y # x /\ pc[y] \in XPrivatePC /\ e'[y] = e[y]
      BY <1>4, <1>6
    <2>2. /\ next[e[y]] = "nil" /\ ev[e[y]] = "nil" /\ e[y] \in Node
          /\ \A z \in Event : h[z] # e[y] /\ t[z] # e[y]
      BY <1>0, <2>1 DEF XPrivate, XOwned
    <2> QED
      BY <1>2, <1>3, <1>4, <2>1, <2>2
  <1>14. XPointers'
    BY <1>0, <1>1, <1>4, <1>6 DEF XPointers, XAtHeadPC
  <1>15. XLinking'
    <2>1. \A y \in Event : pc'[y] \in XLinkingPC => y # x /\ pc[y] \in XLinkingPC /\ e'[y] = e[y] /\ t'[y] = t[y]
      BY <1>4, <1>6
    <2> QED
      BY <1>0, <1>1, <1>5, <2>1 DEF XLinking
  <1>16. XSwinging'
    <2>1. \A y \in Event : pc'[y] = "push_swing" =>
            y # x /\ pc[y] = "push_swing" /\ e'[y] = e[y] /\ t'[y] = t[y] /\ e[y] \in Node
      BY <1>0, <1>4, <1>6 DEF XOwned, XLinkingPC
    <2> QED
      BY <1>0, <1>1, <1>2, <1>4, <1>5, <2>1 DEF XSwinging
  <1>17. XPopping' /\ XUnlinked'
    BY <1>7 DEF XPopping, XUnlinked, XAtHeadPC
  <1>18. /\ \A y \in Event, m \in Node : XUnlinks(y, m)' <=> XUnlinks(y, m)
         /\ \A m \in Node : XLive(m)' <=> XLive(m)
    <2>1. \A y \in Event, m \in Node : XUnlinks(y, m)' <=> XUnlinks(y, m)
      BY <1>1, <1>3, <1>4 DEF XUnlinks, XUnlinkingPC
    <2> QED
      BY <1>5, <2>1 DEF XLive
  <1>19. XWaiters'
    <2>1. \A m \in Node : ev[m] \in Event \/ ev[m] = "nil"
      BY XKnown
    <2>2. \A m \in Node : XLive(m) /\ ev[m] # "nil" => pc'[ev[m]] = "wait"
      BY <1>0, <1>1, <1>4, <2>1 DEF XWaiters
    <2> QED
      BY <1>0, <1>1, <1>5, <1>18, <2>2 DEF XWaiters
  <1> QED
    BY <1>8, <1>9, <1>10, <1>11, <1>12, <1>13, <1>14, <1>15, <1>16, <1>17, <1>19 DEF XInv

\* The event that waited in it runs, and the holder goes back.
LEMMA XGrants == ASSUME XInv, NEW x \in Event, PopGrant(x) PROVE XInv'
  <1>0. XTypes /\ XHolders /\ XMarks /\ XOrder /\ XOwned /\ XPrivate /\ XPointers /\ XLinking /\ XSwinging
        /\ XPopping /\ XUnlinked /\ XWaiters
    BY DEF XInv
  <1>1. /\ pc[x] = "pop_grant" /\ pc' = [pc EXCEPT ![x] = "idle", ![ev[e[x]]] = "run"]
        /\ free' = free \cup {e[x]} /\ e' = [e EXCEPT ![x] = "nil"]
        /\ head' = head /\ tail' = tail /\ next' = next /\ ev' = ev /\ h' = h /\ hn' = hn /\ t' = t
    BY DEF PopGrant
  <1>a. \A y \in Event : XHolds(y) => y = x
    BY <1>0, <1>1 DEF XHolders, XHolds, Popping
  <1>b. \A y \in Event : pc[y] \in XUnlinkingPC \cup XAtHeadPC \cup {"pop_grant"} => y = x
    BY <1>a DEF XHolds, Popping, XUnlinkingPC, XAtHeadPC
  <1>2. /\ OnList' = OnList /\ OnList \subseteq Node /\ head \in OnList /\ "nil" \notin Node
    BY <1>1, XKnown DEF OnList
  <1>3. PICK u \in Node : u = e[x] /\ u \notin OnList /\ XUnlinks(x, u) /\ XLive(u)
    BY <1>0, <1>1 DEF XOwned, XUnlinks, XLive
  <1>4. PICK z \in Event : z = ev[u] /\ pc[z] = "wait" /\ z # x /\ e[z] \notin Node
    <2>1. ev[u] # "nil" /\ ev[u] \in Event
      BY <1>0, <1>3, XKnown DEF XWaiters
    <2>2. pc[ev[u]] = "wait"
      BY <1>0, <1>3, <2>1 DEF XWaiters
    <2>3. e[ev[u]] \notin Node
      BY <1>0, <2>1, <2>2 DEF XOwned, XPrivatePC, XLinkingPC
    <2> QED
      BY <1>1, <2>1, <2>2, <2>3
  <1>5. /\ pc'[x] = "idle" /\ pc'[z] = "run" /\ \A y \in Event : y # x /\ y # z => pc'[y] = pc[y]
        /\ e'[x] = "nil" /\ \A y \in Event : y # x => e'[y] = e[y]
        /\ pc' = [y \in Event |-> pc'[y]]
    <2>1. pc' = [pc EXCEPT ![x] = "idle", ![z] = "run"]
      BY <1>1, <1>3, <1>4
    <2>2. pc = [y \in Event |-> pc[y]]
      BY <1>0 DEF XTypes
    <2>3. /\ pc'[x] = "idle" /\ pc'[z] = "run" /\ \A y \in Event : y # x /\ y # z => pc'[y] = pc[y]
          /\ pc' = [y \in Event |-> pc'[y]]
      BY <1>4, <2>1, <2>2
    <2>4. e' = [e EXCEPT ![x] = "nil"]
      BY <1>1
    <2>5. e = [y \in Event |-> e[y]]
      BY <1>0 DEF XTypes, XTypeOK
    <2>6. e'[x] = "nil" /\ \A y \in Event : y # x => e'[y] = e[y]
      BY <1>1, <2>4, <2>5
    <2> QED
      BY <2>3, <2>6
  <1>6. \A y \in Event : pc'[y] \in XPrivatePC \cup XLinkingPC \cup XUnlinkingPC \cup XAtHeadPC
                            \cup {"push_swing", "pop_grant", "push_tn", "push_link", "pop_tn", "wait"} => y # x /\ y # z
    BY <1>5 DEF XPrivatePC, XLinkingPC, XUnlinkingPC, XAtHeadPC
  <1>7. \A y \in Event : pc'[y] \notin XUnlinkingPC /\ pc'[y] \notin XAtHeadPC /\ pc'[y] # "pop_grant"
    BY <1>b, <1>5, <1>6
  <1>8. XTypes'
    <2>1. e' \in [Event -> Node \cup {"nil"}] /\ free' \subseteq Node
      BY <1>0, <1>1, <1>3 DEF XTypes, XTypeOK
    <2> QED
      BY <1>0, <1>1, <1>5, <2>1 DEF XTypes, XTypeOK
  <1>9. XHolders'
    <2>1. \A y \in Event : XHolds(y)' <=> y = z
      BY <1>a, <1>5 DEF XHolds, Popping
    <2>2. next[head] # "one"
      BY <1>0, <1>1 DEF XHolders, XHolds, Popping
    <2> QED
      BY <1>1, <2>1, <2>2 DEF XHolders
  <1>10. XMarks'
    BY <1>0, <1>1, <1>2 DEF XMarks
  <1>11. XOrder'
    <2>1. ASSUME NEW m \in OnList, next[m] \notin Node, m # tail
          PROVE  \E y \in Event : pc'[y] = "push_swing" /\ e'[y] = m
      <3>1. PICK y \in Event : pc[y] = "push_swing" /\ e[y] = m
        BY <1>0, <2>1 DEF XOrder
      <3>2. y # x /\ y # z
        BY <1>1, <1>4, <3>1
      <3> QED
        BY <1>5, <3>1, <3>2
    <2> QED
      BY <1>0, <1>1, <1>2, <2>1 DEF XOrder
  <1>12. XOwned'
    <2>1. \A y \in Event : (e'[y] \in Node) <=> (pc'[y] \in XPrivatePC \cup XLinkingPC \cup {"pop_grant"})
      BY <1>0, <1>2, <1>4, <1>5, <1>6 DEF XOwned
    <2>2. \A y \in Event : pc'[y] \in XPrivatePC \cup {"pop_grant"} => e'[y] \notin OnList
      BY <1>0, <1>5, <1>6 DEF XOwned
    <2>3. \A y, v \in Event : e'[y] \in Node /\ e'[y] = e'[v] => y = v
      BY <1>0, <1>2, <1>5 DEF XOwned
    <2>4. \A y \in Event : e'[y] \notin free'
      BY <1>0, <1>1, <1>2, <1>3, <1>5 DEF XOwned, XTypes, XTypeOK
    <2>5. \A m \in OnList : m \notin free'
      BY <1>0, <1>1, <1>3 DEF XOwned
    <2> QED
      BY <1>2, <2>1, <2>2, <2>3, <2>4, <2>5 DEF XOwned
  <1>13. XPrivate'
    <2>1. \A y \in Event : pc'[y] \in XPrivatePC => pc[y] \in XPrivatePC /\ e'[y] = e[y]
      BY <1>5, <1>6
    <2> QED
      BY <1>0, <1>1, <2>1 DEF XPrivate
  <1>14. XPointers'
    BY <1>0, <1>1, <1>5, <1>6 DEF XPointers, XPrivatePC
  <1>15. XLinking'
    <2>1. \A y \in Event : pc'[y] \in XLinkingPC => pc[y] \in XLinkingPC /\ e'[y] = e[y]
      BY <1>5, <1>6
    <2> QED
      BY <1>0, <1>1, <1>2, <2>1 DEF XLinking
  <1>16. XSwinging'
    <2>1. \A y \in Event : pc'[y] = "push_swing" => pc[y] = "push_swing" /\ e'[y] = e[y]
      BY <1>5, <1>6
    <2> QED
      BY <1>0, <1>1, <1>2, <2>1 DEF XSwinging
  <1>17. XPopping' /\ XUnlinked'
    BY <1>7 DEF XPopping, XUnlinked, XAtHeadPC
  <1>18. /\ \A y \in Event, m \in Node : ~XUnlinks(y, m)'
         /\ \A m \in Node : XLive(m)' => XLive(m) /\ m # u
    <2>1. \A y \in Event, m \in Node : ~XUnlinks(y, m)'
      BY <1>7 DEF XUnlinks
    <2> QED
      BY <1>2, <1>3, <2>1 DEF XLive
  <1>19. XWaiters'
    <2>1. \A m \in Node : ev[m] \in Event \/ ev[m] = "nil"
      BY XKnown
    <2>2. \A m \in Node : XLive(m)' => ev[m] # z
      BY <1>0, <1>3, <1>4, <1>18, XKnown DEF XWaiters
    <2>3. ASSUME NEW m \in Node, XLive(m)', ev[m] # "nil" PROVE pc'[ev[m]] = "wait"
      <3>1. pc[ev[m]] = "wait" /\ ev[m] \in Event
        BY <1>0, <1>18, <2>1, <2>3 DEF XWaiters
      <3>2. ev[m] # x /\ ev[m] # z
        BY <1>1, <2>2, <2>3, <3>1
      <3> QED
        BY <1>5, <3>1, <3>2
    <2> QED
      BY <1>0, <1>1, <1>2, <1>18, <2>3 DEF XWaiters
  <1> QED
    BY <1>8, <1>9, <1>10, <1>11, <1>12, <1>13, <1>14, <1>15, <1>16, <1>17, <1>19 DEF XInv

\* With nobody behind the head the mark returns.
LEMMA XEmpties == ASSUME XInv, NEW x \in Event, PopEmpty(x), next[h[x]] = "nil" PROVE XInv'
  <1>0. XTypes /\ XHolders /\ XMarks /\ XOrder /\ XOwned /\ XPrivate /\ XPointers /\ XLinking /\ XSwinging
        /\ XPopping /\ XUnlinked /\ XWaiters
    BY DEF XInv
  <1>1. /\ pc[x] = "pop_empty" /\ pc' = [pc EXCEPT ![x] = "idle"]
        /\ next' = [next EXCEPT ![h[x]] = "one"]
        /\ h' = [h EXCEPT ![x] = "nil"] /\ t' = [t EXCEPT ![x] = "nil"]
        /\ head' = head /\ tail' = tail /\ ev' = ev /\ free' = free /\ hn' = hn /\ e' = e
    BY DEF PopEmpty, Goto, ReleaseHazards
  <1>a. \A y \in Event : XHolds(y) => y = x
    BY <1>0, <1>1 DEF XHolders, XHolds, Popping
  <1>b. \A y \in Event : pc[y] \in XUnlinkingPC \cup XAtHeadPC \cup {"pop_grant"} => y = x
    BY <1>a DEF XHolds, Popping, XUnlinkingPC, XAtHeadPC
  <1>2. /\ OnList \subseteq Node /\ head \in OnList /\ head \in Node /\ "nil" \notin Node /\ "one" \notin Node
    BY XKnown
  <1>3. h[x] = head
    BY <1>0, <1>1 DEF XPopping, XAtHeadPC
  <1>4. /\ pc'[x] = "idle" /\ \A y \in Event : y # x => pc'[y] = pc[y]
        /\ h'[x] = "nil" /\ \A y \in Event : y # x => h'[y] = h[y]
        /\ t'[x] = "nil" /\ \A y \in Event : y # x => t'[y] = t[y]
        /\ next'[head] = "one" /\ \A m \in Node : m # head => next'[m] = next[m]
        /\ next[head] = "nil"
    BY <1>1, <1>2, <1>3, XKnown
  <1>5. OnList' = OnList
    <2>1. \A m \in OnList : next[m] \in Node \/ next'[m] \in Node => next'[m] = next[m]
      BY <1>2, <1>4
    <2>2. ListFrom(next', head) = ListFrom(next, head)
      BY <1>2, <2>1, ListStays DEF OnList
    <2> QED
      BY <1>1, <2>2 DEF OnList
  <1>6. \A y \in Event : pc'[y] \in XPrivatePC \cup XLinkingPC \cup {"push_swing", "push_tn", "push_link", "pop_tn"}
          => y # x
    BY <1>4 DEF XPrivatePC, XLinkingPC
  <1>7. \A y \in Event : pc'[y] \notin XUnlinkingPC /\ pc'[y] \notin XAtHeadPC /\ pc'[y] # "pop_grant"
    BY <1>b, <1>4 DEF XUnlinkingPC, XAtHeadPC
  <1>8. XTypes'
    <2>1. next' \in [Node -> Node \cup {"nil", "one", "three"}]
      BY <1>0, <1>1 DEF XTypes, XTypeOK
    <2> QED
      BY <1>0, <1>1, <2>1 DEF XTypes, XTypeOK
  <1>9. XHolders'
    <2>1. \A y \in Event : ~XHolds(y)'
      BY <1>a, <1>4 DEF XHolds, Popping
    <2> QED
      BY <1>1, <1>4, <2>1 DEF XHolders
  <1>10. XMarks'
    BY <1>0, <1>1, <1>2, <1>4, <1>5 DEF XMarks
  <1>11. XOrder'
    <2>1. /\ \A m \in OnList : next'[m] \in Node => next'[m] = next[m]
          /\ \A m \in OnList : next'[m] \notin Node => next[m] \notin Node
      BY <1>2, <1>4
    <2>2. tail \in OnList /\ \A m \in OnList : next'[m] # head
      BY <1>0, <1>2, <2>1 DEF XOrder
    <2>3. \A m, k \in OnList : next'[m] \in Node /\ next'[m] = next'[k] => m = k
      BY <1>0, <2>1 DEF XOrder
    <2>4. ASSUME NEW m \in OnList, next'[m] \notin Node, m # tail
          PROVE  \E y \in Event : pc'[y] = "push_swing" /\ e[y] = m
      <3>1. PICK y \in Event : pc[y] = "push_swing" /\ e[y] = m
        BY <1>0, <2>1, <2>4 DEF XOrder
      <3>2. y # x
        BY <1>1, <3>1
      <3> QED
        BY <1>4, <3>1, <3>2
    <2> QED
      BY <1>1, <1>5, <2>2, <2>3, <2>4 DEF XOrder
  <1>12. XOwned'
    <2>1. \A y \in Event : (e[y] \in Node) <=> (pc'[y] \in XPrivatePC \cup XLinkingPC \cup {"pop_grant"})
      BY <1>0, <1>1, <1>4 DEF XOwned, XPrivatePC, XLinkingPC
    <2> QED
      BY <1>0, <1>1, <1>4, <1>5, <1>6, <1>7, <2>1 DEF XOwned
  <1>13. XPrivate'
    <2> SUFFICES ASSUME NEW y \in Event, pc'[y] \in XPrivatePC
                 PROVE  /\ next'[e[y]] = "nil" /\ ev[e[y]] = "nil"
                        /\ \A z \in Event : h'[z] # e[y] /\ t'[z] # e[y]
      BY <1>1 DEF XPrivate
    <2>1. y # x /\ pc[y] \in XPrivatePC
      BY <1>4, <1>6
    <2>2. /\ next[e[y]] = "nil" /\ ev[e[y]] = "nil" /\ e[y] \in Node /\ e[y] # head
          /\ \A z \in Event : h[z] # e[y] /\ t[z] # e[y]
      BY <1>0, <1>2, <2>1 DEF XPrivate, XOwned
    <2> QED
      BY <1>2, <1>4, <2>1, <2>2
  <1>14. XPointers'
    BY <1>0, <1>1, <1>4 DEF XPointers, XAtHeadPC, XLinkingPC
  <1>15. XLinking'
    <2>1. \A y \in Event : pc'[y] \in XLinkingPC => y # x /\ pc[y] \in XLinkingPC /\ t'[y] = t[y] /\ e[y] \in Node
      BY <1>0, <1>4, <1>6 DEF XOwned
    <2>2. \A m \in OnList : next[m] \in Node => next'[m] = next[m]
      BY <1>2, <1>4
    <2> QED
      BY <1>0, <1>1, <1>5, <2>1, <2>2 DEF XLinking
  <1>16. XSwinging'
    <2>1. \A y \in Event : pc'[y] = "push_swing" =>
            y # x /\ pc[y] = "push_swing" /\ t'[y] = t[y] /\ e[y] \in Node
      BY <1>0, <1>4, <1>6 DEF XOwned, XLinkingPC
    <2> QED
      BY <1>0, <1>1, <1>2, <1>4, <1>5, <2>1 DEF XSwinging
  <1>17. XPopping' /\ XUnlinked'
    BY <1>7 DEF XPopping, XUnlinked, XAtHeadPC
  <1>18. /\ \A y \in Event, m \in Node : ~XUnlinks(y, m)'
         /\ \A m \in Node : XLive(m)' => XLive(m)
    <2>1. \A y \in Event, m \in Node : ~XUnlinks(y, m)'
      BY <1>7 DEF XUnlinks
    <2> QED
      BY <1>5, <2>1 DEF XLive
  <1>19. XWaiters'
    <2>1. \A m \in Node : ev[m] \in Event \/ ev[m] = "nil"
      BY XKnown
    <2>2. ev[head] = "nil"
      BY <1>0, <1>2, <1>4 DEF XWaiters
    <2>3. \A m \in Node : XLive(m)' /\ ev[m] # "nil" => pc'[ev[m]] = "wait"
      BY <1>0, <1>1, <1>4, <1>18, <2>1 DEF XWaiters
    <2>4. \A m \in OnList : ev[m] # "nil" => next'[m] \in Node
      BY <1>0, <1>2, <1>4, <2>2 DEF XWaiters
    <2> QED
      BY <1>0, <1>1, <1>5, <1>18, <2>3, <2>4 DEF XWaiters
  <1> QED
    BY <1>8, <1>9, <1>10, <1>11, <1>12, <1>13, <1>14, <1>15, <1>16, <1>17, <1>19 DEF XInv

LEMMA XNextInv == XInv /\ [XNext]_xvars => XInv'
  <1> SUFFICES ASSUME XInv, [XNext]_xvars PROVE XInv'
    OBVIOUS
  <1>1. CASE UNCHANGED xvars
    <2>1. /\ head' = head /\ tail' = tail /\ next' = next /\ ev' = ev /\ free' = free
          /\ pc' = pc /\ h' = h /\ hn' = hn /\ t' = t /\ e' = e
      BY <1>1 DEF xvars
    <2>2. /\ OnList' = OnList /\ \A x \in Event : XHolds(x)' <=> XHolds(x)
          /\ \A x \in Event, n \in Node : XUnlinks(x, n)' <=> XUnlinks(x, n)
      BY <2>1 DEF OnList, XHolds, XUnlinks
    <2>3. \A n \in Node : XLive(n)' <=> XLive(n)
      BY <2>2 DEF XLive
    <2>4. XTypes'
      BY <2>1 DEF XInv, XTypes, XTypeOK
    <2>5. XHolders' /\ XMarks' /\ XOrder'
      BY <2>1, <2>2 DEF XInv, XHolders, XMarks, XOrder
    <2>6. XOwned' /\ XPrivate' /\ XPointers'
      BY <2>1, <2>2 DEF XInv, XOwned, XPrivate, XPointers
    <2>7. XLinking' /\ XSwinging'
      BY <2>1, <2>2 DEF XInv, XLinking, XSwinging
    <2>8. XPopping' /\ XUnlinked'
      BY <2>1, <2>2 DEF XInv, XPopping, XUnlinked
    <2>9. XWaiters'
      BY <2>1, <2>2, <2>3 DEF XInv, XWaiters
    <2> QED
      BY <2>4, <2>5, <2>6, <2>7, <2>8, <2>9 DEF XInv
  <1>2. ASSUME NEW x \in Event, Push(x) PROVE XInv'
    <2>1. CASE PushTake(x) /\ next[h[x]] = "one"
      BY <2>1, XTakes
    <2>2. CASE PushLink(x) /\ next[t[x]] = "nil"
      BY <2>2, XLinks
    <2> QED
      BY <1>2, <2>1, <2>2, XPusherLooks, XAcquires, XSwings, XWaits DEF Push
  <1>3. ASSUME NEW x \in Event, Pop(x) PROVE XInv'
    <2>1. CASE PopUnlink(x) /\ head = h[x]
      BY <2>1, XUnlinksHead
    <2>2. CASE PopEmpty(x) /\ next[h[x]] = "nil"
      BY <2>2, XEmpties
    <2> QED
      BY <1>3, <2>1, <2>2, XHolderLooks, XClears, XMarksDead, XGrants DEF Pop
  <1> QED
    BY <1>1, <1>2, <1>3 DEF XNext

\* What the run checks of the exclusive atomic.
LEMMA XInvHolds == XInv => XTypeOK /\ XOneHolder /\ XFreeIsFree /\ XListOwned
  <1> SUFFICES ASSUME XInv PROVE XTypeOK /\ XOneHolder /\ XFreeIsFree /\ XListOwned
    OBVIOUS
  <1>0. XTypes /\ XHolders /\ XOwned /\ OnList \subseteq Node
    BY XKnown DEF XInv
  <1>1. XOneHolder
    <2> DEFINE H == {x \in Event : pc[x] \in Popping \cup {"run"}}
    <2>1. \A x, y \in H : x = y
      BY <1>0 DEF XHolders, XHolds
    <2>2. CASE H = {}
      BY <2>2, FS_EmptySet DEF XOneHolder
    <2>3. CASE H # {}
      <3>1. PICK x : H = {x}
        BY <2>1, <2>3
      <3>2. Cardinality({x}) = 1
        BY FS_Singleton
      <3> QED
        BY <3>1, <3>2 DEF XOneHolder
    <2> QED
      BY <2>2, <2>3
  <1>2. XFreeIsFree
    BY <1>0 DEF XHolders, XHolds, XFreeIsFree
  <1>3. XListOwned
    BY <1>0 DEF XOwned, XListOwned, XLinkingPC
  <1> QED
    BY <1>0, <1>1, <1>2, <1>3 DEF XTypes

-----------------------------------------------------------------------------
(***************************************************************************)
(* The pool.                                                               *)
(*                                                                         *)
(* A push takes an index with the compare-and-swap on the packed word, a   *)
(* pop with one on its output counter; so an index is taken by one thread, *)
(* and what is taken is owned by it until it is written elsewhere.  Who    *)
(* takes an index saw a free slot where it is looked up then.  Another     *)
(* thread that looks up an older index can fill the slot of a newer        *)
(* implementation with NULL, so that the entry is looked up elsewhere from *)
(* then on: an entry may disappear, but none can appear, and none is       *)
(* copied under another index, because the copy is made for the index that *)
(* the older slot is marked with.                                          *)
(***************************************************************************)
(* The growable array *)
PlSlots(V) == [ptr : V \cup {"nil", "uninit"}, at : Int]
PlImpls(V) == UNION {[0 .. n - 1 -> PlSlots(V)] : n \in Nat \ {0}}

\* Each implementation is a multiple of those before, and twice as long at least.
PlShape(q, V) ==
  /\ q \in Seq(PlImpls(V)) /\ Len(q) >= 1
  /\ \A m, k \in 1 .. Len(q) : m <= k => \E c \in Nat \ {0} : SizeOf(q[k]) = c * SizeOf(q[m])
  /\ \A m, k \in 1 .. Len(q) : m < k => SizeOf(q[k]) >= 2 * SizeOf(q[m])

\* Index i is looked up in implementation k.
PlIs(q, i, k) ==
  /\ k \in 1 .. Len(q) /\ At(q[k], i).ptr # "uninit"
  /\ \A m \in k + 1 .. Len(q) : At(q[m], i).ptr = "uninit"

\* Implementation k with v in the slot of index j.
PlPutIn(q, k, j, v) == [q EXCEPT ![k][j % SizeOf(q[k])] = v]
PlDiffers(p, q, k, j, v, V) ==
  /\ PlShape(p, V) /\ Len(p) = Len(q)
  /\ \A m \in 1 .. Len(q) : SizeOf(p[m]) = SizeOf(q[m])
  /\ \A m \in 1 .. Len(q) : \A i \in Nat :
       At(p[m], i) = IF m = k /\ i % SizeOf(q[k]) = j % SizeOf(q[k]) THEN v ELSE At(q[m], i)

\* Somewhere v is written as the entry with index j.
PlHas(q, v, j) == \E k \in 1 .. Len(q) : \E i \in Nat : At(q[k], i) = Slot(v, j)

PlFound(q) == \A i \in Nat : \E k \in 1 .. Len(q) : PlIs(q, i, k)

\* A slot has no index when it is empty, and that of its entry when it is not.
PlMarked(q, V, in) ==
  \A k \in 1 .. Len(q) : \A i \in Nat :
     /\ At(q[k], i).ptr \in {"nil", "uninit"} => At(q[k], i).at = NoIndex
     /\ At(q[k], i).ptr \in V => At(q[k], i).at \in 0 .. in - 1

\* An index in use is looked up where it does not share its slot with another in use, and
\* finds its own entry or none.
PlLive(q, in, out) ==
  \A j \in out .. in - 1 : \A k \in 1 .. Len(q) : PlIs(q, j, k) =>
     /\ j - out < SizeOf(q[k])
     /\ At(q[k], j).ptr # "nil" => At(q[k], j).at = j

PlArray(q, V, in, out) ==
  /\ PlShape(q, V) /\ PlFound(q) /\ PlMarked(q, V, in) /\ PlLive(q, in, out)
  /\ in - out < SizeOf(q[Len(q)])

\* The next index can be pushed.
PlNextFree(q, in, out) ==
  \A k \in 1 .. Len(q) : PlIs(q, in, k) => At(q[k], in).ptr = "nil" /\ in - out + 1 < SizeOf(q[k])

LEMMA PlSameSlot ==
  ASSUME NEW n \in Nat \ {0}, NEW i \in Int, NEW j \in Int, i - j < n, j - i < n, i % n = j % n
  PROVE  i = j
  <1> SUFFICES ASSUME i # j PROVE FALSE
    OBVIOUS
  <1> DEFINE d == (i \div n) - (j \div n)
  <1>1. i = (n * (i \div n)) + (i % n) /\ j = (n * (j \div n)) + (j % n)
    OBVIOUS
  <1>2. d \in Int /\ i \div n \in Int /\ j \div n \in Int /\ i % n \in Int
    OBVIOUS
  <1>3. i - j = n * d
    BY <1>1, <1>2
  <1> HIDE DEF d
  <1>4. d = 0 \/ d >= 1 \/ d <= -1
    BY <1>2
  <1>5. n * d = 0 \/ n * d >= n \/ n * d <= -n
    BY <1>2, <1>4
  <1> QED
    BY <1>3, <1>5

LEMMA PlDivision ==
  ASSUME NEW n \in Nat \ {0}, NEW i \in Int
  PROVE  i = (n * (i \div n)) + (i % n) /\ i \div n \in Int /\ i % n \in 0 .. n - 1
  OBVIOUS

LEMMA PlTimes ==
  ASSUME NEW a \in Int, NEW b \in Int, NEW c \in Int
  PROVE  a * (b - c) = (a * b) - (a * c) /\ a * b \in Int
  OBVIOUS

\* One size divides another, and two indices share a slot of an array of a size.
PlMultiple(m, n) == \E c \in Nat : m = c * n
PlSame(i, j, n)  == i % n = j % n

\* Indices that share a slot of an array share one of every array that divides it.
LEMMA PlCoarser ==
  ASSUME NEW n \in Nat \ {0}, NEW m \in Nat \ {0}, PlMultiple(m, n),
         NEW i \in Nat, NEW j \in Nat, PlSame(i, j, m)
  PROVE  PlSame(i, j, n)
  <1>0. i % m = j % m
    BY DEF PlSame
  <1> DEFINE d == (i \div m) - (j \div m)
             b == (i \div n) - (j \div n)
  <1>1. /\ i = (m * (i \div m)) + (i % m) /\ j = (m * (j \div m)) + (j % m)
        /\ i \div m \in Int /\ j \div m \in Int /\ i % m \in Int
    <2>1. i \in Int /\ j \in Int
      OBVIOUS
    <2>2. i = (m * (i \div m)) + (i % m) /\ i \div m \in Int /\ i % m \in 0 .. m - 1
      BY <2>1, PlDivision, Zenon
    <2>3. j = (m * (j \div m)) + (j % m) /\ j \div m \in Int /\ j % m \in 0 .. m - 1
      BY <2>1, PlDivision, Zenon
    <2> QED
      BY <2>2, <2>3
  <1>2. /\ i = (n * (i \div n)) + (i % n) /\ j = (n * (j \div n)) + (j % n)
        /\ i \div n \in Int /\ j \div n \in Int /\ i % n \in 0 .. n - 1 /\ j % n \in 0 .. n - 1
    <2>1. i \in Int /\ j \in Int
      OBVIOUS
    <2>2. i = (n * (i \div n)) + (i % n) /\ i \div n \in Int /\ i % n \in 0 .. n - 1
      BY <2>1, PlDivision, Zenon
    <2>3. j = (n * (j \div n)) + (j % n) /\ j \div n \in Int /\ j % n \in 0 .. n - 1
      BY <2>1, PlDivision, Zenon
    <2> QED
      BY <2>2, <2>3, Zenon
  <1>3. m * d = (m * (i \div m)) - (m * (j \div m)) /\ m * (i \div m) \in Int /\ m * (j \div m) \in Int
    BY <1>1, PlTimes
  <1>4. n * b = (n * (i \div n)) - (n * (j \div n)) /\ n * (i \div n) \in Int /\ n * (j \div n) \in Int
    BY <1>2, PlTimes
  <1>5. d \in Int /\ b \in Int
    BY <1>1, <1>2
  <1> HIDE DEF d, b
  <1>6. m * d = i - j
    BY <1>0, <1>1, <1>3
  <1>7. n * b = (i - j) - ((i % n) - (j % n))
    BY <1>2, <1>4
  <1>8. PICK a \in Int : m * d = n * a
    <2>1. PICK c \in Nat : m = c * n
      BY DEF PlMultiple
    <2>2. m * d = n * (c * d) /\ c * d \in Int
      BY <1>5, <2>1
    <2> QED
      BY <2>2
  <1> DEFINE we == a - b
  <1>9. n * we = (n * a) - (n * b) /\ we \in Int
    BY <1>5, PlTimes
  <1> HIDE DEF we
  <1>10. n * we = (i % n) - (j % n)
    BY <1>2, <1>6, <1>7, <1>8, <1>9
  <1>11. we = 0 \/ we >= 1 \/ we <= -1
    BY <1>9
  <1>12. n * we = 0 \/ n * we >= n \/ n * we <= -n
    BY <1>9, <1>11
  <1> QED
    BY <1>2, <1>10, <1>12 DEF PlSame

LEMMA PlSize ==
  ASSUME NEW V, NEW f \in PlImpls(V)
  PROVE  /\ SizeOf(f) \in Nat \ {0} /\ DOMAIN f = 0 .. SizeOf(f) - 1 /\ f \in [0 .. SizeOf(f) - 1 -> PlSlots(V)]
         /\ \A i \in Nat : At(f, i) \in PlSlots(V) /\ i % SizeOf(f) \in DOMAIN f
  <1>1. PICK n \in Nat \ {0} : f \in [0 .. n - 1 -> PlSlots(V)]
    BY DEF PlImpls
  <1>2. Cardinality(0 .. n - 1) = n
    BY FS_Interval
  <1>3. SizeOf(f) = n
    BY <1>1, <1>2 DEF SizeOf
  <1>4. \A i \in Nat : i % n \in 0 .. n - 1
    OBVIOUS
  <1> QED
    BY <1>1, <1>3, <1>4 DEF At

\* The implementation that CHOOSE finds.
LEMMA PlWhere ==
  ASSUME NEW V, NEW q, NEW i, PlShape(q, V), NEW k \in 1 .. Len(q), PlIs(q, i, k)
  PROVE  Where(q, i) = k /\ Get(q, i) = At(q[k], i)
  <1>1. DOMAIN q = 1 .. Len(q)
    BY DEF PlShape
  <1>2. ASSUME NEW m \in DOMAIN q, At(q[m], i).ptr # "uninit",
               \A l \in m + 1 .. Len(q) : At(q[l], i).ptr = "uninit"
        PROVE  m = k
    BY <1>1, <1>2 DEF PlIs, PlShape
  <1>3. Where(q, i) = k
    BY <1>1, <1>2 DEF Where, PlIs
  <1> QED
    BY <1>3 DEF Get

\* One slot is changed, the one of index j in implementation k.
LEMMA PlPut ==
  ASSUME NEW V, NEW q, PlShape(q, V), NEW k \in 1 .. Len(q), NEW j \in Nat, NEW v \in PlSlots(V)
  PROVE  PlDiffers(PlPutIn(q, k, j, v), q, k, j, v, V)
  <1> DEFINE p == PlPutIn(q, k, j, v)
  <1>1. q \in Seq(PlImpls(V)) /\ Len(q) \in Nat
    BY DEF PlShape
  <1>2. \A m \in 1 .. Len(q) : q[m] \in PlImpls(V)
    BY <1>1
  <1> DEFINE n == SizeOf(q[k])
             f == [q[k] EXCEPT ![j % n] = v]
  <1>3. n \in Nat \ {0} /\ q[k] \in [0 .. n - 1 -> PlSlots(V)] /\ j % n \in 0 .. n - 1
    BY <1>2, PlSize
  <1>4. f \in [0 .. n - 1 -> PlSlots(V)]
    BY <1>3
  <1>5. f \in PlImpls(V)
    BY <1>3, <1>4 DEF PlImpls
  <1>6. p = [q EXCEPT ![k] = f]
    BY DEF PlPutIn
  <1> HIDE DEF p
  <1>7. p \in Seq(PlImpls(V)) /\ Len(p) = Len(q)
    BY <1>1, <1>5, <1>6
  <1>8. p[k] = f /\ \A m \in 1 .. Len(q) : m # k => p[m] = q[m]
    BY <1>1, <1>6
  <1>9. SizeOf(f) = n
    BY <1>3, <1>4 DEF SizeOf
  <1>10. \A m \in 1 .. Len(q) : SizeOf(p[m]) = SizeOf(q[m])
    BY <1>8, <1>9
  <1>11. \A i \in Nat : At(f, i) = IF i % n = j % n THEN v ELSE At(q[k], i)
    <2> TAKE i \in Nat
    <2>1. i % n \in 0 .. n - 1
      BY <1>3
    <2>2. f[i % n] = IF i % n = j % n THEN v ELSE q[k][i % n]
      BY <1>3, <2>1
    <2> QED
      BY <2>2, <1>9 DEF At
  <1> HIDE DEF f, n
  <1>12. PlShape(p, V)
    <2>1. ASSUME NEW m \in 1 .. Len(p), NEW l \in 1 .. Len(p)
          PROVE  /\ m <= l => \E c \in Nat \ {0} : SizeOf(p[l]) = c * SizeOf(p[m])
                 /\ m < l => SizeOf(p[l]) >= 2 * SizeOf(p[m])
      <3>1. m \in 1 .. Len(q) /\ l \in 1 .. Len(q) /\ SizeOf(p[l]) = SizeOf(q[l]) /\ SizeOf(p[m]) = SizeOf(q[m])
        BY <1>7, <1>10
      <3>2. /\ m <= l => \E c \in Nat \ {0} : SizeOf(q[l]) = c * SizeOf(q[m])
            /\ m < l => SizeOf(q[l]) >= 2 * SizeOf(q[m])
        BY <3>1 DEF PlShape
      <3> QED
        BY <3>1, <3>2
    <2> QED
      BY <1>7, <2>1 DEF PlShape
  <1>13. ASSUME NEW m \in 1 .. Len(q), NEW i \in Nat
         PROVE  At(p[m], i) = IF m = k /\ i % n = j % n THEN v ELSE At(q[m], i)
    <2>1. CASE m = k
      BY <2>1, <1>8, <1>11
    <2>2. CASE m # k
      BY <2>2, <1>8
    <2> QED
      BY <2>1, <2>2
  <1> QED
    BY <1>7, <1>10, <1>12, <1>13 DEF n, p, PlDiffers

\* A new implementation is put in front.
LEMMA PlGrown ==
  ASSUME NEW V, NEW q, PlShape(q, V), "uninit" \notin V
  PROVE  /\ PlShape(Grown(q), V) /\ Len(Grown(q)) = Len(q) + 1
         /\ \A m \in 1 .. Len(q) : Grown(q)[m] = q[m]
         /\ SizeOf(Grown(q)[Len(q) + 1]) = 2 * SizeOf(q[Len(q)])
         /\ \A i \in Nat : At(Grown(q)[Len(q) + 1], i) = Slot("uninit", NoIndex)
  <1>1. q \in Seq(PlImpls(V)) /\ Len(q) \in Nat /\ Len(q) >= 1
    BY DEF PlShape
  <1>2. \A m \in 1 .. Len(q) : q[m] \in PlImpls(V) /\ SizeOf(q[m]) \in Nat \ {0}
    <2> TAKE m \in 1 .. Len(q)
    <2>1. q[m] \in PlImpls(V)
      BY <1>1
    <2> QED
      BY <2>1, PlSize
  <1> DEFINE n == SizeOf(q[Len(q)])
             f == Impl(2 * n, "uninit")
  <1>3. n \in Nat \ {0}
    BY <1>1, <1>2
  <1>4. f \in [0 .. 2 * n - 1 -> PlSlots(V)] /\ 2 * n \in Nat \ {0}
    BY <1>3 DEF Impl, Slot, PlSlots, NoIndex
  <1>5. f \in PlImpls(V)
    BY <1>4 DEF PlImpls
  <1>6. SizeOf(f) = 2 * n
    BY <1>4, FS_Interval DEF SizeOf
  <1>7. \A i \in Nat : At(f, i) = Slot("uninit", NoIndex)
    <2> TAKE i \in Nat
    <2>1. i % SizeOf(f) \in 0 .. 2 * n - 1
      BY <1>4, <1>6
    <2> QED
      BY <2>1, <1>4 DEF At, Impl
  <1>8. Grown(q) = Append(q, f)
    BY DEF Grown, Current
  <1> HIDE DEF f
  <1>9. Grown(q) \in Seq(PlImpls(V)) /\ Len(Grown(q)) = Len(q) + 1 /\ Grown(q)[Len(q) + 1] = f
        /\ \A m \in 1 .. Len(q) : Grown(q)[m] = q[m]
    BY <1>1, <1>5, <1>8
  <1>10. ASSUME NEW m \in 1 .. Len(q) + 1, NEW k \in 1 .. Len(q) + 1, m <= k
         PROVE  \E c \in Nat \ {0} : SizeOf(Grown(q)[k]) = c * SizeOf(Grown(q)[m])
    <2>1. CASE k \in 1 .. Len(q)
      <3>1. m \in 1 .. Len(q) /\ Grown(q)[m] = q[m] /\ Grown(q)[k] = q[k]
        BY <1>1, <1>9, <1>10, <2>1
      <3> QED
        BY <3>1, <1>10, <2>1 DEF PlShape
    <2>2. CASE k = Len(q) + 1 /\ m = Len(q) + 1
      <3>1. 2 * n = 1 * (2 * n)
        BY <1>3
      <3> QED
        BY <1>6, <1>9, <2>2, <3>1
    <2>3. CASE k = Len(q) + 1 /\ m \in 1 .. Len(q)
      <3>1. PICK c \in Nat \ {0} : n = c * SizeOf(q[m])
        BY <1>1, <2>3 DEF PlShape
      <3>2. 2 * n = (2 * c) * SizeOf(q[m]) /\ 2 * c \in Nat \ {0}
        BY <1>2, <2>3, <3>1
      <3> QED
        BY <1>6, <1>9, <2>3, <3>2
    <2> QED
      BY <1>1, <2>1, <2>2, <2>3
  <1>11. ASSUME NEW m \in 1 .. Len(q) + 1, NEW k \in 1 .. Len(q) + 1, m < k
         PROVE  SizeOf(Grown(q)[k]) >= 2 * SizeOf(Grown(q)[m])
    <2>1. CASE k \in 1 .. Len(q)
      <3>1. m \in 1 .. Len(q) /\ Grown(q)[m] = q[m] /\ Grown(q)[k] = q[k]
        BY <1>1, <1>9, <1>11, <2>1
      <3> QED
        BY <3>1, <1>11, <2>1 DEF PlShape
    <2>2. CASE k = Len(q) + 1
      <3>1. m \in 1 .. Len(q)
        BY <1>1, <1>11, <2>2
      <3>2. SizeOf(q[m]) <= n
        <4>1. Len(q) \in 1 .. Len(q) /\ SizeOf(q[m]) \in Nat
          BY <3>1, <1>1, <1>2
        <4>2. m < Len(q) => n >= 2 * SizeOf(q[m])
          BY <3>1, <4>1 DEF PlShape
        <4>3. m = Len(q) \/ m < Len(q)
          BY <3>1, <1>1
        <4> QED
          BY <4>1, <4>2, <4>3, <1>3
      <3> QED
        BY <1>2, <1>3, <1>6, <1>9, <2>2, <3>1, <3>2
    <2> QED
      BY <1>1, <2>1, <2>2
  <1> QED
    BY <1>6, <1>7, <1>9, <1>10, <1>11, <1>1 DEF PlShape

LEMMA PlSizes ==
  ASSUME NEW V, NEW q, PlShape(q, V)
  PROVE  /\ Len(q) \in Nat \ {0} /\ q \in Seq(PlImpls(V))
         /\ \A k \in 1 .. Len(q) : q[k] \in PlImpls(V) /\ SizeOf(q[k]) \in Nat \ {0}
         /\ \A m, k \in 1 .. Len(q) : m <= k => SizeOf(q[m]) <= SizeOf(q[k])
         /\ \A k \in 1 .. Len(q) : \A i \in Nat : At(q[k], i) \in PlSlots(V)
  <1>1. q \in Seq(PlImpls(V)) /\ Len(q) \in Nat \ {0}
    BY DEF PlShape
  <1>2. \A k \in 1 .. Len(q) : q[k] \in PlImpls(V)
    BY <1>1
  <1>3. \A k \in 1 .. Len(q) : SizeOf(q[k]) \in Nat \ {0}
    BY <1>2, PlSize
  <1>4. ASSUME NEW m \in 1 .. Len(q), NEW k \in 1 .. Len(q), m <= k
        PROVE  SizeOf(q[m]) <= SizeOf(q[k])
    <2>1. m < k => SizeOf(q[k]) >= 2 * SizeOf(q[m])
      BY DEF PlShape
    <2>2. m = k \/ m < k
      BY <1>4
    <2>3. SizeOf(q[m]) \in Nat /\ SizeOf(q[k]) \in Nat
      BY <1>3
    <2> QED
      BY <2>1, <2>2, <2>3
  <1>5. \A k \in 1 .. Len(q) : \A i \in Nat : At(q[k], i) \in PlSlots(V)
    BY <1>2, PlSize
  <1> QED
    BY <1>1, <1>2, <1>3, <1>4, <1>5

\* Indices that share a slot share those of the older implementations.
LEMMA PlChain ==
  ASSUME NEW V, NEW q, PlShape(q, V), NEW k \in 1 .. Len(q), NEW i \in Nat, NEW j \in Nat,
         i % SizeOf(q[k]) = j % SizeOf(q[k]), NEW m \in 1 .. Len(q), m <= k
  PROVE  At(q[m], i) = At(q[m], j)
  <1>1. PlMultiple(SizeOf(q[k]), SizeOf(q[m]))
    BY DEF PlShape, PlMultiple
  <1>2. SizeOf(q[k]) \in Nat \ {0} /\ SizeOf(q[m]) \in Nat \ {0}
    BY PlSizes
  <1>3. PlSame(i, j, SizeOf(q[k]))
    BY DEF PlSame
  <1>4. PlSame(i, j, SizeOf(q[m]))
    BY <1>1, <1>2, <1>3, PlCoarser
  <1> QED
    BY <1>4 DEF At, PlSame

LEMMA PlGrownArray ==
  ASSUME NEW V, NEW q, NEW in \in Nat, NEW out \in Nat, PlArray(q, V, in, out), V \cap {"nil", "uninit"} = {}
  PROVE  /\ PlArray(Grown(q), V, in, out) /\ Len(Grown(q)) = Len(q) + 1
         /\ \A m \in 1 .. Len(q) : Grown(q)[m] = q[m]
         /\ SizeOf(Grown(q)[Len(q) + 1]) = 2 * SizeOf(q[Len(q)])
         /\ \A v \in V : \A j \in Nat : PlHas(Grown(q), v, j) <=> PlHas(q, v, j)
         /\ PlNextFree(q, in, out) => PlNextFree(Grown(q), in, out)
  <1> DEFINE p == Grown(q)
  <1>1. PlShape(q, V)
    BY DEF PlArray
  <1>2. /\ PlShape(p, V) /\ Len(p) = Len(q) + 1 /\ \A m \in 1 .. Len(q) : p[m] = q[m]
        /\ SizeOf(p[Len(q) + 1]) = 2 * SizeOf(q[Len(q)])
        /\ \A i \in Nat : At(p[Len(q) + 1], i) = Slot("uninit", NoIndex)
    BY <1>1, PlGrown
  <1>3. Len(q) \in Nat \ {0} /\ SizeOf(q[Len(q)]) \in Nat \ {0}
    BY <1>1, PlSizes
  <1> HIDE DEF p
  <1>4. \A i \in Nat : At(p[Len(q) + 1], i).ptr = "uninit" /\ At(p[Len(q) + 1], i).at = NoIndex
    BY <1>2 DEF Slot
  <1>5. ASSUME NEW i \in Nat, NEW k \in 1 .. Len(p)
        PROVE  PlIs(p, i, k) <=> k \in 1 .. Len(q) /\ PlIs(q, i, k)
    <2>1. CASE k \in 1 .. Len(q)
      <3>1. \A m \in k + 1 .. Len(p) : m \in k + 1 .. Len(q) \/ m = Len(q) + 1
        BY <1>2, <1>3
      <3>2. (k + 1 .. Len(q)) \subseteq (k + 1 .. Len(p)) /\ (k + 1 .. Len(q)) \subseteq (1 .. Len(q))
        BY <1>2, <1>3, <2>1
      <3>3. At(p[k], i) = At(q[k], i) /\ \A m \in k + 1 .. Len(q) : At(p[m], i) = At(q[m], i)
        BY <1>2, <2>1, <3>2
      <3> QED
        BY <1>4, <2>1, <3>1, <3>2, <3>3 DEF PlIs
    <2>2. CASE k = Len(q) + 1
      BY <1>3, <1>4, <2>2 DEF PlIs
    <2> QED
      BY <1>2, <1>3, <2>1, <2>2
  <1>6. \A i \in Nat : \E k \in 1 .. Len(p) : PlIs(p, i, k)
    <2> TAKE i \in Nat
    <2>1. PICK k \in 1 .. Len(q) : PlIs(q, i, k)
      BY DEF PlArray, PlFound
    <2>2. k \in 1 .. Len(p)
      BY <1>2, <1>3
    <2> QED
      BY <2>1, <2>2, <1>5
  <1>7. ASSUME NEW k \in 1 .. Len(p), NEW i \in Nat
        PROVE  /\ At(p[k], i).ptr \in {"nil", "uninit"} => At(p[k], i).at = NoIndex
               /\ At(p[k], i).ptr \in V => At(p[k], i).at \in 0 .. in - 1
    <2>1. CASE k = Len(q) + 1
      BY <2>1, <1>4
    <2>2. CASE k \in 1 .. Len(q)
      BY <2>2, <1>2 DEF PlArray, PlMarked
    <2> QED
      BY <2>1, <2>2, <1>2, <1>3
  <1>8. ASSUME NEW j \in out .. in - 1, NEW k \in 1 .. Len(p), PlIs(p, j, k)
        PROVE  j - out < SizeOf(p[k]) /\ (At(p[k], j).ptr # "nil" => At(p[k], j).at = j)
    <2>1. j \in Nat
      OBVIOUS
    <2>2. k \in 1 .. Len(q) /\ PlIs(q, j, k) /\ p[k] = q[k]
      BY <1>8, <2>1, <1>5, <1>2
    <2> QED
      BY <2>2 DEF PlArray, PlLive
  <1>9. in - out < SizeOf(p[Len(p)])
    BY <1>2, <1>3 DEF PlArray
  <1>10. PlArray(p, V, in, out)
    <2>1. PlFound(p)
      BY <1>6 DEF PlFound
    <2>2. PlMarked(p, V, in)
      BY <1>7 DEF PlMarked
    <2>3. PlLive(p, in, out)
      BY <1>8 DEF PlLive
    <2> QED
      BY <1>2, <1>9, <2>1, <2>2, <2>3 DEF PlArray
  <1>11. ASSUME NEW v \in V, NEW j \in Nat
         PROVE  PlHas(p, v, j) <=> PlHas(q, v, j)
    <2>1. ASSUME PlHas(p, v, j) PROVE PlHas(q, v, j)
      <3>1. PICK k \in 1 .. Len(p), i \in Nat : At(p[k], i) = Slot(v, j)
        BY <2>1 DEF PlHas
      <3>2. k # Len(q) + 1
        BY <3>1, <1>4 DEF Slot
      <3>3. k \in 1 .. Len(q) /\ p[k] = q[k]
        BY <3>2, <1>2, <1>3
      <3> QED
        BY <3>1, <3>3 DEF PlHas
    <2>2. ASSUME PlHas(q, v, j) PROVE PlHas(p, v, j)
      <3>1. PICK k \in 1 .. Len(q), i \in Nat : At(q[k], i) = Slot(v, j)
        BY <2>2 DEF PlHas
      <3>2. k \in 1 .. Len(p) /\ p[k] = q[k]
        BY <1>2, <1>3
      <3> QED
        BY <3>1, <3>2 DEF PlHas
    <2> QED
      BY <2>1, <2>2
  <1>12. ASSUME PlNextFree(q, in, out) PROVE PlNextFree(p, in, out)
    BY <1>12, <1>2, <1>5 DEF PlNextFree
  <1> QED
    BY <1>2, <1>10, <1>11, <1>12 DEF p

LEMMA PlPushed ==
  ASSUME NEW V, NEW q, NEW in \in Nat, NEW out \in Nat, PlArray(q, V, in, out), out <= in, PlNextFree(q, in, out)
  PROVE  PlArray(q, V, in + 1, out)
  <1>1. PlShape(q, V)
    BY DEF PlArray
  <1>2. PICK k \in 1 .. Len(q) : PlIs(q, in, k)
    BY DEF PlArray, PlFound
  <1>3. in - out + 1 < SizeOf(q[k])
    BY <1>2 DEF PlNextFree
  <1>4. Len(q) \in 1 .. Len(q) /\ SizeOf(q[k]) \in Nat /\ SizeOf(q[Len(q)]) \in Nat /\ SizeOf(q[k]) <= SizeOf(q[Len(q)])
    BY <1>1, PlSizes
  <1>5. in + 1 - out < SizeOf(q[Len(q)])
    BY <1>3, <1>4
  <1>6. PlMarked(q, V, in + 1)
    <2>1. PlMarked(q, V, in) /\ 0 .. in - 1 \subseteq 0 .. in + 1 - 1
      BY DEF PlArray
    <2> QED
      BY <2>1 DEF PlMarked
  <1>7. ASSUME NEW j \in out .. in + 1 - 1, NEW m \in 1 .. Len(q), PlIs(q, j, m)
        PROVE  j - out < SizeOf(q[m]) /\ (At(q[m], j).ptr # "nil" => At(q[m], j).at = j)
    <2>1. CASE j = in
      <3>1. SizeOf(q[m]) \in Nat
        BY <1>1, PlSizes
      <3> QED
        BY <2>1, <3>1, <1>7 DEF PlNextFree
    <2>2. CASE j \in out .. in - 1
      BY <2>2, <1>7 DEF PlArray, PlLive
    <2> QED
      BY <2>1, <2>2
  <1>8. PlLive(q, in + 1, out)
    BY <1>7 DEF PlLive
  <1> QED
    BY <1>1, <1>5, <1>6, <1>8 DEF PlArray

LEMMA PlPopped ==
  ASSUME NEW V, NEW q, NEW in \in Nat, NEW out \in Nat, PlArray(q, V, in, out), out < in
  PROVE  /\ PlArray(q, V, in, out + 1)
         /\ PlNextFree(q, in, out) => PlNextFree(q, in, out + 1)
  <1>1. PlShape(q, V)
    BY DEF PlArray
  <1>2. \A k \in 1 .. Len(q) : SizeOf(q[k]) \in Nat
    BY <1>1, PlSizes
  <1>3. Len(q) \in 1 .. Len(q)
    BY <1>1, PlSizes
  <1>4. in - (out + 1) < SizeOf(q[Len(q)])
    <2>1. in - out < SizeOf(q[Len(q)]) /\ SizeOf(q[Len(q)]) \in Nat
      BY <1>2, <1>3 DEF PlArray
    <2> QED
      BY <2>1
  <1>5. ASSUME NEW j \in out + 1 .. in - 1, NEW m \in 1 .. Len(q), PlIs(q, j, m)
        PROVE  j - (out + 1) < SizeOf(q[m]) /\ (At(q[m], j).ptr # "nil" => At(q[m], j).at = j)
    <2>1. j \in out .. in - 1 /\ SizeOf(q[m]) \in Nat
      BY <1>2
    <2>2. j - out < SizeOf(q[m]) /\ (At(q[m], j).ptr # "nil" => At(q[m], j).at = j)
      BY <2>1, <1>5 DEF PlArray, PlLive
    <2> QED
      BY <2>1, <2>2
  <1>6. PlArray(q, V, in, out + 1)
    <2>1. PlLive(q, in, out + 1)
      BY <1>5 DEF PlLive
    <2> QED
      BY <1>1, <1>4, <2>1 DEF PlArray
  <1>7. ASSUME PlNextFree(q, in, out) PROVE PlNextFree(q, in, out + 1)
    <2> SUFFICES ASSUME NEW k \in 1 .. Len(q), PlIs(q, in, k)
                 PROVE  At(q[k], in).ptr = "nil" /\ in - (out + 1) + 1 < SizeOf(q[k])
      BY DEF PlNextFree
    <2>1. At(q[k], in).ptr = "nil" /\ in - out + 1 < SizeOf(q[k]) /\ SizeOf(q[k]) \in Nat
      BY <1>2, <1>7 DEF PlNextFree
    <2> QED
      BY <2>1
  <1> QED
    BY <1>6, <1>7

\* Nothing else than one slot, neither before nor after "uninit", is changed: where an index is
\* looked up stays the same.
LEMMA PlSameLookup ==
  ASSUME NEW V, NEW q, NEW p, Len(p) = Len(q),
         \A k \in 1 .. Len(q) : \A i \in Nat : At(p[k], i).ptr = "uninit" <=> At(q[k], i).ptr = "uninit",
         NEW i \in Nat, NEW k
  PROVE  PlIs(p, i, k) <=> PlIs(q, i, k)
  BY DEF PlIs

PlAfterWrite(p, q, V, in, out, k, i0, v) ==
  /\ PlArray(p, V, in, out) /\ Len(p) = Len(q)
  /\ \A m \in 1 .. Len(q) : SizeOf(p[m]) = SizeOf(q[m])
  /\ \A m \in 1 .. Len(q) : \A i \in Nat :
       At(p[m], i) = At(q[m], i) \/ (m = k /\ i % SizeOf(q[k]) = i0 % SizeOf(q[k]))
  /\ \A w \in V : \A j \in Nat : PlHas(p, w, j) <=> PlHas(q, w, j) \/ (w = v /\ j = i0)
  /\ PlNextFree(q, in, out) => PlNextFree(p, in, out)

LEMMA PlWrittenArray ==
  ASSUME NEW V, NEW q, NEW in \in Nat, NEW out \in Nat, PlArray(q, V, in, out), V \cap {"nil", "uninit"} = {},
         NEW k \in 1 .. Len(q), NEW i0 \in out .. in - 1, NEW v \in V,
         At(q[k], i0).ptr = "nil", i0 - out < SizeOf(q[k])
  PROVE  PlAfterWrite(Written(q, k, i0, v), q, V, in, out, k, i0, v)
  <1> DEFINE p == Written(q, k, i0, v)
             n == SizeOf(q[k])
  <1>1. PlShape(q, V) /\ i0 \in Nat /\ Slot(v, i0) \in PlSlots(V)
    BY DEF PlArray, Slot, PlSlots
  <1>2. /\ PlShape(p, V) /\ Len(p) = Len(q)
        /\ \A m \in 1 .. Len(q) : SizeOf(p[m]) = SizeOf(q[m])
        /\ \A m \in 1 .. Len(q) : \A i \in Nat :
              At(p[m], i) = IF m = k /\ i % n = i0 % n THEN Slot(v, i0) ELSE At(q[m], i)
    <2>1. p = PlPutIn(q, k, i0, Slot(v, i0))
      BY DEF Written, PlPutIn
    <2> HIDE DEF p
    <2>2. PlDiffers(p, q, k, i0, Slot(v, i0), V)
      BY <1>1, <2>1, PlPut
    <2> QED
      BY <2>2 DEF PlDiffers
  <1>3. /\ Len(q) \in Nat \ {0}
        /\ \A m \in 1 .. Len(q) : SizeOf(q[m]) \in Nat \ {0}
        /\ \A m \in 1 .. Len(q) : \A i \in Nat : At(q[m], i) \in PlSlots(V)
    BY <1>1, PlSizes
  <1>4. v # "nil" /\ v # "uninit" /\ Slot(v, i0).ptr = v /\ Slot(v, i0).at = i0
    BY DEF Slot
  <1> HIDE DEF p
  <1>5. \A i \in Nat : i % n = i0 % n => At(q[k], i).ptr = "nil"
    BY DEF At
  <1>6. \A m \in 1 .. Len(q) : \A i \in Nat : At(p[m], i).ptr = "uninit" <=> At(q[m], i).ptr = "uninit"
    BY <1>2, <1>4, <1>5
  <1>7. \A i \in Nat : \A m : PlIs(p, i, m) <=> PlIs(q, i, m)
    BY <1>2, <1>6, PlSameLookup
  <1>8. PlFound(p)
    BY <1>2, <1>7 DEF PlArray, PlFound
  <1>9. PlMarked(p, V, in)
    <2> SUFFICES ASSUME NEW m \in 1 .. Len(q), NEW i \in Nat
                 PROVE  /\ At(p[m], i).ptr \in {"nil", "uninit"} => At(p[m], i).at = NoIndex
                        /\ At(p[m], i).ptr \in V => At(p[m], i).at \in 0 .. in - 1
      BY <1>2 DEF PlMarked
    <2>1. CASE At(p[m], i) = Slot(v, i0)
      BY <2>1, <1>4
    <2>2. CASE At(p[m], i) = At(q[m], i)
      BY <2>2 DEF PlArray, PlMarked
    <2> QED
      BY <2>1, <2>2, <1>2
  <1>10. PlLive(p, in, out)
    <2> SUFFICES ASSUME NEW j \in out .. in - 1, NEW m \in 1 .. Len(q), PlIs(p, j, m)
                 PROVE  /\ j - out < SizeOf(p[m])
                        /\ At(p[m], j).ptr # "nil" => At(p[m], j).at = j
      BY <1>2 DEF PlLive
    <2>1. j \in Nat /\ PlIs(q, j, m) /\ SizeOf(p[m]) = SizeOf(q[m])
      BY <1>2, <1>7
    <2>2. j - out < SizeOf(q[m]) /\ (At(q[m], j).ptr # "nil" => At(q[m], j).at = j)
      BY <2>1 DEF PlArray, PlLive
    <2>3. CASE m = k /\ j % n = i0 % n
      <3>1. j - i0 < n /\ i0 - j < n /\ n \in Nat \ {0} /\ j \in Int /\ i0 \in Int
        BY <2>2, <2>3, <1>3
      <3>2. j = i0
        BY <3>1, <2>3, PlSameSlot
      <3>3. At(p[m], j) = Slot(v, i0)
        BY <2>1, <2>3, <1>2
      <3> QED
        BY <2>1, <2>2, <3>2, <3>3, <1>4
    <2>4. CASE ~(m = k /\ j % n = i0 % n)
      <3>1. At(p[m], j) = At(q[m], j)
        BY <2>1, <2>4, <1>2
      <3> QED
        BY <2>1, <2>2, <3>1
    <2> QED
      BY <2>3, <2>4
  <1>11. PlArray(p, V, in, out)
    <2>1. in - out < SizeOf(p[Len(p)])
      BY <1>2, <1>3 DEF PlArray
    <2> QED
      BY <1>2, <1>8, <1>9, <1>10, <2>1 DEF PlArray
  <1>12. ASSUME NEW w \in V, NEW j \in Nat
         PROVE  PlHas(p, w, j) <=> PlHas(q, w, j) \/ (w = v /\ j = i0)
    <2>1. ASSUME PlHas(p, w, j), ~PlHas(q, w, j) PROVE w = v /\ j = i0
      <3>1. PICK m \in 1 .. Len(q), i \in Nat : At(p[m], i) = Slot(w, j)
        BY <2>1, <1>2 DEF PlHas
      <3>2. At(q[m], i) # Slot(w, j)
        BY <2>1 DEF PlHas
      <3>3. Slot(w, j) = Slot(v, i0)
        BY <3>1, <3>2, <1>2
      <3> QED
        BY <3>3 DEF Slot
    <2>2. ASSUME PlHas(q, w, j) PROVE PlHas(p, w, j)
      <3>1. PICK m \in 1 .. Len(q), i \in Nat : At(q[m], i) = Slot(w, j)
        BY <2>2 DEF PlHas
      <3>2. At(q[m], i).ptr # "nil"
        BY <3>1 DEF Slot
      <3>3. At(p[m], i) = Slot(w, j)
        BY <3>1, <3>2, <1>2, <1>5
      <3> QED
        BY <3>3, <1>2 DEF PlHas
    <2>3. PlHas(p, v, i0)
      <3>1. At(p[k], i0) = Slot(v, i0)
        BY <1>1, <1>2
      <3> QED
        BY <3>1, <1>1, <1>2 DEF PlHas
    <2> QED
      BY <2>1, <2>2, <2>3
  <1>13. ASSUME PlNextFree(q, in, out) PROVE PlNextFree(p, in, out)
    <2> SUFFICES ASSUME NEW m \in 1 .. Len(q), PlIs(p, in, m)
                 PROVE  At(p[m], in).ptr = "nil" /\ in - out + 1 < SizeOf(p[m])
      BY <1>2 DEF PlNextFree
    <2>1. At(q[m], in).ptr = "nil" /\ in - out + 1 < SizeOf(q[m]) /\ SizeOf(p[m]) = SizeOf(q[m])
      BY <1>2, <1>7, <1>13 DEF PlNextFree
    <2>2. ~(m = k /\ in % n = i0 % n)
      <3> SUFFICES ASSUME m = k, in % n = i0 % n PROVE FALSE
        OBVIOUS
      <3>1. in - i0 < n /\ i0 - in < n /\ n \in Nat \ {0} /\ in \in Int /\ i0 \in Int
        BY <2>1, <1>3
      <3>2. in = i0
        BY <3>1, PlSameSlot
      <3> QED
        BY <3>2
    <2> QED
      BY <2>1, <2>2, <1>2
  <1>14. \A m \in 1 .. Len(q) : \A i \in Nat : At(p[m], i) = At(q[m], i) \/ (m = k /\ i % n = i0 % n)
    BY <1>2
  <1> QED
    BY <1>2, <1>11, <1>12, <1>13, <1>14 DEF p, PlAfterWrite

\* A slot that holds an entry is emptied.
PlAfterEmpty(p, q, V, in, out, v) ==
  /\ PlArray(p, V, in, out) /\ Len(p) = Len(q)
  /\ \A m \in 1 .. Len(q) : SizeOf(p[m]) = SizeOf(q[m])
  /\ \A m \in 1 .. Len(q) : \A i \in Nat : At(q[m], i).ptr = "nil" => At(p[m], i).ptr = "nil"
  /\ \A w \in V : \A j \in Nat : PlHas(p, w, j) => PlHas(q, w, j)
  /\ \A w \in V : \A j \in Nat : w # v /\ PlHas(q, w, j) => PlHas(p, w, j)
  /\ PlNextFree(q, in, out) => PlNextFree(p, in, out)

LEMMA PlEmptiedArray ==
  ASSUME NEW V, NEW q, NEW in \in Nat, NEW out \in Nat, PlArray(q, V, in, out), V \cap {"nil", "uninit"} = {},
         NEW k \in 1 .. Len(q), NEW i0 \in Nat, NEW v \in V, At(q[k], i0).ptr = v,
         NEW p, p = PlPutIn(q, k, i0, Slot("nil", NoIndex))
  PROVE  PlAfterEmpty(p, q, V, in, out, v)
  <1> DEFINE n == SizeOf(q[k])
  <1>1. PlShape(q, V) /\ Slot("nil", NoIndex) \in PlSlots(V)
    BY DEF PlArray, Slot, PlSlots, NoIndex
  <1>2. /\ PlShape(p, V) /\ Len(p) = Len(q)
        /\ \A m \in 1 .. Len(q) : SizeOf(p[m]) = SizeOf(q[m])
        /\ \A m \in 1 .. Len(q) : \A i \in Nat :
              At(p[m], i) = IF m = k /\ i % n = i0 % n THEN Slot("nil", NoIndex) ELSE At(q[m], i)
    <2>2. PlDiffers(p, q, k, i0, Slot("nil", NoIndex), V)
      BY <1>1, PlPut
    <2> QED
      BY <2>2 DEF PlDiffers
  <1>3. Len(q) \in Nat \ {0} /\ \A m \in 1 .. Len(q) : SizeOf(q[m]) \in Nat \ {0}
    BY <1>1, PlSizes
  <1>4. v # "nil" /\ v # "uninit" /\ Slot("nil", NoIndex).ptr = "nil" /\ Slot("nil", NoIndex).at = NoIndex
    BY DEF Slot
  <1>5. \A i \in Nat : i % n = i0 % n => At(q[k], i).ptr = v
    BY DEF At
  <1>6. \A m \in 1 .. Len(q) : \A i \in Nat : At(p[m], i).ptr = "uninit" <=> At(q[m], i).ptr = "uninit"
    <2> TAKE m \in 1 .. Len(q)
    <2> TAKE i \in Nat
    <2>1. CASE m = k /\ i % n = i0 % n
      <3>1. At(p[m], i).ptr = "nil" /\ At(q[m], i).ptr = v
        BY <1>2, <1>4, <1>5, <2>1
      <3> QED
        BY <1>4, <3>1
    <2>2. CASE ~(m = k /\ i % n = i0 % n)
      BY <1>2, <2>2
    <2> QED
      BY <2>1, <2>2
  <1>7. \A i \in Nat : \A m : PlIs(p, i, m) <=> PlIs(q, i, m)
    <2> TAKE i \in Nat
    <2> TAKE m
    <2>1. \A a \in 1 .. Len(q) : \A l \in Nat : At(p[a], l).ptr = "uninit" <=> At(q[a], l).ptr = "uninit"
      BY <1>6
    <2>2. Len(p) = Len(q)
      BY <1>2
    <2> QED
      BY <2>1, <2>2, PlSameLookup, Zenon
  <1>8. \A m \in 1 .. Len(q) : \A i \in Nat : 
           At(p[m], i) = At(q[m], i) \/ (At(p[m], i).ptr = "nil" /\ At(p[m], i).at = NoIndex)
    BY <1>2, <1>4
  <1>9. PlFound(p)
    BY <1>2, <1>7 DEF PlArray, PlFound
  <1>10. PlMarked(p, V, in)
    <2> SUFFICES ASSUME NEW m \in 1 .. Len(q), NEW i \in Nat
                 PROVE  /\ At(p[m], i).ptr \in {"nil", "uninit"} => At(p[m], i).at = NoIndex
                        /\ At(p[m], i).ptr \in V => At(p[m], i).at \in 0 .. in - 1
      BY <1>2 DEF PlMarked
    <2>1. CASE At(p[m], i).ptr = "nil" /\ At(p[m], i).at = NoIndex
      BY <2>1
    <2>2. CASE At(p[m], i) = At(q[m], i)
      BY <2>2 DEF PlArray, PlMarked
    <2> QED
      BY <2>1, <2>2, <1>8
  <1>11. PlLive(p, in, out)
    <2> SUFFICES ASSUME NEW j \in out .. in - 1, NEW m \in 1 .. Len(q), PlIs(p, j, m)
                 PROVE  /\ j - out < SizeOf(p[m])
                        /\ At(p[m], j).ptr # "nil" => At(p[m], j).at = j
      BY <1>2 DEF PlLive
    <2>1. j \in Nat /\ PlIs(q, j, m) /\ SizeOf(p[m]) = SizeOf(q[m])
      BY <1>2, <1>7
    <2>2. j - out < SizeOf(q[m]) /\ (At(q[m], j).ptr # "nil" => At(q[m], j).at = j)
      BY <2>1 DEF PlArray, PlLive
    <2> QED
      BY <2>1, <2>2, <1>8
  <1>12. PlArray(p, V, in, out)
    <2>1. in - out < SizeOf(p[Len(p)])
      BY <1>2, <1>3 DEF PlArray
    <2> QED
      BY <1>2, <1>9, <1>10, <1>11, <2>1 DEF PlArray
  <1>13. ASSUME NEW w \in V, NEW j \in Nat, PlHas(p, w, j)
         PROVE  PlHas(q, w, j)
    <2>1. PICK m \in 1 .. Len(q), i \in Nat : At(p[m], i) = Slot(w, j)
      BY <1>13, <1>2 DEF PlHas
    <2>2. At(p[m], i).ptr # "nil"
      BY <2>1 DEF Slot
    <2> QED
      BY <2>1, <2>2, <1>8 DEF PlHas
  <1>14. ASSUME NEW w \in V, NEW j \in Nat, w # v, PlHas(q, w, j)
         PROVE  PlHas(p, w, j)
    <2>1. PICK m \in 1 .. Len(q), i \in Nat : At(q[m], i) = Slot(w, j)
      BY <1>14 DEF PlHas
    <2>2. At(q[m], i).ptr # v
      BY <2>1, <1>14 DEF Slot
    <2>3. At(p[m], i) = Slot(w, j)
      BY <2>1, <2>2, <1>2, <1>5
    <2> QED
      BY <2>3, <1>2 DEF PlHas
  <1>15. ASSUME PlNextFree(q, in, out) PROVE PlNextFree(p, in, out)
    <2> SUFFICES ASSUME NEW m \in 1 .. Len(q), PlIs(p, in, m)
                 PROVE  At(p[m], in).ptr = "nil" /\ in - out + 1 < SizeOf(p[m])
      BY <1>2 DEF PlNextFree
    <2>1. At(q[m], in).ptr = "nil" /\ in - out + 1 < SizeOf(q[m]) /\ SizeOf(p[m]) = SizeOf(q[m])
      BY <1>2, <1>7, <1>15 DEF PlNextFree
    <2> QED
      BY <2>1, <1>8
  <1>16. \A m \in 1 .. Len(q) : \A i \in Nat : At(q[m], i).ptr = "nil" => At(p[m], i).ptr = "nil"
    BY <1>8
  <1> QED
    BY <1>2, <1>12, <1>13, <1>14, <1>15, <1>16 DEF PlAfterEmpty

\* A slot of the newest implementation is taken over for a push.
PlAfterUpdate(p, q, V, in, out, i0) ==
  /\ PlArray(p, V, in, out) /\ Len(p) = Len(q)
  /\ \A m \in 1 .. Len(q) : SizeOf(p[m]) = SizeOf(q[m])
  /\ \A m \in 1 .. Len(q) : \A i \in Nat : At(q[m], i).ptr # "uninit" => At(p[m], i) = At(q[m], i)
  /\ \A w \in V : \A j \in Nat : PlHas(p, w, j) <=> PlHas(q, w, j)
  /\ PlNextFree(q, in, out) => PlNextFree(p, in, out)
  /\ PlIs(p, i0, Len(q))

LEMMA PlUpdateArray ==
  ASSUME NEW V, NEW q, NEW in \in Nat, NEW out \in Nat, PlArray(q, V, in, out), V \cap {"nil", "uninit"} = {},
         NEW i0 \in Nat
  PROVE  PlAfterUpdate(Update(q, i0), q, V, in, out, i0)
  <1> DEFINE L == Len(q)
             n == SizeOf(q[L])
  <1>1. PlShape(q, V)
    BY DEF PlArray
  <1>2. /\ L \in Nat \ {0} /\ L \in 1 .. L
        /\ \A m \in 1 .. L : SizeOf(q[m]) \in Nat \ {0} /\ SizeOf(q[m]) <= n
        /\ \A m \in 1 .. L : \A i \in Nat : At(q[m], i) \in PlSlots(V)
    BY <1>1, PlSizes
  <1>3. CASE At(q[L], i0).ptr # "uninit"
    <2>1. Update(q, i0) = q
      BY <1>3 DEF Update, Current
    <2>2. PlIs(q, i0, L)
      BY <1>2, <1>3 DEF PlIs
    <2> QED
      BY <2>1, <2>2 DEF PlAfterUpdate
  <1>4. CASE At(q[L], i0).ptr = "uninit"
    <2>1. PICK K \in 1 .. L : PlIs(q, i0, K)
      BY DEF PlArray, PlFound
    <2>2. K < L /\ K <= L
      BY <1>2, <1>4, <2>1 DEF PlIs
    <2> DEFINE g == At(q[K], i0)
               v == IF g.at = i0 THEN Slot(g.ptr, i0) ELSE Slot("nil", NoIndex)
               p == Update(q, i0)
    <2>3. Get(q, i0) = g
      BY <1>1, <2>1, PlWhere
    <2>4. p = PlPutIn(q, L, i0, v)
      BY <1>4, <2>3 DEF Update, Current, PlPutIn
    <2>5. /\ g \in PlSlots(V) /\ g.ptr # "uninit"
          /\ g.ptr \in {"nil", "uninit"} => g.at = NoIndex
          /\ g.ptr \in V => g.at \in 0 .. in - 1
      BY <1>2, <2>1 DEF PlIs, PlArray, PlMarked
    <2>6. (v = g /\ g.at = i0 /\ g.ptr \in V) \/ (v = Slot("nil", NoIndex) /\ g.at # i0)
      <3>1. CASE g.at = i0
        <4>1. g.ptr \in V
          BY <2>5, <3>1 DEF NoIndex, PlSlots
        <4>2. v = Slot(g.ptr, g.at)
          BY <3>1
        <4>3. g = [ptr |-> g.ptr, at |-> g.at]
          BY <2>5 DEF PlSlots
        <4> QED
          BY <3>1, <4>1, <4>2, <4>3 DEF Slot
      <3>2. CASE g.at # i0
        BY <3>2
      <3> QED
        BY <3>1, <3>2
    <2>7. v \in PlSlots(V) /\ v.ptr # "uninit"
      BY <2>5, <2>6 DEF Slot, PlSlots, NoIndex
    <2> HIDE DEF v
    <2>8. /\ PlShape(p, V) /\ Len(p) = L
          /\ \A m \in 1 .. L : SizeOf(p[m]) = SizeOf(q[m])
          /\ \A m \in 1 .. L : \A i \in Nat :
              At(p[m], i) = IF m = L /\ i % n = i0 % n THEN v ELSE At(q[m], i)
      <3> HIDE DEF p
      <3>1. L \in 1 .. Len(q)
        BY <1>2
      <3>2. PlDiffers(p, q, L, i0, v, V)
        BY <1>1, <3>1, <2>4, <2>7, PlPut
      <3> QED
        BY <3>2 DEF PlDiffers
    <2> HIDE DEF p, L
    <2>9. \A i \in Nat : i % n = i0 % n => At(q[L], i).ptr = "uninit"
      BY <1>4 DEF At
    <2>10. \A m \in 1 .. L : \A i \in Nat : At(q[m], i).ptr # "uninit" => At(p[m], i) = At(q[m], i)
      BY <2>8, <2>9
    <2>11. ASSUME NEW i \in Nat, i % n # i0 % n, NEW m
           PROVE  PlIs(p, i, m) <=> PlIs(q, i, m)
      <3>1. \A l \in 1 .. L : At(p[l], i) = At(q[l], i)
        BY <2>8, <2>11
      <3> QED
        BY <3>1, <2>8 DEF PlIs, L
    <2>12. ASSUME NEW i \in Nat, i % n = i0 % n
           PROVE  /\ PlIs(p, i, L) /\ At(p[L], i) = v
                  /\ \A m : PlIs(p, i, m) => m = L
                  /\ PlIs(q, i, K) /\ At(q[K], i) = g
      <3>1. At(p[L], i) = v
        BY <1>2, <2>8, <2>12
      <3>2. PlIs(p, i, L) /\ \A m : PlIs(p, i, m) => m = L
        <4>1. L \in 1 .. Len(p) /\ Len(p) = L /\ L \in Nat /\ At(p[L], i).ptr # "uninit"
          BY <3>1, <1>2, <2>7, <2>8
        <4>2. PlIs(p, i, L)
          BY <4>1 DEF PlIs
        <4>3. ASSUME NEW m, PlIs(p, i, m), m # L PROVE FALSE
          <5>1. m \in 1 .. L /\ L \in m + 1 .. Len(p)
            BY <4>1, <4>3 DEF PlIs
          <5> QED
            BY <4>1, <4>3, <5>1 DEF PlIs
        <4> QED
          BY <4>2, <4>3
      <3>3. \A m \in 1 .. L : At(q[m], i) = At(q[m], i0)
        <4> TAKE m \in 1 .. L
        <4>1. m <= L
          BY <1>2
        <4> QED
          BY <4>1, <1>1, <1>2, <2>12, PlChain DEF L
      <3>4. PlIs(q, i, K) /\ At(q[K], i) = g
        <4>1. K \in 1 .. Len(q) /\ At(q[K], i) = g /\ g.ptr # "uninit"
          BY <3>3, <2>5 DEF L
        <4>2. \A m \in K + 1 .. Len(q) : m \in 1 .. L /\ At(q[m], i0).ptr = "uninit"
          BY <2>1 DEF PlIs, L
        <4> QED
          BY <3>3, <4>1, <4>2 DEF PlIs
      <3> QED
        BY <3>1, <3>2, <3>4
    <2>13. PlFound(p)
      <3> SUFFICES ASSUME NEW i \in Nat PROVE \E k \in 1 .. L : PlIs(p, i, k)
        BY <2>8 DEF PlFound
      <3>1. PICK k \in 1 .. L : PlIs(q, i, k)
        BY DEF PlArray, PlFound, L
      <3> QED
        BY <3>1, <1>2, <2>11, <2>12
    <2>14. PlMarked(p, V, in)
      <3> SUFFICES ASSUME NEW m \in 1 .. L, NEW i \in Nat
                   PROVE  /\ At(p[m], i).ptr \in {"nil", "uninit"} => At(p[m], i).at = NoIndex
                          /\ At(p[m], i).ptr \in V => At(p[m], i).at \in 0 .. in - 1
        BY <2>8 DEF PlMarked
      <3>1. CASE At(p[m], i) = v
        BY <3>1, <2>5, <2>6 DEF Slot
      <3>2. CASE At(p[m], i) = At(q[m], i)
        BY <3>2 DEF PlArray, PlMarked, L
      <3> QED
        BY <3>1, <3>2, <2>8
    <2>15. PlLive(p, in, out)
      <3> SUFFICES ASSUME NEW j \in out .. in - 1, NEW m \in 1 .. L, PlIs(p, j, m)
                   PROVE  /\ j - out < SizeOf(p[m])
                          /\ At(p[m], j).ptr # "nil" => At(p[m], j).at = j
        BY <2>8 DEF PlLive
      <3>1. j \in Nat /\ SizeOf(p[m]) = SizeOf(q[m]) /\ SizeOf(q[m]) \in Nat
        BY <1>2, <2>8
      <3>2. CASE j % n = i0 % n
        <4>1. m = L /\ At(p[L], j) = v /\ PlIs(q, j, K) /\ At(q[K], j) = g
          BY <3>1, <3>2, <2>12
        <4>2. j - out < n
          BY <1>2, SMTT(30) DEF PlArray, L
        <4>3. g.ptr # "nil" => g.at = j
          BY <4>1 DEF PlArray, PlLive, L
        <4> QED
          BY <3>1, <4>1, <4>2, <4>3, <2>6 DEF Slot
      <3>3. CASE j % n # i0 % n
        <4>1. PlIs(q, j, m) /\ At(p[m], j) = At(q[m], j)
          BY <3>1, <3>3, <2>8, <2>11
        <4> QED
          BY <3>1, <4>1 DEF PlArray, PlLive, L
      <3> QED
        BY <3>2, <3>3
    <2>16. PlArray(p, V, in, out)
      <3>1. in - out < SizeOf(p[Len(p)])
        BY <1>2, <2>8 DEF PlArray, L
      <3> QED
        BY <2>8, <2>13, <2>14, <2>15, <3>1 DEF PlArray
    <2>17. ASSUME NEW w \in V, NEW j \in Nat
           PROVE  PlHas(p, w, j) <=> PlHas(q, w, j)
      <3>1. w # "nil" /\ w # "uninit" /\ Slot(w, j).ptr = w
        BY DEF Slot
      <3>2. ASSUME PlHas(p, w, j) PROVE PlHas(q, w, j)
        <4>1. PICK m \in 1 .. L, i \in Nat : At(p[m], i) = Slot(w, j)
          BY <3>2, <2>8 DEF PlHas
        <4>2. CASE At(p[m], i) = At(q[m], i)
          BY <4>1, <4>2 DEF PlHas, L
        <4>3. CASE At(p[m], i) = v
          <5>1. v # Slot("nil", NoIndex)
            BY <3>1, <4>1, <4>3 DEF Slot
          <5>2. At(q[K], i0) = Slot(w, j)
            BY <5>1, <2>6, <4>1, <4>3
          <5> QED
            BY <5>2 DEF PlHas, L
        <4> QED
          BY <4>2, <4>3, <2>8
      <3>3. ASSUME PlHas(q, w, j) PROVE PlHas(p, w, j)
        <4>1. PICK m \in 1 .. L, i \in Nat : At(q[m], i) = Slot(w, j)
          BY <3>3 DEF PlHas, L
        <4>2. At(p[m], i) = Slot(w, j)
          BY <4>1, <3>1, <2>10
        <4> QED
          BY <4>2, <2>8 DEF PlHas
      <3> QED
        BY <3>2, <3>3
    <2>18. ASSUME PlNextFree(q, in, out) PROVE PlNextFree(p, in, out)
      <3> SUFFICES ASSUME NEW m \in 1 .. L, PlIs(p, in, m)
                   PROVE  At(p[m], in).ptr = "nil" /\ in - out + 1 < SizeOf(p[m])
        BY <2>8 DEF PlNextFree
      <3>1. SizeOf(p[m]) = SizeOf(q[m]) /\ SizeOf(q[m]) \in Nat
        BY <1>2, <2>8
      <3>2. CASE in % n = i0 % n
        <4>1. m = L /\ At(p[L], in) = v /\ PlIs(q, in, K) /\ At(q[K], in) = g
          BY <3>2, <2>12
        <4>2. g.ptr = "nil" /\ in - out + 1 < SizeOf(q[K])
          BY <4>1, <2>18 DEF PlNextFree, L
        <4>3. SizeOf(q[K]) <= n /\ SizeOf(q[K]) \in Nat /\ n \in Nat
          BY <1>2
        <4>4. v.ptr = "nil"
          BY <4>2, <2>6 DEF Slot
        <4> QED
          BY <3>1, <4>1, <4>2, <4>3, <4>4
      <3>3. CASE in % n # i0 % n
        <4>1. PlIs(q, in, m) /\ At(p[m], in) = At(q[m], in)
          BY <3>3, <2>8, <2>11
        <4> QED
          BY <3>1, <4>1, <2>18 DEF PlNextFree, L
      <3> QED
        BY <3>2, <3>3
    <2>19. PlIs(p, i0, L)
      BY <2>12
    <2> QED
      BY <2>8, <2>10, <2>16, <2>17, <2>18, <2>19 DEF p, L, PlAfterUpdate
  <1> QED
    BY <1>3, <1>4
-----------------------------------------------------------------------------
(* What a thread in the middle of a push (with its index li) or of a pop (with its index lo) *)
(* relies on, and that the steps of the others keep it.                                     *)
PlA == [slot |-> "a_slot", grown |-> "a_grown", push |-> "a_push", find |-> "a_find", write |-> "a_write",
        get |-> "a_get", cas |-> "a_cas", null |-> "a_null"]
PlR == [slot |-> "r_slot", grown |-> "r_grown", push |-> "r_push", find |-> "r_find", write |-> "r_write",
        get |-> "r_cas", cas |-> "r_cas", null |-> "r_null"]

PlPushOK(q, V, in, out, c, s, li, k) ==
  /\ li \in Nat /\ li <= in
  /\ c = s.slot => (li = in => in - out + 1 < SizeOf(q[Len(q)]))
  /\ c = s.grown => k \in 1 .. Len(q) /\ (li = in => in - out < SizeOf(q[k]))
  /\ c = s.push => (li = in => PlNextFree(q, in, out))
  /\ c \in {s.find, s.write} => li \in out .. in - 1 /\ \A v \in V : ~PlHas(q, v, li)
  /\ c = s.write => k \in 1 .. Len(q) /\ At(q[k], li).ptr = "nil" /\ li - out < SizeOf(q[k])

PlPopOK(q, V, in, out, c, s, lo, v, k) ==
  /\ lo \in Nat
  /\ c \in {s.get, s.cas} => lo < in /\ lo <= out
  /\ c = s.cas => v \in V /\ (lo = out => PlHas(q, v, lo))
  /\ c = s.null => k \in 1 .. Len(q)

LEMMA PlGrownSide ==
  ASSUME NEW V, NEW q, NEW in \in Nat, NEW out \in Nat, PlArray(q, V, in, out), V \cap {"nil", "uninit"} = {},
         NEW c, NEW s, NEW l, NEW v, NEW k
  PROVE  /\ PlPushOK(q, V, in, out, c, s, l, k) => PlPushOK(Grown(q), V, in, out, c, s, l, k)
         /\ PlPopOK(q, V, in, out, c, s, l, v, k) => PlPopOK(Grown(q), V, in, out, c, s, l, v, k)
  <1> DEFINE p == Grown(q)
  <1>1. /\ Len(p) = Len(q) + 1 /\ \A m \in 1 .. Len(q) : p[m] = q[m]
        /\ SizeOf(p[Len(q) + 1]) = 2 * SizeOf(q[Len(q)])
        /\ \A w \in V : \A j \in Nat : PlHas(p, w, j) <=> PlHas(q, w, j)
        /\ PlNextFree(q, in, out) => PlNextFree(p, in, out)
    BY PlGrownArray
  <1>2. Len(q) \in Nat \ {0} /\ \A m \in 1 .. Len(q) : SizeOf(q[m]) \in Nat
    BY PlSizes DEF PlArray
  <1> HIDE DEF p
  <1>3. Len(q) \in 1 .. Len(q) /\ \A m \in 1 .. Len(q) : m \in 1 .. Len(p)
    BY <1>1, <1>2
  <1>4. ASSUME PlPushOK(q, V, in, out, c, s, l, k) PROVE PlPushOK(p, V, in, out, c, s, l, k)
    <2>1. l \in Nat /\ l <= in
      BY <1>4 DEF PlPushOK
    <2>2. c = s.slot => (l = in => in - out + 1 < SizeOf(p[Len(p)]))
      BY <1>1, <1>2, <1>3, <1>4 DEF PlPushOK
    <2>3. c = s.grown => k \in 1 .. Len(p) /\ (l = in => in - out < SizeOf(p[k]))
      BY <1>1, <1>3, <1>4 DEF PlPushOK
    <2>4. c = s.push => (l = in => PlNextFree(p, in, out))
      BY <1>1, <1>4 DEF PlPushOK
    <2>5. c \in {s.find, s.write} => l \in out .. in - 1 /\ \A w \in V : ~PlHas(p, w, l)
      BY <1>1, <1>4, <2>1 DEF PlPushOK
    <2>6. c = s.write => k \in 1 .. Len(p) /\ At(p[k], l).ptr = "nil" /\ l - out < SizeOf(p[k])
      BY <1>1, <1>3, <1>4 DEF PlPushOK
    <2> QED
      BY <2>1, <2>2, <2>3, <2>4, <2>5, <2>6 DEF PlPushOK
  <1>5. ASSUME PlPopOK(q, V, in, out, c, s, l, v, k) PROVE PlPopOK(p, V, in, out, c, s, l, v, k)
    BY <1>1, <1>3, <1>5 DEF PlPopOK
  <1> QED
    BY <1>4, <1>5 DEF p

LEMMA PlPushedSide ==
  ASSUME NEW V, NEW q, NEW in \in Nat, NEW out \in Nat, NEW c, NEW s, NEW l, NEW v, NEW k
  PROVE  /\ PlPushOK(q, V, in, out, c, s, l, k) => PlPushOK(q, V, in + 1, out, c, s, l, k)
         /\ PlPopOK(q, V, in, out, c, s, l, v, k) => PlPopOK(q, V, in + 1, out, c, s, l, v, k)
  <1>1. ASSUME PlPushOK(q, V, in, out, c, s, l, k) PROVE PlPushOK(q, V, in + 1, out, c, s, l, k)
    <2>1. l \in Nat /\ l <= in + 1 /\ l # in + 1
      BY <1>1 DEF PlPushOK
    <2> QED
      BY <1>1, <2>1 DEF PlPushOK
  <1>2. ASSUME PlPopOK(q, V, in, out, c, s, l, v, k) PROVE PlPopOK(q, V, in + 1, out, c, s, l, v, k)
    BY <1>2 DEF PlPopOK
  <1> QED
    BY <1>1, <1>2

LEMMA PlPoppedSide ==
  ASSUME NEW V, NEW q, NEW in \in Nat, NEW out \in Nat, PlArray(q, V, in, out), out < in,
         \E w \in V : PlHas(q, w, out), NEW c, NEW s, NEW l, NEW v, NEW k
  PROVE  /\ PlPushOK(q, V, in, out, c, s, l, k) => PlPushOK(q, V, in, out + 1, c, s, l, k)
         /\ PlPopOK(q, V, in, out, c, s, l, v, k) => PlPopOK(q, V, in, out + 1, c, s, l, v, k)
  <1>1. Len(q) \in 1 .. Len(q) /\ \A m \in 1 .. Len(q) : SizeOf(q[m]) \in Nat
    BY PlSizes DEF PlArray
  <1>2. PlNextFree(q, in, out) => PlNextFree(q, in, out + 1)
    BY PlPopped
  <1>3. ASSUME PlPushOK(q, V, in, out, c, s, l, k) PROVE PlPushOK(q, V, in, out + 1, c, s, l, k)
    <2>1. l \in Nat /\ l <= in
      BY <1>3 DEF PlPushOK
    <2>2. c = s.slot => (l = in => in - (out + 1) + 1 < SizeOf(q[Len(q)]))
      BY <1>1, <1>3 DEF PlPushOK
    <2>3. c = s.grown => k \in 1 .. Len(q) /\ (l = in => in - (out + 1) < SizeOf(q[k]))
      BY <1>1, <1>3 DEF PlPushOK
    <2>4. c = s.push => (l = in => PlNextFree(q, in, out + 1))
      BY <1>2, <1>3 DEF PlPushOK
    <2>5. c \in {s.find, s.write} => l \in out + 1 .. in - 1 /\ \A w \in V : ~PlHas(q, w, l)
      BY <1>3 DEF PlPushOK
    <2>6. c = s.write => k \in 1 .. Len(q) /\ At(q[k], l).ptr = "nil" /\ l - (out + 1) < SizeOf(q[k])
      BY <1>1, <1>3, <2>1 DEF PlPushOK
    <2> QED
      BY <2>1, <2>2, <2>3, <2>4, <2>5, <2>6 DEF PlPushOK
  <1>4. ASSUME PlPopOK(q, V, in, out, c, s, l, v, k) PROVE PlPopOK(q, V, in, out + 1, c, s, l, v, k)
    BY <1>4 DEF PlPopOK
  <1> QED
    BY <1>3, <1>4

\* The sides of the other threads, when a slot is written and when one is emptied.
PlWriteKeeps(p, q, V, in, out, c, s, l, v, k, i0) ==
  /\ PlPushOK(q, V, in, out, c, s, l, k) /\ (c \in {s.find, s.write} => l # i0) => PlPushOK(p, V, in, out, c, s, l, k)
  /\ PlPopOK(q, V, in, out, c, s, l, v, k) => PlPopOK(p, V, in, out, c, s, l, v, k)

PlEmptyKeeps(p, q, V, in, out, c, s, l, v, k, v0) ==
  /\ PlPushOK(q, V, in, out, c, s, l, k) => PlPushOK(p, V, in, out, c, s, l, k)
  /\ PlPopOK(q, V, in, out, c, s, l, v, k) /\ ~(c = s.cas /\ l = out /\ v = v0) => PlPopOK(p, V, in, out, c, s, l, v, k)

LEMMA PlWrittenSide ==
  ASSUME NEW V, NEW q, NEW in \in Nat, NEW out \in Nat, PlArray(q, V, in, out), V \cap {"nil", "uninit"} = {},
         NEW k0 \in 1 .. Len(q), NEW i0 \in out .. in - 1, NEW v0 \in V,
         At(q[k0], i0).ptr = "nil", i0 - out < SizeOf(q[k0]), NEW c, NEW s, NEW l, NEW v, NEW k
  PROVE  PlWriteKeeps(Written(q, k0, i0, v0), q, V, in, out, c, s, l, v, k, i0)
  <1> DEFINE p == Written(q, k0, i0, v0)
             n == SizeOf(q[k0])
  <1>1. /\ Len(p) = Len(q)
        /\ \A m \in 1 .. Len(q) : SizeOf(p[m]) = SizeOf(q[m])
        /\ \A m \in 1 .. Len(q) : \A i \in Nat : At(p[m], i) = At(q[m], i) \/ (m = k0 /\ i % n = i0 % n)
        /\ \A w \in V : \A j \in Nat : PlHas(p, w, j) <=> PlHas(q, w, j) \/ (w = v0 /\ j = i0)
        /\ PlNextFree(q, in, out) => PlNextFree(p, in, out)
    <2>1. PlAfterWrite(p, q, V, in, out, k0, i0, v0)
      BY PlWrittenArray
    <2> QED
      BY <2>1 DEF PlAfterWrite
  <1>2. Len(q) \in 1 .. Len(q) /\ \A m \in 1 .. Len(q) : SizeOf(q[m]) \in Nat \ {0}
    BY PlSizes DEF PlArray
  <1> HIDE DEF p
  <1>3. ASSUME PlPushOK(q, V, in, out, c, s, l, k), c \in {s.find, s.write} => l # i0
        PROVE  PlPushOK(p, V, in, out, c, s, l, k)
    <2>1. l \in Nat /\ l <= in
      BY <1>3 DEF PlPushOK
    <2>2. c = s.slot => (l = in => in - out + 1 < SizeOf(p[Len(p)]))
      BY <1>1, <1>2, <1>3 DEF PlPushOK
    <2>3. c = s.grown => k \in 1 .. Len(p) /\ (l = in => in - out < SizeOf(p[k]))
      BY <1>1, <1>3 DEF PlPushOK
    <2>4. c = s.push => (l = in => PlNextFree(p, in, out))
      BY <1>1, <1>3 DEF PlPushOK
    <2>5. c \in {s.find, s.write} => l \in out .. in - 1 /\ \A w \in V : ~PlHas(p, w, l)
      BY <1>1, <1>3, <2>1 DEF PlPushOK
    <2>6. ASSUME c = s.write 
          PROVE  k \in 1 .. Len(p) /\ At(p[k], l).ptr = "nil" /\ l - out < SizeOf(p[k])
      <3>1. /\ k \in 1 .. Len(q) /\ At(q[k], l).ptr = "nil" /\ l - out < SizeOf(q[k])
            /\ l \in out .. in - 1 /\ l # i0
        BY <1>3, <2>6 DEF PlPushOK
      <3>2. ~(k = k0 /\ l % n = i0 % n)
        <4> SUFFICES ASSUME k = k0, l % n = i0 % n PROVE FALSE
          OBVIOUS
        <4>1. l - i0 < n /\ i0 - l < n /\ n \in Nat \ {0} /\ l \in Int /\ i0 \in Int
          BY <1>2, <3>1
        <4>2. l = i0
          BY <4>1, PlSameSlot
        <4> QED
          BY <3>1, <4>2
      <3> QED
        BY <1>1, <2>1, <3>1, <3>2
    <2> QED
      BY <2>1, <2>2, <2>3, <2>4, <2>5, <2>6 DEF PlPushOK
  <1>4. ASSUME PlPopOK(q, V, in, out, c, s, l, v, k) PROVE PlPopOK(p, V, in, out, c, s, l, v, k)
    BY <1>1, <1>4 DEF PlPopOK
  <1> QED
    BY <1>3, <1>4 DEF p, PlWriteKeeps

LEMMA PlEmptiedSide ==
  ASSUME NEW V, NEW q, NEW in \in Nat, NEW out \in Nat, PlArray(q, V, in, out), V \cap {"nil", "uninit"} = {},
         NEW k0 \in 1 .. Len(q), NEW i0 \in Nat, NEW v0 \in V, At(q[k0], i0).ptr = v0,
         NEW p, p = PlPutIn(q, k0, i0, Slot("nil", NoIndex)), NEW c, NEW s, NEW l, NEW v, NEW k
  PROVE  PlEmptyKeeps(p, q, V, in, out, c, s, l, v, k, v0)
  <1>1. /\ Len(p) = Len(q)
        /\ \A m \in 1 .. Len(q) : SizeOf(p[m]) = SizeOf(q[m])
        /\ \A m \in 1 .. Len(q) : \A i \in Nat : At(q[m], i).ptr = "nil" => At(p[m], i).ptr = "nil"
        /\ \A w \in V : \A j \in Nat : PlHas(p, w, j) => PlHas(q, w, j)
        /\ \A w \in V : \A j \in Nat : w # v0 /\ PlHas(q, w, j) => PlHas(p, w, j)
        /\ PlNextFree(q, in, out) => PlNextFree(p, in, out)
    <2>1. PlAfterEmpty(p, q, V, in, out, v0)
      BY PlEmptiedArray
    <2> QED
      BY <2>1 DEF PlAfterEmpty
  <1>2. Len(q) \in 1 .. Len(q)
    BY PlSizes DEF PlArray
  <1>3. ASSUME PlPushOK(q, V, in, out, c, s, l, k)
        PROVE  PlPushOK(p, V, in, out, c, s, l, k)
    <2>1. l \in Nat /\ l <= in
      BY <1>3 DEF PlPushOK
    <2>2. c = s.slot => (l = in => in - out + 1 < SizeOf(p[Len(p)]))
      BY <1>1, <1>2, <1>3 DEF PlPushOK
    <2>3. c = s.grown => k \in 1 .. Len(p) /\ (l = in => in - out < SizeOf(p[k]))
      BY <1>1, <1>3 DEF PlPushOK
    <2>4. c = s.push => (l = in => PlNextFree(p, in, out))
      BY <1>1, <1>3 DEF PlPushOK
    <2>5. c \in {s.find, s.write} => l \in out .. in - 1 /\ \A w \in V : ~PlHas(p, w, l)
      BY <1>1, <1>3, <2>1 DEF PlPushOK
    <2>6. c = s.write => k \in 1 .. Len(p) /\ At(p[k], l).ptr = "nil" /\ l - out < SizeOf(p[k])
      BY <1>1, <1>3, <2>1 DEF PlPushOK
    <2> QED
      BY <2>1, <2>2, <2>3, <2>4, <2>5, <2>6 DEF PlPushOK
  <1>4. ASSUME PlPopOK(q, V, in, out, c, s, l, v, k), ~(c = s.cas /\ l = out /\ v = v0)
        PROVE  PlPopOK(p, V, in, out, c, s, l, v, k)
    BY <1>1, <1>4 DEF PlPopOK
  <1> QED
    BY <1>3, <1>4 DEF PlEmptyKeeps

LEMMA PlUpdateSide ==
  ASSUME NEW V, NEW q, NEW in \in Nat, NEW out \in Nat, PlArray(q, V, in, out), V \cap {"nil", "uninit"} = {},
         NEW i0 \in Nat, NEW c, NEW s, NEW l, NEW v, NEW k
  PROVE  /\ PlPushOK(q, V, in, out, c, s, l, k) => PlPushOK(Update(q, i0), V, in, out, c, s, l, k)
         /\ PlPopOK(q, V, in, out, c, s, l, v, k) => PlPopOK(Update(q, i0), V, in, out, c, s, l, v, k)
  <1> DEFINE p == Update(q, i0)
  <1>1. /\ Len(p) = Len(q)
        /\ \A m \in 1 .. Len(q) : SizeOf(p[m]) = SizeOf(q[m])
        /\ \A m \in 1 .. Len(q) : \A i \in Nat : At(q[m], i).ptr # "uninit" => At(p[m], i) = At(q[m], i)
        /\ \A w \in V : \A j \in Nat : PlHas(p, w, j) <=> PlHas(q, w, j)
        /\ PlNextFree(q, in, out) => PlNextFree(p, in, out)
    <2>1. PlAfterUpdate(p, q, V, in, out, i0)
      BY PlUpdateArray
    <2> QED
      BY <2>1 DEF PlAfterUpdate
  <1>2. Len(q) \in 1 .. Len(q)
    BY PlSizes DEF PlArray
  <1> HIDE DEF p
  <1>3. ASSUME PlPushOK(q, V, in, out, c, s, l, k)
        PROVE  PlPushOK(p, V, in, out, c, s, l, k)
    <2>1. l \in Nat /\ l <= in
      BY <1>3 DEF PlPushOK
    <2>2. c = s.slot => (l = in => in - out + 1 < SizeOf(p[Len(p)]))
      BY <1>1, <1>2, <1>3 DEF PlPushOK
    <2>3. c = s.grown => k \in 1 .. Len(p) /\ (l = in => in - out < SizeOf(p[k]))
      BY <1>1, <1>3 DEF PlPushOK
    <2>4. c = s.push => (l = in => PlNextFree(p, in, out))
      BY <1>1, <1>3 DEF PlPushOK
    <2>5. c \in {s.find, s.write} => l \in out .. in - 1 /\ \A w \in V : ~PlHas(p, w, l)
      BY <1>1, <1>3, <2>1 DEF PlPushOK
    <2>6. c = s.write => k \in 1 .. Len(p) /\ At(p[k], l).ptr = "nil" /\ l - out < SizeOf(p[k])
      BY <1>1, <1>3, <2>1 DEF PlPushOK
    <2> QED
      BY <2>1, <2>2, <2>3, <2>4, <2>5, <2>6 DEF PlPushOK
  <1>4. ASSUME PlPopOK(q, V, in, out, c, s, l, v, k)
        PROVE  PlPopOK(p, V, in, out, c, s, l, v, k)
    BY <1>1, <1>4 DEF PlPopOK
  <1> QED
    BY <1>3, <1>4 DEF p

-----------------------------------------------------------------------------
(* The invariant *)
PlPCs == 
  {"idle", "wait", "run", "abort",
   "a_out", "a_in", "a_test", "a_get", "a_none", "a_cas", "a_where", "a_null",
   "a_grow", "a_grown", "a_slot", "a_push", "a_find", "a_write",
   "r_out", "r_in", "r_test", "r_none", "r_cas", "r_where", "r_null",
   "r_grow", "r_grown", "r_slot", "r_push", "r_find", "r_write"}

PlLocals == [out : Nat, uin : [ev : Nat, rs : Nat], got : Resource \cup {"nil"},
             ev : PoolEvent \cup {"nil"}, impl : Nat]

PlTyped ==
  /\ uin \in [ev : Nat, rs : Nat] /\ evout \in Nat /\ rsout \in Nat
  /\ evout <= uin.ev /\ rsout <= uin.rs
  /\ data \in [PoolEvent -> Resource \cup {"nil"}]
  /\ todo \in [PoolEvent -> 0 .. PoolRounds]
  /\ ppc \in [PoolEvent -> PlPCs]
  /\ loc \in [PoolEvent -> PlLocals]

PlArrays ==
  /\ PlArray(evq, PoolEvent, uin.ev, evout)
  /\ PlArray(rsq, Resource, uin.rs, rsout)

\* What a thread relies on in the arrays.
PlSides(x) ==
  /\ PlPushOK(evq, PoolEvent, uin.ev, evout, ppc[x], PlA, loc[x].uin.ev, loc[x].impl)
  /\ PlPushOK(rsq, Resource, uin.rs, rsout, ppc[x], PlR, loc[x].uin.rs, loc[x].impl)
  /\ PlPopOK(rsq, Resource, uin.rs, rsout, ppc[x], PlA, loc[x].out, loc[x].got, loc[x].impl)
  /\ PlPopOK(evq, PoolEvent, uin.ev, evout, ppc[x], PlR, loc[x].out, loc[x].ev, loc[x].impl)

\* The index to pop was read before the inputs; who is about to push saw the other queue empty.
PlRead(x) ==
  /\ ppc[x] \in {"a_in", "a_test", "a_get", "a_cas", "a_none", "a_grow", "a_grown", "a_slot", "a_push"}
       => loc[x].out <= rsout
  /\ ppc[x] \in {"r_in", "r_test", "r_cas", "r_none", "r_grow", "r_grown", "r_slot", "r_push"}
       => loc[x].out <= evout
  /\ ppc[x] \in {"a_test", "a_get", "a_cas", "a_none"} => loc[x].out <= loc[x].uin.rs
  /\ ppc[x] \in {"r_test", "r_cas", "r_none"} => loc[x].out <= loc[x].uin.ev
  /\ ppc[x] \in {"a_grow", "a_grown", "a_slot", "a_push"} => loc[x].out = loc[x].uin.rs
  /\ ppc[x] \in {"r_grow", "r_grown", "r_slot", "r_push"} => loc[x].out = loc[x].uin.ev

PlHolds(x) ==
  /\ IF ppc[x] = "run" THEN data[x] \in Resource ELSE data[x] = "nil"
  /\ ppc[x] \in PoolCarrying => loc[x].got \in Resource

PlOwns(x, r) == data[x] = r \/ (ppc[x] \in PoolCarrying /\ loc[x].got = r)
PlPops(x, we) == ppc[x] \in {"r_where", "r_null"} /\ loc[x].ev = we

\* An index is pushed by one thread.
PlEvWriter(x) == ppc[x] \in {"a_find", "a_write"}
PlRsWriter(x) == ppc[x] \in {"r_find", "r_write"}
PlApart ==
  \A x, y \in PoolEvent : x # y =>
     /\ PlEvWriter(x) /\ PlEvWriter(y) => loc[x].uin.ev # loc[y].uin.ev
     /\ PlRsWriter(x) /\ PlRsWriter(y) => loc[x].uin.rs # loc[y].uin.rs

\* A resource has one owner, or one place in the queue.
PlOwned ==
  /\ \A r \in Resource : \A x, y \in PoolEvent : PlOwns(x, r) /\ PlOwns(y, r) => x = y
  /\ \A r \in Resource : \A x \in PoolEvent : PlOwns(x, r) => \A j \in Nat : j >= rsout => ~PlHas(rsq, r, j)
  /\ \A r \in Resource : \A i, j \in Nat : 
       i >= rsout /\ j >= rsout /\ PlHas(rsq, r, i) /\ PlHas(rsq, r, j) => i = j

\* An event that waits has one place in the queue, or one thread that has popped it.
PlWaits ==
  /\ \A we \in PoolEvent : \A j \in Nat : j >= evout /\ PlHas(evq, we, j) =>
       ppc[we] = "wait" /\ \A x \in PoolEvent : ~PlPops(x, we)
  /\ \A x \in PoolEvent : ppc[x] \in {"r_where", "r_null"} => loc[x].ev \in PoolEvent /\ ppc[loc[x].ev] = "wait"
  /\ \A we \in PoolEvent : \A x, y \in PoolEvent : PlPops(x, we) /\ PlPops(y, we) => x = y
  /\ \A we \in PoolEvent : \A i, j \in Nat : 
       i >= evout /\ j >= evout /\ PlHas(evq, we, i) /\ PlHas(evq, we, j) => i = j

PlInv ==
  /\ PlTyped /\ PlArrays /\ PoolNoIdle
  /\ \A x \in PoolEvent : PlSides(x) /\ PlRead(x) /\ PlHolds(x)
  /\ PlApart /\ PlOwned /\ PlWaits

\* Looking an index up.
PlLooksUp(q, V, in, out, i) ==
  /\ Where(q, i) \in 1 .. Len(q) /\ Get(q, i) = At(q[Where(q, i)], i) /\ PlIs(q, i, Where(q, i))
  /\ Get(q, i).ptr \in V \cup {"nil"}
  /\ Len(q) \in Nat /\ \A k \in 1 .. Len(q) : SizeOf(q[k]) \in Nat \ {0}
  /\ i \in out .. in - 1 => i - out < SizeOf(q[Where(q, i)])
  /\ i \in out .. in - 1 /\ Get(q, i).ptr # "nil" => PlHas(q, Get(q, i).ptr, i)

LEMMA PlLookup ==
  ASSUME NEW V, NEW q, NEW in \in Nat, NEW out \in Nat, PlArray(q, V, in, out), V \cap {"nil", "uninit"} = {},
         NEW i \in Nat
  PROVE  PlLooksUp(q, V, in, out, i)
  <1>1. PICK k \in 1 .. Len(q) : PlIs(q, i, k)
    BY DEF PlArray, PlFound
  <1>2. Where(q, i) = k /\ Get(q, i) = At(q[k], i)
    BY <1>1, PlWhere DEF PlArray
  <1>3. At(q[k], i) \in PlSlots(V)
    BY PlSizes DEF PlArray
  <1>4. At(q[k], i).ptr # "uninit"
    BY <1>1 DEF PlIs
  <1>5. At(q[k], i).ptr \in V \cup {"nil"}
    BY <1>3, <1>4 DEF PlSlots
  <1>6. Len(q) \in Nat /\ \A m \in 1 .. Len(q) : SizeOf(q[m]) \in Nat \ {0}
    BY PlSizes DEF PlArray
  <1>7. ASSUME i \in out .. in - 1
        PROVE  i - out < SizeOf(q[k]) /\ (At(q[k], i).ptr # "nil" => At(q[k], i).at = i)
    BY <1>1, <1>7 DEF PlArray, PlLive
  <1>8. ASSUME i \in out .. in - 1, At(q[k], i).ptr # "nil"
        PROVE  PlHas(q, At(q[k], i).ptr, i)
    <2>1. At(q[k], i).at = i
      BY <1>7, <1>8
    <2>2. At(q[k], i) = [ptr |-> At(q[k], i).ptr, at |-> At(q[k], i).at]
      BY <1>3 DEF PlSlots
    <2>3. At(q[k], i) = Slot(At(q[k], i).ptr, i)
      BY <2>1, <2>2 DEF Slot
    <2> QED
      BY <2>3 DEF PlHas
  <1> QED
    BY <1>1, <1>2, <1>5, <1>6, <1>7, <1>8 DEF PlLooksUp

\* An entry was pushed before.
LEMMA PlHasBefore ==
  ASSUME NEW V, NEW q, NEW in \in Nat, NEW out \in Nat, PlArray(q, V, in, out), V \cap {"nil", "uninit"} = {},
         NEW v \in V, NEW j \in Nat, PlHas(q, v, j)
  PROVE  j < in
  <1>1. PICK k \in 1 .. Len(q), i \in Nat : At(q[k], i) = Slot(v, j)
    BY DEF PlHas
  <1>2. At(q[k], i).ptr \in V /\ At(q[k], i).at = j
    BY <1>1 DEF Slot
  <1> QED
    BY <1>2 DEF PlArray, PlMarked

LEMMA PlValues ==
  /\ PoolEvent \cap {"nil", "uninit"} = {} /\ Resource \cap {"nil", "uninit"} = {}
  /\ "nil" \notin PoolEvent /\ "nil" \notin Resource
  BY LFPoolAssumption

\* One implementation, with entries from the first slot on.
PlFull(f, V, n, in) ==
  /\ f \in [0 .. n - 1 -> PlSlots(V)]
  /\ \A j \in 0 .. n - 1 : IF j < in THEN f[j].ptr \in V /\ f[j].at = j ELSE f[j] = Slot("nil", NoIndex)

PlStart(q, f, V, in) ==
  /\ PlArray(q, V, in, 0)
  /\ \A v \in V : \A j \in Nat : PlHas(q, v, j) <=> j \in 0 .. in - 1 /\ f[j].ptr = v

LEMMA PlFirst ==
  ASSUME NEW V, V \cap {"nil", "uninit"} = {}, NEW n \in Nat \ {0}, NEW in \in Nat, in < n, 
         NEW f, PlFull(f, V, n, in)
  PROVE  PlStart(<<f>>, f, V, in)
  <1> DEFINE q == <<f>>
  <1>0. /\ f \in [0 .. n - 1 -> PlSlots(V)]
        /\ \A j \in 0 .. n - 1 : IF j < in THEN f[j].ptr \in V /\ f[j].at = j ELSE f[j] = Slot("nil", NoIndex)
    BY DEF PlFull
  <1>1. Len(q) = 1 /\ q[1] = f /\ 1 .. Len(q) = {1}
    OBVIOUS
  <1>2. f \in PlImpls(V)
    BY <1>0 DEF PlImpls
  <1>3. SizeOf(f) = n
    BY <1>0, FS_Interval DEF SizeOf
  <1>5. q \in Seq(PlImpls(V))
    BY <1>2
  <1>4. \A i \in Nat : \E j \in 0 .. n - 1 : At(f, i) = f[j]
    <2> TAKE i \in Nat
    <2>1. i % n \in 0 .. n - 1
      OBVIOUS
    <2> QED
      BY <2>1, <1>3 DEF At
  <1>6. \A i \in 0 .. n - 1 : At(f, i) = f[i]
    <2> TAKE i \in 0 .. n - 1
    <2>1. i % n = i
      OBVIOUS
    <2> QED
      BY <2>1, <1>3 DEF At
  <1>7. PlShape(q, V)
    <2>1. n = 1 * n /\ 1 \in Nat \ {0}
      OBVIOUS
    <2> HIDE DEF q
    <2> QED
      BY <1>1, <1>3, <1>5, <2>1 DEF PlShape
  <1> HIDE DEF q
  <1>8. \A j \in 0 .. n - 1 : f[j].ptr \in V \cup {"nil"} /\ f[j].ptr # "uninit"
    BY <1>0 DEF Slot
  <1>9. \A i \in Nat : PlIs(q, i, 1)
    <2> TAKE i \in Nat
    <2>1. At(q[1], i).ptr # "uninit"
      BY <1>1, <1>4, <1>8
    <2>2. 1 + 1 .. Len(q) = {}
      BY <1>1
    <2> QED
      BY <1>1, <2>1, <2>2 DEF PlIs
  <1>10. PlFound(q)
    BY <1>1, <1>9 DEF PlFound
  <1>11. \A j \in 0 .. n - 1 : (f[j].ptr = "nil" => f[j].at = NoIndex) /\ (f[j].ptr \in V => f[j].at = j /\ j < in)
    <2> TAKE j \in 0 .. n - 1
    <2>1. CASE j < in
      BY <1>0, <2>1
    <2>2. CASE ~(j < in)
      BY <1>0, <2>2 DEF Slot
    <2> QED
      BY <2>1, <2>2
  <1>12. PlMarked(q, V, in)
    BY <1>1, <1>4, <1>8, <1>11 DEF PlMarked
  <1>13. PlLive(q, in, 0)
    <2> SUFFICES ASSUME NEW j \in 0 .. in - 1 
                 PROVE  j - 0 < SizeOf(f) /\ (At(f, j).ptr # "nil" => At(f, j).at = j)
      BY <1>1 DEF PlLive
    <2>1. j \in 0 .. n - 1 /\ j \in Nat
      OBVIOUS
    <2> QED
      BY <2>1, <1>0, <1>3, <1>6
  <1>14. PlArray(q, V, in, 0)
    BY <1>1, <1>3, <1>7, <1>10, <1>12, <1>13 DEF PlArray
  <1>15. ASSUME NEW v \in V, NEW j \in Nat
         PROVE  PlHas(q, v, j) <=> j \in 0 .. in - 1 /\ f[j].ptr = v
    <2>1. ASSUME PlHas(q, v, j) PROVE j \in 0 .. in - 1 /\ f[j].ptr = v
      <3>1. PICK i \in Nat : At(f, i) = Slot(v, j)
        BY <1>1, <2>1 DEF PlHas
      <3>2. PICK l \in 0 .. n - 1 : f[l] = Slot(v, j)
        BY <3>1, <1>4
      <3>3. f[l].ptr = v /\ f[l].at = j
        BY <3>2 DEF Slot
      <3> QED
        BY <3>3, <1>11
    <2>2. ASSUME j \in 0 .. in - 1, f[j].ptr = v PROVE PlHas(q, v, j)
      <3>1. At(f, j) = f[j] /\ f[j] \in PlSlots(V) /\ f[j].at = j
        BY <1>0, <1>6, <2>2
      <3>2. f[j] = Slot(v, j)
        BY <3>1, <2>2 DEF Slot, PlSlots
      <3> QED
        BY <3>1, <3>2, <1>1 DEF PlHas
    <2> QED
      BY <2>1, <2>2
  <1> QED
    BY <1>14, <1>15 DEF q, PlStart

LEMMA PlInitInv == PoolInit => PlInv
  <1> SUFFICES ASSUME PoolInit PROVE PlInv
    OBVIOUS
  <1> DEFINE N == Cardinality(Resource)
  <1>1. N \in Nat /\ N < FirstSize /\ FirstSize \in Nat \ {0}
    BY LFPoolAssumption, FS_CardinalityType
  <1>2. PICK order \in [1 .. N -> Resource] :
          /\ \A i, j \in DOMAIN order : order[i] = order[j] => i = j
          /\ rsq = <<[j \in 0 .. FirstSize - 1 |->
                       IF j + 1 \in DOMAIN order THEN Slot(order[j + 1], j) ELSE Slot("nil", NoIndex)]>>
    BY DEF PoolInit
  <1> HIDE DEF N
  <1> DEFINE f == [j \in 0 .. FirstSize - 1 |->
                     IF j + 1 \in DOMAIN order THEN Slot(order[j + 1], j) ELSE Slot("nil", NoIndex)]
             g == Impl(FirstSize, "nil")
  <1>3. f \in [0 .. FirstSize - 1 -> PlSlots(Resource)]
    <2>1. \A j \in 0 .. FirstSize - 1 : f[j] \in PlSlots(Resource)
      BY <1>1 DEF Slot, PlSlots, NoIndex
    <2> QED
      BY <2>1
  <1>4. \A j \in 0 .. FirstSize - 1 : 
          IF j < N THEN f[j].ptr = order[j + 1] /\ f[j].ptr \in Resource /\ f[j].at = j 
                   ELSE f[j] = Slot("nil", NoIndex)
    BY <1>1 DEF Slot
  <1>5. rsq = <<f>>
    BY <1>2
  <1> HIDE DEF f
  <1>6. /\ PlArray(rsq, Resource, N, 0)
        /\ \A v \in Resource : \A j \in Nat : PlHas(rsq, v, j) <=> j \in 0 .. N - 1 /\ f[j].ptr = v
    <2>1. PlFull(f, Resource, FirstSize, N)
      BY <1>3, <1>4 DEF PlFull
    <2>2. PlStart(<<f>>, f, Resource, N)
      BY <2>1, <1>1, PlFirst, PlValues
    <2> QED
      BY <2>2, <1>5 DEF PlStart
  <1>7. g \in [0 .. FirstSize - 1 -> PlSlots(PoolEvent)] /\ \A j \in 0 .. FirstSize - 1 : g[j] = Slot("nil", NoIndex)
    BY <1>1 DEF Impl, Slot, PlSlots, NoIndex
  <1> HIDE DEF g
  <1>8. evq = <<g>>
    BY DEF PoolInit, g
  <1>9. PlFull(g, PoolEvent, FirstSize, 0)
    BY <1>7 DEF PlFull
  <1>10. /\ PlArray(evq, PoolEvent, 0, 0)
         /\ \A v \in PoolEvent : \A j \in Nat : PlHas(evq, v, j) <=> j \in 0 .. 0 - 1 /\ g[j].ptr = v
    <2>1. PlStart(<<g>>, g, PoolEvent, 0)
      BY <1>1, <1>9, PlFirst, PlValues
    <2> QED
      BY <2>1, <1>8 DEF PlStart
  <1>11. /\ uin = [ev |-> 0, rs |-> N] /\ evout = 0 /\ rsout = 0
         /\ \A x \in PoolEvent : data[x] = "nil" /\ ppc[x] = "idle" /\ loc[x] = PoolLocals
    BY DEF PoolInit, N
  <1>12. PlTyped
    BY <1>1, <1>11, LFPoolAssumption DEF PoolInit, PlTyped, PlPCs, PlLocals, PoolLocals
  <1>13. PlArrays /\ PoolNoIdle
    BY <1>6, <1>10, <1>11 DEF PlArrays, PoolNoIdle
  <1>14. ASSUME NEW x \in PoolEvent PROVE PlSides(x) /\ PlRead(x) /\ PlHolds(x)
    BY <1>1, <1>11 DEF PlSides, PlRead, PlHolds, PlPushOK, PlPopOK, PlA, PlR, PoolLocals, PoolCarrying
  <1>15. PlApart
    BY <1>11 DEF PlApart, PlEvWriter, PlRsWriter
  <1>16. PlOwned
    <2>1. \A r \in Resource : \A x \in PoolEvent : ~PlOwns(x, r)
      BY <1>11, PlValues DEF PlOwns, PoolCarrying
    <2>2. ASSUME NEW r \in Resource, NEW i \in Nat, NEW j \in Nat, PlHas(rsq, r, i), PlHas(rsq, r, j)
          PROVE  i = j
      <3>1. i \in 0 .. N - 1 /\ j \in 0 .. N - 1 /\ f[i].ptr = r /\ f[j].ptr = r
        BY <1>6, <2>2
      <3>2. order[i + 1] = order[j + 1] /\ i + 1 \in DOMAIN order /\ j + 1 \in DOMAIN order
        BY <1>1, <1>4, <3>1
      <3> QED
        BY <1>2, <3>1, <3>2
    <2> QED
      BY <2>1, <2>2 DEF PlOwned
  <1>17. PlWaits
    BY <1>10, <1>11 DEF PlWaits, PlPops
  <1> QED
    BY <1>12, <1>13, <1>14, <1>15, <1>16, <1>17 DEF PlInv

\* A step of x that leaves the queues alone, takes no part in a wait and makes x owner of nothing new.
LEMMA PlLocalStep ==
  ASSUME PlInv, NEW x \in PoolEvent, UNCHANGED Queues2, PlTyped',
         \A y \in PoolEvent : y # x => ppc'[y] = ppc[y] /\ loc'[y] = loc[y] /\ data'[y] = data[y],
         PlSides(x)', PlRead(x)', PlHolds(x)',
         \A r \in Resource : PlOwns(x, r)' => PlOwns(x, r),
         \A we \in PoolEvent : PlPops(x, we)' => PlPops(x, we),
         ppc'[x] \in {"r_where", "r_null"} => ppc[x] \in {"r_where", "r_null"} /\ loc'[x].ev = loc[x].ev,
         ppc[x] # "wait",
         PlEvWriter(x)' => PlEvWriter(x) /\ loc'[x].uin = loc[x].uin,
         PlRsWriter(x)' => PlRsWriter(x) /\ loc'[x].uin = loc[x].uin
  PROVE  PlInv'
  <1>1. evq' = evq /\ rsq' = rsq /\ uin' = uin /\ evout' = evout /\ rsout' = rsout
    BY DEF Queues2
  <1>2. PlArrays' /\ PoolNoIdle'
    BY <1>1 DEF PlInv, PlArrays, PoolNoIdle
  <1>3. ASSUME NEW y \in PoolEvent, y # x
        PROVE  /\ PlSides(y)' /\ PlRead(y)' /\ PlHolds(y)'
               /\ \A r : PlOwns(y, r)' <=> PlOwns(y, r)
               /\ \A we : PlPops(y, we)' <=> PlPops(y, we)
               /\ PlEvWriter(y)' <=> PlEvWriter(y)
               /\ PlRsWriter(y)' <=> PlRsWriter(y)
    <2>1. ppc'[y] = ppc[y] /\ loc'[y] = loc[y] /\ data'[y] = data[y]
      BY <1>3
    <2>2. PlSides(y)'
      BY <1>1, <2>1 DEF PlInv, PlSides
    <2>3. PlRead(y)'
      BY <1>1, <2>1 DEF PlInv, PlRead
    <2>4. PlHolds(y)'
      BY <2>1 DEF PlInv, PlHolds
    <2> QED
      BY <2>1, <2>2, <2>3, <2>4 DEF PlOwns, PlPops, PlEvWriter, PlRsWriter
  <1>4. \A y \in PoolEvent : PlSides(y)' /\ PlRead(y)' /\ PlHolds(y)'
    BY <1>3
  <1>5. PlApart'
    <2> SUFFICES ASSUME NEW y \in PoolEvent, NEW z \in PoolEvent, y # z
                 PROVE  /\ PlEvWriter(y)' /\ PlEvWriter(z)' => loc'[y].uin.ev # loc'[z].uin.ev
                        /\ PlRsWriter(y)' /\ PlRsWriter(z)' => loc'[y].uin.rs # loc'[z].uin.rs
      BY DEF PlApart
    <2>1. \A w \in PoolEvent : /\ PlEvWriter(w)' => PlEvWriter(w) /\ loc'[w].uin = loc[w].uin
                               /\ PlRsWriter(w)' => PlRsWriter(w) /\ loc'[w].uin = loc[w].uin
      BY <1>3
    <2> QED
      BY <2>1 DEF PlInv, PlApart
  <1>6. \A y \in PoolEvent : \A r \in Resource : PlOwns(y, r)' => PlOwns(y, r)
    BY <1>3
  <1>7. PlOwned'
    BY <1>1, <1>6 DEF PlInv, PlOwned
  <1>8. \A y \in PoolEvent : \A we \in PoolEvent : PlPops(y, we)' => PlPops(y, we)
    BY <1>3
  <1>9. \A we \in PoolEvent : ppc[we] = "wait" => ppc'[we] = "wait"
    BY <1>3
  <1>10. \A y \in PoolEvent : ppc'[y] \in {"r_where", "r_null"} 
           => ppc[y] \in {"r_where", "r_null"} /\ loc'[y].ev = loc[y].ev
    OBVIOUS
  <1>11. PlWaits'
    BY <1>1, <1>8, <1>9, <1>10 DEF PlInv, PlWaits
  <1> QED
    BY <1>2, <1>4, <1>5, <1>7, <1>11 DEF PlInv

-----------------------------------------------------------------------------
(* The steps that leave the queues alone *)
LEMMA PlMove ==
  ASSUME PlTyped, NEW x \in PoolEvent, NEW from, NEW to, At2(x, from, to)
  PROVE  /\ ppc[x] = from /\ ppc'[x] = to /\ \A y \in PoolEvent : y # x => ppc'[y] = ppc[y]
         /\ to \in PlPCs => ppc' \in [PoolEvent -> PlPCs]
  BY DEF At2, PlTyped

LEMMA PlSet ==
  ASSUME PlTyped, NEW x \in PoolEvent, NEW l, Set(x, l)
  PROVE  /\ loc'[x] = l /\ \A y \in PoolEvent : y # x => loc'[y] = loc[y]
         /\ l \in PlLocals => loc' \in [PoolEvent -> PlLocals]
  BY DEF Set, PlTyped

LEMMA PlAcquireInv == ASSUME PlInv, NEW x \in PoolEvent, PoolAcquire(x) PROVE PlInv'
  <1>1. PlTyped /\ PlSides(x) /\ PlHolds(x)
    BY DEF PlInv
  <1>2. /\ ppc[x] = "idle" /\ ppc'[x] = "a_out" /\ \A y \in PoolEvent : y # x => ppc'[y] = ppc[y]
        /\ ppc' \in [PoolEvent -> PlPCs]
    BY <1>1, PlMove DEF PoolAcquire, PlPCs
  <1>3. /\ UNCHANGED <<Queues2, loc>> /\ data' = [data EXCEPT ![x] = "nil"]
        /\ todo[x] > 0 /\ todo' = [todo EXCEPT ![x] = @ - 1]
    BY DEF PoolAcquire
  <1>4. data'[x] = "nil" /\ data' \in [PoolEvent -> Resource \cup {"nil"}] /\ \A y \in PoolEvent : y # x => data'[y] = data[y]
    BY <1>1, <1>3 DEF PlTyped
  <1>5. todo' \in [PoolEvent -> 0 .. PoolRounds]
    BY <1>1, <1>3, LFPoolAssumption DEF PlTyped
  <1>6. PlTyped'
    BY <1>1, <1>2, <1>3, <1>4, <1>5 DEF PlTyped, Queues2
  <1>7. PlSides(x)'
    BY <1>1, <1>2, <1>3 DEF PlSides, PlPushOK, PlPopOK, PlA, PlR, Queues2
  <1>8. PlRead(x)' /\ PlHolds(x)'
    BY <1>2, <1>4 DEF PlRead, PlHolds, PoolCarrying
  <1>9. /\ \A r \in Resource : ~PlOwns(x, r)'
        /\ \A we \in PoolEvent : ~PlPops(x, we)'
        /\ ~PlEvWriter(x)' /\ ~PlRsWriter(x)'
    BY <1>2, <1>4, PlValues DEF PlOwns, PlPops, PlEvWriter, PlRsWriter, PoolCarrying
  <1> QED
    BY <1>2, <1>3, <1>4, <1>6, <1>7, <1>8, <1>9, PlLocalStep

LEMMA PlSetSame == ASSUME PlTyped, NEW x \in PoolEvent, UNCHANGED loc PROVE Set(x, loc[x])
  BY DEF Set, PlTyped

\* A step of x that changes nothing but its program counter and its locals.
PlSidesAt(c, l) ==
  /\ PlPushOK(evq, PoolEvent, uin.ev, evout, c, PlA, l.uin.ev, l.impl)
  /\ PlPushOK(rsq, Resource, uin.rs, rsout, c, PlR, l.uin.rs, l.impl)
  /\ PlPopOK(rsq, Resource, uin.rs, rsout, c, PlA, l.out, l.got, l.impl)
  /\ PlPopOK(evq, PoolEvent, uin.ev, evout, c, PlR, l.out, l.ev, l.impl)

PlReadAt(c, l) ==
  /\ c \in {"a_in", "a_test", "a_get", "a_cas", "a_none", "a_grow", "a_grown", "a_slot", "a_push"}
       => l.out <= rsout
  /\ c \in {"r_in", "r_test", "r_cas", "r_none", "r_grow", "r_grown", "r_slot", "r_push"}
       => l.out <= evout
  /\ c \in {"a_test", "a_get", "a_cas", "a_none"} => l.out <= l.uin.rs
  /\ c \in {"r_test", "r_cas", "r_none"} => l.out <= l.uin.ev
  /\ c \in {"a_grow", "a_grown", "a_slot", "a_push"} => l.out = l.uin.rs
  /\ c \in {"r_grow", "r_grown", "r_slot", "r_push"} => l.out = l.uin.ev

PlCarries(from, to, k, l) ==
  /\ from \notin {"run", "wait"} /\ to \in PlPCs \ {"run"} /\ l \in PlLocals
  /\ to \in PoolCarrying => from \in PoolCarrying /\ l.got = k.got
  /\ to \in {"r_where", "r_null"} => from \in {"r_where", "r_null"} /\ l.ev = k.ev
  /\ to \in {"a_find", "a_write"} => from \in {"a_find", "a_write"} /\ l.uin = k.uin
  /\ to \in {"r_find", "r_write"} => from \in {"r_find", "r_write"} /\ l.uin = k.uin

LEMMA PlGoes ==
  ASSUME PlInv, NEW x \in PoolEvent, UNCHANGED <<Queues2, data, todo>>, NEW from, NEW to, At2(x, from, to),
         NEW l, Set(x, l), PlCarries(from, to, loc[x], l), PlSidesAt(to, l), PlReadAt(to, l)
  PROVE  PlInv'
  <1>1. PlTyped /\ PlHolds(x)
    BY DEF PlInv
  <1>2. /\ ppc[x] = from /\ ppc'[x] = to /\ \A y \in PoolEvent : y # x => ppc'[y] = ppc[y]
        /\ ppc' \in [PoolEvent -> PlPCs]
    BY <1>1, PlMove DEF PlCarries
  <1>3. loc'[x] = l /\ (\A y \in PoolEvent : y # x => loc'[y] = loc[y]) /\ loc' \in [PoolEvent -> PlLocals]
    BY <1>1, PlSet DEF PlCarries
  <1>4. PlTyped'
    BY <1>1, <1>2, <1>3 DEF PlTyped, Queues2
  <1>5. PlSides(x)'
    BY <1>2, <1>3 DEF PlSides, PlSidesAt, Queues2
  <1>6. PlRead(x)'
    BY <1>2, <1>3 DEF PlRead, PlReadAt, Queues2
  <1>7. PlHolds(x)'
    BY <1>1, <1>2, <1>3 DEF PlHolds, PlCarries
  <1>8. \A r \in Resource : PlOwns(x, r)' => PlOwns(x, r)
    BY <1>2, <1>3 DEF PlOwns, PlCarries
  <1>9. /\ \A we \in PoolEvent : PlPops(x, we)' => PlPops(x, we)
        /\ ppc'[x] \in {"r_where", "r_null"} => ppc[x] \in {"r_where", "r_null"} /\ loc'[x].ev = loc[x].ev
    BY <1>2, <1>3 DEF PlPops, PlCarries
  <1>10. /\ PlEvWriter(x)' => PlEvWriter(x) /\ loc'[x].uin = loc[x].uin
         /\ PlRsWriter(x)' => PlRsWriter(x) /\ loc'[x].uin = loc[x].uin
    BY <1>2, <1>3 DEF PlEvWriter, PlRsWriter, PlCarries
  <1>11. ppc[x] # "wait"
    BY <1>2 DEF PlCarries
  <1> QED
    BY <1>2, <1>3, <1>4, <1>5, <1>6, <1>7, <1>8, <1>9, <1>10, <1>11, PlLocalStep

\* The facts about x that the steps use.
LEMMA PlFacts ==
  ASSUME PlInv, NEW x \in PoolEvent
  PROVE  /\ PlTyped /\ loc[x] \in PlLocals /\ loc[x].uin.ev \in Nat /\ loc[x].uin.rs \in Nat /\ loc[x].out \in Nat
         /\ uin.ev \in Nat /\ uin.rs \in Nat /\ evout \in Nat /\ rsout \in Nat /\ evout <= uin.ev /\ rsout <= uin.rs
         /\ PlSidesAt(ppc[x], loc[x]) /\ PlReadAt(ppc[x], loc[x]) /\ PlHolds(x)
         /\ PlArray(evq, PoolEvent, uin.ev, evout) /\ PlArray(rsq, Resource, uin.rs, rsout)
         /\ loc[x].uin.ev <= uin.ev /\ loc[x].uin.rs <= uin.rs
  <1>1. PlTyped /\ PlSides(x) /\ PlRead(x) /\ PlHolds(x) /\ PlArrays
    BY DEF PlInv
  <1>2. loc[x] \in PlLocals /\ loc[x].uin.ev \in Nat /\ loc[x].uin.rs \in Nat /\ loc[x].out \in Nat
    BY <1>1 DEF PlTyped, PlLocals
  <1>3. uin.ev \in Nat /\ uin.rs \in Nat /\ evout \in Nat /\ rsout \in Nat /\ evout <= uin.ev /\ rsout <= uin.rs
    BY <1>1 DEF PlTyped
  <1>4. PlSidesAt(ppc[x], loc[x])
    BY <1>1 DEF PlSides, PlSidesAt
  <1>5. PlReadAt(ppc[x], loc[x])
    BY <1>1 DEF PlRead, PlReadAt
  <1>6. loc[x].uin.ev <= uin.ev /\ loc[x].uin.rs <= uin.rs
    BY <1>1 DEF PlSides, PlPushOK
  <1> QED
    BY <1>1, <1>2, <1>3, <1>4, <1>5, <1>6 DEF PlArrays

\* No stage: nothing is relied on but the indices.
PlQuiet == {"idle", "wait", "run", "abort", "a_out", "a_in", "a_test", "a_none", "a_where", "a_grow",
            "r_out", "r_in", "r_test", "r_none", "r_where", "r_grow"}
LEMMA PlQuietSides ==
  ASSUME NEW c \in PlQuiet, NEW l \in PlLocals, l.uin.ev <= uin.ev, l.uin.rs <= uin.rs
  PROVE  PlSidesAt(c, l)
  <1>1. l.uin.ev \in Nat /\ l.uin.rs \in Nat /\ l.out \in Nat
    BY DEF PlLocals
  <1> QED
    BY <1>1 DEF PlQuiet, PlSidesAt, PlPushOK, PlPopOK, PlA, PlR

LEMMA PlReadOutInv == ASSUME PlInv, NEW x \in PoolEvent, ReadOut(x) PROVE PlInv'
  <1>1. PICK from, to, n : 
          /\ At2(x, from, to) /\ Set(x, [loc[x] EXCEPT !.out = n]) 
          /\ <<from, to, n>> = <<"a_out", "a_in", rsout>> \/ <<from, to, n>> = <<"r_out", "r_in", evout>>
    BY DEF ReadOut
  <1> DEFINE l == [loc[x] EXCEPT !.out = n]
  <1>2. l \in PlLocals /\ l.out = n /\ l.uin = loc[x].uin /\ l.got = loc[x].got
    BY <1>1, PlFacts DEF PlLocals
  <1>3. Set(x, l)
    BY <1>1
  <1> HIDE DEF l
  <1>4. PlCarries(from, to, loc[x], l)
    BY <1>1, <1>2 DEF PlCarries, PlPCs, PoolCarrying
  <1>5. PlSidesAt(to, l)
    BY <1>1, <1>2, PlFacts, PlQuietSides DEF PlQuiet
  <1>6. PlReadAt(to, l)
    BY <1>1, <1>2, PlFacts DEF PlReadAt
  <1> QED
    BY <1>1, <1>3, <1>4, <1>5, <1>6, PlGoes DEF ReadOut

LEMMA PlReadInInv == ASSUME PlInv, NEW x \in PoolEvent, ReadIn(x) PROVE PlInv'
  <1>1. PICK from, to : 
          /\ At2(x, from, to) /\ Set(x, [loc[x] EXCEPT !.uin = uin]) 
          /\ <<from, to>> = <<"a_in", "a_test">> \/ <<from, to>> = <<"r_in", "r_test">>
    BY DEF ReadIn
  <1> DEFINE l == [loc[x] EXCEPT !.uin = uin]
  <1>2. l \in PlLocals /\ l.out = loc[x].out /\ l.uin = uin /\ l.got = loc[x].got
    BY <1>1, PlFacts DEF PlLocals, PlTyped
  <1>3. Set(x, l)
    BY <1>1
  <1> HIDE DEF l
  <1>4. PlCarries(from, to, loc[x], l)
    BY <1>1, <1>2 DEF PlCarries, PlPCs, PoolCarrying
  <1>5. PlSidesAt(to, l)
    BY <1>1, <1>2, PlFacts, PlQuietSides DEF PlQuiet
  <1>6. ppc[x] = from
    BY <1>1 DEF At2
  <1>7. PlReadAt(to, l)
    BY <1>1, <1>2, <1>6, PlFacts DEF PlReadAt
  <1> QED
    BY <1>1, <1>3, <1>4, <1>5, <1>7, PlGoes DEF ReadIn

LEMMA PlAcquireTestInv == ASSUME PlInv, NEW x \in PoolEvent, AcquireTest(x) PROVE PlInv'
  <1> DEFINE to == IF uin.ev = evout /\ uin.rs # rsout THEN "a_get" ELSE "a_none"
  <1>1. At2(x, "a_test", to) /\ UNCHANGED <<Queues2, data, todo>> /\ UNCHANGED loc /\ ppc[x] = "a_test"
    BY DEF AcquireTest, At2
  <1>2. Set(x, loc[x])
    BY <1>1, PlFacts, PlSetSame
  <1>3. to \in {"a_get", "a_none"} /\ (to = "a_get" => uin.rs # rsout)
    OBVIOUS
  <1> HIDE DEF to
  <1>4. PlCarries("a_test", to, loc[x], loc[x])
    BY <1>3, PlFacts DEF PlCarries, PlPCs, PoolCarrying
  <1>5. PlReadAt(to, loc[x])
    BY <1>1, <1>3, PlFacts DEF PlReadAt
  <1>6. PlSidesAt(to, loc[x])
    <2>1. CASE to = "a_none"
      BY <2>1, PlFacts, PlQuietSides DEF PlQuiet
    <2>2. CASE to = "a_get"
      <3>1. loc[x].out <= rsout /\ rsout < uin.rs
        BY <1>3, <1>5, <2>2, PlFacts DEF PlReadAt
      <3>2. loc[x].out < uin.rs
        BY <3>1, PlFacts
      <3> QED
        BY <2>2, <3>1, <3>2, PlFacts DEF PlSidesAt, PlPushOK, PlPopOK, PlA, PlR
    <2> QED
      BY <1>3, <2>1, <2>2
  <1> QED
    BY <1>1, <1>2, <1>4, <1>5, <1>6, PlGoes

LEMMA PlAcquireGetInv == ASSUME PlInv, NEW x \in PoolEvent, AcquireGet(x) PROVE PlInv'
  <1> DEFINE r == Get(rsq, loc[x].out).ptr
             to == IF r = "nil" THEN "a_none" ELSE "a_cas"
             l == [loc[x] EXCEPT !.got = r]
  <1>1. At2(x, "a_get", to) /\ UNCHANGED <<Queues2, data, todo>> /\ Set(x, l) /\ ppc[x] = "a_get"
    BY DEF AcquireGet, At2
  <1>2. /\ r \in Resource \cup {"nil"}
        /\ loc[x].out \in rsout .. uin.rs - 1 /\ r # "nil" => PlHas(rsq, r, loc[x].out)
    <2>1. PlLooksUp(rsq, Resource, uin.rs, rsout, loc[x].out)
      BY PlFacts, PlLookup, PlValues
    <2> QED
      BY <2>1 DEF PlLooksUp
  <1>3. to \in {"a_cas", "a_none"} /\ (to = "a_cas" => r \in Resource)
    BY <1>2
  <1> HIDE DEF r
  <1>4. l \in PlLocals /\ l.out = loc[x].out /\ l.uin = loc[x].uin /\ l.got = r /\ l.impl = loc[x].impl /\ l.ev = loc[x].ev
    BY <1>2, PlFacts DEF PlLocals
  <1> HIDE DEF l, to
  <1>5. PlCarries("a_get", to, loc[x], l)
    BY <1>3, <1>4, PlFacts DEF PlCarries, PlPCs, PoolCarrying
  <1>6. PlReadAt(to, l)
    BY <1>1, <1>3, <1>4, PlFacts DEF PlReadAt
  <1>7. PlSidesAt(to, l)
    <2>1. CASE to = "a_none"
      BY <2>1, <1>4, PlFacts, PlQuietSides DEF PlQuiet
    <2>2. CASE to = "a_cas"
      <3>1. loc[x].out < uin.rs /\ loc[x].out <= rsout
        BY <1>1, PlFacts DEF PlSidesAt, PlPopOK, PlA
      <3>2. r \in Resource /\ (loc[x].out = rsout => PlHas(rsq, r, loc[x].out))
        BY <1>2, <1>3, <2>2, <3>1, PlFacts, PlValues
      <3> QED
        BY <2>2, <1>4, <3>1, <3>2, PlFacts DEF PlSidesAt, PlPushOK, PlPopOK, PlA, PlR
    <2> QED
      BY <1>3, <2>1, <2>2
  <1> QED
    BY <1>1, <1>5, <1>6, <1>7, PlGoes

LEMMA PlFindPoppedInv == ASSUME PlInv, NEW x \in PoolEvent, FindPopped(x) PROVE PlInv'
  <1>1. PICK from, to, q : 
          /\ At2(x, from, to) /\ Set(x, [loc[x] EXCEPT !.impl = Where(q, loc[x].out)]) 
          /\ <<from, to, q>> = <<"a_where", "a_null", rsq>> \/ <<from, to, q>> = <<"r_where", "r_null", evq>>
    BY DEF FindPopped
  <1>2. UNCHANGED <<Queues2, data, todo>> /\ ppc[x] = from
    BY <1>1 DEF FindPopped, At2
  <1> DEFINE k == Where(q, loc[x].out)
             l == [loc[x] EXCEPT !.impl = k]
  <1>3. k \in 1 .. Len(q) /\ k \in Nat
    <2>1. CASE q = rsq
      <3>1. k \in 1 .. Len(q) /\ Len(q) \in Nat
        BY <2>1, PlFacts, PlLookup, PlValues DEF PlLooksUp
      <3> QED
        BY <3>1
    <2>2. CASE q = evq
      <3>1. k \in 1 .. Len(q) /\ Len(q) \in Nat
        BY <2>2, PlFacts, PlLookup, PlValues DEF PlLooksUp
      <3> QED
        BY <3>1
    <2> QED
      BY <1>1, <2>1, <2>2
  <1> HIDE DEF k
  <1>4. l \in PlLocals /\ l.out = loc[x].out /\ l.uin = loc[x].uin /\ l.got = loc[x].got /\ l.impl = k /\ l.ev = loc[x].ev
    BY <1>3, PlFacts DEF PlLocals
  <1>5. Set(x, l)
    BY <1>1 DEF k
  <1> HIDE DEF l
  <1>6. PlCarries(from, to, loc[x], l)
    BY <1>1, <1>4 DEF PlCarries, PlPCs, PoolCarrying
  <1>7. PlReadAt(to, l)
    BY <1>1 DEF PlReadAt
  <1>8. PlSidesAt(to, l)
    BY <1>1, <1>3, <1>4, PlFacts DEF PlSidesAt, PlPushOK, PlPopOK, PlA, PlR
  <1> QED
    BY <1>1, <1>2, <1>5, <1>6, <1>7, <1>8, PlGoes

LEMMA PlMustWaitInv == ASSUME PlInv, NEW x \in PoolEvent, MustWait(x) PROVE PlInv'
  <1> DEFINE to == IF uin.rs # loc[x].out THEN "a_out"
                   ELSE IF NearlyFull(loc[x].uin.ev, evout, SizeOf(Current(evq))) THEN "a_grow" ELSE "a_slot"
  <1>1. At2(x, "a_none", to) /\ UNCHANGED <<Queues2, data, todo>> /\ UNCHANGED loc /\ ppc[x] = "a_none"
    BY DEF MustWait, At2
  <1>2. Set(x, loc[x])
    BY <1>1, PlFacts, PlSetSame
  <1>3. /\ to \in {"a_out", "a_grow", "a_slot"} /\ (to # "a_out" => uin.rs = loc[x].out)
        /\ to = "a_slot" => loc[x].uin.ev - evout + 1 < SizeOf(Current(evq))
    <2>1. SizeOf(Current(evq)) \in Nat
      <3>1. Len(evq) \in 1 .. Len(evq) /\ \A k \in 1 .. Len(evq) : SizeOf(evq[k]) \in Nat
        BY PlFacts, PlSizes DEF PlArray
      <3> QED
        BY <3>1 DEF Current
    <2>2. ASSUME to = "a_slot" PROVE loc[x].uin.ev - evout + 1 < SizeOf(Current(evq))
      <3>1. ~NearlyFull(loc[x].uin.ev, evout, SizeOf(Current(evq)))
        BY <2>2
      <3>2. loc[x].uin.ev \in Nat /\ evout \in Nat
        BY PlFacts
      <3> HIDE DEF to
      <3> QED
        BY <2>1, <3>1, <3>2 DEF NearlyFull
    <2> QED
      BY <2>2
  <1> HIDE DEF to
  <1>4. PlCarries("a_none", to, loc[x], loc[x])
    BY <1>3, PlFacts DEF PlCarries, PlPCs, PoolCarrying
  <1>5. PlReadAt(to, loc[x])
    <2>1. PlReadAt("a_none", loc[x])
      BY <1>1, PlFacts
    <2> QED
      BY <2>1, <1>3, PlFacts DEF PlReadAt
  <1>6. PlSidesAt(to, loc[x])
    <2>1. CASE to \in {"a_out", "a_grow"}
      BY <2>1, PlFacts, PlQuietSides DEF PlQuiet
    <2>2. CASE to = "a_slot"
      BY <2>2, <1>3, PlFacts DEF PlSidesAt, PlPushOK, PlPopOK, PlA, PlR, Current
    <2> QED
      BY <1>3, <2>1, <2>2
  <1> QED
    BY <1>1, <1>2, <1>4, <1>5, <1>6, PlGoes

LEMMA PlMustStoreInv == ASSUME PlInv, NEW x \in PoolEvent, MustStore(x) PROVE PlInv'
  <1> DEFINE to == IF uin.ev # loc[x].out THEN "r_out"
                   ELSE IF NearlyFull(loc[x].uin.rs, rsout, SizeOf(Current(rsq))) THEN "r_grow" ELSE "r_slot"
  <1>1. At2(x, "r_none", to) /\ UNCHANGED <<Queues2, data, todo>> /\ UNCHANGED loc /\ ppc[x] = "r_none"
    BY DEF MustStore, At2
  <1>2. Set(x, loc[x])
    BY <1>1, PlFacts, PlSetSame
  <1>3. /\ to \in {"r_out", "r_grow", "r_slot"} /\ (to # "r_out" => uin.ev = loc[x].out)
        /\ to = "r_slot" => loc[x].uin.rs - rsout + 1 < SizeOf(Current(rsq))
    <2>1. SizeOf(Current(rsq)) \in Nat
      <3>1. Len(rsq) \in 1 .. Len(rsq) /\ \A k \in 1 .. Len(rsq) : SizeOf(rsq[k]) \in Nat
        BY PlFacts, PlSizes DEF PlArray
      <3> QED
        BY <3>1 DEF Current
    <2>2. ASSUME to = "r_slot" PROVE loc[x].uin.rs - rsout + 1 < SizeOf(Current(rsq))
      <3>1. ~NearlyFull(loc[x].uin.rs, rsout, SizeOf(Current(rsq)))
        BY <2>2
      <3>2. loc[x].uin.rs \in Nat /\ rsout \in Nat
        BY PlFacts
      <3> HIDE DEF to
      <3> QED
        BY <2>1, <3>1, <3>2 DEF NearlyFull
    <2> QED
      BY <2>2
  <1> HIDE DEF to
  <1>4. PlCarries("r_none", to, loc[x], loc[x])
    BY <1>3, PlFacts DEF PlCarries, PlPCs, PoolCarrying
  <1>5. PlReadAt(to, loc[x])
    <2>1. PlReadAt("r_none", loc[x])
      BY <1>1, PlFacts
    <2> QED
      BY <2>1, <1>3, PlFacts DEF PlReadAt
  <1>6. PlSidesAt(to, loc[x])
    <2>1. CASE to \in {"r_out", "r_grow"}
      BY <2>1, PlFacts, PlQuietSides DEF PlQuiet
    <2>2. CASE to = "r_slot"
      BY <2>2, <1>3, PlFacts DEF PlSidesAt, PlPushOK, PlPopOK, PlA, PlR, Current
    <2> QED
      BY <1>3, <2>1, <2>2
  <1> QED
    BY <1>1, <1>2, <1>4, <1>5, <1>6, PlGoes

LEMMA PlReleaseTestInv == ASSUME PlInv, NEW x \in PoolEvent, ReleaseTest(x) PROVE PlInv'
  <1> DEFINE we == IF uin.ev # loc[x].out THEN Get(evq, loc[x].out).ptr ELSE "nil"
             to == IF we = "nil" THEN "r_none" ELSE "r_cas"
             l == [loc[x] EXCEPT !.ev = we]
  <1>1. At2(x, "r_test", to) /\ UNCHANGED <<Queues2, data, todo>> /\ Set(x, l) /\ ppc[x] = "r_test"
    BY DEF ReleaseTest, At2
  <1>2. /\ Get(evq, loc[x].out).ptr \in PoolEvent \cup {"nil"}
        /\ loc[x].out \in evout .. uin.ev - 1 /\ Get(evq, loc[x].out).ptr # "nil" 
             => PlHas(evq, Get(evq, loc[x].out).ptr, loc[x].out)
    <2>1. PlLooksUp(evq, PoolEvent, uin.ev, evout, loc[x].out)
      BY PlFacts, PlLookup, PlValues
    <2> QED
      BY <2>1 DEF PlLooksUp
  <1>3. /\ to \in {"r_cas", "r_none"} /\ we \in PoolEvent \cup {"nil"}
        /\ to = "r_cas" => we \in PoolEvent /\ uin.ev # loc[x].out 
                           /\ (loc[x].out \in evout .. uin.ev - 1 => PlHas(evq, we, loc[x].out))
    BY <1>2
  <1> HIDE DEF we
  <1>4. l \in PlLocals /\ l.out = loc[x].out /\ l.uin = loc[x].uin /\ l.got = loc[x].got /\ l.impl = loc[x].impl /\ l.ev = we
    BY <1>3, PlFacts DEF PlLocals
  <1> HIDE DEF l, to
  <1>5. PlCarries("r_test", to, loc[x], l)
    BY <1>3, <1>4, PlFacts DEF PlCarries, PlPCs, PoolCarrying
  <1>6. PlReadAt("r_test", loc[x])
    BY <1>1, PlFacts
  <1>7. PlReadAt(to, l)
    BY <1>3, <1>4, <1>6 DEF PlReadAt
  <1>8. PlSidesAt(to, l)
    <2>1. CASE to = "r_none"
      BY <2>1, <1>4, PlFacts, PlQuietSides DEF PlQuiet
    <2>2. CASE to = "r_cas"
      <3>1. loc[x].out < uin.ev /\ loc[x].out <= evout
        BY <1>3, <1>6, <2>2, PlFacts DEF PlReadAt
      <3>2. we \in PoolEvent /\ (loc[x].out = evout => PlHas(evq, we, loc[x].out))
        BY <1>3, <2>2, <3>1, PlFacts
      <3> QED
        BY <2>2, <1>4, <3>1, <3>2, PlFacts DEF PlSidesAt, PlPushOK, PlPopOK, PlA, PlR
    <2> QED
      BY <1>3, <2>1, <2>2
  <1> QED
    BY <1>1, <1>5, <1>7, <1>8, PlGoes

LEMMA PlReleaseInv == ASSUME PlInv, NEW x \in PoolEvent, PoolRelease(x) PROVE PlInv'
  <1>1. PlTyped /\ PlSides(x) /\ PlHolds(x) /\ data[x] \in Resource \cup {"nil"}
    BY DEF PlInv, PlTyped
  <1>2. /\ ppc[x] = "run" /\ ppc'[x] = "r_out" /\ \A y \in PoolEvent : y # x => ppc'[y] = ppc[y]
        /\ ppc' \in [PoolEvent -> PlPCs]
    BY <1>1, PlMove DEF PoolRelease, PlPCs
  <1> DEFINE l == [PoolLocals EXCEPT !.got = data[x]]
  <1>3. /\ UNCHANGED <<Queues2, todo>> /\ data' = [data EXCEPT ![x] = "nil"] /\ Set(x, l)
    BY DEF PoolRelease
  <1>4. data'[x] = "nil" /\ data' \in [PoolEvent -> Resource \cup {"nil"}] /\ \A y \in PoolEvent : y # x => data'[y] = data[y]
    BY <1>1, <1>3 DEF PlTyped
  <1>5. l \in PlLocals /\ l.got = data[x] /\ l.uin.ev = 0 /\ l.uin.rs = 0 /\ l.out = 0
    BY <1>1 DEF PoolLocals, PlLocals
  <1> HIDE DEF l
  <1>6. loc'[x] = l /\ (\A y \in PoolEvent : y # x => loc'[y] = loc[y]) /\ loc' \in [PoolEvent -> PlLocals]
    BY <1>1, <1>3, <1>5, PlSet
  <1>7. PlTyped'
    BY <1>1, <1>2, <1>3, <1>4, <1>6 DEF PlTyped, Queues2
  <1>8. PlSidesAt("r_out", l)
    <2>1. l.uin.ev <= uin.ev /\ l.uin.rs <= uin.rs
      BY <1>5, PlFacts
    <2> QED
      BY <2>1, <1>5, PlQuietSides DEF PlQuiet
  <1>9. PlSides(x)'
    BY <1>2, <1>3, <1>6, <1>8 DEF PlSides, PlSidesAt, Queues2
  <1>10. PlRead(x)' /\ PlHolds(x)'
    BY <1>1, <1>2, <1>4, <1>5, <1>6 DEF PlRead, PlHolds, PoolCarrying
  <1>11. /\ \A r \in Resource : PlOwns(x, r)' => PlOwns(x, r)
         /\ \A we \in PoolEvent : ~PlPops(x, we)'
         /\ ~PlEvWriter(x)' /\ ~PlRsWriter(x)'
    BY <1>2, <1>4, <1>5, <1>6, PlValues DEF PlOwns, PlPops, PlEvWriter, PlRsWriter
  <1> QED
    BY <1>2, <1>3, <1>4, <1>6, <1>7, <1>9, <1>10, <1>11, PlLocalStep

LEMMA PlGrowReadInv == ASSUME PlInv, NEW x \in PoolEvent, GrowRead(x) PROVE PlInv'
  <1>1. PICK from, to, k : 
          /\ At2(x, from, to) /\ Set(x, [loc[x] EXCEPT !.impl = k]) 
          /\ <<from, to, k>> = <<"a_grow", "a_grown", Len(evq)>> \/ <<from, to, k>> = <<"r_grow", "r_grown", Len(rsq)>>
    BY DEF GrowRead
  <1>2. UNCHANGED <<Queues2, data, todo>> /\ ppc[x] = from
    BY <1>1 DEF GrowRead, At2
  <1> DEFINE l == [loc[x] EXCEPT !.impl = k]
  <1>3. /\ Len(evq) \in Nat \ {0} /\ Len(rsq) \in Nat \ {0}
    BY PlFacts, PlSizes DEF PlArray
  <1>4. l \in PlLocals /\ l.out = loc[x].out /\ l.uin = loc[x].uin /\ l.got = loc[x].got /\ l.impl = k /\ l.ev = loc[x].ev
    BY <1>1, <1>3, PlFacts DEF PlLocals
  <1>5. Set(x, l)
    BY <1>1
  <1> HIDE DEF l
  <1>6. PlCarries(from, to, loc[x], l)
    BY <1>1, <1>4 DEF PlCarries, PlPCs, PoolCarrying
  <1>7. PlReadAt(to, l)
    <2>1. PlReadAt(from, loc[x])
      BY <1>2, PlFacts
    <2> QED
      BY <2>1, <1>1, <1>4 DEF PlReadAt
  <1>8. PlSidesAt(to, l)
    <2>1. /\ uin.ev - evout < SizeOf(evq[Len(evq)]) /\ uin.rs - rsout < SizeOf(rsq[Len(rsq)])
          /\ Len(evq) \in 1 .. Len(evq) /\ Len(rsq) \in 1 .. Len(rsq)
      BY <1>3, PlFacts DEF PlArray
    <2> QED
      BY <1>1, <1>4, <2>1, PlFacts DEF PlSidesAt, PlPushOK, PlPopOK, PlA, PlR
  <1> QED
    BY <1>1, <1>2, <1>5, <1>6, <1>7, <1>8, PlGoes

\* Who takes an index finds a slot of its own for it.
LEMMA PlTarget ==
  ASSUME NEW V, NEW q, NEW in \in Nat, NEW out \in Nat, PlArray(q, V, in, out), V \cap {"nil", "uninit"} = {},
         NEW i \in out .. in - 1, \A v \in V : ~PlHas(q, v, i)
  PROVE  /\ Where(q, i) \in 1 .. Len(q) /\ Where(q, i) \in Nat /\ At(q[Where(q, i)], i).ptr = "nil"
         /\ i - out < SizeOf(q[Where(q, i)])
  <1>1. PlLooksUp(q, V, in, out, i)
    BY PlLookup
  <1>2. Get(q, i).ptr = "nil"
    BY <1>1 DEF PlLooksUp
  <1> QED
    BY <1>1, <1>2 DEF PlLooksUp

LEMMA PlFindSlotInv == ASSUME PlInv, NEW x \in PoolEvent, FindSlot(x) PROVE PlInv'
  <1>1. UNCHANGED <<Queues2, data, todo>>
    BY DEF FindSlot
  <1>2. CASE At2(x, "a_find", "a_write") /\ Set(x, [loc[x] EXCEPT !.impl = Where(evq, loc[x].uin.ev)])
    <2> DEFINE i == loc[x].uin.ev
               k == Where(evq, i)
               l == [loc[x] EXCEPT !.impl = k]
    <2>1. ppc[x] = "a_find" /\ At2(x, "a_find", "a_write")
      BY <1>2 DEF At2
    <2>2. i \in evout .. uin.ev - 1 /\ \A v \in PoolEvent : ~PlHas(evq, v, i)
      BY <2>1, PlFacts DEF PlSidesAt, PlPushOK, PlA
    <2>3. /\ k \in 1 .. Len(evq) /\ k \in Nat /\ At(evq[k], i).ptr = "nil" /\ i - evout < SizeOf(evq[k])
      BY <2>2, PlFacts, PlTarget, PlValues
    <2>4. l \in PlLocals /\ l.out = loc[x].out /\ l.uin = loc[x].uin /\ l.got = loc[x].got /\ l.impl = k /\ l.ev = loc[x].ev
      BY <2>3, PlFacts DEF PlLocals
    <2>5. Set(x, l)
      BY <1>2
    <2> HIDE DEF l, k
    <2>6. PlCarries("a_find", "a_write", loc[x], l)
      BY <2>4 DEF PlCarries, PlPCs, PoolCarrying
    <2>7. PlReadAt("a_write", l)
      BY DEF PlReadAt
    <2>8. PlSidesAt("a_write", l)
      BY <2>2, <2>3, <2>4, PlFacts DEF PlSidesAt, PlPushOK, PlPopOK, PlA, PlR
    <2> QED
      BY <1>1, <2>1, <2>5, <2>6, <2>7, <2>8, PlGoes
  <1>3. CASE At2(x, "r_find", "r_write") /\ Set(x, [loc[x] EXCEPT !.impl = Where(rsq, loc[x].uin.rs)])
    <2> DEFINE i == loc[x].uin.rs
               k == Where(rsq, i)
               l == [loc[x] EXCEPT !.impl = k]
    <2>1. ppc[x] = "r_find" /\ At2(x, "r_find", "r_write")
      BY <1>3 DEF At2
    <2>2. i \in rsout .. uin.rs - 1 /\ \A v \in Resource : ~PlHas(rsq, v, i)
      BY <2>1, PlFacts DEF PlSidesAt, PlPushOK, PlR
    <2>3. /\ k \in 1 .. Len(rsq) /\ k \in Nat /\ At(rsq[k], i).ptr = "nil" /\ i - rsout < SizeOf(rsq[k])
      BY <2>2, PlFacts, PlTarget, PlValues
    <2>4. l \in PlLocals /\ l.out = loc[x].out /\ l.uin = loc[x].uin /\ l.got = loc[x].got /\ l.impl = k /\ l.ev = loc[x].ev
      BY <2>3, PlFacts DEF PlLocals
    <2>5. Set(x, l)
      BY <1>3
    <2> HIDE DEF l, k
    <2>6. PlCarries("r_find", "r_write", loc[x], l)
      BY <2>4 DEF PlCarries, PlPCs, PoolCarrying
    <2>7. PlReadAt("r_write", l)
      BY DEF PlReadAt
    <2>8. PlSidesAt("r_write", l)
      BY <2>2, <2>3, <2>4, PlFacts DEF PlSidesAt, PlPushOK, PlPopOK, PlA, PlR
    <2> QED
      BY <1>1, <2>1, <2>5, <2>6, <2>7, <2>8, PlGoes
  <1> QED
    BY <1>2, <1>3 DEF FindSlot

-----------------------------------------------------------------------------
(* The steps that change the queues *)
\* The arrays change, and what they hold does not.
LEMMA PlReshape ==
  ASSUME PlInv, NEW x \in PoolEvent, UNCHANGED <<uin, evout, rsout, data, todo, loc>>, PlArrays',
         \A v \in PoolEvent : \A j \in Nat : PlHas(evq', v, j) <=> PlHas(evq, v, j),
         \A v \in Resource : \A j \in Nat : PlHas(rsq', v, j) <=> PlHas(rsq, v, j),
         \A y \in PoolEvent : y # x => PlSides(y)',
         NEW from, NEW to, At2(x, from, to), PlCarries(from, to, loc[x], loc[x]), 
         PlSidesAt(to, loc[x])', PlReadAt(to, loc[x])
  PROVE  PlInv'
  <1>1. PlTyped /\ PlHolds(x)
    BY DEF PlInv
  <1>2. /\ ppc[x] = from /\ ppc'[x] = to /\ \A y \in PoolEvent : y # x => ppc'[y] = ppc[y]
        /\ ppc' \in [PoolEvent -> PlPCs]
    BY <1>1, PlMove DEF PlCarries
  <1>3. PlTyped'
    BY <1>1, <1>2 DEF PlTyped
  <1>4. PoolNoIdle'
    BY DEF PlInv, PoolNoIdle
  <1>5. ASSUME NEW y \in PoolEvent PROVE PlSides(y)' /\ PlRead(y)' /\ PlHolds(y)'
    <2>1. CASE y = x
      <3>1. PlSides(y)'
        BY <2>1, <1>2 DEF PlSides, PlSidesAt
      <3>2. PlRead(y)'
        BY <2>1, <1>2 DEF PlRead, PlReadAt
      <3>3. PlHolds(y)'
        BY <2>1, <1>1, <1>2 DEF PlHolds, PlCarries
      <3> QED
        BY <3>1, <3>2, <3>3
    <2>2. CASE y # x
      <3>1. ppc'[y] = ppc[y]
        BY <2>2, <1>2
      <3>2. PlRead(y) /\ PlHolds(y)
        BY DEF PlInv
      <3>3. PlRead(y)'
        BY <3>1, <3>2 DEF PlRead
      <3>4. PlHolds(y)'
        BY <3>1, <3>2 DEF PlHolds
      <3> QED
        BY <2>2, <3>3, <3>4
    <2> QED
      BY <2>1, <2>2
  <1>6. ASSUME NEW y \in PoolEvent
        PROVE  /\ PlEvWriter(y)' => PlEvWriter(y)
               /\ PlRsWriter(y)' => PlRsWriter(y)
               /\ \A r : PlOwns(y, r)' => PlOwns(y, r)
               /\ \A we : PlPops(y, we)' => PlPops(y, we)
               /\ ppc[y] = "wait" => ppc'[y] = "wait"
               /\ ppc'[y] \in {"r_where", "r_null"} => ppc[y] \in {"r_where", "r_null"}
    BY <1>2 DEF PlCarries, PlEvWriter, PlRsWriter, PlOwns, PlPops
  <1>7. PlApart'
    BY <1>6 DEF PlInv, PlApart
  <1>8. PlOwned'
    BY <1>6 DEF PlInv, PlOwned
  <1>9. PlWaits'
    BY <1>6 DEF PlInv, PlWaits
  <1> QED
    BY <1>3, <1>4, <1>5, <1>7, <1>8, <1>9 DEF PlInv

\* Growing leaves room for one more, whoever has done it.
PlGrewOK(p, q, V, in, out) ==
  /\ PlArray(p, V, in, out)
  /\ \A v \in V : \A j \in Nat : PlHas(p, v, j) <=> PlHas(q, v, j)
  /\ \A c, s, l, k : PlPushOK(q, V, in, out, c, s, l, k) => PlPushOK(p, V, in, out, c, s, l, k)
  /\ \A c, s, l, v, k : PlPopOK(q, V, in, out, c, s, l, v, k) => PlPopOK(p, V, in, out, c, s, l, v, k)

LEMMA PlGrew ==
  ASSUME NEW V, NEW q, NEW in \in Nat, NEW out \in Nat, PlArray(q, V, in, out), V \cap {"nil", "uninit"} = {},
         NEW k \in 1 .. Len(q), NEW p, p = IF Len(q) = k THEN Grown(q) ELSE q
  PROVE  /\ PlGrewOK(p, q, V, in, out)
         /\ in - out < SizeOf(q[k]) => in - out + 1 < SizeOf(p[Len(p)])
  <1>1. CASE Len(q) = k
    <2>1. p = Grown(q)
      BY <1>1
    <2>2. /\ PlArray(p, V, in, out) /\ Len(p) = Len(q) + 1
          /\ SizeOf(p[Len(q) + 1]) = 2 * SizeOf(q[Len(q)])
          /\ \A v \in V : \A j \in Nat : PlHas(p, v, j) <=> PlHas(q, v, j)
      BY <2>1, PlGrownArray
    <2>3. /\ \A c, s, l, m : PlPushOK(q, V, in, out, c, s, l, m) => PlPushOK(p, V, in, out, c, s, l, m)
          /\ \A c, s, l, v, m : PlPopOK(q, V, in, out, c, s, l, v, m) => PlPopOK(p, V, in, out, c, s, l, v, m)
      BY <2>1, PlGrownSide
    <2>4. SizeOf(q[k]) \in Nat \ {0} /\ Len(q) \in Nat
      BY PlSizes DEF PlArray
    <2>5. SizeOf(p[Len(p)]) = 2 * SizeOf(q[k])
      BY <1>1, <2>2, <2>4
    <2>6. in - out < SizeOf(q[k]) => in - out + 1 < SizeOf(p[Len(p)])
      BY <2>4, <2>5
    <2> QED
      BY <2>2, <2>3, <2>6 DEF PlGrewOK
  <1>2. CASE Len(q) # k
    <2>1. p = q
      BY <1>2
    <2>2. PlGrewOK(p, q, V, in, out)
      BY <2>1 DEF PlGrewOK
    <2>3. /\ Len(q) \in Nat /\ SizeOf(q[k]) \in Nat \ {0} /\ SizeOf(q[Len(q)]) \in Nat /\ Len(q) \in 1 .. Len(q)
      BY PlSizes DEF PlArray
    <2>4. k < Len(q)
      BY <1>2, <2>3
    <2>5. SizeOf(q[Len(q)]) >= 2 * SizeOf(q[k])
      BY <2>3, <2>4 DEF PlArray, PlShape
    <2> QED
      BY <2>1, <2>2, <2>3, <2>5
  <1> QED
    BY <1>1, <1>2

LEMMA PlGrowCasInv == ASSUME PlInv, NEW x \in PoolEvent, GrowCas(x) PROVE PlInv'
  <1>1. UNCHANGED <<uin, evout, rsout, data, loc, todo>>
    BY DEF GrowCas
  <1>2. CASE /\ At2(x, "a_grown", "a_slot") /\ UNCHANGED rsq
             /\ evq' = IF Len(evq) = loc[x].impl THEN Grown(evq) ELSE evq
    <2>1. ppc[x] = "a_grown"
      BY <1>2 DEF At2
    <2>2. /\ loc[x].impl \in 1 .. Len(evq) /\ (loc[x].uin.ev = uin.ev => uin.ev - evout < SizeOf(evq[loc[x].impl]))
      BY <2>1, PlFacts DEF PlSidesAt, PlPushOK, PlA
    <2>3. /\ PlGrewOK(evq', evq, PoolEvent, uin.ev, evout)
          /\ uin.ev - evout < SizeOf(evq[loc[x].impl]) => uin.ev - evout + 1 < SizeOf(evq'[Len(evq')])
      BY <1>2, <2>2, PlFacts, PlGrew, PlValues
    <2>4. PlArrays'
      BY <1>1, <1>2, <2>3, PlFacts DEF PlArrays, PlGrewOK
    <2>5. ASSUME NEW y \in PoolEvent, y # x PROVE PlSides(y)'
      <3>1. ppc'[y] = ppc[y] /\ PlSides(y)
        BY <1>2, <2>5, PlFacts, PlMove DEF PlInv
      <3> QED
        BY <1>1, <1>2, <2>3, <3>1 DEF PlSides, PlGrewOK
    <2>6. PlCarries("a_grown", "a_slot", loc[x], loc[x])
      BY PlFacts DEF PlCarries, PlPCs, PoolCarrying
    <2>7. PlReadAt("a_slot", loc[x])
      BY <2>1, PlFacts DEF PlReadAt
    <2>8. PlSidesAt("a_slot", loc[x])'
      BY <1>1, <1>2, <2>2, <2>3, PlFacts DEF PlSidesAt, PlPushOK, PlPopOK, PlA, PlR
    <2> QED
      BY <1>1, <1>2, <2>3, <2>4, <2>5, <2>6, <2>7, <2>8, PlReshape DEF PlGrewOK
  <1>3. CASE /\ At2(x, "r_grown", "r_slot") /\ UNCHANGED evq
             /\ rsq' = IF Len(rsq) = loc[x].impl THEN Grown(rsq) ELSE rsq
    <2>1. ppc[x] = "r_grown"
      BY <1>3 DEF At2
    <2>2. /\ loc[x].impl \in 1 .. Len(rsq) /\ (loc[x].uin.rs = uin.rs => uin.rs - rsout < SizeOf(rsq[loc[x].impl]))
      BY <2>1, PlFacts DEF PlSidesAt, PlPushOK, PlR
    <2>3. /\ PlGrewOK(rsq', rsq, Resource, uin.rs, rsout)
          /\ uin.rs - rsout < SizeOf(rsq[loc[x].impl]) => uin.rs - rsout + 1 < SizeOf(rsq'[Len(rsq')])
      BY <1>3, <2>2, PlFacts, PlGrew, PlValues
    <2>4. PlArrays'
      BY <1>1, <1>3, <2>3, PlFacts DEF PlArrays, PlGrewOK
    <2>5. ASSUME NEW y \in PoolEvent, y # x PROVE PlSides(y)'
      <3>1. ppc'[y] = ppc[y] /\ PlSides(y)
        BY <1>3, <2>5, PlFacts, PlMove DEF PlInv
      <3> QED
        BY <1>1, <1>3, <2>3, <3>1 DEF PlSides, PlGrewOK
    <2>6. PlCarries("r_grown", "r_slot", loc[x], loc[x])
      BY PlFacts DEF PlCarries, PlPCs, PoolCarrying
    <2>7. PlReadAt("r_slot", loc[x])
      BY <2>1, PlFacts DEF PlReadAt
    <2>8. PlSidesAt("r_slot", loc[x])'
      BY <1>1, <1>3, <2>2, <2>3, PlFacts DEF PlSidesAt, PlPushOK, PlPopOK, PlA, PlR
    <2> QED
      BY <1>1, <1>3, <2>3, <2>4, <2>5, <2>6, <2>7, <2>8, PlReshape DEF PlGrewOK
  <1> QED
    BY <1>2, <1>3 DEF GrowCas

\* The slot of the next index is taken over: it is free, and so is the next index.
LEMMA PlUpdated ==
  ASSUME NEW V, NEW q, NEW in \in Nat, NEW out \in Nat, PlArray(q, V, in, out), V \cap {"nil", "uninit"} = {},
         NEW i \in Nat, i <= in, NEW p, p = Update(q, i)
  PROVE  /\ PlGrewOK(p, q, V, in, out)
         /\ Get(p, i).ptr = "nil" /\ i = in /\ in - out + 1 < SizeOf(q[Len(q)]) => PlNextFree(p, in, out)
  <1>1. PlAfterUpdate(p, q, V, in, out, i)
    BY PlUpdateArray
  <1>2. PlArray(p, V, in, out) /\ Len(p) = Len(q) /\ PlIs(p, i, Len(q)) /\ Len(q) \in 1 .. Len(q)
        /\ SizeOf(p[Len(q)]) = SizeOf(q[Len(q)])
    <2>1. Len(q) \in 1 .. Len(q)
      BY PlSizes DEF PlArray
    <2> QED
      BY <1>1, <2>1 DEF PlAfterUpdate
  <1>3. PlGrewOK(p, q, V, in, out)
    <2>1. \A v \in V : \A j \in Nat : PlHas(p, v, j) <=> PlHas(q, v, j)
      BY <1>1 DEF PlAfterUpdate
    <2>2. /\ \A c, s, l, m : PlPushOK(q, V, in, out, c, s, l, m) => PlPushOK(p, V, in, out, c, s, l, m)
          /\ \A c, s, l, v, m : PlPopOK(q, V, in, out, c, s, l, v, m) => PlPopOK(p, V, in, out, c, s, l, v, m)
      BY PlUpdateSide
    <2> QED
      BY <1>2, <2>1, <2>2 DEF PlGrewOK
  <1>4. ASSUME Get(p, i).ptr = "nil", i = in, in - out + 1 < SizeOf(q[Len(q)])
        PROVE  PlNextFree(p, in, out)
    <2>1. PlShape(p, V) /\ Len(q) \in 1 .. Len(p)
      BY <1>2 DEF PlArray
    <2>2. Get(p, i) = At(p[Len(q)], i) /\ Where(p, i) = Len(q)
      BY <1>2, <2>1, PlWhere
    <2>3. ASSUME NEW k \in 1 .. Len(p), PlIs(p, i, k) PROVE k = Len(q)
      <3>1. Where(p, i) = k
        BY <2>1, <2>3, PlWhere
      <3> QED
        BY <2>2, <3>1
    <2> QED
      BY <1>2, <1>4, <2>2, <2>3 DEF PlNextFree
  <1> QED
    BY <1>3, <1>4

LEMMA PlPushSlotInv == ASSUME PlInv, NEW x \in PoolEvent, PushSlot(x) PROVE PlInv'
  <1>1. UNCHANGED <<uin, evout, rsout, data, loc, todo>>
    BY DEF PushSlot
  <1>2. ASSUME NEW q, q = Update(evq, loc[x].uin.ev),
               At2(x, "a_slot", IF Get(q, loc[x].uin.ev).ptr = "nil" THEN "a_push" ELSE "a_out"),
               evq' = q, UNCHANGED rsq
        PROVE  PlInv'
    <2> DEFINE i == loc[x].uin.ev
    <2>0. PICK to : to = IF Get(q, i).ptr = "nil" THEN "a_push" ELSE "a_out"
      OBVIOUS
    <2>1. ppc[x] = "a_slot" /\ At2(x, "a_slot", to)
      BY <1>2, <2>0 DEF At2
    <2>2. i \in Nat /\ i <= uin.ev /\ (i = uin.ev => uin.ev - evout + 1 < SizeOf(evq[Len(evq)]))
      BY <2>1, PlFacts DEF PlSidesAt, PlPushOK, PlA
    <2>3. /\ PlGrewOK(evq', evq, PoolEvent, uin.ev, evout)
          /\ Get(evq', i).ptr = "nil" /\ i = uin.ev => PlNextFree(evq', uin.ev, evout)
      BY <1>2, <2>2, PlFacts, PlUpdated, PlValues
    <2>4. PlArrays'
      BY <1>1, <1>2, <2>3, PlFacts DEF PlArrays, PlGrewOK
    <2>5. to \in {"a_push", "a_out"} /\ (to = "a_push" => Get(evq', i).ptr = "nil")
      BY <1>2, <2>0
    <2>6. ASSUME NEW y \in PoolEvent, y # x PROVE PlSides(y)'
      <3>1. ppc'[y] = ppc[y] /\ PlSides(y)
        BY <2>1, <2>6, PlFacts, PlMove DEF PlInv
      <3> QED
        BY <1>1, <1>2, <2>3, <3>1 DEF PlSides, PlGrewOK
    <2>7. PlCarries("a_slot", to, loc[x], loc[x])
      BY <2>5, PlFacts DEF PlCarries, PlPCs, PoolCarrying
    <2>8. PlReadAt(to, loc[x])
      BY <2>1, <2>5, PlFacts DEF PlReadAt
    <2>9. PlSidesAt(to, loc[x])'
      <3>1. rsq' = rsq
        BY <1>2
      <3>2. CASE to = "a_out"
        BY <1>1, <3>1, <3>2, PlFacts DEF PlSidesAt, PlPushOK, PlPopOK, PlA, PlR
      <3>3. CASE to = "a_push"
        <4>1. i = uin.ev => PlNextFree(evq', uin.ev, evout)
          BY <2>3, <2>5, <3>3
        <4> QED
          BY <1>1, <3>1, <3>3, <4>1, PlFacts DEF PlSidesAt, PlPushOK, PlPopOK, PlA, PlR
      <3> QED
        BY <2>5, <3>2, <3>3
    <2>10. \A v \in Resource : \A j \in Nat : PlHas(rsq', v, j) <=> PlHas(rsq, v, j)
      BY <1>2
    <2>11. \A v \in PoolEvent : \A j \in Nat : PlHas(evq', v, j) <=> PlHas(evq, v, j)
      BY <2>3 DEF PlGrewOK
    <2> QED
      BY <1>1, <2>1, <2>4, <2>6, <2>7, <2>8, <2>9, <2>10, <2>11, PlReshape
  <1>3. ASSUME NEW q, q = Update(rsq, loc[x].uin.rs),
               At2(x, "r_slot", IF Get(q, loc[x].uin.rs).ptr = "nil" THEN "r_push" ELSE "r_out"),
               rsq' = q, UNCHANGED evq
        PROVE  PlInv'
    <2> DEFINE i == loc[x].uin.rs
    <2>0. PICK to : to = IF Get(q, i).ptr = "nil" THEN "r_push" ELSE "r_out"
      OBVIOUS
    <2>1. ppc[x] = "r_slot" /\ At2(x, "r_slot", to)
      BY <1>3, <2>0 DEF At2
    <2>2. i \in Nat /\ i <= uin.rs /\ (i = uin.rs => uin.rs - rsout + 1 < SizeOf(rsq[Len(rsq)]))
      BY <2>1, PlFacts DEF PlSidesAt, PlPushOK, PlR
    <2>3. /\ PlGrewOK(rsq', rsq, Resource, uin.rs, rsout)
          /\ Get(rsq', i).ptr = "nil" /\ i = uin.rs => PlNextFree(rsq', uin.rs, rsout)
      BY <1>3, <2>2, PlFacts, PlUpdated, PlValues
    <2>4. PlArrays'
      BY <1>1, <1>3, <2>3, PlFacts DEF PlArrays, PlGrewOK
    <2>5. to \in {"r_push", "r_out"} /\ (to = "r_push" => Get(rsq', i).ptr = "nil")
      BY <1>3, <2>0
    <2>6. ASSUME NEW y \in PoolEvent, y # x PROVE PlSides(y)'
      <3>1. ppc'[y] = ppc[y] /\ PlSides(y)
        BY <2>1, <2>6, PlFacts, PlMove DEF PlInv
      <3> QED
        BY <1>1, <1>3, <2>3, <3>1 DEF PlSides, PlGrewOK
    <2>7. PlCarries("r_slot", to, loc[x], loc[x])
      BY <2>5, PlFacts DEF PlCarries, PlPCs, PoolCarrying
    <2>8. PlReadAt(to, loc[x])
      BY <2>1, <2>5, PlFacts DEF PlReadAt
    <2>9. PlSidesAt(to, loc[x])'
      <3>1. evq' = evq
        BY <1>3
      <3>2. CASE to = "r_out"
        BY <1>1, <3>1, <3>2, PlFacts DEF PlSidesAt, PlPushOK, PlPopOK, PlA, PlR
      <3>3. CASE to = "r_push"
        <4>1. i = uin.rs => PlNextFree(rsq', uin.rs, rsout)
          BY <2>3, <2>5, <3>3
        <4> QED
          BY <1>1, <3>1, <3>3, <4>1, PlFacts DEF PlSidesAt, PlPushOK, PlPopOK, PlA, PlR
      <3> QED
        BY <2>5, <3>2, <3>3
    <2>10. \A v \in PoolEvent : \A j \in Nat : PlHas(evq', v, j) <=> PlHas(evq, v, j)
      BY <1>3
    <2>11. \A v \in Resource : \A j \in Nat : PlHas(rsq', v, j) <=> PlHas(rsq, v, j)
      BY <2>3 DEF PlGrewOK
    <2> QED
      BY <1>1, <2>1, <2>4, <2>6, <2>7, <2>8, <2>9, <2>10, <2>11, PlReshape
  <1> QED
    BY <1>2, <1>3 DEF PushSlot

\* What the invariant says of two threads.
LEMMA PlPairs ==
  ASSUME PlInv
  PROVE  /\ \A x \in PoolEvent : PlSides(x) /\ PlRead(x) /\ PlHolds(x)
         /\ PlTyped /\ PlArrays /\ PoolNoIdle /\ PlApart /\ PlOwned /\ PlWaits
  BY DEF PlInv

\* The others' program counters, locals and resources stay; what they own, pop and write does too.
LEMMA PlOthers ==
  ASSUME NEW y, ppc'[y] = ppc[y], loc'[y] = loc[y], data'[y] = data[y]
  PROVE  /\ \A r : PlOwns(y, r)' <=> PlOwns(y, r)
         /\ \A we : PlPops(y, we)' <=> PlPops(y, we)
         /\ PlEvWriter(y)' <=> PlEvWriter(y)
         /\ PlRsWriter(y)' <=> PlRsWriter(y)
         /\ PlHolds(y)' <=> PlHolds(y)
  BY DEF PlOwns, PlPops, PlEvWriter, PlRsWriter, PlHolds

LEMMA PlAcquireCasInv == ASSUME PlInv, NEW x \in PoolEvent, AcquireCas(x) PROVE PlInv'
  <1>1. UNCHANGED <<evq, rsq, uin, evout, data, loc, todo>> /\ ppc[x] = "a_cas"
    BY DEF AcquireCas, At2
  <1>2. CASE rsout # loc[x].out
    <2>1. At2(x, "a_cas", "a_none") /\ UNCHANGED <<Queues2, data, todo>>
      BY <1>1, <1>2 DEF AcquireCas, Queues2
    <2>2. Set(x, loc[x])
      BY <1>1, PlFacts, PlSetSame
    <2>3. PlCarries("a_cas", "a_none", loc[x], loc[x])
      BY PlFacts DEF PlCarries, PlPCs, PoolCarrying
    <2>4. PlReadAt("a_none", loc[x])
      BY <1>1, PlFacts DEF PlReadAt
    <2>5. PlSidesAt("a_none", loc[x])
      BY PlFacts, PlQuietSides DEF PlQuiet
    <2> QED
      BY <2>1, <2>2, <2>3, <2>4, <2>5, PlGoes
  <1>3. CASE rsout = loc[x].out
    <2> DEFINE r == loc[x].got
    <2>1. At2(x, "a_cas", "a_where") /\ rsout' = rsout + 1
      BY <1>3 DEF AcquireCas
    <2>2. /\ ppc'[x] = "a_where" /\ \A y \in PoolEvent : y # x => ppc'[y] = ppc[y]
          /\ ppc' \in [PoolEvent -> PlPCs]
      BY <2>1, PlFacts, PlMove DEF PlPCs
    <2>3. r \in Resource /\ PlHas(rsq, r, rsout) /\ rsout < uin.rs
      BY <1>1, <1>3, PlFacts DEF PlSidesAt, PlPopOK, PlA
    <2>4. rsout + 1 \in Nat /\ rsout + 1 <= uin.rs /\ rsout \in Nat /\ uin.rs \in Nat
      BY <2>3, PlFacts
    <2>5. PlTyped'
      BY <1>1, <2>1, <2>2, <2>4, PlFacts DEF PlTyped
    <2>6. PlArrays'
      <3>1. PlArray(rsq, Resource, uin.rs, rsout + 1)
        BY <2>3, PlFacts, PlPopped
      <3> QED
        BY <1>1, <2>1, <3>1, PlFacts DEF PlArrays
    <2>7. PoolNoIdle'
      BY <1>1, <2>3, <2>4, PlPairs DEF PoolNoIdle
    <2>8. ASSUME NEW y \in PoolEvent PROVE PlSides(y)'
      <3>1. CASE y # x
        <4>1. PlSides(y) /\ ppc'[y] = ppc[y] /\ loc'[y] = loc[y]
          BY <1>1, <2>2, <3>1, PlPairs
        <4>2. \A c, s, l, v, k : 
                /\ PlPushOK(rsq, Resource, uin.rs, rsout, c, s, l, k) => PlPushOK(rsq, Resource, uin.rs, rsout + 1, c, s, l, k)
                /\ PlPopOK(rsq, Resource, uin.rs, rsout, c, s, l, v, k) => PlPopOK(rsq, Resource, uin.rs, rsout + 1, c, s, l, v, k)
          BY <2>3, PlFacts, PlPoppedSide
        <4> QED
          BY <1>1, <2>1, <4>1, <4>2 DEF PlSides
      <3>2. CASE y = x
        BY <1>1, <2>1, <2>2, <3>2, PlFacts DEF PlSides, PlSidesAt, PlPushOK, PlPopOK, PlA, PlR
      <3> QED
        BY <3>1, <3>2
    <2>9. ASSUME NEW y \in PoolEvent PROVE PlRead(y)'
      <3>1. CASE y # x
        <4>1. PlRead(y) /\ ppc'[y] = ppc[y] /\ loc'[y] = loc[y] /\ loc[y].out \in Nat
          BY <1>1, <2>2, <3>1, PlPairs, PlFacts
        <4> QED
          BY <1>1, <2>1, <2>4, <4>1 DEF PlRead
      <3>2. CASE y = x
        BY <2>2, <3>2 DEF PlRead
      <3> QED
        BY <3>1, <3>2
    <2>10. \A y \in PoolEvent : y # x => ppc'[y] = ppc[y] /\ loc'[y] = loc[y] /\ data'[y] = data[y]
      BY <1>1, <2>2
    <2>11. \A y \in PoolEvent : PlHolds(y)'
      <3>1. PlHolds(x)'
        BY <1>1, <2>2, <2>3, PlFacts DEF PlHolds
      <3> QED
        BY <2>10, <3>1, PlOthers, PlPairs
    <2>12. /\ \A y \in PoolEvent : PlEvWriter(y)' => PlEvWriter(y)
           /\ \A y \in PoolEvent : PlRsWriter(y)' => PlRsWriter(y)
           /\ \A y \in PoolEvent : \A we : PlPops(y, we)' => PlPops(y, we)
      BY <2>2, <2>10, PlOthers DEF PlEvWriter, PlRsWriter, PlPops
    <2>13. PlApart'
      BY <1>1, <2>12, PlPairs DEF PlApart
    <2>14. PlOwned'
      <3>1. ASSUME NEW y \in PoolEvent, NEW w \in Resource, PlOwns(y, w)'
            PROVE  PlOwns(y, w) \/ (y = x /\ w = r)
        <4>1. CASE y # x
          BY <2>10, <3>1, <4>1, PlOthers
        <4>2. CASE y = x
          BY <1>1, <3>1, <4>2 DEF PlOwns
        <4> QED
          BY <4>1, <4>2
      <3>2. \A y \in PoolEvent : ~PlOwns(y, r)
        BY <2>3, <2>4, PlPairs DEF PlOwned
      <3>3. \A j \in Nat : j >= rsout + 1 => ~PlHas(rsq, r, j)
        <4> SUFFICES ASSUME NEW j \in Nat, j >= rsout + 1, PlHas(rsq, r, j) PROVE FALSE
          OBVIOUS
        <4>1. j >= rsout /\ rsout >= rsout /\ j # rsout
          BY <2>4
        <4> QED
          BY <2>3, <2>4, <4>1, PlPairs DEF PlOwned
      <3>4. \A j \in Nat : j >= rsout + 1 => j >= rsout
        BY <2>4
      <3>5. \A w \in Resource : \A y, z \in PoolEvent : PlOwns(y, w)' /\ PlOwns(z, w)' => y = z
        BY <3>1, <3>2, PlPairs DEF PlOwned
      <3>6. \A w \in Resource : \A y \in PoolEvent : PlOwns(y, w)' => \A j \in Nat : j >= rsout + 1 => ~PlHas(rsq, w, j)
        BY <3>1, <3>3, <3>4, PlPairs DEF PlOwned
      <3>7. \A w \in Resource : \A i, j \in Nat : 
               i >= rsout + 1 /\ j >= rsout + 1 /\ PlHas(rsq, w, i) /\ PlHas(rsq, w, j) => i = j
        BY <3>4, PlPairs DEF PlOwned
      <3> QED
        BY <1>1, <2>1, <3>5, <3>6, <3>7 DEF PlOwned
    <2>15. PlWaits'
      <3>1. \A we \in PoolEvent : ppc[we] = "wait" => ppc'[we] = "wait"
        BY <1>1, <2>2
      <3>2. \A y \in PoolEvent : ppc'[y] \in {"r_where", "r_null"} => ppc[y] \in {"r_where", "r_null"}
        BY <2>2
      <3> QED
        BY <1>1, <2>12, <3>1, <3>2, PlPairs DEF PlWaits
    <2> QED
      BY <2>5, <2>6, <2>7, <2>8, <2>9, <2>11, <2>13, <2>14, <2>15 DEF PlInv
  <1> QED
    BY <1>2, <1>3

LEMMA PlReleaseCasInv == ASSUME PlInv, NEW x \in PoolEvent, ReleaseCas(x) PROVE PlInv'
  <1>1. UNCHANGED <<evq, rsq, uin, rsout, data, loc, todo>> /\ ppc[x] = "r_cas"
    BY DEF ReleaseCas, At2
  <1>2. CASE evout # loc[x].out
    <2>1. At2(x, "r_cas", "r_none") /\ UNCHANGED <<Queues2, data, todo>>
      BY <1>1, <1>2 DEF ReleaseCas, Queues2
    <2>2. Set(x, loc[x])
      BY <1>1, PlFacts, PlSetSame
    <2>3. PlCarries("r_cas", "r_none", loc[x], loc[x])
      BY PlFacts DEF PlCarries, PlPCs, PoolCarrying
    <2>4. PlReadAt("r_none", loc[x])
      BY <1>1, PlFacts DEF PlReadAt
    <2>5. PlSidesAt("r_none", loc[x])
      BY PlFacts, PlQuietSides DEF PlQuiet
    <2> QED
      BY <2>1, <2>2, <2>3, <2>4, <2>5, PlGoes
  <1>3. CASE evout = loc[x].out
    <2> DEFINE v == loc[x].ev
    <2>1. At2(x, "r_cas", "r_where") /\ evout' = evout + 1
      BY <1>3 DEF ReleaseCas
    <2>2. /\ ppc'[x] = "r_where" /\ \A y \in PoolEvent : y # x => ppc'[y] = ppc[y]
          /\ ppc' \in [PoolEvent -> PlPCs]
      BY <2>1, PlFacts, PlMove DEF PlPCs
    <2>3. v \in PoolEvent /\ PlHas(evq, v, evout) /\ evout < uin.ev
      BY <1>1, <1>3, PlFacts DEF PlSidesAt, PlPopOK, PlR
    <2>4. evout + 1 \in Nat /\ evout + 1 <= uin.ev /\ evout \in Nat /\ uin.ev \in Nat /\ evout >= evout
      BY <2>3, PlFacts
    <2>5. PlTyped'
      BY <1>1, <2>1, <2>2, <2>4, PlFacts DEF PlTyped
    <2>6. PlArrays'
      <3>1. PlArray(evq, PoolEvent, uin.ev, evout + 1)
        BY <2>3, PlFacts, PlPopped
      <3> QED
        BY <1>1, <2>1, <3>1, PlFacts DEF PlArrays
    <2>7. PoolNoIdle'
      BY <1>1, <2>3, <2>4, PlPairs DEF PoolNoIdle
    <2>8. ASSUME NEW y \in PoolEvent PROVE PlSides(y)'
      <3>1. CASE y # x
        <4>1. PlSides(y) /\ ppc'[y] = ppc[y] /\ loc'[y] = loc[y]
          BY <1>1, <2>2, <3>1, PlPairs
        <4>2. \A c, s, l, w, k : 
                /\ PlPushOK(evq, PoolEvent, uin.ev, evout, c, s, l, k) => PlPushOK(evq, PoolEvent, uin.ev, evout + 1, c, s, l, k)
                /\ PlPopOK(evq, PoolEvent, uin.ev, evout, c, s, l, w, k) => PlPopOK(evq, PoolEvent, uin.ev, evout + 1, c, s, l, w, k)
          BY <2>3, PlFacts, PlPoppedSide
        <4> QED
          BY <1>1, <2>1, <4>1, <4>2 DEF PlSides
      <3>2. CASE y = x
        BY <1>1, <2>1, <2>2, <3>2, PlFacts DEF PlSides, PlSidesAt, PlPushOK, PlPopOK, PlA, PlR
      <3> QED
        BY <3>1, <3>2
    <2>9. ASSUME NEW y \in PoolEvent PROVE PlRead(y)'
      <3>1. CASE y # x
        <4>1. PlRead(y) /\ ppc'[y] = ppc[y] /\ loc'[y] = loc[y] /\ loc[y].out \in Nat
          BY <1>1, <2>2, <3>1, PlPairs, PlFacts
        <4> QED
          BY <1>1, <2>1, <2>4, <4>1 DEF PlRead
      <3>2. CASE y = x
        BY <2>2, <3>2 DEF PlRead
      <3> QED
        BY <3>1, <3>2
    <2>10. \A y \in PoolEvent : y # x => ppc'[y] = ppc[y] /\ loc'[y] = loc[y] /\ data'[y] = data[y]
      BY <1>1, <2>2
    <2>11. \A y \in PoolEvent : PlHolds(y)'
      <3>1. PlHolds(x)'
        BY <1>1, <2>2, PlFacts DEF PlHolds, PoolCarrying
      <3> QED
        BY <2>10, <3>1, PlOthers, PlPairs
    <2>12. /\ \A y \in PoolEvent : PlEvWriter(y)' => PlEvWriter(y)
           /\ \A y \in PoolEvent : PlRsWriter(y)' => PlRsWriter(y)
           /\ \A y \in PoolEvent : \A r : PlOwns(y, r)' => PlOwns(y, r)
      BY <1>1, <2>2, <2>10, PlOthers DEF PlEvWriter, PlRsWriter, PlOwns, PoolCarrying
    <2>13. PlApart'
      BY <1>1, <2>12, PlPairs DEF PlApart
    <2>14. PlOwned'
      BY <1>1, <2>12, PlPairs DEF PlOwned
    <2>15. PlWaits'
      <3>1. ppc[v] = "wait" /\ \A y \in PoolEvent : ~PlPops(y, v)
        BY <2>3, <2>4, PlPairs DEF PlWaits
      <3>2. ASSUME NEW y \in PoolEvent, NEW we \in PoolEvent, PlPops(y, we)'
            PROVE  PlPops(y, we) \/ (y = x /\ we = v)
        <4>1. CASE y # x
          BY <2>10, <3>2, <4>1, PlOthers
        <4>2. CASE y = x
          BY <1>1, <3>2, <4>2 DEF PlPops
        <4> QED
          BY <4>1, <4>2
      <3>3. \A j \in Nat : j >= evout + 1 => ~PlHas(evq, v, j)
        <4> SUFFICES ASSUME NEW j \in Nat, j >= evout + 1, PlHas(evq, v, j) PROVE FALSE
          OBVIOUS
        <4>1. j >= evout /\ j # evout
          BY <2>4
        <4> QED
          BY <2>3, <2>4, <4>1, PlPairs DEF PlWaits
      <3>4. \A j \in Nat : j >= evout + 1 => j >= evout
        BY <2>4
      <3>5. \A we \in PoolEvent : ppc[we] = "wait" => ppc'[we] = "wait"
        BY <1>1, <2>2
      <3>6. \A we \in PoolEvent : \A j \in Nat : j >= evout + 1 /\ PlHas(evq, we, j) =>
               ppc'[we] = "wait" /\ \A y \in PoolEvent : ~PlPops(y, we)'
        <4> SUFFICES ASSUME NEW we \in PoolEvent, NEW j \in Nat, j >= evout + 1, PlHas(evq, we, j)
                     PROVE  ppc'[we] = "wait" /\ \A y \in PoolEvent : ~PlPops(y, we)'
          OBVIOUS
        <4>1. we # v
          BY <3>3
        <4>2. ppc[we] = "wait" /\ \A y \in PoolEvent : ~PlPops(y, we)
          BY <3>4, PlPairs DEF PlWaits
        <4> QED
          BY <3>2, <3>5, <4>1, <4>2
      <3>7. \A y \in PoolEvent : ppc'[y] \in {"r_where", "r_null"} => loc'[y].ev \in PoolEvent /\ ppc'[loc'[y].ev] = "wait"
        <4> SUFFICES ASSUME NEW y \in PoolEvent, ppc'[y] \in {"r_where", "r_null"}
                     PROVE  loc[y].ev \in PoolEvent /\ ppc'[loc[y].ev] = "wait"
          BY <1>1
        <4>1. CASE y = x
          BY <2>3, <3>1, <3>5, <4>1
        <4>2. CASE y # x
          <5>1. loc[y].ev \in PoolEvent /\ ppc[loc[y].ev] = "wait"
            BY <2>2, <4>2, PlPairs DEF PlWaits
          <5> QED
            BY <3>5, <5>1
        <4> QED
          BY <4>1, <4>2
      <3>8. \A we \in PoolEvent : \A y, z \in PoolEvent : PlPops(y, we)' /\ PlPops(z, we)' => y = z
        BY <3>1, <3>2, PlPairs DEF PlWaits
      <3>9. \A we \in PoolEvent : \A i, j \in Nat : 
               i >= evout + 1 /\ j >= evout + 1 /\ PlHas(evq, we, i) /\ PlHas(evq, we, j) => i = j
        BY <3>4, PlPairs DEF PlWaits
      <3> QED
        BY <1>1, <2>1, <3>6, <3>7, <3>8, <3>9 DEF PlWaits
    <2> QED
      BY <2>5, <2>6, <2>7, <2>8, <2>9, <2>11, <2>13, <2>14, <2>15 DEF PlInv
  <1> QED
    BY <1>2, <1>3

\* A thread that pushes has an index below the input.
LEMMA PlWriterBelow ==
  ASSUME PlInv, NEW y \in PoolEvent
  PROVE  /\ PlEvWriter(y) => loc[y].uin.ev < uin.ev
         /\ PlRsWriter(y) => loc[y].uin.rs < uin.rs
  <1>1. PlSidesAt(ppc[y], loc[y]) /\ uin.ev \in Nat /\ uin.rs \in Nat /\ evout \in Nat /\ rsout \in Nat
    BY PlFacts
  <1> QED
    BY <1>1 DEF PlSidesAt, PlPushOK, PlA, PlR, PlEvWriter, PlRsWriter

LEMMA PlPushCasInv == ASSUME PlInv, NEW x \in PoolEvent, PushCas(x) PROVE PlInv'
  <1>1. UNCHANGED <<evq, rsq, evout, rsout, data, loc, todo>>
    BY DEF PushCas
  <1>2. CASE uin # loc[x].uin
    <2>1. PICK from, to : At2(x, from, to) /\ (<<from, to>> = <<"a_push", "a_out">> \/ <<from, to>> = <<"r_push", "r_out">>)
      BY <1>2 DEF PushCas
    <2>2. UNCHANGED <<Queues2, data, todo>>
      BY <1>1, <1>2 DEF PushCas, Queues2
    <2>3. Set(x, loc[x])
      BY <1>1, PlFacts, PlSetSame
    <2>4. PlCarries(from, to, loc[x], loc[x])
      BY <2>1, PlFacts DEF PlCarries, PlPCs, PoolCarrying
    <2>5. PlReadAt(to, loc[x])
      BY <2>1 DEF PlReadAt
    <2>6. PlSidesAt(to, loc[x])
      BY <2>1, PlFacts, PlQuietSides DEF PlQuiet
    <2> QED
      BY <2>1, <2>2, <2>3, <2>4, <2>5, <2>6, PlGoes
  <1>3. ASSUME uin = loc[x].uin, At2(x, "a_push", "a_find"), uin' = [uin EXCEPT !.ev = @ + 1] PROVE PlInv'
    <2>1. /\ ppc[x] = "a_push" /\ ppc'[x] = "a_find" /\ \A y \in PoolEvent : y # x => ppc'[y] = ppc[y]
          /\ ppc' \in [PoolEvent -> PlPCs]
      BY <1>3, PlFacts, PlMove DEF PlPCs
    <2>2. uin'.ev = uin.ev + 1 /\ uin'.rs = uin.rs /\ uin' \in [ev : Nat, rs : Nat]
      BY <1>3, PlPairs DEF PlTyped
    <2>3. PlNextFree(evq, uin.ev, evout) /\ uin.rs = rsout
      <3>1. loc[x].out = loc[x].uin.rs /\ loc[x].out <= rsout
        BY <2>1, PlFacts DEF PlReadAt
      <3>2. PlNextFree(evq, uin.ev, evout)
        BY <1>3, <2>1, PlFacts DEF PlSidesAt, PlPushOK, PlA
      <3> QED
        BY <1>3, <3>1, <3>2, PlFacts
    <2>4. evout \in Nat /\ uin.ev \in Nat /\ evout <= uin.ev /\ evout <= uin.ev + 1 /\ uin.ev + 1 \in Nat
      BY PlFacts
    <2>5. PlTyped'
      BY <1>1, <2>1, <2>2, <2>4, PlFacts DEF PlTyped
    <2>6. PlArrays'
      <3>1. PlArray(evq, PoolEvent, uin.ev + 1, evout)
        BY <2>3, <2>4, PlFacts, PlPushed
      <3> QED
        BY <1>1, <2>2, <3>1, PlFacts DEF PlArrays
    <2>7. PoolNoIdle'
      BY <1>1, <2>2, <2>3 DEF PoolNoIdle
    <2>8. \A c, s, l, v, k : 
            /\ PlPushOK(evq, PoolEvent, uin.ev, evout, c, s, l, k) => PlPushOK(evq, PoolEvent, uin.ev + 1, evout, c, s, l, k)
            /\ PlPopOK(evq, PoolEvent, uin.ev, evout, c, s, l, v, k) => PlPopOK(evq, PoolEvent, uin.ev + 1, evout, c, s, l, v, k)
      BY <2>4, PlPushedSide
    <2>9. ASSUME NEW y \in PoolEvent PROVE PlSides(y)' /\ PlRead(y)'
      <3>1. CASE y # x
        <4>1. PlSides(y) /\ PlRead(y) /\ ppc'[y] = ppc[y] /\ loc'[y] = loc[y]
          BY <1>1, <2>1, <3>1, PlPairs
        <4>2. PlSides(y)'
          BY <1>1, <2>2, <2>8, <4>1 DEF PlSides
        <4>3. PlRead(y)'
          BY <1>1, <4>1 DEF PlRead
        <4> QED
          BY <4>2, <4>3
      <3>2. CASE y = x
        <4>1. \A v \in PoolEvent : ~PlHas(evq, v, uin.ev)
          <5> SUFFICES ASSUME NEW v \in PoolEvent, PlHas(evq, v, uin.ev) PROVE FALSE
            OBVIOUS
          <5>1. uin.ev < uin.ev
            BY <2>4, PlFacts, PlHasBefore, PlValues
          <5> QED
            BY <2>4, <5>1
        <4>2. PlSides(x)'
          BY <1>1, <1>3, <2>1, <2>2, <2>4, <4>1, PlFacts DEF PlSides, PlSidesAt, PlPushOK, PlPopOK, PlA, PlR
        <4>3. PlRead(x)'
          BY <2>1 DEF PlRead
        <4> QED
          BY <3>2, <4>2, <4>3
      <3> QED
        BY <3>1, <3>2
    <2>10. \A y \in PoolEvent : y # x => ppc'[y] = ppc[y] /\ loc'[y] = loc[y] /\ data'[y] = data[y]
      BY <1>1, <2>1
    <2>11. \A y \in PoolEvent : PlHolds(y)'
      <3>1. PlHolds(x)'
        BY <1>1, <2>1, PlFacts DEF PlHolds, PoolCarrying
      <3> QED
        BY <2>10, <3>1, PlOthers, PlPairs
    <2>12. /\ \A y \in PoolEvent : PlEvWriter(y)' => PlEvWriter(y) \/ y = x
           /\ \A y \in PoolEvent : PlRsWriter(y)' => PlRsWriter(y)
           /\ \A y \in PoolEvent : \A r : PlOwns(y, r)' => PlOwns(y, r)
           /\ \A y \in PoolEvent : \A we : PlPops(y, we)' => PlPops(y, we)
      BY <1>1, <2>1, <2>10, PlOthers DEF PlEvWriter, PlRsWriter, PlOwns, PlPops, PoolCarrying
    <2>13. PlApart'
      <3>1. \A y \in PoolEvent : PlEvWriter(y) => loc[y].uin.ev # uin.ev
        BY <2>4, PlWriterBelow
      <3>2. loc'[x].uin.ev = uin.ev /\ loc' = loc
        BY <1>1, <1>3
      <3> QED
        BY <2>12, <3>1, <3>2, PlPairs DEF PlApart
    <2>14. PlOwned'
      BY <1>1, <2>12, PlPairs DEF PlOwned
    <2>15. PlWaits'
      <3>1. \A we \in PoolEvent : ppc[we] = "wait" => ppc'[we] = "wait"
        BY <1>1, <2>1
      <3>2. \A y \in PoolEvent : ppc'[y] \in {"r_where", "r_null"} => ppc[y] \in {"r_where", "r_null"}
        BY <2>1
      <3> QED
        BY <1>1, <2>12, <3>1, <3>2, PlPairs DEF PlWaits
    <2> QED
      BY <2>5, <2>6, <2>7, <2>9, <2>11, <2>13, <2>14, <2>15 DEF PlInv
  <1>4. ASSUME uin = loc[x].uin, At2(x, "r_push", "r_find"), uin' = [uin EXCEPT !.rs = @ + 1] PROVE PlInv'
    <2>1. /\ ppc[x] = "r_push" /\ ppc'[x] = "r_find" /\ \A y \in PoolEvent : y # x => ppc'[y] = ppc[y]
          /\ ppc' \in [PoolEvent -> PlPCs]
      BY <1>4, PlFacts, PlMove DEF PlPCs
    <2>2. uin'.rs = uin.rs + 1 /\ uin'.ev = uin.ev /\ uin' \in [ev : Nat, rs : Nat]
      BY <1>4, PlPairs DEF PlTyped
    <2>3. PlNextFree(rsq, uin.rs, rsout) /\ uin.ev = evout
      <3>1. loc[x].out = loc[x].uin.ev /\ loc[x].out <= evout
        BY <2>1, PlFacts DEF PlReadAt
      <3>2. PlNextFree(rsq, uin.rs, rsout)
        BY <1>4, <2>1, PlFacts DEF PlSidesAt, PlPushOK, PlR
      <3> QED
        BY <1>4, <3>1, <3>2, PlFacts
    <2>4. rsout \in Nat /\ uin.rs \in Nat /\ rsout <= uin.rs /\ rsout <= uin.rs + 1 /\ uin.rs + 1 \in Nat
      BY PlFacts
    <2>5. PlTyped'
      BY <1>1, <2>1, <2>2, <2>4, PlFacts DEF PlTyped
    <2>6. PlArrays'
      <3>1. PlArray(rsq, Resource, uin.rs + 1, rsout)
        BY <2>3, <2>4, PlFacts, PlPushed
      <3> QED
        BY <1>1, <2>2, <3>1, PlFacts DEF PlArrays
    <2>7. PoolNoIdle'
      BY <1>1, <2>2, <2>3 DEF PoolNoIdle
    <2>8. \A c, s, l, v, k : 
            /\ PlPushOK(rsq, Resource, uin.rs, rsout, c, s, l, k) => PlPushOK(rsq, Resource, uin.rs + 1, rsout, c, s, l, k)
            /\ PlPopOK(rsq, Resource, uin.rs, rsout, c, s, l, v, k) => PlPopOK(rsq, Resource, uin.rs + 1, rsout, c, s, l, v, k)
      BY <2>4, PlPushedSide
    <2>9. ASSUME NEW y \in PoolEvent PROVE PlSides(y)' /\ PlRead(y)'
      <3>1. CASE y # x
        <4>1. PlSides(y) /\ PlRead(y) /\ ppc'[y] = ppc[y] /\ loc'[y] = loc[y]
          BY <1>1, <2>1, <3>1, PlPairs
        <4>2. PlSides(y)'
          BY <1>1, <2>2, <2>8, <4>1 DEF PlSides
        <4>3. PlRead(y)'
          BY <1>1, <4>1 DEF PlRead
        <4> QED
          BY <4>2, <4>3
      <3>2. CASE y = x
        <4>1. \A v \in Resource : ~PlHas(rsq, v, uin.rs)
          <5> SUFFICES ASSUME NEW v \in Resource, PlHas(rsq, v, uin.rs) PROVE FALSE
            OBVIOUS
          <5>1. uin.rs < uin.rs
            BY <2>4, PlFacts, PlHasBefore, PlValues
          <5> QED
            BY <2>4, <5>1
        <4>2. PlSides(x)'
          BY <1>1, <1>4, <2>1, <2>2, <2>4, <4>1, PlFacts DEF PlSides, PlSidesAt, PlPushOK, PlPopOK, PlA, PlR
        <4>3. PlRead(x)'
          BY <2>1 DEF PlRead
        <4> QED
          BY <3>2, <4>2, <4>3
      <3> QED
        BY <3>1, <3>2
    <2>10. \A y \in PoolEvent : y # x => ppc'[y] = ppc[y] /\ loc'[y] = loc[y] /\ data'[y] = data[y]
      BY <1>1, <2>1
    <2>11. \A y \in PoolEvent : PlHolds(y)'
      <3>1. PlHolds(x)'
        BY <1>1, <2>1, PlFacts DEF PlHolds, PoolCarrying
      <3> QED
        BY <2>10, <3>1, PlOthers, PlPairs
    <2>12. /\ \A y \in PoolEvent : PlRsWriter(y)' => PlRsWriter(y) \/ y = x
           /\ \A y \in PoolEvent : PlEvWriter(y)' => PlEvWriter(y)
           /\ \A y \in PoolEvent : \A r : PlOwns(y, r)' => PlOwns(y, r)
           /\ \A y \in PoolEvent : \A we : PlPops(y, we)' => PlPops(y, we)
      BY <1>1, <2>1, <2>10, PlOthers DEF PlEvWriter, PlRsWriter, PlOwns, PlPops, PoolCarrying
    <2>13. PlApart'
      <3>1. \A y \in PoolEvent : PlRsWriter(y) => loc[y].uin.rs # uin.rs
        BY <2>4, PlWriterBelow
      <3>2. loc'[x].uin.rs = uin.rs /\ loc' = loc
        BY <1>1, <1>4
      <3> QED
        BY <2>12, <3>1, <3>2, PlPairs DEF PlApart
    <2>14. PlOwned'
      BY <1>1, <2>12, PlPairs DEF PlOwned
    <2>15. PlWaits'
      <3>1. \A we \in PoolEvent : ppc[we] = "wait" => ppc'[we] = "wait"
        BY <1>1, <2>1
      <3>2. \A y \in PoolEvent : ppc'[y] \in {"r_where", "r_null"} => ppc[y] \in {"r_where", "r_null"}
        BY <2>1
      <3> QED
        BY <1>1, <2>2, <2>12, <3>1, <3>2, PlPairs DEF PlWaits
    <2> QED
      BY <2>5, <2>6, <2>7, <2>9, <2>11, <2>13, <2>14, <2>15 DEF PlInv
  <1> QED
    BY <1>2, <1>3, <1>4 DEF PushCas

\* An assertion that fails: nothing is touched.
LEMMA PlAborts ==
  ASSUME PlInv, NEW x \in PoolEvent, UNCHANGED <<Queues2, data, todo, loc>>, NEW from, At2(x, from, "abort"),
         from \notin {"run", "wait"}
  PROVE  PlInv'
  <1>1. Set(x, loc[x])
    BY PlFacts, PlSetSame
  <1>2. PlCarries(from, "abort", loc[x], loc[x])
    BY PlFacts DEF PlCarries, PlPCs, PoolCarrying
  <1>3. PlReadAt("abort", loc[x])
    BY DEF PlReadAt
  <1>4. PlSidesAt("abort", loc[x])
    BY PlFacts, PlQuietSides DEF PlQuiet
  <1> QED
    BY <1>1, <1>2, <1>3, <1>4, PlGoes

\* The slot of a popped entry is emptied.
PlEmptiesOK(p, q, V, in, out, v) ==
  /\ PlArray(p, V, in, out)
  /\ \A w \in V : \A j \in Nat : PlHas(p, w, j) => PlHas(q, w, j)
  /\ \A c, s, l, k : PlPushOK(q, V, in, out, c, s, l, k) => PlPushOK(p, V, in, out, c, s, l, k)
  /\ \A c, s, l, w, k : PlPopOK(q, V, in, out, c, s, l, w, k) /\ ~(c = s.cas /\ l = out /\ w = v) 
       => PlPopOK(p, V, in, out, c, s, l, w, k)

LEMMA PlEmpties ==
  ASSUME NEW V, NEW q, NEW in \in Nat, NEW out \in Nat, PlArray(q, V, in, out), V \cap {"nil", "uninit"} = {},
         NEW k0 \in 1 .. Len(q), NEW i0 \in Nat, NEW v \in V, At(q[k0], i0).ptr = v,
         NEW p, p = PlPutIn(q, k0, i0, Slot("nil", NoIndex))
  PROVE  PlEmptiesOK(p, q, V, in, out, v)
  <1>1. PlAfterEmpty(p, q, V, in, out, v)
    BY PlEmptiedArray
  <1>2. ASSUME NEW c, NEW s, NEW l, NEW w, NEW k PROVE PlEmptyKeeps(p, q, V, in, out, c, s, l, w, k, v)
    BY PlEmptiedSide
  <1> QED
    BY <1>1, <1>2 DEF PlEmptiesOK, PlAfterEmpty, PlEmptyKeeps

LEMMA PlAcquireDoneInv == ASSUME PlInv, NEW x \in PoolEvent, AcquireDone(x) PROVE PlInv'
  <1>1. UNCHANGED <<evq, uin, evout, rsout, loc, todo>> /\ ppc[x] = "a_null"
    BY DEF AcquireDone, At2
  <1>2. CASE ~SlotHolds(rsq, x, loc[x].got)
    <2>1. At2(x, "a_null", "abort") /\ UNCHANGED <<Queues2, data, todo, loc>>
      BY <1>2 DEF AcquireDone, Queues2
    <2> QED
      BY <2>1, PlAborts
  <1>3. CASE SlotHolds(rsq, x, loc[x].got)
    <2> DEFINE r == loc[x].got
               k == loc[x].impl
               i == loc[x].out
    <2>1. At2(x, "a_null", "run") /\ rsq' = Emptied(rsq, x) /\ data' = [data EXCEPT ![x] = r]
      BY <1>3 DEF AcquireDone
    <2>2. /\ ppc'[x] = "run" /\ \A y \in PoolEvent : y # x => ppc'[y] = ppc[y]
          /\ ppc' \in [PoolEvent -> PlPCs]
      BY <2>1, PlFacts, PlMove DEF PlPCs
    <2>3. r \in Resource /\ PlOwns(x, r) /\ data[x] = "nil"
      BY <1>1, PlFacts DEF PlHolds, PoolCarrying, PlOwns
    <2>4. k \in 1 .. Len(rsq) /\ i \in Nat /\ At(rsq[k], i).ptr = r
      BY <1>1, <1>3, PlFacts DEF PlSidesAt, PlPopOK, PlA, SlotHolds
    <2>5. data'[x] = r /\ (\A y \in PoolEvent : y # x => data'[y] = data[y]) /\ data' \in [PoolEvent -> Resource \cup {"nil"}]
      BY <2>1, <2>3, PlFacts DEF PlTyped
    <2>6. PlEmptiesOK(rsq', rsq, Resource, uin.rs, rsout, r)
      <3>1. rsq' = PlPutIn(rsq, k, i, Slot("nil", NoIndex))
        BY <2>1 DEF Emptied, PlPutIn
      <3> QED
        BY <2>3, <2>4, <3>1, PlFacts, PlEmpties, PlValues
    <2>7. PlTyped'
      BY <1>1, <2>2, <2>5, PlFacts DEF PlTyped
    <2>8. PlArrays'
      BY <1>1, <2>6, PlFacts DEF PlArrays, PlEmptiesOK
    <2>9. PoolNoIdle'
      BY <1>1, PlPairs DEF PoolNoIdle
    <2>10. \A j \in Nat : j >= rsout => ~PlHas(rsq, r, j)
      BY <2>3, PlPairs DEF PlOwned
    <2>11. ASSUME NEW y \in PoolEvent PROVE PlSides(y)' /\ PlRead(y)'
      <3>1. CASE y # x
        <4>1. PlSides(y) /\ PlRead(y) /\ ppc'[y] = ppc[y] /\ loc'[y] = loc[y]
          BY <1>1, <2>2, <3>1, PlPairs
        <4>2. ~(ppc[y] = PlA.cas /\ loc[y].out = rsout /\ loc[y].got = r)
          <5> SUFFICES ASSUME ppc[y] = PlA.cas, loc[y].out = rsout, loc[y].got = r PROVE FALSE
            OBVIOUS
          <5>1. PlHas(rsq, r, rsout)
            BY <4>1 DEF PlSides, PlPopOK
          <5> QED
            BY <2>10, <5>1, PlFacts
        <4>3. PlSides(y)'
          BY <1>1, <2>6, <4>1, <4>2 DEF PlSides, PlEmptiesOK
        <4>4. PlRead(y)'
          BY <1>1, <4>1 DEF PlRead
        <4> QED
          BY <4>3, <4>4
      <3>2. CASE y = x
        <4>1. PlSides(x)'
          BY <1>1, <2>2, PlFacts DEF PlSides, PlSidesAt, PlPushOK, PlPopOK, PlA, PlR
        <4>2. PlRead(x)'
          BY <2>2 DEF PlRead
        <4> QED
          BY <3>2, <4>1, <4>2
      <3> QED
        BY <3>1, <3>2
    <2>12. \A y \in PoolEvent : y # x => ppc'[y] = ppc[y] /\ loc'[y] = loc[y] /\ data'[y] = data[y]
      BY <1>1, <2>2, <2>5
    <2>13. \A y \in PoolEvent : PlHolds(y)'
      <3>1. PlHolds(x)'
        BY <2>2, <2>3, <2>5 DEF PlHolds, PoolCarrying
      <3> QED
        BY <2>12, <3>1, PlOthers, PlPairs
    <2>14. /\ \A y \in PoolEvent : PlEvWriter(y)' => PlEvWriter(y)
           /\ \A y \in PoolEvent : PlRsWriter(y)' => PlRsWriter(y)
           /\ \A y \in PoolEvent : \A w : PlOwns(y, w)' => PlOwns(y, w)
           /\ \A y \in PoolEvent : \A we : PlPops(y, we)' => PlPops(y, we)
      <3>1. ~PlEvWriter(x)' /\ ~PlRsWriter(x)' /\ \A we : ~PlPops(x, we)'
        BY <2>2 DEF PlEvWriter, PlRsWriter, PlPops
      <3>2. \A w : PlOwns(x, w)' => PlOwns(x, w)
        BY <2>2, <2>3, <2>5 DEF PlOwns, PoolCarrying
      <3> QED
        BY <2>12, <3>1, <3>2, PlOthers
    <2>15. PlApart'
      BY <1>1, <2>14, PlPairs DEF PlApart
    <2>16. PlOwned'
      BY <1>1, <2>6, <2>14, PlPairs DEF PlOwned, PlEmptiesOK
    <2>17. PlWaits'
      <3>1. \A we \in PoolEvent : ppc[we] = "wait" => ppc'[we] = "wait"
        BY <1>1, <2>2
      <3>2. \A y \in PoolEvent : ppc'[y] \in {"r_where", "r_null"} => ppc[y] \in {"r_where", "r_null"}
        BY <2>2
      <3> QED
        BY <1>1, <2>14, <3>1, <3>2, PlPairs DEF PlWaits
    <2> QED
      BY <2>7, <2>8, <2>9, <2>11, <2>13, <2>15, <2>16, <2>17 DEF PlInv
  <1> QED
    BY <1>2, <1>3

LEMMA PlReleaseDoneInv == ASSUME PlInv, NEW x \in PoolEvent, ReleaseDone(x) PROVE PlInv'
  <1>1. UNCHANGED <<rsq, uin, evout, rsout, todo>> /\ ppc[x] = "r_null"
    BY DEF ReleaseDone
  <1>2. CASE ~(SlotHolds(evq, x, loc[x].ev) /\ data[loc[x].ev] = "nil")
    <2>1. At2(x, "r_null", "abort") /\ UNCHANGED <<Queues2, data, todo, loc>>
      BY <1>2 DEF ReleaseDone, Queues2, At2
    <2> QED
      BY <2>1, PlAborts
  <1>3. CASE SlotHolds(evq, x, loc[x].ev) /\ data[loc[x].ev] = "nil"
    <2>e. PICK we : we = loc[x].ev
      OBVIOUS
    <2>r. PICK r : r = loc[x].got
      OBVIOUS
    <2> DEFINE k == loc[x].impl
               i == loc[x].out
    <2>1. /\ ppc' = [ppc EXCEPT ![x] = "idle", ![we] = "run"] /\ evq' = Emptied(evq, x)
          /\ data' = [data EXCEPT ![we] = r] /\ Set(x, PoolLocals)
      BY <1>3, <2>e, <2>r DEF ReleaseDone
    <2>2. we \in PoolEvent /\ ppc[we] = "wait" /\ PlPops(x, we) /\ we # x
      BY <1>1, <2>e, PlPairs DEF PlWaits, PlPops
    <2>3. r \in Resource /\ PlOwns(x, r) /\ data[x] = "nil" /\ data[we] = "nil"
      BY <1>1, <1>3, <2>e, <2>r, PlFacts DEF PlHolds, PoolCarrying, PlOwns
    <2>4. k \in 1 .. Len(evq) /\ i \in Nat /\ At(evq[k], i).ptr = we
      BY <1>1, <1>3, <2>e, PlFacts DEF PlSidesAt, PlPopOK, PlR, SlotHolds
    <2>5. /\ ppc'[x] = "idle" /\ ppc'[we] = "run" /\ (\A y \in PoolEvent : y # x /\ y # we => ppc'[y] = ppc[y])
          /\ ppc' \in [PoolEvent -> PlPCs]
      BY <2>1, <2>2, PlFacts DEF PlTyped, PlPCs
    <2>6. data'[we] = r /\ (\A y \in PoolEvent : y # we => data'[y] = data[y]) /\ data' \in [PoolEvent -> Resource \cup {"nil"}]
      BY <2>1, <2>2, <2>3, PlFacts DEF PlTyped
    <2>7. PoolLocals \in PlLocals /\ PoolLocals.uin.ev = 0 /\ PoolLocals.uin.rs = 0
      BY DEF PoolLocals, PlLocals
    <2>8. loc'[x] = PoolLocals /\ (\A y \in PoolEvent : y # x => loc'[y] = loc[y]) /\ loc' \in [PoolEvent -> PlLocals]
      BY <2>1, <2>7, PlFacts, PlSet
    <2>9. PlEmptiesOK(evq', evq, PoolEvent, uin.ev, evout, we)
      <3>1. evq' = PlPutIn(evq, k, i, Slot("nil", NoIndex))
        BY <2>1 DEF Emptied, PlPutIn
      <3> QED
        BY <2>2, <2>4, <3>1, PlFacts, PlEmpties, PlValues
    <2>10. PlTyped'
      BY <1>1, <2>5, <2>6, <2>8, PlFacts DEF PlTyped
    <2>11. PlArrays'
      BY <1>1, <2>9, PlFacts DEF PlArrays, PlEmptiesOK
    <2>12. PoolNoIdle'
      BY <1>1, PlPairs DEF PoolNoIdle
    <2>13. \A j \in Nat : j >= evout => ~PlHas(evq, we, j)
      BY <2>2, PlPairs DEF PlWaits
    <2>14. ASSUME NEW y \in PoolEvent PROVE PlSides(y)' /\ PlRead(y)'
      <3>1. CASE y # x /\ y # we
        <4>1. PlSides(y) /\ PlRead(y) /\ ppc'[y] = ppc[y] /\ loc'[y] = loc[y]
          BY <2>5, <2>8, <3>1, PlPairs
        <4>2. ~(ppc[y] = PlR.cas /\ loc[y].out = evout /\ loc[y].ev = we)
          <5> SUFFICES ASSUME ppc[y] = PlR.cas, loc[y].out = evout, loc[y].ev = we PROVE FALSE
            OBVIOUS
          <5>1. PlHas(evq, we, evout)
            BY <4>1 DEF PlSides, PlPopOK
          <5> QED
            BY <2>13, <5>1, PlFacts
        <4>3. PlSides(y)'
          BY <1>1, <2>9, <4>1, <4>2 DEF PlSides, PlEmptiesOK
        <4>4. PlRead(y)'
          BY <1>1, <4>1 DEF PlRead
        <4> QED
          BY <4>3, <4>4
      <3>2. CASE y = x
        <4>1. PlSides(x)'
          BY <1>1, <2>5, <2>7, <2>8, PlFacts DEF PlSides, PlPushOK, PlPopOK, PlA, PlR, PlLocals
        <4>2. PlRead(x)'
          BY <2>5 DEF PlRead
        <4> QED
          BY <3>2, <4>1, <4>2
      <3>3. CASE y = we
        <4>1. loc'[we] = loc[we] /\ loc[we] \in PlLocals /\ loc[we].uin.ev <= uin.ev /\ loc[we].uin.rs <= uin.rs
          BY <2>2, <2>8, PlFacts
        <4>2. PlSides(we)'
          BY <1>1, <2>5, <4>1 DEF PlSides, PlPushOK, PlPopOK, PlA, PlR, PlLocals
        <4>3. PlRead(we)'
          BY <2>5 DEF PlRead
        <4> QED
          BY <3>3, <4>2, <4>3
      <3> QED
        BY <3>1, <3>2, <3>3
    <2>15. \A y \in PoolEvent : y # x /\ y # we => ppc'[y] = ppc[y] /\ loc'[y] = loc[y] /\ data'[y] = data[y]
      BY <2>5, <2>6, <2>8
    <2>16. \A y \in PoolEvent : PlHolds(y)'
      <3>1. PlHolds(x)'
        BY <2>2, <2>3, <2>5, <2>6 DEF PlHolds, PoolCarrying
      <3>2. PlHolds(we)'
        BY <2>3, <2>5, <2>6 DEF PlHolds, PoolCarrying
      <3> QED
        BY <2>15, <3>1, <3>2, PlOthers, PlPairs
    <2>17. /\ ~PlEvWriter(x)' /\ ~PlRsWriter(x)' /\ (\A d : ~PlPops(x, d)') /\ (\A w \in Resource : ~PlOwns(x, w)')
           /\ ~PlEvWriter(we)' /\ ~PlRsWriter(we)' /\ (\A d : ~PlPops(we, d)') /\ (\A w : PlOwns(we, w)' => w = r)
      BY <2>2, <2>3, <2>5, <2>6, PlValues DEF PlEvWriter, PlRsWriter, PlPops, PlOwns, PoolCarrying
    <2>18. /\ \A y \in PoolEvent : PlEvWriter(y)' => PlEvWriter(y) /\ y # x
           /\ \A y \in PoolEvent : PlRsWriter(y)' => PlRsWriter(y) /\ y # x
           /\ \A y \in PoolEvent : \A d : PlPops(y, d)' => PlPops(y, d) /\ y # x
      BY <2>15, <2>17, PlOthers
    <2>19. PlApart'
      BY <2>8, <2>18, PlPairs DEF PlApart
    <2>20. PlOwned'
      <3>1. ASSUME NEW y \in PoolEvent, NEW w \in Resource, PlOwns(y, w)'
            PROVE  IF y = we THEN PlOwns(x, w) ELSE y # x /\ PlOwns(y, w)
        <4>1. CASE y = we
          BY <2>3, <2>17, <3>1, <4>1
        <4>2. CASE y # we
          BY <2>15, <2>17, <3>1, <4>2, PlOthers
        <4> QED
          BY <4>1, <4>2
      <3>2. \A w \in Resource : \A y, z \in PoolEvent : PlOwns(y, w)' /\ PlOwns(z, w)' => y = z
        BY <3>1, PlPairs DEF PlOwned
      <3>3. \A w \in Resource : \A y \in PoolEvent : PlOwns(y, w)' => \A j \in Nat : j >= rsout => ~PlHas(rsq, w, j)
        BY <3>1, PlPairs DEF PlOwned
      <3>4. \A w \in Resource : \A m, j \in Nat : 
               m >= rsout /\ j >= rsout /\ PlHas(rsq, w, m) /\ PlHas(rsq, w, j) => m = j
        BY PlPairs DEF PlOwned
      <3> QED
        BY <1>1, <3>2, <3>3, <3>4 DEF PlOwned
    <2>21. PlWaits'
      <3>1. \A d \in PoolEvent : ppc[d] = "wait" /\ d # we => ppc'[d] = "wait"
        BY <1>1, <2>5
      <3>2. \A d \in PoolEvent : \A j \in Nat : PlHas(evq', d, j) => PlHas(evq, d, j)
        BY <2>9 DEF PlEmptiesOK
      <3>3. \A d \in PoolEvent : \A j \in Nat : j >= evout /\ PlHas(evq', d, j) =>
               ppc'[d] = "wait" /\ \A y \in PoolEvent : ~PlPops(y, d)'
        BY <2>13, <2>18, <3>1, <3>2, PlPairs DEF PlWaits
      <3>4. \A y \in PoolEvent : ppc'[y] \in {"r_where", "r_null"} => loc'[y].ev \in PoolEvent /\ ppc'[loc'[y].ev] = "wait"
        <4> SUFFICES ASSUME NEW y \in PoolEvent, ppc'[y] \in {"r_where", "r_null"}
                     PROVE  loc'[y].ev \in PoolEvent /\ ppc'[loc'[y].ev] = "wait"
          OBVIOUS
        <4>1. y # x /\ y # we
          BY <2>5
        <4>2. ppc[y] \in {"r_where", "r_null"} /\ loc'[y] = loc[y]
          BY <2>15, <4>1
        <4>3. loc[y].ev \in PoolEvent /\ ppc[loc[y].ev] = "wait" /\ PlPops(y, loc[y].ev)
          BY <4>2, PlPairs DEF PlWaits, PlPops
        <4>4. loc[y].ev # we
          BY <2>2, <4>1, <4>3, PlPairs DEF PlWaits
        <4> QED
          BY <3>1, <4>2, <4>3, <4>4
      <3>5. \A d \in PoolEvent : \A y, z \in PoolEvent : PlPops(y, d)' /\ PlPops(z, d)' => y = z
        BY <2>18, PlPairs DEF PlWaits
      <3>6. \A d \in PoolEvent : \A m, j \in Nat : 
               m >= evout /\ j >= evout /\ PlHas(evq', d, m) /\ PlHas(evq', d, j) => m = j
        BY <3>2, PlPairs DEF PlWaits
      <3> QED
        BY <1>1, <3>3, <3>4, <3>5, <3>6 DEF PlWaits
    <2> QED
      BY <2>10, <2>11, <2>12, <2>14, <2>16, <2>19, <2>20, <2>21 DEF PlInv
  <1> QED
    BY <1>2, <1>3

\* The slot of an index that was taken is written.
PlWritesOK(p, q, V, in, out, i0, v) ==
  /\ PlArray(p, V, in, out)
  /\ \A w \in V : \A j \in Nat : PlHas(p, w, j) <=> PlHas(q, w, j) \/ (w = v /\ j = i0)
  /\ \A c, s, l, k : PlPushOK(q, V, in, out, c, s, l, k) /\ (c \in {s.find, s.write} => l # i0)
       => PlPushOK(p, V, in, out, c, s, l, k)
  /\ \A c, s, l, w, k : PlPopOK(q, V, in, out, c, s, l, w, k) => PlPopOK(p, V, in, out, c, s, l, w, k)

LEMMA PlWrites ==
  ASSUME NEW V, NEW q, NEW in \in Nat, NEW out \in Nat, PlArray(q, V, in, out), V \cap {"nil", "uninit"} = {},
         NEW k0 \in 1 .. Len(q), NEW i0 \in out .. in - 1, NEW v \in V, 
         At(q[k0], i0).ptr = "nil", i0 - out < SizeOf(q[k0])
  PROVE  PlWritesOK(Written(q, k0, i0, v), q, V, in, out, i0, v)
  <1>1. PlAfterWrite(Written(q, k0, i0, v), q, V, in, out, k0, i0, v)
    BY PlWrittenArray
  <1>2. ASSUME NEW c, NEW s, NEW l, NEW w, NEW k 
        PROVE  PlWriteKeeps(Written(q, k0, i0, v), q, V, in, out, c, s, l, w, k, i0)
    BY PlWrittenSide
  <1> QED
    BY <1>1, <1>2 DEF PlWritesOK, PlAfterWrite, PlWriteKeeps

LEMMA PlWriteSlotInv == ASSUME PlInv, NEW x \in PoolEvent, WriteSlot(x) PROVE PlInv'
  <1>1. UNCHANGED <<uin, evout, rsout, data, todo>> /\ Set(x, PoolLocals)
    BY DEF WriteSlot
  <1>2. PoolLocals \in PlLocals /\ PoolLocals.uin.ev = 0 /\ PoolLocals.uin.rs = 0
    BY DEF PoolLocals, PlLocals
  <1>3. loc'[x] = PoolLocals /\ (\A y \in PoolEvent : y # x => loc'[y] = loc[y]) /\ loc' \in [PoolEvent -> PlLocals]
    BY <1>1, <1>2, PlFacts, PlSet
  <1>4. PoolNoIdle'
    BY <1>1, PlPairs DEF PoolNoIdle
  <1>5. ASSUME At2(x, "a_write", IF SlotFree(evq, x, loc[x].uin.ev) THEN "wait" ELSE "abort"), UNCHANGED rsq,
               evq' = IF SlotFree(evq, x, loc[x].uin.ev) 
                      THEN Written(evq, loc[x].impl, loc[x].uin.ev, x) ELSE evq
        PROVE  PlInv'
    <2>1. PICK i : i = loc[x].uin.ev
      OBVIOUS
    <2>2. PICK k : k = loc[x].impl
      OBVIOUS
    <2>3. /\ i \in evout .. uin.ev - 1 /\ (\A w \in PoolEvent : ~PlHas(evq, w, i)) /\ i \in Nat
          /\ k \in 1 .. Len(evq) /\ At(evq[k], i).ptr = "nil" /\ i - evout < SizeOf(evq[k])
      BY <1>5, <2>1, <2>2, PlFacts DEF PlSidesAt, PlPushOK, PlA, At2
    <2>4. ppc[x] = "a_write" /\ At2(x, "a_write", "wait") /\ evq' = Written(evq, k, i, x)
      BY <1>5, <2>1, <2>2, <2>3 DEF SlotFree, At2
    <2>5. /\ ppc'[x] = "wait" /\ \A y \in PoolEvent : y # x => ppc'[y] = ppc[y]
          /\ ppc' \in [PoolEvent -> PlPCs]
      BY <2>4, PlFacts, PlMove DEF PlPCs
    <2>6. PlWritesOK(evq', evq, PoolEvent, uin.ev, evout, i, x)
      BY <2>3, <2>4, PlFacts, PlWrites, PlValues
    <2>7. PlTyped'
      BY <1>1, <1>3, <2>5, PlFacts DEF PlTyped
    <2>8. PlArrays'
      BY <1>1, <1>5, <2>6, PlFacts DEF PlArrays, PlWritesOK
    <2>9. ASSUME NEW y \in PoolEvent PROVE PlSides(y)' /\ PlRead(y)'
      <3>1. CASE y # x
        <4>1. PlSides(y) /\ PlRead(y) /\ ppc'[y] = ppc[y] /\ loc'[y] = loc[y]
          BY <1>3, <2>5, <3>1, PlPairs
        <4>2. ppc[y] \in {PlA.find, PlA.write} => loc[y].uin.ev # i
          BY <2>1, <2>4, <3>1, PlPairs DEF PlApart, PlEvWriter, PlA
        <4>3. PlSides(y)'
          BY <1>1, <1>5, <2>6, <4>1, <4>2 DEF PlSides, PlWritesOK
        <4>4. PlRead(y)'
          BY <1>1, <4>1 DEF PlRead
        <4> QED
          BY <4>3, <4>4
      <3>2. CASE y = x
        <4>1. PlSides(x)'
          BY <1>1, <1>2, <1>3, <2>5, PlFacts DEF PlSides, PlPushOK, PlPopOK, PlA, PlR, PlLocals
        <4>2. PlRead(x)'
          BY <2>5 DEF PlRead
        <4> QED
          BY <3>2, <4>1, <4>2
      <3> QED
        BY <3>1, <3>2
    <2>10. \A y \in PoolEvent : y # x => ppc'[y] = ppc[y] /\ loc'[y] = loc[y] /\ data'[y] = data[y]
      BY <1>1, <1>3, <2>5
    <2>11. \A y \in PoolEvent : PlHolds(y)'
      <3>1. PlHolds(x)'
        BY <1>1, <2>4, <2>5, PlFacts DEF PlHolds, PoolCarrying
      <3> QED
        BY <2>10, <3>1, PlOthers, PlPairs
    <2>12. ~PlEvWriter(x)' /\ ~PlRsWriter(x)' /\ (\A d : ~PlPops(x, d)') /\ (\A w \in Resource : ~PlOwns(x, w)')
      BY <1>1, <2>4, <2>5, PlFacts, PlValues DEF PlEvWriter, PlRsWriter, PlPops, PlOwns, PoolCarrying, PlHolds
    <2>13. /\ \A y \in PoolEvent : PlEvWriter(y)' => PlEvWriter(y) /\ y # x
           /\ \A y \in PoolEvent : PlRsWriter(y)' => PlRsWriter(y) /\ y # x
           /\ \A y \in PoolEvent : \A d : PlPops(y, d)' => PlPops(y, d) /\ y # x
           /\ \A y \in PoolEvent : \A w \in Resource : PlOwns(y, w)' => PlOwns(y, w) /\ y # x
      BY <2>10, <2>12, PlOthers
    <2>14. PlApart'
      BY <1>3, <2>13, PlPairs DEF PlApart
    <2>15. PlOwned'
      BY <1>1, <1>5, <2>13, PlPairs DEF PlOwned
    <2>16. PlWaits'
      <3>1. \A d \in PoolEvent : ppc[d] = "wait" => ppc'[d] = "wait"
        BY <2>4, <2>5
      <3>2. /\ \A j \in Nat : j >= evout => ~PlHas(evq, x, j)
            /\ \A y \in PoolEvent : ~PlPops(y, x)
        BY <2>4, PlPairs DEF PlWaits, PlPops
      <3>3. \A d \in PoolEvent : \A j \in Nat : PlHas(evq', d, j) <=> PlHas(evq, d, j) \/ (d = x /\ j = i)
        BY <2>6 DEF PlWritesOK
      <3>4. \A d \in PoolEvent : \A j \in Nat : j >= evout /\ PlHas(evq', d, j) =>
               ppc'[d] = "wait" /\ \A y \in PoolEvent : ~PlPops(y, d)'
        BY <2>5, <2>13, <3>1, <3>2, <3>3, PlPairs DEF PlWaits
      <3>5. \A y \in PoolEvent : ppc'[y] \in {"r_where", "r_null"} => loc'[y].ev \in PoolEvent /\ ppc'[loc'[y].ev] = "wait"
        <4> SUFFICES ASSUME NEW y \in PoolEvent, ppc'[y] \in {"r_where", "r_null"}
                     PROVE  loc'[y].ev \in PoolEvent /\ ppc'[loc'[y].ev] = "wait"
          OBVIOUS
        <4>1. ppc[y] \in {"r_where", "r_null"} /\ loc'[y] = loc[y]
          BY <2>5, <2>10
        <4> QED
          BY <3>1, <4>1, PlPairs DEF PlWaits
      <3>6. \A d \in PoolEvent : \A y, z \in PoolEvent : PlPops(y, d)' /\ PlPops(z, d)' => y = z
        BY <2>13, PlPairs DEF PlWaits
      <3>7. \A d \in PoolEvent : \A m, j \in Nat : 
               m >= evout /\ j >= evout /\ PlHas(evq', d, m) /\ PlHas(evq', d, j) => m = j
        BY <3>2, <3>3, PlPairs DEF PlWaits
      <3> QED
        BY <1>1, <3>4, <3>5, <3>6, <3>7 DEF PlWaits
    <2> QED
      BY <1>4, <2>7, <2>8, <2>9, <2>11, <2>14, <2>15, <2>16 DEF PlInv
  <1>6. ASSUME At2(x, "r_write", IF SlotFree(rsq, x, loc[x].uin.rs) THEN "idle" ELSE "abort"), UNCHANGED evq,
               rsq' = IF SlotFree(rsq, x, loc[x].uin.rs)
                      THEN Written(rsq, loc[x].impl, loc[x].uin.rs, loc[x].got) ELSE rsq
        PROVE  PlInv'
    <2>1. PICK i : i = loc[x].uin.rs
      OBVIOUS
    <2>2. PICK k : k = loc[x].impl
      OBVIOUS
    <2>r. PICK r : r = loc[x].got
      OBVIOUS
    <2>3. /\ i \in rsout .. uin.rs - 1 /\ (\A w \in Resource : ~PlHas(rsq, w, i)) /\ i \in Nat
          /\ k \in 1 .. Len(rsq) /\ At(rsq[k], i).ptr = "nil" /\ i - rsout < SizeOf(rsq[k])
      BY <1>6, <2>1, <2>2, PlFacts DEF PlSidesAt, PlPushOK, PlR, At2
    <2>4. ppc[x] = "r_write" /\ At2(x, "r_write", "idle") /\ rsq' = Written(rsq, k, i, r)
      BY <1>6, <2>1, <2>2, <2>r, <2>3 DEF SlotFree, At2
    <2>o. r \in Resource /\ PlOwns(x, r) /\ data[x] = "nil"
      BY <2>4, <2>r, PlFacts DEF PlHolds, PoolCarrying, PlOwns
    <2>5. /\ ppc'[x] = "idle" /\ \A y \in PoolEvent : y # x => ppc'[y] = ppc[y]
          /\ ppc' \in [PoolEvent -> PlPCs]
      BY <2>4, PlFacts, PlMove DEF PlPCs
    <2>6. PlWritesOK(rsq', rsq, Resource, uin.rs, rsout, i, r)
      BY <2>3, <2>4, <2>o, PlFacts, PlWrites, PlValues
    <2>7. PlTyped'
      BY <1>1, <1>3, <2>5, PlFacts DEF PlTyped
    <2>8. PlArrays'
      BY <1>1, <1>6, <2>6, PlFacts DEF PlArrays, PlWritesOK
    <2>9. ASSUME NEW y \in PoolEvent PROVE PlSides(y)' /\ PlRead(y)'
      <3>1. CASE y # x
        <4>1. PlSides(y) /\ PlRead(y) /\ ppc'[y] = ppc[y] /\ loc'[y] = loc[y]
          BY <1>3, <2>5, <3>1, PlPairs
        <4>2. ppc[y] \in {PlR.find, PlR.write} => loc[y].uin.rs # i
          BY <2>1, <2>4, <3>1, PlPairs DEF PlApart, PlRsWriter, PlR
        <4>3. PlSides(y)'
          BY <1>1, <1>6, <2>6, <4>1, <4>2 DEF PlSides, PlWritesOK
        <4>4. PlRead(y)'
          BY <1>1, <4>1 DEF PlRead
        <4> QED
          BY <4>3, <4>4
      <3>2. CASE y = x
        <4>1. PlSides(x)'
          BY <1>1, <1>2, <1>3, <2>5, PlFacts DEF PlSides, PlPushOK, PlPopOK, PlA, PlR, PlLocals
        <4>2. PlRead(x)'
          BY <2>5 DEF PlRead
        <4> QED
          BY <3>2, <4>1, <4>2
      <3> QED
        BY <3>1, <3>2
    <2>10. \A y \in PoolEvent : y # x => ppc'[y] = ppc[y] /\ loc'[y] = loc[y] /\ data'[y] = data[y]
      BY <1>1, <1>3, <2>5
    <2>11. \A y \in PoolEvent : PlHolds(y)'
      <3>1. PlHolds(x)'
        BY <1>1, <2>o, <2>5 DEF PlHolds, PoolCarrying
      <3> QED
        BY <2>10, <3>1, PlOthers, PlPairs
    <2>12. ~PlEvWriter(x)' /\ ~PlRsWriter(x)' /\ (\A d : ~PlPops(x, d)') /\ (\A w \in Resource : ~PlOwns(x, w)')
      BY <1>1, <2>o, <2>5, PlValues DEF PlEvWriter, PlRsWriter, PlPops, PlOwns, PoolCarrying
    <2>13. /\ \A y \in PoolEvent : PlEvWriter(y)' => PlEvWriter(y) /\ y # x
           /\ \A y \in PoolEvent : PlRsWriter(y)' => PlRsWriter(y) /\ y # x
           /\ \A y \in PoolEvent : \A d : PlPops(y, d)' => PlPops(y, d) /\ y # x
           /\ \A y \in PoolEvent : \A w \in Resource : PlOwns(y, w)' => PlOwns(y, w) /\ y # x
      BY <2>10, <2>12, PlOthers
    <2>14. PlApart'
      BY <1>3, <2>13, PlPairs DEF PlApart
    <2>15. PlOwned'
      <3>1. /\ \A j \in Nat : j >= rsout => ~PlHas(rsq, r, j)
            /\ \A y \in PoolEvent : y # x => ~PlOwns(y, r)
        BY <2>o, PlPairs DEF PlOwned
      <3>2. \A w \in Resource : \A j \in Nat : PlHas(rsq', w, j) <=> PlHas(rsq, w, j) \/ (w = r /\ j = i)
        BY <2>6 DEF PlWritesOK
      <3>3. \A w \in Resource : \A y, z \in PoolEvent : PlOwns(y, w)' /\ PlOwns(z, w)' => y = z
        BY <2>13, PlPairs DEF PlOwned
      <3>4. \A w \in Resource : \A y \in PoolEvent : PlOwns(y, w)' => \A j \in Nat : j >= rsout => ~PlHas(rsq', w, j)
        BY <2>13, <3>1, <3>2, PlPairs DEF PlOwned
      <3>5. \A w \in Resource : \A m, j \in Nat : 
               m >= rsout /\ j >= rsout /\ PlHas(rsq', w, m) /\ PlHas(rsq', w, j) => m = j
        BY <3>1, <3>2, PlPairs DEF PlOwned
      <3> QED
        BY <1>1, <3>3, <3>4, <3>5 DEF PlOwned
    <2>16. PlWaits'
      <3>1. \A we \in PoolEvent : ppc[we] = "wait" => ppc'[we] = "wait"
        BY <2>4, <2>5
      <3>2. \A y \in PoolEvent : ppc'[y] \in {"r_where", "r_null"} => 
               ppc[y] \in {"r_where", "r_null"} /\ loc'[y] = loc[y]
        BY <2>5, <2>10
      <3> QED
        BY <1>1, <1>6, <2>13, <3>1, <3>2, PlPairs DEF PlWaits
    <2> QED
      BY <1>4, <2>7, <2>8, <2>9, <2>11, <2>14, <2>15, <2>16 DEF PlInv
  <1> QED
    BY <1>5, <1>6 DEF WriteSlot

\* The resource of a place in the queue is read there.
LEMMA PlPlace ==
  ASSUME PlInv, NEW r \in Resource, NEW i \in PoolPlaces(r)
  PROVE  i \in Nat /\ i >= rsout /\ PlHas(rsq, r, i)
  <1>1. rsout \in Nat /\ uin.rs \in Nat /\ PlArray(rsq, Resource, uin.rs, rsout)
    BY PlPairs DEF PlTyped, PlArrays
  <1>2. i \in rsout .. uin.rs - 1 /\ Get(rsq, i).ptr = r
    BY DEF PoolPlaces
  <1>3. i \in Nat /\ i >= rsout
    BY <1>1, <1>2
  <1>4. PlLooksUp(rsq, Resource, uin.rs, rsout, i)
    BY <1>1, <1>3, PlLookup, PlValues
  <1>5. r # "nil"
    BY PlValues
  <1> QED
    BY <1>2, <1>3, <1>4, <1>5 DEF PlLooksUp

\* A set without two elements.
LEMMA PlOne ==
  ASSUME NEW S, \A a, b \in S : a = b
  PROVE  Cardinality(S) \in {0, 1} /\ (S = {} => Cardinality(S) = 0)
  <1>1. CASE S = {}
    BY <1>1, FS_EmptySet
  <1>2. CASE S # {}
    <2>1. PICK a \in S : TRUE
      BY <1>2
    <2>2. S = {a}
      BY <2>1
    <2> QED
      BY <1>2, <2>2, FS_Singleton
  <1> QED
    BY <1>1, <1>2

LEMMA PlNeverTwice == ASSUME PlInv PROVE PoolNeverTwice
  <1> SUFFICES ASSUME NEW r \in Resource
               PROVE  Cardinality(PoolOwners(r)) + Cardinality(PoolPlaces(r)) <= 1
    BY DEF PoolNeverTwice
  <1>1. \A x : x \in PoolOwners(r) <=> x \in PoolEvent /\ PlOwns(x, r)
    BY DEF PoolOwners, PlOwns
  <1>2. \A x, y \in PoolOwners(r) : x = y
    BY <1>1, PlPairs DEF PlOwned
  <1>3. \A i, j \in PoolPlaces(r) : i = j
    BY PlPlace, PlPairs DEF PlOwned
  <1>4. PoolOwners(r) = {} \/ PoolPlaces(r) = {}
    BY <1>1, PlPlace, PlPairs DEF PlOwned
  <1>5. Cardinality(PoolOwners(r)) \in {0, 1} /\ (PoolOwners(r) = {} => Cardinality(PoolOwners(r)) = 0)
    BY <1>2, PlOne
  <1>6. Cardinality(PoolPlaces(r)) \in {0, 1} /\ (PoolPlaces(r) = {} => Cardinality(PoolPlaces(r)) = 0)
    BY <1>3, PlOne
  <1> QED
    BY <1>4, <1>5, <1>6

LEMMA PlPushSucceeds == ASSUME PlInv PROVE PoolPushSucceeds
  <1> SUFFICES ASSUME NEW x \in PoolEvent
               PROVE  /\ ppc[x] = "a_write" => SlotFree(evq, x, loc[x].uin.ev)
                      /\ ppc[x] = "r_write" => SlotFree(rsq, x, loc[x].uin.rs)
                      /\ ppc[x] = "r_null"  => data[loc[x].ev] = "nil"
    BY DEF PoolPushSucceeds
  <1>1. ppc[x] = "a_write" => SlotFree(evq, x, loc[x].uin.ev)
    BY PlFacts DEF PlSidesAt, PlPushOK, PlA, SlotFree
  <1>2. ppc[x] = "r_write" => SlotFree(rsq, x, loc[x].uin.rs)
    BY PlFacts DEF PlSidesAt, PlPushOK, PlR, SlotFree
  <1>3. ASSUME ppc[x] = "r_null" PROVE data[loc[x].ev] = "nil"
    <2>1. loc[x].ev \in PoolEvent /\ ppc[loc[x].ev] = "wait"
      BY <1>3, PlPairs DEF PlWaits
    <2>2. PlHolds(loc[x].ev)
      BY <2>1, PlPairs
    <2> QED
      BY <2>1, <2>2 DEF PlHolds
  <1> QED
    BY <1>1, <1>2, <1>3

LEMMA PlTypeOK == ASSUME PlInv PROVE PoolTypeOK
  <1>1. ASSUME NEW V, NEW q, NEW in, NEW out, PlArray(q, V, in, out), V \subseteq PoolEvent \cup Resource
        PROVE  \A k \in DOMAIN q : \A j \in DOMAIN q[k] :
                 q[k][j].ptr \in PoolEvent \cup Resource \cup {"nil", "uninit"}
    <2> SUFFICES ASSUME NEW k \in DOMAIN q, NEW j \in DOMAIN q[k]
                 PROVE  q[k][j].ptr \in PoolEvent \cup Resource \cup {"nil", "uninit"}
      OBVIOUS
    <2>1. PlShape(q, V)
      BY <1>1 DEF PlArray
    <2>2. DOMAIN q = 1 .. Len(q)
      BY <2>1 DEF PlShape
    <2>3. q[k] \in PlImpls(V)
      BY <2>1, <2>2, PlSizes
    <2>4. q[k] \in [DOMAIN q[k] -> PlSlots(V)]
      BY <2>3 DEF PlImpls
    <2>5. q[k][j] \in PlSlots(V)
      BY <2>4
    <2> QED
      BY <1>1, <2>5 DEF PlSlots
  <1>2. PlTyped /\ PlArray(evq, PoolEvent, uin.ev, evout) /\ PlArray(rsq, Resource, uin.rs, rsout)
    BY PlPairs DEF PlArrays
  <1>3. \A q \in {evq, rsq} : \A k \in DOMAIN q : \A j \in DOMAIN q[k] :
          q[k][j].ptr \in PoolEvent \cup Resource \cup {"nil", "uninit"}
    BY <1>1, <1>2
  <1> QED
    BY <1>2, <1>3 DEF PoolTypeOK, PlTyped

LEMMA PlStepInv == ASSUME PlInv, NEW x \in PoolEvent, PoolStep(x) PROVE PlInv'
  BY PlAcquireInv, PlReadOutInv, PlReadInInv, PlAcquireTestInv, PlAcquireGetInv, PlAcquireCasInv,
     PlFindPoppedInv, PlAcquireDoneInv, PlMustWaitInv, PlReleaseInv, PlReleaseTestInv, PlReleaseCasInv,
     PlReleaseDoneInv, PlMustStoreInv, PlGrowReadInv, PlGrowCasInv, PlPushSlotInv, PlPushCasInv,
     PlFindSlotInv, PlWriteSlotInv DEF PoolStep

\* Initially, and with every step, the pool's invariant holds, and it implies what is checked of the pool.
LEMMA PlNextInv == PlInv /\ [PoolNext]_pvars => PlInv'
  <1>1. ASSUME PlInv, PoolNext PROVE PlInv'
    BY <1>1, PlStepInv DEF PoolNext
  <1>2. ASSUME PlInv, UNCHANGED pvars PROVE PlInv'
    BY <1>2 DEF pvars, PlInv, PlTyped, PlArrays, PoolNoIdle, PlSides, PlRead, PlHolds, PlApart, PlOwned,
                PlWaits, PlEvWriter, PlRsWriter, PlOwns, PlPops
  <1> QED
    BY <1>1, <1>2

LEMMA PlImplies == PlInv => PoolTypeOK /\ PoolNeverTwice /\ PoolNoIdle /\ PoolPushSucceeds
  BY PlTypeOK, PlNeverTwice, PlPushSucceeds, PlPairs
=============================================================================

---------------------------- MODULE LFExclusive ----------------------------
(***************************************************************************)
(* The lock-free exclusive atomic: ExclusiveWaiterList, a linked list of   *)
(* holders with a dummy at its tail.  The event of a waiter is kept in the *)
(* holder that was the tail when it arrived.  Each action is one access to *)
(* shared memory; loading a pointer and publishing it as a hazard is one,  *)
(* since HAZARD_PTR_ASSIGN retries until the published value is the        *)
(* current one.  Events stand for the threads that run them: an event that *)
(* waits has no thread.                                                    *)
(***************************************************************************)
EXTENDS Naturals, FiniteSets

CONSTANTS Event,        \* events competing for one atomic
          Node          \* EventBaseHolder objects of the allocator

ASSUME LFExclusiveAssumption ==
  /\ Node \cap {"nil", "one", "three"} = {}
  /\ "nil" \notin Event
  /\ IsFiniteSet(Node) /\ Cardinality(Node) > 0

VARIABLES head, tail,   \* _head and _tail
          next,         \* Node -> next pointer, or a mark
          ev,           \* Node -> the event held, or "nil"
          free,         \* nodes given to AtomicCommon::allocator.put
          pc, h, hn, t, e   \* per event: program counter and locals

xvars == <<head, tail, next, ev, free, pc, h, hn, t, e>>

XLocal == <<h, hn, t, e>>
XList  == <<head, tail, next, ev, free>>

\* unmk: the pointer without its mark is not NULL.
Linked(p) == p \notin {"nil", "one"}

\* Hazard pointers 0 and 1 of every thread.
Hazards == {h[x] : x \in Event} \cup {t[x] : x \in Event}

XTypeOK ==
  /\ head \in Node /\ tail \in Node
  /\ next \in [Node -> Node \cup {"nil", "one", "three"}]
  /\ ev \in [Node -> Event \cup {"nil"}]
  /\ free \subseteq Node
  /\ h \in [Event -> Node \cup {"nil"}] /\ t \in [Event -> Node \cup {"nil"}]
  /\ hn \in [Event -> Node \cup {"nil", "one", "three"}]
  /\ e \in [Event -> Node \cup {"nil"}]

XInit ==
  /\ \E n \in Node :
       /\ head = n /\ tail = n
       /\ next = [m \in Node |-> IF m = n THEN "one" ELSE "nil"]
       /\ free = Node \ {n}
  /\ ev = [m \in Node |-> "nil"]
  /\ pc = [x \in Event |-> "idle"]
  /\ h = [x \in Event |-> "nil"] /\ hn = [x \in Event |-> "nil"]
  /\ t = [x \in Event |-> "nil"] /\ e = [x \in Event |-> "nil"]

Goto(x, l) == pc' = [pc EXCEPT ![x] = l]

\* A freed holder is handed out again only when no thread's hazard names it.
Reclaimable == free \ Hazards

\* The two HAZARD_PTR_RELEASE calls.
ReleaseHazards(x) == h' = [h EXCEPT ![x] = "nil"] /\ t' = [t EXCEPT ![x] = "nil"]

(* acquire_or_wait: a fresh holder for the event, then push *)
AcquireOrWait(x) ==
  /\ pc[x] = "idle"
  /\ \E n \in Reclaimable :
       /\ e' = [e EXCEPT ![x] = n]
       /\ free' = free \ {n}
       /\ next' = [next EXCEPT ![n] = "nil"]
       /\ ev' = [ev EXCEPT ![n] = "nil"]
  /\ Goto(x, "push")
  /\ UNCHANGED <<head, tail, h, hn, t>>

PushHead(x) ==
  /\ pc[x] = "push"
  /\ h' = [h EXCEPT ![x] = head]
  /\ Goto(x, "push_hn")
  /\ UNCHANGED <<XList, hn, t, e>>

PushNext(x) ==
  /\ pc[x] = "push_hn"
  /\ hn' = [hn EXCEPT ![x] = next[h[x]]]
  /\ Goto(x, IF next[h[x]] = "one" THEN "push_take" ELSE "push_t")
  /\ UNCHANGED <<XList, h, t, e>>

\* Mutant: the list is taken without looking again whether it is still free.
PushTakeUnguarded(x) ==
  /\ pc[x] = "push_take"
  /\ next' = [next EXCEPT ![h[x]] = "nil", ![e[x]] = "three"]
  /\ free' = free \cup {e[x]}
  /\ e' = [e EXCEPT ![x] = "nil"]
  /\ ReleaseHazards(x)
  /\ Goto(x, "run")
  /\ UNCHANGED <<head, tail, ev, hn>>

\* 1->2: the mark on the empty list is exchanged for NULL; the unused holder
\* is given back.
PushTake(x) ==
  /\ pc[x] = "push_take"
  /\ IF next[h[x]] = "one"
     THEN /\ next' = [next EXCEPT ![h[x]] = "nil", ![e[x]] = "three"]
          /\ free' = free \cup {e[x]}
          /\ e' = [e EXCEPT ![x] = "nil"]
          /\ ReleaseHazards(x)
          /\ Goto(x, "run")
     ELSE Goto(x, "push_t") /\ UNCHANGED <<next, free, e, h, t>>
  /\ UNCHANGED <<head, tail, ev, hn>>

PushTail(x) ==
  /\ pc[x] = "push_t"
  /\ t' = [t EXCEPT ![x] = tail]
  /\ Goto(x, "push_tn")
  /\ UNCHANGED <<XList, h, hn, e>>

PushCheckTail(x) ==
  /\ pc[x] = "push_tn"
  /\ Goto(x, IF Linked(next[t[x]]) THEN "push" ELSE "push_link")
  /\ UNCHANGED <<XList, XLocal>>

\* (2,3)->3: the holder is linked behind the tail that was read.
PushLink(x) ==
  /\ pc[x] = "push_link"
  /\ IF next[t[x]] = "nil"
     THEN next' = [next EXCEPT ![t[x]] = e[x]] /\ Goto(x, "push_swing")
     ELSE Goto(x, "push") /\ UNCHANGED next
  /\ UNCHANGED <<head, tail, ev, free, XLocal>>

PushSwing(x) ==
  /\ pc[x] = "push_swing"
  /\ tail' = IF tail = t[x] THEN e[x] ELSE tail
  /\ Goto(x, "push_ev")
  /\ UNCHANGED <<head, next, ev, free, XLocal>>

\* The event goes into the old tail; from here it can be handed over.
PushEvent(x) ==
  /\ pc[x] = "push_ev"
  /\ ev' = [ev EXCEPT ![t[x]] = x]
  /\ e' = [e EXCEPT ![x] = "nil"]
  /\ ReleaseHazards(x)
  /\ Goto(x, "wait")
  /\ UNCHANGED <<head, tail, next, free, hn>>

(* release: pop *)
Release(x) ==
  /\ pc[x] = "run"
  /\ Goto(x, "pop")
  /\ UNCHANGED <<XList, XLocal>>

PopHead(x) ==
  /\ pc[x] = "pop"
  /\ h' = [h EXCEPT ![x] = head]
  /\ Goto(x, "pop_hn")
  /\ UNCHANGED <<XList, hn, t, e>>

PopNext(x) ==
  /\ pc[x] = "pop_hn"
  /\ hn' = [hn EXCEPT ![x] = next[h[x]]]
  /\ Goto(x, "pop_t")
  /\ UNCHANGED <<XList, h, t, e>>

PopTail(x) ==
  /\ pc[x] = "pop_t"
  /\ t' = [t EXCEPT ![x] = tail]
  /\ Goto(x, "pop_tn")
  /\ UNCHANGED <<XList, h, hn, e>>

PopCheckTail(x) ==
  /\ pc[x] = "pop_tn"
  /\ Goto(x, IF Linked(next[t[x]]) THEN "pop" ELSE "pop_test")
  /\ UNCHANGED <<XList, XLocal>>

\* Mutant: a head other than the tail is taken to have a next.
PopTestTrusting(x) ==
  /\ pc[x] = "pop_test"
  /\ Goto(x, IF h[x] # tail THEN "pop_unlink"
             ELSE IF hn[x] = "nil" THEN "pop_empty" ELSE "pop")
  /\ UNCHANGED <<XList, XLocal>>

PopTest(x) ==
  /\ pc[x] = "pop_test"
  /\ Goto(x, IF h[x] # tail /\ Linked(hn[x]) /\ ev[h[x]] # "nil" THEN "pop_unlink"
             ELSE IF hn[x] = "nil" THEN "pop_empty" ELSE "pop")
  /\ UNCHANGED <<XList, XLocal>>

\* 3->2: the head moves to the next holder.
PopUnlink(x) ==
  /\ pc[x] = "pop_unlink"
  /\ IF head = h[x] THEN head' = hn[x] /\ Goto(x, "pop_clear")
                    ELSE UNCHANGED head /\ Goto(x, "pop")
  /\ UNCHANGED <<tail, next, ev, free, XLocal>>

PopClear(x) ==
  /\ pc[x] = "pop_clear"
  /\ next' = [next EXCEPT ![h[x]] = "nil"]
  /\ Goto(x, "pop_three")
  /\ UNCHANGED <<head, tail, ev, free, XLocal>>

\* release marks the unlinked holder; the popped holder stays in local r, kept
\* here in e, once the hazards are released.
PopMark(x) ==
  /\ pc[x] = "pop_three"
  /\ next' = [next EXCEPT ![h[x]] = "three"]
  /\ e' = [e EXCEPT ![x] = h[x]]
  /\ ReleaseHazards(x)
  /\ Goto(x, "pop_grant")
  /\ UNCHANGED <<head, tail, ev, free, hn>>

\* The event found in the holder is released to run, the holder put back.
PopGrant(x) ==
  /\ pc[x] = "pop_grant"
  /\ pc' = [pc EXCEPT ![x] = "idle", ![ev[e[x]]] = "run"]
  /\ free' = free \cup {e[x]}
  /\ e' = [e EXCEPT ![x] = "nil"]
  /\ UNCHANGED <<head, tail, next, ev, h, hn, t>>

\* 2->1: nobody waits, the mark returns.
PopEmpty(x) ==
  /\ pc[x] = "pop_empty"
  /\ IF next[h[x]] = "nil"
     THEN /\ next' = [next EXCEPT ![h[x]] = "one"]
          /\ ReleaseHazards(x) /\ Goto(x, "idle")
     ELSE Goto(x, "pop") /\ UNCHANGED <<next, h, t>>
  /\ UNCHANGED <<head, tail, ev, free, hn, e>>

Push(x) == \/ AcquireOrWait(x) \/ PushHead(x) \/ PushNext(x) \/ PushTake(x)
           \/ PushTail(x) \/ PushCheckTail(x) \/ PushLink(x) \/ PushSwing(x)
           \/ PushEvent(x)

Pop(x) == \/ Release(x) \/ PopHead(x) \/ PopNext(x) \/ PopTail(x)
          \/ PopCheckTail(x) \/ PopTest(x) \/ PopUnlink(x) \/ PopClear(x)
          \/ PopMark(x) \/ PopGrant(x) \/ PopEmpty(x)

XNext == \E x \in Event : Push(x) \/ Pop(x)

----------------------------------------------------------------------------

Popping == {"pop", "pop_hn", "pop_t", "pop_tn", "pop_test", "pop_unlink",
            "pop_clear", "pop_three", "pop_grant", "pop_empty"}

\* The holders from n on, by the next pointers f: the least set that has n and, with a
\* holder, its next.
ListFrom(f, n) ==
  {m \in Node : \A S \in SUBSET Node :
                  n \in S /\ (\A k \in S : f[k] \in Node => f[k] \in S) => m \in S}
OnList == ListFrom(next, head)

\* At most one event holds the atomic, the one that is running under it or
\* handing it over (push 1->2 and pop 3->2 race on head, tail and marks).
XOneHolder == Cardinality({x \in Event : pc[x] \in Popping \cup {"run"}}) <= 1

\* The list says free exactly when nobody holds the atomic: no event is left
\* waiting on an atomic that no one will release.
XFreeIsFree == (next[head] = "one") <=> (\A x \in Event : pc[x] \notin Popping \cup {"run"})

\* A holder on the list is neither back in the allocator nor still private to
\* a pusher: push and pop give back exactly the holder that is off the list.
XListOwned ==
  \A n \in OnList : /\ n \notin free
                    /\ \A x \in Event : e[x] = n => pc[x] \in {"push_swing", "push_ev"}

\* An event waits in a holder of the list, or in the one just unlinked to hand
\* the atomic over ("2 -> 3 : cas tail->next from NULL to e" in the code's
\* account of the list's states).
XNoLostWaiter ==
  \A x \in Event : pc[x] = "wait" =>
     \/ \E n \in OnList : ev[n] = x
     \/ \E y \in Event : pc[y] \in {"pop_clear", "pop_three"} /\ ev[h[y]] = x
     \/ \E y \in Event : pc[y] = "pop_grant" /\ ev[e[y]] = x
============================================================================

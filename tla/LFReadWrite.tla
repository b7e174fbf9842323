---------------------------- MODULE LFReadWrite ----------------------------
(***************************************************************************)
(* The lock-free read-write atomic.  ReadWriteWaiterList is a linked list  *)
(* with a dummy holder at its tail; the 64-bit word in the tail says who   *)
(* holds the atomic: a count, a mode (read or write), a mark and an epoch  *)
(* that changes with every compare-and-swap.  A waiter's event and mode    *)
(* are kept in the holder that was the tail when it arrived.  Each action  *)
(* is one access to shared memory on which other threads depend.           *)
(***************************************************************************)
EXTENDS Naturals, FiniteSets, Sequences

CONSTANTS RWEvent,      \* events competing for the atomic
          RWNode,       \* readwrite::EventBaseHolder objects
          RWPlans       \* what the events ask for: event -> sequence of accesses

ASSUME LFReadWriteAssumption ==
  /\ IsFiniteSet(RWNode)
  /\ RWPlans \subseteq [RWEvent -> Seq({"Read", "Write"})]
  /\ RWNode \cap {"nil", "sentinel"} = {} /\ "nil" \notin RWEvent

VARIABLES rhead, rtail, \* _head and _tail
          word,         \* node -> its RWWaiterPtr
          val, mode,    \* node -> waiting event and its access
          rfree,        \* nodes given to the allocator's put
          wtype,        \* _wtype, written without synchronization
          rpc, reg,     \* per event: program counter and locals
          plan          \* per event: the accesses it will still ask for

rwvars == <<rhead, rtail, word, val, mode, rfree, wtype, rpc, reg, plan>>
RWList == <<rhead, rtail, word, val, mode, rfree>>

\* RWWaiterPtr holds either a marked or empty count or a pointer.
Word(rc, read, mkd, ep) ==
  [ptr |-> "nil", rc |-> rc, read |-> read, mkd |-> mkd, epoch |-> ep]
Link(n, ep) == [ptr |-> n, rc |-> 0, read |-> FALSE, mkd |-> FALSE, epoch |-> ep]

\* !rwptr.ptr(): state 1, nobody holds.
EmptyWord(w) == w.ptr = "nil" /\ ~w.mkd

NoLocals == [m |-> "None", e |-> "nil", h |-> "nil", t |-> "nil", w |-> Word(0, FALSE, FALSE, 0),
             el |-> "nil", cnt |-> 0, hz |-> {}]

RWTypeOK ==
  /\ rhead \in RWNode /\ rtail \in RWNode /\ rfree \subseteq RWNode
  /\ \A n \in RWNode : word[n].ptr \in RWNode \cup {"nil", "sentinel"}
  /\ val \in [RWNode -> RWEvent \cup {"nil"}]
  /\ mode \in [RWNode -> {"None", "Read", "Write"}]
  /\ wtype \in {"None", "Read", "Write"}
  /\ plan \in [RWEvent -> Seq({"Read", "Write"})]

RWInit ==
  /\ \E n \in RWNode : rhead = n /\ rtail = n /\ rfree = RWNode \ {n}
  /\ word = [n \in RWNode |-> Word(0, FALSE, FALSE, 0)]
  /\ val = [n \in RWNode |-> "nil"] /\ mode = [n \in RWNode |-> "None"]
  /\ wtype = "None"
  /\ rpc = [x \in RWEvent |-> "idle"]
  /\ reg = [x \in RWEvent |-> NoLocals]
  /\ plan \in RWPlans

Step(x, from, to) == rpc[x] = from /\ rpc' = [rpc EXCEPT ![x] = to]
Locals(x, r) == reg' = [reg EXCEPT ![x] = r]

\* compareAndSwap on the word of node n: it still is what the thread read.
Unchanged(x) == word[reg[x].t] = reg[x].w
Swap(x, w) == word' = [word EXCEPT ![reg[x].t] = w]

RWReclaimable == rfree \ UNION {reg[x].hz : x \in RWEvent}

(* acquire_or_wait: Upgradeable has become Read or Write by then, by whether *)
(* the guarded data is NULL                                                  *)
RWAcquire(x) ==
  /\ Step(x, "idle", "push")
  /\ plan[x] # <<>> /\ plan' = [plan EXCEPT ![x] = Tail(@)]
  /\ \E n \in RWReclaimable :
       /\ rfree' = rfree \ {n}
       /\ word' = [word EXCEPT ![n] = Word(0, FALSE, FALSE, 0)]
       /\ val' = [val EXCEPT ![n] = "nil"] /\ mode' = [mode EXCEPT ![n] = "None"]
       /\ Locals(x, [NoLocals EXCEPT !.m = Head(plan[x]), !.e = n])
  /\ UNCHANGED <<rhead, rtail, wtype>>

\* HAZARD_PTR_ASSIGN of the head, of the tail, then the read of the tail's
\* word; push and pop start alike.
LoadHead(x) ==
  /\ \E op \in {"push", "pop"} : Step(x, op, IF op = "push" THEN "push_t" ELSE "pop_t")
  /\ Locals(x, [reg[x] EXCEPT !.h = rhead, !.hz = (@ \ {reg[x].h}) \cup {rhead}])
  /\ UNCHANGED <<RWList, wtype, plan>>

LoadTail(x) ==
  /\ \/ Step(x, "push_t", "push_w") \/ Step(x, "pop_t", "pop_w")
  /\ Locals(x, [reg[x] EXCEPT !.t = rtail, !.hz = {reg[x].h, rtail}])
  /\ UNCHANGED <<RWList, wtype, plan>>

LoadWord(x) ==
  /\ LET w == word[reg[x].t]
     IN  /\ \/ Step(x, "push_w", "push_cas")
            \/ Step(x, "pop_w", IF w.mkd THEN "pop_cas" ELSE "pop")
         /\ Locals(x, [reg[x] EXCEPT !.w = w])
  /\ UNCHANGED <<RWList, wtype, plan>>

\* Mutant: a reader joins whatever the mode of the word.
JoinsAny(r) == r.h = r.t /\ (EmptyWord(r.w) \/ (r.w.mkd /\ r.m = "Read"))

\* 1->2 and 2->2: the word grants the atomic at once.
Joins(r) ==
  /\ r.h = r.t
  /\ \/ EmptyWord(r.w)
     \/ r.w.mkd /\ r.w.read /\ r.m = "Read"

\* Mutant: the mark of the word is not looked at.
Queues_Unmarked(r) ==
  IF r.h = r.t THEN ~(r.m = "Read" /\ r.w.read) ELSE ~word[r.h].mkd

\* 2->3 and 3->3: the holder is linked behind the tail.
Queues(r) ==
  /\ r.w.mkd
  /\ IF r.h = r.t THEN ~(r.m = "Read" /\ r.w.read) ELSE ~word[r.h].mkd

PushJoin(x) ==
  /\ Step(x, "push_cas", "joined")
  /\ Joins(reg[x]) /\ Unchanged(x)
  /\ Swap(x, Word(reg[x].w.rc + 1, reg[x].m = "Read", TRUE, reg[x].w.epoch + 1))
  /\ Locals(x, [reg[x] EXCEPT !.hz = {}])
  /\ UNCHANGED <<rhead, rtail, val, mode, rfree, wtype, plan>>

\* The new holder carries the count and mode on as the next tail's word.
PushLinkRW(x) ==
  /\ Step(x, "push_cas", "push_swing")
  /\ Queues(reg[x]) /\ Unchanged(x)
  /\ LET r == reg[x]
     IN  word' = [word EXCEPT ![r.e] = Word(r.w.rc, r.w.read, TRUE, r.w.epoch + 1),
                              ![r.t] = Link(r.e, r.w.epoch + 1)]
  /\ UNCHANGED <<rhead, rtail, val, mode, rfree, wtype, plan, reg>>

PushRetry(x) ==
  /\ Step(x, "push_cas", "push")
  /\ ~((Joins(reg[x]) \/ Queues(reg[x])) /\ Unchanged(x))
  /\ UNCHANGED <<RWList, wtype, plan, reg>>

PushSwingRW(x) ==
  /\ Step(x, "push_swing", "push_mode")
  /\ rtail' = IF rtail = reg[x].t THEN reg[x].e ELSE rtail
  /\ UNCHANGED <<rhead, word, val, mode, rfree, wtype, plan, reg>>

PushMode(x) ==
  /\ Step(x, "push_mode", "push_val")
  /\ mode' = [mode EXCEPT ![reg[x].t] = reg[x].m]
  /\ UNCHANGED <<rhead, rtail, word, val, rfree, wtype, plan, reg>>

PushVal(x) ==
  /\ Step(x, "push_val", "wait")
  /\ val' = [val EXCEPT ![reg[x].t] = x]
  /\ Locals(x, [NoLocals EXCEPT !.m = reg[x].m])
  /\ UNCHANGED <<rhead, rtail, word, mode, rfree, wtype, plan>>

\* The acquirer writes _wtype only after its compare-and-swap.
SetWType(x) ==
  /\ Step(x, "joined", "run")
  /\ wtype' = reg[x].m
  /\ rfree' = rfree \cup {reg[x].e}
  /\ Locals(x, [NoLocals EXCEPT !.m = reg[x].m])
  /\ UNCHANGED <<rhead, rtail, word, val, mode, plan>>

(* release: pop, told the mode that _wtype held *)
RWRelease(x) ==
  /\ Step(x, "run", "pop")
  /\ Locals(x, [reg[x] EXCEPT !.m = wtype])
  /\ UNCHANGED <<RWList, wtype, plan>>

\* 2->1, and (2,3)->(2,3): the count goes down.
Leaves(r) == r.w.rc > 1 \/ r.h = r.t

PopLeave(x) ==
  /\ Step(x, "pop_cas", "idle")
  /\ Leaves(reg[x]) /\ Unchanged(x)
  /\ LET w == reg[x].w
     IN  Swap(x, IF w.rc = 1 THEN Word(0, FALSE, FALSE, w.epoch + 1)
                 ELSE Word(w.rc - 1, w.read, TRUE, w.epoch + 1))
  /\ Locals(x, NoLocals)
  /\ UNCHANGED <<rhead, rtail, val, mode, rfree, wtype, plan>>

\* 3->(2,3): the last holder takes waiters off, once the first one is complete.
HeadReady(r) == val[r.h] # "nil" /\ mode[r.h] # "None" /\ word[r.h].ptr # "nil"

PopBatch(x) ==
  /\ Step(x, "pop_cas", "batch")
  /\ ~Leaves(reg[x]) /\ HeadReady(reg[x])
  /\ Locals(x, [reg[x] EXCEPT !.el = reg[x].h, !.cnt = 1])
  /\ UNCHANGED <<RWList, wtype, plan>>

PopRetry(x) ==
  /\ Step(x, "pop_cas", "pop")
  /\ IF Leaves(reg[x]) THEN ~Unchanged(x) ELSE ~HeadReady(reg[x])
  /\ UNCHANGED <<RWList, wtype, plan, reg>>

\* A run of readers is released together: the next holder joins when its mode
\* is known to be read and it is not the tail.
MoreReaders(r) ==
  LET n == word[r.h].ptr
  IN  /\ n \in RWNode /\ mode[r.el] = "Read" /\ val[r.h] # "nil"
      /\ mode[n] = "Read" /\ ~word[n].mkd

BatchReader(x) ==
  /\ Step(x, "batch", "batch")
  /\ MoreReaders(reg[x])
  /\ Locals(x, [reg[x] EXCEPT !.h = word[reg[x].h].ptr, !.cnt = @ + 1])
  /\ UNCHANGED <<RWList, wtype, plan>>

BatchDone(x) ==
  /\ Step(x, "batch", IF word[reg[x].h].ptr = "sentinel" THEN "pop" ELSE "early")
  /\ ~MoreReaders(reg[x])
  /\ UNCHANGED <<RWList, wtype, plan, reg>>

\* Readers give way to the writer that will be alone on the list: the word is
\* put in write mode before the head moves, so that no reader can join.
MustClose(r) == r.t = word[r.h].ptr /\ mode[r.el] = "Write" /\ r.w.read

EarlyClose(x) ==
  /\ Step(x, "early", "pop_head")
  /\ MustClose(reg[x]) /\ Unchanged(x)
  /\ Swap(x, Word(1, FALSE, TRUE, reg[x].w.epoch + 1))
  /\ UNCHANGED <<rhead, rtail, val, mode, rfree, wtype, plan, reg>>

EarlyGo(x) ==
  /\ Step(x, "early", "pop_head")
  /\ ~MustClose(reg[x])
  /\ UNCHANGED <<RWList, wtype, plan, reg>>

EarlyReload(x) ==
  /\ Step(x, "early", "early_w")
  /\ MustClose(reg[x]) /\ ~Unchanged(x)
  /\ Locals(x, [reg[x] EXCEPT !.t = rtail])
  /\ UNCHANGED <<RWList, wtype, plan>>

\* After a failed attempt the tail and its word are read again, unguarded by a
\* hazard pointer.
Reload(x) ==
  /\ Step(x, "early_w", "early") \/ Step(x, "commit_w", "commit")
  /\ Locals(x, [reg[x] EXCEPT !.w = word[reg[x].t]])
  /\ UNCHANGED <<RWList, wtype, plan>>

\* Mutant: the head moves to the end of the list.
PopHeadPast(x) ==
  /\ Step(x, "pop_head", IF rhead = reg[x].el THEN "commit" ELSE "pop")
  /\ rhead' = IF rhead = reg[x].el THEN rtail ELSE rhead
  /\ UNCHANGED <<rtail, word, val, mode, rfree, wtype, plan, reg>>

PopHeadCas(x) ==
  /\ Step(x, "pop_head", IF rhead = reg[x].el THEN "commit" ELSE "pop")
  /\ rhead' = IF rhead = reg[x].el THEN word[reg[x].h].ptr ELSE rhead
  /\ UNCHANGED <<rtail, word, val, mode, rfree, wtype, plan, reg>>

\* Committed: the tail's word takes the count and mode of the batch.
CanCommit(x) == reg[x].t = rtail /\ word[reg[x].t].mkd /\ Unchanged(x)

Commit(x) ==
  /\ Step(x, "commit", "seal")
  /\ CanCommit(x)
  /\ Swap(x, Word(reg[x].cnt, mode[reg[x].el] = "Read", TRUE, reg[x].w.epoch + 1))
  /\ UNCHANGED <<rhead, rtail, val, mode, rfree, wtype, plan, reg>>

CommitReload(x) ==
  /\ Step(x, "commit", "commit_w")
  /\ ~CanCommit(x)
  /\ Locals(x, [reg[x] EXCEPT !.t = rtail])
  /\ UNCHANGED <<RWList, wtype, plan>>

\* The sentinel ends the batch that was cut off; the hazards are released.
Seal(x) ==
  /\ Step(x, "seal", "out")
  /\ word' = [word EXCEPT ![reg[x].h] = Link("sentinel", 0)]
  /\ Locals(x, [reg[x] EXCEPT !.hz = {}])
  /\ UNCHANGED <<rhead, rtail, val, mode, rfree, wtype, plan>>

\* The holders from n on, up to the sentinel, the tail or an empty link.
ChainFrom(n) ==
  LET reach[i \in 0 .. Cardinality(RWNode)] ==
        IF i = 0 THEN {n} ELSE reach[i-1] \cup ({word[m].ptr : m \in reach[i-1]} \cap RWNode)
  IN reach[Cardinality(RWNode)]

\* Mutant: _wtype keeps the mode of the holders before.
HandOutSilently(x) ==
  /\ rpc[x] = "out"
  /\ LET batch == ChainFrom(reg[x].el)
     IN  /\ \A n \in batch : val[n] # "nil"
         /\ rpc' = [y \in RWEvent |-> IF y = x THEN "idle"
                                      ELSE IF \E n \in batch : val[n] = y THEN "run" ELSE rpc[y]]
         /\ rfree' = rfree \cup batch
  /\ Locals(x, NoLocals)
  /\ UNCHANGED <<rhead, rtail, word, val, mode, wtype, plan>>

\* busyWaitOnEv on the whole batch, then release's loop over it: _wtype takes
\* the batch's mode and its events are released to run.
HandOut(x) ==
  /\ rpc[x] = "out"
  /\ LET batch == ChainFrom(reg[x].el)
     IN  /\ \A n \in batch : val[n] # "nil"
         /\ rpc' = [y \in RWEvent |-> IF y = x THEN "idle"
                                      ELSE IF \E n \in batch : val[n] = y THEN "run" ELSE rpc[y]]
         /\ rfree' = rfree \cup batch
  /\ wtype' = mode[reg[x].el]
  /\ Locals(x, NoLocals)
  /\ UNCHANGED <<rhead, rtail, word, val, mode, plan>>

RWPush(x) == \/ RWAcquire(x) \/ PushJoin(x) \/ PushLinkRW(x) \/ PushRetry(x)
             \/ PushSwingRW(x) \/ PushMode(x) \/ PushVal(x) \/ SetWType(x)

RWPop(x) == \/ RWRelease(x) \/ PopLeave(x) \/ PopBatch(x) \/ PopRetry(x)
            \/ BatchReader(x) \/ BatchDone(x) \/ EarlyClose(x) \/ EarlyGo(x)
            \/ EarlyReload(x) \/ Reload(x) \/ PopHeadCas(x) \/ Commit(x)
            \/ CommitReload(x) \/ Seal(x) \/ HandOut(x)

RWNext == \E x \in RWEvent :
            RWPush(x) \/ RWPop(x) \/ LoadHead(x) \/ LoadTail(x) \/ LoadWord(x)

----------------------------------------------------------------------------

\* Events past the compare-and-swap that gave them the atomic and not yet past
\* the one that gives it up.
InPop == {"pop", "pop_t", "pop_w", "pop_cas", "batch", "early", "early_w", "pop_head",
          "commit", "commit_w"}
Holding == {x \in RWEvent : rpc[x] \in {"joined", "run"} \cup InPop}

\* A writer is alone; readers share only with readers (a joined or running
\* event keeps in m the access it asked for).
RWExclusion ==
  \A x, y \in RWEvent :
    (x # y /\ rpc[x] \in {"joined", "run"} /\ rpc[y] \in {"joined", "run"})
      => reg[x].m = "Read" /\ reg[y].m = "Read"

\* assert in pop: "release mode should match waiter state", although _wtype is
\* written apart from the word it is compared with.
ReleaseModeMatches ==
  \A x \in RWEvent : rpc[x] = "pop_cas" => (reg[x].m = "Read") = reg[x].w.read

\* An event that waits is in a holder reachable from the head, or in a batch
\* that is being handed out.
RWNoLostWaiter ==
  \A x \in RWEvent : rpc[x] = "wait" =>
    \/ \E n \in ChainFrom(rhead) : val[n] = x
    \/ \E y \in RWEvent : /\ rpc[y] \in {"commit", "commit_w", "seal", "out"}
                          /\ \E n \in ChainFrom(reg[y].el) : val[n] = x

\* Waiters are never left on an atomic that nobody holds.
RWNoStall ==
  rhead # rtail => \/ Holding # {}
                   \/ \E x \in RWEvent : rpc[x] \in {"seal", "out"}
============================================================================

------------------------------- MODULE LFPool -------------------------------
(***************************************************************************)
(* The lock-free pool: PoolEventList, two queues (waiting atomics and free *)
(* resources) kept in growable circular arrays.  The two input counters    *)
(* are packed in one word, so that a push onto either queue fails when     *)
(* anything was pushed onto the other.  An array is a sequence of          *)
(* implementations, the newest last; a slot of a newer one is "uninit"     *)
(* until it is looked up for a push, and reads through to the older.       *)
(***************************************************************************)
EXTENDS Integers, Sequences, FiniteSets

CONSTANTS PoolEvent,    \* events, each with its AtomicPooled
          Resource,     \* the resources of the pool
          FirstSize,    \* slots of the first implementation
          PoolRounds    \* bound: times each event acquires

ASSUME LFPoolAssumption ==
  /\ FirstSize \in Nat \ {0} /\ PoolRounds \in Nat
  /\ IsFiniteSet(Resource) /\ Cardinality(Resource) < FirstSize
  /\ PoolEvent \cap Resource = {}
  /\ {"nil", "uninit"} \cap (PoolEvent \cup Resource) = {}

VARIABLES evq, rsq,     \* the implementations of _ev_q and _rs_q
          uin,          \* _uin: [ev, rs]
          evout, rsout, \* _ev_q_out, _rs_q_out
          data,         \* event -> its AtomicPooled's _data
          ppc, loc,     \* per event: program counter, locals
          todo          \* per event: acquisitions left

pvars == <<evq, rsq, uin, evout, rsout, data, ppc, loc, todo>>
Queues2 == <<evq, rsq, uin, evout, rsout>>

Slot(p, i) == [ptr |-> p, at |-> i]
NoIndex == -1

\* "in - out + 1 >= size" in unsigned arithmetic: an out that a stale in lies
\* more than one behind makes the difference wrap.
NearlyFull(in, out, size) == in + 1 < out \/ in - out + 1 >= size

Impl(size, p) == [j \in 0 .. size - 1 |-> Slot(p, NoIndex)]
SizeOf(impl) == Cardinality(DOMAIN impl)
Current(q) == q[Len(q)]
At(impl, i) == impl[i % SizeOf(impl)]

\* The implementation that holds index i: the newest whose slot is not uninit.
Where(q, i) == 
  CHOOSE k \in DOMAIN q : /\ At(q[k], i).ptr # "uninit"
                          /\ \A m \in k + 1 .. Len(q) : At(q[m], i).ptr = "uninit"

\* CircularArray::get without update, and with it: the newest slot is filled
\* with the older one's pointer if that was written for this very index.  Looking
\* an index up and filling its slot is one step.
Get(q, i) == At(q[Where(q, i)], i)

Update(q, i) ==
  IF At(Current(q), i).ptr # "uninit" THEN q
  ELSE [q EXCEPT ![Len(q)][i % SizeOf(Current(q))] = 
          IF Get(q, i).at = i THEN Slot(Get(q, i).ptr, i) ELSE Slot("nil", NoIndex)]

\* grow: the implementation doubles; every slot starts uninit.
Grown(q) == Append(q, Impl(2 * SizeOf(Current(q)), "uninit"))

PoolLocals == [out |-> 0, uin |-> [ev |-> 0, rs |-> 0], got |-> "nil", ev |-> "nil", impl |-> 0]

PoolTypeOK ==
  /\ uin.ev \in Nat /\ uin.rs \in Nat /\ evout <= uin.ev /\ rsout <= uin.rs
  /\ data \in [PoolEvent -> Resource \cup {"nil"}]
  /\ todo \in [PoolEvent -> 0 .. PoolRounds]
  /\ \A q \in {evq, rsq} : \A k \in DOMAIN q : \A j \in DOMAIN q[k] :
       q[k][j].ptr \in PoolEvent \cup Resource \cup {"nil", "uninit"}

\* The pool as populated: every resource has been released into it, and the
\* first implementation was large enough for them.
PoolInit ==
  /\ evq = <<Impl(FirstSize, "nil")>>
  /\ \E order \in [1 .. Cardinality(Resource) -> Resource] :
       /\ \A i, j \in DOMAIN order : order[i] = order[j] => i = j
       /\ rsq = <<[j \in 0 .. FirstSize - 1 |->
                    IF j + 1 \in DOMAIN order THEN Slot(order[j + 1], j) ELSE Slot("nil", NoIndex)]>>
  /\ uin = [ev |-> 0, rs |-> Cardinality(Resource)]
  /\ evout = 0 /\ rsout = 0
  /\ data = [x \in PoolEvent |-> "nil"]
  /\ ppc = [x \in PoolEvent |-> "idle"]
  /\ loc = [x \in PoolEvent |-> PoolLocals]
  /\ todo = [x \in PoolEvent |-> PoolRounds]

At2(x, from, to) == ppc[x] = from /\ ppc' = [ppc EXCEPT ![x] = to]
Set(x, r) == loc' = [loc EXCEPT ![x] = r]

(* acquire_or_wait *)
PoolAcquire(x) ==
  /\ At2(x, "idle", "a_out")
  /\ todo[x] > 0 /\ todo' = [todo EXCEPT ![x] = @ - 1]
  /\ data' = [data EXCEPT ![x] = "nil"]
  /\ UNCHANGED <<Queues2, loc>>

\* The index at which the thread would pop, then the packed inputs.
ReadOut(x) ==
  /\ \/ At2(x, "a_out", "a_in") /\ Set(x, [loc[x] EXCEPT !.out = rsout])
     \/ At2(x, "r_out", "r_in") /\ Set(x, [loc[x] EXCEPT !.out = evout])
  /\ UNCHANGED <<Queues2, data, todo>>

ReadIn(x) ==
  /\ \/ At2(x, "a_in", "a_test") \/ At2(x, "r_in", "r_test")
  /\ Set(x, [loc[x] EXCEPT !.uin = uin])
  /\ UNCHANGED <<Queues2, data, todo>>

\* A resource is popped only while no event waits.
AcquireTest(x) ==
  /\ At2(x, "a_test", IF uin.ev = evout /\ uin.rs # rsout THEN "a_get" ELSE "a_none")
  /\ UNCHANGED <<Queues2, data, loc, todo>>

AcquireGet(x) ==
  /\ LET r == Get(rsq, loc[x].out).ptr
     IN  /\ At2(x, "a_get", IF r = "nil" THEN "a_none" ELSE "a_cas")
         /\ Set(x, [loc[x] EXCEPT !.got = r])
  /\ UNCHANGED <<Queues2, data, todo>>

\* Mutant: the resource is taken without the compare-and-swap on _rs_q_out.
AcquireUnguarded(x) ==
  /\ At2(x, "a_cas", "a_where") /\ rsout' = loc[x].out + 1
  /\ UNCHANGED <<evq, rsq, uin, evout, data, loc, todo>>

AcquireCas(x) ==
  /\ IF rsout = loc[x].out
     THEN At2(x, "a_cas", "a_where") /\ rsout' = rsout + 1
     ELSE At2(x, "a_cas", "a_none") /\ UNCHANGED rsout
  /\ UNCHANGED <<evq, rsq, uin, evout, data, loc, todo>>

\* cas_to_null: the slot is found, then emptied.
FindPopped(x) ==
  /\ \/ At2(x, "a_where", "a_null") /\ Set(x, [loc[x] EXCEPT !.impl = Where(rsq, loc[x].out)])
     \/ At2(x, "r_where", "r_null") /\ Set(x, [loc[x] EXCEPT !.impl = Where(evq, loc[x].out)])
  /\ UNCHANGED <<Queues2, data, todo>>

Emptied(q, x) ==
  [q EXCEPT ![loc[x].impl][loc[x].out % SizeOf(q[loc[x].impl])] = Slot("nil", NoIndex)]

\* The slot still holds what was popped; an assertion says so.
SlotHolds(q, x, p) == At(q[loc[x].impl], loc[x].out).ptr = p

AcquireDone(x) ==
  /\ At2(x, "a_null", IF SlotHolds(rsq, x, loc[x].got) THEN "run" ELSE "abort")
  /\ IF SlotHolds(rsq, x, loc[x].got)
     THEN rsq' = Emptied(rsq, x) /\ data' = [data EXCEPT ![x] = loc[x].got]
     ELSE UNCHANGED <<rsq, data>>
  /\ UNCHANGED <<evq, uin, evout, rsout, loc, todo>>

\* An event queues only while no resource is free.
MustWait(x) ==
  /\ At2(x, "a_none", IF uin.rs # loc[x].out THEN "a_out"
                      ELSE IF NearlyFull(loc[x].uin.ev, evout, SizeOf(Current(evq))) THEN "a_grow"
                      ELSE "a_slot")
  /\ UNCHANGED <<Queues2, data, loc, todo>>

(* release: the resource goes to the event that waits longest, or back *)
PoolRelease(x) ==
  /\ At2(x, "run", "r_out")
  /\ data' = [data EXCEPT ![x] = "nil"]
  /\ Set(x, [PoolLocals EXCEPT !.got = data[x]])
  /\ UNCHANGED <<Queues2, todo>>

ReleaseTest(x) ==
  /\ LET e == IF uin.ev # loc[x].out THEN Get(evq, loc[x].out).ptr ELSE "nil"
     IN  /\ At2(x, "r_test", IF e = "nil" THEN "r_none" ELSE "r_cas")
         /\ Set(x, [loc[x] EXCEPT !.ev = e])
  /\ UNCHANGED <<Queues2, data, todo>>

ReleaseCas(x) ==
  /\ IF evout = loc[x].out
     THEN At2(x, "r_cas", "r_where") /\ evout' = evout + 1
     ELSE At2(x, "r_cas", "r_none") /\ UNCHANGED evout
  /\ UNCHANGED <<evq, rsq, uin, rsout, data, loc, todo>>

\* The waiter that was popped: its atomic gets the resource, and it will run.
ReleaseDone(x) ==
  /\ ppc[x] = "r_null"
  /\ IF SlotHolds(evq, x, loc[x].ev) /\ data[loc[x].ev] = "nil"
     THEN /\ ppc' = [ppc EXCEPT ![x] = "idle", ![loc[x].ev] = "run"]
          /\ evq' = Emptied(evq, x)
          /\ data' = [data EXCEPT ![loc[x].ev] = loc[x].got] /\ Set(x, PoolLocals)
     ELSE ppc' = [ppc EXCEPT ![x] = "abort"] /\ UNCHANGED <<evq, data, loc>>
  /\ UNCHANGED <<rsq, uin, evout, rsout, todo>>

MustStore(x) ==
  /\ At2(x, "r_none", IF uin.ev # loc[x].out THEN "r_out"
                      ELSE IF NearlyFull(loc[x].uin.rs, rsout, SizeOf(Current(rsq))) THEN "r_grow"
                      ELSE "r_slot")
  /\ UNCHANGED <<Queues2, data, loc, todo>>

(* the push, on either queue *)
\* grow: the implementation in use is read, and replaced if it still is.
GrowRead(x) ==
  /\ \/ At2(x, "a_grow", "a_grown") /\ Set(x, [loc[x] EXCEPT !.impl = Len(evq)])
     \/ At2(x, "r_grow", "r_grown") /\ Set(x, [loc[x] EXCEPT !.impl = Len(rsq)])
  /\ UNCHANGED <<Queues2, data, todo>>

GrowCas(x) ==
  /\ \/ /\ At2(x, "a_grown", "a_slot") /\ UNCHANGED rsq
        /\ evq' = IF Len(evq) = loc[x].impl THEN Grown(evq) ELSE evq
     \/ /\ At2(x, "r_grown", "r_slot") /\ UNCHANGED evq
        /\ rsq' = IF Len(rsq) = loc[x].impl THEN Grown(rsq) ELSE rsq
  /\ UNCHANGED <<uin, evout, rsout, data, loc, todo>>

PushSlot(x) ==
  /\ \/ LET q == Update(evq, loc[x].uin.ev)
        IN  /\ At2(x, "a_slot", IF Get(q, loc[x].uin.ev).ptr = "nil" THEN "a_push" ELSE "a_out")
            /\ evq' = q /\ UNCHANGED rsq
     \/ LET q == Update(rsq, loc[x].uin.rs)
        IN  /\ At2(x, "r_slot", IF Get(q, loc[x].uin.rs).ptr = "nil" THEN "r_push" ELSE "r_out")
            /\ rsq' = q /\ UNCHANGED evq
  /\ UNCHANGED <<uin, evout, rsout, data, loc, todo>>

\* One compare-and-swap on the packed word takes the slot.
PushCas(x) ==
  /\ IF uin = loc[x].uin
     THEN \/ At2(x, "a_push", "a_find") /\ uin' = [uin EXCEPT !.ev = @ + 1]
          \/ At2(x, "r_push", "r_find") /\ uin' = [uin EXCEPT !.rs = @ + 1]
     ELSE (At2(x, "a_push", "a_out") \/ At2(x, "r_push", "r_out")) /\ UNCHANGED uin
  /\ UNCHANGED <<evq, rsq, evout, rsout, data, loc, todo>>

\* cas_from_null: the implementation is found, then its slot written.
FindSlot(x) ==
  /\ \/ At2(x, "a_find", "a_write") /\ Set(x, [loc[x] EXCEPT !.impl = Where(evq, loc[x].uin.ev)])
     \/ At2(x, "r_find", "r_write") /\ Set(x, [loc[x] EXCEPT !.impl = Where(rsq, loc[x].uin.rs)])
  /\ UNCHANGED <<Queues2, data, todo>>

\* The slot is free; an assertion says so.  Its index is written just before its pointer.
SlotFree(q, x, i) == At(q[loc[x].impl], i).ptr = "nil"
Written(q, k, i, p) == [q EXCEPT ![k][i % SizeOf(q[k])] = Slot(p, i)]

WriteSlot(x) ==
  /\ \/ /\ At2(x, "a_write", IF SlotFree(evq, x, loc[x].uin.ev) THEN "wait" ELSE "abort")
        /\ evq' = IF SlotFree(evq, x, loc[x].uin.ev) 
                  THEN Written(evq, loc[x].impl, loc[x].uin.ev, x) ELSE evq
        /\ UNCHANGED rsq
     \/ /\ At2(x, "r_write", IF SlotFree(rsq, x, loc[x].uin.rs) THEN "idle" ELSE "abort")
        /\ rsq' = IF SlotFree(rsq, x, loc[x].uin.rs)
                  THEN Written(rsq, loc[x].impl, loc[x].uin.rs, loc[x].got) ELSE rsq
        /\ UNCHANGED evq
  /\ Set(x, PoolLocals)
  /\ UNCHANGED <<uin, evout, rsout, data, todo>>

PoolStep(x) ==
  \/ PoolAcquire(x) \/ ReadOut(x) \/ ReadIn(x) \/ AcquireTest(x) \/ AcquireGet(x)
  \/ AcquireCas(x) \/ FindPopped(x) \/ AcquireDone(x) \/ MustWait(x)
  \/ PoolRelease(x) \/ ReleaseTest(x) \/ ReleaseCas(x) \/ ReleaseDone(x) \/ MustStore(x)
  \/ GrowRead(x) \/ GrowCas(x) \/ PushSlot(x) \/ PushCas(x) \/ FindSlot(x) \/ WriteSlot(x)

\* An assertion that fails ends the program.
PoolNext ==
  /\ \A x \in PoolEvent : ppc[x] # "abort"
  /\ \E x \in PoolEvent : PoolStep(x)

----------------------------------------------------------------------------

\* Where a thread has a resource that is neither in the queue nor in an atomic's _data:
\* popped, or about to be given to a waiter or put back.
PoolCarrying == {"a_where", "a_null", "r_out", "r_in", "r_test", "r_none", "r_cas", "r_where",
             "r_null", "r_grow", "r_grown", "r_slot", "r_push", "r_find", "r_write"}

PoolOwners(r) == {x \in PoolEvent : data[x] = r \/ (ppc[x] \in PoolCarrying /\ loc[x].got = r)}
PoolPlaces(r) == {i \in rsout .. uin.rs - 1 : Get(rsq, i).ptr = r}

\* A resource is never with two events, nor with one and in the queue, nor in the queue
\* twice (acquire_or_wait and release of PoolEventList).
PoolNeverTwice ==
  \A r \in Resource : Cardinality(PoolOwners(r)) + Cardinality(PoolPlaces(r)) <= 1

\* An event never waits while a resource lies free: the packed word makes the
\* two pushes exclude each other.
PoolNoIdle == uin.ev = evout \/ uin.rs = rsout

\* Who has taken an index finds its slot free ("must write on ev push", "must write on an rs push"),
\* and the waiter that was popped has no resource yet ("must cas ev._data from NULL on an ev pop").
PoolPushSucceeds ==
  \A x \in PoolEvent :
    /\ ppc[x] = "a_write" => SlotFree(evq, x, loc[x].uin.ev)
    /\ ppc[x] = "r_write" => SlotFree(rsq, x, loc[x].uin.rs)
    /\ ppc[x] = "r_null"  => data[loc[x].ev] = "nil"

\* No assertion fails; with the two above, "must write NULL on ev pop" and "must write a
\* NULL on an rs pop".
PoolAssertions == \A x \in PoolEvent : ppc[x] # "abort"
============================================================================

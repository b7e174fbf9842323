-------------------------------- MODULE Timer --------------------------------
(***************************************************************************)
(* The timer module and the program that uses it (src/src/examples/timer1: *)
(* mImpl_Timer_internal.h, mImpl_timer1_Timer.cpp, TimerInterface.cpp and  *)
(* mImpl_timer1.cpp).  Generators, which are detached, push timer events   *)
(* onto one lock-free list and the numbers of those to cancel onto         *)
(* another; the source Expire_splay swaps the two lists for empty ones,    *)
(* brings its maps up to date and splays what expired or was cancelled.    *)
(*                                                                         *)
(* The guard is a free one: nothing but the lists is between the two.  A   *)
(* list is the sequence of its elements from _head; what hangs off an      *)
(* element never changes, so that comparing lists is comparing heads.      *)
(* until_time is 0 and nothing writes it: Expire_splay never sleeps, and a *)
(* signal has nobody to wake.                                              *)
(***************************************************************************)
EXTENDS Naturals, SequencesExt, FiniteSetsExt

CONSTANTS TmThread,     \* the generators
          TmEvent,      \* the events they make
          TmId,         \* the numbers an event may have
          TmCancels,    \* bound: how many cancels are asked for
          TmTime        \* bound: the last time

ASSUME TimerAssumption == TmCancels \in Nat /\ TmTime \in Nat

VARIABLES now,          \* time(NULL)
          newList, cancelList,
          timer,        \* an event's id and expiry, and whether it was made
          gen,          \* what a generator is doing
          byId, byTime, \* _map_by_id and _map_by_time
          splay,        \* what Expire_splay is doing
          refused,      \* history: events whose id was in the map already
          left,         \* history: how the events left
          stopped       \* the process is gone

tmvars == <<now, newList, cancelList, timer, gen, byId, byTime, splay, refused, left, stopped>>

\* A generator with its Submitter; when that is gone it makes another.
Submits   == [pc |-> "submit", item |-> <<>>, seen |-> <<>>]
NotSplay  == [pc |-> "idle", present |-> 0, seen |-> <<>>, cancelled |-> <<>>]

TmInit ==
  /\ now = 0 /\ newList = <<>> /\ cancelList = <<>>
  /\ timer = [e \in TmEvent |-> <<>>]
  /\ gen = [g \in TmThread |-> Submits]
  /\ byId = {} /\ byTime = {}
  /\ splay = NotSplay
  /\ refused = {} /\ left = [e \in TmEvent |-> <<>>] /\ stopped = FALSE

TmTick ==
  /\ now < TmTime /\ now' = now + 1
  /\ UNCHANGED <<newList, cancelList, timer, gen, byId, byTime, splay, refused, left, stopped>>

(* Generators *)
Does(g, from, next) == gen[g].pc = from /\ gen' = [gen EXCEPT ![g] = next]

\* A new event with the next number and an expiry.
Make(g) ==
  /\ \E e \in TmEvent, i \in TmId, x \in 0 .. TmTime :
       /\ timer[e] = <<>>
       /\ timer' = [timer EXCEPT ![e] = [id |-> i, expiry |-> x]]
       /\ Does(g, "submit", [pc |-> "add", item |-> <<e>>, seen |-> newList])
  /\ UNCHANGED <<now, newList, cancelList, byId, byTime, splay, refused, left, stopped>>

\* LockFreeList::add of an event: its next is the head read before, and the head is
\* compared with that; if it has changed it is read again.
AddEvent(g) ==
  /\ IF gen[g].seen = newList
     THEN Does(g, "add", Submits) /\ newList' = gen[g].item \o newList
     ELSE Does(g, "add", [gen[g] EXCEPT !.seen = newList]) /\ UNCHANGED newList
  /\ UNCHANGED <<now, cancelList, timer, byId, byTime, splay, refused, left, stopped>>

Cancel(g) ==
  /\ Len(cancelList) + Len(splay.cancelled)
       + Cardinality({h \in TmThread : gen[h].pc = "cancel"}) < TmCancels
  /\ \E i \in TmId : Does(g, "submit", [pc |-> "cancel", item |-> <<i>>, seen |-> cancelList])
  /\ UNCHANGED <<now, newList, cancelList, timer, byId, byTime, splay, refused, left, stopped>>

\* LockFreeList::add of an id.
AddCancel(g) ==
  /\ IF gen[g].seen = cancelList
     THEN Does(g, "cancel", Submits) /\ cancelList' = gen[g].item \o cancelList
     ELSE Does(g, "cancel", [gen[g] EXCEPT !.seen = cancelList]) /\ UNCHANGED cancelList
  /\ UNCHANGED <<now, newList, timer, byId, byTime, splay, refused, left, stopped>>

Claimed == splay.pc # "idle"

\* ~Submitter: State::signal reads _thread_id, and does nothing if it is 0.
Signal(g) ==
  /\ Claimed /\ Does(g, "submit", [Submits EXCEPT !.pc = "kill"])
  /\ UNCHANGED <<now, newList, cancelList, timer, byId, byTime, splay, refused, left, stopped>>

\* pthread_kill reads _thread_id again.  Of the thread 0 it is undefined: the process
\* goes on or stops.
Kill(g) ==
  /\ Does(g, "kill", Submits)
  /\ \/ UNCHANGED stopped
     \/ ~Claimed /\ stopped' = TRUE
  /\ UNCHANGED <<now, newList, cancelList, timer, byId, byTime, splay, refused, left>>

(* Expire_splay *)
\* ClaimThreadIdRAII and the present time; swap reads the head of the new events.
ClaimThread ==
  /\ splay.pc = "idle"
  /\ splay' = [NotSplay EXCEPT !.pc = "new", !.present = now, !.seen = newList]
  /\ UNCHANGED <<now, newList, cancelList, timer, gen, byId, byTime, refused, left, stopped>>

\* For structures: swap stores without comparing.
Swaps_Unguarded(list) == TRUE

\* swap's compare-and-swap of the head it has read.
Swaps(list) == splay.seen = list

\* The fold of State::add: an event whose id is in the map is dropped.
AddTo(acc, e) ==
  IF \E f \in acc.byId : timer[f].id = timer[e].id
  THEN [acc EXCEPT !.refused = @ \cup {e}]
  ELSE [acc EXCEPT !.byId = @ \cup {e}, !.byTime = @ \cup {e}]

SwapNew ==
  /\ splay.pc = "new"
  /\ IF Swaps(newList)
     THEN LET acc == FoldLeft(AddTo, [byId |-> byId, byTime |-> byTime, refused |-> refused], splay.seen)
          IN  /\ byId' = acc.byId /\ byTime' = acc.byTime /\ refused' = acc.refused
              /\ newList' = <<>>
              /\ splay' = [splay EXCEPT !.pc = "cancels", !.seen = cancelList]
     ELSE /\ splay' = [splay EXCEPT !.seen = newList]
          /\ UNCHANGED <<newList, byId, byTime, refused>>
  /\ UNCHANGED <<now, cancelList, timer, gen, left, stopped>>

\* State::remove: find, and if it is there it goes from both maps.
RemoveId(acc, id) ==
  LET found == {e \in acc.byId : timer[e].id = id}
  IN  [byId |-> acc.byId \ found, byTime |-> acc.byTime \ found,
       removed |-> acc.removed \o SetToSeq(found)]

SwapCancel ==
  /\ splay.pc = "cancels"
  /\ IF splay.seen = cancelList
     THEN LET acc == FoldLeft(RemoveId, [byId |-> byId, byTime |-> byTime, removed |-> <<>>], cancelList)
          IN  /\ byId' = acc.byId /\ byTime' = acc.byTime
              /\ cancelList' = <<>>
              /\ splay' = [splay EXCEPT !.pc = "expire", !.seen = <<>>, !.cancelled = acc.removed]
     ELSE /\ splay' = [splay EXCEPT !.seen = cancelList]
          /\ UNCHANGED <<cancelList, byId, byTime>>
  /\ UNCHANGED <<now, newList, timer, gen, refused, left, stopped>>

\* What expired leaves the maps; the outputs are it and what was cancelled, and the
\* condition isTrue of is_cancelled sends each to its reporter.
Expire ==
  LET expired == {e \in byTime : timer[e].expiry <= splay.present}
      acc == FoldLeft(RemoveId, [byId |-> byId, byTime |-> byTime, removed |-> <<>>],
                      SetToSeq({timer[e].id : e \in expired}))
  IN  /\ splay.pc = "expire"
      /\ byId' = acc.byId /\ byTime' = acc.byTime
      /\ left' = [e \in TmEvent |->
                    left[e] \o (IF e \in expired THEN <<"expired">> ELSE <<>>)
                            \o (IF Contains(splay.cancelled, e) THEN <<"cancelled">> ELSE <<>>)]
      /\ splay' = NotSplay
      /\ UNCHANGED <<now, newList, cancelList, timer, gen, refused, stopped>>

TmNext ==
  /\ ~stopped
  /\ \/ TmTick
     \/ \E g \in TmThread : \/ Make(g) \/ AddEvent(g) \/ Cancel(g) \/ AddCancel(g)
                            \/ Signal(g) \/ Kill(g)
     \/ ClaimThread \/ SwapNew \/ SwapCancel \/ Expire

\* In how many places an event is.
Times(e, seq) == Cardinality({i \in DOMAIN seq : seq[i] = e})

Places(e) ==
  Times(e, newList) + Times(e, splay.cancelled) + Len(left[e])
    + Cardinality({g \in TmThread : gen[g].pc = "add" /\ gen[g].item = <<e>>})
    + (IF e \in byId \cup byTime THEN 1 ELSE 0) + (IF e \in refused THEN 1 ELSE 0)

(***************************************************************************)
(* An event that was made is in one place: with who adds it, on the list,  *)
(* in the maps, among the cancelled, or gone, one way and once; the two    *)
(* maps have the same events, each id once, and an event that expired has  *)
(* reached its time.  Pushes by the generators, the two swaps and the      *)
(* folds happen in any order.                                              *)
(***************************************************************************)
TimerLeavesOnce ==
  /\ \A e \in TmEvent : Places(e) = (IF timer[e] = <<>> THEN 0 ELSE 1)
  /\ byId = byTime
  /\ \A e, f \in byId : timer[e].id = timer[f].id => e = f
  /\ \A e \in TmEvent : left[e] = <<"expired">> => timer[e].expiry <= now
=============================================================================

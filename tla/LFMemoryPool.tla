---------------------------- MODULE LFMemoryPool ----------------------------
(***************************************************************************)
(* The memory pool of the lock-free runtime.  Every thread owns elements   *)
(* and a private list of free ones.  An element that another thread puts   *)
(* back goes into the mail from that thread to the owner, a list with one  *)
(* writer and one reader that is never empty; the owner collects its mail  *)
(* when it has nothing left, and takes from the heap when there is none.   *)
(* Each action is one access to memory that writer and reader share.       *)
(***************************************************************************)
EXTENDS Naturals, Sequences, FiniteSets, SequencesExt

CONSTANTS MpThreads,    \* threads, numbered from 1
          MpPerThread,  \* num_elements: elements of each thread
          MpNone,       \* NULL
          MpGets        \* bound: gets of each thread

ASSUME LFMemoryPoolAssumption ==
  MpThreads \in Nat \ {0} /\ MpPerThread \in Nat /\ MpPerThread >= MpThreads /\ MpGets \in Nat

MpThread == 1 .. MpThreads
\* Element j of thread t.  What the heap gives goes back there.
MpElement == MpThread \X (1 .. MpPerThread)

VARIABLES arr,          \* RawMemPool: the free elements of a thread, first to last
          mhead, mtail, \* RawMemPoolElementList of each pair, from and to
          link,         \* El::next of an element that is in the mail
          touch,        \* collect_touch
          held,         \* elements the program uses; any thread may put them back
          mppc, mpreg,  \* program counter, and locals: element, list, position
          gets          \* gets left

mpvars == <<arr, mhead, mtail, link, touch, held, mppc, mpreg, gets>>

\* The constructor puts one element of each thread in every mail to it.  The
\* statically allocated pool starts with collect_touch false.
MpInit ==
  /\ arr = [t \in MpThread |-> [j \in 1 .. MpPerThread - MpThreads |-> <<t, MpThreads + j>>]]
  /\ mhead = [m \in MpThread \X MpThread |-> <<m[2], m[1]>>]
  /\ mtail = mhead
  /\ link = [e \in MpElement |-> MpNone]
  /\ touch = [t \in MpThread |-> FALSE]
  /\ held = {}
  /\ mppc = [t \in MpThread |-> "idle"]
  /\ mpreg = [t \in MpThread |-> [e |-> MpNone, from |-> 1, h |-> MpNone, hn |-> MpNone, res |-> FALSE]]
  /\ gets = [t \in MpThread |-> MpGets]

MpGo(t, from, to) == mppc[t] = from /\ mppc' = [mppc EXCEPT ![t] = to]

(* MemoryPool::get *)
GetOwn(t) ==
  /\ mppc[t] = "idle" /\ gets[t] > 0 /\ arr[t] # <<>>
  /\ held' = held \cup {Head(arr[t])}
  /\ arr' = [arr EXCEPT ![t] = Tail(@)]
  /\ gets' = [gets EXCEPT ![t] = @ - 1]
  /\ UNCHANGED <<mhead, mtail, link, touch, mppc, mpreg>>

\* Nothing was put back since the last collection: the heap helps out.
GetHeap(t) ==
  /\ mppc[t] = "idle" /\ gets[t] > 0 /\ arr[t] = <<>> /\ touch[t]
  /\ gets' = [gets EXCEPT ![t] = @ - 1]
  /\ UNCHANGED <<arr, mhead, mtail, link, touch, held, mppc, mpreg>>

CollectMail(t) ==
  /\ MpGo(t, "idle", "pull") /\ gets[t] > 0 /\ arr[t] = <<>> /\ ~touch[t]
  /\ mpreg' = [mpreg EXCEPT ![t].from = 1, ![t].res = FALSE]
  /\ UNCHANGED <<arr, mhead, mtail, link, touch, held, gets>>

\* RawMemPoolElementList::pull: the newest element stays, the others are taken.
Pull(t) ==
  /\ MpGo(t, "pull", "next")
  /\ mpreg' = [mpreg EXCEPT ![t].h = mhead[mpreg[t].from, t]]
  /\ UNCHANGED <<arr, mhead, mtail, link, touch, held, gets>>

PullNext(t) ==
  /\ MpGo(t, "next", "cut")
  /\ mpreg' = [mpreg EXCEPT ![t].hn = link[mpreg[t].h]]
  /\ UNCHANGED <<arr, mhead, mtail, link, touch, held, gets>>

\* The elements from a to b along the links.
ChainOf(a, b) ==
  LET n == Cardinality(MpElement)
      chain[i \in 1 .. n] ==
        IF i = 1 THEN <<a>>
        ELSE LET c == chain[i - 1]
             IN  IF Last(c) = b \/ link[Last(c)] = MpNone THEN c ELSE Append(c, link[Last(c)])
  IN  chain[n]

\* For structures: the newest element is not cut off the others.
PullCutKeeps(t) ==
  LET from == mpreg[t].from
      more == mpreg[t].hn # MpNone
  IN  /\ MpGo(t, "cut", IF from = MpThreads THEN "touch" ELSE "pull")
      /\ arr' = IF more THEN [arr EXCEPT ![t] = ChainOf(mpreg[t].hn, mtail[from, t]) \o @] ELSE arr
      /\ mtail' = [mtail EXCEPT ![<<from, t>>] = mpreg[t].h]
      /\ mpreg' = [mpreg EXCEPT ![t].from = @ + 1, ![t].res = @ \/ more]
      /\ UNCHANGED <<mhead, link, touch, held, gets>>

PullCut(t) ==
  LET h == mpreg[t].h
      from == mpreg[t].from
      more == mpreg[t].hn # MpNone
  IN  /\ MpGo(t, "cut", IF from = MpThreads THEN "touch" ELSE "pull")
      /\ arr' = IF more THEN [arr EXCEPT ![t] = ChainOf(mpreg[t].hn, mtail[from, t]) \o @] ELSE arr
      /\ link' = [link EXCEPT ![h] = MpNone]
      /\ mtail' = [mtail EXCEPT ![<<from, t>>] = h]
      /\ mpreg' = [mpreg EXCEPT ![t].from = @ + 1, ![t].res = @ \/ more]
      /\ UNCHANGED <<mhead, touch, held, gets>>

CollectTouch(t) ==
  /\ MpGo(t, "touch", "idle")
  /\ touch' = [touch EXCEPT ![t] = TRUE]
  /\ IF mpreg[t].res
     THEN /\ held' = held \cup {Head(arr[t])}
          /\ arr' = [arr EXCEPT ![t] = Tail(@)]
          /\ gets' = [gets EXCEPT ![t] = @ - 1]
     ELSE /\ gets' = [gets EXCEPT ![t] = @ - 1] /\ UNCHANGED <<arr, held>>
  /\ UNCHANGED <<mhead, mtail, link, mpreg>>
  \* when collect returns false the next get is the malloc of the same call

(* MemoryPool::put *)
PutOwn(t) ==
  /\ mppc[t] = "idle"
  /\ \E e \in held : /\ e[1] = t
                     /\ held' = held \ {e} /\ arr' = [arr EXCEPT ![t] = <<e>> \o @]
  /\ UNCHANGED <<mhead, mtail, link, touch, mppc, mpreg, gets>>

\* RawMemPoolElementList::push, by the writer.
PutLink(t) ==
  /\ MpGo(t, "idle", "push")
  /\ \E e \in held : /\ e[1] # t
                     /\ held' = held \ {e}
                     /\ mpreg' = [mpreg EXCEPT ![t].e = e]
                     /\ link' = [link EXCEPT ![e] = mhead[t, e[1]]]
  /\ UNCHANGED <<arr, mhead, mtail, touch, gets>>

PutHead(t) ==
  /\ MpGo(t, "push", "untouch")
  /\ mhead' = [mhead EXCEPT ![<<t, mpreg[t].e[1]>>] = mpreg[t].e]
  /\ UNCHANGED <<arr, mtail, link, touch, held, mpreg, gets>>

PutTouch(t) ==
  /\ MpGo(t, "untouch", "idle")
  /\ touch' = [touch EXCEPT ![mpreg[t].e[1]] = FALSE]
  /\ UNCHANGED <<arr, mhead, mtail, link, held, mpreg, gets>>

MpStep(t) ==
  \/ GetOwn(t) \/ GetHeap(t) \/ CollectMail(t) \/ Pull(t) \/ PullNext(t) \/ PullCut(t)
  \/ CollectTouch(t) \/ PutOwn(t) \/ PutLink(t) \/ PutHead(t) \/ PutTouch(t)

MpNext == \E t \in MpThread : MpStep(t)

----------------------------------------------------------------------------
\* The elements on their way: in the mail, from the head along the links, being
\* pushed, and being pulled.
InMail(m) == ToSet(ChainOf(mhead[m], MpNone))
InPush == {mpreg[t].e : t \in {u \in MpThread : mppc[u] = "push"}}

\* Every element is in one place: free at its owner, in use, in the mail to its
\* owner, or being pushed.  None is lost or given out twice, whatever collection
\* and return do to one mail at the same time.
PoolElementOnce ==
  /\ \A t \in MpThread : \A i, j \in DOMAIN arr[t] : arr[t][i] = arr[t][j] => i = j
  /\ \A e \in MpElement :
       LET places == (IF e \in held THEN {<<"held", 0, 0>>} ELSE {}) \cup (IF e \in InPush THEN {<<"push", 0, 0>>} ELSE {})
                     \cup {<<"arr", t, t>> : t \in {u \in MpThread : e \in ToSet(arr[u])}}
                     \cup {<<"mail", m[1], m[2]>> : m \in {l \in MpThread \X MpThread : e \in InMail(l)}}
       IN  Cardinality(places) = 1
  /\ \A t \in MpThread : \A e \in ToSet(arr[t]) : e[1] = t
=============================================================================

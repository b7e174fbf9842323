----------------------------- MODULE LFReclaim -----------------------------
(***************************************************************************)
(* Safe memory reclamation (hazard pointers), as the lock-free atomics use *)
(* it.  A thread announces the node it is about to read, and reads the     *)
(* place where it found it once more; a node that has been unlinked is put *)
(* off, and a batch of such nodes is scanned against what all threads have *)
(* announced before they go back to the allocator.                         *)
(***************************************************************************)
EXTENDS Naturals, Sequences, FiniteSets

CONSTANTS SmrThread,    \* threads
          SmrNode,      \* nodes of the allocator
          SmrCell,      \* shared pointers to nodes
          SmrNull,      \* NULL
          SmrBatch,     \* SMR_R
          SmrOps        \* bound: reads and replacements of each thread

\* "num_threads < SMR_P", and SMR_R is a multiple of SMR_P, the number of threads there
\* may be; here a thread has one hazard pointer.
ASSUME LFReclaimAssumption ==
  /\ SmrBatch \in Nat /\ SmrOps \in Nat
  /\ IsFiniteSet(SmrThread) /\ Cardinality(SmrThread) < SmrBatch
  /\ SmrNull \notin SmrNode

VARIABLES cell,         \* cell -> node
          hazard,       \* hazard[t].h[0]
          dlist,        \* _dlist of each thread, up to _dcount
          unused,       \* nodes the allocator can give
          spc, sreg,    \* program counter and locals
          ops           \* operations left

smrvars == <<cell, hazard, dlist, unused, spc, sreg, ops>>

\* The node a thread reads, where, and of its scan what was announced and by whom not yet.
Reg(h, c, plist, left) == [h |-> h, c |-> c, plist |-> plist, left |-> left]

SmrInit ==
  /\ cell \in {c \in [SmrCell -> SmrNode] : \A x, y \in SmrCell : c[x] = c[y] => x = y}
  /\ hazard = [t \in SmrThread |-> SmrNull]
  /\ dlist = [t \in SmrThread |-> <<>>]
  /\ unused = SmrNode \ {cell[x] : x \in SmrCell}
  /\ spc = [t \in SmrThread |-> "idle"]
  /\ sreg = [t \in SmrThread |-> Reg(SmrNull, SmrNull, {}, {})]
  /\ ops = [t \in SmrThread |-> SmrOps]

SmrGo(t, from, to) == spc[t] = from /\ spc' = [spc EXCEPT ![t] = to]

(* HAZARD_PTR_ASSIGN: read, announce, read again *)
SmrRead(t) ==
  /\ SmrGo(t, "idle", "set") /\ ops[t] > 0
  /\ ops' = [ops EXCEPT ![t] = @ - 1]
  /\ \E x \in SmrCell : sreg' = [sreg EXCEPT ![t] = Reg(cell[x], x, {}, {})]
  /\ UNCHANGED <<cell, hazard, dlist, unused>>

SmrSet(t) ==
  /\ SmrGo(t, "set", "check")
  /\ hazard' = [hazard EXCEPT ![t] = sreg[t].h]
  /\ UNCHANGED <<cell, dlist, unused, sreg, ops>>

SmrCheck(t) ==
  /\ spc[t] = "check"
  /\ IF cell[sreg[t].c] = sreg[t].h
     THEN SmrGo(t, "check", "use") /\ UNCHANGED sreg
     ELSE /\ SmrGo(t, "check", "set")
          /\ sreg' = [sreg EXCEPT ![t] = Reg(cell[sreg[t].c], sreg[t].c, {}, {})]
  /\ UNCHANGED <<cell, hazard, dlist, unused, ops>>

\* HAZARD_PTR_RELEASE
SmrRelease(t) ==
  /\ SmrGo(t, "use", "idle")
  /\ hazard' = [hazard EXCEPT ![t] = SmrNull]
  /\ UNCHANGED <<cell, dlist, unused, sreg, ops>>

\* A thread that uses a node replaces it in its cell by a new one, and puts the
\* old one off; another may have been quicker.
SmrReplace(t) ==
  /\ spc[t] = "use"
  /\ \E n \in unused :
       IF cell[sreg[t].c] = sreg[t].h
       THEN /\ cell' = [cell EXCEPT ![sreg[t].c] = n] /\ unused' = unused \ {n}
            /\ SmrGo(t, "use", "defer") /\ UNCHANGED sreg
       ELSE /\ SmrGo(t, "use", "idle") /\ UNCHANGED <<cell, unused, sreg>>
  /\ hazard' = [hazard EXCEPT ![t] = SmrNull]
  /\ UNCHANGED <<dlist, ops>>

(* PerThread::defer_put and scan *)
\* For structures: put, at once, instead of defer_put.
Put(t) ==
  /\ SmrGo(t, "defer", "idle")
  /\ unused' = unused \cup {sreg[t].h}
  /\ UNCHANGED <<cell, hazard, dlist, sreg, ops>>

DeferPut(t) ==
  LET d == Append(dlist[t], sreg[t].h)
  IN  /\ SmrGo(t, "defer", IF Len(d) >= SmrBatch THEN "scan" ELSE "idle")
      /\ dlist' = [dlist EXCEPT ![t] = d]
      /\ sreg' = [sreg EXCEPT ![t] = Reg(SmrNull, SmrNull, {}, SmrThread)]
      /\ UNCHANGED <<cell, hazard, unused, ops>>

\* Stage 1 reads what one thread announces after the other.
ScanRead(t) ==
  /\ spc[t] = "scan"
  /\ \E u \in sreg[t].left :
       sreg' = [sreg EXCEPT ![t] = Reg(SmrNull, SmrNull, sreg[t].plist \cup ({hazard[u]} \ {SmrNull}),
                                       sreg[t].left \ {u})]
  /\ UNCHANGED <<cell, hazard, dlist, unused, spc, ops>>

\* What stays of the batch, in its order: f says where an entry was.
Kept(t) == {i \in DOMAIN dlist[t] : dlist[t][i] \in sreg[t].plist}
Compacting(S) == {f \in [1 .. Cardinality(S) -> S] : \A i, j \in DOMAIN f : i < j => f[i] < f[j]}

\* Stages 3 and 4: what nobody announces goes back to the allocator.
ScanReclaim(t) ==
  /\ SmrGo(t, "scan", "idle") /\ sreg[t].left = {}
  /\ unused' = unused \cup {dlist[t][i] : i \in (DOMAIN dlist[t]) \ Kept(t)}
  /\ \E f \in Compacting(Kept(t)) :
       dlist' = [dlist EXCEPT ![t] = [k \in 1 .. Cardinality(Kept(t)) |-> dlist[t][f[k]]]]
  /\ sreg' = [sreg EXCEPT ![t] = Reg(SmrNull, SmrNull, {}, {})]
  /\ UNCHANGED <<cell, hazard, ops>>

SmrStep(t) ==
  \/ SmrRead(t) \/ SmrSet(t) \/ SmrCheck(t) \/ SmrRelease(t) \/ SmrReplace(t)
  \/ DeferPut(t) \/ ScanRead(t) \/ ScanReclaim(t)

SmrNext == \E t \in SmrThread : SmrStep(t)

----------------------------------------------------------------------------
\* A node that a thread has announced and found still in its place is not
\* reclaimed while the thread uses it, and no node is put off twice.
NoUseAfterReclaim ==
  /\ \A t \in SmrThread : spc[t] = "use" => sreg[t].h \notin unused
  /\ \A t, u \in SmrThread : \A i \in DOMAIN dlist[t], j \in DOMAIN dlist[u] :
       dlist[t][i] = dlist[u][j] => t = u /\ i = j
  /\ \A t \in SmrThread : \A i \in DOMAIN dlist[t] : dlist[t][i] \notin unused

\* "_dcount < SMR_R" after defer_put: a scan always gets rid of something.
BatchHasRoom == \A t \in SmrThread : spc[t] # "scan" => Len(dlist[t]) < SmrBatch
============================================================================

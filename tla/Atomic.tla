------------------------------- MODULE Atomic -------------------------------
(***************************************************************************)
(* The two blocking atomics of the classic runtime,                        *)
(* src/runtime/atomic/OFluxAtomic.h: AtomicExclusive and AtomicReadWrite.  *)
(*                                                                         *)
(* An atomic is the record                                                 *)
(*    held     _held, the number of acquisitions that were not released    *)
(*    mode     _mode, the access mode of an AtomicReadWrite (an exclusive  *)
(*             atomic has no mode and leaves it at None)                   *)
(*    waiters  _waiters, the deque of AtomicQueueEntry, oldest first       *)
(* The pointer an atomic guards is abstracted to "present", whether it is  *)
(* non-NULL: that is all the atomic asks of data().                        *)
(*                                                                         *)
(* acquire_or_wait and release are split into the question the method asks *)
(* (Grants, IsBatch) and the state it leaves (Acquired, Queued, Released); *)
(* EventGuards puts the two together in one action per call.               *)
(***************************************************************************)
EXTENDS Naturals, Sequences

None == 0
Read == 1
Write == 2
Exclusive == 3
Upgradeable == 4

WType == {Read, Write, Exclusive, Upgradeable}
Mode  == {None, Read, Write, Upgradeable}

QueueEntry(Event) == [event : Event, wtype : WType]
AtomicState(Event) == 
    [held : Nat, mode : Mode, waiters : Seq(QueueEntry(Event))]

\* AtomicCommon and AtomicReadWrite constructors.
NewAtomic == [held |-> 0, mode |-> None, waiters |-> <<>>]

\* Mutant: an upgradeable request is taken for a reader without any data.
JoinsReaders_NoData(wtype, present) == wtype \in {Read, Upgradeable}

\* A request of this type may share the atomic with readers.
JoinsReaders(wtype, present) == 
    \/ wtype = Read
    \/ wtype = Upgradeable /\ present

(***************************************************************************)
(* acquire_or_wait.                                                        *)
(***************************************************************************)
\* Mutant: whoever may share joins, whatever the mode of the atomic.
Grants_AnyMode(at, wtype, present) ==
    \/ at.held = 0
    \/ wtype # Exclusive /\ at.waiters = <<>> /\ JoinsReaders(wtype, present)

\* Mutant: readers join readers although somebody waits.
Grants_Barging(at, wtype, present) ==
    \/ at.held = 0
    \/ wtype # Exclusive /\ at.mode = Read /\ JoinsReaders(wtype, present)

\* The request is granted at once.
Grants(at, wtype, present) ==
    \/ at.held = 0
    \/ /\ wtype # Exclusive
       /\ at.mode = Read
       /\ at.waiters = <<>>
       /\ JoinsReaders(wtype, present)

\* The atomic after a request that was granted.  AtomicReadWrite computes
\* Read or Write for an upgradeable request and then overwrites it with the
\* request's own type.
Acquired(at, wtype) ==
    IF wtype = Exclusive THEN [at EXCEPT !.held = 1]
    ELSE IF at.held = 0 THEN [at EXCEPT !.held = 1, !.mode = wtype]
    ELSE [at EXCEPT !.held = @ + 1]

\* The atomic after a request that was not.
Queued(at, event, wtype) ==
    [at EXCEPT !.waiters = Append(@, [event |-> event, wtype |-> wtype])]

(***************************************************************************)
(* release, called by a holder that acquired the atomic with "wtype".      *)
(***************************************************************************)
\* How many acquisitions are left once the caller's is gone.
HeldAfter(at, wtype) == 
    IF wtype = Exclusive \/ at.held = 0 THEN 0 ELSE at.held - 1

\* Mutant: release hands the atomic to one waiter only.
IsBatch_One(at, wtype, present, n) ==
    n = IF HeldAfter(at, wtype) # 0 \/ at.waiters = <<>> THEN 0 ELSE 1

\* release hands the atomic to the first n waiters: none while it is held,
\* else the oldest one, and with a reader every waiter behind it that may
\* share, up to the first that may not.
IsBatch(at, wtype, present, n) ==
    LET w == at.waiters
    IN  IF HeldAfter(at, wtype) # 0 \/ w = <<>> THEN n = 0
        ELSE /\ n \in 1 .. Len(w)
             /\ w[1].wtype # Read => n = 1
             /\ w[1].wtype = Read => 
                  /\ \A i \in 2 .. n : JoinsReaders(w[i].wtype, present)
                  /\ n < Len(w) => ~ JoinsReaders(w[n+1].wtype, present)

\* Mutant: the count is set for one event, whatever the number released.
Released_CountsOne(at, wtype, n) ==
    IF n = 0 
    THEN LET h == HeldAfter(at, wtype)
         IN  [at EXCEPT !.held = h, !.mode = IF h = 0 THEN None ELSE @]
    ELSE [held |-> 1, mode |-> IF wtype = Exclusive THEN None ELSE at.waiters[1].wtype,
          waiters |-> SubSeq(at.waiters, n + 1, Len(at.waiters))]

\* Mutant: only the first of the released events leaves the waiters.
Released_PopsOne(at, wtype, n) ==
    IF n = 0 
    THEN LET h == HeldAfter(at, wtype)
         IN  [at EXCEPT !.held = h, !.mode = IF h = 0 THEN None ELSE @]
    ELSE [held |-> n, mode |-> IF wtype = Exclusive THEN None ELSE at.waiters[1].wtype,
          waiters |-> Tail(at.waiters)]

\* Mutant: an exclusive atomic takes its waiter's type for a mode.
Released_AlwaysMode(at, wtype, n) ==
    IF n = 0 
    THEN LET h == HeldAfter(at, wtype)
         IN  [at EXCEPT !.held = h, !.mode = IF h = 0 THEN None ELSE @]
    ELSE [held |-> n, mode |-> at.waiters[1].wtype,
          waiters |-> SubSeq(at.waiters, n + 1, Len(at.waiters))]

\* The atomic after release.
Released(at, wtype, n) ==
    IF n = 0 
    THEN LET h == HeldAfter(at, wtype)
         IN  [at EXCEPT !.held = h, !.mode = IF h = 0 THEN None ELSE @]
    ELSE [held    |-> n, 
          mode    |-> IF wtype = Exclusive THEN None ELSE at.waiters[1].wtype,
          waiters |-> SubSeq(at.waiters, n + 1, Len(at.waiters))]
=============================================================================

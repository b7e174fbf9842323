---------------------------- MODULE Parts_proofs ----------------------------
(***************************************************************************)
(* Inductive invariants of five parts of the runtimes: the I/O shim, the   *)
(* life of events and flows, the circular buffer, the linked list and the  *)
(* safe reclamation of memory.  Structures_proofs states the theorems.     *)
(***************************************************************************)
EXTENDS IOShim, EventLife, CircularBuffer, LinkedList, LFReclaim,
        FiniteSetTheorems, SequenceTheorems, TLAPS

-----------------------------------------------------------------------------
(***************************************************************************)
(* The I/O shim, for any number of threads and descriptors, until the      *)
(* runtime stops.                                                          *)
(*                                                                         *)
(* That a call which goes to the kernel with the manager lock is not kept  *)
(* there rests on what was looked at before: poll's answer, that of        *)
(* mincore, and is_regular, which must not be stale.  The descriptor is    *)
(* with one call, so nobody takes what poll saw; and a regular descriptor  *)
(* is an open file, as close forgets it before the kernel closes it.       *)
(***************************************************************************)
ShTypes ==
  /\ shpc = [t \in ShThread |-> shpc[t]]
  /\ shDetached = [t \in ShThread |-> shDetached[t]]
  /\ call = [t \in ShThread |-> call[t]]
  /\ object = [d \in Fd |-> object[d]]

\* Who runs a node function is attached and has the lock, or neither; who gave the lock
\* up is attached again once it has it back.
ShHas ==
  \A t \in ShThread :
    /\ shpc[t] \in {"out", "wtr"} => shLock # t /\ ~shDetached[t]
    /\ shpc[t] = "relock" => shLock # t /\ ~call[t].prev
    /\ shpc[t] \in {"node", "opened", "closing"} => (shDetached[t] <=> shLock # t)
    /\ shpc[t] = "kernel" => (shDetached[t] <=> shLock # t)
    /\ shpc[t] = "kernel" /\ call[t].slow = TRUE => shDetached[t] /\ ~call[t].prev

\* A descriptor is with one call, and stays open during it.
ShCalls ==
  /\ \A t, u \in ShThread : call[t].fd \in Fd /\ call[t].fd = call[u].fd => t = u
  /\ \A t \in ShThread : call[t].fd \in Fd => object[call[t].fd] # "none"

\* regular tells the files, but for those that are just being opened or closed.
ShFiles ==
  /\ \A d \in regular : d \in Fd /\ object[d] = "file"
  /\ \A t \in ShThread : shpc[t] = "closing" => call[t].fd \in Fd /\ call[t].fd \notin regular
  /\ \A t \in ShThread : shpc[t] = "opened" => call[t].fd \in Fd /\ object[call[t].fd] = "file"
  /\ \A d \in Fd : object[d] = "file" /\ d \notin regular =>
       \E t \in ShThread : shpc[t] \in {"opened", "closing"} /\ call[t].fd = d

\* What was looked at before the call is still so in the kernel.
ShQuick ==
  \A t \in ShThread : shLock = t /\ shpc[t] = "kernel" =>
    call[t].fd \in Fd /\ (call[t].fn # "put" => call[t].fn \in Timed \cup Gets /\ ~Blocked(call[t]))

ShUp == eminfo = TRUE /\ ShHas /\ ShCalls /\ ShFiles /\ ShQuick
ShInv == ShTypes /\ (shRunning = TRUE => ShUp) /\ shRunning \in BOOLEAN

\* initShim.
LEMMA ShInitInv == ShInit => ShInv
  <1> SUFFICES ASSUME ShInit PROVE ShInv
    OBVIOUS
  <1>1. ShTypes
    BY DEF ShInit, ShTypes
  <1>2. \A t \in ShThread : call[t].fd = ShNobody /\ shpc[t] = "out" /\ shDetached[t] = FALSE
    BY DEF ShInit, NoCall
  <1>3. eminfo = TRUE /\ shRunning = TRUE /\ shLock = ShNobody /\ regular = {} /\ \A d \in Fd : object[d] = "none"
    BY DEF ShInit
  <1>4. ShHas
    BY <1>2, <1>3, IOShimAssumption DEF ShHas
  <1>5. ShCalls /\ ShFiles /\ ShQuick
    BY <1>2, <1>3, IOShimAssumption DEF ShCalls, ShFiles, ShQuick
  <1> QED
    BY <1>1, <1>3, <1>4, <1>5 DEF ShInv, ShUp

\* A call that gets something is not kept in the kernel by what others do.
LEMMA ShStays ==
  ASSUME NEW c, c.fn \in Timed \cup Gets, ~Blocked(c),
         object'[c.fd] = object[c.fd], c.fd \in ready => c.fd \in ready',
         c.fd \in resident => c.fd \in resident'
  PROVE  ~Blocked(c)'
  BY DEF Blocked, Timed, Gets

\* The steps that move one thread.
LEMMA ShHasMoves ==
  ASSUME ShHas, NEW t \in ShThread,
         \A u \in ShThread : u # t =>
           shpc'[u] = shpc[u] /\ shDetached'[u] = shDetached[u] /\ call'[u] = call[u] /\ (shLock' = u <=> shLock = u),
         shpc'[t] \in {"out", "wtr"} => shLock' # t /\ ~shDetached'[t],
         shpc'[t] = "relock" => shLock' # t /\ ~call'[t].prev,
         shpc'[t] \in {"node", "kernel", "opened", "closing"} => (shDetached'[t] <=> shLock' # t),
         shpc'[t] = "kernel" /\ call'[t].slow = TRUE => shDetached'[t] /\ ~call'[t].prev
  PROVE  ShHas'
  <1> SUFFICES ASSUME NEW u \in ShThread
               PROVE  /\ shpc'[u] \in {"out", "wtr"} => shLock' # u /\ ~shDetached'[u]
                      /\ shpc'[u] = "relock" => shLock' # u /\ ~call'[u].prev
                      /\ shpc'[u] \in {"node", "opened", "closing"} => (shDetached'[u] <=> shLock' # u)
                      /\ shpc'[u] = "kernel" => (shDetached'[u] <=> shLock' # u)
                      /\ shpc'[u] = "kernel" /\ call'[u].slow = TRUE => shDetached'[u] /\ ~call'[u].prev
    BY DEF ShHas
  <1>1. CASE u = t
    BY <1>1
  <1>2. CASE u # t
    BY <1>2 DEF ShHas
  <1> QED
    BY <1>1, <1>2

\* The steps that move one thread and leave the descriptors alone.
LEMMA ShMoves ==
  ASSUME ShUp, NEW t \in ShThread,
         eminfo' = eminfo /\ regular' = regular /\ object' = object /\ ready' = ready /\ resident' = resident /\ room' = room,
         \A u \in ShThread : u # t =>
           shpc'[u] = shpc[u] /\ shDetached'[u] = shDetached[u] /\ call'[u] = call[u] /\ (shLock' = u <=> shLock = u),
         shpc[t] \notin {"opened", "closing"}, shpc'[t] \notin {"opened", "closing"},
         call'[t].fd \in Fd =>
           object[call'[t].fd] # "none" /\ \A u \in ShThread : u # t => call[u].fd # call'[t].fd,
         shpc'[t] \in {"out", "wtr"} => shLock' # t /\ ~shDetached'[t],
         shpc'[t] = "relock" => shLock' # t /\ ~call'[t].prev,
         shpc'[t] \in {"node", "kernel"} => (shDetached'[t] <=> shLock' # t),
         shpc'[t] = "kernel" /\ call'[t].slow = TRUE => shDetached'[t] /\ ~call'[t].prev,
         shLock' = t /\ shpc'[t] = "kernel" =>
           call'[t].fd \in Fd /\ (call'[t].fn # "put" => call'[t].fn \in Timed \cup Gets /\ ~Blocked(call'[t]))
  PROVE  ShUp'
  <1>1. ShHas'
    BY ShHasMoves DEF ShUp
  <1>2. ShCalls'
    BY DEF ShUp, ShCalls
  <1>3. ShFiles'
    <2>0. ShFiles
      BY DEF ShUp
    <2>1. \A u \in ShThread : shpc'[u] \in {"opened", "closing"} => u # t
      OBVIOUS
    <2>2. ASSUME NEW d \in Fd, object[d] = "file", d \notin regular
          PROVE  \E u \in ShThread : shpc'[u] \in {"opened", "closing"} /\ call'[u].fd = d
      <3>1. PICK u \in ShThread : shpc[u] \in {"opened", "closing"} /\ call[u].fd = d
        BY <2>0, <2>2 DEF ShFiles
      <3>2. u # t
        BY <3>1
      <3> QED
        BY <3>1, <3>2
    <2> QED
      BY <2>0, <2>1, <2>2 DEF ShFiles
  <1>4. ShQuick'
    <2> SUFFICES ASSUME NEW u \in ShThread, shLock' = u, shpc'[u] = "kernel"
                 PROVE  call'[u].fd \in Fd
                        /\ (call'[u].fn # "put" => call'[u].fn \in Timed \cup Gets /\ ~Blocked(call[u])')
      BY DEF ShQuick
    <2>1. Blocked(call[u])' <=> Blocked(call'[u])
      BY DEF Blocked
    <2> QED
      BY <2>1 DEF ShUp, ShQuick
  <1> QED
    BY <1>1, <1>2, <1>3, <1>4 DEF ShUp

\* A thread takes an event up, attached or detached.
LEMMA ShEnters == ASSUME ShInv, shRunning = TRUE, NEW t \in ShThread, EnterNode(t) PROVE ShUp'
  <1>0. ShUp /\ ShTypes /\ ShHas /\ ShNobody \notin ShThread
    BY IOShimAssumption DEF ShInv, ShUp
  <1>1. /\ shpc[t] = "out" /\ shpc' = [shpc EXCEPT ![t] = "node"]
        /\ eminfo' = eminfo /\ regular' = regular /\ object' = object /\ ready' = ready /\ resident' = resident
        /\ room' = room /\ call' = call
    BY DEF EnterNode, kernelvars
  <1>2. shLock # t /\ ~shDetached[t]
    BY <1>0, <1>1 DEF ShHas
  <1>3. /\ shpc'[t] = "node" /\ \A u \in ShThread : u # t => shpc'[u] = shpc[u]
    BY <1>0, <1>1 DEF ShTypes
  <1>4. /\ (shDetached'[t] <=> shLock' # t)
        /\ \A u \in ShThread : u # t => shDetached'[u] = shDetached[u] /\ (shLock' = u <=> shLock = u)
    <2>1. CASE shLock = ShNobody /\ shLock' = t /\ shDetached' = shDetached
      BY <1>0, <1>2, <2>1
    <2>2. CASE shDetached' = [shDetached EXCEPT ![t] = TRUE] /\ shLock' = shLock
      BY <1>0, <1>2, <2>2 DEF ShTypes
    <2> QED
      BY <2>1, <2>2 DEF EnterNode
  <1>5. call[t].fd \in Fd => object[call[t].fd] # "none" /\ \A u \in ShThread : u # t => call[u].fd # call[t].fd
    BY <1>0 DEF ShUp, ShCalls
  <1> QED
    BY <1>0, <1>1, <1>3, <1>4, <1>5, ShMoves

\* It leaves the node function.
LEMMA ShLeaves == ASSUME ShInv, shRunning = TRUE, NEW t \in ShThread, LeaveNode(t) PROVE ShUp'
  <1>0. ShUp /\ ShTypes /\ ShHas /\ ShNobody \notin ShThread
    BY IOShimAssumption DEF ShInv, ShUp
  <1>1. /\ shpc[t] = "node" /\ shpc' = [shpc EXCEPT ![t] = "out"]
        /\ shLock' = (IF shLock = t THEN ShNobody ELSE shLock)
        /\ shDetached' = [shDetached EXCEPT ![t] = FALSE]
        /\ eminfo' = eminfo /\ regular' = regular /\ object' = object /\ ready' = ready /\ resident' = resident
        /\ room' = room /\ call' = call
    BY DEF LeaveNode, kernelvars
  <1>3. /\ shpc'[t] = "out" /\ \A u \in ShThread : u # t => shpc'[u] = shpc[u]
    BY <1>0, <1>1 DEF ShTypes
  <1>4. /\ ~shDetached'[t] /\ shLock' # t
        /\ \A u \in ShThread : u # t => shDetached'[u] = shDetached[u] /\ (shLock' = u <=> shLock = u)
    BY <1>0, <1>1 DEF ShTypes
  <1>5. call[t].fd \in Fd => object[call[t].fd] # "none" /\ \A u \in ShThread : u # t => call[u].fd # call[t].fd
    BY <1>0 DEF ShUp, ShCalls
  <1> QED
    BY <1>0, <1>1, <1>3, <1>4, <1>5, ShMoves

\* A call that keeps the lock, or needs none.
LEMMA ShDirect ==
  ASSUME ShInv, shRunning = TRUE, NEW t \in ShThread, NEW c, shpc[t] = "node", Direct(t, c),
         c.slow = FALSE, c.fd \in Fd => object[c.fd] # "none" /\ Mine(t, c.fd),
         shDetached[t] \/ (c.fd \in Fd /\ (c.fn # "put" => c.fn \in Timed \cup Gets /\ ~Blocked(c)))
  PROVE  ShUp'
  <1>0. ShUp /\ ShTypes /\ ShHas
    BY DEF ShInv, ShUp
  <1>1. /\ shpc' = [shpc EXCEPT ![t] = "kernel"] /\ call' = [call EXCEPT ![t] = c]
        /\ eminfo' = eminfo /\ regular' = regular /\ object' = object /\ ready' = ready /\ resident' = resident
        /\ room' = room /\ shLock' = shLock /\ shDetached' = shDetached
    BY DEF Direct, kernelvars
  <1>2. /\ shpc'[t] = "kernel" /\ call'[t] = c
        /\ \A u \in ShThread : u # t => shpc'[u] = shpc[u] /\ call'[u] = call[u]
    BY <1>0, <1>1 DEF ShTypes
  <1>3. shDetached[t] <=> shLock # t
    BY <1>0 DEF ShHas
  <1>4. c.fd \in Fd => object[c.fd] # "none" /\ \A u \in ShThread : u # t => call[u].fd # c.fd
    BY DEF Mine
  <1>5. Blocked(call'[t]) <=> Blocked(c)
    BY <1>2
  <1>6. shLock' = t => call'[t].fd \in Fd /\ (call'[t].fn # "put" => call'[t].fn \in Timed \cup Gets /\ ~Blocked(call'[t]))
    BY <1>1, <1>2, <1>3, <1>5
  <1>7. shDetached'[t] <=> shLock' # t
    BY <1>1, <1>3
  <1>8. call'[t].fd \in Fd => object[call'[t].fd] # "none" /\ \A u \in ShThread : u # t => call[u].fd # call'[t].fd
    BY <1>2, <1>4
  <1> QED
    BY <1>0, <1>1, <1>2, <1>6, <1>7, <1>8, ShMoves

\* A call that gives the lock up.
LEMMA ShPunt ==
  ASSUME ShInv, shRunning = TRUE, NEW t \in ShThread, NEW c, shpc[t] = "node", Punt(t, c),
         ~shDetached[t], c.fd \in Fd => object[c.fd] # "none" /\ Mine(t, c.fd)
  PROVE  ShUp'
  <1>0. ShUp /\ ShTypes /\ ShHas /\ ShNobody \notin ShThread
    BY IOShimAssumption DEF ShInv, ShUp
  <1>1. PICK v : /\ v.fd = c.fd /\ v.slow = TRUE /\ ~v.prev
                 /\ call' = [call EXCEPT ![t] = v]
    <2>1. PICK b \in BOOLEAN : call' = [call EXCEPT ![t] = Slow(c, b, shDetached[t])]
      BY DEF Punt
    <2>2. PICK w : w = shDetached[t]
      OBVIOUS
    <2>3. Slow(c, b, w).fd = c.fd /\ Slow(c, b, w).slow = TRUE /\ Slow(c, b, w).prev = w
      BY DEF Slow
    <2> QED
      BY <2>1, <2>2, <2>3
  <1>2. /\ shpc' = [shpc EXCEPT ![t] = "kernel"] /\ shDetached' = [shDetached EXCEPT ![t] = TRUE]
        /\ eminfo' = eminfo /\ regular' = regular /\ object' = object /\ ready' = ready /\ resident' = resident
        /\ room' = room /\ shLock' = ShNobody
    BY DEF Punt, kernelvars
  <1>3. /\ shpc'[t] = "kernel" /\ call'[t] = v /\ shDetached'[t]
        /\ \A u \in ShThread : u # t => shpc'[u] = shpc[u] /\ call'[u] = call[u] /\ shDetached'[u] = shDetached[u]
    BY <1>0, <1>1, <1>2 DEF ShTypes
  <1>4. shLock = t
    BY <1>0 DEF ShHas
  <1>5. v.fd \in Fd => object[v.fd] # "none" /\ \A u \in ShThread : u # t => call[u].fd # v.fd
    BY <1>1 DEF Mine
  <1>6. /\ shLock' # t /\ \A u \in ShThread : u # t => (shLock' = u <=> shLock = u)
        /\ call'[t].slow = TRUE /\ ~call'[t].prev
        /\ call'[t].fd \in Fd => object[call'[t].fd] # "none" /\ \A u \in ShThread : u # t => call[u].fd # call'[t].fd
    BY <1>0, <1>1, <1>2, <1>3, <1>4, <1>5
  <1> QED
    BY <1>0, <1>2, <1>3, <1>6, ShMoves

\* ~UnlockRunTime.
LEMMA ShRelocks == ASSUME ShInv, shRunning = TRUE, NEW t \in ShThread, Relock(t) PROVE ShUp'
  <1>0. ShUp /\ ShTypes /\ ShHas /\ ShNobody \notin ShThread /\ ShNobody \notin Fd /\ eminfo = TRUE
    BY IOShimAssumption DEF ShInv, ShUp
  <1>1. /\ shpc[t] = "relock" /\ shLock = ShNobody /\ call' = [call EXCEPT ![t] = NoCall]
        /\ eminfo' = eminfo /\ regular' = regular /\ object' = object /\ ready' = ready /\ resident' = resident
        /\ room' = room
    BY DEF Relock, kernelvars
  <1>2. ~call[t].prev
    BY <1>0, <1>1 DEF ShHas
  <1>3. PICK w : ~w /\ shDetached' = [shDetached EXCEPT ![t] = w]
    BY <1>2 DEF Relock
  <1>4. \/ shpc' = [shpc EXCEPT ![t] = "node"] /\ shLock' = t
        \/ shpc' = [shpc EXCEPT ![t] = "wtr"] /\ shLock' = shLock
    BY <1>0 DEF Relock
  <1>5. NoCall.fd = ShNobody
    BY DEF NoCall
  <1>6. /\ call'[t] = NoCall /\ ~shDetached'[t]
        /\ \A u \in ShThread : u # t => /\ shpc'[u] = shpc[u] /\ call'[u] = call[u]
                                         /\ shDetached'[u] = shDetached[u] /\ (shLock' = u <=> shLock = u)
    BY <1>0, <1>1, <1>3, <1>4 DEF ShTypes
  <1>7. \/ shpc'[t] = "node" /\ shLock' = t
        \/ shpc'[t] = "wtr" /\ shLock' # t
    BY <1>0, <1>1, <1>4 DEF ShTypes
  <1> QED
    BY <1>0, <1>1, <1>5, <1>6, <1>7, ShMoves

\* wait_to_run ends.
LEMMA ShWoken == ASSUME ShInv, shRunning = TRUE, NEW t \in ShThread, WokenToRun(t) PROVE ShUp'
  <1>0. ShUp /\ ShTypes /\ ShHas /\ ShNobody \notin ShThread
    BY IOShimAssumption DEF ShInv, ShUp
  <1>1. /\ shpc[t] = "wtr" /\ shpc' = [shpc EXCEPT ![t] = "node"] /\ shLock = ShNobody /\ shLock' = t
        /\ eminfo' = eminfo /\ regular' = regular /\ object' = object /\ ready' = ready /\ resident' = resident
        /\ room' = room /\ call' = call /\ shDetached' = shDetached
    BY DEF WokenToRun, kernelvars
  <1>2. ~shDetached[t]
    BY <1>0, <1>1 DEF ShHas
  <1>3. /\ shpc'[t] = "node" /\ \A u \in ShThread : u # t => shpc'[u] = shpc[u] /\ (shLock' = u <=> shLock = u)
    BY <1>0, <1>1 DEF ShTypes
  <1>5. call[t].fd \in Fd => object[call[t].fd] # "none" /\ \A u \in ShThread : u # t => call[u].fd # call[t].fd
    BY <1>0 DEF ShUp, ShCalls
  <1> QED
    BY <1>0, <1>1, <1>2, <1>3, <1>5, ShMoves

\* The holder of the lock is not kept in the kernel by what others do there.
LEMMA ShQuickStays ==
  ASSUME ShUp, NEW t \in ShThread, shpc'[t] # "kernel",
         \A u \in ShThread : u # t => shpc'[u] = shpc[u] /\ call'[u] = call[u] /\ (shLock' = u <=> shLock = u),
         \A d \in Fd : (\E u \in ShThread : u # t /\ call[u].fd = d) =>
           object'[d] = object[d] /\ (d \in ready => d \in ready') /\ (d \in resident => d \in resident')
  PROVE  ShQuick'
  <1> SUFFICES ASSUME NEW u \in ShThread, shLock' = u, shpc'[u] = "kernel"
               PROVE  call'[u].fd \in Fd
                      /\ (call'[u].fn # "put" => call'[u].fn \in Timed \cup Gets /\ ~Blocked(call[u])')
    BY DEF ShQuick
  <1>1. u # t /\ call'[u] = call[u] /\ shLock = u /\ shpc[u] = "kernel"
    OBVIOUS
  <1>2. PICK c : c = call[u]
    OBVIOUS
  <1>3. c.fd \in Fd /\ (c.fn # "put" => c.fn \in Timed \cup Gets /\ ~Blocked(c))
    BY <1>1, <1>2 DEF ShUp, ShQuick
  <1>4. object'[c.fd] = object[c.fd] /\ (c.fd \in ready => c.fd \in ready') /\ (c.fd \in resident => c.fd \in resident')
    BY <1>1, <1>2, <1>3
  <1>5. c.fn # "put" => ~Blocked(c)'
    BY <1>3, <1>4, ShStays
  <1>6. Blocked(call[u])' <=> Blocked(c)'
    BY <1>1, <1>2 DEF Blocked
  <1> QED
    BY <1>1, <1>2, <1>3, <1>5, <1>6

\* A call ends: what it took from its descriptor concerns no other call.
LEMMA ShReturns == ASSUME ShInv, shRunning = TRUE, NEW t \in ShThread, KernelReturns(t) PROVE ShUp'
  <1>0. ShUp /\ ShTypes /\ ShHas /\ ShCalls /\ ShFiles /\ ShNobody \notin Fd
    BY IOShimAssumption DEF ShInv, ShUp
  <1>1. /\ shpc[t] = "kernel" /\ Effect(call[t])
        /\ eminfo' = eminfo /\ regular' = regular /\ shLock' = shLock /\ shDetached' = shDetached
    BY DEF KernelReturns
  <1>2. \/ shpc' = [shpc EXCEPT ![t] = "relock"] /\ call' = call /\ call[t].slow = TRUE
        \/ shpc' = [shpc EXCEPT ![t] = "node"] /\ call' = [call EXCEPT ![t] = NoCall]
    BY DEF KernelReturns
  <1>3. /\ \A u \in ShThread : u # t => shpc'[u] = shpc[u] /\ call'[u] = call[u]
        /\ \/ shpc'[t] = "relock" /\ call'[t] = call[t] /\ call[t].slow = TRUE
           \/ shpc'[t] = "node" /\ call'[t] = NoCall
    BY <1>0, <1>2 DEF ShTypes
  <1>4. NoCall.fd = ShNobody
    BY DEF NoCall
  <1>5. ShHas'
    <2>1. /\ (shDetached[t] <=> shLock # t)
          /\ call[t].slow = TRUE => shDetached[t] /\ ~call[t].prev
      BY <1>0, <1>1 DEF ShHas
    <2> QED
      BY <1>0, <1>1, <1>3, <2>1, ShHasMoves
  <1>6. \A d \in Fd : /\ object[d] # "none" => object'[d] = object[d]
                      /\ object'[d] = "file" <=> object[d] = "file"
    <2>1. object' = object \/ \E d \in Fd : object[d] = "none" /\ object' = [object EXCEPT ![d] = "socket"]
      BY <1>1 DEF Effect
    <2> QED
      BY <1>0, <2>1 DEF ShTypes
  <1>7. \A d \in Fd : d # call[t].fd => (d \in ready => d \in ready') /\ (d \in resident => d \in resident')
    <2>1. ready' = ready \/ ready' = ready \ {call[t].fd}
      BY <1>1 DEF Effect
    <2>2. resident' = resident \/ resident' = resident \ {call[t].fd}
      BY <1>1 DEF Effect
    <2> QED
      BY <2>1, <2>2
  <1>8. ShCalls'
    BY <1>0, <1>3, <1>4, <1>6 DEF ShCalls
  <1>9. ShFiles'
    <2>1. \A u \in ShThread : shpc'[u] \in {"opened", "closing"} => u # t
      BY <1>3
    <2>2. ASSUME NEW d \in Fd, object'[d] = "file", d \notin regular
          PROVE  \E u \in ShThread : shpc'[u] \in {"opened", "closing"} /\ call'[u].fd = d
      <3>1. PICK u \in ShThread : shpc[u] \in {"opened", "closing"} /\ call[u].fd = d
        BY <1>0, <1>6, <2>2 DEF ShFiles
      <3>2. u # t
        BY <1>1, <3>1
      <3> QED
        BY <1>3, <3>1, <3>2
    <2>3. /\ \A d \in regular : d \in Fd /\ object'[d] = "file"
          /\ \A u \in ShThread : shpc'[u] = "closing" => call'[u].fd \in Fd /\ call'[u].fd \notin regular
          /\ \A u \in ShThread : shpc'[u] = "opened" => call'[u].fd \in Fd /\ object'[call'[u].fd] = "file"
      BY <1>0, <1>3, <1>6, <2>1 DEF ShFiles
    <2> QED
      BY <1>1, <2>2, <2>3 DEF ShFiles
  <1>10. ShQuick'
    <2>1. \A d \in Fd : (\E u \in ShThread : u # t /\ call[u].fd = d) =>
           object'[d] = object[d] /\ (d \in ready => d \in ready') /\ (d \in resident => d \in resident')
      BY <1>0, <1>6, <1>7 DEF ShCalls
    <2> QED
      BY <1>0, <1>1, <1>3, <2>1, ShQuickStays
  <1> QED
    BY <1>0, <1>1, <1>5, <1>8, <1>9, <1>10 DEF ShUp

\* open has a descriptor that no call has.
LEMMA ShOpens == ASSUME ShInv, shRunning = TRUE, NEW t \in ShThread, OpenKernel(t) PROVE ShUp'
  <1>0. ShUp /\ ShTypes /\ ShHas /\ ShCalls /\ ShFiles /\ eminfo = TRUE
    BY DEF ShInv, ShUp
  <1>1. PICK d \in Fd : /\ object[d] = "none" /\ object' = [object EXCEPT ![d] = "file"]
                       /\ resident' \in {resident \ {d}, resident \cup {d}}
                       /\ call' = [call EXCEPT ![t] = To("open", d, 0, FALSE)]
    BY <1>0 DEF OpenKernel
  <1>2. /\ shpc[t] = "node" /\ shpc' = [shpc EXCEPT ![t] = "opened"]
        /\ eminfo' = eminfo /\ regular' = regular /\ shLock' = shLock /\ shDetached' = shDetached
        /\ ready' = ready
    BY <1>0 DEF OpenKernel
  <1>30. To("open", d, 0, FALSE).fd = d
    BY DEF To
  <1>3. PICK c : c = To("open", d, 0, FALSE)
    OBVIOUS
  <1>31. c.fd = d
    BY <1>3, <1>30
  <1>4. /\ \A u \in ShThread : u # t => shpc'[u] = shpc[u] /\ call'[u] = call[u]
        /\ shpc'[t] = "opened" /\ call'[t] = c
        /\ object'[d] = "file" /\ \A b \in Fd : b # d => object'[b] = object[b]
    BY <1>0, <1>1, <1>2, <1>3 DEF ShTypes
  <1>5. \A u \in ShThread : call[u].fd # d
    BY <1>0, <1>1 DEF ShCalls
  <1>6. ShHas'
    <2>1. shDetached[t] <=> shLock # t
      BY <1>0, <1>2 DEF ShHas
    <2> QED
      BY <1>0, <1>2, <1>4, <2>1, ShHasMoves
  <1>7. ShCalls'
    <2>1. \A u \in ShThread : u # t => call'[u].fd # d
      BY <1>4, <1>5
    <2>2. \A u, v \in ShThread : u # t /\ v # t /\ call'[u].fd \in Fd /\ call'[u].fd = call'[v].fd => u = v
      BY <1>0, <1>4 DEF ShCalls
    <2>3. \A u \in ShThread : u # t /\ call'[u].fd \in Fd => object'[call'[u].fd] # "none"
      BY <1>0, <1>4, <1>5 DEF ShCalls
    <2>4. call'[t].fd = d /\ object'[d] # "none"
      BY <1>31, <1>4
    <2> QED
      BY <2>1, <2>2, <2>3, <2>4 DEF ShCalls
  <1>8. ShFiles'
    <2>1. ASSUME NEW b \in Fd, object'[b] = "file", b \notin regular
          PROVE  \E u \in ShThread : shpc'[u] \in {"opened", "closing"} /\ call'[u].fd = b
      <3>1. CASE b = d
        BY <1>31, <1>4, <3>1
      <3>2. CASE b # d
        <4>1. PICK u \in ShThread : shpc[u] \in {"opened", "closing"} /\ call[u].fd = b
          BY <1>0, <1>4, <2>1, <3>2 DEF ShFiles
        <4>2. u # t
          BY <1>2, <4>1
        <4> QED
          BY <1>4, <4>1, <4>2
      <3> QED
        BY <3>1, <3>2
    <2>2. /\ \A b \in regular : b \in Fd /\ object'[b] = "file"
          /\ \A u \in ShThread : shpc'[u] = "closing" => call'[u].fd \in Fd /\ call'[u].fd \notin regular
          /\ \A u \in ShThread : shpc'[u] = "opened" => call'[u].fd \in Fd /\ object'[call'[u].fd] = "file"
      <3>1. d \notin regular
        BY <1>0, <1>1 DEF ShFiles
      <3>2. \A b \in regular : b \in Fd /\ object'[b] = "file"
        BY <1>0, <1>4, <3>1 DEF ShFiles
      <3>3. \A u \in ShThread : shpc'[u] = "closing" => call'[u].fd \in Fd /\ call'[u].fd \notin regular
        BY <1>0, <1>4 DEF ShFiles
      <3>4. call'[t].fd \in Fd /\ object'[call'[t].fd] = "file"
        BY <1>31, <1>4
      <3>5. \A u \in ShThread : u # t /\ shpc[u] = "opened" => call'[u].fd \in Fd /\ object'[call'[u].fd] = "file"
        BY <1>0, <1>4, <1>5 DEF ShFiles
      <3> QED
        BY <1>4, <3>2, <3>3, <3>4, <3>5
    <2> QED
      BY <1>2, <2>1, <2>2 DEF ShFiles
  <1>9. ShQuick'
    <2>1. \A b \in Fd : (\E u \in ShThread : u # t /\ call[u].fd = b) =>
           object'[b] = object[b] /\ (b \in ready => b \in ready') /\ (b \in resident => b \in resident')
      BY <1>1, <1>2, <1>4, <1>5
    <2> QED
      BY <1>0, <1>2, <1>4, <2>1, ShQuickStays
  <1> QED
    BY <1>0, <1>2, <1>6, <1>7, <1>8, <1>9 DEF ShUp

\* It is regular from here on.
LEMMA ShMarksOpen == ASSUME ShInv, shRunning = TRUE, NEW t \in ShThread, OpenMark(t) PROVE ShUp'
  <1>0. ShUp /\ ShTypes /\ ShHas /\ ShCalls /\ ShFiles /\ eminfo = TRUE /\ ShNobody \notin Fd
    BY IOShimAssumption DEF ShInv, ShUp
  <1>1. /\ shpc[t] = "opened" /\ shpc' = [shpc EXCEPT ![t] = "node"]
        /\ regular' = regular \cup {call[t].fd} /\ call' = [call EXCEPT ![t] = NoCall]
        /\ eminfo' = eminfo /\ shLock' = shLock /\ shDetached' = shDetached
        /\ object' = object /\ ready' = ready /\ resident' = resident
    BY DEF OpenMark, kernelvars
  <1>2. PICK d \in Fd : d = call[t].fd /\ object[d] = "file"
    BY <1>0, <1>1 DEF ShFiles
  <1>3. NoCall.fd = ShNobody
    BY DEF NoCall
  <1>4. /\ \A u \in ShThread : u # t => shpc'[u] = shpc[u] /\ call'[u] = call[u]
        /\ shpc'[t] = "node" /\ call'[t] = NoCall
    BY <1>0, <1>1 DEF ShTypes
  <1>5. \A u \in ShThread : u # t => call[u].fd # d
    BY <1>0, <1>2 DEF ShCalls
  <1>6. ShHas'
    <2>1. shDetached[t] <=> shLock # t
      BY <1>0, <1>1 DEF ShHas
    <2> QED
      BY <1>0, <1>1, <1>4, <2>1, ShHasMoves
  <1>7. ShCalls'
    BY <1>0, <1>1, <1>3, <1>4 DEF ShCalls
  <1>8. ShFiles'
    <2>1. ASSUME NEW b \in Fd, object[b] = "file", b \notin regular'
          PROVE  \E u \in ShThread : shpc'[u] \in {"opened", "closing"} /\ call'[u].fd = b
      <3>1. b # d /\ b \notin regular
        BY <1>1, <1>2, <2>1
      <3>2. PICK u \in ShThread : shpc[u] \in {"opened", "closing"} /\ call[u].fd = b
        BY <1>0, <2>1, <3>1 DEF ShFiles
      <3>3. u # t
        BY <1>2, <3>1, <3>2
      <3> QED
        BY <1>4, <3>2, <3>3
    <2>2. /\ \A b \in regular' : b \in Fd /\ object[b] = "file"
          /\ \A u \in ShThread : shpc'[u] = "closing" => call'[u].fd \in Fd /\ call'[u].fd \notin regular'
          /\ \A u \in ShThread : shpc'[u] = "opened" => call'[u].fd \in Fd /\ object[call'[u].fd] = "file"
      BY <1>0, <1>1, <1>2, <1>4, <1>5 DEF ShFiles
    <2> QED
      BY <1>1, <2>1, <2>2 DEF ShFiles
  <1>9. ShQuick'
    BY <1>0, <1>1, <1>4, ShQuickStays
  <1> QED
    BY <1>0, <1>1, <1>6, <1>7, <1>8, <1>9 DEF ShUp

\* close forgets that it is regular.
LEMMA ShCloses == ASSUME ShInv, shRunning = TRUE, NEW t \in ShThread, NEW d \in Fd, Close(t, d) PROVE ShUp'
  <1>0. ShUp /\ ShTypes /\ ShHas /\ ShCalls /\ ShFiles /\ eminfo = TRUE
    BY DEF ShInv, ShUp
  <1>1. /\ shpc[t] = "node" /\ object[d] # "none" /\ \A u \in ShThread : u # t => call[u].fd # d
        /\ regular' = regular \ {d} /\ shpc' = [shpc EXCEPT ![t] = "closing"]
        /\ call' = [call EXCEPT ![t] = To("close", d, 0, FALSE)]
        /\ eminfo' = eminfo /\ shLock' = shLock /\ shDetached' = shDetached
        /\ object' = object /\ ready' = ready /\ resident' = resident
    BY <1>0 DEF Close, Mine, kernelvars
  <1>30. To("close", d, 0, FALSE).fd = d
    BY DEF To
  <1>3. PICK c : c = To("close", d, 0, FALSE)
    OBVIOUS
  <1>31. c.fd = d
    BY <1>3, <1>30
  <1>4. /\ \A u \in ShThread : u # t => shpc'[u] = shpc[u] /\ call'[u] = call[u]
        /\ shpc'[t] = "closing" /\ call'[t] = c
    BY <1>0, <1>1, <1>3 DEF ShTypes
  <1>6. ShHas'
    <2>1. shDetached[t] <=> shLock # t
      BY <1>0, <1>1 DEF ShHas
    <2> QED
      BY <1>0, <1>1, <1>4, <2>1, ShHasMoves
  <1>7. ShCalls'
    <2>1. \A u \in ShThread : u # t => call'[u].fd # d
      BY <1>1, <1>4
    <2>2. \A u, v \in ShThread : u # t /\ v # t /\ call'[u].fd \in Fd /\ call'[u].fd = call'[v].fd => u = v
      BY <1>0, <1>4 DEF ShCalls
    <2>3. \A u \in ShThread : u # t /\ call'[u].fd \in Fd => object'[call'[u].fd] # "none"
      BY <1>0, <1>1, <1>4 DEF ShCalls
    <2>4. call'[t].fd = d /\ object'[d] # "none"
      BY <1>1, <1>31, <1>4
    <2> QED
      BY <2>1, <2>2, <2>3, <2>4 DEF ShCalls
  <1>8. ShFiles'
    <2>1. ASSUME NEW b \in Fd, object[b] = "file", b \notin regular'
          PROVE  \E u \in ShThread : shpc'[u] \in {"opened", "closing"} /\ call'[u].fd = b
      <3>1. CASE b = d
        BY <1>31, <1>4, <3>1
      <3>2. CASE b # d
        <4>1. PICK u \in ShThread : shpc[u] \in {"opened", "closing"} /\ call[u].fd = b
          BY <1>0, <1>1, <2>1, <3>2 DEF ShFiles
        <4>2. u # t
          BY <1>1, <4>1
        <4> QED
          BY <1>4, <4>1, <4>2
      <3> QED
        BY <3>1, <3>2
    <2>2. /\ \A b \in regular' : b \in Fd /\ object[b] = "file"
          /\ \A u \in ShThread : shpc'[u] = "closing" => call'[u].fd \in Fd /\ call'[u].fd \notin regular'
          /\ \A u \in ShThread : shpc'[u] = "opened" => call'[u].fd \in Fd /\ object[call'[u].fd] = "file"
      <3>1. \A b \in regular' : b \in regular /\ b # d
        BY <1>1
      <3>2. \A b \in regular' : b \in Fd /\ object[b] = "file"
        BY <1>0, <1>1, <3>1 DEF ShFiles
      <3>3. call'[t].fd \in Fd /\ call'[t].fd \notin regular'
        BY <1>31, <1>4, <3>1
      <3>4. \A u \in ShThread : u # t /\ shpc[u] = "closing" => call'[u].fd \in Fd /\ call'[u].fd \notin regular'
        BY <1>0, <1>4, <3>1 DEF ShFiles
      <3>5. \A u \in ShThread : u # t /\ shpc[u] = "opened" => call'[u].fd \in Fd /\ object[call'[u].fd] = "file"
        BY <1>0, <1>1, <1>4 DEF ShFiles
      <3>6. \A u \in ShThread : u # t => shpc'[u] = shpc[u]
        BY <1>4
      <3>7. shpc'[t] # "opened"
        BY <1>4
      <3> QED
        BY <3>2, <3>3, <3>4, <3>5, <3>6, <3>7
    <2> QED
      BY <1>1, <2>1, <2>2 DEF ShFiles
  <1>9. ShQuick'
    BY <1>0, <1>1, <1>4, ShQuickStays
  <1> QED
    BY <1>0, <1>1, <1>6, <1>7, <1>8, <1>9 DEF ShUp

\* And the kernel closes it.
LEMMA ShClosed == ASSUME ShInv, shRunning = TRUE, NEW t \in ShThread, CloseKernel(t) PROVE ShUp'
  <1>0. ShUp /\ ShTypes /\ ShHas /\ ShCalls /\ ShFiles /\ eminfo = TRUE /\ ShNobody \notin Fd
    BY IOShimAssumption DEF ShInv, ShUp
  <1>1. /\ shpc[t] = "closing" /\ shpc' = [shpc EXCEPT ![t] = "node"]
        /\ call' = [call EXCEPT ![t] = NoCall]
        /\ object' = [object EXCEPT ![call[t].fd] = "none"]
        /\ ready' = ready \ {call[t].fd} /\ resident' = resident \ {call[t].fd}
        /\ eminfo' = eminfo /\ shLock' = shLock /\ shDetached' = shDetached /\ regular' = regular
    BY DEF CloseKernel, ClosedObject
  <1>2. PICK d \in Fd : d = call[t].fd /\ d \notin regular
    BY <1>0, <1>1 DEF ShFiles
  <1>3. NoCall.fd = ShNobody
    BY DEF NoCall
  <1>4. /\ \A u \in ShThread : u # t => shpc'[u] = shpc[u] /\ call'[u] = call[u]
        /\ shpc'[t] = "node" /\ call'[t] = NoCall
        /\ object'[d] = "none" /\ \A b \in Fd : b # d => object'[b] = object[b]
    BY <1>0, <1>1, <1>2 DEF ShTypes
  <1>5. \A u \in ShThread : u # t => call[u].fd # d
    BY <1>0, <1>2 DEF ShCalls
  <1>6. ShHas'
    <2>1. shDetached[t] <=> shLock # t
      BY <1>0, <1>1 DEF ShHas
    <2> QED
      BY <1>0, <1>1, <1>4, <2>1, ShHasMoves
  <1>7. ShCalls'
    BY <1>0, <1>1, <1>3, <1>4, <1>5 DEF ShCalls
  <1>8. ShFiles'
    <2>1. ASSUME NEW b \in Fd, object'[b] = "file", b \notin regular
          PROVE  \E u \in ShThread : shpc'[u] \in {"opened", "closing"} /\ call'[u].fd = b
      <3>1. b # d /\ object[b] = "file"
        BY <1>4, <2>1
      <3>2. PICK u \in ShThread : shpc[u] \in {"opened", "closing"} /\ call[u].fd = b
        BY <1>0, <2>1, <3>1 DEF ShFiles
      <3>3. u # t
        BY <1>2, <3>1, <3>2
      <3> QED
        BY <1>4, <3>2, <3>3
    <2>2. /\ \A b \in regular : b \in Fd /\ object'[b] = "file"
          /\ \A u \in ShThread : shpc'[u] = "closing" => call'[u].fd \in Fd /\ call'[u].fd \notin regular
          /\ \A u \in ShThread : shpc'[u] = "opened" => call'[u].fd \in Fd /\ object'[call'[u].fd] = "file"
      BY <1>0, <1>2, <1>4, <1>5 DEF ShFiles
    <2> QED
      BY <1>1, <2>1, <2>2 DEF ShFiles
  <1>9. ShQuick'
    <2>1. \A b \in Fd : (\E u \in ShThread : u # t /\ call[u].fd = b) =>
           object'[b] = object[b] /\ (b \in ready => b \in ready') /\ (b \in resident => b \in resident')
      BY <1>1, <1>2, <1>4, <1>5
    <2> QED
      BY <1>0, <1>1, <1>4, <2>1, ShQuickStays
  <1> QED
    BY <1>0, <1>1, <1>6, <1>7, <1>8, <1>9 DEF ShUp

\* A peer sends or reads, or a socket is made.
LEMMA ShWorld ==
  ASSUME ShInv, shRunning = TRUE, Peer \/ \E t \in ShThread : Socket(t)
  PROVE  ShUp'
  <1>0. ShUp /\ ShTypes /\ ShHas /\ ShCalls /\ ShFiles /\ ShQuick
    BY DEF ShInv, ShUp
  <1>1. /\ eminfo' = eminfo /\ shLock' = shLock /\ shpc' = shpc /\ shDetached' = shDetached /\ call' = call
        /\ regular' = regular /\ resident' = resident /\ \A d \in ready : d \in ready'
    BY DEF Peer, Socket
  <1>2. \A d \in Fd : /\ object[d] # "none" => object'[d] = object[d]
                      /\ object'[d] = "file" <=> object[d] = "file"
    <2>1. object' = object \/ \E d \in Fd : object[d] = "none" /\ object' = [object EXCEPT ![d] = "socket"]
      BY DEF Peer, Socket
    <2> QED
      BY <1>0, <2>1 DEF ShTypes
  <1>3. ShHas'
    BY <1>0, <1>1 DEF ShHas
  <1>4. ShCalls'
    BY <1>0, <1>1, <1>2 DEF ShCalls
  <1>5. ShFiles'
    BY <1>0, <1>1, <1>2 DEF ShFiles
  <1>6. ShQuick'
    <2> SUFFICES ASSUME NEW u \in ShThread, shLock' = u, shpc'[u] = "kernel"
                 PROVE  call'[u].fd \in Fd
                        /\ (call'[u].fn # "put" => call'[u].fn \in Timed \cup Gets /\ ~Blocked(call[u])')
      BY DEF ShQuick
    <2>1. PICK c : c = call[u]
      OBVIOUS
    <2>2. c.fd \in Fd /\ (c.fn # "put" => c.fn \in Timed \cup Gets /\ ~Blocked(c))
      BY <1>0, <1>1, <2>1 DEF ShQuick
    <2>3. object'[c.fd] = object[c.fd]
      BY <1>0, <1>2, <2>1, <2>2 DEF ShCalls
    <2>4. c.fn # "put" => ~Blocked(c)'
      BY <1>1, <2>2, <2>3, ShStays
    <2>5. Blocked(call[u])' <=> Blocked(c)'
      BY <1>1, <2>1 DEF Blocked
    <2> QED
      BY <1>1, <2>1, <2>2, <2>4, <2>5
  <1> QED
    BY <1>0, <1>1, <1>3, <1>4, <1>5, <1>6 DEF ShUp

\* A call of which poll or mincore says that it will not block.
ShFree(c) == c.fd \in Fd /\ (c.fn # "put" => c.fn \in Timed \cup Gets /\ ~Blocked(c))

\* What a call comes to: straight to the kernel if its thread is detached or it will not
\* block, or without the lock.
ShGoes(t, c) ==
  /\ shpc[t] = "node" /\ (c.fd \in Fd => Mine(t, c.fd))
  /\ \/ Direct(t, c) /\ (shDetached[t] \/ ShFree(c))
     \/ Punt(t, c) /\ ~shDetached[t]

\* Both of them keep the invariant.
LEMMA ShGoesUp ==
  ASSUME ShInv, shRunning = TRUE, NEW t \in ShThread, NEW c, ShGoes(t, c),
         c.slow = FALSE, c.fd \in Fd => object[c.fd] # "none"
  PROVE  ShUp'
  <1>1. CASE Direct(t, c) /\ (shDetached[t] \/ ShFree(c))
    BY <1>1, ShDirect DEF ShGoes, ShFree
  <1>2. CASE Punt(t, c) /\ ~shDetached[t]
    BY <1>2, ShPunt DEF ShGoes
  <1> QED
    BY <1>1, <1>2 DEF ShGoes

\* The calls that last a while.
LEMMA ShPauses ==
  ASSUME ShInv, shRunning = TRUE, NEW t \in ShThread,
         Sleep(t) \/ Usleep(t) \/ Select(t) \/ GetHostByName(t) \/ EpollWait(t)
  PROVE  ShUp'
  <1>0. eminfo = TRUE /\ ShNobody \notin Fd
    BY IOShimAssumption DEF ShInv, ShUp
  <1>1. CASE Sleep(t) \/ Select(t) \/ GetHostByName(t) \/ EpollWait(t)
    <2>1. PICK c : c = To("pause", ShNobody, 0, TRUE)
      OBVIOUS
    <2>2. c.slow = FALSE /\ c.fd = ShNobody
      BY <2>1 DEF To
    <2>3. shpc[t] = "node" /\ ((Direct(t, c) /\ shDetached[t]) \/ (Punt(t, c) /\ ~shDetached[t]))
      BY <1>0, <1>1, <2>1 DEF Sleep, Select, GetHostByName, EpollWait, Shim, Through
    <2>4. ShGoes(t, c)
      BY <1>0, <2>2, <2>3 DEF ShGoes
    <2> QED
      BY <1>0, <2>2, <2>4, ShGoesUp
  <1>2. CASE Usleep(t)
    <2>1. PICK c : c = Own(To("pause", ShNobody, 0, TRUE))
      OBVIOUS
    <2>2. c.slow = FALSE /\ c.fd = ShNobody
      BY <2>1 DEF Own, To
    <2>3. shpc[t] = "node" /\ ((Direct(t, c) /\ shDetached[t]) \/ (Punt(t, c) /\ ~shDetached[t]))
      BY <1>0, <1>2, <2>1 DEF Usleep, Shim, Through
    <2>4. ShGoes(t, c)
      BY <1>0, <2>2, <2>3 DEF ShGoes
    <2> QED
      BY <1>0, <2>2, <2>4, ShGoesUp
  <1> QED
    BY <1>1, <1>2

\* accept, of a socket that has something.
LEMMA ShAccepts ==
  ASSUME ShInv, shRunning = TRUE, NEW t \in ShThread, NEW d \in Fd, Accept(t, d)
  PROVE  ShUp'
  <1>0. eminfo = TRUE
    BY DEF ShInv, ShUp
  <1>1. PICK c : c = To("accept", d, 0, TRUE)
    OBVIOUS
  <1>2. c.slow = FALSE /\ c.fd = d /\ c.fn = "accept"
    BY <1>1 DEF To
  <1>3. /\ object[d] = "socket" /\ shpc[t] = "node" /\ (c.fd \in Fd => Mine(t, c.fd))
        /\ (Direct(t, c) /\ (shDetached[t] \/ d \in ready)) \/ (Punt(t, c) /\ ~shDetached[t])
    BY <1>0, <1>1 DEF Accept, Shim, Through, PollIn
  <1>4. d \in ready => ShFree(c)
    BY <1>2, <1>3 DEF ShFree, Blocked, Timed, Gets
  <1>5. ShGoes(t, c)
    BY <1>3, <1>4 DEF ShGoes
  <1> QED
    BY <1>2, <1>3, <1>5, ShGoesUp

\* recv and recvfrom.
LEMMA ShReceives ==
  ASSUME ShInv, shRunning = TRUE, NEW t \in ShThread, NEW d \in Fd, NEW wait \in BOOLEAN,
         Recv(t, d, wait) \/ Recvfrom(t, d, wait)
  PROVE  ShUp'
  <1>0. eminfo = TRUE
    BY DEF ShInv, ShUp
  <1>1. PICK c : c = To("get", d, 0, wait)
    OBVIOUS
  <1>2. c.slow = FALSE /\ c.fd = d /\ c.fn = "get" /\ (c.wait <=> wait)
    BY <1>1 DEF To
  <1>3. /\ object[d] = "socket" /\ shpc[t] = "node" /\ (c.fd \in Fd => Mine(t, c.fd))
        /\ (Direct(t, c) /\ (shDetached[t] \/ d \in ready \/ ~wait)) \/ (Punt(t, c) /\ ~shDetached[t])
    BY <1>0, <1>1 DEF Recv, Recvfrom, Shim, Through, PollIn
  <1>4. d \in ready \/ ~wait => ShFree(c)
    BY <1>2, <1>3 DEF ShFree, Blocked, Timed, Gets
  <1>5. ShGoes(t, c)
    BY <1>3, <1>4 DEF ShGoes
  <1> QED
    BY <1>2, <1>3, <1>5, ShGoesUp

\* poll with or without a timeout.
LEMMA ShPolls ==
  ASSUME ShInv, shRunning = TRUE, NEW t \in ShThread, NEW d \in Fd, NEW wait \in BOOLEAN, Poll(t, d, wait)
  PROVE  ShUp'
  <1>0. eminfo = TRUE
    BY DEF ShInv, ShUp
  <1>1. PICK c : c = To("poll", d, 0, wait)
    OBVIOUS
  <1>2. c.slow = FALSE /\ c.fd = d /\ c.fn = "poll" /\ (c.wait <=> wait)
    BY <1>1 DEF To
  <1>3. /\ object[d] = "socket" /\ shpc[t] = "node" /\ (c.fd \in Fd => Mine(t, c.fd))
        /\ (Direct(t, c) /\ (shDetached[t] \/ d \in ready \/ ~wait)) \/ (Punt(t, c) /\ ~shDetached[t])
    BY <1>0, <1>1 DEF Poll, Shim, Through
  <1>4. d \in ready \/ ~wait => ShFree(c)
    BY <1>2, <1>3 DEF ShFree, Blocked, Timed, Gets
  <1>5. ShGoes(t, c)
    BY <1>3, <1>4 DEF ShGoes
  <1> QED
    BY <1>2, <1>3, <1>5, ShGoesUp

\* port_get.
LEMMA ShPorts ==
  ASSUME ShInv, shRunning = TRUE, NEW t \in ShThread, NEW d \in Fd, PortGet(t, d)
  PROVE  ShUp'
  <1>0. eminfo = TRUE
    BY DEF ShInv, ShUp
  <1>1. PICK c : c = Own(To("port", d, 0, TRUE))
    OBVIOUS
  <1>2. c.slow = FALSE /\ c.fd = d /\ c.fn = "port"
    BY <1>1 DEF Own, To
  <1>3. /\ object[d] = "socket" /\ shpc[t] = "node" /\ (c.fd \in Fd => Mine(t, c.fd))
        /\ (Direct(t, c) /\ (shDetached[t] \/ d \in ready)) \/ (Punt(t, c) /\ ~shDetached[t])
    BY <1>0, <1>1 DEF PortGet, Shim, Through
  <1>4. d \in ready => ShFree(c)
    BY <1>2, <1>3 DEF ShFree, Blocked, Timed, Gets
  <1>5. ShGoes(t, c)
    BY <1>3, <1>4 DEF ShGoes
  <1> QED
    BY <1>2, <1>3, <1>5, ShGoesUp

\* port_getn.
LEMMA ShPortsN ==
  ASSUME ShInv, shRunning = TRUE, NEW t \in ShThread, NEW d \in Fd, NEW wait \in BOOLEAN, PortGetn(t, d, wait)
  PROVE  ShUp'
  <1>0. eminfo = TRUE
    BY DEF ShInv, ShUp
  <1>1. PICK c : c = To("port", d, 0, wait)
    OBVIOUS
  <1>2. c.slow = FALSE /\ c.fd = d /\ c.fn = "port" /\ (c.wait <=> wait)
    BY <1>1 DEF To
  <1>3. /\ object[d] = "socket" /\ shpc[t] = "node" /\ (c.fd \in Fd => Mine(t, c.fd))
        /\ (Direct(t, c) /\ (shDetached[t] \/ ~wait)) \/ (Punt(t, c) /\ ~shDetached[t])
    BY <1>0, <1>1 DEF PortGetn, Shim, Through
  <1>4. ~wait => ShFree(c)
    BY <1>2, <1>3 DEF ShFree, Blocked, Timed, Gets
  <1>5. ShGoes(t, c)
    BY <1>3, <1>4 DEF ShGoes
  <1> QED
    BY <1>2, <1>3, <1>5, ShGoesUp

\* The calls that put something; poll says only that there is room for a byte.
LEMMA ShPuts ==
  ASSUME ShInv, shRunning = TRUE, NEW t \in ShThread, NEW d \in Fd, NEW n, WriteFd(t, d, n) \/ Send(t, d, n)
  PROVE  ShUp'
  <1>0. eminfo = TRUE
    BY DEF ShInv, ShUp
  <1>1. PICK c : c = To("put", d, n, TRUE)
    OBVIOUS
  <1>2. c.slow = FALSE /\ c.fd = d /\ c.fn = "put"
    BY <1>1 DEF To
  <1>3. /\ object[d] # "none" /\ shpc[t] = "node" /\ (c.fd \in Fd => Mine(t, c.fd))
        /\ Direct(t, c) \/ (Punt(t, c) /\ ~shDetached[t])
    BY <1>0, <1>1 DEF WriteFd, Send, Shim, Through
  <1>4. ShFree(c)
    BY <1>2 DEF ShFree
  <1>5. ShGoes(t, c)
    BY <1>3, <1>4 DEF ShGoes
  <1> QED
    BY <1>2, <1>3, <1>5, ShGoesUp

\* read asks mincore of what is regular and poll of the rest.  An irregular file is still
\* being opened or closed, and the descriptor is not this thread's.
LEMMA ShReads ==
  ASSUME ShInv, shRunning = TRUE, NEW t \in ShThread, NEW d \in Fd, ReadFd(t, d)
  PROVE  ShUp'
  <1>0. eminfo = TRUE /\ ShFiles
    BY DEF ShInv, ShUp
  <1>1. PICK c : c = To("get", d, 0, TRUE)
    OBVIOUS
  <1>2. c.slow = FALSE /\ c.fd = d /\ c.fn = "get"
    BY <1>1 DEF To
  <1>3. PICK inMemory \in InMemory(d) :
          Shim(t, To("get", d, 0, TRUE), IF d \in regular THEN inMemory ELSE PollIn(d))
    BY DEF ReadFd
  <1>4. /\ object[d] # "none" /\ shpc[t] = "node" /\ (c.fd \in Fd => Mine(t, c.fd))
        /\ \/ Direct(t, c) /\ (shDetached[t] \/ (d \in regular /\ inMemory) \/ (d \notin regular /\ PollIn(d)))
           \/ Punt(t, c) /\ ~shDetached[t]
    BY <1>0, <1>1, <1>3 DEF ReadFd, Shim, Through
  <1>5. d \in regular /\ inMemory => ShFree(c)
    <2>1. d \in regular => object[d] = "file"
      BY <1>0 DEF ShFiles
    <2>2. d \in regular /\ inMemory => d \in resident
      BY <2>1 DEF InMemory
    <2> QED
      BY <1>2, <2>1, <2>2 DEF ShFree, Blocked, Timed, Gets
  <1>6. d \notin regular /\ PollIn(d) => ShFree(c)
    <2>1. ASSUME d \notin regular PROVE object[d] # "file"
      <3>1. SUFFICES ASSUME object[d] = "file" PROVE FALSE
        OBVIOUS
      <3>2. PICK u \in ShThread : shpc[u] \in {"opened", "closing"} /\ call[u].fd = d
        BY <1>0, <2>1, <3>1 DEF ShFiles
      <3>3. u # t
        BY <1>4, <3>2
      <3> QED
        BY <1>2, <1>4, <3>2, <3>3 DEF Mine
    <2> QED
      BY <1>2, <2>1 DEF ShFree, Blocked, Timed, Gets, PollIn
  <1>7. ShGoes(t, c)
    BY <1>4, <1>5, <1>6 DEF ShGoes
  <1> QED
    BY <1>2, <1>4, <1>7, ShGoesUp

\* Every call.
LEMMA ShCallsUp == ASSUME ShInv, shRunning = TRUE, NEW t \in ShThread, Calls(t) PROVE ShUp'
  <1>1. CASE Sleep(t) \/ Usleep(t) \/ Select(t) \/ GetHostByName(t) \/ EpollWait(t)
    BY <1>1, ShPauses
  <1>2. CASE \E d \in Fd : Accept(t, d) \/ ReadFd(t, d) \/ Close(t, d) \/ PortGet(t, d)
    BY <1>2, ShAccepts, ShReads, ShCloses, ShPorts
  <1>3. CASE \E d \in Fd : \E n \in 1 .. ShRoom : WriteFd(t, d, n) \/ Send(t, d, n)
    BY <1>3, ShPuts
  <1>4. CASE \E d \in Fd : \E wait \in BOOLEAN :
               Recv(t, d, wait) \/ Recvfrom(t, d, wait) \/ Poll(t, d, wait) \/ PortGetn(t, d, wait)
    BY <1>4, ShReceives, ShPolls, ShPortsN
  <1> QED
    BY <1>1, <1>2, <1>3, <1>4 DEF Calls

\* The types, whether the runtime runs or not.
LEMMA ShTypesDirect == ASSUME ShTypes, NEW t \in ShThread, NEW c, Direct(t, c) PROVE ShTypes'
  BY DEF ShTypes, Direct, kernelvars

\* Nor does giving up the lock change them.
LEMMA ShTypesPunt == ASSUME ShTypes, NEW t \in ShThread, NEW c, Punt(t, c) PROVE ShTypes'
  <1>1. PICK v : call' = [call EXCEPT ![t] = v]
    BY DEF Punt
  <1>2. shpc' = [shpc EXCEPT ![t] = "kernel"] /\ shDetached' = [shDetached EXCEPT ![t] = TRUE] /\ object' = object
    BY DEF Punt, kernelvars
  <1> QED
    BY <1>1, <1>2 DEF ShTypes

\* So no call of the shim does.
LEMMA ShTypesShim ==
  ASSUME ShTypes, NEW t \in ShThread, \E c : Direct(t, c) \/ Punt(t, c)
  PROVE  ShTypes'
  BY ShTypesDirect, ShTypesPunt

\* What the calls are.
LEMMA ShCallsShim ==
  ASSUME NEW t \in ShThread, Calls(t)
  PROVE  (\E c : Direct(t, c) \/ Punt(t, c)) \/ \E d \in Fd : Close(t, d)
  <1>1. ASSUME NEW c, NEW quick \in BOOLEAN, Shim(t, c, quick)
        PROVE  \E v : Direct(t, v) \/ Punt(t, v)
    BY <1>1 DEF Shim
  <1>2. CASE Sleep(t) \/ Usleep(t) \/ Select(t) \/ GetHostByName(t) \/ EpollWait(t)
    BY <1>1, <1>2 DEF Sleep, Usleep, Select, GetHostByName, EpollWait
  <1>3. CASE \E d \in Fd : Accept(t, d) \/ PortGet(t, d)
    <2>1. PICK d \in Fd : Accept(t, d) \/ PortGet(t, d)
      BY <1>3
    <2> QED
      BY <2>1 DEF Accept, PortGet, Shim
  <1>4. CASE \E d \in Fd : ReadFd(t, d)
    <2>1. PICK d \in Fd : ReadFd(t, d)
      BY <1>4
    <2>2. PICK inMemory \in InMemory(d) :
            Shim(t, To("get", d, 0, TRUE), IF d \in regular THEN inMemory ELSE PollIn(d))
      BY <2>1 DEF ReadFd
    <2> QED
      BY <2>2 DEF Shim
  <1>5. CASE \E d \in Fd : \E n \in 1 .. ShRoom : WriteFd(t, d, n) \/ Send(t, d, n)
    BY <1>5 DEF WriteFd, Send, Shim
  <1>6. CASE \E d \in Fd : \E wait \in BOOLEAN :
               Recv(t, d, wait) \/ Recvfrom(t, d, wait) \/ Poll(t, d, wait) \/ PortGetn(t, d, wait)
    BY <1>6 DEF Recv, Recvfrom, Poll, PortGetn, Shim
  <1> QED
    BY <1>2, <1>3, <1>4, <1>5, <1>6 DEF Calls

\* Every step keeps the types.
LEMMA ShTypesKept == ASSUME ShTypes, ShNext PROVE ShTypes'
  <1>1. CASE Peer \/ ShSoftKill \/ DeinitShim
    BY <1>1 DEF ShTypes, Peer, ShSoftKill, DeinitShim, kernelvars
  <1>2. ASSUME NEW t \in ShThread, EnterNode(t) \/ LeaveNode(t) \/ Relock(t) \/ WokenToRun(t)
        PROVE  ShTypes'
    <2>1. object' = object
      BY <1>2 DEF EnterNode, LeaveNode, Relock, WokenToRun, kernelvars
    <2>2. call' = call \/ call' = [call EXCEPT ![t] = NoCall]
      BY <1>2 DEF EnterNode, LeaveNode, Relock, WokenToRun
    <2>3. \E l : shpc' = [shpc EXCEPT ![t] = l]
      BY <1>2 DEF EnterNode, LeaveNode, Relock, WokenToRun
    <2>4. shDetached' = shDetached \/ \E b : shDetached' = [shDetached EXCEPT ![t] = b]
      BY <1>2 DEF EnterNode, LeaveNode, Relock, WokenToRun
    <2> QED
      BY <2>1, <2>2, <2>3, <2>4 DEF ShTypes
  <1>3. ASSUME NEW t \in ShThread, Calls(t)
        PROVE  ShTypes'
    <2>1. ASSUME NEW d \in Fd, Close(t, d) PROVE ShTypes'
      BY <2>1 DEF ShTypes, Close, ClosedObject, kernelvars
    <2> QED
      BY <1>3, <2>1, ShTypesShim, ShCallsShim
  <1>4. ASSUME NEW t \in ShThread, OpenKernel(t) PROVE ShTypes'
    BY <1>4 DEF ShTypes, OpenKernel
  <1>5. ASSUME NEW t \in ShThread, OpenMark(t) PROVE ShTypes'
    BY <1>5 DEF ShTypes, OpenMark, kernelvars
  <1>6. ASSUME NEW t \in ShThread, CloseKernel(t) PROVE ShTypes'
    BY <1>6 DEF ShTypes, CloseKernel, ClosedObject
  <1>7. ASSUME NEW t \in ShThread, Socket(t) PROVE ShTypes'
    BY <1>7 DEF ShTypes, Socket
  <1>8. ASSUME NEW t \in ShThread, KernelReturns(t) PROVE ShTypes'
    <2>1. shDetached' = shDetached
      BY <1>8 DEF KernelReturns
    <2>2. call' = call \/ call' = [call EXCEPT ![t] = NoCall]
      BY <1>8 DEF KernelReturns
    <2>3. \E l : shpc' = [shpc EXCEPT ![t] = l]
      BY <1>8 DEF KernelReturns
    <2>4. object' = object \/ \E d \in Fd : object' = [object EXCEPT ![d] = "socket"]
      BY <1>8 DEF KernelReturns, Effect
    <2> QED
      BY <2>1, <2>2, <2>3, <2>4 DEF ShTypes
  <1> QED
    BY <1>1, <1>2, <1>3, <1>4, <1>5, <1>6, <1>7, <1>8 DEF ShNext

\* Every step keeps the invariant of the shim.
LEMMA ShNextInv == ShInv /\ ShNext => ShInv'
  <1> SUFFICES ASSUME ShInv, ShNext PROVE ShInv'
    OBVIOUS
  <1>1. ShTypes'
    BY ShTypesKept DEF ShInv
  <1>2. CASE ShSoftKill
    BY <1>1, <1>2 DEF ShSoftKill, ShInv
  <1>3. CASE ~ShSoftKill
    <2>1. shRunning' = shRunning
      <3>1. ASSUME NEW t \in ShThread, Calls(t) PROVE shRunning' = shRunning
        BY <3>1, ShCallsShim DEF Direct, Punt, Close
      <3> QED
        BY <1>3, <3>1 DEF ShNext, Peer, DeinitShim, EnterNode, LeaveNode, OpenKernel, OpenMark, CloseKernel, Socket,
                      KernelReturns, Relock, WokenToRun
    <2>2. CASE shRunning = TRUE
      <3>1. ~DeinitShim
        BY <2>2 DEF DeinitShim
      <3>2. ShUp'
        BY <1>3, <2>2, <3>1, ShWorld, ShEnters, ShLeaves, ShCallsUp, ShOpens, ShMarksOpen, ShClosed, ShReturns,
           ShRelocks, ShWoken DEF ShNext
      <3> QED
        BY <1>1, <2>1, <3>2 DEF ShInv
    <2>3. CASE shRunning # TRUE
      BY <1>1, <2>1, <2>3 DEF ShInv
    <2> QED
      BY <2>2, <2>3
  <1> QED
    BY <1>2, <1>3

\* A step of another structure.
LEMMA ShStutter == ShInv /\ shvars' = shvars => ShInv'
  <1> SUFFICES ASSUME ShInv, shvars' = shvars PROVE ShInv'
    OBVIOUS
  <1>1. /\ eminfo' = eminfo /\ shRunning' = shRunning /\ shLock' = shLock /\ shpc' = shpc
        /\ shDetached' = shDetached /\ call' = call /\ regular' = regular /\ object' = object
        /\ ready' = ready /\ room' = room /\ resident' = resident
    BY DEF shvars
  <1>2. ShTypes' <=> ShTypes
    BY <1>1 DEF ShTypes
  <1>3. ShHas' <=> ShHas
    BY <1>1 DEF ShHas
  <1>4. (ShCalls' <=> ShCalls) /\ (ShFiles' <=> ShFiles)
    BY <1>1 DEF ShCalls, ShFiles
  <1>5. ShQuick' <=> ShQuick
    BY <1>1 DEF ShQuick, Blocked
  <1> QED
    BY <1>1, <1>2, <1>3, <1>4, <1>5 DEF ShInv, ShUp

\* What the run checks.
LEMMA ShInvKeeps == ShInv => LockHolderNeverBlocks /\ BackAsBefore
  <1> SUFFICES ASSUME ShInv, shRunning PROVE LockHolderNeverBlocks /\ BackAsBefore
    BY DEF LockHolderNeverBlocks, BackAsBefore
  <1>1. ShHas /\ ShQuick
    BY DEF ShInv, ShUp
  <1>2. LockHolderNeverBlocks
    BY <1>1 DEF LockHolderNeverBlocks, ShQuick
  <1>3. BackAsBefore
    BY <1>1 DEF BackAsBefore, ShHas
  <1> QED
    BY <1>2, <1>3

-----------------------------------------------------------------------------
(***************************************************************************)
(* Events and flows, for any number of threads, flows and outputs, and     *)
(* any length of the queue.                                                *)
(*                                                                         *)
(* A flow that has an event has instances, and flows are deleted from the  *)
(* oldest on up to one that has: so the events' flows are not deleted.  An *)
(* event that is of the current source gives way to one such event, and no *)
(* other event makes one; of a flow that is new there are no events yet.   *)
(***************************************************************************)
ElPC == {"idle", "run", "back"}

\* An event that was made, of a flow in the set fs; it keeps the event its input is in.
MadeEvent(e) == \E n \in AllNodes : \E f, pred, input : e = NewEvent(n, f, pred, input)
SoundEvent(e, fs) ==
  /\ MadeEvent(e)
  /\ e.flow \in fs
  /\ e.pred # ElNone => e.pred.flow \in fs
  /\ e.input # ElNone => e.pred = e.input

HasEvent(t) == worker[t].pc # "idle" \/ worker[t].ev # ElNone

ElWorkers ==
  /\ DOMAIN worker = ElThread
  /\ worker = [t \in ElThread |-> worker[t]]
  /\ \A t \in ElThread :
       /\ worker[t] = [pc |-> worker[t].pc, ev |-> worker[t].ev, rc |-> worker[t].rc, n |-> worker[t].n]
       /\ worker[t].pc \in ElPC /\ worker[t].rc \in {0, 1} /\ worker[t].n \in Nat
       /\ worker[t].pc # "back" => worker[t].rc = 0
       /\ worker[t].pc = "back" => worker[t].n > 0

ElTypes ==
  /\ style \in {"classic", "melding", "lockfree"} /\ up \in BOOLEAN
  /\ ElWorkers
  /\ \E S : inQueue \in Seq(S)

\* The flows are numbered as they come, the oldest are deleted.
ElAll == Cardinality(deleted) + Len(active)
ElFlowsKept ==
  /\ active \in Seq(Nat) /\ Len(active) > 0
  /\ Cardinality(deleted) \in Nat /\ deleted = 1 .. Cardinality(deleted)
  /\ \A i \in 1 .. Len(active) : active[i] = Cardinality(deleted) + Len(active) + 1 - i
  /\ style = "lockfree" => deleted = {}
  /\ used \subseteq (Cardinality(deleted) + 1) .. ElAll
  /\ active[1] \in isSource

ElSound ==
  /\ \A i \in DOMAIN inQueue : SoundEvent(inQueue[i], used)
  /\ \A t \in ElThread : HasEvent(t) => SoundEvent(worker[t].ev, used)
  /\ ~up => inQueue = <<>> /\ Busy = {}

ElInv == ElTypes /\ ElFlowsKept /\ ElSound /\ OneSourceEvent

-----------------------------------------------------------------------------

LEMMA ElNew ==
  ASSUME NEW n \in AllNodes, NEW f, NEW pred, NEW input, NEW fs, f \in fs,
         pred # ElNone => pred.flow \in fs, input # ElNone => pred = input
  PROVE  SoundEvent(NewEvent(n, f, pred, input), fs)
  BY DEF SoundEvent, MadeEvent, NewEvent

LEMMA ElFields ==
  ASSUME NEW n, NEW f, NEW pred, NEW input
  PROVE  LET e == NewEvent(n, f, pred, input)
         IN  e.node = n /\ e.flow = f /\ e.pred = pred /\ e.input = input
  BY DEF NewEvent

LEMMA ElGrows ==
  ASSUME NEW e, NEW fs, NEW gs, SoundEvent(e, fs), fs \subseteq gs
  PROVE  SoundEvent(e, gs)
  BY DEF SoundEvent

LEMMA ElExecuted ==
  ASSUME NEW e, NEW fs, NEW rc, SoundEvent(e, fs)
  PROVE  /\ SoundEvent(Executed(e, rc), fs)
         /\ Executed(e, rc).node = e.node /\ Executed(e, rc).flow = e.flow
  <1>1. PICK n \in AllNodes : \E f, pred, input : e = NewEvent(n, f, pred, input)
    BY DEF SoundEvent, MadeEvent
  <1>2. PICK f, pred, input : e = NewEvent(n, f, pred, input)
    BY <1>1
  <1>3. e.node = n /\ e.flow = f
    BY <1>2, ElFields
  <1>4. Executed(e, rc) = IF rc = 0 THEN NewEvent(n, f, ElNone, ElNone) ELSE e
    BY <1>3 DEF Executed
  <1>5. f \in fs
    BY <1>3 DEF SoundEvent
  <1>6. CASE rc = 0
    <2>1. SoundEvent(NewEvent(n, f, ElNone, ElNone), fs)
      BY <1>5, ElNew
    <2>2. NewEvent(n, f, ElNone, ElNone).node = n /\ NewEvent(n, f, ElNone, ElNone).flow = f
      BY ElFields
    <2> QED
      BY <1>3, <1>4, <1>6, <2>1, <2>2
  <1> QED
    BY <1>4, <1>6

\* The queue and the threads hold sound events.
LEMMA ElQueueGrows ==
  ASSUME NEW q, NEW S, q \in Seq(S), NEW new, NEW T, new \in Seq(T), NEW fs,
         \A i \in DOMAIN q : SoundEvent(q[i], fs), \A i \in DOMAIN new : SoundEvent(new[i], fs)
  PROVE  /\ q \o new \in Seq(S \cup T)
         /\ Len(q \o new) = Len(q) + Len(new)
         /\ \A i \in DOMAIN (q \o new) : SoundEvent((q \o new)[i], fs)
         /\ \A i \in 1 .. Len(q) : (q \o new)[i] = q[i]
         /\ \A i \in 1 .. Len(new) : (q \o new)[Len(q) + i] = new[i]
         /\ DOMAIN (q \o new) = 1 .. Len(q) + Len(new)
  <1>1. q \in Seq(S \cup T) /\ new \in Seq(S \cup T)
    BY SeqDef
  <1>2. q \o new \in Seq(S \cup T) /\ Len(q \o new) = Len(q) + Len(new)
    BY <1>1, ConcatProperties
  <1>3. /\ \A i \in 1 .. Len(q) : (q \o new)[i] = q[i]
        /\ \A i \in 1 .. Len(new) : (q \o new)[Len(q) + i] = new[i]
        /\ DOMAIN (q \o new) = 1 .. Len(q) + Len(new)
    BY <1>1
  <1>4. ASSUME NEW i \in DOMAIN (q \o new) PROVE SoundEvent((q \o new)[i], fs)
    <2>1. CASE i \in 1 .. Len(q)
      BY <1>3, <2>1
    <2>2. CASE i \notin 1 .. Len(q)
      <3>1. PICK k \in 1 .. Len(new) : i = Len(q) + k
        <4>1. i - Len(q) \in 1 .. Len(new)
          BY <1>3, <2>2
        <4> QED
          BY <1>3, <4>1
      <3> QED
        BY <1>3, <3>1
    <2> QED
      BY <2>1, <2>2
  <1> QED
    BY <1>2, <1>3, <1>4

LEMMA ElQueueShrinks ==
  ASSUME NEW q, NEW S, q \in Seq(S), NEW k \in 1 .. Len(q)
  PROVE  /\ RemoveAt(q, k) \in Seq(S)
         /\ DOMAIN RemoveAt(q, k) = 1 .. Len(q) - 1
         /\ \A i \in 1 .. Len(q) - 1 : RemoveAt(q, k)[i] = IF i < k THEN q[i] ELSE q[i + 1]
  <1>0. Len(q) \in Nat /\ \A i \in 1 .. Len(q) : q[i] \in S
    BY LenProperties
  <1>1. PICK a : a = SubSeq(q, 1, k - 1)
    OBVIOUS
  <1>2. PICK b : b = SubSeq(q, k + 1, Len(q))
    OBVIOUS
  <1>3. a \in Seq(S) /\ Len(a) = k - 1 /\ \A i \in 1 .. k - 1 : a[i] = q[i]
    BY <1>0, <1>1, SubSeqProperties
  <1>4. b \in Seq(S) /\ Len(b) = Len(q) - k /\ \A i \in 1 .. Len(q) - k : b[i] = q[k + i]
    <2>1. k + 1 \in Int /\ \A i \in k + 1 .. Len(q) : q[i] \in S
      BY <1>0
    <2>2. /\ b \in Seq(S) /\ Len(b) = IF k + 1 <= Len(q) THEN Len(q) - (k + 1) + 1 ELSE 0
          /\ \A i \in 1 .. Len(q) - (k + 1) + 1 : b[i] = q[k + 1 + i - 1]
      BY <1>0, <1>2, <2>1, SubSeqProperties
    <2>3. Len(b) = Len(q) - k
      BY <1>0, <2>2
    <2>4. ASSUME NEW i \in 1 .. Len(q) - k PROVE b[i] = q[k + i]
      <3>1. i \in 1 .. Len(q) - (k + 1) + 1 /\ k + 1 + i - 1 = k + i
        BY <1>0
      <3> QED
        BY <2>2, <3>1
    <2> QED
      BY <2>2, <2>3, <2>4
  <1>5. RemoveAt(q, k) = a \o b
    BY <1>1, <1>2 DEF RemoveAt
  <1>6. PICK c : c = a \o b
    OBVIOUS
  <1>7. /\ c \in Seq(S) /\ Len(c) = Len(a) + Len(b)
        /\ \A i \in 1 .. Len(a) + Len(b) : c[i] = IF i <= Len(a) THEN a[i] ELSE b[i - Len(a)]
    BY <1>3, <1>4, <1>6, ConcatProperties
  <1>8. Len(a) + Len(b) = Len(q) - 1
    BY <1>0, <1>3, <1>4
  <1>9. ASSUME NEW i \in 1 .. Len(q) - 1 PROVE c[i] = IF i < k THEN q[i] ELSE q[i + 1]
    <2>2. CASE i < k
      BY <1>0, <1>3, <1>7, <1>8, <2>2
    <2>3. CASE i >= k
      <3>1. i - (k - 1) \in 1 .. Len(q) - k /\ ~(i <= k - 1) /\ k + (i - (k - 1)) = i + 1
        BY <1>0, <2>3
      <3>2. c[i] = b[i - (k - 1)]
        BY <1>3, <1>7, <1>8, <3>1
      <3>3. b[i - (k - 1)] = q[k + (i - (k - 1))]
        BY <1>4, <3>1
      <3> QED
        BY <2>3, <3>1, <3>2, <3>3
    <2> QED
      BY <1>0, <2>2, <2>3
  <1>10. DOMAIN c = 1 .. Len(q) - 1
    BY <1>7, <1>8, LenProperties
  <1> QED
    BY <1>5, <1>6, <1>7, <1>9, <1>10

-----------------------------------------------------------------------------
LEMMA ElPlace ==
  /\ \A p : p \in EventPlaces <=> (\E i \in DOMAIN inQueue : p = <<"queue", i>>)
                              \/ (\E t \in Busy : p = <<"thread", t>>)
  /\ \A i \in DOMAIN inQueue : <<"queue", i>> \in EventPlaces
  /\ \A t \in Busy : <<"thread", t>> \in EventPlaces
  /\ \A i : EventAt(<<"queue", i>>) = inQueue[i]
  /\ \A t : EventAt(<<"thread", t>>) = worker[t].ev
  <1>1. /\ \A i : EventAt(<<"queue", i>>) = inQueue[i]
        /\ \A t : EventAt(<<"thread", t>>) = worker[t].ev
    BY DEF EventAt
  <1>2. \A p : p \in EventPlaces <=> (\E i \in DOMAIN inQueue : p = <<"queue", i>>)
                              \/ (\E t \in Busy : p = <<"thread", t>>)
    BY DEF EventPlaces
  <1>3. \A i \in DOMAIN inQueue : <<"queue", i>> \in EventPlaces
    BY DEF EventPlaces
  <1>4. \A t \in Busy : <<"thread", t>> \in EventPlaces
    BY DEF EventPlaces
  <1> QED
    BY <1>1, <1>2, <1>3, <1>4

LEMMA ElPlaceNext ==
  /\ \A p : p \in EventPlaces' <=> (\E i \in DOMAIN inQueue' : p = <<"queue", i>>)
                              \/ (\E t \in Busy' : p = <<"thread", t>>)
  /\ \A i \in DOMAIN inQueue' : <<"queue", i>> \in EventPlaces'
  /\ \A t \in Busy' : <<"thread", t>> \in EventPlaces'
  /\ \A i : EventAt(<<"queue", i>>)' = inQueue'[i]
  /\ \A t : EventAt(<<"thread", t>>)' = worker'[t].ev
  <1>1. /\ \A i : EventAt(<<"queue", i>>)' = inQueue'[i]
        /\ \A t : EventAt(<<"thread", t>>)' = worker'[t].ev
    BY DEF EventAt
  <1>2. \A p : p \in EventPlaces' <=> (\E i \in DOMAIN inQueue' : p = <<"queue", i>>)
                              \/ (\E t \in Busy' : p = <<"thread", t>>)
    BY DEF EventPlaces
  <1>3. \A i \in DOMAIN inQueue' : <<"queue", i>> \in EventPlaces'
    BY DEF EventPlaces
  <1>4. \A t \in Busy' : <<"thread", t>> \in EventPlaces'
    BY DEF EventPlaces
  <1> QED
    BY <1>1, <1>2, <1>3, <1>4

\* An event e is of the source of the flow cur.
Sourcely(e, cur) == e.node = "source" /\ e.flow = cur

LEMMA ElOne ==
  OneSourceEvent <=>
    (up => /\ \E p \in EventPlaces : Sourcely(EventAt(p), active[1])
           /\ \A p, q \in EventPlaces :
                Sourcely(EventAt(p), active[1]) /\ Sourcely(EventAt(q), active[1]) => p = q)
  BY DEF OneSourceEvent, OfCurrentSource, Sourcely

LEMMA ElOneNext ==
  OneSourceEvent' <=>
    (up' => /\ \E p \in EventPlaces' : Sourcely(EventAt(p)', active'[1])
            /\ \A p, q \in EventPlaces' :
                 Sourcely(EventAt(p)', active'[1]) /\ Sourcely(EventAt(q)', active'[1]) => p = q)
  BY DEF OneSourceEvent, OfCurrentSource, Sourcely

\* Every event of the source was in a place of its own, and is in a place.
LEMMA ElOneFollows ==
  ASSUME OneSourceEvent, up' = up, active' = active, NEW g,
         \A p \in EventPlaces' : Sourcely(EventAt(p)', active[1]) =>
           g[p] \in EventPlaces /\ Sourcely(EventAt(g[p]), active[1]),
         \A p, q \in EventPlaces' :
           Sourcely(EventAt(p)', active[1]) /\ Sourcely(EventAt(q)', active[1]) /\ g[p] = g[q] => p = q,
         \A p \in EventPlaces :
           Sourcely(EventAt(p), active[1]) => \E q \in EventPlaces' : Sourcely(EventAt(q)', active[1])
  PROVE  OneSourceEvent'
  <1> SUFFICES ASSUME up' 
               PROVE  /\ \E p \in EventPlaces' : Sourcely(EventAt(p)', active[1])
                      /\ \A p, q \in EventPlaces' :
                           Sourcely(EventAt(p)', active[1]) /\ Sourcely(EventAt(q)', active[1]) => p = q
    BY ElOneNext
  <1>1. PICK p \in EventPlaces : Sourcely(EventAt(p), active[1])
    BY ElOne
  <1>2. \A q, r \in EventPlaces :
          Sourcely(EventAt(q), active[1]) /\ Sourcely(EventAt(r), active[1]) => q = r
    BY ElOne
  <1> QED
    BY <1>1, <1>2

-----------------------------------------------------------------------------
\* A step of thread t: what it does, w, replaces what it did.
LEMMA ElWorkersNext ==
  ASSUME ElWorkers, NEW t \in ElThread, NEW w, worker' = [worker EXCEPT ![t] = w],
         w = [pc |-> w.pc, ev |-> w.ev, rc |-> w.rc, n |-> w.n],
         w.pc \in ElPC, w.rc \in {0, 1}, w.n \in Nat, w.pc # "back" => w.rc = 0, w.pc = "back" => w.n > 0
  PROVE  /\ ElWorkers'
         /\ worker'[t] = w /\ \A u \in ElThread \ {t} : worker'[u] = worker[u]
         /\ Busy' = IF w.pc = "idle" THEN Busy \ {t} ELSE Busy \cup {t}
  <1>1. /\ DOMAIN worker' = ElThread /\ worker' = [u \in ElThread |-> worker'[u]]
        /\ worker'[t] = w /\ \A u \in ElThread \ {t} : worker'[u] = worker[u]
    BY DEF ElWorkers
  <1>2. ASSUME NEW u \in ElThread
        PROVE  /\ worker'[u] = [pc |-> worker'[u].pc, ev |-> worker'[u].ev, rc |-> worker'[u].rc, n |-> worker'[u].n]
               /\ worker'[u].pc \in ElPC /\ worker'[u].rc \in {0, 1} /\ worker'[u].n \in Nat
               /\ worker'[u].pc # "back" => worker'[u].rc = 0
               /\ worker'[u].pc = "back" => worker'[u].n > 0
    <2>1. CASE u = t
      BY <1>1, <2>1
    <2>2. CASE u # t
      BY <1>1, <2>2 DEF ElWorkers
    <2> QED
      BY <2>1, <2>2
  <1>3. ElWorkers'
    BY <1>1, <1>2 DEF ElWorkers
  <1>4. Busy' = IF w.pc = "idle" THEN Busy \ {t} ELSE Busy \cup {t}
    BY <1>1 DEF Busy
  <1> QED
    BY <1>1, <1>3, <1>4

LEMMA ElSoundNext ==
  ASSUME ElSound, up' = up, used' = used, ~up => inQueue' = <<>> /\ Busy' = {},
         NEW t \in ElThread, NEW w, worker'[t] = w, \A u \in ElThread \ {t} : worker'[u] = worker[u],
         w.pc # "idle" \/ w.ev # ElNone => SoundEvent(w.ev, used),
         \A i \in DOMAIN inQueue' : SoundEvent(inQueue'[i], used)
  PROVE  ElSound'
  <1>1. ASSUME NEW u \in ElThread, worker'[u].pc # "idle" \/ worker'[u].ev # ElNone
        PROVE  SoundEvent(worker'[u].ev, used)
    BY <1>1 DEF ElSound, HasEvent
  <1> QED
    BY <1>1 DEF ElSound, HasEvent

LEMMA ElFlowsRest == ElFlowsKept /\ elflows' = elflows /\ style' = style => ElFlowsKept'
  BY DEF ElFlowsKept, ElAll, elflows

LEMMA ElBusyUp == ElSound /\ Busy # {} => up
  BY DEF ElSound

LEMMA ElTakeEvent ==
  ASSUME ElInv, NEW t \in ElThread, TakeEvent(t)
  PROVE  ElInv'
  <1> USE DEF ElInv
  <1>2. /\ worker[t].pc = "idle" /\ inQueue # <<>>
        /\ style' = style /\ up' = up /\ elflows' = elflows
        /\ used' = used /\ active' = active
    BY DEF TakeEvent, elflows
  <1>3. PICK S : inQueue \in Seq(S)
    BY DEF ElTypes
  <1>20. PICK m : m = Len(inQueue)
    OBVIOUS
  <1>21. m \in Nat /\ m > 0 /\ DOMAIN inQueue = 1 .. m
    BY <1>2, <1>3, <1>20
  <1>1. PICK k \in 1 .. m :
          /\ inQueue' = RemoveAt(inQueue, k)
          /\ worker' = [worker EXCEPT ![t] = Running(inQueue[k])]
    <2>1. PICK k \in {1, Len(inQueue)} :
            /\ inQueue' = RemoveAt(inQueue, k)
            /\ worker' = [worker EXCEPT ![t] = Running(inQueue[k])]
      BY DEF TakeEvent
    <2>2. k \in 1 .. m
      BY <1>20, <1>21
    <2> QED
      BY <2>1, <2>2
  <1>4. k \in 1 .. m /\ DOMAIN inQueue = 1 .. m /\ m \in Nat
    BY <1>21
  <1>22. k \in 1 .. Len(inQueue)
    BY <1>20
  <1>23. /\ inQueue' \in Seq(S)
         /\ DOMAIN inQueue' = 1 .. Len(inQueue) - 1
         /\ \A i \in 1 .. Len(inQueue) - 1 : inQueue'[i] = IF i < k THEN inQueue[i] ELSE inQueue[i + 1]
    BY <1>1, <1>3, <1>22, ElQueueShrinks
  <1>24. ASSUME NEW i \in 1 .. (m - 1)
         PROVE  i \in Nat /\ i \in 1 .. m /\ i + 1 \in 1 .. m
    BY <1>21
  <1>5. /\ inQueue' \in Seq(S)
        /\ DOMAIN inQueue' = 1 .. (m - 1)
        /\ \A i \in 1 .. (m - 1) : i < k => inQueue'[i] = inQueue[i]
        /\ \A i \in 1 .. (m - 1) : i >= k => inQueue'[i] = inQueue[i + 1]
    <2>1. Len(inQueue) - 1 = m - 1
      BY <1>20
    <2>2. /\ inQueue' \in Seq(S)
          /\ DOMAIN inQueue' = 1 .. (m - 1)
          /\ \A i \in 1 .. (m - 1) : inQueue'[i] = IF i < k THEN inQueue[i] ELSE inQueue[i + 1]
      BY <1>23, <2>1
    <2>3. ASSUME NEW i \in 1 .. (m - 1), i < k
          PROVE  inQueue'[i] = inQueue[i]
      BY <2>2, <2>3
    <2>4. ASSUME NEW i \in 1 .. (m - 1), i >= k
          PROVE  inQueue'[i] = inQueue[i + 1]
      <3>1. ~(i < k)
        BY <1>4, <1>24, <2>4
      <3> QED
        BY <2>2, <3>1
    <2> QED
      BY <2>2, <2>3, <2>4
  <1>6. PICK w : w = [pc |-> "run", ev |-> inQueue[k], rc |-> 0, n |-> 0]
    OBVIOUS
  <1>7. worker' = [worker EXCEPT ![t] = w] /\ w = [pc |-> w.pc, ev |-> w.ev, rc |-> w.rc, n |-> w.n]
    BY <1>1, <1>6 DEF Running
  <1>8. w.pc = "run" /\ w.ev = inQueue[k] /\ w.rc = 0 /\ w.n = 0
    BY <1>6
  <1>9. /\ ElWorkers'
        /\ worker'[t] = w /\ \A u \in ElThread \ {t} : worker'[u] = worker[u]
        /\ Busy' = Busy \cup {t}
    <2>1. ElWorkers /\ w.pc \in ElPC /\ w.rc \in {0, 1} /\ w.n \in Nat
      BY <1>8 DEF ElTypes, ElPC
    <2>2. (w.pc # "back" => w.rc = 0) /\ (w.pc = "back" => w.n > 0) /\ w.pc # "idle"
      BY <1>8
    <2> QED
      BY <1>7, <2>1, <2>2, ElWorkersNext
  <1>10. ElTypes'
    BY <1>2, <1>5, <1>9 DEF ElTypes
  <1>11. ElFlowsKept'
    BY <1>2, ElFlowsRest
  <1>12. up /\ SoundEvent(w.ev, used) /\ \A i \in DOMAIN inQueue' : SoundEvent(inQueue'[i], used)
    <2>1. up /\ SoundEvent(w.ev, used)
      BY <1>2, <1>4, <1>8 DEF ElSound
    <2>2. ASSUME NEW i \in DOMAIN inQueue' PROVE SoundEvent(inQueue'[i], used)
      <3>1. i \in 1 .. m /\ i + 1 \in 1 .. m /\ i \in 1 .. (m - 1)
        BY <1>4, <1>5
      <3>2. inQueue'[i] = inQueue[i] \/ inQueue'[i] = inQueue[i + 1]
        BY <1>4, <1>5, <3>1
      <3> QED
        BY <1>4, <3>1, <3>2 DEF ElSound
    <2> QED
      BY <2>1, <2>2
  <1>13. ElSound'
    BY <1>2, <1>9, <1>12, ElSoundNext
  <1>14. OneSourceEvent'
    <2>1. PICK g : g = [p \in EventPlaces' |-> IF p = <<"thread", t>> THEN <<"queue", k>>
                          ELSE IF p[1] = "queue" THEN <<"queue", IF p[2] < k THEN p[2] ELSE p[2] + 1>> ELSE p]
      OBVIOUS
    <2>2. t \notin Busy
      BY <1>2 DEF Busy
    <2>3. ASSUME NEW p \in EventPlaces' PROVE g[p] \in EventPlaces /\ EventAt(p)' = EventAt(g[p])
      <3>1. CASE p = <<"thread", t>>
        BY <1>4, <1>8, <1>9, <2>1, <3>1, ElPlace, ElPlaceNext
      <3>2. CASE \E u \in Busy : u # t /\ p = <<"thread", u>>
        <4>1. PICK u \in Busy : u # t /\ p = <<"thread", u>>
          BY <3>2
        <4>2. g[p] = p
          BY <2>1, <4>1
        <4>3. u \in ElThread
          BY DEF Busy
        <4> QED
          BY <1>9, <4>1, <4>2, <4>3, ElPlace, ElPlaceNext
      <3>3. CASE \E i \in DOMAIN inQueue' : p = <<"queue", i>>
        <4>1. PICK i \in DOMAIN inQueue' : p = <<"queue", i>>
          BY <3>3
        <4>2. g[p] = <<"queue", IF i < k THEN i ELSE i + 1>>
          BY <2>1, <4>1
        <4>3. i \in DOMAIN inQueue /\ i + 1 \in DOMAIN inQueue
          BY <1>4, <1>5
        <4> QED
          BY <1>5, <4>1, <4>2, <4>3, ElPlace, ElPlaceNext
      <3> QED
        BY <1>9, <3>1, <3>2, <3>3, ElPlaceNext
    <2>4. ASSUME NEW p \in EventPlaces', NEW q \in EventPlaces', g[p] = g[q] PROVE p = q
      <3>1. ASSUME NEW x \in EventPlaces' 
            PROVE  \/ x = <<"thread", t>> /\ g[x] = <<"queue", k>>
                   \/ \E u \in Busy : u # t /\ x = <<"thread", u>> /\ g[x] = x
                   \/ \E i \in 1 .. (m - 1) : x = <<"queue", i>> /\ g[x] = <<"queue", IF i < k THEN i ELSE i + 1>>
        BY <1>5, <1>9, <2>1, <2>2, ElPlaceNext, SMTT(30)
      <3> QED
        BY <1>4, <2>4, <3>1, <3>1
    <2>5. ASSUME NEW p \in EventPlaces PROVE \E q \in EventPlaces' : EventAt(q)' = EventAt(p)
      <3>1. CASE \E u \in Busy : p = <<"thread", u>>
        <4>1. PICK u \in Busy : p = <<"thread", u>>
          BY <3>1
        <4>2. u # t /\ u \in ElThread
          BY <2>2 DEF Busy
        <4> QED
          BY <1>9, <4>1, <4>2, ElPlace, ElPlaceNext
      <3>2. CASE \E i \in DOMAIN inQueue : p = <<"queue", i>>
        <4>1. PICK i \in DOMAIN inQueue : p = <<"queue", i>>
          BY <3>2
        <4>2. CASE i = k
          BY <1>8, <1>9, <4>1, <4>2, ElPlace, ElPlaceNext
        <4>3. CASE i < k
          <5>1. i \in DOMAIN inQueue' /\ inQueue'[i] = inQueue[i]
            <6>1. i \in 1 .. (m - 1)
              BY <1>4, <4>1, <4>3
            <6> QED
              BY <1>5, <4>3, <6>1
          <5> QED
            BY <4>1, <5>1, ElPlace, ElPlaceNext
        <4>4. CASE i > k
          <5>1. i - 1 \in DOMAIN inQueue' /\ inQueue'[i - 1] = inQueue[i]
            <6>1. i - 1 \in 1 .. (m - 1) /\ i - 1 >= k /\ (i - 1) + 1 = i
              BY <1>4, <4>1, <4>4
            <6> QED
              BY <1>5, <6>1
          <5> QED
            BY <4>1, <5>1, ElPlace, ElPlaceNext
        <4> QED
          BY <1>4, <4>1, <4>2, <4>3, <4>4
      <3> QED
        BY <3>1, <3>2, ElPlace
    <2> QED
      BY <1>2, <2>3, <2>4, <2>5, ElOneFollows
  <1> QED
    BY <1>10, <1>11, <1>13, <1>14

-----------------------------------------------------------------------------
\* A step of a thread that leaves the queue alone.
LEMMA ElThreadStep ==
  ASSUME ElInv, NEW t \in ElThread, NEW w, worker' = [worker EXCEPT ![t] = w],
         w = [pc |-> w.pc, ev |-> w.ev, rc |-> w.rc, n |-> w.n],
         w.pc \in ElPC, w.rc \in {0, 1}, w.n \in Nat, w.pc # "back" => w.rc = 0, w.pc = "back" => w.n > 0,
         style' = style, up' = up, elflows' = elflows, inQueue' = inQueue,
         (w.pc = "idle") <=> (worker[t].pc = "idle"),
         w.pc # "idle" \/ w.ev # ElNone => SoundEvent(w.ev, used),
         w.pc # "idle" => (Sourcely(w.ev, active[1]) <=> Sourcely(worker[t].ev, active[1]))
  PROVE  ElInv'
  <1>1. /\ ElWorkers'
        /\ worker'[t] = w /\ \A u \in ElThread \ {t} : worker'[u] = worker[u]
        /\ Busy' = IF w.pc = "idle" THEN Busy \ {t} ELSE Busy \cup {t}
    <2>1. ElWorkers
      BY DEF ElInv, ElTypes
    <2> QED
      BY <2>1, ElWorkersNext
  <1>2. Busy' = Busy
    BY <1>1 DEF Busy
  <1>3. ElTypes'
    BY <1>1 DEF ElInv, ElTypes
  <1>4. used' = used /\ active' = active
    BY DEF elflows
  <1>5. ElFlowsKept'
    BY ElFlowsRest DEF ElInv
  <1>6. ElSound'
    <2>1. ElSound /\ (~up => inQueue' = <<>> /\ Busy' = {})
      BY <1>2 DEF ElInv, ElSound
    <2>2. \A i \in DOMAIN inQueue' : SoundEvent(inQueue'[i], used)
      BY DEF ElInv, ElSound
    <2> QED
      BY <1>1, <1>4, <2>1, <2>2, ElSoundNext
  <1>7. OneSourceEvent'
    <2>1. PICK g : g = [p \in EventPlaces' |-> p]
      OBVIOUS
    <2>2. EventPlaces' = EventPlaces
      BY <1>2 DEF EventPlaces
    <2>3. ASSUME NEW p \in EventPlaces
          PROVE  Sourcely(EventAt(p)', active[1]) <=> Sourcely(EventAt(p), active[1])
      <3>1. CASE \E i \in DOMAIN inQueue : p = <<"queue", i>>
        BY <3>1, ElPlace, ElPlaceNext
      <3>2. CASE p = <<"thread", t>>
        <4>1. t \in Busy
          BY <2>2, <3>2 DEF EventPlaces
        <4>2. worker[t].pc # "idle"
          BY <4>1 DEF Busy
        <4> QED
          BY <1>1, <3>2, <4>2, ElPlace, ElPlaceNext
      <3>3. CASE \E u \in Busy : u # t /\ p = <<"thread", u>>
        <4>1. PICK u \in Busy : u # t /\ p = <<"thread", u>>
          BY <3>3
        <4>2. u \in ElThread
          BY DEF Busy
        <4> QED
          BY <1>1, <4>1, <4>2, ElPlace, ElPlaceNext
      <3> QED
        BY <3>1, <3>2, <3>3, ElPlace
    <2>4. OneSourceEvent
      BY DEF ElInv
    <2> QED
      BY <1>4, <2>1, <2>2, <2>3, <2>4, ElOneFollows
  <1> QED
    BY <1>3, <1>5, <1>6, <1>7 DEF ElInv

LEMMA ElRest ==
  ASSUME ElInv, NEW t \in ElThread, Rest(t)
  PROVE  ElInv'
  <1>1. PICK w : w = [pc |-> "idle", ev |-> ElNone, rc |-> 0, n |-> 0]
    OBVIOUS
  <1>2. worker' = [worker EXCEPT ![t] = w] /\ w = [pc |-> w.pc, ev |-> w.ev, rc |-> w.rc, n |-> w.n]
    BY <1>1 DEF Rest, Idle, Resting
  <1>3. w.pc = "idle" /\ w.ev = ElNone /\ w.rc = 0 /\ w.n = 0
    BY <1>1
  <1>4. w.pc \in ElPC /\ w.rc \in {0, 1} /\ w.n \in Nat
    BY <1>3 DEF ElPC
  <1>5. /\ style' = style /\ up' = up /\ elflows' = elflows /\ inQueue' = inQueue
        /\ worker[t].pc = "idle"
    BY DEF Rest
  <1> QED
    BY <1>2, <1>3, <1>4, <1>5, ElThreadStep

LEMMA ElExecuteNode ==
  ASSUME ElInv, NEW t \in ElThread, ExecuteNode(t)
  PROVE  ElInv'
  <1>1. PICK rc \in {0, 1} : \E n \in 1 .. ElOutputs :
          worker' = [worker EXCEPT ![t] = [pc |-> "back", ev |-> Executed(worker[t].ev, rc), rc |-> rc, n |-> n]]
    <2>1. t \in DOMAIN worker
      BY DEF ElInv, ElTypes, ElWorkers
    <2> QED
      BY <2>1 DEF ExecuteNode
  <1>2. PICK n \in 1 .. ElOutputs :
          worker' = [worker EXCEPT ![t] = [pc |-> "back", ev |-> Executed(worker[t].ev, rc), rc |-> rc, n |-> n]]
    BY <1>1
  <1>3. PICK w : w = [pc |-> "back", ev |-> Executed(worker[t].ev, rc), rc |-> rc, n |-> n]
    OBVIOUS
  <1>4. worker' = [worker EXCEPT ![t] = w] /\ w = [pc |-> w.pc, ev |-> w.ev, rc |-> w.rc, n |-> w.n]
    BY <1>2, <1>3
  <1>5. w.pc = "back" /\ w.ev = Executed(worker[t].ev, rc) /\ w.rc = rc /\ w.n = n
    BY <1>3
  <1>6. n \in Nat /\ n > 0
    BY EventLifeAssumption
  <1>7. w.pc \in ElPC /\ w.rc \in {0, 1} /\ w.n \in Nat /\ w.n > 0
    BY <1>5, <1>6 DEF ElPC
  <1>8. /\ style' = style /\ up' = up /\ elflows' = elflows /\ inQueue' = inQueue
        /\ worker[t].pc = "run"
    BY DEF ExecuteNode
  <1>9. SoundEvent(worker[t].ev, used)
    BY <1>8 DEF ElInv, ElSound, HasEvent
  <1>10. SoundEvent(w.ev, used) /\ w.ev.node = worker[t].ev.node /\ w.ev.flow = worker[t].ev.flow
    BY <1>5, <1>9, ElExecuted
  <1>11. Sourcely(w.ev, active[1]) <=> Sourcely(worker[t].ev, active[1])
    BY <1>10 DEF Sourcely
  <1> QED
    BY <1>4, <1>5, <1>7, <1>8, <1>10, <1>11, ElThreadStep

LEMMA ElMeld ==
  ASSUME ElInv, NEW t \in ElThread, Meld(t)
  PROVE  ElInv'
  <1>1. PICK e : e = worker[t].ev
    OBVIOUS
  <1>2. PICK x \in Successors(e, worker[t].rc) :
          worker' = [worker EXCEPT ![t] = Running(NewEvent(x, e.flow, e, e))]
    BY <1>1 DEF Meld
  <1>3. e.node \in DetachedNodes /\ x \in DetachedNodes /\ worker[t].pc = "back"
    BY <1>1, <1>2 DEF Meld, Melds
  <1>4. PICK w : w = [pc |-> "run", ev |-> NewEvent(x, e.flow, e, e), rc |-> 0, n |-> 0]
    OBVIOUS
  <1>5. worker' = [worker EXCEPT ![t] = w] /\ w = [pc |-> w.pc, ev |-> w.ev, rc |-> w.rc, n |-> w.n]
    BY <1>2, <1>4 DEF Running
  <1>6. w.pc = "run" /\ w.ev = NewEvent(x, e.flow, e, e) /\ w.rc = 0 /\ w.n = 0
    BY <1>4
  <1>7. w.pc \in ElPC /\ w.rc \in {0, 1} /\ w.n \in Nat
    BY <1>6 DEF ElPC
  <1>8. SoundEvent(e, used)
    BY <1>1, <1>3 DEF ElInv, ElSound, HasEvent
  <1>9. e.flow \in used
    BY <1>8 DEF SoundEvent
  <1>10. /\ style' = style /\ up' = up /\ elflows' = elflows /\ inQueue' = inQueue
    BY <1>1, <1>9 DEF Meld, elflows
  <1>11. SoundEvent(w.ev, used)
    <2>1. x \in AllNodes
      BY <1>3 DEF AllNodes
    <2> QED
      BY <1>6, <1>9, <2>1, ElNew
  <1>12. ~Sourcely(w.ev, active[1]) /\ ~Sourcely(worker[t].ev, active[1])
    <2>1. w.ev.node = x
      BY <1>6, ElFields
    <2> QED
      BY <1>1, <1>3, <2>1 DEF Sourcely, DetachedNodes
  <1> QED
    BY <1>3, <1>5, <1>6, <1>7, <1>10, <1>11, <1>12, ElThreadStep

-----------------------------------------------------------------------------
\* What a node function splays has an order, with everything in it once.
LEMMA ElInTurn ==
  ASSUME NEW S, IsFiniteSet(S), \A x \in S : x[1] \in Nat, NEW s \in InTurn(S)
  PROVE  /\ Cardinality(S) \in Nat /\ DOMAIN s = 1 .. Cardinality(S)
         /\ \A i \in DOMAIN s : s[i] \in S
         /\ \A i, j \in DOMAIN s : s[i] = s[j] => i = j
         /\ \A x \in S : \E i \in DOMAIN s : s[i] = x
  <1>1. PICK c : c = Cardinality(S)
    OBVIOUS
  <1>2. c \in Nat
    BY <1>1, FS_CardinalityType
  <1>3. s \in [1 .. c -> S] /\ \A i, j \in DOMAIN s : i < j => Comes(s[i], s[j])
    BY <1>1 DEF InTurn
  <1>4. \A x \in S : ~Comes(x, x)
    <2>1. ASSUME NEW x \in S PROVE ~(x[1] < x[1])
      <3>1. PICK i \in Nat : i = x[1]
        OBVIOUS
      <3> QED
        BY <3>1
    <2>2. ASSUME NEW x \in S PROVE <<x[2], x[2]>> \notin ByName
      BY DEF ByName
    <2> QED
      BY <2>1, <2>2 DEF Comes
  <1>5. ASSUME NEW i \in 1 .. c, NEW j \in 1 .. c, s[i] = s[j] PROVE i = j
    <2>1. ~Comes(s[i], s[j]) /\ ~Comes(s[j], s[i])
      BY <1>3, <1>4, <1>5
    <2>2. ~(i < j) /\ ~(j < i)
      BY <1>3, <2>1
    <2> QED
      BY <1>2, <2>2
  <1>6. s \in Injection(1 .. c, S)
    BY <1>3, <1>5 DEF Injection, IsInjective
  <1>7. Cardinality(1 .. c) = c
    BY <1>2, FS_Interval
  <1>8. s \in Surjection(1 .. c, S)
    BY <1>1, <1>6, <1>7, FS_Injection
  <1>9. \A x \in S : \E i \in 1 .. c : s[i] = x
    BY <1>8 DEF Surjection
  <1> QED
    BY <1>1, <1>2, <1>3, <1>5, <1>9

\* The events of what one executed event, e, gives: they are of its flow; one of them is of
\* the current source if e is, and none else.
Follows(new, e, fs, cur) ==
  /\ \E T : new \in Seq(T)
  /\ \A i \in DOMAIN new : SoundEvent(new[i], fs)
  /\ Sourcely(e, cur) => \E i \in DOMAIN new : Sourcely(new[i], cur)
  /\ \A i \in DOMAIN new : Sourcely(new[i], cur) => Sourcely(e, cur)
  /\ \A i, j \in DOMAIN new : Sourcely(new[i], cur) /\ Sourcely(new[j], cur) => i = j

LEMMA ElFollows ==
  ASSUME NEW e, NEW fs, NEW cur, NEW S, IsFiniteSet(S), \A x \in S : x[1] \in Nat /\ x = <<x[1], x[2]>>,
         NEW s \in InTurn(S), NEW new, DOMAIN new = DOMAIN s,
         \A k \in DOMAIN s : SoundEvent(new[k], fs) /\ new[k].node = s[k][2] /\ new[k].flow = e.flow,
         Sourcely(e, cur) => \E x \in S : x[2] = "source",
         \A x \in S : x[2] = "source" /\ e.flow = cur => e.node = "source" /\ x[1] = 1,
         new = [k \in DOMAIN s |-> new[k]]
  PROVE  Follows(new, e, fs, cur)
  <1>1. /\ Cardinality(S) \in Nat /\ DOMAIN s = 1 .. Cardinality(S)
        /\ \A i \in DOMAIN s : s[i] \in S
        /\ \A i, j \in DOMAIN s : s[i] = s[j] => i = j
        /\ \A x \in S : \E i \in DOMAIN s : s[i] = x
    BY ElInTurn
  <1>2. \E T : new \in Seq(T)
    <2>1. PICK T : T = {new[k] : k \in DOMAIN s}
      OBVIOUS
    <2>2. \A k \in DOMAIN s : new[k] \in T
      BY <2>1
    <2>3. PICK c \in Nat : c = Cardinality(S)
      BY <1>1
    <2>4. new \in [1 .. c -> T]
      BY <1>1, <2>2, <2>3
    <2>5. new \in Seq(T)
      BY <2>4, SeqDef
    <2> QED
      BY <2>5
  <1>3. ASSUME NEW i \in DOMAIN new, Sourcely(new[i], cur)
        PROVE  Sourcely(e, cur) /\ s[i] = <<1, "source">>
    <2>1. s[i] \in S /\ s[i][2] = "source" /\ e.flow = cur
      BY <1>1, <1>3 DEF Sourcely
    <2>2. e.node = "source" /\ s[i][1] = 1
      BY <2>1
    <2>3. s[i] = <<s[i][1], s[i][2]>>
      BY <1>1, <1>3
    <2> QED
      BY <2>1, <2>2, <2>3 DEF Sourcely
  <1>4. ASSUME Sourcely(e, cur) PROVE \E i \in DOMAIN new : Sourcely(new[i], cur)
    <2>1. PICK x \in S : x[2] = "source"
      BY <1>4
    <2>2. PICK i \in DOMAIN s : s[i] = x
      BY <1>1
    <2>3. new[i].node = "source" /\ new[i].flow = cur
      BY <1>4, <2>1, <2>2 DEF Sourcely
    <2> QED
      BY <2>3 DEF Sourcely
  <1>5. \A i, j \in DOMAIN new : Sourcely(new[i], cur) /\ Sourcely(new[j], cur) => i = j
    BY <1>1, <1>3
  <1> QED
    BY <1>2, <1>3, <1>4, <1>5 DEF Follows

LEMMA ElSuccessors ==
  ASSUME NEW e, NEW rc, e.node \in AllNodes
  PROVE  Successors(e, rc) \subseteq AllNodes /\ IsFiniteSet(Successors(e, rc))
  <1>1. Successors(e, rc) \subseteq AllNodes
    BY DEF Successors, Targets, Handler, AllNodes, Sources, DetachedNodes
  <1>2. IsFiniteSet(AllNodes)
    <2>1. AllNodes = ((({"source"} \cup {"initial"}) \cup {"work"}) \cup {"last"}) \cup {"error"}
      BY DEF AllNodes, Sources, DetachedNodes
    <2>2. IsFiniteSet({"source"})
      BY FS_Singleton
    <2>3. IsFiniteSet({"source"} \cup {"initial"})
      BY <2>2, FS_AddElement
    <2>4. IsFiniteSet(({"source"} \cup {"initial"}) \cup {"work"})
      BY <2>3, FS_AddElement
    <2>5. IsFiniteSet((({"source"} \cup {"initial"}) \cup {"work"}) \cup {"last"})
      BY <2>4, FS_AddElement
    <2> QED
      BY <2>1, <2>5, FS_AddElement
  <1> QED
    BY <1>1, <1>2, FS_Subset

LEMMA ElMade ==
  ASSUME NEW w, NEW fs, NEW cur, cur \in isSource, SoundEvent(w.ev, fs), w.rc \in {0, 1},
         w.n \in Nat, w.n > 0, NEW new \in IF w.rc = 0 THEN OnNoError(w) ELSE OnError(w)
  PROVE  Follows(new, w.ev, fs, cur)
  <1>1. PICK e : e = w.ev
    OBVIOUS
  <1>2. e.node \in AllNodes /\ e.flow \in fs
    <2>1. PICK n \in AllNodes : \E f, pred, input : e = NewEvent(n, f, pred, input)
      BY <1>1 DEF SoundEvent, MadeEvent
    <2>2. e.node = n
      BY <2>1, ElFields
    <2> QED
      BY <1>1, <2>2 DEF SoundEvent
  <1>3. CASE w.rc = 0
    <2>1. PICK S : S = {x \in (1 .. w.n) \X Successors(e, 0) : MakesSource(e.flow, x[2], x[1])}
      OBVIOUS
    <2>2. PICK s \in InTurn(S) :
            new = [k \in DOMAIN s |-> IF IsSource(e.flow, s[k][2]) THEN NewEvent(s[k][2], e.flow, ElNone, ElNone)
                                      ELSE NewEvent(s[k][2], e.flow, e, e)]
      BY <1>1, <1>3, <2>1 DEF OnNoError
    <2>3. /\ S \subseteq (1 .. w.n) \X AllNodes /\ IsFiniteSet(S)
          /\ \A x \in S : x[2] \in Successors(e, 0) /\ MakesSource(e.flow, x[2], x[1])
          /\ \A x \in S : x[1] \in Nat /\ x = <<x[1], x[2]>>
      <3>1. IsFiniteSet((1 .. w.n) \X Successors(e, 0))
        <4>1. IsFiniteSet(1 .. w.n)
          BY FS_Interval
        <4>2. IsFiniteSet(Successors(e, 0))
          BY <1>2, ElSuccessors
        <4> QED
          BY <4>1, <4>2, FS_Product
      <3>2. S \in SUBSET ((1 .. w.n) \X Successors(e, 0))
        BY <2>1
      <3>3. IsFiniteSet(S)
        BY <3>1, <3>2, FS_Subset
      <3> QED
        BY <1>2, <2>1, <3>3, ElSuccessors
    <2>4. \A i \in DOMAIN s : s[i] \in S
      BY <2>3, ElInTurn
    <2>5. ASSUME NEW k \in DOMAIN s
          PROVE  SoundEvent(new[k], fs) /\ new[k].node = s[k][2] /\ new[k].flow = e.flow
      <3>1. PICK n : n = s[k][2]
        OBVIOUS
      <3>2. n \in AllNodes
        BY <2>3, <2>4, <3>1
      <3>3. new[k] = NewEvent(n, e.flow, ElNone, ElNone) \/ new[k] = NewEvent(n, e.flow, e, e)
        BY <2>2, <3>1
      <3>4. /\ SoundEvent(NewEvent(n, e.flow, ElNone, ElNone), fs)
            /\ SoundEvent(NewEvent(n, e.flow, e, e), fs)
        BY <1>2, <3>2, ElNew
      <3>5. \A a, b : NewEvent(n, e.flow, a, b).node = n /\ NewEvent(n, e.flow, a, b).flow = e.flow
        BY ElFields
      <3> QED
        BY <3>1, <3>3, <3>4, <3>5
    <2>6. ASSUME Sourcely(e, cur) PROVE \E x \in S : x[2] = "source"
      <3>1. "source" \in Successors(e, 0)
        BY <2>6 DEF Sourcely, Successors, Targets
      <3>2. <<1, "source">> \in (1 .. w.n) \X Successors(e, 0) /\ MakesSource(e.flow, "source", 1)
        BY <3>1 DEF MakesSource
      <3> QED
        BY <2>1, <3>2
    <2>7. ASSUME NEW x \in S, x[2] = "source", e.flow = cur PROVE e.node = "source" /\ x[1] = 1
      <3>1. x[2] \in Targets(e.node) /\ MakesSource(cur, "source", x[1])
        BY <2>3, <2>7 DEF Successors
      <3>2. IsSource(cur, "source")
        BY DEF IsSource, Sources
      <3> QED
        BY <2>7, <3>1, <3>2 DEF Targets, MakesSource
    <2>8. DOMAIN new = DOMAIN s /\ new = [k \in DOMAIN s |-> new[k]]
      BY <2>2
    <2> QED
      BY <1>1, <2>3, <2>5, <2>6, <2>7, <2>8, ElFollows
  <1>4. CASE w.rc # 0
    <2>1. PICK S : S = {1} \X Successors(e, w.rc)
      OBVIOUS
    <2>2. PICK s \in InTurn(S) :
            new = [k \in DOMAIN s |-> IF IsSource(e.flow, e.node) THEN NewEvent(s[k][2], e.flow, ElNone, ElNone)
                                      ELSE NewEvent(s[k][2], e.flow, e.pred, e.input)]
      <3>1. new \in OnError(w)
        BY <1>1, <1>4
      <3> QED
        BY <1>1, <2>1, <3>1, Zenon DEF OnError
    <2>3. S \subseteq {1} \X AllNodes
          /\ IsFiniteSet(S)
          /\ \A x \in S : x[1] = 1 /\ x[2] \in Successors(e, w.rc) /\ x[1] \in Nat /\ x = <<x[1], x[2]>>
      <3>1. IsFiniteSet({1})
        BY FS_Singleton
      <3>2. IsFiniteSet(Successors(e, w.rc)) /\ Successors(e, w.rc) \subseteq AllNodes
        BY <1>2, ElSuccessors
      <3>3. IsFiniteSet(S)
        BY <2>1, <3>1, <3>2, FS_Product
      <3> QED
        BY <2>1, <3>2, <3>3
    <2>4. \A i \in DOMAIN s : s[i] \in S
      BY <2>3, ElInTurn
    <2>5. ASSUME NEW k \in DOMAIN s
          PROVE  SoundEvent(new[k], fs) /\ new[k].node = s[k][2] /\ new[k].flow = e.flow
      <3>1. PICK n : n = s[k][2]
        OBVIOUS
      <3>2. n \in AllNodes
        BY <2>3, <2>4, <3>1
      <3>3. new[k] = NewEvent(n, e.flow, ElNone, ElNone) \/ new[k] = NewEvent(n, e.flow, e.pred, e.input)
        BY <2>2, <3>1
      <3>4. /\ SoundEvent(NewEvent(n, e.flow, ElNone, ElNone), fs)
            /\ SoundEvent(NewEvent(n, e.flow, e.pred, e.input), fs)
        <4>1. (e.pred # ElNone => e.pred.flow \in fs) /\ (e.input # ElNone => e.pred = e.input)
          BY <1>1 DEF SoundEvent
        <4> QED
          BY <1>2, <3>2, <4>1, ElNew
      <3>5. \A a, b : NewEvent(n, e.flow, a, b).node = n /\ NewEvent(n, e.flow, a, b).flow = e.flow
        BY ElFields
      <3> QED
        BY <3>1, <3>3, <3>4, <3>5
    <2>6. ASSUME Sourcely(e, cur) PROVE \E x \in S : x[2] = "source"
      <3>1. "source" \in Successors(e, w.rc)
        BY <1>4, <2>6 DEF Sourcely, Successors, IsSource, IsInitial, Sources
      <3>2. <<1, "source">> \in S
        BY <2>1, <3>1
      <3> QED
        BY <3>2
    <2>7. ASSUME NEW x \in S, x[2] = "source", e.flow = cur PROVE e.node = "source" /\ x[1] = 1
      BY <1>4, <2>3, <2>7 DEF Successors, Handler
    <2>8. DOMAIN new = DOMAIN s /\ new = [k \in DOMAIN s |-> new[k]]
      BY <2>2
    <2> QED
      BY <1>1, <2>3, <2>5, <2>6, <2>7, <2>8, ElFollows
  <1> QED
    BY <1>3, <1>4

-----------------------------------------------------------------------------
LEMMA ElHandle ==
  ASSUME ElInv, NEW t \in ElThread, Handle(t)
  PROVE  ElInv'
  <1>1. PICK w : w = worker[t]
    OBVIOUS
  <1>2. PICK new \in IF w.rc = 0 THEN OnNoError(w) ELSE OnError(w) :
          /\ inQueue' = inQueue \o new
          /\ used' = IF new = <<>> THEN used ELSE used \cup {w.ev.flow}
    BY <1>1 DEF Handle, Enqueue
  <1>3. /\ worker[t].pc = "back"
        /\ style' = style /\ up' = up /\ active' = active /\ deleted' = deleted /\ isSource' = isSource
    BY DEF Handle
  <1>4. t \in Busy /\ up
    BY <1>3 DEF Busy, ElInv, ElSound
  <1>5. SoundEvent(w.ev, used) /\ w.ev.flow \in used
    BY <1>1, <1>3 DEF ElInv, ElSound, HasEvent, SoundEvent
  <1>6. used' = used /\ elflows' = elflows
    BY <1>2, <1>3, <1>5 DEF elflows
  <1>7. w.rc \in {0, 1} /\ w.n \in Nat /\ w.n > 0
    BY <1>1, <1>3 DEF ElInv, ElTypes, ElWorkers
  <1>8. active[1] \in isSource
    BY DEF ElInv, ElFlowsKept
  <1>9. Follows(new, w.ev, used, active[1])
    BY <1>2, <1>5, <1>7, <1>8, ElMade
  <1>10. PICK T : new \in Seq(T)
    BY <1>9 DEF Follows
  <1>11. PICK S : inQueue \in Seq(S)
    BY DEF ElInv, ElTypes
  <1>12. PICK m \in Nat : m = Len(inQueue)
    BY <1>11
  <1>13. PICK k \in Nat : k = Len(new)
    BY <1>10
  <1>14. DOMAIN inQueue = 1 .. m /\ DOMAIN new = 1 .. k
    BY <1>10, <1>11, <1>12, <1>13
  <1>15. /\ inQueue' \in Seq(S \cup T)
         /\ \A i \in DOMAIN inQueue' : SoundEvent(inQueue'[i], used)
         /\ \A i \in 1 .. m : inQueue'[i] = inQueue[i]
         /\ \A i \in 1 .. k : inQueue'[m + i] = new[i]
         /\ DOMAIN inQueue' = 1 .. m + k
    <2>1. \A i \in DOMAIN inQueue : SoundEvent(inQueue[i], used)
      BY DEF ElInv, ElSound
    <2>2. \A i \in DOMAIN new : SoundEvent(new[i], used)
      BY <1>9 DEF Follows
    <2> QED
      BY <1>2, <1>10, <1>11, <1>12, <1>13, <2>1, <2>2, ElQueueGrows
  <1>16. PICK e : e = IF style = "lockfree" THEN ElNone ELSE w.ev
    OBVIOUS
  <1>17. PICK v : v = [pc |-> "idle", ev |-> e, rc |-> 0, n |-> 0]
    OBVIOUS
  <1>18. worker' = [worker EXCEPT ![t] = v] /\ v = [pc |-> v.pc, ev |-> v.ev, rc |-> v.rc, n |-> v.n]
    BY <1>1, <1>16, <1>17 DEF Handle, Resting
  <1>19. v.pc = "idle" /\ v.ev = e /\ v.rc = 0 /\ v.n = 0
    BY <1>17
  <1>20. /\ ElWorkers'
         /\ worker'[t] = v /\ \A u \in ElThread \ {t} : worker'[u] = worker[u]
         /\ Busy' = Busy \ {t}
    <2>1. ElWorkers /\ v.pc \in ElPC /\ v.rc \in {0, 1} /\ v.n \in Nat
      BY <1>19 DEF ElInv, ElTypes, ElPC
    <2>2. (v.pc # "back" => v.rc = 0) /\ (v.pc = "back" => v.n > 0) /\ v.pc = "idle"
      BY <1>19
    <2> QED
      BY <1>18, <2>1, <2>2, ElWorkersNext
  <1>21. ElTypes'
    BY <1>3, <1>15, <1>20 DEF ElInv, ElTypes
  <1>22. ElFlowsKept'
    BY <1>3, <1>6, ElFlowsRest DEF ElInv
  <1>23. ElSound'
    <2>1. v.pc # "idle" \/ v.ev # ElNone => SoundEvent(v.ev, used)
      BY <1>5, <1>16, <1>19
    <2> QED
      BY <1>3, <1>4, <1>6, <1>15, <1>20, <2>1, ElSoundNext DEF ElInv
  <1>24. OneSourceEvent'
    <2>1. PICK g : g = [p \in EventPlaces' |-> IF p[1] = "queue" /\ p[2] > m THEN <<"thread", t>> ELSE p]
      OBVIOUS
    <2>2. ASSUME NEW p \in EventPlaces'
          PROVE  \/ \E i \in 1 .. m : p = <<"queue", i>> /\ g[p] = p /\ EventAt(p)' = inQueue[i] /\ EventAt(p) = inQueue[i]
                 \/ \E i \in 1 .. k : p = <<"queue", m + i>> /\ g[p] = <<"thread", t>> /\ EventAt(p)' = new[i]
                 \/ \E u \in Busy \ {t} : p = <<"thread", u>> /\ g[p] = p /\ EventAt(p)' = worker[u].ev /\ EventAt(p) = worker[u].ev
      <3>1. CASE \E i \in DOMAIN inQueue' : p = <<"queue", i>>
        <4>1. PICK i \in 1 .. m + k : p = <<"queue", i>>
          BY <1>15, <3>1
        <4>2. CASE i <= m
          <5>1. i \in 1 .. m /\ ~(i > m)
            BY <4>1, <4>2
          <5> QED
            BY <1>15, <2>1, <4>1, <5>1, ElPlace, ElPlaceNext
        <4>3. CASE i > m
          <5>1. PICK j \in 1 .. k : i = m + j
            <6>1. i - m \in 1 .. k /\ i = m + (i - m)
              BY <4>1, <4>3
            <6> QED
              BY <6>1
          <5>2. g[p] = <<"thread", t>>
            BY <2>1, <4>1, <4>3
          <5>3. EventAt(p)' = new[j]
            BY <1>15, <4>1, <5>1, ElPlaceNext
          <5> QED
            BY <4>1, <5>1, <5>2, <5>3
        <4> QED
          BY <4>1, <4>2, <4>3
      <3>2. CASE \E u \in Busy' : p = <<"thread", u>>
        <4>1. PICK u \in Busy \ {t} : p = <<"thread", u>>
          BY <1>20, <3>2
        <4>2. u \in ElThread
          BY DEF Busy
        <4> QED
          BY <1>20, <2>1, <4>1, <4>2, ElPlace, ElPlaceNext
      <3> QED
        BY <3>1, <3>2, ElPlaceNext
    <2>3. <<"thread", t>> \in EventPlaces /\ EventAt(<<"thread", t>>) = w.ev
      BY <1>1, <1>4, ElPlace
    <2>4. ASSUME NEW p \in EventPlaces', Sourcely(EventAt(p)', active[1])
          PROVE  g[p] \in EventPlaces /\ Sourcely(EventAt(g[p]), active[1])
      <3>1. CASE \E i \in 1 .. m : p = <<"queue", i>> /\ g[p] = p /\ EventAt(p)' = inQueue[i] /\ EventAt(p) = inQueue[i]
        BY <1>14, <2>4, <3>1, ElPlace
      <3>2. CASE \E i \in 1 .. k : p = <<"queue", m + i>> /\ g[p] = <<"thread", t>> /\ EventAt(p)' = new[i]
        BY <1>9, <1>14, <2>3, <2>4, <3>2 DEF Follows
      <3>3. CASE \E u \in Busy \ {t} : p = <<"thread", u>> /\ g[p] = p /\ EventAt(p)' = worker[u].ev /\ EventAt(p) = worker[u].ev
        BY <2>4, <3>3, ElPlace
      <3> QED
        BY <2>2, <3>1, <3>2, <3>3
    <2>5. ASSUME NEW p \in EventPlaces', NEW q \in EventPlaces',
                 Sourcely(EventAt(p)', active[1]), Sourcely(EventAt(q)', active[1]), g[p] = g[q]
          PROVE  p = q
      <3>1. CASE g[p] = <<"thread", t>>
        <4>1. PICK i \in 1 .. k : p = <<"queue", m + i>> /\ EventAt(p)' = new[i]
          BY <2>2, <3>1
        <4>4. g[q] = <<"thread", t>>
          BY <2>5, <3>1
        <4>2. PICK j \in 1 .. k : q = <<"queue", m + j>> /\ EventAt(q)' = new[j]
          BY <2>2, <4>4
        <4>3. i = j
          BY <1>9, <1>14, <2>5, <4>1, <4>2 DEF Follows
        <4> QED
          BY <4>1, <4>2, <4>3
      <3>2. CASE g[p] # <<"thread", t>>
        BY <2>2, <2>5, <3>2
      <3> QED
        BY <3>1, <3>2
    <2>6. ASSUME NEW p \in EventPlaces, Sourcely(EventAt(p), active[1])
          PROVE  \E q \in EventPlaces' : Sourcely(EventAt(q)', active[1])
      <3>1. CASE \E i \in DOMAIN inQueue : p = <<"queue", i>>
        <4>1. PICK i \in 1 .. m : p = <<"queue", i>>
          BY <1>14, <3>1
        <4>2. i \in 1 .. m + k
          OBVIOUS
        <4> QED
          BY <1>15, <2>6, <4>1, <4>2, ElPlace, ElPlaceNext
      <3>2. CASE p = <<"thread", t>>
        <4>1. PICK i \in 1 .. k : Sourcely(new[i], active[1])
          BY <1>9, <1>14, <2>3, <2>6, <3>2 DEF Follows
        <4>2. m + i \in DOMAIN inQueue' /\ inQueue'[m + i] = new[i]
          BY <1>15
        <4>3. PICK j \in DOMAIN inQueue' : j = m + i /\ inQueue'[j] = new[i]
          BY <4>2
        <4>4. <<"queue", j>> \in EventPlaces' /\ EventAt(<<"queue", j>>)' = new[i]
          BY <4>3, ElPlaceNext
        <4> QED
          BY <4>1, <4>4
      <3>3. CASE \E u \in Busy : u # t /\ p = <<"thread", u>>
        <4>1. PICK u \in Busy : u # t /\ p = <<"thread", u>>
          BY <3>3
        <4>2. u \in ElThread
          BY DEF Busy
        <4> QED
          BY <1>20, <2>6, <4>1, <4>2, ElPlace, ElPlaceNext
      <3> QED
        BY <3>1, <3>2, <3>3, ElPlace
    <2>7. OneSourceEvent
      BY DEF ElInv
    <2> QED
      BY <1>3, <2>4, <2>5, <2>6, <2>7, ElOneFollows
  <1> QED
    BY <1>21, <1>22, <1>23, <1>24 DEF ElInv

-----------------------------------------------------------------------------
\* load_flow and start.
LEMMA ElFlowNumbers ==
  ASSUME ElFlowsKept
  PROVE  /\ ElAll \in Nat /\ ElAll > 0 /\ Cardinality(deleted) \in Nat
         /\ active[1] = ElAll
         /\ \A i \in DOMAIN active : active[i] = ElAll + 1 - i
         /\ \A f \in used \cup deleted : f \in Nat /\ f <= ElAll
         /\ used \cap deleted = {}
  <1>1. PICK c \in Nat : c = Cardinality(deleted)
    BY DEF ElFlowsKept
  <1>2. PICK m \in Nat : m = Len(active) /\ DOMAIN active = 1 .. m
    BY DEF ElFlowsKept
  <1>3. /\ m > 0 /\ deleted = 1 .. c /\ used \subseteq (c + 1) .. (c + m)
        /\ \A i \in 1 .. m : active[i] = c + m + 1 - i
    BY <1>1, <1>2 DEF ElFlowsKept, ElAll
  <1>4. ElAll = c + m
    BY <1>1, <1>2 DEF ElAll
  <1>5. active[1] = ElAll
    <2>1. 1 \in 1 .. m
      BY <1>3
    <2> QED
      BY <1>3, <1>4, <2>1
  <1>6. \A f \in used \cup deleted : f \in Nat /\ f <= ElAll
    BY <1>3, <1>4
  <1>7. used \cap deleted = {}
    BY <1>3
  <1> QED
    BY <1>1, <1>2, <1>3, <1>4, <1>5, <1>6, <1>7, SMTT(30)

\* Sources of flow f at the end of the queue: one event each.
LEMMA ElPushSources ==
  ASSUME ElTypes, NEW f, NEW fs, f \in fs, PushSources(f), \A i \in DOMAIN inQueue : SoundEvent(inQueue[i], fs)
  PROVE  /\ \E S : inQueue' \in Seq(S)
         /\ \A i \in DOMAIN inQueue' : SoundEvent(inQueue'[i], fs)
         /\ \E k \in DOMAIN inQueue' :
              /\ Sourcely(inQueue'[k], f)
              /\ \A i \in DOMAIN inQueue' :
                   i = k \/ (inQueue'[i].node = "initial" /\ inQueue'[i].flow = f)
                   \/ (i \in DOMAIN inQueue /\ inQueue'[i] = inQueue[i])
  <1>1. PICK nodes : nodes = IF style = "lockfree" THEN <<"initial", "source">> ELSE <<"source", "initial">>
    OBVIOUS
  <1>2. PICK new : new = [i \in 1 .. 2 |-> NewEvent(nodes[i], f, ElNone, ElNone)]
    OBVIOUS
  <1>3. inQueue' = inQueue \o new
    BY <1>1, <1>2 DEF PushSources, Enqueue
  <1>4. PICK j \in 1 .. 2 : nodes[j] = "source" /\ \A i \in 1 .. 2 : i # j => nodes[i] = "initial"
    <2>1. CASE style = "lockfree"
      <3>1. nodes[1] = "initial" /\ nodes[2] = "source"
        BY <1>1, <2>1
      <3>2. 2 \in 1 .. 2 /\ \A i \in 1 .. 2 : i # 2 => nodes[i] = "initial"
        BY <3>1
      <3> QED
        BY <3>1, <3>2
    <2>2. CASE style # "lockfree"
      <3>1. nodes[1] = "source" /\ nodes[2] = "initial"
        BY <1>1, <2>2
      <3>2. 1 \in 1 .. 2 /\ \A i \in 1 .. 2 : i # 1 => nodes[i] = "initial"
        BY <3>1
      <3> QED
        BY <3>1, <3>2
    <2> QED
      BY <2>1, <2>2
  <1>5. PICK T : T = {new[i] : i \in 1 .. 2}
    OBVIOUS
  <1>6. new \in Seq(T) /\ Len(new) = 2 /\ DOMAIN new = 1 .. 2
    <2>1. new \in [1 .. 2 -> T]
      BY <1>2, <1>5
    <2> QED
      BY <1>2, <2>1, SeqDef
  <1>7. PICK S : inQueue \in Seq(S)
    BY DEF ElTypes
  <1>8. \A i \in 1 .. 2 : new[i].node = nodes[i] /\ new[i].flow = f
    BY <1>2, ElFields
  <1>9. ASSUME NEW i \in DOMAIN new PROVE SoundEvent(new[i], fs)
    <2>1. nodes[i] \in AllNodes
      BY <1>4, <1>6 DEF AllNodes, Sources
    <2> QED
      BY <1>2, <1>6, <2>1, ElNew
  <1>10. PICK m \in Nat : m = Len(inQueue) /\ DOMAIN inQueue = 1 .. m
    BY <1>7
  <1>11. /\ inQueue' \in Seq(S \cup T)
         /\ \A i \in DOMAIN inQueue' : SoundEvent(inQueue'[i], fs)
         /\ \A i \in 1 .. m : inQueue'[i] = inQueue[i]
         /\ \A i \in 1 .. 2 : inQueue'[m + i] = new[i]
         /\ DOMAIN inQueue' = 1 .. m + 2
    <2>1. \A i \in DOMAIN new : SoundEvent(new[i], fs)
      BY <1>9
    <2>2. PICK k \in Nat : k = Len(new) /\ new \in Seq(T)
      BY <1>6
    <2>3. /\ inQueue' \in Seq(S \cup T)
          /\ \A i \in DOMAIN inQueue' : SoundEvent(inQueue'[i], fs)
          /\ \A i \in 1 .. m : inQueue'[i] = inQueue[i]
          /\ \A i \in 1 .. k : inQueue'[m + i] = new[i]
          /\ DOMAIN inQueue' = 1 .. m + k
      BY <1>3, <1>7, <1>10, <2>1, <2>2, ElQueueGrows
    <2>4. k = 2
      BY <1>6, <2>2
    <2> QED
      BY <2>3, <2>4
  <1>12. m + j \in DOMAIN inQueue' /\ Sourcely(inQueue'[m + j], f)
    BY <1>4, <1>8, <1>11 DEF Sourcely
  <1>13. ASSUME NEW i \in DOMAIN inQueue'
         PROVE  i = m + j \/ (inQueue'[i].node = "initial" /\ inQueue'[i].flow = f)
                \/ (i \in DOMAIN inQueue /\ inQueue'[i] = inQueue[i])
    <2>1. CASE i \in 1 .. m
      BY <1>10, <1>11, <2>1
    <2>2. CASE i \notin 1 .. m
      <3>1. PICK x \in 1 .. 2 : i = m + x
        <4>1. i - m \in 1 .. 2 /\ i = m + (i - m)
          BY <1>11, <2>2
        <4> QED
          BY <4>1
      <3> QED
        BY <1>4, <1>8, <1>11, <3>1
    <2> QED
      BY <2>1, <2>2
  <1> QED
    BY <1>11, <1>12, <1>13

\* A flow is new: none of the events there are is of it.
LEMMA ElNewFlow ==
  ASSUME ElInv, NEW f, PushSources(f), active'[1] = f, worker' = worker, f \notin used \/ (inQueue = <<>> /\ Busy = {})
  PROVE  OneSourceEvent'
  <1>1. /\ ElTypes
        /\ \A i \in DOMAIN inQueue : SoundEvent(inQueue[i], used \cup {f})
    BY ElGrows DEF ElInv, ElSound
  <1>2. PICK k \in DOMAIN inQueue' :
          /\ Sourcely(inQueue'[k], f)
          /\ \A i \in DOMAIN inQueue' :
               i = k \/ (inQueue'[i].node = "initial" /\ inQueue'[i].flow = f)
               \/ (i \in DOMAIN inQueue /\ inQueue'[i] = inQueue[i])
    <2>1. PICK fs : fs = used \cup {f}
      OBVIOUS
    <2>2. f \in fs /\ \A i \in DOMAIN inQueue : SoundEvent(inQueue[i], fs)
      BY <1>1, <2>1
    <2> QED
      BY <1>1, <2>2, ElPushSources
  <1>3. \A i \in DOMAIN inQueue : ~Sourcely(inQueue[i], f)
    <2>1. CASE f \notin used
      BY <2>1 DEF ElInv, ElSound, SoundEvent, Sourcely
    <2>2. CASE inQueue = <<>> /\ Busy = {}
      BY <2>2
    <2> QED
      BY <2>1, <2>2
  <1>4. Busy' = Busy
    BY DEF Busy
  <1>5. \A u \in Busy' : ~Sourcely(worker'[u].ev, f)
    BY <1>4 DEF ElInv, ElSound, HasEvent, SoundEvent, Sourcely, Busy
  <1>6. \A i \in DOMAIN inQueue' : Sourcely(inQueue'[i], f) => i = k
    BY <1>2, <1>3 DEF Sourcely
  <1>7. ASSUME NEW p \in EventPlaces', Sourcely(EventAt(p)', f) PROVE p = <<"queue", k>>
    BY <1>5, <1>6, <1>7, ElPlaceNext
  <1>8. <<"queue", k>> \in EventPlaces' /\ Sourcely(EventAt(<<"queue", k>>)', f)
    BY <1>2, ElPlaceNext
  <1> QED
    BY <1>7, <1>8, ElOneNext

LEMMA ElStart ==
  ASSUME ElInv, Start
  PROVE  ElInv'
  <1>1. PICK f : f = active[1]
    OBVIOUS
  <1>2. /\ ~up /\ up' = TRUE /\ PushSources(f) /\ used' = used \cup {f}
        /\ style' = style /\ active' = active /\ deleted' = deleted
        /\ isSource' = isSource /\ worker' = worker
    BY <1>1 DEF Start
  <1>3. inQueue = <<>> /\ Busy = {}
    BY <1>2 DEF ElInv, ElSound
  <1>4. \A i \in DOMAIN inQueue : SoundEvent(inQueue[i], used \cup {f})
    BY ElGrows DEF ElInv, ElSound
  <1>5. (\E S : inQueue' \in Seq(S)) /\ \A i \in DOMAIN inQueue' : SoundEvent(inQueue'[i], used \cup {f})
    BY <1>2, <1>4, ElPushSources DEF ElInv
  <1>6. ElTypes'
    BY <1>2, <1>5 DEF ElInv, ElTypes, ElWorkers
  <1>7. ElFlowsKept'
    <2>1. ElFlowsKept
      BY DEF ElInv
    <2>2. f = ElAll /\ ElAll \in (Cardinality(deleted) + 1) .. ElAll
      <3>1. PICK c \in Nat : c = Cardinality(deleted)
        BY <2>1 DEF ElFlowsKept
      <3>2. PICK m \in Nat : m = Len(active) /\ m > 0
        BY <2>1 DEF ElFlowsKept
      <3>3. ElAll = c + m /\ c + m \in (c + 1) .. (c + m)
        BY <3>1, <3>2 DEF ElAll
      <3> QED
        BY <1>1, <2>1, <3>1, <3>3, ElFlowNumbers
    <2>3. ElAll' = ElAll
      BY <1>2 DEF ElAll
    <2> QED
      BY <1>2, <2>1, <2>2, <2>3 DEF ElFlowsKept
  <1>8. ElSound'
    <2>1. ASSUME NEW t \in ElThread, HasEvent(t) PROVE SoundEvent(worker[t].ev, used')
      BY <1>2, <2>1, ElGrows DEF ElInv, ElSound
    <2> QED
      BY <1>2, <1>5, <2>1 DEF ElSound, HasEvent
  <1>9. OneSourceEvent'
    BY <1>1, <1>2, <1>3, ElNewFlow
  <1> QED
    BY <1>6, <1>7, <1>8, <1>9 DEF ElInv

\* Both loads: active and deleted change, a new flow f comes first.
LEMMA ElLoads ==
  ASSUME ElInv, NEW f, f = ElAll + 1, ElFlowsKept', active'[1] = f,
         IF up THEN PushSources(f) ELSE inQueue' = inQueue,
         used' = IF up THEN used \cup {f} ELSE used,
         style' = style, up' = up, worker' = worker
  PROVE  ElInv'
  <1>1. \A i \in DOMAIN inQueue : SoundEvent(inQueue[i], used \cup {f})
    BY ElGrows DEF ElInv, ElSound
  <1>2. (\E S : inQueue' \in Seq(S)) /\ \A i \in DOMAIN inQueue' : SoundEvent(inQueue'[i], used')
    <2>1. CASE up
      BY <1>1, <2>1, ElPushSources DEF ElInv
    <2>2. CASE ~up
      BY <2>2 DEF ElInv, ElTypes, ElSound
    <2> QED
      BY <2>1, <2>2
  <1>3. ElTypes'
    BY <1>2 DEF ElInv, ElTypes, ElWorkers
  <1>4. ElSound'
    <2>1. ASSUME NEW t \in ElThread, HasEvent(t) PROVE SoundEvent(worker[t].ev, used')
      <3>1. used \subseteq used' /\ SoundEvent(worker[t].ev, used)
        BY <2>1 DEF ElInv, ElSound
      <3> QED
        BY <3>1, ElGrows
    <2>2. ~up => inQueue' = <<>> /\ Busy' = {}
      BY DEF ElInv, ElSound, Busy
    <2> QED
      BY <1>2, <2>1, <2>2 DEF ElSound, HasEvent
  <1>5. OneSourceEvent'
    <2>1. CASE up
      <3>1. f \notin used
        <4>1. PICK a \in Nat : a = ElAll
          BY ElFlowNumbers DEF ElInv
        <4>2. \A x \in used : x \in Nat /\ x <= a
          BY <4>1, ElFlowNumbers DEF ElInv
        <4> QED
          BY <4>1, <4>2
      <3> QED
        BY <2>1, <3>1, ElNewFlow
    <2>2. CASE ~up
      BY <2>2 DEF OneSourceEvent
    <2> QED
      BY <2>1, <2>2
  <1> QED
    BY <1>3, <1>4, <1>5 DEF ElInv

\* k flows, of which the newest is u, one after the other.
Descends(q, u, k) == q \in Seq(Nat) /\ Len(q) = k /\ \A i \in 1 .. k : q[i] = u + 1 - i

LEMMA ElActive ==
  ASSUME NEW u \in Nat, NEW k \in Nat, NEW s, Descends(s, u, k), NEW x, x = u + 1
  PROVE  Descends(<<x>> \o s, u + 1, k + 1)
  <1>1. s \in Seq(Nat) /\ Len(s) = k /\ \A i \in 1 .. k : s[i] = u + 1 - i
    BY DEF Descends
  <1>2. PICK a : a = <<x>>
    OBVIOUS
  <1>3. a \in Seq(Nat) /\ Len(a) = 1 /\ a[1] = u + 1
    BY <1>2
  <1>4. PICK b : b = a \o s
    OBVIOUS
  <1>5. /\ b \in Seq(Nat) /\ Len(b) = Len(a) + Len(s)
        /\ \A i \in 1 .. Len(a) + Len(s) : b[i] = IF i <= Len(a) THEN a[i] ELSE s[i - Len(a)]
    BY <1>1, <1>3, <1>4, ConcatProperties
  <1>6. Len(a) + Len(s) = k + 1
    BY <1>1, <1>3
  <1>8. ASSUME NEW i \in 1 .. k + 1 PROVE b[i] = (u + 1) + 1 - i
    <2>1. CASE i = 1
      BY <1>3, <1>5, <1>6, <2>1
    <2>2. CASE i # 1
      <3>1. i - 1 \in 1 .. k /\ ~(i <= 1)
        BY <2>2
      <3>2. b[i] = s[i - 1]
        BY <1>3, <1>5, <1>6, <3>1
      <3>3. s[i - 1] = u + 1 - (i - 1)
        BY <1>1, <3>1
      <3> QED
        BY <3>2, <3>3
    <2> QED
      BY <2>1, <2>2
  <1> QED
    BY <1>2, <1>4, <1>5, <1>6, <1>8 DEF Descends

LEMMA ElLoadFlow ==
  ASSUME ElInv, LoadFlow
  PROVE  ElInv'
  <1>1. PICK c \in Nat : c = Cardinality(deleted)
    BY DEF ElInv, ElFlowsKept
  <1>2. PICK m \in Nat : m = Len(active) /\ DOMAIN active = 1 .. m /\ active \in Seq(Nat)
    BY DEF ElInv, ElFlowsKept
  <1>3. /\ m > 0 /\ deleted = 1 .. c /\ used \subseteq (c + 1) .. (c + m)
        /\ \A i \in 1 .. m : active[i] = c + m + 1 - i
        /\ ElAll = c + m
    BY <1>1, <1>2 DEF ElInv, ElFlowsKept, ElAll
  <1>4. PICK f \in Nat : f = c + m + 1
    OBVIOUS
  <1>5. f = Len(active) + Cardinality(deleted) + 1
    BY <1>1, <1>2, <1>4
  <1>6. PICK n \in 0 .. Len(active) :
          /\ Deletes(n)
          /\ active' = <<f>> \o SubSeq(active, 1, Len(active) - n)
          /\ deleted' = deleted \cup {active[i] : i \in (Len(active) - n + 1) .. Len(active)}
          /\ f \in isSource'
    BY <1>5 DEF LoadFlow
  <1>7. /\ style # "lockfree" /\ style' = style /\ up' = up /\ worker' = worker
        /\ IF up THEN PushSources(f) ELSE inQueue' = inQueue
        /\ used' = IF up THEN used \cup {f} ELSE used
    BY <1>5 DEF LoadFlow
  <1>8. n \in Nat /\ n <= m
    BY <1>2
  <1>9. PICK s : s = SubSeq(active, 1, m - n)
    OBVIOUS
  <1>10. s \in Seq(Nat) /\ Len(s) = m - n /\ \A i \in 1 .. m - n : s[i] = active[i]
    <2>1. \A i \in 1 .. m - n : active[i] \in Nat
      BY <1>2, <1>8
    <2> QED
      BY <1>2, <1>8, <1>9, <2>1, SubSeqProperties
  <1>11. PICK k \in Nat : k = m - n
    BY <1>8
  <1>13. PICK d \in Nat : d = c + n
    BY <1>8
  <1>12. PICK u \in Nat : u = c + m
    OBVIOUS
  <1>14. f = u + 1 /\ u = d + k
    BY <1>4, <1>8, <1>11, <1>12, <1>13
  <1>15. Descends(s, u, k)
    <2>1. ASSUME NEW i \in 1 .. k PROVE s[i] = u + 1 - i
      <3>1. i \in 1 .. m /\ i \in 1 .. m - n
        BY <1>8, <1>11
      <3> QED
        BY <1>3, <1>10, <1>12, <3>1
    <2> QED
      BY <1>10, <1>11, <2>1 DEF Descends
  <1>23. Descends(active', u + 1, k + 1)
    <2>1. active' = <<f>> \o s
      BY <1>2, <1>6, <1>9
    <2>2. PICK q : q = <<f>> \o s
      OBVIOUS
    <2>3. Descends(q, u + 1, k + 1)
      BY <1>14, <1>15, <2>2, ElActive
    <2>4. q = active'
      BY <2>1, <2>2
    <2> QED
      BY <2>3, <2>4
  <1>16. /\ active' \in Seq(Nat) /\ Len(active') = k + 1 /\ active'[1] = f
         /\ \A i \in 1 .. k + 1 : active'[i] = d + (k + 1) + 1 - i
    <2>1. active' \in Seq(Nat) /\ Len(active') = k + 1 /\ \A i \in 1 .. k + 1 : active'[i] = (u + 1) + 1 - i
      BY <1>23 DEF Descends
    <2>2. \A i \in 1 .. k + 1 : active'[i] = d + (k + 1) + 1 - i
      BY <1>14, <2>1
    <2>3. 1 \in 1 .. k + 1 /\ (u + 1) + 1 - 1 = u + 1
      OBVIOUS
    <2> QED
      BY <1>14, <2>1, <2>2, <2>3
  <1>17. deleted' = 1 .. d
    <2>1. ASSUME NEW x \in (m - n + 1) .. m PROVE active[x] \in (c + 1) .. d
      <3>1. x \in 1 .. m
        BY <1>8
      <3> QED
        BY <1>3, <1>8, <1>13, <3>1
    <2>2. ASSUME NEW y \in (c + 1) .. d PROVE \E x \in (m - n + 1) .. m : y = active[x]
      <3>1. PICK x \in Int : x = c + m + 1 - y
        OBVIOUS
      <3>2. x \in (m - n + 1) .. m /\ x \in 1 .. m /\ c + m + 1 - x = y
        BY <1>8, <1>13, <3>1
      <3> QED
        BY <1>3, <3>2
    <2>3. {active[i] : i \in (m - n + 1) .. m} = (c + 1) .. d
      BY <2>1, <2>2
    <2>4. deleted' = 1 .. c \cup (c + 1) .. d
      BY <1>2, <1>3, <1>6, <2>3
    <2> QED
      BY <1>8, <1>13, <2>4
  <1>18. Cardinality(deleted') = d
    BY <1>17, FS_Interval
  <1>19. used \subseteq (d + 1) .. (c + m)
    <2>1. ASSUME NEW x \in used PROVE x \in (d + 1) .. (c + m)
      <3>1. x \in (c + 1) .. (c + m)
        BY <1>3
      <3>2. ASSUME x \in (c + 1) .. d PROVE FALSE
        <4>1. PICK i \in Int : i = x - (c + 1)
          BY <3>1
        <4>2. i \in 0 .. (n - 1) /\ m - i \in 1 .. m /\ c + m + 1 - (m - i) = x
          BY <1>8, <1>13, <3>1, <3>2, <4>1
        <4>3. active[m - i] = x
          BY <1>3, <4>2
        <4>4. active[m - i] \notin used
          BY <1>2, <1>6, <4>2 DEF Deletes, HasInstances
        <4> QED
          BY <4>3, <4>4
      <3> QED
        BY <1>13, <3>1, <3>2
    <2> QED
      BY <2>1
  <1>20. ElAll' = d + (k + 1) /\ c + m <= d + (k + 1) /\ f \in (d + 1) .. (d + (k + 1))
    BY <1>8, <1>11, <1>13, <1>14, <1>16, <1>18 DEF ElAll
  <1>21. used' \subseteq (d + 1) .. (d + (k + 1))
    <2>1. used \subseteq (d + 1) .. (d + (k + 1))
      BY <1>19, <1>20
    <2> QED
      BY <1>7, <1>20, <2>1
  <1>22. ElFlowsKept'
    <2>1. active'[1] \in isSource'
      BY <1>6, <1>16
    <2>2. \A i \in 1 .. Len(active') : active'[i] = Cardinality(deleted') + Len(active') + 1 - i
      BY <1>16, <1>18
    <2>3. used' \subseteq (Cardinality(deleted') + 1) .. ElAll'
      BY <1>18, <1>20, <1>21
    <2>4. style' # "lockfree" /\ deleted' = 1 .. Cardinality(deleted') /\ Cardinality(deleted') \in Nat
      BY <1>7, <1>17, <1>18
    <2>5. active' \in Seq(Nat) /\ Len(active') > 0
      BY <1>16
    <2> QED
      BY <2>1, <2>2, <2>3, <2>4, <2>5 DEF ElFlowsKept
  <1> QED
    BY <1>3, <1>4, <1>7, <1>16, <1>22, ElLoads

LEMMA ElLoadFlowLF ==
  ASSUME ElInv, LoadFlowLF
  PROVE  ElInv'
  <1>1. /\ style = "lockfree" /\ style' = style /\ up' = up /\ worker' = worker /\ deleted' = deleted
        /\ active' = <<Len(active) + 1>> \o active
        /\ isSource' = (isSource \ {active[1]}) \cup {Len(active) + 1}
        /\ IF up THEN PushSources(Len(active) + 1) ELSE inQueue' = inQueue
        /\ used' = IF up THEN used \cup {Len(active) + 1} ELSE used
    BY DEF LoadFlowLF
  <1>2. deleted = {} /\ Cardinality(deleted) = 0
    <2>1. deleted = {} /\ deleted = 1 .. Cardinality(deleted) /\ Cardinality(deleted) \in Nat
      BY <1>1 DEF ElInv, ElFlowsKept
    <2>2. PICK c \in Nat : c = Cardinality(deleted)
      BY <2>1
    <2>3. 1 .. c = {}
      BY <2>1, <2>2
    <2>4. 1 \notin 1 .. c
      BY <2>3
    <2> QED
      BY <2>1, <2>2, <2>4
  <1>3. PICK m \in Nat : m = Len(active) /\ DOMAIN active = 1 .. m /\ active \in Seq(Nat)
    BY DEF ElInv, ElFlowsKept
  <1>4. /\ m > 0 /\ used \subseteq 1 .. m
        /\ \A i \in 1 .. m : active[i] = 0 + m + 1 - i
        /\ ElAll = m
    BY <1>2, <1>3, SMTT(30) DEF ElInv, ElFlowsKept, ElAll
  <1>5. PICK f \in Nat : f = m + 1
    OBVIOUS
  <1>6. active' = <<f>> \o active
    BY <1>1, <1>3, <1>5
  <1>13. Descends(active, m, m)
    BY <1>3, <1>4 DEF Descends
  <1>14. Descends(active', m + 1, m + 1)
    <2>1. PICK q : q = <<f>> \o active
      OBVIOUS
    <2>2. Descends(q, m + 1, m + 1)
      BY <1>5, <1>13, <2>1, ElActive
    <2> QED
      BY <1>6, <2>1, <2>2
  <1>7. /\ active' \in Seq(Nat) /\ Len(active') = m + 1 /\ active'[1] = 0 + m + 1
        /\ \A i \in 1 .. m + 1 : active'[i] = 0 + (m + 1) + 1 - i
    <2>1. 1 \in 1 .. m + 1
      OBVIOUS
    <2> QED
      BY <1>14, <2>1 DEF Descends
  <1>8. Cardinality(deleted') = 0 /\ deleted' = 1 .. 0 /\ deleted' = {}
    BY <1>1, <1>2
  <1>9. ElAll' = m + 1
    BY <1>7, <1>8 DEF ElAll
  <1>10. used' \subseteq 1 .. (m + 1)
    <2>1. used \subseteq 1 .. (m + 1) /\ m + 1 \in 1 .. (m + 1)
      BY <1>4
    <2>2. used' = used \/ used' = used \cup {m + 1}
      BY <1>1, <1>3
    <2> QED
      BY <2>1, <2>2
  <1>11. ElFlowsKept'
    <2>1. active'[1] \in isSource'
      BY <1>1, <1>3, <1>7
    <2>2. \A i \in 1 .. Len(active') : active'[i] = Cardinality(deleted') + Len(active') + 1 - i
      BY <1>7, <1>8
    <2>3. used' \subseteq (Cardinality(deleted') + 1) .. ElAll'
      BY <1>8, <1>9, <1>10
    <2>4. deleted' = {} /\ deleted' = 1 .. Cardinality(deleted') /\ Cardinality(deleted') \in Nat
      BY <1>8
    <2>5. active' \in Seq(Nat) /\ Len(active') > 0
      BY <1>7
    <2> QED
      BY <2>1, <2>2, <2>3, <2>4, <2>5 DEF ElFlowsKept
  <1>12. f = Len(active) + 1 /\ f = ElAll + 1 /\ active'[1] = f
    BY <1>3, <1>4, <1>5, <1>7
  <1> QED
    BY <1>1, <1>11, <1>12, ElLoads

-----------------------------------------------------------------------------
LEMMA ElInitial ==
  ASSUME ElInit
  PROVE  ElInv
  <1>1. /\ style \in ElStyles /\ up = FALSE /\ active = <<1>> /\ deleted = {} /\ isSource = {1}
        /\ used = {} /\ inQueue = <<>> /\ worker = [t \in ElThread |-> Idle]
    BY DEF ElInit
  <1>2. PICK w : w = [pc |-> "idle", ev |-> ElNone, rc |-> 0, n |-> 0]
    OBVIOUS
  <1>3. worker = [t \in ElThread |-> w]
    BY <1>1, <1>2 DEF Idle, Resting
  <1>4. w.pc = "idle" /\ w.ev = ElNone /\ w.rc = 0 /\ w.n = 0
        /\ w = [pc |-> w.pc, ev |-> w.ev, rc |-> w.rc, n |-> w.n]
    BY <1>2
  <1>5. ElWorkers
    BY <1>3, <1>4 DEF ElWorkers, ElPC
  <1>6. inQueue \in Seq({})
    BY <1>1
  <1>7. ElTypes
    BY <1>1, <1>5, <1>6, EventLifeAssumption DEF ElTypes
  <1>8. ElFlowsKept
    <2>1. Cardinality(deleted) = 0 /\ deleted = 1 .. 0
      BY <1>1, FS_EmptySet
    <2>2. active \in Seq(Nat) /\ Len(active) = 1 /\ active[1] = 1
      BY <1>1
    <2> QED
      BY <1>1, <2>1, <2>2 DEF ElFlowsKept
  <1>9. ElSound
    BY <1>1, <1>3, <1>4 DEF ElSound, HasEvent, Busy
  <1>10. OneSourceEvent
    BY <1>1 DEF OneSourceEvent
  <1> QED
    BY <1>7, <1>8, <1>9, <1>10 DEF ElInv

LEMMA ElStep ==
  ASSUME ElInv, ElNext
  PROVE  ElInv'
  <1>1. CASE \E t \in ElThread : TakeEvent(t) \/ Rest(t) \/ ExecuteNode(t) \/ Meld(t) \/ Handle(t)
    BY <1>1, ElTakeEvent, ElRest, ElExecuteNode, ElMeld, ElHandle
  <1> QED
    BY <1>1, ElStart, ElLoadFlow, ElLoadFlowLF DEF ElNext

LEMMA ElStutter ==
  ASSUME ElInv, UNCHANGED elvars
  PROVE  ElInv'
  <1>1. /\ style' = style /\ up' = up /\ active' = active /\ deleted' = deleted
        /\ isSource' = isSource /\ used' = used /\ inQueue' = inQueue /\ worker' = worker
    BY DEF elvars, elflows
  <1>2. ElTypes'
    BY <1>1 DEF ElInv, ElTypes, ElWorkers
  <1>3. ElFlowsKept'
    BY <1>1 DEF ElInv, ElFlowsKept, ElAll
  <1>4. Busy' = Busy
    BY <1>1 DEF Busy
  <1>5. ElSound'
    BY <1>1, <1>4 DEF ElInv, ElSound, HasEvent
  <1>6. OneSourceEvent'
    BY <1>1, <1>4 DEF ElInv, OneSourceEvent, EventPlaces, EventAt, OfCurrentSource
  <1> QED
    BY <1>2, <1>3, <1>5, <1>6 DEF ElInv

LEMMA ElKept ==
  ASSUME ElInv
  PROVE  InputsLive /\ NodesLive /\ OneSourceEvent
  <1>1. \A e \in Waiting : SoundEvent(e, used)
    BY DEF ElInv, ElSound, Waiting
  <1>2. \A e \in Working : SoundEvent(e, used)
    BY DEF ElInv, ElSound, Working, HasEvent
  <1>3. \A e \in Readers : SoundEvent(e, used)
    <2>1. \A t \in ElThread : worker[t].pc = "run" \/ worker[t].rc # 0 => SoundEvent(worker[t].ev, used)
      BY DEF ElInv, ElSound, ElTypes, ElWorkers, ElPC, HasEvent
    <2> QED
      BY <1>1, <2>1 DEF Readers
  <1>4. InputsLive
    BY <1>3 DEF InputsLive, SoundEvent
  <1>5. NodesLive
    <2>1. used \cap deleted = {}
      BY ElFlowNumbers DEF ElInv
    <2> QED
      BY <1>1, <1>2, <2>1 DEF NodesLive, SoundEvent
  <1> QED
    BY <1>4, <1>5 DEF ElInv

-----------------------------------------------------------------------------
(***************************************************************************)
(* The circular buffer, for any number of submitters fewer than its places *)
(* and any number of items.                                                *)
(*                                                                         *)
(* An item is planted only within _out's reach, with one place to spare:   *)
(* so no two items in reach share a place, and the place before the one of *)
(* _out, which a thread looks at last, is always empty for it.  Whoever    *)
(* moves _half_out on is alone until it moves _out on; and then it is the  *)
(* one that looks at the next place, so that an item planted before that   *)
(* is found, while one planted later is found by its own submitter.        *)
(***************************************************************************)
CbPlanters == {"spot", "full", "plant"}
CbLookers  == {"item", "before", "claim"}
CbOwners   == {"clear", "run2", "out"}
CbPC == {"idle", "turn"} \cup CbPlanters \cup CbLookers \cup CbOwners

\* An item that was submitted and not run: it is planted unless its submitter has it.
Pending(x) == \E t \in CbThread : cpc[t] \in CbPlanters /\ cbin[t] = x
Planted(x) == x \in Nat /\ cout <= x /\ x < cin /\ ~Pending(x)
Owned == \E t \in CbThread : cpc[t] \in CbOwners

CbTypes ==
  /\ cin \in Nat /\ halfOut \in Nat /\ cout \in Nat /\ ran \in Nat
  /\ array \in [0 .. CbSize - 1 -> Nat \cup {NoItem}]
  /\ cpc \in [CbThread -> CbPC] /\ cbin \in [CbThread -> Nat]
  /\ seenIn \in [CbThread -> Nat] /\ tmp \in [CbThread -> Nat \cup {NoItem}]

\* Each has a ticket of its own, and plants when the places from _out on are enough for it.
CbTickets ==
  /\ cout <= cin
  /\ \A t \in CbThread : cpc[t] \in CbPlanters => cout <= cbin[t] /\ cbin[t] < cin
  /\ \A t, u \in CbThread : cpc[t] \in CbPlanters /\ cpc[u] \in CbPlanters /\ cbin[t] = cbin[u] => t = u
  /\ \A t \in CbThread : cpc[t] = "full" => cbin[t] < seenIn[t]
  /\ \A t \in CbThread : cpc[t] = "plant" => cbin[t] + 1 < cout + CbSize

\* The array has what is planted, and nothing else.
CbArray ==
  /\ \A i \in 0 .. CbSize - 1 : \A x : array[i] = x /\ x # NoItem =>
       Planted(x) /\ x + 1 < cout + CbSize /\ Place(x) = i
  /\ \A x \in Nat : Planted(x) => array[Place(x)] = x
                      \/ (x = cout /\ \E t \in CbThread : cpc[t] \in {"run2", "out"})

\* One thread at a time runs the item of _out.
CbOne ==
  /\ \A t \in CbThread : cpc[t] \in CbLookers => cbin[t] <= cout
  /\ \A t \in CbThread : cpc[t] \in {"before", "claim"} /\ cbin[t] = cout => tmp[t] = cout /\ Planted(cout)
  /\ \A t \in CbThread : cpc[t] \in CbOwners => cbin[t] = cout /\ halfOut = cout + 1 /\ Planted(cout)
  /\ \A t \in CbThread : cpc[t] \in {"clear", "run2"} => tmp[t] = cout /\ ran = cout
  /\ \A t \in CbThread : cpc[t] \in {"run2", "out"} => array[Place(cout)] = NoItem
  /\ \A t \in CbThread : cpc[t] = "out" => ran = cout + 1
  /\ \A t, u \in CbThread : cpc[t] \in CbOwners /\ cpc[u] \in CbOwners => t = u
  /\ ~Owned => halfOut = cout /\ ran = cout

\* Somebody is about to find the item of _out, if it is planted and nobody runs it.
CbSeen ==
  ~Owned /\ Planted(cout) => \E t \in CbThread : cpc[t] \in CbLookers \cup {"turn"} /\ cbin[t] = cout

CbInv == CbTypes /\ CbTickets /\ CbArray /\ CbOne /\ CbSeen

-----------------------------------------------------------------------------
\* Two items that are both in the array's reach have places of their own.
LEMMA CbApart ==
  ASSUME NEW n \in Nat \ {0}, NEW i \in Int, NEW j \in Int, i - j < n, j - i < n, i % n = j % n
  PROVE  i = j
  <1> SUFFICES ASSUME i # j PROVE FALSE
    OBVIOUS
  <1> DEFINE d == (i \div n) - (j \div n)
  <1>1. i = (n * (i \div n)) + (i % n) /\ j = (n * (j \div n)) + (j % n)
    OBVIOUS
  <1>2. d \in Int /\ i \div n \in Int /\ j \div n \in Int /\ i % n \in Int
    OBVIOUS
  <1>3. i - j = n * d
    BY <1>1, <1>2
  <1> HIDE DEF d
  <1>4. d = 0 \/ d >= 1 \/ d <= -1
    BY <1>2
  <1>5. n * d = 0 \/ n * d >= n \/ n * d <= -n
    BY <1>2, <1>4
  <1> QED
    BY <1>3, <1>5

LEMMA CbPlace ==
  /\ \A x \in Nat : Place(x) \in 0 .. CbSize - 1
  /\ \A x, y, c \in Nat : Place(x) = Place(y) /\ c <= x /\ x < c + CbSize /\ c <= y /\ y < c + CbSize => x = y
  <1>1. CbSize \in Nat \ {0}
    BY CbAssumption
  <1>2. \A x \in Nat : Place(x) \in 0 .. CbSize - 1
    BY <1>1 DEF Place
  <1>3. ASSUME NEW x \in Nat, NEW y \in Nat, NEW c \in Nat, Place(x) = Place(y),
               c <= x, x < c + CbSize, c <= y, y < c + CbSize
        PROVE  x = y
    <2>1. x - y < CbSize /\ y - x < CbSize /\ x \in Int /\ y \in Int
      BY <1>1, <1>3
    <2>2. x % CbSize = y % CbSize
      BY <1>3 DEF Place
    <2> QED
      BY <1>1, <2>1, <2>2, CbApart
  <1> QED
    BY <1>2, <1>3

\* The place of an item in reach is empty or has that item.
LEMMA CbAt ==
  ASSUME CbInv, NEW x \in Nat, cout <= x, x < cout + CbSize
  PROVE  array[Place(x)] = NoItem \/ array[Place(x)] = x
  <1>1. Place(x) \in 0 .. CbSize - 1 /\ cout \in Nat /\ CbSize \in Nat
    BY CbPlace, CbAssumption DEF CbInv, CbTypes
  <1>2. CASE array[Place(x)] # NoItem
    <2>1. PICK y : y = array[Place(x)]
      OBVIOUS
    <2>2. Planted(y) /\ y + 1 < cout + CbSize /\ Place(y) = Place(x)
      BY <1>1, <1>2, <2>1 DEF CbInv, CbArray
    <2>3. y \in Nat /\ cout <= y /\ y < cout + CbSize
      BY <1>1, <2>2 DEF Planted
    <2> QED
      BY <1>1, <2>1, <2>2, <2>3, CbPlace
  <1> QED
    BY <1>2

-----------------------------------------------------------------------------
CbOthers(t) ==
  \A u \in CbThread \ {t} : cpc'[u] = cpc[u] /\ cbin'[u] = cbin[u] /\ seenIn'[u] = seenIn[u] /\ tmp'[u] = tmp[u]

LEMMA CbDoneTyped ==
  ASSUME CbTypes, NEW t \in CbThread, CbDone(t),
         UNCHANGED <<cin, halfOut, cout, array, seenIn, ran>>
  PROVE  CbTypes' /\ CbOthers(t) /\ cpc'[t] = "idle" /\ cbin'[t] = 0
  <1>1. cpc' = [cpc EXCEPT ![t] = "idle"] /\ cbin' = [cbin EXCEPT ![t] = 0] /\ tmp' = [tmp EXCEPT ![t] = NoItem]
    BY DEF CbDone
  <1>2. cpc'[t] = "idle" /\ cbin'[t] = 0 /\ CbOthers(t)
    BY <1>1 DEF CbTypes, CbOthers
  <1>3. cpc' \in [CbThread -> CbPC] /\ cbin' \in [CbThread -> Nat] /\ tmp' \in [CbThread -> Nat \cup {NoItem}]
    BY <1>1 DEF CbTypes, CbPC
  <1> QED
    BY <1>2, <1>3 DEF CbTypes

CbStep(t) == \/ Reserve(t) \/ SpotFree(t) \/ NotFull(t) \/ Plant(t) \/ Turn(t) \/ ReadItem(t) \/ PreviousGone(t)
             \/ Claim(t) \/ Clear(t) \/ Run2(t) \/ Out(t)

LEMMA CbTyped ==
  ASSUME CbTypes, NEW t \in CbThread, CbStep(t)
  PROVE  CbTypes' /\ CbOthers(t)
  <1> USE DEF CbTypes, CbOthers, CbPC, CbPlanters, CbLookers, CbOwners
  <1>0. CbSize \in Nat \ {0}
    BY CbAssumption
  <1>1. CASE Reserve(t)
    BY <1>1 DEF Reserve, CbGo
  <1>2. CASE SpotFree(t)
    BY <1>2 DEF SpotFree, CbGo
  <1>3. CASE NotFull(t)
    BY <1>3 DEF NotFull
  <1>4. CASE Plant(t)
    <2>1. Place(cbin[t]) \in 0 .. CbSize - 1
      BY CbPlace
    <2> QED
      BY <1>4, <2>1 DEF Plant
  <1>5. CASE Turn(t)
    <2>1. CASE cout = cbin[t]
      BY <1>5, <2>1 DEF Turn
    <2>2. CASE cout # cbin[t]
      BY <1>5, <2>2, CbDoneTyped DEF Turn
    <2> QED
      BY <2>1, <2>2
  <1>6. CASE ReadItem(t)
    <2>1. array[Place(cbin[t])] \in Nat \cup {NoItem}
      BY CbPlace
    <2>2. CASE array[Place(cbin[t])] # NoItem
      BY <1>6, <2>1, <2>2 DEF ReadItem
    <2>3. CASE array[Place(cbin[t])] = NoItem
      BY <1>6, <2>3, CbDoneTyped DEF ReadItem
    <2> QED
      BY <2>2, <2>3
  <1>7. CASE PreviousGone(t)
    <2>1. CASE cbin[t] = 0 \/ array[Place(cbin[t] + CbSize - 1)] = NoItem
      BY <1>7, <2>1 DEF PreviousGone
    <2>2. CASE ~(cbin[t] = 0 \/ array[Place(cbin[t] + CbSize - 1)] = NoItem)
      BY <1>7, <2>2, CbDoneTyped DEF PreviousGone
    <2> QED
      BY <2>1, <2>2
  <1>8. CASE Claim(t)
    <2>1. CASE halfOut = cbin[t]
      <3>1. /\ cpc' = [cpc EXCEPT ![t] = "clear"] /\ halfOut' = cbin[t] + 1
            /\ UNCHANGED <<cbin, tmp, cin, cout, array, seenIn, ran>>
        BY <1>8, <2>1 DEF Claim
      <3> QED
        BY <3>1
    <2>2. CASE halfOut # cbin[t]
      BY <1>8, <2>2, CbDoneTyped DEF Claim
    <2> QED
      BY <2>1, <2>2
  <1>9. CASE Clear(t)
    <2>1. Place(cbin[t]) \in 0 .. CbSize - 1
      BY CbPlace
    <2> QED
      BY <1>9, <2>1 DEF Clear, CbGo
  <1>10. CASE Run2(t)
    BY <1>10 DEF Run2, CbGo
  <1>11. CASE Out(t)
    BY <1>11 DEF Out, CbGo
  <1> QED
    BY <1>1, <1>2, <1>3, <1>4, <1>5, <1>6, <1>7, <1>8, <1>9, <1>10, <1>11 DEF CbStep

\* A step of a thread that owns nothing, by which the same items are planted.
LEMMA CbSame ==
  ASSUME CbInv, NEW t \in CbThread, CbTypes', CbOthers(t), CbTickets',
         \A x : Planted(x)' <=> Planted(x),
         halfOut' = halfOut, cout' = cout, array' = array, ran' = ran,
         cpc[t] \notin CbOwners, cpc'[t] \notin CbOwners,
         cpc'[t] \in CbLookers => cbin'[t] <= cout,
         cpc'[t] \in {"before", "claim"} /\ cbin'[t] = cout => tmp'[t] = cout /\ Planted(cout),
         ~Owned /\ Planted(cout) /\ cpc[t] \in CbLookers \cup {"turn"} /\ cbin[t] = cout =>
           cpc'[t] \in CbLookers \cup {"turn"} /\ cbin'[t] = cout
  PROVE  CbInv'
  <1>3. Owned' <=> Owned
    BY DEF Owned, CbOthers
  <1>5. \A p \in {"run2", "out", "clear"} : \A u \in CbThread : cpc'[u] = p <=> cpc[u] = p
    BY DEF CbOthers, CbOwners
  <1>6. CbArray'
    BY <1>5 DEF CbInv, CbArray
  <1>7. CbOne'
    <2>1. \A u \in CbThread : cpc'[u] \in CbLookers => cbin'[u] <= cout
      BY DEF CbOthers, CbInv, CbOne
    <2>2. \A u \in CbThread : cpc'[u] \in {"before", "claim"} /\ cbin'[u] = cout => tmp'[u] = cout /\ Planted(cout)
      BY DEF CbOthers, CbInv, CbOne
    <2>3. \A u \in CbThread : cpc'[u] \in CbOwners => u # t /\ cpc[u] = cpc'[u] /\ cbin'[u] = cbin[u] /\ tmp'[u] = tmp[u]
      BY DEF CbOthers
    <2>4. \A u \in CbThread : cpc'[u] \in CbOwners => cbin'[u] = cout /\ halfOut = cout + 1 /\ Planted(cout)
      BY <2>3 DEF CbInv, CbOne
    <2>5. \A u \in CbThread : cpc'[u] \in {"clear", "run2"} => tmp'[u] = cout /\ ran = cout
      BY <2>3 DEF CbInv, CbOne, CbOwners
    <2>6. \A u \in CbThread : cpc'[u] \in {"run2", "out"} => array[Place(cout)] = NoItem
      BY <2>3 DEF CbInv, CbOne, CbOwners
    <2>7. \A u \in CbThread : cpc'[u] = "out" => ran = cout + 1
      BY <2>3 DEF CbInv, CbOne, CbOwners
    <2>8. \A u, v \in CbThread : cpc'[u] \in CbOwners /\ cpc'[v] \in CbOwners => u = v
      BY <2>3 DEF CbInv, CbOne
    <2> QED
      BY <1>3, <2>1, <2>2, <2>4, <2>5, <2>6, <2>7, <2>8 DEF CbInv, CbOne
  <1>8. CbSeen'
    <2>1. SUFFICES ASSUME ~Owned, Planted(cout)
                   PROVE  \E u \in CbThread : cpc'[u] \in CbLookers \cup {"turn"} /\ cbin'[u] = cout
      BY <1>3 DEF CbSeen
    <2>2. PICK u \in CbThread : cpc[u] \in CbLookers \cup {"turn"} /\ cbin[u] = cout
      BY <2>1 DEF CbInv, CbSeen
    <2>3. cpc'[u] \in CbLookers \cup {"turn"} /\ cbin'[u] = cout
      BY <2>1, <2>2 DEF CbOthers
    <2> QED
      BY <2>3
  <1> QED
    BY <1>6, <1>7, <1>8 DEF CbInv

\* The same for a step that leaves the tickets alone.
LEMMA CbQuiet ==
  ASSUME CbInv, NEW t \in CbThread, CbTypes', CbOthers(t),
         cin' = cin, halfOut' = halfOut, cout' = cout, array' = array, ran' = ran,
         cpc[t] \in CbPlanters <=> cpc'[t] \in CbPlanters, cpc[t] \in CbPlanters => cbin'[t] = cbin[t],
         cpc'[t] = "full" => cbin'[t] < seenIn'[t], cpc'[t] = "plant" => cbin'[t] + 1 < cout + CbSize,
         cpc[t] \notin CbOwners, cpc'[t] \notin CbOwners,
         cpc'[t] \in CbLookers => cbin'[t] <= cout,
         cpc'[t] \in {"before", "claim"} /\ cbin'[t] = cout => tmp'[t] = cout /\ Planted(cout),
         ~Owned /\ Planted(cout) /\ cpc[t] \in CbLookers \cup {"turn"} /\ cbin[t] = cout =>
           cpc'[t] \in CbLookers \cup {"turn"} /\ cbin'[t] = cout
  PROVE  CbInv'
  <1>1. \A x : Pending(x)' <=> Pending(x)
    BY DEF Pending, CbOthers
  <1>2. \A x : Planted(x)' <=> Planted(x)
    BY <1>1 DEF Planted
  <1>4. CbTickets'
    <2>1. \A u \in CbThread : cpc'[u] \in CbPlanters => cpc[u] \in CbPlanters /\ cbin'[u] = cbin[u]
      BY DEF CbOthers
    <2>2. \A u \in CbThread : cpc'[u] = "full" => cbin'[u] < seenIn'[u]
      BY DEF CbOthers, CbInv, CbTickets
    <2>3. \A u \in CbThread : cpc'[u] = "plant" => cbin'[u] + 1 < cout + CbSize
      BY DEF CbOthers, CbInv, CbTickets
    <2> QED
      BY <2>1, <2>2, <2>3 DEF CbInv, CbTickets
  <1> QED
    BY <1>2, <1>4, CbSame

LEMMA CbReserve ==
  ASSUME CbInv, NEW t \in CbThread, Reserve(t)
  PROVE  CbInv'
  <1>1. CbTypes' /\ CbOthers(t)
    BY CbTyped DEF CbStep, CbInv
  <1>2. cpc[t] = "idle" /\ cpc'[t] = "spot" /\ cbin'[t] = cin /\ cin' = cin + 1 /\ cin \in Nat
    BY DEF Reserve, CbGo, CbInv, CbTypes
  <1>3. cpc[t] \notin CbPlanters /\ cpc'[t] \in CbPlanters /\ cpc'[t] \notin CbOwners /\ cpc[t] \notin CbOwners
        /\ cpc'[t] \notin CbLookers \cup {"turn"} /\ cpc[t] \notin CbLookers \cup {"turn"}
    BY <1>2 DEF CbPlanters, CbOwners, CbLookers
  <1>4. UNCHANGED <<halfOut, cout, array, ran>>
    BY DEF Reserve
  <1>5. \A x : Pending(x)' <=> Pending(x) \/ x = cin
    BY <1>1, <1>2, <1>3 DEF Pending, CbOthers
  <1>6. \A x : Planted(x)' <=> Planted(x)
    BY <1>2, <1>4, <1>5 DEF Planted, CbInv, CbTypes, CbTickets
  <1>7. CbTickets'
    <2>1. \A u \in CbThread : cpc'[u] \in CbPlanters =>
            u = t \/ (cpc[u] \in CbPlanters /\ cbin'[u] = cbin[u] /\ cbin[u] < cin /\ cbin[u] \in Nat)
      BY <1>1 DEF CbOthers, CbInv, CbTickets, CbTypes
    <2>2. \A u \in CbThread : cpc'[u] = "full" => cbin'[u] < seenIn'[u]
      BY <1>1, <1>2 DEF CbOthers, CbInv, CbTickets
    <2>3. \A u \in CbThread : cpc'[u] = "plant" => cbin'[u] + 1 < cout + CbSize
      BY <1>1, <1>2 DEF CbOthers, CbInv, CbTickets
    <2>4. cout <= cin /\ cout \in Nat
      BY DEF CbInv, CbTypes, CbTickets
    <2>5. \A u \in CbThread : cpc'[u] \in CbPlanters => cout <= cbin'[u] /\ cbin'[u] < cin + 1
      BY <1>2, <2>1, <2>4 DEF CbInv, CbTickets
    <2>6. \A u, v \in CbThread : cpc'[u] \in CbPlanters /\ cpc'[v] \in CbPlanters /\ cbin'[u] = cbin'[v] => u = v
      BY <1>2, <2>1 DEF CbInv, CbTickets
    <2> QED
      BY <1>2, <1>4, <2>2, <2>3, <2>4, <2>5, <2>6 DEF CbTickets
  <1> QED
    BY <1>1, <1>2, <1>3, <1>4, <1>6, <1>7, CbSame

LEMMA CbLooks ==
  ASSUME CbInv, NEW t \in CbThread,
         \/ SpotFree(t) \/ NotFull(t) \/ Turn(t) \/ ReadItem(t) \/ PreviousGone(t)
         \/ Claim(t) /\ halfOut # cbin[t]
         \/ Plant(t) /\ array[Place(cbin[t])] # NoItem
  PROVE  CbInv'
  <1>1. CbTypes' /\ CbOthers(t)
    BY CbTyped DEF CbStep, CbInv
  <1>2. CbTypes /\ CbSize \in Nat \ {0}
    BY CbAssumption DEF CbInv
  <1>3. CASE SpotFree(t)
    <2>1. cpc[t] = "spot" /\ cpc'[t] = "full" /\ cbin'[t] = cbin[t] /\ seenIn'[t] = cin
          /\ UNCHANGED <<cin, halfOut, cout, array, ran>>
      BY <1>2, <1>3 DEF SpotFree, CbGo, CbTypes
    <2>2. cpc[t] \in CbPlanters /\ cpc'[t] \in CbPlanters /\ cpc'[t] \notin CbOwners /\ cpc[t] \notin CbOwners
          /\ cpc'[t] \notin CbLookers /\ cpc[t] \notin CbLookers \cup {"turn"}
      BY <2>1 DEF CbPlanters, CbOwners, CbLookers
    <2>3. cbin[t] < cin
      BY <2>2 DEF CbInv, CbTickets
    <2> QED
      BY <1>1, <2>1, <2>2, <2>3, CbQuiet
  <1>4. CASE NotFull(t)
    <2>1. cpc[t] = "full" /\ cpc'[t] = (IF seenIn[t] - cout > CbSize - 1 THEN "spot" ELSE "plant") /\ cbin'[t] = cbin[t]
          /\ UNCHANGED <<cin, halfOut, cout, array, ran>>
      BY <1>2, <1>4 DEF NotFull, CbTypes
    <2>2. cpc[t] \in CbPlanters /\ cpc'[t] \in CbPlanters /\ cpc'[t] \notin CbOwners /\ cpc[t] \notin CbOwners
          /\ cpc'[t] \notin CbLookers /\ cpc[t] \notin CbLookers \cup {"turn"} /\ cpc'[t] # "full"
      BY <2>1 DEF CbPlanters, CbOwners, CbLookers
    <2>3. cpc'[t] = "plant" => cbin[t] + 1 < cout + CbSize
      <3>1. cbin[t] < seenIn[t] /\ cbin[t] \in Nat /\ seenIn[t] \in Nat /\ cout \in Nat
        BY <1>2, <2>1 DEF CbInv, CbTickets, CbTypes
      <3> QED
        BY <1>2, <2>1, <3>1
    <2> QED
      BY <1>1, <2>1, <2>2, <2>3, CbQuiet
  <1>5. CASE Turn(t)
    <2>1. cpc[t] = "turn" /\ UNCHANGED <<cin, halfOut, cout, array, ran>>
      BY <1>5 DEF Turn
    <2>2. \/ cout = cbin[t] /\ cpc'[t] = "item" /\ cbin'[t] = cbin[t]
          \/ cout # cbin[t] /\ cpc'[t] = "idle"
      <3>1. CASE cout = cbin[t]
        BY <1>2, <1>5, <3>1 DEF Turn, CbTypes
      <3>2. CASE cout # cbin[t]
        BY <1>2, <1>5, <3>2, CbDoneTyped DEF Turn
      <3> QED
        BY <3>1, <3>2
    <2>3. cpc[t] \notin CbPlanters /\ cpc'[t] \notin CbPlanters /\ cpc'[t] \notin CbOwners /\ cpc[t] \notin CbOwners
          /\ cpc'[t] \notin {"full", "plant", "before", "claim"}
          /\ (cpc'[t] = "item" <=> cpc'[t] \in CbLookers)
      BY <2>1, <2>2 DEF CbPlanters, CbOwners, CbLookers
    <2>4. cpc'[t] \in CbLookers => cbin'[t] <= cout
      <3>1. cout \in Nat
        BY <1>2 DEF CbTypes
      <3> QED
        BY <2>2, <2>3, <3>1
    <2>5. cbin[t] = cout => cpc'[t] = "item" /\ cbin'[t] = cout
      BY <2>2
    <2> QED
      BY <1>1, <2>1, <2>3, <2>4, <2>5, CbQuiet
  <1>6. CASE ReadItem(t)
    <2>1. cpc[t] = "item" /\ cbin[t] <= cout /\ UNCHANGED <<cin, halfOut, cout, array, ran>> /\ cbin[t] \in Nat /\ cout \in Nat
      BY <1>2, <1>6 DEF ReadItem, CbInv, CbOne, CbLookers, CbTypes
    <2>2. \/ array[Place(cbin[t])] # NoItem /\ cpc'[t] = "before" /\ cbin'[t] = cbin[t] /\ tmp'[t] = array[Place(cbin[t])]
          \/ array[Place(cbin[t])] = NoItem /\ cpc'[t] = "idle"
      <3>1. CASE array[Place(cbin[t])] # NoItem
        BY <1>2, <1>6, <3>1 DEF ReadItem, CbTypes
      <3>2. CASE array[Place(cbin[t])] = NoItem
        BY <1>2, <1>6, <3>2, CbDoneTyped DEF ReadItem
      <3> QED
        BY <3>1, <3>2
    <2>3. cpc[t] \notin CbPlanters /\ cpc'[t] \notin CbPlanters /\ cpc'[t] \notin CbOwners /\ cpc[t] \notin CbOwners
          /\ cpc'[t] \notin {"full", "plant"} /\ (cpc'[t] = "before" <=> cpc'[t] \in CbLookers)
      BY <2>1, <2>2 DEF CbPlanters, CbOwners, CbLookers
    <2>4. cpc'[t] = "before" /\ cbin'[t] = cout => tmp'[t] = cout /\ Planted(cout)
      <3>1. SUFFICES ASSUME cpc'[t] = "before", cbin'[t] = cout PROVE tmp'[t] = cout /\ Planted(cout)
        OBVIOUS
      <3>2. cbin[t] = cout /\ array[Place(cout)] # NoItem /\ tmp'[t] = array[Place(cout)]
        BY <2>2, <3>1
      <3>3. array[Place(cout)] = cout
        BY <1>2, <2>1, <3>2, CbAt
      <3>4. Place(cout) \in 0 .. CbSize - 1
        BY <2>1, CbPlace
      <3> QED
        BY <3>2, <3>3, <3>4 DEF CbInv, CbArray
    <2>5. ~Owned /\ Planted(cout) /\ cbin[t] = cout => cpc'[t] = "before"
      <3>1. SUFFICES ASSUME ~Owned, Planted(cout), cbin[t] = cout PROVE array[Place(cout)] # NoItem
        BY <2>2
      <3>2. array[Place(cout)] = cout
        BY <2>1, <3>1 DEF CbInv, CbArray, Owned, CbOwners
      <3> QED
        BY <2>1, <3>2 DEF NoItem
    <2> QED
      BY <1>1, <2>1, <2>2, <2>3, <2>4, <2>5, CbQuiet
  <1>7. CASE PreviousGone(t)
    <2>1. cpc[t] = "before" /\ cbin[t] <= cout /\ UNCHANGED <<cin, halfOut, cout, array, ran>> /\ cbin[t] \in Nat /\ cout \in Nat
      BY <1>2, <1>7 DEF PreviousGone, CbInv, CbOne, CbLookers, CbTypes
    <2>2. \/ cpc'[t] = "claim" /\ cbin'[t] = cbin[t] /\ tmp'[t] = tmp[t]
          \/ array[Place(cbin[t] + CbSize - 1)] # NoItem /\ cpc'[t] = "idle"
      <3>1. CASE cbin[t] = 0 \/ array[Place(cbin[t] + CbSize - 1)] = NoItem
        BY <1>2, <1>7, <3>1 DEF PreviousGone, CbTypes
      <3>2. CASE ~(cbin[t] = 0 \/ array[Place(cbin[t] + CbSize - 1)] = NoItem)
        BY <1>2, <1>7, <3>2, CbDoneTyped DEF PreviousGone
      <3> QED
        BY <3>1, <3>2
    <2>3. cpc[t] \notin CbPlanters /\ cpc'[t] \notin CbPlanters /\ cpc'[t] \notin CbOwners /\ cpc[t] \notin CbOwners
          /\ cpc'[t] \notin {"full", "plant"} /\ (cpc'[t] = "claim" <=> cpc'[t] \in CbLookers)
      BY <2>1, <2>2 DEF CbPlanters, CbOwners, CbLookers
    <2>4. cpc'[t] = "claim" /\ cbin'[t] = cout => tmp'[t] = cout /\ Planted(cout)
      BY <2>1, <2>2 DEF CbInv, CbOne
    <2>5. cbin[t] = cout => cpc'[t] = "claim"
      <3>1. SUFFICES ASSUME cbin[t] = cout, array[Place(cout + CbSize - 1)] # NoItem PROVE FALSE
        BY <2>2
      <3>2. PICK last \in Nat : last = cout + CbSize - 1
        BY <1>2, <2>1
      <3>3. cout <= last /\ last < cout + CbSize
        BY <1>2, <2>1, <3>2
      <3>4. array[Place(last)] = last /\ Place(last) \in 0 .. CbSize - 1
        BY <3>1, <3>2, <3>3, CbAt, CbPlace
      <3>5. last + 1 < cout + CbSize
        BY <3>1, <3>2, <3>4 DEF CbInv, CbArray
      <3> QED
        BY <1>2, <2>1, <3>2, <3>5
    <2> QED
      BY <1>1, <2>1, <2>2, <2>3, <2>4, <2>5, CbQuiet
  <1>8. CASE Claim(t) /\ halfOut # cbin[t]
    <2>1. cpc[t] = "claim" /\ cpc'[t] = "idle" /\ UNCHANGED <<cin, halfOut, cout, array, ran>>
      BY <1>2, <1>8, CbDoneTyped DEF Claim
    <2>2. cpc[t] \notin CbPlanters /\ cpc'[t] \notin CbPlanters /\ cpc'[t] \notin CbOwners /\ cpc[t] \notin CbOwners
          /\ cpc'[t] \notin {"full", "plant"} /\ cpc'[t] \notin CbLookers /\ cpc'[t] \notin {"before", "claim"}
      BY <2>1 DEF CbPlanters, CbOwners, CbLookers
    <2>3. ~Owned => cbin[t] # cout
      BY <1>8 DEF CbInv, CbOne
    <2> QED
      BY <1>1, <2>1, <2>2, <2>3, CbQuiet
  <1>9. CASE Plant(t) /\ array[Place(cbin[t])] # NoItem
    <2>1. cpc[t] = "plant" /\ cpc'[t] = "spot" /\ cbin'[t] = cbin[t] /\ UNCHANGED <<cin, halfOut, cout, array, ran>>
      BY <1>2, <1>9 DEF Plant, CbTypes
    <2>2. cpc[t] \in CbPlanters /\ cpc'[t] \in CbPlanters /\ cpc'[t] \notin CbOwners /\ cpc[t] \notin CbOwners
          /\ cpc'[t] \notin CbLookers /\ cpc[t] \notin CbLookers \cup {"turn"} /\ cpc'[t] \notin {"full", "plant", "before", "claim"}
      BY <2>1 DEF CbPlanters, CbOwners, CbLookers
    <2> QED
      BY <1>1, <2>1, <2>2, CbQuiet
  <1> QED
    BY <1>3, <1>4, <1>5, <1>6, <1>7, <1>8, <1>9

LEMMA CbPlants ==
  ASSUME CbInv, NEW t \in CbThread, Plant(t), array[Place(cbin[t])] = NoItem
  PROVE  CbInv'
  <1>1. CbTypes' /\ CbOthers(t) /\ CbTypes /\ CbSize \in Nat \ {0}
    BY CbTyped, CbAssumption DEF CbStep, CbInv
  <1>2. PICK mine \in Nat : mine = cbin[t]
    BY <1>1 DEF CbTypes
  <1>3. cpc[t] = "plant" /\ cpc'[t] = "turn" /\ array' = [array EXCEPT ![Place(mine)] = mine]
        /\ UNCHANGED <<cin, halfOut, cout, cbin, seenIn, tmp, ran>>
    BY <1>1, <1>2 DEF Plant, CbTypes
  <1>4. cpc[t] \in CbPlanters /\ cpc'[t] \notin CbPlanters /\ cpc[t] \notin CbOwners /\ cpc'[t] \notin CbOwners
        /\ cpc'[t] \notin CbLookers /\ cpc[t] \notin CbLookers \cup {"turn"}
    BY <1>3 DEF CbPlanters, CbOwners, CbLookers
  <1>5. cout <= mine /\ mine < cin /\ mine + 1 < cout + CbSize /\ cout \in Nat /\ Place(mine) \in 0 .. CbSize - 1
    BY <1>1, <1>2, <1>3, <1>4, CbPlace DEF CbInv, CbTickets, CbTypes
  <1>6. \A x : Pending(x)' <=> Pending(x) /\ x # mine
    BY <1>1, <1>2, <1>3, <1>4 DEF Pending, CbOthers, CbInv, CbTickets
  <1>7. \A x : Planted(x)' <=> Planted(x) \/ x = mine
    BY <1>3, <1>5, <1>6 DEF Planted
  <1>8. ~Planted(mine)
    BY <1>2, <1>4 DEF Planted, Pending
  <1>9. CbTickets'
    <2>1. \A u \in CbThread : cpc'[u] \in CbPlanters => cpc[u] = cpc'[u]
      BY <1>1, <1>4 DEF CbOthers
    <2>2. \A u \in CbThread : cpc'[u] = "full" => cbin[u] < seenIn[u]
      BY <1>1, <1>3 DEF CbOthers, CbInv, CbTickets
    <2>3. \A u \in CbThread : cpc'[u] = "plant" => cbin[u] + 1 < cout + CbSize
      BY <1>1, <1>3 DEF CbOthers, CbInv, CbTickets
    <2> QED
      BY <1>3, <2>1, <2>2, <2>3 DEF CbInv, CbTickets
  <1>10. Owned' <=> Owned
    BY <1>1, <1>4 DEF Owned, CbOthers
  <1>11. \A p \in {"run2", "out", "clear", "before", "claim"} : \A u \in CbThread : cpc'[u] = p <=> cpc[u] = p
    BY <1>1, <1>3 DEF CbOthers
  <1>12. CbArray'
    <2>1. ASSUME NEW i \in 0 .. CbSize - 1, NEW x, array'[i] = x, x # NoItem
          PROVE  Planted(x)' /\ x + 1 < cout + CbSize /\ Place(x) = i
      <3>1. CASE i = Place(mine)
        <4>1. x = mine
          BY <1>1, <1>3, <2>1, <3>1 DEF CbTypes
        <4> QED
          BY <1>5, <1>7, <3>1, <4>1
      <3>2. CASE i # Place(mine)
        <4>1. array[i] = x
          BY <1>1, <1>3, <2>1, <3>2 DEF CbTypes
        <4> QED
          BY <1>7, <2>1, <4>1 DEF CbInv, CbArray
      <3> QED
        BY <3>1, <3>2
    <2>2. ASSUME NEW x \in Nat, Planted(x)'
          PROVE  array'[Place(x)] = x \/ (x = cout /\ \E u \in CbThread : cpc[u] \in {"run2", "out"})
      <3>1. CASE x = mine
        BY <1>1, <1>3, <1>5, <3>1 DEF CbTypes
      <3>2. CASE x # mine
        <4>1. array[Place(x)] = x \/ (x = cout /\ \E u \in CbThread : cpc[u] \in {"run2", "out"})
          BY <1>7, <2>2, <3>2 DEF CbInv, CbArray
        <4>2. CASE array[Place(x)] = x
          <5>1. Place(x) # Place(mine)
            BY <1>2, <4>2 DEF NoItem
          <5> QED
            BY <1>1, <1>3, <4>2, <5>1, CbPlace DEF CbTypes
        <4> QED
          BY <4>1, <4>2
      <3> QED
        BY <3>1, <3>2
    <2>3. \A u \in CbThread : cpc'[u] \in {"run2", "out"} <=> cpc[u] \in {"run2", "out"}
      BY <1>11
    <2> QED
      BY <1>3, <2>1, <2>2, <2>3 DEF CbArray
  <1>13. CbOne'
    <2>1. \A u \in CbThread : cpc'[u] \in CbLookers \cup CbOwners => cpc[u] = cpc'[u]
      BY <1>1, <1>4 DEF CbOthers
    <2>2. \A u \in CbThread : cpc'[u] \in {"run2", "out"} => array'[Place(cout)] = NoItem
      <3>1. SUFFICES ASSUME NEW u \in CbThread, cpc'[u] \in {"run2", "out"} PROVE array'[Place(cout)] = NoItem
        OBVIOUS
      <3>2. cpc[u] \in {"run2", "out"} /\ cpc[u] \in CbOwners
        BY <1>11, <3>1 DEF CbOwners
      <3>3. Planted(cout) /\ array[Place(cout)] = NoItem
        BY <3>2 DEF CbInv, CbOne
      <3>4. cout # mine
        BY <1>8, <3>3
      <3>5. Place(cout) # Place(mine) /\ Place(cout) \in 0 .. CbSize - 1
        BY <1>1, <1>5, <3>4, CbPlace
      <3> QED
        BY <1>1, <1>3, <3>3, <3>5 DEF CbTypes
    <2>3. \A u \in CbThread : cpc'[u] \in CbLookers => cbin[u] <= cout
      BY <2>1 DEF CbInv, CbOne
    <2>4. \A u \in CbThread : cpc'[u] \in {"before", "claim"} /\ cbin[u] = cout => tmp[u] = cout /\ Planted(cout)
      BY <1>11 DEF CbInv, CbOne
    <2>5. \A u \in CbThread : cpc'[u] \in CbOwners => cbin[u] = cout /\ halfOut = cout + 1 /\ Planted(cout)
      BY <2>1 DEF CbInv, CbOne
    <2>6. \A u \in CbThread : cpc'[u] \in {"clear", "run2"} => tmp[u] = cout /\ ran = cout
      BY <1>11 DEF CbInv, CbOne
    <2>7. \A u \in CbThread : cpc'[u] = "out" => ran = cout + 1
      BY <1>11 DEF CbInv, CbOne
    <2>8. \A u, v \in CbThread : cpc'[u] \in CbOwners /\ cpc'[v] \in CbOwners => u = v
      BY <2>1 DEF CbInv, CbOne
    <2>9. ~Owned' => halfOut = cout /\ ran = cout
      BY <1>10 DEF CbInv, CbOne
    <2> QED
      BY <1>3, <1>7, <2>2, <2>3, <2>4, <2>5, <2>6, <2>7, <2>8, <2>9 DEF CbOne
  <1>14. CbSeen'
    <2>1. SUFFICES ASSUME ~Owned, Planted(cout) \/ cout = mine
                   PROVE  \E u \in CbThread : cpc'[u] \in CbLookers \cup {"turn"} /\ cbin[u] = cout
      BY <1>3, <1>7, <1>10 DEF CbSeen
    <2>2. CASE cout = mine
      BY <1>2, <1>3, <2>2
    <2>3. CASE Planted(cout)
      <3>1. PICK u \in CbThread : cpc[u] \in CbLookers \cup {"turn"} /\ cbin[u] = cout
        BY <2>1, <2>3 DEF CbInv, CbSeen
      <3>2. cpc'[u] = cpc[u]
        BY <1>1, <1>4, <3>1 DEF CbOthers
      <3> QED
        BY <3>1, <3>2
    <2> QED
      BY <2>1, <2>2, <2>3
  <1> QED
    BY <1>1, <1>9, <1>12, <1>13, <1>14 DEF CbInv

\* What the steps of the thread that runs the item of _out have in common.
LEMMA CbOwns ==
  ASSUME CbInv, NEW t \in CbThread, CbTypes', CbOthers(t), cin' = cin, cout' = cout, cbin' = cbin,
         cpc[t] \notin CbPlanters, cpc'[t] \in CbOwners, \A u \in CbThread \ {t} : cpc[u] \notin CbOwners,
         cbin[t] = cout, halfOut' = cout + 1, Planted(cout),
         cpc'[t] \in {"clear", "run2"} => tmp'[t] = cout /\ ran' = cout,
         cpc'[t] \in {"run2", "out"} => array'[Place(cout)] = NoItem,
         cpc'[t] = "out" => ran' = cout + 1,
         CbArray'
  PROVE  CbInv'
  <1>1. cpc'[t] \notin CbPlanters \cup CbLookers
    BY DEF CbOwners, CbPlanters, CbLookers
  <1>2. \A x : Pending(x)' <=> Pending(x)
    BY <1>1 DEF Pending, CbOthers
  <1>3. \A x : Planted(x)' <=> Planted(x)
    BY <1>2 DEF Planted
  <1>4. CbTickets'
    <2>1. \A u \in CbThread : cpc'[u] \in CbPlanters => u # t /\ cpc[u] \in CbPlanters
      BY <1>1 DEF CbOthers
    <2>2. \A u \in CbThread : cpc'[u] = "full" => cbin[u] < seenIn'[u]
      BY DEF CbOthers, CbInv, CbTickets, CbOwners
    <2>3. \A u \in CbThread : cpc'[u] = "plant" => cbin[u] + 1 < cout + CbSize
      BY DEF CbOthers, CbInv, CbTickets, CbOwners
    <2> QED
      BY <2>1, <2>2, <2>3 DEF CbInv, CbTickets
  <1>5. Owned'
    BY DEF Owned
  <1>6. \A u \in CbThread : cpc'[u] \in CbOwners => u = t
    BY DEF CbOthers
  <1>7. CbOne'
    <2>1. \A u \in CbThread : cpc'[u] \in CbLookers => cbin[u] <= cout
      BY <1>1 DEF CbOthers, CbInv, CbOne
    <2>2. \A u \in CbThread : cpc'[u] \in {"before", "claim"} /\ cbin[u] = cout => tmp'[u] = cout /\ Planted(cout)
      BY DEF CbOthers, CbInv, CbOne, CbOwners
    <2>3. \A u \in CbThread : cpc'[u] \in {"clear", "run2", "out"} => u = t
      BY <1>6 DEF CbOwners
    <2>4. \A u \in CbThread : cpc'[u] \in {"clear", "run2"} => tmp'[u] = cout /\ ran' = cout
      BY <2>3
    <2>5. \A u \in CbThread : cpc'[u] \in {"run2", "out"} => array'[Place(cout)] = NoItem
      BY <2>3
    <2>6. \A u \in CbThread : cpc'[u] = "out" => ran' = cout + 1
      BY <2>3
    <2> QED
      BY <1>3, <1>5, <1>6, <2>1, <2>2, <2>4, <2>5, <2>6 DEF CbOne
  <1>8. CbSeen'
    BY <1>5 DEF CbSeen
  <1> QED
    BY <1>4, <1>7, <1>8 DEF CbInv

LEMMA CbClaims ==
  ASSUME CbInv, NEW t \in CbThread, Claim(t), halfOut = cbin[t]
  PROVE  CbInv'
  <1>1. CbTypes' /\ CbOthers(t) /\ CbTypes
    BY CbTyped DEF CbStep, CbInv
  <1>2. cpc[t] = "claim" /\ cpc'[t] = "clear" /\ halfOut' = cbin[t] + 1
        /\ UNCHANGED <<cbin, tmp, cin, cout, array, seenIn, ran>>
    BY <1>1 DEF Claim, CbTypes
  <1>3. cpc[t] \in CbLookers /\ cpc[t] \notin CbPlanters /\ cpc'[t] \in CbOwners /\ cpc'[t] \notin {"run2", "out"}
    BY <1>2 DEF CbLookers, CbPlanters, CbOwners
  <1>4. cbin[t] <= cout /\ cout \in Nat /\ cbin[t] \in Nat
    BY <1>1, <1>3 DEF CbInv, CbOne, CbTypes
  <1>5. ~Owned
    <2>1. SUFFICES ASSUME Owned PROVE FALSE
      OBVIOUS
    <2>2. halfOut = cout + 1
      BY <2>1 DEF Owned, CbInv, CbOne
    <2> QED
      BY <1>4, <2>2
  <1>6. cbin[t] = cout /\ ran = cout
    BY <1>5 DEF CbInv, CbOne
  <1>7. tmp[t] = cout /\ Planted(cout)
    BY <1>2, <1>6 DEF CbInv, CbOne
  <1>8. CbArray'
    <2>1. \A x : Pending(x)' <=> Pending(x)
      BY <1>1, <1>2, <1>3 DEF Pending, CbOthers, CbOwners, CbPlanters
    <2>2. \A x : Planted(x)' <=> Planted(x)
      BY <1>2, <2>1 DEF Planted
    <2>3. ~\E u \in CbThread : cpc[u] \in {"run2", "out"}
      BY <1>5 DEF Owned, CbOwners
    <2> QED
      BY <1>2, <2>2, <2>3 DEF CbInv, CbArray
  <1>9. \A u \in CbThread \ {t} : cpc[u] \notin CbOwners
    BY <1>5 DEF Owned
  <1> QED
    BY <1>1, <1>2, <1>3, <1>6, <1>7, <1>8, <1>9, CbOwns

LEMMA CbRuns ==
  ASSUME CbInv, NEW t \in CbThread, Clear(t) \/ Run2(t)
  PROVE  CbInv'
  <1>1. CbTypes' /\ CbOthers(t) /\ CbTypes /\ CbSize \in Nat \ {0}
    BY CbTyped, CbAssumption DEF CbStep, CbInv
  <1>2. cpc[t] \in {"clear", "run2"} /\ cpc[t] \in CbOwners /\ cpc[t] \notin CbPlanters
    BY DEF Clear, Run2, CbGo, CbOwners, CbPlanters
  <1>3. cbin[t] = cout /\ halfOut = cout + 1 /\ Planted(cout) /\ tmp[t] = cout /\ ran = cout
    BY <1>2 DEF CbInv, CbOne
  <1>4. \A u \in CbThread \ {t} : cpc[u] \notin CbOwners
    BY <1>2 DEF CbInv, CbOne
  <1>5. cout \in Nat /\ Place(cout) \in 0 .. CbSize - 1
    BY <1>1, CbPlace DEF CbTypes
  <1>7. CASE Clear(t)
    <2>1. cpc[t] = "clear" /\ cpc'[t] = "run2" /\ array' = [array EXCEPT ![Place(cout)] = NoItem]
          /\ UNCHANGED <<cin, halfOut, cout, cbin, seenIn, tmp, ran>>
      BY <1>1, <1>3, <1>7 DEF Clear, CbGo, CbTypes
    <2>2. cpc'[t] \in CbOwners /\ cpc'[t] \notin CbPlanters /\ cpc'[t] # "out"
      BY <2>1 DEF CbOwners, CbPlanters
    <2>3. array'[Place(cout)] = NoItem
      BY <1>1, <1>5, <2>1 DEF CbTypes
    <2>4. CbArray'
      <3>1. \A x : Pending(x)' <=> Pending(x)
        BY <1>1, <1>2, <2>1, <2>2 DEF Pending, CbOthers
      <3>2. \A x : Planted(x)' <=> Planted(x)
        BY <2>1, <3>1 DEF Planted
      <3>3. ASSUME NEW i \in 0 .. CbSize - 1, NEW x, array'[i] = x, x # NoItem
            PROVE  Planted(x)' /\ x + 1 < cout + CbSize /\ Place(x) = i
        <4>1. array[i] = x
          BY <1>1, <1>5, <2>1, <3>3 DEF CbTypes
        <4> QED
          BY <3>2, <3>3, <4>1 DEF CbInv, CbArray
      <3>4. ASSUME NEW x \in Nat, Planted(x)', x # cout
            PROVE  array'[Place(x)] = x
        <4>1. array[Place(x)] = x /\ Place(x) \in 0 .. CbSize - 1 /\ cout <= x
          BY <3>2, <3>4, CbPlace DEF CbInv, CbArray, Planted
        <4>2. x # NoItem
          BY DEF NoItem
        <4>3. x + 1 < cout + CbSize
          BY <4>1, <4>2 DEF CbInv, CbArray
        <4>4. Place(x) # Place(cout)
          BY <1>1, <1>5, <3>4, <4>1, <4>3, CbPlace
        <4> QED
          BY <1>1, <2>1, <4>1, <4>4 DEF CbTypes
      <3>5. \E u \in CbThread : cpc'[u] \in {"run2", "out"}
        BY <2>1
      <3> QED
        BY <2>1, <3>3, <3>4, <3>5 DEF CbArray
    <2> QED
      BY <1>1, <1>2, <1>3, <1>4, <2>1, <2>2, <2>3, <2>4, CbOwns
  <1>8. CASE Run2(t)
    <2>1. cpc[t] = "run2" /\ cpc'[t] = "out" /\ ran' = cout + 1
          /\ UNCHANGED <<cin, halfOut, cout, array, cbin, seenIn>>
      BY <1>1, <1>3, <1>8 DEF Run2, CbGo, CbTypes
    <2>2. cpc'[t] \in CbOwners /\ cpc'[t] \notin CbPlanters /\ cpc'[t] \notin {"clear", "run2"}
      BY <2>1 DEF CbOwners, CbPlanters
    <2>3. array[Place(cout)] = NoItem
      BY <2>1 DEF CbInv, CbOne
    <2>4. CbArray'
      <3>1. \A x : Pending(x)' <=> Pending(x)
        BY <1>1, <1>2, <2>1, <2>2 DEF Pending, CbOthers
      <3>2. \A x : Planted(x)' <=> Planted(x)
        BY <2>1, <3>1 DEF Planted
      <3>3. \E u \in CbThread : cpc'[u] \in {"run2", "out"}
        BY <2>1
      <3> QED
        BY <2>1, <3>2, <3>3 DEF CbInv, CbArray
    <2> QED
      BY <1>1, <1>2, <1>3, <1>4, <2>1, <2>2, <2>3, <2>4, CbOwns
  <1> QED
    BY <1>7, <1>8

LEMMA CbOuts ==
  ASSUME CbInv, NEW t \in CbThread, Out(t)
  PROVE  CbInv'
  <1>1. CbTypes' /\ CbOthers(t) /\ CbTypes /\ CbSize \in Nat \ {0}
    BY CbTyped, CbAssumption DEF CbStep, CbInv
  <1>2. cpc[t] = "out" /\ cpc[t] \in CbOwners /\ cpc[t] \notin CbPlanters \cup CbLookers
    BY DEF Out, CbGo, CbOwners, CbPlanters, CbLookers
  <1>3. cbin[t] = cout /\ halfOut = cout + 1 /\ Planted(cout) /\ ran = cout + 1 /\ array[Place(cout)] = NoItem
    BY <1>2 DEF CbInv, CbOne
  <1>4. \A u \in CbThread \ {t} : cpc[u] \notin CbOwners
    BY <1>2 DEF CbInv, CbOne
  <1>5. PICK next \in Nat : next = cout + 1
    BY <1>1 DEF CbTypes
  <1>6. cpc'[t] = "turn" /\ cout' = next /\ cbin'[t] = next /\ UNCHANGED <<cin, halfOut, array, seenIn, tmp, ran>>
    BY <1>1, <1>3, <1>5 DEF Out, CbGo, CbTypes
  <1>7. cpc'[t] \notin CbPlanters \cup CbLookers \cup CbOwners
    BY <1>6 DEF CbOwners, CbPlanters, CbLookers
  <1>8. \A x : Pending(x)' <=> Pending(x)
    BY <1>1, <1>2, <1>7 DEF Pending, CbOthers
  <1>9. \A x : Planted(x)' <=> Planted(x) /\ x # cout
    BY <1>1, <1>5, <1>6, <1>8 DEF Planted, CbTypes
  <1>10. ~Owned'
    BY <1>1, <1>4, <1>7 DEF Owned, CbOthers
  <1>11. \A u \in CbThread : cpc'[u] \in CbPlanters \cup CbLookers =>
           cpc'[u] = cpc[u] /\ cbin'[u] = cbin[u] /\ seenIn'[u] = seenIn[u] /\ cbin[u] \in Nat
    BY <1>1, <1>7 DEF CbOthers, CbTypes
  <1>12. CbTickets'
    <2>1. next <= cin
      BY <1>1, <1>3, <1>5 DEF Planted, CbTypes
    <2>2. ASSUME NEW u \in CbThread, cpc'[u] \in CbPlanters
          PROVE  next <= cbin'[u] /\ cbin'[u] < cin
      <3>1. cbin[u] # cout
        BY <1>3, <1>11, <2>2 DEF Planted, Pending
      <3>2. cout <= cbin[u] /\ cbin[u] < cin /\ cout \in Nat
        BY <1>1, <1>11, <2>2 DEF CbInv, CbTickets, CbTypes
      <3> QED
        BY <1>5, <1>11, <2>2, <3>1, <3>2
    <2>3. \A u, v \in CbThread : cpc'[u] \in CbPlanters /\ cpc'[v] \in CbPlanters /\ cbin'[u] = cbin'[v] => u = v
      BY <1>11 DEF CbInv, CbTickets
    <2>4. \A u \in CbThread : cpc'[u] = "full" => cbin'[u] < seenIn'[u]
      BY <1>11 DEF CbInv, CbTickets, CbPlanters
    <2>5. ASSUME NEW u \in CbThread, cpc'[u] = "plant"
          PROVE  cbin'[u] + 1 < next + CbSize
      <3>1. cpc[u] = "plant" /\ cbin'[u] = cbin[u] /\ cbin[u] \in Nat
        BY <1>11, <2>5 DEF CbPlanters
      <3>2. cbin[u] + 1 < cout + CbSize /\ cout \in Nat
        BY <1>1, <3>1 DEF CbInv, CbTickets, CbTypes
      <3> QED
        BY <1>1, <1>5, <3>1, <3>2
    <2> QED
      BY <1>6, <2>1, <2>2, <2>3, <2>4, <2>5 DEF CbTickets
  <1>13. CbArray'
    <2>1. ASSUME NEW i \in 0 .. CbSize - 1, NEW y, array[i] = y, y # NoItem
          PROVE  Planted(y)' /\ y + 1 < next + CbSize /\ Place(y) = i
      <3>2. Planted(y) /\ y + 1 < cout + CbSize /\ Place(y) = i
        BY <2>1 DEF CbInv, CbArray
      <3>3. y # cout /\ y \in Nat /\ cout \in Nat
        BY <1>1, <1>3, <2>1, <3>2 DEF Planted, CbTypes
      <3>4. Planted(y)'
        BY <1>9, <3>2, <3>3
      <3>5. y + 1 < next + CbSize
        BY <1>1, <1>5, <3>2, <3>3
      <3> QED
        BY <3>2, <3>4, <3>5
    <2>2. \A x \in Nat : Planted(x)' => array[Place(x)] = x
      BY <1>9 DEF CbInv, CbArray
    <2> QED
      BY <1>6, <2>1, <2>2 DEF CbArray
  <1>14. CbOne'
    <2>1. \A u \in CbThread : cpc'[u] \in CbLookers => cbin'[u] <= cout /\ cbin'[u] \in Nat
      BY <1>11 DEF CbInv, CbOne
    <2>2. \A u \in CbThread : cpc'[u] \in CbLookers => cbin'[u] <= next /\ cbin'[u] # next
      BY <1>1, <1>5, <2>1, SMTT(30) DEF CbTypes
    <2>3. \A u \in CbThread : cpc'[u] \in {"before", "claim"} => cbin'[u] # next
      BY <2>2 DEF CbLookers
    <2>4. \A u \in CbThread : cpc'[u] \notin CbOwners
      BY <1>10 DEF Owned
    <2>5. \A u \in CbThread : cpc'[u] \notin {"clear", "run2", "out"}
      BY <2>4 DEF CbOwners
    <2> QED
      BY <1>3, <1>5, <1>6, <2>2, <2>3, <2>4, <2>5 DEF CbOne
  <1>15. CbSeen'
    BY <1>6 DEF CbSeen
  <1> QED
    BY <1>1, <1>12, <1>13, <1>14, <1>15 DEF CbInv

LEMMA CbCorrect ==
  /\ CbInit => CbInv
  /\ CbInv /\ [CbNext]_cbvars => CbInv'
  /\ CbInv => CbSequential /\ CbNothingLeft
  <1>1. CbInit => CbInv
    <2>1. SUFFICES ASSUME CbInit PROVE CbInv
      OBVIOUS
    <2>2. CbTypes
      BY <2>1, CbAssumption DEF CbInit, CbTypes, CbPC
    <2>3. \A t \in CbThread : cpc[t] = "idle"
      BY <2>1 DEF CbInit
    <2>4. \A t \in CbThread : cpc[t] \notin CbPlanters \cup CbLookers \cup CbOwners /\ cpc[t] \notin {"full", "plant", "before", "claim", "clear", "run2", "out"}
      BY <2>3 DEF CbPlanters, CbLookers, CbOwners
    <2>5. cin = 0 /\ cout = 0 /\ halfOut = 0 /\ ran = 0 /\ (\A i \in 0 .. CbSize - 1 : array[i] = NoItem)
      BY <2>1 DEF CbInit
    <2>6. \A x : ~Planted(x)
      BY <2>5 DEF Planted
    <2>7. ~Owned
      BY <2>4 DEF Owned
    <2>8. CbTickets
      BY <2>4, <2>5 DEF CbTickets
    <2>9. CbArray
      BY <2>5, <2>6 DEF CbArray
    <2>10. CbOne
      BY <2>4, <2>5, <2>7 DEF CbOne
    <2>11. CbSeen
      BY <2>6 DEF CbSeen
    <2> QED
      BY <2>2, <2>8, <2>9, <2>10, <2>11 DEF CbInv
  <1>2. CbInv /\ [CbNext]_cbvars => CbInv'
    <2>1. SUFFICES ASSUME CbInv, [CbNext]_cbvars PROVE CbInv'
      OBVIOUS
    <2>2. CASE UNCHANGED cbvars
      <3>1. (\A x : Pending(x)' <=> Pending(x)) /\ (Owned' <=> Owned)
        BY <2>2 DEF cbvars, Pending, Owned
      <3>2. \A x : Planted(x)' <=> Planted(x)
        BY <2>2, <3>1 DEF cbvars, Planted
      <3> QED
        BY <2>1, <2>2, <3>1, <3>2 DEF cbvars, CbInv, CbTypes, CbTickets, CbArray, CbOne, CbSeen
    <2>3. CASE CbNext
      <3>1. PICK t \in CbThread : CbStep(t)
        BY <2>3 DEF CbNext, CbStep
      <3> QED
        BY <2>1, <3>1, CbReserve, CbLooks, CbPlants, CbClaims, CbRuns, CbOuts DEF CbStep
    <2> QED
      BY <2>1, <2>2, <2>3
  <1>3. CbInv => CbSequential /\ CbNothingLeft
    <2>1. SUFFICES ASSUME CbInv PROVE CbSequential /\ CbNothingLeft
      OBVIOUS
    <2>2. CbSequential
      <3>1. ASSUME NEW t \in CbThread, cpc[t] = "run2"
            PROVE  tmp[t] = ran /\ \A u \in CbThread \ {t} : cpc[u] # "run2"
        BY <2>1, <3>1 DEF CbInv, CbOne, CbOwners
      <3> QED
        BY <3>1 DEF CbSequential
    <2>3. ASSUME \A t \in CbThread : cpc[t] = "idle"
          PROVE  ran = cin /\ \A i \in DOMAIN array : array[i] = NoItem
      <3>1. \A t \in CbThread : cpc[t] \notin CbPlanters /\ cpc[t] \notin CbOwners /\ cpc[t] \notin CbLookers \cup {"turn"}
        BY <2>3 DEF CbPlanters, CbOwners, CbLookers
      <3>2. ~Owned /\ (\A x : ~Pending(x))
        BY <3>1 DEF Owned, Pending
      <3>3. ~Planted(cout)
        BY <2>1, <3>1, <3>2 DEF CbInv, CbSeen
      <3>4. cout <= cin /\ cout \in Nat /\ cin \in Nat
        BY <2>1 DEF CbInv, CbTickets, CbTypes
      <3>5. cout = cin
        BY <3>2, <3>3, <3>4 DEF Planted
      <3>6. \A x : ~Planted(x)
        BY <3>4, <3>5 DEF Planted
      <3>7. DOMAIN array = 0 .. CbSize - 1
        BY <2>1 DEF CbInv, CbTypes
      <3>8. \A i \in 0 .. CbSize - 1 : array[i] = NoItem
        BY <2>1, <3>6 DEF CbInv, CbArray
      <3>9. ran = cout
        BY <2>1, <3>2 DEF CbInv, CbOne
      <3> QED
        BY <3>5, <3>7, <3>8, <3>9
    <2> QED
      BY <2>2, <2>3 DEF CbNothingLeft
  <1> QED
    BY <1>1, <1>2, <1>3

-----------------------------------------------------------------------------
(***************************************************************************)
(* The list of threads and timers: the locations lead through the nodes in *)
(* it, each of which is there once, and the other nodes are loose.         *)
(***************************************************************************)
LlLoc(s, i) == IF i = 0 THEN LlHead ELSE s[i]

LlTypes ==
  /\ at \in [LlNode \cup {LlHead} -> LlNode \cup {LlNull}]
  /\ previous \in [LlNode -> LlNode \cup {LlHead, LlNull}]
  /\ entered \in Seq(LlNode)

\* The locations lead through the list, each node is in it once, and the others are loose.
LlInv ==
  /\ LlTypes
  /\ \A i, j \in 1 .. Len(entered) : entered[i] = entered[j] => i = j
  /\ \A n \in LlNode : (\A i \in 1 .. Len(entered) : entered[i] # n) => at[n] = LlNull /\ previous[n] = LlNull
  /\ \A i \in 1 .. Len(entered) : at[LlLoc(entered, i - 1)] = entered[i] /\ previous[entered[i]] = LlLoc(entered, i - 1)
  /\ at[LlLoc(entered, Len(entered))] = LlNull
  /\ ltail = IF Len(entered) = 0 THEN LlNull ELSE entered[Len(entered)]

\* Locations of different positions are different.
LEMMA LlApart ==
  ASSUME LlInv
  PROVE  /\ Len(entered) \in Nat
         /\ \A i \in 1 .. Len(entered) : entered[i] \in LlNode /\ LlLoc(entered, i) = entered[i]
         /\ \A i \in 0 .. Len(entered) : LlLoc(entered, i) \in LlNode \cup {LlHead}
         /\ \A i, j \in 0 .. Len(entered) : LlLoc(entered, i) = LlLoc(entered, j) => i = j
         /\ LlHead \notin LlNode /\ LlNull \notin LlNode /\ LlNull # LlHead
  <1>1. Len(entered) \in Nat /\ \A i \in 1 .. Len(entered) : entered[i] \in LlNode
    BY LenProperties DEF LlInv, LlTypes
  <1>2. LlHead \notin LlNode /\ LlNull \notin LlNode /\ LlNull # LlHead
    BY LinkedListAssumption
  <1>3. \A i \in 1 .. Len(entered) : LlLoc(entered, i) = entered[i]
    BY <1>1 DEF LlLoc
  <1>4. LlLoc(entered, 0) = LlHead
    BY DEF LlLoc
  <1>5. \A i \in 0 .. Len(entered) : i = 0 \/ i \in 1 .. Len(entered)
    BY <1>1
  <1>6. ASSUME NEW i \in 0 .. Len(entered), NEW j \in 0 .. Len(entered), LlLoc(entered, i) = LlLoc(entered, j)
        PROVE  i = j
    <2>1. CASE i = 0 \/ j = 0
      BY <1>1, <1>2, <1>3, <1>4, <1>5, <1>6, <2>1
    <2>2. CASE i # 0 /\ j # 0
      <3>1. i \in 1 .. Len(entered) /\ j \in 1 .. Len(entered) /\ entered[i] = entered[j]
        BY <1>3, <1>5, <1>6, <2>2
      <3> QED
        BY <3>1 DEF LlInv
    <2> QED
      BY <2>1, <2>2
  <1> QED
    BY <1>1, <1>2, <1>3, <1>4, <1>5, <1>6

\* The node that a loose node is not.
LEMMA LlOutside ==
  ASSUME LlInv, NEW n \in LlNode, Loose(n)
  PROVE  \A i \in 1 .. Len(entered) : entered[i] # n
  <1> SUFFICES ASSUME NEW i \in 1 .. Len(entered), entered[i] = n PROVE FALSE
    OBVIOUS
  <1>1. previous[n] = LlLoc(entered, i - 1)
    BY DEF LlInv
  <1>2. i - 1 \in 0 .. Len(entered)
    BY LlApart
  <1> QED
    BY <1>1, <1>2, LlApart DEF Loose

LEMMA LlFront ==
  ASSUME LlInv, NEW n \in LlNode, InsertFront(n)
  PROVE  LlInv'
  <1>0. PICK k \in Nat : k = Len(entered)
    BY LlApart
  <1>1. PICK e : e = <<n>> \o entered
    OBVIOUS
  <1>2. /\ e \in Seq(LlNode) /\ Len(e) = k + 1 /\ e[1] = n
        /\ \A i \in 1 .. k : e[i + 1] = entered[i]
    <2>1. <<n>> \in Seq(LlNode) /\ entered \in Seq(LlNode) /\ Len(<<n>>) = 1 /\ <<n>>[1] = n
      BY DEF LlInv, LlTypes
    <2> QED
      BY <1>0, <1>1, <2>1, ConcatProperties
  <1>3. \A i \in 1 .. k + 1 : i = 1 \/ \E j \in 1 .. k : i = j + 1
    <2> SUFFICES ASSUME NEW i \in 1 .. k + 1, i # 1 PROVE \E j \in 1 .. k : i = j + 1
      OBVIOUS
    <2>1. i - 1 \in 1 .. k /\ i = (i - 1) + 1
      BY <1>0
    <2> QED
      BY <2>1
  <1>4. /\ entered' = e /\ previous' = FrontLinks(n)
        /\ at' = [at EXCEPT ![n] = at[LlHead], ![LlHead] = n]
        /\ ltail' = IF ltail = LlNull THEN n ELSE ltail
    BY <1>1 DEF InsertFront
  <1>5. \A i \in 1 .. k : entered[i] # n /\ entered[i] \in LlNode /\ entered[i] # LlHead
    BY <1>0, LlOutside, LlApart DEF InsertFront
  <1>6. LlHead \notin LlNode /\ LlNull \notin LlNode /\ LlNull # LlHead /\ LlTypes
    BY LlApart DEF LlInv
  <1>7. k = 0 => at[LlHead] = LlNull
    BY <1>0 DEF LlInv, LlLoc
  <1>8. k # 0 => at[LlHead] = entered[1]
    BY <1>0 DEF LlInv, LlLoc
  <1>9. /\ at'[LlHead] = n /\ at'[n] = at[LlHead]
        /\ \A m \in LlNode \ {n} : at'[m] = at[m]
        /\ at' \in [LlNode \cup {LlHead} -> LlNode \cup {LlNull}]
    BY <1>4, <1>6 DEF LlTypes
  <1>10. /\ previous'[n] = LlHead
         /\ \A m \in LlNode \ {n} : previous'[m] = IF m = at[LlHead] THEN n ELSE previous[m]
         /\ previous' \in [LlNode -> LlNode \cup {LlHead, LlNull}]
    BY <1>4, <1>6 DEF LlTypes, FrontLinks
  <1>11. LlTypes'
    BY <1>2, <1>4, <1>9, <1>10 DEF LlTypes
  <1>12. \A i, j \in 1 .. k + 1 : e[i] = e[j] => i = j
    <2>1. \A i, j \in 1 .. k : entered[i] = entered[j] => i = j
      BY <1>0 DEF LlInv
    <2>2. ASSUME NEW i \in 1 .. k + 1, NEW j \in 1 .. k + 1, e[i] = e[j]
          PROVE  i = j
      <3>1. CASE i = 1 \/ j = 1
        BY <1>2, <1>3, <1>5, <2>2, <3>1
      <3>2. CASE i # 1 /\ j # 1
        <4>1. PICK g \in 1 .. k : i = g + 1
          BY <1>3, <3>2
        <4>2. PICK h \in 1 .. k : j = h + 1
          BY <1>3, <3>2
        <4>3. entered[g] = entered[h]
          BY <1>2, <2>2, <4>1, <4>2
        <4> QED
          BY <2>1, <4>1, <4>2, <4>3
      <3> QED
        BY <3>1, <3>2
    <2> QED
      BY <2>2
  <1>13. ASSUME NEW m \in LlNode, \A i \in 1 .. k + 1 : e[i] # m
         PROVE  at'[m] = LlNull /\ previous'[m] = LlNull
    <2>1. m # n
      BY <1>0, <1>2, <1>13
    <2>2. \A i \in 1 .. k : entered[i] # m
      <3>1. \A i \in 1 .. k : i + 1 \in 1 .. k + 1
        BY <1>0
      <3> QED
        BY <1>2, <1>13, <3>1
    <2>3. at[m] = LlNull /\ previous[m] = LlNull
      BY <1>0, <2>2 DEF LlInv
    <2>4. m # at[LlHead]
      BY <1>0, <1>6, <1>7, <1>8, <2>2
    <2> QED
      BY <1>9, <1>10, <2>1, <2>3, <2>4
  <1>14. ASSUME NEW i \in 1 .. k + 1
         PROVE  at'[LlLoc(e, i - 1)] = e[i] /\ previous'[e[i]] = LlLoc(e, i - 1)
    <2>1. CASE i = 1
      BY <1>2, <1>9, <1>10, <2>1 DEF LlLoc
    <2>2. CASE i # 1
      <3>1. PICK j \in 1 .. k : i = j + 1
        BY <1>3, <2>2
      <3>2. e[i] = entered[j] /\ i - 1 = j /\ LlLoc(e, j) = e[j]
        BY <1>0, <1>2, <3>1 DEF LlLoc
      <3>3. CASE j = 1
        <4>1. e[j] = n /\ at[LlHead] = entered[j] /\ entered[j] # n /\ entered[j] \in LlNode
          BY <1>0, <1>2, <1>5, <1>8, <3>3
        <4> QED
          BY <1>9, <1>10, <3>2, <4>1
      <3>4. CASE j # 1
        <4>1. PICK h \in 1 .. k : j = h + 1
          <5>1. j \in 1 .. k + 1
            BY <1>0
          <5> QED
            BY <1>3, <3>4, <5>1
        <4>2. e[j] = entered[h]
          BY <1>2, <4>1
        <4>3. at[entered[h]] = entered[j] /\ previous[entered[j]] = entered[h]
          <5>1. h = j - 1 /\ LlLoc(entered, h) = entered[h]
            BY <1>0, <4>1, LlApart
          <5> QED
            BY <1>0, <5>1 DEF LlInv
        <4>4. entered[j] # at[LlHead]
          <5>1. 1 \in 1 .. k /\ k # 0
            BY <1>0
          <5> QED
            BY <1>0, <1>8, <3>4, <5>1 DEF LlInv
        <4>5. entered[h] \in LlNode \ {n} /\ entered[j] \in LlNode \ {n}
          BY <1>5
        <4> QED
          BY <1>9, <1>10, <3>2, <4>2, <4>3, <4>4, <4>5
      <3> QED
        BY <3>3, <3>4
    <2> QED
      BY <2>1, <2>2
  <1>15. at'[LlLoc(e, k + 1)] = LlNull
    <2>1. LlLoc(e, k + 1) = e[k + 1]
      BY <1>0 DEF LlLoc
    <2>2. CASE k = 0
      BY <1>2, <1>7, <1>9, <2>1, <2>2
    <2>3. CASE k # 0
      <3>1. k \in 1 .. k
        BY <2>3
      <3>2. at[entered[k]] = LlNull
        BY <1>0, <3>1, LlApart DEF LlInv
      <3> QED
        BY <1>2, <1>5, <1>9, <2>1, <3>1, <3>2
    <2> QED
      BY <2>2, <2>3
  <1>16. ltail' = e[k + 1]
    <2>1. CASE k = 0
      BY <1>0, <1>2, <1>4, <2>1 DEF LlInv
    <2>2. CASE k # 0
      <3>1. k \in 1 .. k /\ ltail = entered[k]
        BY <1>0, <2>2 DEF LlInv
      <3> QED
        BY <1>2, <1>4, <1>5, <1>6, <3>1
    <2> QED
      BY <2>1, <2>2
  <1>17. Len(e) # 0
    BY <1>0, <1>2
  <1> QED
    <2>1. entered' = e /\ Len(entered') = k + 1 /\ Len(entered') # 0
      BY <1>2, <1>4, <1>17
    <2>2. \A i, j \in 1 .. Len(entered') : entered'[i] = entered'[j] => i = j
      BY <1>12, <2>1
    <2>3. \A m \in LlNode : (\A i \in 1 .. Len(entered') : entered'[i] # m) => at'[m] = LlNull /\ previous'[m] = LlNull
      BY <1>13, <2>1
    <2>4. \A i \in 1 .. Len(entered') : /\ at'[LlLoc(entered', i - 1)] = entered'[i]
                                       /\ previous'[entered'[i]] = LlLoc(entered', i - 1)
      BY <1>14, <2>1
    <2>5. at'[LlLoc(entered', Len(entered'))] = LlNull
      BY <1>15, <2>1
    <2>6. ltail' = IF Len(entered') = 0 THEN LlNull ELSE entered'[Len(entered')]
      BY <1>16, <2>1
    <2> QED
      BY <1>11, <2>2, <2>3, <2>4, <2>5, <2>6, Zenon DEF LlInv

LEMMA LlBack ==
  ASSUME LlInv, NEW n \in LlNode, InsertBack(n)
  PROVE  LlInv'
  <1>0. PICK k \in Nat : k = Len(entered)
    BY LlApart
  <1>1. PICK e : e = Append(entered, n)
    OBVIOUS
  <1>2. /\ e \in Seq(LlNode) /\ Len(e) = k + 1 /\ e[k + 1] = n
        /\ \A i \in 1 .. k : e[i] = entered[i]
    BY <1>0, <1>1, AppendProperties DEF LlInv, LlTypes
  <1>3. k # 0 /\ ltail = entered[k] /\ k \in 1 .. k
    BY <1>0 DEF LlInv, InsertBack
  <1>4. \A i \in 1 .. k : entered[i] # n /\ entered[i] \in LlNode /\ entered[i] # LlHead
    BY <1>0, LlOutside, LlApart DEF InsertBack
  <1>5. LlHead \notin LlNode /\ LlNull \notin LlNode /\ LlNull # LlHead /\ LlTypes
    BY LlApart DEF LlInv
  <1>6. PICK l \in LlNode : l = entered[k]
    BY <1>3, <1>4
  <1>7. /\ entered' = e /\ ltail' = n /\ l # n
        /\ at' = [at EXCEPT ![l] = n] /\ previous' = [previous EXCEPT ![n] = l]
    BY <1>1, <1>3, <1>4, <1>6 DEF InsertBack
  <1>8. /\ at'[l] = n /\ previous'[n] = l /\ at'[n] = LlNull
        /\ \A m \in LlNode \cup {LlHead} : m # l => at'[m] = at[m]
        /\ \A m \in LlNode : m # n => previous'[m] = previous[m]
        /\ LlTypes'
    BY <1>2, <1>5, <1>7 DEF LlTypes, InsertBack, Loose
  <1>9. \A i \in 1 .. k + 1 : i \in 1 .. k \/ i = k + 1
    BY <1>0
  <1>10. \A i, j \in 1 .. k + 1 : e[i] = e[j] => i = j
    <2>1. \A i, j \in 1 .. k : entered[i] = entered[j] => i = j
      BY <1>0 DEF LlInv
    <2> QED
      BY <1>2, <1>4, <1>9, <2>1
  <1>11. ASSUME NEW m \in LlNode, \A i \in 1 .. k + 1 : e[i] # m
         PROVE  at'[m] = LlNull /\ previous'[m] = LlNull
    <2>1. \A i \in 1 .. k : entered[i] # m
      <3>1. \A i \in 1 .. k : i \in 1 .. k + 1
        BY <1>0
      <3> QED
        BY <1>2, <1>11, <3>1
    <2>2. m # n /\ m # l
      <3>1. k + 1 \in 1 .. k + 1
        BY <1>0
      <3> QED
        BY <1>2, <1>3, <1>6, <1>11, <2>1, <3>1
    <2> QED
      BY <1>0, <1>8, <2>1, <2>2 DEF LlInv
  <1>12. ASSUME NEW i \in 1 .. k + 1
         PROVE  at'[LlLoc(e, i - 1)] = e[i] /\ previous'[e[i]] = LlLoc(e, i - 1)
    <2>1. CASE i = k + 1
      <3>1. LlLoc(e, i - 1) = l
        BY <1>0, <1>2, <1>3, <1>6, <2>1 DEF LlLoc
      <3> QED
        BY <1>2, <1>8, <2>1, <3>1
    <2>2. CASE i \in 1 .. k
      <3>1. LlLoc(e, i - 1) = LlLoc(entered, i - 1) /\ i - 1 \in 0 .. k /\ i - 1 # k /\ k \in 0 .. k
        <4>1. i - 1 = 0 \/ i - 1 \in 1 .. k
          BY <1>0, <2>2
        <4> QED
          BY <1>0, <1>2, <2>2, <4>1 DEF LlLoc
      <3>2. LlLoc(entered, i - 1) # l
        BY <1>0, <1>3, <1>6, <3>1, LlApart
      <3>3. LlLoc(entered, i - 1) \in LlNode \cup {LlHead} /\ e[i] = entered[i] /\ entered[i] # n /\ entered[i] \in LlNode
        BY <1>0, <1>2, <1>4, <2>2, <3>1, LlApart
      <3>4. at[LlLoc(entered, i - 1)] = entered[i] /\ previous[entered[i]] = LlLoc(entered, i - 1)
        BY <1>0, <2>2 DEF LlInv
      <3> QED
        BY <1>8, <3>1, <3>2, <3>3, <3>4
    <2> QED
      BY <1>9, <2>1, <2>2
  <1>13. LlLoc(e, k + 1) = n /\ k + 1 # 0
    BY <1>0, <1>2 DEF LlLoc
  <1> QED
    <2>1. entered' = e /\ Len(entered') = k + 1 /\ Len(entered') # 0
      BY <1>2, <1>7, <1>13
    <2>2. \A i, j \in 1 .. Len(entered') : entered'[i] = entered'[j] => i = j
      BY <1>10, <2>1
    <2>3. \A m \in LlNode : (\A i \in 1 .. Len(entered') : entered'[i] # m) => at'[m] = LlNull /\ previous'[m] = LlNull
      BY <1>11, <2>1
    <2>4. \A i \in 1 .. Len(entered') : /\ at'[LlLoc(entered', i - 1)] = entered'[i]
                                       /\ previous'[entered'[i]] = LlLoc(entered', i - 1)
      BY <1>12, <2>1
    <2>5. at'[LlLoc(entered', Len(entered'))] = LlNull
      BY <1>8, <1>13, <2>1
    <2>6. ltail' = IF Len(entered') = 0 THEN LlNull ELSE entered'[Len(entered')]
      BY <1>2, <1>7, <2>1
    <2> QED
      BY <1>8, <2>2, <2>3, <2>4, <2>5, <2>6, Zenon DEF LlInv

LEMMA LlRemove ==
  ASSUME LlInv, NEW n \in LlNode, RemoveNode(n)
  PROVE  LlInv'
  <1>0. PICK k \in Nat : k = Len(entered)
    BY LlApart
  <1>1. PICK r \in 1 .. k : entered[r] = n /\ entered' = RemoveAt(entered, r)
    <2>1. entered \in Seq(LlNode)
      BY DEF LlInv, LlTypes
    <2> QED
      BY <1>0, <2>1, LenProperties DEF RemoveNode
  <1>2. PICK e : e = RemoveAt(entered, r)
    OBVIOUS
  <1>3. /\ e \in Seq(LlNode) /\ Len(e) = k - 1
        /\ \A i \in 1 .. k - 1 : e[i] = IF i < r THEN entered[i] ELSE entered[i + 1]
    <2>1. entered \in Seq(LlNode)
      BY DEF LlInv, LlTypes
    <2>2. e \in Seq(LlNode) /\ DOMAIN e = 1 .. k - 1 /\ (\A i \in 1 .. k - 1 : e[i] = IF i < r THEN entered[i] ELSE entered[i + 1])
      BY <1>0, <1>2, <2>1, ElQueueShrinks
    <2>3. Len(e) \in Nat /\ DOMAIN e = 1 .. Len(e) /\ k - 1 \in Nat
      BY <1>0, <2>2, LenProperties
    <2>4. Len(e) = k - 1
      BY <2>2, <2>3
    <2> QED
      BY <2>2, <2>4
  <1>4. LlHead \notin LlNode /\ LlNull \notin LlNode /\ LlNull # LlHead /\ LlTypes
    BY LlApart DEF LlInv
  <1>5. PICK p \in LlNode \cup {LlHead} : p = LlLoc(entered, r - 1)
    <2>1. r - 1 \in 0 .. k
      BY <1>0
    <2> QED
      BY <1>0, <2>1, LlApart
  <1>6. /\ previous[n] = p /\ at[p] = n /\ p # n /\ p # LlNull
    <2>1. r - 1 \in 0 .. k /\ r \in 0 .. k /\ r - 1 # r
      BY <1>0
    <2>2. LlLoc(entered, r) = n
      BY <1>0, <1>1, LlApart
    <2>3. p # n
      BY <1>0, <1>5, <2>1, <2>2, LlApart
    <2> QED
      BY <1>0, <1>1, <1>4, <1>5, <2>3 DEF LlInv
  <1>7. /\ at'[p] = at[n] /\ at'[n] = LlNull
        /\ \A l \in LlNode \cup {LlHead} : l # p /\ l # n => at'[l] = at[l]
        /\ at' \in [LlNode \cup {LlHead} -> LlNode \cup {LlNull}]
    <2>1. at' = [at EXCEPT ![p] = at[n], ![n] = LlNull]
      BY <1>6 DEF RemoveNode, Unlinked
    <2> QED
      BY <1>4, <1>5, <1>6, <2>1 DEF LlTypes
  <1>8. /\ previous'[n] = LlNull
        /\ \A m \in LlNode : m # n => previous'[m] = IF m = at[n] THEN p ELSE previous[m]
        /\ previous' \in [LlNode -> LlNode \cup {LlHead, LlNull}]
    <2>1. previous' = [m \in LlNode |-> IF m = n THEN LlNull ELSE IF m = at[n] THEN p ELSE previous[m]]
      BY <1>6 DEF RemoveNode
    <2> QED
      BY <1>4, <1>5, <1>6, <2>1 DEF LlTypes
  <1>9. LlTypes' /\ entered' = e
    BY <1>1, <1>2, <1>3, <1>7, <1>8 DEF LlTypes
  <1>10. at[n] = IF r = k THEN LlNull ELSE entered[r + 1]
    <2>1. LlLoc(entered, r) = n
      BY <1>0, <1>1, LlApart
    <2>2. CASE r = k
      BY <1>0, <2>1, <2>2 DEF LlInv
    <2>3. CASE r # k
      <3>1. r + 1 \in 1 .. k /\ (r + 1) - 1 = r
        BY <1>0, <2>3
      <3>2. at[LlLoc(entered, (r + 1) - 1)] = entered[r + 1]
        BY <1>0, <3>1 DEF LlInv
      <3> QED
        BY <2>1, <2>3, <3>1, <3>2
    <2> QED
      BY <2>2, <2>3
  <1>11. \A i, j \in 1 .. k - 1 : e[i] = e[j] => i = j
    <2>1. \A i, j \in 1 .. k : entered[i] = entered[j] => i = j
      BY <1>0 DEF LlInv
    <2>2. \A i \in 1 .. k - 1 : i \in 1 .. k /\ i + 1 \in 1 .. k
      BY <1>0
    <2> QED
      BY <1>0, <1>3, <2>1, <2>2
  <1>12. \A i \in 1 .. k : i # r => \E j \in 1 .. k - 1 : e[j] = entered[i]
    <2> SUFFICES ASSUME NEW i \in 1 .. k, i # r PROVE \E j \in 1 .. k - 1 : e[j] = entered[i]
      OBVIOUS
    <2>1. CASE i < r
      <3>1. i \in 1 .. k - 1
        BY <1>0, <2>1
      <3> QED
        BY <1>3, <2>1, <3>1
    <2>2. CASE ~(i < r)
      <3>1. i - 1 \in 1 .. k - 1 /\ ~(i - 1 < r) /\ (i - 1) + 1 = i
        BY <1>0, <2>2
      <3> QED
        BY <1>3, <3>1
    <2> QED
      BY <2>1, <2>2
  <1>13. ASSUME NEW m \in LlNode, \A i \in 1 .. k - 1 : e[i] # m
         PROVE  at'[m] = LlNull /\ previous'[m] = LlNull
    <2>1. CASE m = n
      BY <1>7, <1>8, <2>1
    <2>2. CASE m # n
      <3>1. \A i \in 1 .. k : entered[i] # m
        BY <1>1, <1>12, <1>13, <2>2
      <3>2. at[m] = LlNull /\ previous[m] = LlNull
        BY <1>0, <3>1 DEF LlInv
      <3>3. m # p
        BY <1>4, <1>6, <3>2
      <3>4. m # at[n]
        <4>1. r # k => r + 1 \in 1 .. k
          BY <1>0
        <4> QED
          BY <1>4, <1>10, <3>1, <4>1
      <3> QED
        BY <1>7, <1>8, <2>2, <3>2, <3>3, <3>4
    <2> QED
      BY <2>1, <2>2
  <1>14. \A i \in 0 .. k - 1 : LlLoc(e, i) = IF i < r THEN LlLoc(entered, i) ELSE LlLoc(entered, i + 1)
    <2> SUFFICES ASSUME NEW i \in 0 .. k - 1
                 PROVE LlLoc(e, i) = IF i < r THEN LlLoc(entered, i) ELSE LlLoc(entered, i + 1)
      OBVIOUS
    <2>1. CASE i = 0
      BY <1>0, <2>1 DEF LlLoc
    <2>2. CASE i # 0
      <3>1. i \in 1 .. k - 1 /\ i + 1 # 0
        BY <1>0, <2>2
      <3> QED
        BY <1>3, <2>2, <3>1 DEF LlLoc
    <2> QED
      BY <2>1, <2>2
  <1>15. ASSUME NEW i \in 1 .. k - 1
         PROVE  at'[LlLoc(e, i - 1)] = e[i] /\ previous'[e[i]] = LlLoc(e, i - 1)
    <2>0. i - 1 \in 0 .. k - 1 /\ i \in 1 .. k /\ i + 1 \in 1 .. k
      BY <1>0
    <2>1. CASE i < r
      <3>1. LlLoc(e, i - 1) = LlLoc(entered, i - 1) /\ e[i] = entered[i]
        <4>1. i - 1 < r
          BY <1>0, <2>1
        <4> QED
          BY <1>3, <1>14, <2>0, <2>1, <4>1
      <3>2. LlLoc(entered, i - 1) \in LlNode \cup {LlHead} /\ LlLoc(entered, i - 1) # p /\ LlLoc(entered, i - 1) # n
        <4>1. i - 1 \in 0 .. k /\ r - 1 \in 0 .. k /\ r \in 0 .. k /\ i - 1 # r - 1 /\ i - 1 # r
          BY <1>0, <2>1
        <4>2. LlLoc(entered, r) = n
          BY <1>0, <1>1, LlApart
        <4> QED
          BY <1>0, <1>5, <4>1, <4>2, LlApart
      <3>3. entered[i] # n /\ entered[i] \in LlNode /\ entered[i] # at[n]
        <4>1. i # r /\ (r # k => r + 1 \in 1 .. k /\ i # r + 1)
          BY <1>0, <2>1
        <4>2. entered[i] \in LlNode /\ entered[i] # n
          BY <1>0, <1>1, <2>0, <4>1, LlApart DEF LlInv
        <4> QED
          BY <1>0, <1>4, <1>10, <2>0, <4>1, <4>2 DEF LlInv
      <3>4. at[LlLoc(entered, i - 1)] = entered[i] /\ previous[entered[i]] = LlLoc(entered, i - 1)
        BY <1>0, <2>0 DEF LlInv
      <3> QED
        BY <1>7, <1>8, <3>1, <3>2, <3>3, <3>4
    <2>2. CASE i = r
      <3>1. LlLoc(e, i - 1) = p /\ e[i] = entered[r + 1] /\ r # k
        <4>1. i - 1 < r /\ ~(i < r) /\ r # k
          BY <1>0, <2>2
        <4> QED
          BY <1>3, <1>5, <1>14, <2>0, <2>2, <4>1
      <3>2. entered[r + 1] = at[n] /\ entered[r + 1] \in LlNode /\ entered[r + 1] # n
        <4>1. r + 1 # r /\ r + 1 \in 1 .. k
          BY <1>0, <2>0, <2>2
        <4> QED
          BY <1>0, <1>1, <1>10, <3>1, <4>1, LlApart DEF LlInv
      <3> QED
        BY <1>7, <1>8, <3>1, <3>2
    <2>3. CASE i > r
      <3>1. LlLoc(e, i - 1) = entered[i] /\ e[i] = entered[i + 1]
        <4>1. ~(i - 1 < r) /\ ~(i < r) /\ (i - 1) + 1 = i
          BY <1>0, <2>3
        <4>2. LlLoc(entered, i) = entered[i]
          BY <1>0, <2>0, LlApart
        <4> QED
          BY <1>3, <1>14, <2>0, <4>1, <4>2
      <3>2. entered[i] \in LlNode /\ entered[i] # n /\ entered[i] # p
        <4>1. i # r /\ i \in 0 .. k /\ r - 1 \in 0 .. k /\ r \in 0 .. k /\ i # r - 1
          BY <1>0, <2>3
        <4>2. LlLoc(entered, r) = n /\ LlLoc(entered, i) = entered[i]
          BY <1>0, <1>1, <2>0, LlApart
        <4> QED
          BY <1>0, <1>5, <2>0, <4>1, <4>2, LlApart
      <3>3. entered[i + 1] \in LlNode /\ entered[i + 1] # n /\ entered[i + 1] # at[n]
        <4>1. i + 1 # r /\ (r # k => r + 1 \in 1 .. k /\ i + 1 # r + 1)
          BY <1>0, <2>3
        <4>2. entered[i + 1] \in LlNode /\ entered[i + 1] # n
          BY <1>0, <1>1, <2>0, <4>1, LlApart DEF LlInv
        <4> QED
          BY <1>0, <1>4, <1>10, <2>0, <4>1, <4>2 DEF LlInv
      <3>4. at[entered[i]] = entered[i + 1] /\ previous[entered[i + 1]] = entered[i]
        <4>1. (i + 1) - 1 = i /\ LlLoc(entered, i) = entered[i]
          BY <1>0, <2>0, LlApart
        <4>2. at[LlLoc(entered, (i + 1) - 1)] = entered[i + 1] /\ previous[entered[i + 1]] = LlLoc(entered, (i + 1) - 1)
          BY <1>0, <2>0 DEF LlInv
        <4> QED
          BY <4>1, <4>2
      <3> QED
        BY <1>7, <1>8, <3>1, <3>2, <3>3, <3>4
    <2> QED
      BY <1>0, <2>1, <2>2, <2>3
  <1>16. k - 1 \in 0 .. k - 1 /\ k \in 1 .. k
    BY <1>0
  <1>17. at'[LlLoc(e, k - 1)] = LlNull
    <2>1. CASE r = k
      <3>1. LlLoc(e, k - 1) = p
        <4>1. k - 1 < r
          BY <1>0, <2>1
        <4> QED
          BY <1>5, <1>14, <1>16, <2>1, <4>1
      <3> QED
        BY <1>7, <1>10, <2>1, <3>1
    <2>2. CASE r # k
      <3>1. LlLoc(e, k - 1) = LlLoc(entered, k) /\ LlLoc(entered, k) = entered[k]
        <4>1. ~(k - 1 < r) /\ (k - 1) + 1 = k
          BY <1>0, <2>2
        <4> QED
          BY <1>0, <1>14, <1>16, <4>1, LlApart
      <3>2. entered[k] \in LlNode /\ entered[k] # n /\ entered[k] # p
        <4>1. k \in 0 .. k /\ r - 1 \in 0 .. k /\ r \in 0 .. k /\ k # r - 1 /\ LlLoc(entered, r) = n
          BY <1>0, <1>1, LlApart
        <4> QED
          BY <1>0, <1>5, <1>16, <2>2, <3>1, <4>1, LlApart
      <3>3. at[LlLoc(entered, k)] = LlNull
        BY <1>0 DEF LlInv
      <3> QED
        BY <1>7, <3>1, <3>2, <3>3
    <2> QED
      BY <2>1, <2>2
  <1>18. ltail' = IF k - 1 = 0 THEN LlNull ELSE e[k - 1]
    <2>1. ltail = entered[k]
      BY <1>0, <1>16 DEF LlInv
    <2>2. CASE r = k
      <3>1. ltail' = IF p = LlHead THEN LlNull ELSE p
        BY <1>1, <1>6, <2>1, <2>2 DEF RemoveNode, TailWithout
      <3>2. CASE k - 1 = 0
        <4>1. p = LlHead
          BY <1>5, <2>2, <3>2 DEF LlLoc
        <4> QED
          BY <3>1, <3>2, <4>1
      <3>3. CASE k - 1 # 0
        <4>1. p = entered[k - 1] /\ e[k - 1] = entered[k - 1] /\ k - 1 \in 1 .. k
          <5>1. k - 1 \in 1 .. k - 1 /\ k - 1 < r
            BY <1>0, <2>2, <3>3
          <5> QED
            BY <1>0, <1>3, <1>5, <2>2, <3>3, <5>1 DEF LlLoc
        <4>2. p \in LlNode
          BY <1>0, <4>1, LlApart
        <4> QED
          BY <1>4, <3>1, <3>3, <4>1, <4>2
      <3> QED
        BY <3>2, <3>3
    <2>3. CASE r # k
      <3>1. entered[k] # n /\ entered[k] \in LlNode
        BY <1>0, <1>1, <1>16, <2>3, LlApart DEF LlInv
      <3>2. ltail' = entered[k]
        BY <1>4, <2>1, <3>1 DEF RemoveNode, TailWithout
      <3>3. k - 1 # 0 /\ e[k - 1] = entered[k]
        <4>1. k - 1 \in 1 .. k - 1 /\ ~(k - 1 < r) /\ (k - 1) + 1 = k
          BY <1>0, <2>3
        <4> QED
          BY <1>3, <4>1
      <3> QED
        BY <3>2, <3>3
    <2> QED
      BY <2>2, <2>3
  <1> QED
    BY <1>3, <1>9, <1>11, <1>13, <1>15, <1>17, <1>18 DEF LlInv

LEMMA LlCorrect ==
  /\ LlInit => LlInv
  /\ LlInv /\ [LlNext]_llvars => LlInv'
  /\ LlInv => LlIsList
  <1>1. LlInit => LlInv
    <2>1. SUFFICES ASSUME LlInit PROVE LlInv
      OBVIOUS
    <2>2. LlTypes /\ Len(entered) = 0
      BY <2>1 DEF LlInit, LlTypes
    <2>3. LlLoc(entered, 0) = LlHead
      BY DEF LlLoc
    <2>4. \A i : i \notin 1 .. 0
      OBVIOUS
    <2> QED
      BY <2>1, <2>2, <2>3, <2>4 DEF LlInit, LlInv
  <1>2. LlInv /\ [LlNext]_llvars => LlInv'
    <2>1. LlInv /\ LlNext => LlInv'
      BY LlFront, LlBack, LlRemove DEF LlNext
    <2>2. LlInv /\ UNCHANGED llvars => LlInv'
      BY DEF llvars, LlInv, LlTypes
    <2> QED
      BY <2>1, <2>2
  <1>3. LlInv => LlIsList
    BY DEF LlInv, LlIsList, LlLoc
  <1> QED
    BY <1>1, <1>2, <1>3

-----------------------------------------------------------------------------
(***************************************************************************)
(* Safe memory reclamation, for any number of threads, nodes and cells.    *)
(*                                                                         *)
(* A node that has been unlinked is nowhere else than with the thread that *)
(* puts it off, so that a thread which finds it in its place after         *)
(* announcing it has announced it before it was unlinked: the scan that    *)
(* would reclaim it finds it announced, as long as it is used.  The scan   *)
(* finds one node per other thread, fewer than a batch has, and something  *)
(* is reclaimed.                                                           *)
(***************************************************************************)
SmrReading == {"set", "check", "use"}

SmrTypes ==
  /\ cell \in [SmrCell -> SmrNode] /\ hazard \in [SmrThread -> SmrNode \cup {SmrNull}]
  /\ dlist \in [SmrThread -> Seq(SmrNode)] /\ unused \subseteq SmrNode
  /\ spc \in [SmrThread -> SmrReading \cup {"idle", "defer", "scan"}]
  /\ sreg \in [SmrThread -> [h : SmrNode \cup {SmrNull}, c : SmrCell \cup {SmrNull},
                             plist : SUBSET SmrNode, left : SUBSET SmrThread]]

\* Who reads a node knows where it found it, and announces it before it looks again.
SmrReads ==
  /\ \A t \in SmrThread : spc[t] \in SmrReading \cup {"defer"} => sreg[t].h \in SmrNode /\ sreg[t].c \in SmrCell
  /\ \A t \in SmrThread : spc[t] \in {"check", "use"} => hazard[t] = sreg[t].h
  /\ \A t \in SmrThread : spc[t] \in {"idle", "defer", "scan"} => hazard[t] = SmrNull

\* A node is in a cell, unused, on its way to be put off or put off, and that once.
SmrPlaces ==
  /\ \A x, y \in SmrCell : cell[x] = cell[y] => x = y
  /\ \A x \in SmrCell : cell[x] \notin unused
  /\ \A t, u \in SmrThread : \A i \in DOMAIN dlist[t], j \in DOMAIN dlist[u] :
       dlist[t][i] = dlist[u][j] => t = u /\ i = j
  /\ \A t \in SmrThread : \A i \in DOMAIN dlist[t] : dlist[t][i] \notin unused
  /\ \A t \in SmrThread, x \in SmrCell : \A i \in DOMAIN dlist[t] : dlist[t][i] # cell[x]
  /\ \A t \in SmrThread : spc[t] = "defer" =>
       /\ sreg[t].h \notin unused
       /\ \A x \in SmrCell : cell[x] # sreg[t].h
       /\ \A u \in SmrThread : \A i \in DOMAIN dlist[u] : dlist[u][i] # sreg[t].h
       /\ \A u \in SmrThread : spc[u] = "defer" /\ sreg[u].h = sreg[t].h => t = u

\* What a thread uses is in a cell or put off, and a scan that has it among its nodes has
\* found it announced, or has not come to the thread yet.
SmrUsed ==
  \A t \in SmrThread : spc[t] = "use" =>
    /\ sreg[t].h \notin unused
    /\ \A u \in SmrThread : spc[u] = "scan" => \A i \in DOMAIN dlist[u] :
         dlist[u][i] = sreg[t].h => t \in sreg[u].left \/ dlist[u][i] \in sreg[u].plist

\* A scan finds at most one node announced by each other thread.
SmrFinds ==
  /\ \A t \in SmrThread : spc[t] = "scan" =>
       /\ IsFiniteSet(sreg[t].plist)
       /\ Cardinality(sreg[t].plist) + Cardinality(sreg[t].left \ {t}) <= Cardinality(SmrThread \ {t})
  /\ BatchHasRoom

SmrInv == SmrTypes /\ SmrReads /\ SmrPlaces /\ SmrUsed /\ SmrFinds

\* What a scan keeps is a part of the batch.
LEMMA SmrKeptFinite ==
  ASSUME SmrTypes, NEW t \in SmrThread
  PROVE  IsFiniteSet(Kept(t)) /\ Cardinality(Kept(t)) \in Nat /\ Kept(t) \subseteq DOMAIN dlist[t]
  <1>1. dlist[t] \in Seq(SmrNode)
    BY DEF SmrTypes
  <1>2. PICK k \in Nat : k = Len(dlist[t]) /\ DOMAIN dlist[t] = 1 .. k
    BY <1>1, LenProperties
  <1>3. IsFiniteSet(1 .. k)
    BY FS_Interval
  <1>4. Kept(t) \in SUBSET (1 .. k)
    BY <1>2 DEF Kept
  <1> QED
    BY <1>2, <1>3, <1>4, FS_Subset, FS_CardinalityType

SmrOthers(t) ==
  \A u \in SmrThread \ {t} :
    spc'[u] = spc[u] /\ hazard'[u] = hazard[u] /\ sreg'[u] = sreg[u] /\ dlist'[u] = dlist[u]

LEMMA SmrTyped ==
  ASSUME SmrTypes, SmrReads, NEW t \in SmrThread, SmrStep(t)
  PROVE  SmrTypes' /\ SmrReads' /\ SmrOthers(t)
  <1> USE DEF SmrReading
  <1>0. SmrNull \notin SmrNode /\ \A u \in SmrThread : dlist[u] \in Seq(SmrNode)
    BY LFReclaimAssumption DEF SmrTypes
  <1>1. CASE SmrRead(t)
    <2>1. PICK x \in SmrCell : sreg' = [sreg EXCEPT ![t] = Reg(cell[x], x, {}, {})]
      BY <1>1 DEF SmrRead
    <2>2. spc' = [spc EXCEPT ![t] = "set"] /\ spc[t] = "idle" /\ UNCHANGED <<cell, hazard, dlist, unused>>
      BY <1>1 DEF SmrRead, SmrGo
    <2>3. Reg(cell[x], x, {}, {}).h \in SmrNode /\ Reg(cell[x], x, {}, {}).c \in SmrCell
          /\ Reg(cell[x], x, {}, {}) \in [h : SmrNode \cup {SmrNull}, c : SmrCell \cup {SmrNull},
                                          plist : SUBSET SmrNode, left : SUBSET SmrThread]
      BY DEF Reg, SmrTypes
    <2>4. PICK g : g = Reg(cell[x], x, {}, {})
      OBVIOUS
    <2>5. SmrTypes'
      BY <2>1, <2>2, <2>3, <2>4 DEF SmrTypes
    <2>6. sreg'[t] = g /\ spc'[t] = "set" /\ SmrOthers(t)
      BY <2>1, <2>2, <2>4 DEF SmrTypes, SmrOthers
    <2>7. SmrReads'
      BY <2>2, <2>3, <2>4, <2>6 DEF SmrReads, SmrOthers
    <2> QED
      BY <2>5, <2>6, <2>7
  <1>2. CASE SmrSet(t)
    <2>1. /\ spc' = [spc EXCEPT ![t] = "check"] /\ spc[t] = "set" /\ UNCHANGED <<cell, dlist, unused, sreg>>
          /\ hazard' = [hazard EXCEPT ![t] = sreg[t].h]
      BY <1>2 DEF SmrSet, SmrGo
    <2>2. sreg[t].h \in SmrNode
      BY <2>1 DEF SmrReads
    <2>3. SmrTypes'
      BY <2>1, <2>2 DEF SmrTypes
    <2>4. spc'[t] = "check" /\ hazard'[t] = sreg[t].h /\ SmrOthers(t)
      BY <2>1 DEF SmrTypes, SmrOthers
    <2>5. SmrReads'
      BY <2>1, <2>4 DEF SmrReads, SmrOthers
    <2> QED
      BY <2>3, <2>4, <2>5
  <1>3. CASE SmrCheck(t)
    <2>1. spc[t] = "check" /\ UNCHANGED <<cell, hazard, dlist, unused>>
      BY <1>3 DEF SmrCheck
    <2>2. CASE cell[sreg[t].c] = sreg[t].h
      <3>1. spc' = [spc EXCEPT ![t] = "use"] /\ sreg' = sreg
        BY <1>3, <2>2 DEF SmrCheck, SmrGo
      <3>2. SmrTypes' /\ spc'[t] = "use" /\ SmrOthers(t)
        BY <2>1, <3>1 DEF SmrTypes, SmrOthers
      <3> QED
        BY <2>1, <3>1, <3>2 DEF SmrReads, SmrOthers
    <2>3. CASE cell[sreg[t].c] # sreg[t].h
      <3>1. PICK g : g = Reg(cell[sreg[t].c], sreg[t].c, {}, {})
        OBVIOUS
      <3>2. spc' = [spc EXCEPT ![t] = "set"] /\ sreg' = [sreg EXCEPT ![t] = g]
        BY <1>3, <2>3, <3>1 DEF SmrCheck, SmrGo
      <3>3. sreg[t].c \in SmrCell /\ cell[sreg[t].c] \in SmrNode
        BY <2>1 DEF SmrReads, SmrTypes
      <3>4. g.h \in SmrNode /\ g.c \in SmrCell
            /\ g \in [h : SmrNode \cup {SmrNull}, c : SmrCell \cup {SmrNull}, plist : SUBSET SmrNode, left : SUBSET SmrThread]
        BY <3>1, <3>3 DEF Reg
      <3>5. SmrTypes'
        BY <2>1, <3>2, <3>4 DEF SmrTypes
      <3>6. spc'[t] = "set" /\ sreg'[t] = g /\ SmrOthers(t)
        BY <2>1, <3>2 DEF SmrTypes, SmrOthers
      <3>7. SmrReads'
        BY <2>1, <3>4, <3>6 DEF SmrReads, SmrOthers
      <3> QED
        BY <3>5, <3>6, <3>7
    <2> QED
      BY <2>2, <2>3
  <1>4. CASE SmrRelease(t)
    <2>1. /\ spc' = [spc EXCEPT ![t] = "idle"] /\ spc[t] = "use" /\ UNCHANGED <<cell, dlist, unused, sreg>>
          /\ hazard' = [hazard EXCEPT ![t] = SmrNull]
      BY <1>4 DEF SmrRelease, SmrGo
    <2>2. SmrTypes'
      BY <2>1 DEF SmrTypes
    <2>3. spc'[t] = "idle" /\ hazard'[t] = SmrNull /\ SmrOthers(t)
      BY <2>1 DEF SmrTypes, SmrOthers
    <2> QED
      BY <2>1, <2>2, <2>3 DEF SmrReads, SmrOthers
  <1>5. CASE SmrReplace(t)
    <2>1. spc[t] = "use" /\ UNCHANGED dlist /\ hazard' = [hazard EXCEPT ![t] = SmrNull]
      BY <1>5 DEF SmrReplace
    <2>2. PICK n \in unused :
            IF cell[sreg[t].c] = sreg[t].h
            THEN /\ cell' = [cell EXCEPT ![sreg[t].c] = n] /\ unused' = unused \ {n}
                 /\ SmrGo(t, "use", "defer") /\ UNCHANGED sreg
            ELSE /\ SmrGo(t, "use", "idle") /\ UNCHANGED <<cell, unused, sreg>>
      BY <1>5 DEF SmrReplace
    <2>3. /\ sreg' = sreg
          /\ spc' = [spc EXCEPT ![t] = "defer"] \/ spc' = [spc EXCEPT ![t] = "idle"]
      BY <2>2 DEF SmrGo
    <2>4. n \in SmrNode /\ cell' \in [SmrCell -> SmrNode] /\ unused' \subseteq SmrNode
      <3>1. n \in SmrNode
        BY DEF SmrTypes
      <3>2. CASE cell[sreg[t].c] = sreg[t].h
        BY <2>2, <3>1, <3>2 DEF SmrTypes
      <3>3. CASE cell[sreg[t].c] # sreg[t].h
        BY <2>2, <3>3 DEF SmrTypes
      <3> QED
        BY <3>1, <3>2, <3>3
    <2>5. SmrTypes'
      <3>1. spc' \in [SmrThread -> SmrReading \cup {"idle", "defer", "scan"}]
        BY <2>3 DEF SmrTypes
      <3>2. hazard' \in [SmrThread -> SmrNode \cup {SmrNull}]
        BY <2>1 DEF SmrTypes
      <3>3. dlist' \in [SmrThread -> Seq(SmrNode)]
        BY <2>1 DEF SmrTypes
      <3>4. sreg' \in [SmrThread -> [h : SmrNode \cup {SmrNull}, c : SmrCell \cup {SmrNull},
                                   plist : SUBSET SmrNode, left : SUBSET SmrThread]]
        BY <2>3 DEF SmrTypes
      <3> QED
        BY <2>4, <3>1, <3>2, <3>3, <3>4, Zenon DEF SmrTypes
    <2>6. spc'[t] \in {"defer", "idle"} /\ hazard'[t] = SmrNull /\ SmrOthers(t)
      BY <2>1, <2>3 DEF SmrTypes, SmrOthers
    <2> QED
      BY <2>1, <2>3, <2>5, <2>6 DEF SmrReads, SmrOthers
  <1>6. CASE DeferPut(t)
    <2>1. PICK d : d = Append(dlist[t], sreg[t].h)
      OBVIOUS
    <2>2. PICK g : g = Reg(SmrNull, SmrNull, {}, SmrThread)
      OBVIOUS
    <2>3. PICK to \in {"scan", "idle"} : spc' = [spc EXCEPT ![t] = to]
      BY <1>6 DEF DeferPut, SmrGo
    <2>4. /\ spc[t] = "defer" /\ dlist' = [dlist EXCEPT ![t] = d] /\ sreg' = [sreg EXCEPT ![t] = g]
          /\ UNCHANGED <<cell, hazard, unused>>
      BY <1>6, <2>1, <2>2 DEF DeferPut, SmrGo
    <2>5. d \in Seq(SmrNode)
      BY <1>0, <2>1, <2>4, AppendProperties DEF SmrReads
    <2>6. g \in [h : SmrNode \cup {SmrNull}, c : SmrCell \cup {SmrNull}, plist : SUBSET SmrNode, left : SUBSET SmrThread]
      BY <2>2 DEF Reg
    <2>7. SmrTypes'
      BY <2>3, <2>4, <2>5, <2>6 DEF SmrTypes
    <2>8. spc'[t] \in {"scan", "idle"} /\ SmrOthers(t)
      BY <2>3, <2>4 DEF SmrTypes, SmrOthers
    <2> QED
      BY <2>4, <2>7, <2>8 DEF SmrReads, SmrOthers
  <1>7. CASE ScanRead(t)
    <2>1. PICK u \in sreg[t].left :
            sreg' = [sreg EXCEPT ![t] = Reg(SmrNull, SmrNull, sreg[t].plist \cup ({hazard[u]} \ {SmrNull}), sreg[t].left \ {u})]
      BY <1>7 DEF ScanRead
    <2>2. PICK g : g = Reg(SmrNull, SmrNull, sreg[t].plist \cup ({hazard[u]} \ {SmrNull}), sreg[t].left \ {u})
      OBVIOUS
    <2>3. spc[t] = "scan" /\ UNCHANGED <<cell, hazard, dlist, unused, spc>>
      BY <1>7 DEF ScanRead
    <2>4. g \in [h : SmrNode \cup {SmrNull}, c : SmrCell \cup {SmrNull}, plist : SUBSET SmrNode, left : SUBSET SmrThread]
      <3>1. sreg[t].plist \subseteq SmrNode /\ sreg[t].left \subseteq SmrThread
        BY DEF SmrTypes
      <3>2. hazard[u] \in SmrNode \cup {SmrNull}
        BY <3>1 DEF SmrTypes
      <3> QED
        BY <2>2, <3>1, <3>2 DEF Reg
    <2>5. SmrTypes' /\ SmrOthers(t)
      BY <2>1, <2>2, <2>3, <2>4 DEF SmrTypes, SmrOthers
    <2> QED
      BY <2>3, <2>5 DEF SmrReads, SmrOthers
  <1>8. CASE ScanReclaim(t)
    <2>1. PICK f \in Compacting(Kept(t)) :
            dlist' = [dlist EXCEPT ![t] = [k \in 1 .. Cardinality(Kept(t)) |-> dlist[t][f[k]]]]
      BY <1>8 DEF ScanReclaim
    <2>2. PICK d : d = [k \in 1 .. Cardinality(Kept(t)) |-> dlist[t][f[k]]]
      OBVIOUS
    <2>3. PICK g : g = Reg(SmrNull, SmrNull, {}, {})
      OBVIOUS
    <2>4. /\ spc[t] = "scan" /\ spc' = [spc EXCEPT ![t] = "idle"] /\ UNCHANGED <<cell, hazard>>
          /\ sreg' = [sreg EXCEPT ![t] = g]
          /\ unused' = unused \cup {dlist[t][i] : i \in (DOMAIN dlist[t]) \ Kept(t)}
      BY <1>8, <2>3 DEF ScanReclaim, SmrGo
    <2>5. \A i \in DOMAIN dlist[t] : dlist[t][i] \in SmrNode
      BY <1>0, LenProperties
    <2>6. d \in Seq(SmrNode)
      <3>1. PICK n \in Nat : n = Cardinality(Kept(t))
        BY SmrKeptFinite
      <3>2. \A k \in 1 .. n : f[k] \in Kept(t)
        BY <3>1 DEF Compacting
      <3>3. \A k \in 1 .. n : dlist[t][f[k]] \in SmrNode
        BY <2>5, <3>2 DEF Kept
      <3> QED
        BY <2>2, <3>1, <3>3, SeqDef
    <2>7. g \in [h : SmrNode \cup {SmrNull}, c : SmrCell \cup {SmrNull}, plist : SUBSET SmrNode, left : SUBSET SmrThread]
      BY <2>3 DEF Reg
    <2>8. SmrTypes'
      BY <2>1, <2>2, <2>4, <2>5, <2>6, <2>7 DEF SmrTypes
    <2>9. spc'[t] = "idle" /\ SmrOthers(t)
      BY <2>1, <2>4 DEF SmrTypes, SmrOthers
    <2> QED
      BY <2>4, <2>8, <2>9 DEF SmrReads, SmrOthers
  <1> QED
    BY <1>1, <1>2, <1>3, <1>4, <1>5, <1>6, <1>7, <1>8 DEF SmrStep

\* A step of a thread that puts nothing off and scans nothing.
LEMMA SmrQuiet ==
  ASSUME SmrInv, NEW t \in SmrThread, SmrTypes', SmrReads', SmrOthers(t),
         UNCHANGED <<cell, dlist, unused>>, spc[t] \notin {"defer", "scan"}, spc'[t] \notin {"defer", "scan"},
         spc'[t] = "use" => \E x \in SmrCell : cell[x] = sreg'[t].h
  PROVE  SmrInv'
  <1>1. \A u \in SmrThread : spc'[u] \in {"defer", "scan"} <=> u # t /\ spc[u] \in {"defer", "scan"}
    BY DEF SmrOthers
  <1>2. \A u \in SmrThread : spc'[u] \in {"defer", "scan"} => spc'[u] = spc[u] /\ sreg'[u] = sreg[u]
    BY <1>1 DEF SmrOthers
  <1>3. SmrPlaces'
    <2>1. \A u \in SmrThread : spc'[u] = "defer" <=> u # t /\ spc[u] = "defer"
      BY DEF SmrOthers
    <2>2. \A u \in SmrThread : spc'[u] = "defer" => sreg'[u] = sreg[u]
      BY <1>2
    <2> QED
      BY <2>1, <2>2 DEF SmrInv, SmrPlaces
  <1>4. SmrUsed'
    <2>1. SUFFICES ASSUME NEW u \in SmrThread, spc'[u] = "use"
                   PROVE  /\ sreg'[u].h \notin unused
                          /\ \A v \in SmrThread : spc'[v] = "scan" => \A i \in DOMAIN dlist[v] :
                               dlist[v][i] = sreg'[u].h => u \in sreg'[v].left \/ dlist[v][i] \in sreg'[v].plist
      BY DEF SmrUsed
    <2>2. CASE u = t
      <3>1. PICK x \in SmrCell : cell[x] = sreg'[t].h
        BY <2>1, <2>2
      <3> QED
        BY <2>2, <3>1 DEF SmrInv, SmrPlaces
    <2>3. CASE u # t
      <3>1. spc[u] = "use" /\ sreg'[u] = sreg[u]
        BY <2>1, <2>3 DEF SmrOthers
      <3>2. \A v \in SmrThread : spc'[v] = "scan" => spc[v] = "scan" /\ sreg'[v] = sreg[v]
        BY <1>2
      <3> QED
        BY <3>1, <3>2 DEF SmrInv, SmrUsed
    <2> QED
      BY <2>2, <2>3
  <1>5. SmrFinds'
    <2>1. \A u \in SmrThread : spc'[u] = "scan" => spc[u] = "scan" /\ sreg'[u] = sreg[u]
      BY <1>2
    <2>2. \A u \in SmrThread : spc'[u] # "scan" => spc[u] # "scan"
      BY DEF SmrOthers
    <2> QED
      BY <2>1, <2>2 DEF SmrInv, SmrFinds, BatchHasRoom
  <1> QED
    BY <1>3, <1>4, <1>5 DEF SmrInv

LEMMA SmrQuietSteps ==
  ASSUME SmrInv, NEW t \in SmrThread,
         SmrRead(t) \/ SmrSet(t) \/ SmrCheck(t) \/ SmrRelease(t) \/ (SmrReplace(t) /\ cell[sreg[t].c] # sreg[t].h)
  PROVE  SmrInv'
  <1>1. SmrTypes' /\ SmrReads' /\ SmrOthers(t) /\ SmrTypes /\ SmrReads
    BY SmrTyped DEF SmrStep, SmrInv
  <1>2. UNCHANGED <<cell, dlist, unused>>
    BY DEF SmrRead, SmrSet, SmrCheck, SmrRelease, SmrReplace
  <1>3. spc[t] \in {"idle", "set", "check", "use"}
    BY DEF SmrRead, SmrSet, SmrCheck, SmrRelease, SmrReplace, SmrGo
  <1>4. spc'[t] \in {"set", "check", "use", "idle"} /\ (spc'[t] = "use" => \E x \in SmrCell : cell[x] = sreg'[t].h)
    <2>1. CASE SmrRead(t) \/ SmrSet(t) \/ SmrRelease(t)
      BY <1>1, <2>1 DEF SmrRead, SmrSet, SmrRelease, SmrGo, SmrTypes
    <2>2. CASE SmrCheck(t)
      <3>1. CASE cell[sreg[t].c] = sreg[t].h
        <4>1. spc'[t] = "use" /\ sreg' = sreg /\ spc[t] = "check"
          BY <1>1, <2>2, <3>1 DEF SmrCheck, SmrGo, SmrTypes
        <4>2. sreg[t].c \in SmrCell
          BY <1>1, <4>1 DEF SmrReads, SmrReading
        <4> QED
          BY <3>1, <4>1, <4>2
      <3>2. CASE cell[sreg[t].c] # sreg[t].h
        BY <1>1, <2>2, <3>2 DEF SmrCheck, SmrGo, SmrTypes
      <3> QED
        BY <3>1, <3>2
    <2>3. CASE SmrReplace(t) /\ cell[sreg[t].c] # sreg[t].h
      BY <1>1, <2>3 DEF SmrReplace, SmrGo, SmrTypes
    <2> QED
      BY <2>1, <2>2, <2>3
  <1> QED
    BY <1>1, <1>2, <1>3, <1>4, SmrQuiet

LEMMA SmrReplaces ==
  ASSUME SmrInv, NEW t \in SmrThread, SmrReplace(t), cell[sreg[t].c] = sreg[t].h
  PROVE  SmrInv'
  <1>1. SmrTypes' /\ SmrReads' /\ SmrOthers(t) /\ SmrTypes /\ SmrReads
    BY SmrTyped DEF SmrStep, SmrInv
  <1>2. PICK n \in unused : /\ cell' = [cell EXCEPT ![sreg[t].c] = n] /\ unused' = unused \ {n}
                            /\ SmrGo(t, "use", "defer") /\ UNCHANGED sreg
    BY DEF SmrReplace
  <1>3. spc[t] = "use" /\ spc'[t] = "defer" /\ UNCHANGED <<sreg, dlist>>
    BY <1>1, <1>2 DEF SmrGo, SmrTypes, SmrReplace
  <1>4. PICK c \in SmrCell, h \in SmrNode : c = sreg[t].c /\ h = sreg[t].h
    BY <1>1, <1>3 DEF SmrReads, SmrReading
  <1>5. cell[c] = h /\ cell'[c] = n /\ \A x \in SmrCell \ {c} : cell'[x] = cell[x]
    BY <1>1, <1>2, <1>4 DEF SmrTypes
  <1>6. h \notin unused /\ h # n
    BY <1>5 DEF SmrInv, SmrPlaces
  <1>7. \A x \in SmrCell : cell'[x] # h
    BY <1>5, <1>6 DEF SmrInv, SmrPlaces
  <1>8. \A u \in SmrThread : spc'[u] = "defer" <=> u = t \/ spc[u] = "defer"
    BY <1>1, <1>3 DEF SmrOthers, SmrInv, SmrTypes
  <1>9. SmrPlaces'
    <2>1. \A x, y \in SmrCell : cell'[x] = cell'[y] => x = y
      BY <1>5 DEF SmrInv, SmrPlaces
    <2>2. \A x \in SmrCell : cell'[x] \notin unused'
      BY <1>2, <1>5 DEF SmrInv, SmrPlaces
    <2>3. \A u \in SmrThread, x \in SmrCell : \A i \in DOMAIN dlist[u] : dlist[u][i] # cell'[x]
      BY <1>5 DEF SmrInv, SmrPlaces
    <2>4. \A u \in SmrThread : \A i \in DOMAIN dlist[u] : dlist[u][i] # h
      BY <1>5 DEF SmrInv, SmrPlaces
    <2>5. \A u \in SmrThread : spc[u] = "defer" => sreg[u].h # h /\ sreg[u].h # n
      BY <1>5 DEF SmrInv, SmrPlaces
    <2>6. \A u \in SmrThread : spc'[u] = "defer" =>
             /\ sreg[u].h \notin unused'
             /\ \A x \in SmrCell : cell'[x] # sreg[u].h
             /\ \A v \in SmrThread : \A i \in DOMAIN dlist[v] : dlist[v][i] # sreg[u].h
             /\ \A v \in SmrThread : spc'[v] = "defer" /\ sreg[v].h = sreg[u].h => u = v
      <3>1. ASSUME NEW u \in SmrThread, spc'[u] = "defer"
            PROVE  /\ sreg[u].h \notin unused'
                   /\ \A x \in SmrCell : cell'[x] # sreg[u].h
                   /\ \A v \in SmrThread : \A i \in DOMAIN dlist[v] : dlist[v][i] # sreg[u].h
                   /\ \A v \in SmrThread : spc'[v] = "defer" /\ sreg[v].h = sreg[u].h => u = v
        <4>1. CASE u = t
          BY <1>2, <1>4, <1>6, <1>7, <1>8, <2>4, <2>5, <4>1
        <4>2. CASE u # t
          <5>1. spc[u] = "defer"
            BY <1>8, <3>1, <4>2
          <5>2. \A x \in SmrCell : cell'[x] # sreg[u].h
            BY <1>5, <2>5, <5>1 DEF SmrInv, SmrPlaces
          <5>3. /\ sreg[u].h \notin unused'
                /\ \A v \in SmrThread : \A i \in DOMAIN dlist[v] : dlist[v][i] # sreg[u].h
            BY <1>2, <5>1 DEF SmrInv, SmrPlaces
          <5>4. \A v \in SmrThread : spc'[v] = "defer" /\ sreg[v].h = sreg[u].h => u = v
            BY <1>4, <1>8, <2>5, <5>1 DEF SmrInv, SmrPlaces
          <5> QED
            BY <5>2, <5>3, <5>4
        <4> QED
          BY <4>1, <4>2
      <3> QED
        BY <3>1
    <2>7. /\ \A u, v \in SmrThread : \A i \in DOMAIN dlist[u], j \in DOMAIN dlist[v] :
               dlist[u][i] = dlist[v][j] => u = v /\ i = j
          /\ \A u \in SmrThread : \A i \in DOMAIN dlist[u] : dlist[u][i] \notin unused'
      BY <1>2 DEF SmrInv, SmrPlaces
    <2> QED
      BY <1>3, <2>1, <2>2, <2>3, <2>6, <2>7 DEF SmrPlaces
  <1>10. SmrUsed'
    <2>1. \A u \in SmrThread : spc'[u] = "use" => spc[u] = "use"
      BY <1>1, <1>3 DEF SmrOthers
    <2>2. \A u \in SmrThread : spc'[u] = "scan" => spc[u] = "scan"
      BY <1>1, <1>3 DEF SmrOthers
    <2> QED
      BY <1>2, <1>3, <2>1, <2>2 DEF SmrInv, SmrUsed
  <1>11. SmrFinds'
    <2>1. \A u \in SmrThread : spc'[u] = "scan" <=> spc[u] = "scan"
      BY <1>1, <1>3 DEF SmrOthers
    <2> QED
      BY <1>3, <2>1 DEF SmrInv, SmrFinds, BatchHasRoom
  <1> QED
    BY <1>1, <1>9, <1>10, <1>11 DEF SmrInv

LEMMA SmrDefers ==
  ASSUME SmrInv, NEW t \in SmrThread, DeferPut(t)
  PROVE  SmrInv'
  <1>1. SmrTypes' /\ SmrReads' /\ SmrOthers(t) /\ SmrTypes /\ SmrReads
    BY SmrTyped DEF SmrStep, SmrInv
  <1>2. PICK h : h = sreg[t].h
    OBVIOUS
  <1>3. PICK d : d = Append(dlist[t], h)
    OBVIOUS
  <1>4. /\ spc[t] = "defer" /\ dlist'[t] = d /\ UNCHANGED <<cell, hazard, unused>>
        /\ sreg'[t] = Reg(SmrNull, SmrNull, {}, SmrThread)
        /\ spc'[t] = IF Len(d) >= SmrBatch THEN "scan" ELSE "idle"
    BY <1>1, <1>2, <1>3 DEF DeferPut, SmrGo, SmrTypes
  <1>5. h \in SmrNode /\ dlist[t] \in Seq(SmrNode)
    BY <1>1, <1>2, <1>4 DEF SmrReads, SmrTypes
  <1>6. PICK k \in Nat : k = Len(dlist[t]) /\ DOMAIN dlist[t] = 1 .. k
    BY <1>5, LenProperties
  <1>7. Len(d) = k + 1 /\ DOMAIN d = 1 .. k + 1 /\ d[k + 1] = h /\ \A i \in 1 .. k : d[i] = dlist[t][i]
    <2>1. d \in Seq(SmrNode) /\ Len(d) = k + 1 /\ d[k + 1] = h /\ \A i \in 1 .. k : d[i] = dlist[t][i]
      BY <1>3, <1>5, <1>6, AppendProperties
    <2> QED
      BY <2>1, LenProperties
  <1>8. \A u \in SmrThread : \A i \in DOMAIN dlist'[u] :
          \/ \E j \in DOMAIN dlist[u] : i = j /\ dlist'[u][i] = dlist[u][j]
          \/ u = t /\ i = k + 1 /\ dlist'[u][i] = h
    <2>1. ASSUME NEW u \in SmrThread, NEW i \in DOMAIN dlist'[u]
          PROVE  \/ \E j \in DOMAIN dlist[u] : i = j /\ dlist'[u][i] = dlist[u][j]
                 \/ u = t /\ i = k + 1 /\ dlist'[u][i] = h
      <3>1. CASE u = t
        <4>1. i \in 1 .. k \/ i = k + 1
          BY <1>4, <1>7, <2>1, <3>1
        <4> QED
          BY <1>4, <1>6, <1>7, <3>1, <4>1
      <3>2. CASE u # t
        BY <1>1, <2>1, <3>2 DEF SmrOthers
      <3> QED
        BY <3>1, <3>2
    <2> QED
      BY <2>1
  <1>9. /\ h \notin unused
        /\ \A x \in SmrCell : cell[x] # h
        /\ \A u \in SmrThread : \A i \in DOMAIN dlist[u] : dlist[u][i] # h
        /\ \A u \in SmrThread : spc[u] = "defer" /\ sreg[u].h = h => u = t
    BY <1>2, <1>4 DEF SmrInv, SmrPlaces
  <1>10. \A u \in SmrThread : spc'[u] = "defer" => u # t /\ spc[u] = "defer" /\ sreg'[u] = sreg[u]
    BY <1>1, <1>4 DEF SmrOthers
  <1>11. SmrPlaces'
    <2>1. ASSUME NEW u \in SmrThread, NEW v \in SmrThread, NEW i \in DOMAIN dlist'[u], NEW j \in DOMAIN dlist'[v],
                 dlist'[u][i] = dlist'[v][j]
          PROVE  u = v /\ i = j
      BY <1>8, <1>9, <2>1 DEF SmrInv, SmrPlaces
    <2>2. \A u \in SmrThread : \A i \in DOMAIN dlist'[u] : dlist'[u][i] \notin unused
      BY <1>8, <1>9 DEF SmrInv, SmrPlaces
    <2>3. \A u \in SmrThread, x \in SmrCell : \A i \in DOMAIN dlist'[u] : dlist'[u][i] # cell[x]
      BY <1>8, <1>9 DEF SmrInv, SmrPlaces
    <2>4. ASSUME NEW u \in SmrThread, spc'[u] = "defer"
          PROVE  /\ sreg'[u].h \notin unused
                 /\ \A x \in SmrCell : cell[x] # sreg'[u].h
                 /\ \A v \in SmrThread : \A i \in DOMAIN dlist'[v] : dlist'[v][i] # sreg'[u].h
                 /\ \A v \in SmrThread : spc'[v] = "defer" /\ sreg'[v].h = sreg'[u].h => u = v
      <3>1. spc[u] = "defer" /\ sreg'[u] = sreg[u] /\ sreg[u].h # h
        BY <1>9, <1>10, <2>4
      <3>2. \A v \in SmrThread : \A i \in DOMAIN dlist'[v] : dlist'[v][i] # sreg[u].h
        BY <1>8, <3>1 DEF SmrInv, SmrPlaces
      <3> QED
        BY <1>10, <3>1, <3>2 DEF SmrInv, SmrPlaces
    <2>5. \A x, y \in SmrCell : cell[x] = cell[y] => x = y
      BY DEF SmrInv, SmrPlaces
    <2>6. \A x \in SmrCell : cell[x] \notin unused
      BY DEF SmrInv, SmrPlaces
    <2> QED
      BY <1>4, <2>1, <2>2, <2>3, <2>4, <2>5, <2>6 DEF SmrPlaces
  <1>12. SmrUsed'
    <2>1. SUFFICES ASSUME NEW u \in SmrThread, spc'[u] = "use"
                   PROVE  /\ sreg'[u].h \notin unused
                          /\ \A v \in SmrThread : spc'[v] = "scan" => \A i \in DOMAIN dlist'[v] :
                               dlist'[v][i] = sreg'[u].h => u \in sreg'[v].left \/ dlist'[v][i] \in sreg'[v].plist
      BY <1>4 DEF SmrUsed
    <2>2. spc[u] = "use" /\ sreg'[u] = sreg[u]
      BY <1>1, <1>4, <2>1 DEF SmrOthers
    <2>3. ASSUME NEW v \in SmrThread, spc'[v] = "scan", NEW i \in DOMAIN dlist'[v], dlist'[v][i] = sreg[u].h
          PROVE  u \in sreg'[v].left \/ dlist'[v][i] \in sreg'[v].plist
      <3>1. CASE v = t
        BY <1>4, <3>1 DEF Reg
      <3>2. CASE v # t
        <4>1. spc[v] = "scan" /\ sreg'[v] = sreg[v] /\ dlist'[v] = dlist[v]
          BY <1>1, <2>3, <3>2 DEF SmrOthers
        <4> QED
          BY <2>2, <2>3, <4>1 DEF SmrInv, SmrUsed
      <3> QED
        BY <3>1, <3>2
    <2> QED
      BY <2>2, <2>3 DEF SmrInv, SmrUsed
  <1>13. SmrFinds'
    <2>1. ASSUME NEW u \in SmrThread, spc'[u] = "scan"
          PROVE  /\ IsFiniteSet(sreg'[u].plist)
                 /\ Cardinality(sreg'[u].plist) + Cardinality(sreg'[u].left \ {u}) <= Cardinality(SmrThread \ {u})
      <3>1. CASE u = t
        <4>1. sreg'[u].plist = {} /\ sreg'[u].left = SmrThread
          BY <1>4, <3>1 DEF Reg
        <4>2. PICK n \in Nat : n = Cardinality(SmrThread \ {u})
          BY LFReclaimAssumption, FS_RemoveElement, FS_CardinalityType
        <4> QED
          BY <4>1, <4>2, FS_EmptySet
      <3>2. CASE u # t
        <4>1. spc[u] = "scan" /\ sreg'[u] = sreg[u]
          BY <1>1, <2>1, <3>2 DEF SmrOthers
        <4> QED
          BY <4>1 DEF SmrInv, SmrFinds
      <3> QED
        BY <3>1, <3>2
    <2>2. ASSUME NEW u \in SmrThread, spc'[u] # "scan"
          PROVE  Len(dlist'[u]) < SmrBatch
      <3>1. CASE u = t
        <4>1. SmrBatch \in Nat
          BY LFReclaimAssumption
        <4> QED
          BY <1>4, <1>7, <2>2, <3>1, <4>1
      <3>2. CASE u # t
        BY <1>1, <2>2, <3>2 DEF SmrOthers, SmrInv, SmrFinds, BatchHasRoom
      <3> QED
        BY <3>1, <3>2
    <2> QED
      BY <2>1, <2>2 DEF SmrFinds, BatchHasRoom
  <1> QED
    BY <1>1, <1>11, <1>12, <1>13 DEF SmrInv

LEMMA SmrScans ==
  ASSUME SmrInv, NEW t \in SmrThread, ScanRead(t)
  PROVE  SmrInv'
  <1>1. SmrTypes' /\ SmrReads' /\ SmrOthers(t) /\ SmrTypes /\ SmrReads
    BY SmrTyped DEF SmrStep, SmrInv
  <1>2. PICK w \in sreg[t].left :
          sreg' = [sreg EXCEPT ![t] = Reg(SmrNull, SmrNull, sreg[t].plist \cup ({hazard[w]} \ {SmrNull}), sreg[t].left \ {w})]
    BY DEF ScanRead
  <1>3. spc[t] = "scan" /\ UNCHANGED <<cell, hazard, dlist, unused, spc>> /\ w \in SmrThread
    BY <1>1 DEF ScanRead, SmrTypes
  <1>4. sreg'[t].plist = sreg[t].plist \cup ({hazard[w]} \ {SmrNull}) /\ sreg'[t].left = sreg[t].left \ {w}
    BY <1>1, <1>2 DEF SmrTypes, Reg
  <1>5. \A u \in SmrThread \ {t} : sreg'[u] = sreg[u]
    BY <1>1 DEF SmrOthers
  <1>6. SmrPlaces'
    <2>1. \A u \in SmrThread : spc[u] = "defer" => sreg'[u] = sreg[u]
      BY <1>3, <1>5
    <2> QED
      BY <1>3, <2>1 DEF SmrInv, SmrPlaces
  <1>7. SmrUsed'
    <2>1. SUFFICES ASSUME NEW u \in SmrThread, spc[u] = "use"
                   PROVE  /\ sreg'[u].h \notin unused
                          /\ \A v \in SmrThread : spc[v] = "scan" => \A i \in DOMAIN dlist[v] :
                               dlist[v][i] = sreg'[u].h => u \in sreg'[v].left \/ dlist[v][i] \in sreg'[v].plist
      BY <1>3 DEF SmrUsed
    <2>2. sreg'[u] = sreg[u] /\ hazard[u] = sreg[u].h /\ sreg[u].h # SmrNull
      <3>1. u # t
        BY <1>3, <2>1
      <3>2. sreg[u].h \in SmrNode /\ hazard[u] = sreg[u].h
        BY <1>1, <2>1 DEF SmrReads, SmrReading
      <3> QED
        BY <1>5, <3>1, <3>2, LFReclaimAssumption
    <2>3. ASSUME NEW v \in SmrThread, spc[v] = "scan", NEW i \in DOMAIN dlist[v], dlist[v][i] = sreg[u].h
          PROVE  u \in sreg'[v].left \/ dlist[v][i] \in sreg'[v].plist
      <3>1. u \in sreg[v].left \/ dlist[v][i] \in sreg[v].plist
        BY <2>1, <2>3 DEF SmrInv, SmrUsed
      <3>2. CASE v = t
        BY <1>4, <2>2, <2>3, <3>1, <3>2
      <3>3. CASE v # t
        BY <1>5, <3>1, <3>3
      <3> QED
        BY <3>2, <3>3
    <2> QED
      BY <2>1, <2>2, <2>3 DEF SmrInv, SmrUsed
  <1>8. SmrFinds'
    <2>1. IsFiniteSet(sreg'[t].plist)
          /\ Cardinality(sreg'[t].plist) + Cardinality(sreg'[t].left \ {t}) <= Cardinality(SmrThread \ {t})
      <3>1. IsFiniteSet(sreg[t].plist)
            /\ Cardinality(sreg[t].plist) + Cardinality(sreg[t].left \ {t}) <= Cardinality(SmrThread \ {t})
        BY <1>3 DEF SmrInv, SmrFinds
      <3>2. PICK P, L : P = sreg[t].plist /\ L = sreg[t].left \ {t}
        OBVIOUS
      <3>3. IsFiniteSet(L) /\ IsFiniteSet(SmrThread \ {t})
        <4>1. IsFiniteSet(SmrThread)
          BY LFReclaimAssumption
        <4>2. L \in SUBSET SmrThread
          BY <1>1, <3>2 DEF SmrTypes
        <4> QED
          BY <4>1, <4>2, FS_Subset, FS_RemoveElement
      <3>4. PICK p \in Nat, l \in Nat, n \in Nat : p = Cardinality(P) /\ l = Cardinality(L) /\ n = Cardinality(SmrThread \ {t})
        BY <3>1, <3>2, <3>3, FS_CardinalityType
      <3>5. CASE w = t
        <4>1. hazard[w] = SmrNull
          BY <1>1, <1>3, <3>5 DEF SmrReads
        <4>2. sreg'[t].plist = P /\ sreg'[t].left \ {t} = L
          BY <1>4, <3>2, <3>5, <4>1
        <4> QED
          BY <3>1, <3>2, <4>2
      <3>6. CASE w # t
        <4>1. w \in L /\ sreg'[t].left \ {t} = L \ {w}
          BY <1>2, <1>4, <3>2, <3>6
        <4>2. Cardinality(L \ {w}) = l - 1
          BY <3>3, <3>4, <4>1, FS_RemoveElement
        <4>3. CASE hazard[w] = SmrNull
          <5>1. sreg'[t].plist = P
            BY <1>4, <3>2, <4>3
          <5>2. Cardinality(sreg'[t].plist) = p /\ Cardinality(sreg'[t].left \ {t}) = l - 1 /\ p + l <= n
            BY <3>1, <3>2, <3>4, <4>1, <4>2, <5>1
          <5> QED
            BY <3>1, <3>2, <3>4, <5>1, <5>2
        <4>4. CASE hazard[w] # SmrNull
          <5>1. sreg'[t].plist = P \cup {hazard[w]}
            BY <1>4, <3>2, <4>4
          <5>2. IsFiniteSet(P \cup {hazard[w]}) /\ (Cardinality(P \cup {hazard[w]}) = p \/ Cardinality(P \cup {hazard[w]}) = p + 1)
            BY <3>1, <3>2, <3>4, FS_AddElement
          <5>3. Cardinality(sreg'[t].left \ {t}) = l - 1 /\ p + l <= n
            BY <3>1, <3>2, <3>4, <4>1, <4>2
          <5> QED
            BY <3>4, <5>1, <5>2, <5>3
        <4> QED
          BY <4>3, <4>4
      <3> QED
        BY <3>5, <3>6
    <2>2. ASSUME NEW u \in SmrThread, spc[u] = "scan"
          PROVE  /\ IsFiniteSet(sreg'[u].plist)
                 /\ Cardinality(sreg'[u].plist) + Cardinality(sreg'[u].left \ {u}) <= Cardinality(SmrThread \ {u})
      <3>1. CASE u = t
        BY <2>1, <3>1
      <3>2. CASE u # t
        BY <1>5, <2>2, <3>2 DEF SmrInv, SmrFinds
      <3> QED
        BY <3>1, <3>2
    <2> QED
      BY <1>3, <2>2 DEF SmrInv, SmrFinds, BatchHasRoom
  <1> QED
    BY <1>1, <1>6, <1>7, <1>8 DEF SmrInv

LEMMA SmrReclaims ==
  ASSUME SmrInv, NEW t \in SmrThread, ScanReclaim(t)
  PROVE  SmrInv'
  <1>1. SmrTypes' /\ SmrReads' /\ SmrOthers(t) /\ SmrTypes /\ SmrReads
    BY SmrTyped DEF SmrStep, SmrInv
  <1>2. PICK f \in Compacting(Kept(t)) :
          dlist' = [dlist EXCEPT ![t] = [k \in 1 .. Cardinality(Kept(t)) |-> dlist[t][f[k]]]]
    BY DEF ScanReclaim
  <1>3. PICK n \in Nat : n = Cardinality(Kept(t))
    BY <1>1, SmrKeptFinite
  <1>4. /\ spc[t] = "scan" /\ spc'[t] = "idle" /\ sreg[t].left = {} /\ UNCHANGED <<cell, hazard>>
        /\ unused' = unused \cup {dlist[t][i] : i \in (DOMAIN dlist[t]) \ Kept(t)}
    BY <1>1 DEF ScanReclaim, SmrGo, SmrTypes
  <1>5. \A k \in 1 .. n : f[k] \in Kept(t) /\ f[k] \in DOMAIN dlist[t]
    BY <1>3 DEF Compacting, Kept
  <1>6. \A i, j \in 1 .. n : f[i] = f[j] => i = j
    <2>1. \A i, j \in 1 .. n : i < j => f[i] < f[j]
      BY <1>3 DEF Compacting
    <2>2. \A i \in 1 .. n : f[i] \in Nat
      <3>1. dlist[t] \in Seq(SmrNode)
        BY <1>1 DEF SmrTypes
      <3>2. DOMAIN dlist[t] \subseteq Nat
        BY <3>1, LenProperties
      <3> QED
        BY <1>5, <3>2
    <2> QED
      BY <2>1, <2>2
  <1>7. DOMAIN dlist'[t] = 1 .. n /\ \A k \in 1 .. n : dlist'[t][k] = dlist[t][f[k]]
    BY <1>1, <1>2, <1>3 DEF SmrTypes
  <1>8. Len(dlist'[t]) = n
    <2>1. dlist'[t] \in Seq(SmrNode)
      BY <1>1 DEF SmrTypes
    <2>2. Len(dlist'[t]) \in Nat /\ DOMAIN dlist'[t] = 1 .. Len(dlist'[t])
      BY <2>1, LenProperties
    <2> QED
      BY <1>7, <2>2
  <1>9. \A u \in SmrThread : \A i \in DOMAIN dlist'[u] : \E j \in DOMAIN dlist[u] :
          dlist'[u][i] = dlist[u][j] /\ (u = t => i \in 1 .. n /\ j = f[i] /\ j \in Kept(t)) /\ (u # t => i = j)
    <2>1. ASSUME NEW u \in SmrThread, NEW i \in DOMAIN dlist'[u]
          PROVE  \E j \in DOMAIN dlist[u] :
            dlist'[u][i] = dlist[u][j] /\ (u = t => i \in 1 .. n /\ j = f[i] /\ j \in Kept(t)) /\ (u # t => i = j)
      <3>1. CASE u = t
        BY <1>5, <1>7, <2>1, <3>1
      <3>2. CASE u # t
        BY <1>1, <2>1, <3>2 DEF SmrOthers
      <3> QED
        BY <3>1, <3>2
    <2> QED
      BY <2>1
  <1>10. \A u \in SmrThread : spc'[u] = "defer" => spc[u] = "defer" /\ sreg'[u] = sreg[u]
    BY <1>1, <1>4 DEF SmrOthers
  <1>11. SmrPlaces'
    <2>1. ASSUME NEW u \in SmrThread, NEW v \in SmrThread, NEW i \in DOMAIN dlist'[u], NEW j \in DOMAIN dlist'[v],
                 dlist'[u][i] = dlist'[v][j]
          PROVE  u = v /\ i = j
      <3>1. PICK a \in DOMAIN dlist[u] :
              dlist'[u][i] = dlist[u][a] /\ (u = t => i \in 1 .. n /\ a = f[i] /\ a \in Kept(t)) /\ (u # t => i = a)
        BY <1>9
      <3>2. PICK b \in DOMAIN dlist[v] :
              dlist'[v][j] = dlist[v][b] /\ (v = t => j \in 1 .. n /\ b = f[j] /\ b \in Kept(t)) /\ (v # t => j = b)
        BY <1>9
      <3>3. u = v /\ a = b
        <4>1. dlist[u][a] = dlist[v][b]
          BY <2>1, <3>1, <3>2
        <4> QED
          BY <4>1 DEF SmrInv, SmrPlaces
      <3> QED
        BY <1>6, <3>1, <3>2, <3>3
    <2>2. ASSUME NEW u \in SmrThread, NEW i \in DOMAIN dlist'[u]
          PROVE  dlist'[u][i] \notin unused' /\ \A x \in SmrCell : dlist'[u][i] # cell[x]
      <3>1. PICK a \in DOMAIN dlist[u] :
              dlist'[u][i] = dlist[u][a] /\ (u = t => i \in 1 .. n /\ a = f[i] /\ a \in Kept(t)) /\ (u # t => i = a)
        BY <1>9
      <3>2. dlist[u][a] \notin unused /\ \A x \in SmrCell : dlist[u][a] # cell[x]
        BY DEF SmrInv, SmrPlaces
      <3>3. \A b \in (DOMAIN dlist[t]) \ Kept(t) : dlist[u][a] # dlist[t][b]
        BY <3>1 DEF SmrInv, SmrPlaces
      <3> QED
        BY <1>4, <3>1, <3>2, <3>3
    <2>3. \A x \in SmrCell : cell[x] \notin unused'
      BY <1>4 DEF SmrInv, SmrPlaces
    <2>4. ASSUME NEW u \in SmrThread, spc'[u] = "defer"
          PROVE  /\ sreg'[u].h \notin unused'
                 /\ \A x \in SmrCell : cell[x] # sreg'[u].h
                 /\ \A v \in SmrThread : \A i \in DOMAIN dlist'[v] : dlist'[v][i] # sreg'[u].h
                 /\ \A v \in SmrThread : spc'[v] = "defer" /\ sreg'[v].h = sreg'[u].h => u = v
      <3>1. spc[u] = "defer" /\ sreg'[u] = sreg[u]
        BY <1>10, <2>4
      <3>2. \A v \in SmrThread : \A i \in DOMAIN dlist[v] : dlist[v][i] # sreg[u].h
        BY <3>1 DEF SmrInv, SmrPlaces
      <3>3. \A v \in SmrThread : \A i \in DOMAIN dlist'[v] : dlist'[v][i] # sreg[u].h
        BY <1>9, <3>2
      <3>4. sreg[u].h \notin unused'
        BY <1>4, <3>1, <3>2 DEF SmrInv, SmrPlaces
      <3> QED
        BY <1>10, <3>1, <3>3, <3>4 DEF SmrInv, SmrPlaces
    <2>5. \A x, y \in SmrCell : cell[x] = cell[y] => x = y
      BY DEF SmrInv, SmrPlaces
    <2> QED
      BY <1>4, <2>1, <2>2, <2>3, <2>4, <2>5 DEF SmrPlaces
  <1>12. SmrUsed'
    <2>1. SUFFICES ASSUME NEW u \in SmrThread, spc'[u] = "use"
                   PROVE  /\ sreg'[u].h \notin unused'
                          /\ \A v \in SmrThread : spc'[v] = "scan" => \A i \in DOMAIN dlist'[v] :
                               dlist'[v][i] = sreg'[u].h => u \in sreg'[v].left \/ dlist'[v][i] \in sreg'[v].plist
      BY DEF SmrUsed
    <2>2. spc[u] = "use" /\ sreg'[u] = sreg[u]
      BY <1>1, <1>4, <2>1 DEF SmrOthers
    <2>3. sreg[u].h \notin unused'
      <3>1. SUFFICES ASSUME NEW i \in (DOMAIN dlist[t]) \ Kept(t), sreg[u].h = dlist[t][i] PROVE FALSE
        BY <1>4, <2>2 DEF SmrInv, SmrUsed
      <3>2. dlist[t][i] \in sreg[t].plist
        BY <1>4, <2>2, <3>1 DEF SmrInv, SmrUsed
      <3> QED
        BY <3>1, <3>2 DEF Kept
    <2>4. \A v \in SmrThread : spc'[v] = "scan" => spc[v] = "scan" /\ sreg'[v] = sreg[v] /\ dlist'[v] = dlist[v]
      BY <1>1, <1>4 DEF SmrOthers
    <2> QED
      BY <2>2, <2>3, <2>4 DEF SmrInv, SmrUsed
  <1>13. SmrFinds'
    <2>1. \A u \in SmrThread : spc'[u] = "scan" => spc[u] = "scan" /\ sreg'[u] = sreg[u]
      BY <1>1, <1>4 DEF SmrOthers
    <2>2. n < SmrBatch
      <3>1. PICK P : P = sreg[t].plist
        OBVIOUS
      <3>2. IsFiniteSet(P) /\ Cardinality(P) + Cardinality({} \ {t}) <= Cardinality(SmrThread \ {t})
        BY <1>4, <3>1 DEF SmrInv, SmrFinds
      <3>3. IsFiniteSet(SmrThread) /\ Cardinality(SmrThread) < SmrBatch /\ SmrBatch \in Nat
        BY LFReclaimAssumption
      <3>4. PICK p \in Nat, m \in Nat, k \in Nat :
              p = Cardinality(P) /\ m = Cardinality(SmrThread) /\ k = Cardinality(SmrThread \ {t})
        BY <3>2, <3>3, FS_CardinalityType, FS_RemoveElement
      <3>5. Cardinality({} \ {t}) = 0
        <4>1. {} \ {t} = {}
          OBVIOUS
        <4> QED
          BY <4>1, FS_EmptySet
      <3>6. k = m - 1
        BY <3>3, <3>4, FS_RemoveElement
      <3>7. n <= p
        <4>1. PICK g : g = [i \in Kept(t) |-> dlist[t][i]]
          OBVIOUS
        <4>2. g \in [Kept(t) -> P] /\ \A i, j \in Kept(t) : g[i] = g[j] => i = j
          BY <3>1, <4>1 DEF Kept, SmrInv, SmrPlaces
        <4>3. g \in Injection(Kept(t), P)
          BY <4>2 DEF Injection, IsInjective
        <4> QED
          BY <1>3, <3>2, <3>4, <4>3, FS_Injection
      <3> QED
        BY <3>2, <3>3, <3>4, <3>5, <3>6, <3>7
    <2>3. ASSUME NEW u \in SmrThread, spc'[u] # "scan"
          PROVE  Len(dlist'[u]) < SmrBatch
      <3>1. CASE u = t
        BY <1>8, <2>2, <3>1
      <3>2. CASE u # t
        BY <1>1, <2>3, <3>2 DEF SmrOthers, SmrInv, SmrFinds, BatchHasRoom
      <3> QED
        BY <3>1, <3>2
    <2> QED
      BY <2>1, <2>3 DEF SmrInv, SmrFinds, BatchHasRoom
  <1> QED
    BY <1>1, <1>11, <1>12, <1>13 DEF SmrInv

LEMMA SmrCorrect ==
  /\ SmrInit => SmrInv
  /\ SmrInv /\ [SmrNext]_smrvars => SmrInv'
  /\ SmrInv => NoUseAfterReclaim /\ BatchHasRoom
  <1>1. SmrInit => SmrInv
    <2>1. SUFFICES ASSUME SmrInit PROVE SmrInv
      OBVIOUS
    <2>2. PICK g : g = Reg(SmrNull, SmrNull, {}, {})
      OBVIOUS
    <2>3. g \in [h : SmrNode \cup {SmrNull}, c : SmrCell \cup {SmrNull}, plist : SUBSET SmrNode, left : SUBSET SmrThread]
      BY <2>2 DEF Reg
    <2>4. /\ cell \in [SmrCell -> SmrNode] /\ \A x, y \in SmrCell : cell[x] = cell[y] => x = y
          /\ hazard = [t \in SmrThread |-> SmrNull] /\ dlist = [t \in SmrThread |-> <<>>]
          /\ unused = SmrNode \ {cell[x] : x \in SmrCell}
          /\ spc = [t \in SmrThread |-> "idle"] /\ sreg = [t \in SmrThread |-> g]
      BY <2>1, <2>2 DEF SmrInit
    <2>5. SmrTypes
      BY <2>3, <2>4 DEF SmrTypes
    <2>6. \A t \in SmrThread : spc[t] = "idle" /\ hazard[t] = SmrNull /\ dlist[t] = <<>>
      BY <2>4
    <2>7. SmrReads
      BY <2>6 DEF SmrReads, SmrReading
    <2>8. \A t \in SmrThread : DOMAIN dlist[t] = {}
      BY <2>6
    <2>9. SmrPlaces
      BY <2>4, <2>6, <2>8 DEF SmrPlaces
    <2>10. SmrUsed
      BY <2>6 DEF SmrUsed
    <2>11. SmrFinds
      <3>1. 0 < SmrBatch
        <4>1. Cardinality(SmrThread) \in Nat /\ Cardinality(SmrThread) < SmrBatch /\ SmrBatch \in Nat
          BY LFReclaimAssumption, FS_CardinalityType
        <4> QED
          BY <4>1
      <3> QED
        BY <2>6, <3>1 DEF SmrFinds, BatchHasRoom
    <2> QED
      BY <2>5, <2>7, <2>9, <2>10, <2>11 DEF SmrInv
  <1>2. SmrInv /\ [SmrNext]_smrvars => SmrInv'
    <2>1. SmrInv /\ UNCHANGED smrvars => SmrInv'
      <3>1. SUFFICES ASSUME SmrInv, UNCHANGED smrvars PROVE SmrInv'
        OBVIOUS
      <3>2. UNCHANGED <<cell, hazard, dlist, unused, spc, sreg>>
        BY <3>1 DEF smrvars
      <3>3. SmrTypes' /\ SmrReads'
        BY <3>1, <3>2 DEF SmrInv, SmrTypes, SmrReads
      <3>4. SmrPlaces'
        BY <3>1, <3>2 DEF SmrInv, SmrPlaces
      <3>5. SmrUsed' /\ SmrFinds'
        BY <3>1, <3>2 DEF SmrInv, SmrUsed, SmrFinds, BatchHasRoom
      <3> QED
        BY <3>3, <3>4, <3>5 DEF SmrInv
    <2>2. SmrInv /\ SmrNext => SmrInv'
      <3>1. SUFFICES ASSUME SmrInv, NEW t \in SmrThread, SmrStep(t) PROVE SmrInv'
        BY DEF SmrNext
      <3> QED
        BY <3>1, SmrQuietSteps, SmrReplaces, SmrDefers, SmrScans, SmrReclaims DEF SmrStep
    <2> QED
      BY <2>1, <2>2
  <1>3. SmrInv => NoUseAfterReclaim /\ BatchHasRoom
    BY DEF SmrInv, SmrUsed, SmrPlaces, SmrFinds, NoUseAfterReclaim
  <1> QED
    BY <1>1, <1>2, <1>3
=============================================================================

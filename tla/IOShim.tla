------------------------------- MODULE IOShim -------------------------------
(***************************************************************************)
(* The I/O shim of the classic runtime (src/runtime/OFluxIOShim.cpp): the  *)
(* library calls it interposes, each of which either goes to the kernel    *)
(* while its thread keeps the manager lock, because it will not block, or  *)
(* gives up the lock, is made detached, and waits to run again.            *)
(*                                                                         *)
(* A thread is out (no node function), in a node, in the kernel, relocks   *)
(* (about to take the manager lock), in wtr (wait_to_run, without the      *)
(* lock), opened (a descriptor it has not classified yet) or closing (one  *)
(* that it has declassified), or has crashed.  Which thread wait_to_run    *)
(* wakes is the matter of ClassicRunTime.                                  *)
(***************************************************************************)
EXTENDS Naturals, FiniteSets

CONSTANTS ShThread,     \* threads of the runtime
          Fd,           \* descriptors
          ShRoom,       \* bound: how much fits into a socket's send buffer
          ShNobody

ASSUME IOShimAssumption == ShRoom \in Nat /\ ShNobody \notin ShThread \cup Fd

VARIABLES eminfo,       \* eminfo is set
          shRunning,    \* RunTime::running
          shLock,       \* who has the manager lock
          shpc,
          shDetached,   \* is_detached
          call,         \* the call a thread is in
          regular,      \* is_regular
          object,       \* what the kernel has for a descriptor
          ready,        \* sockets with something to read or accept
          room,         \* what fits into a socket's send buffer
          resident      \* files whose next pages are in memory

shvars == <<eminfo, shRunning, shLock, shpc, shDetached, call, regular, object, ready, room, resident>>
kernelvars == <<object, ready, room, resident>>

NoCall == [fn |-> "none", fd |-> ShNobody, count |-> 0, wait |-> FALSE, slow |-> FALSE,
           failed |-> FALSE, prev |-> FALSE, own |-> FALSE]

\* What a call does in the kernel: it lasts a while, or gets something, or puts it.
Timed == {"pause", "poll", "port"}
Gets  == {"accept", "get", "port"}

\* initShim, before the first thread runs; no descriptor is open yet.
ShInit ==
  /\ eminfo = TRUE /\ shRunning = TRUE /\ shLock = ShNobody
  /\ shpc = [t \in ShThread |-> "out"]
  /\ shDetached = [t \in ShThread |-> FALSE]
  /\ call = [t \in ShThread |-> NoCall]
  /\ regular = {} /\ ready = {} /\ resident = {}
  /\ object = [d \in Fd |-> "none"]
  /\ room = [d \in Fd |-> 0]

(* The runtime around a node function *)
EnterNode(t) ==
  /\ shpc[t] = "out" /\ shpc' = [shpc EXCEPT ![t] = "node"]
  /\ \/ shLock = ShNobody /\ shLock' = t /\ UNCHANGED shDetached
     \/ shDetached' = [shDetached EXCEPT ![t] = TRUE] /\ UNCHANGED shLock
  /\ UNCHANGED <<eminfo, shRunning, call, regular, kernelvars>>

LeaveNode(t) ==
  /\ shpc[t] = "node" /\ shpc' = [shpc EXCEPT ![t] = "out"]
  /\ shLock' = IF shLock = t THEN ShNobody ELSE shLock
  /\ shDetached' = [shDetached EXCEPT ![t] = FALSE]
  /\ UNCHANGED <<eminfo, shRunning, call, regular, kernelvars>>

(* What the calls have in common *)
\* The program gives a descriptor to one event at a time.
Mine(t, d) == \A u \in ShThread \ {t} : call[u].fd # d

Through(t) == ~eminfo \/ shDetached[t]

To(fn, d, count, wait) ==
  [fn |-> fn, fd |-> d, count |-> count, wait |-> wait,
   slow |-> FALSE, failed |-> FALSE, prev |-> FALSE, own |-> FALSE]

\* Usleep and port_get have their own copy of what UnlockRunTime does.
Own(c) == [c EXCEPT !.own = TRUE]

\* A call for which the lock is given up; what the thread was before is kept.
Slow(c, failed, prev) ==
  [fn |-> c.fn, fd |-> c.fd, count |-> c.count, wait |-> c.wait,
   slow |-> TRUE, failed |-> failed, prev |-> prev, own |-> c.own]

\* Straight to the kernel.
Direct(t, c) ==
  /\ shpc' = [shpc EXCEPT ![t] = "kernel"]
  /\ call' = [call EXCEPT ![t] = c]
  /\ UNCHANGED <<eminfo, shRunning, shLock, shDetached, regular, kernelvars>>

\* wake_another_thread, WaitingToRunRAII, UnlockRunTime, and then to the kernel.
Punt(t, c) ==
  /\ shpc' = [shpc EXCEPT ![t] = "kernel"]
  /\ \E failed \in BOOLEAN :
       call' = [call EXCEPT ![t] = Slow(c, failed, shDetached[t])]
  /\ shLock' = ShNobody
  /\ shDetached' = [shDetached EXCEPT ![t] = TRUE]
  /\ UNCHANGED <<eminfo, shRunning, regular, kernelvars>>

Shim(t, c, quick) ==
  /\ shpc[t] = "node" /\ (c.fd \in Fd => Mine(t, c.fd))
  /\ IF Through(t) \/ quick THEN Direct(t, c) ELSE Punt(t, c)

PollIn(d)  == object[d] = "file" \/ d \in ready
PollOut(d) == object[d] = "file" \/ room[d] > 0

(* The calls *)
Sleep(t)         == Shim(t, To("pause", ShNobody, 0, TRUE), FALSE)
Usleep(t)        == Shim(t, Own(To("pause", ShNobody, 0, TRUE)), FALSE)
Select(t)        == Shim(t, To("pause", ShNobody, 0, TRUE), FALSE)
GetHostByName(t) == Shim(t, To("pause", ShNobody, 0, TRUE), FALSE)
EpollWait(t)     == Shim(t, To("pause", ShNobody, 0, TRUE), FALSE)

Accept(t, d) == object[d] = "socket" /\ Shim(t, To("accept", d, 0, TRUE), PollIn(d))

\* What mincore says: of a file the truth, else nothing, and the loop over vec reads
\* memory that nobody has written.
InMemory(d) == IF object[d] = "file" THEN {d \in resident} ELSE BOOLEAN

ReadFd(t, d) ==
  /\ object[d] # "none"
  /\ \E inMemory \in InMemory(d) :
       Shim(t, To("get", d, 0, TRUE), IF d \in regular THEN inMemory ELSE PollIn(d))

WriteFd(t, d, n) == object[d] # "none" /\ Shim(t, To("put", d, n, TRUE), PollOut(d))

Recvfrom(t, d, wait) == object[d] = "socket" /\ Shim(t, To("get", d, 0, wait), PollIn(d) \/ ~wait)
Recv(t, d, wait)     == object[d] = "socket" /\ Shim(t, To("get", d, 0, wait), PollIn(d) \/ ~wait)
Send(t, d, n)        == object[d] = "socket" /\ Shim(t, To("put", d, n, TRUE), PollOut(d))

\* A poll that finds nothing at once is made again if it has a timeout.
Poll(t, d, timeout) ==
  /\ object[d] = "socket"
  /\ Shim(t, To("poll", d, 0, timeout), d \in ready \/ ~timeout)

\* The event ports of Solaris; a port is like a socket here.
PortGet(t, d)       == object[d] = "socket" /\ Shim(t, Own(To("port", d, 0, TRUE)), d \in ready)
PortGetn(t, d, max) == object[d] = "socket" /\ Shim(t, To("port", d, 0, max), ~max)

(* The kernel *)
Blocked(c) ==
  /\ c.wait
  /\ CASE c.fn \in Timed -> c.fn = "pause" \/ c.fd \notin ready
       [] c.fn \in Gets  -> IF object[c.fd] = "file" THEN c.fd \notin resident ELSE c.fd \notin ready
       [] OTHER          -> object[c.fd] = "socket" /\ room[c.fd] < c.count

\* Time passes, disks answer; a socket may not.
Returns(c) == IF c.fn \in Timed THEN TRUE ELSE object[c.fd] = "file" \/ ~Blocked(c)

Effect(c) ==
  /\ object' \in IF c.fn = "accept" 
                 THEN {[object EXCEPT ![d] = "socket"] : d \in {f \in Fd : object[f] = "none"}} \cup {object}
                 ELSE {object}
  /\ ready' \in IF c.fn \in Gets THEN {ready, ready \ {c.fd}} ELSE {ready}
  /\ resident' \in IF c.fn = "get" /\ object[c.fd] = "file"
                   THEN {resident, resident \ {c.fd}} ELSE {resident}
  /\ room' = IF c.fn = "put" /\ object[c.fd] = "socket" THEN [room EXCEPT ![c.fd] = @ - c.count] ELSE room

KernelReturns(t) ==
  /\ shpc[t] = "kernel" /\ Returns(call[t])
  /\ Effect(call[t])
  /\ IF call[t].slow THEN shpc' = [shpc EXCEPT ![t] = "relock"] /\ UNCHANGED call
     ELSE shpc' = [shpc EXCEPT ![t] = "node"] /\ call' = [call EXCEPT ![t] = NoCall]
  /\ UNCHANGED <<eminfo, shRunning, shLock, shDetached, regular>>

\* ~UnlockRunTime and wait_to_run.  A copy of its own makes the thread attached again
\* even when the runtime stops, and reads eminfo only once.
Relock(t) ==
  /\ shpc[t] = "relock" /\ shLock = ShNobody
  /\ shDetached' = [shDetached EXCEPT ![t] = IF shRunning \/ call[t].own THEN call[t].prev ELSE @]
  /\ IF call[t].failed THEN shpc' = [shpc EXCEPT ![t] = "node"] /\ shLock' = t
     ELSE IF eminfo \/ call[t].own THEN shpc' = [shpc EXCEPT ![t] = "wtr"] /\ UNCHANGED shLock
     ELSE shpc' = [shpc EXCEPT ![t] = "crashed"] /\ shLock' = t
  /\ call' = [call EXCEPT ![t] = NoCall]
  /\ UNCHANGED <<eminfo, shRunning, regular, kernelvars>>

WokenToRun(t) ==
  /\ shpc[t] = "wtr" /\ shLock = ShNobody
  /\ shpc' = [shpc EXCEPT ![t] = "node"] /\ shLock' = t
  /\ UNCHANGED <<eminfo, shRunning, shDetached, call, regular, kernelvars>>

(* open and close, which never give up the lock *)
OpenKernel(t) ==
  /\ shpc[t] = "node" /\ shpc' = [shpc EXCEPT ![t] = IF eminfo THEN "opened" ELSE "node"]
  /\ \E d \in Fd :
       /\ object[d] = "none" /\ object' = [object EXCEPT ![d] = "file"]
       /\ resident' \in {resident \ {d}, resident \cup {d}}
       /\ call' = IF eminfo THEN [call EXCEPT ![t] = To("open", d, 0, FALSE)] ELSE call
  /\ UNCHANGED <<eminfo, shRunning, shLock, shDetached, regular, ready, room>>

\* What open does once it has a descriptor; /proc/cpuinfo, which is no regular file,
\* is left out.
OpenMark(t) ==
  /\ shpc[t] = "opened" /\ shpc' = [shpc EXCEPT ![t] = "node"]
  /\ regular' = regular \cup {call[t].fd}
  /\ call' = [call EXCEPT ![t] = NoCall]
  /\ UNCHANGED <<eminfo, shRunning, shLock, shDetached, kernelvars>>

ClosedObject(d) ==
  /\ object' = [object EXCEPT ![d] = "none"]
  /\ ready' = ready \ {d} /\ resident' = resident \ {d}
  /\ room' = [room EXCEPT ![d] = 0]

\* For structures: what is known of the descriptor stays.
CloseForgetsNot(t, d) ==
  /\ shpc[t] = "node" /\ object[d] # "none" /\ Mine(t, d)
  /\ shpc' = [shpc EXCEPT ![t] = "closing"] /\ call' = [call EXCEPT ![t] = To("close", d, 0, FALSE)]
  /\ UNCHANGED <<eminfo, shRunning, shLock, shDetached, regular, kernelvars>>

Close(t, d) ==
  /\ shpc[t] = "node" /\ object[d] # "none" /\ Mine(t, d)
  /\ IF eminfo
     THEN /\ regular' = regular \ {d}
          /\ shpc' = [shpc EXCEPT ![t] = "closing"] /\ call' = [call EXCEPT ![t] = To("close", d, 0, FALSE)]
          /\ UNCHANGED kernelvars
     ELSE ClosedObject(d) /\ UNCHANGED <<regular, shpc, call>>
  /\ UNCHANGED <<eminfo, shRunning, shLock, shDetached>>

CloseKernel(t) ==
  /\ shpc[t] = "closing" /\ shpc' = [shpc EXCEPT ![t] = "node"]
  /\ ClosedObject(call[t].fd)
  /\ call' = [call EXCEPT ![t] = NoCall]
  /\ UNCHANGED <<eminfo, shRunning, shLock, shDetached, regular>>

(* The rest of the world *)
\* A peer sends, or takes what was sent.
Peer ==
  /\ \E d \in Fd : /\ object[d] = "socket"
                   /\ \/ d \notin ready /\ ready' = ready \cup {d} /\ UNCHANGED room
                      \/ room[d] < ShRoom /\ room' = [room EXCEPT ![d] = @ + 1] /\ UNCHANGED ready
  /\ UNCHANGED <<eminfo, shRunning, shLock, shpc, shDetached, call, regular, object, resident>>

\* socket and bind, which the shim leaves alone: a socket to start from.
Socket(t) ==
  /\ shpc[t] = "node" /\ \A d \in Fd : object[d] # "socket"
  /\ \E d \in Fd : object[d] = "none" /\ object' = [object EXCEPT ![d] = "socket"]
  /\ UNCHANGED <<eminfo, shRunning, shLock, shpc, shDetached, call, regular, ready, room, resident>>

ShSoftKill ==
  /\ shRunning /\ shRunning' = FALSE
  /\ UNCHANGED <<eminfo, shLock, shpc, shDetached, call, regular, kernelvars>>

\* deinitShim, in hard_kill after soft_kill; the calls in progress go on.
DeinitShim ==
  /\ ~shRunning /\ eminfo /\ eminfo' = FALSE
  /\ UNCHANGED <<shRunning, shLock, shpc, shDetached, call, regular, kernelvars>>

Calls(t) ==
  \/ Sleep(t) \/ Usleep(t) \/ Select(t) \/ GetHostByName(t) \/ EpollWait(t)
  \/ \E d \in Fd :
       \/ Accept(t, d) \/ ReadFd(t, d) \/ Close(t, d) \/ PortGet(t, d)
       \/ \E n \in 1 .. ShRoom : WriteFd(t, d, n) \/ Send(t, d, n)
       \/ \E wait \in BOOLEAN : \/ Recv(t, d, wait) \/ Recvfrom(t, d, wait) \/ Poll(t, d, wait)
                                  \/ PortGetn(t, d, wait)

ShNext ==
  \/ Peer \/ ShSoftKill \/ DeinitShim
  \/ \E t \in ShThread :
       \/ EnterNode(t) \/ LeaveNode(t) \/ Calls(t) \/ OpenKernel(t) \/ OpenMark(t) \/ CloseKernel(t) \/ Socket(t)
       \/ KernelReturns(t) \/ Relock(t) \/ WokenToRun(t)

----------------------------------------------------------------------------
\* "if it won't block": whoever goes to the kernel with the manager lock is not kept
\* there, or no thread of the runtime could go on.  It is so for every call but one
\* that writes more than the send buffer takes (poll says there is room for a byte),
\* and until the runtime stops (~UnlockRunTime leaves a thread detached then).
LockHolderNeverBlocks ==
  shRunning =>
    \A t \in ShThread : shLock = t /\ shpc[t] = "kernel" /\ call[t].fn # "put" => ~Blocked(call[t])

\* A node function goes on with what it had before the call: the lock, unless it is
\* detached.
BackAsBefore ==
  shRunning => \A t \in ShThread : shpc[t] = "node" => (shDetached[t] <=> shLock # t)
============================================================================

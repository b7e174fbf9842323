------------------------------ MODULE WebServer ------------------------------
(***************************************************************************)
(* The web server (src/src/examples/webserver): the source Listen waits    *)
(* for connections and requests and starts a Page for each,                *)
(*                                                                         *)
(*     Page = ReadRequest -> ReadWrite -> Reply,                           *)
(*                                                                         *)
(* with the error handlers BadRequest and FourOhF.  socket_in_use says of  *)
(* a descriptor whether Listen waits for its next request (0), a request   *)
(* has it (1), or it is closed (2).                                        *)
(*                                                                         *)
(* A node function runs with the manager lock until a call that may block, *)
(* which the shim gives the lock up for: a step is what lies between two   *)
(* such calls.  The kernel's accept gives any descriptor that is not open. *)
(* What a client sends is pieces of a request, which end with a line, in a *)
(* line, or with the request.                                              *)
(***************************************************************************)
EXTENDS Naturals, SequencesExt, FiniteSetsExt

CONSTANTS WsFd,         \* the descriptors the process may have
          WsNoFd,       \* -1
          WsPage,       \* bound: the requests that are dealt with at a time
          WsPieces      \* bound: how many pieces clients send

ASSUME WebServerAssumption == IsFiniteSet(WsFd) /\ WsNoFd \notin WsFd /\ WsPieces \in Nat

VARIABLES bound,        \* whether init could bind and listen
          inUse,        \* socket_in_use
          listenOuts,   \* listen_outs
          selecting,    \* the read_fds that Listen waits with, or <<>> outside select
          page,         \* a request: its node function, socket, ...
          peer,         \* the client's side of a descriptor, "closed" if it is not open
          pieces,       \* how many more pieces clients send
          failed,       \* history: a call of a node function has failed
          aborted       \* the process is gone

wsvars == <<bound, inUse, listenOuts, selecting, page, peer, pieces, failed, aborted>>

NoPage == [pc |-> "none", socket |-> WsNoFd, carry |-> FALSE, close |-> FALSE]

\* init; if bind or listen fails the server goes on.
WsInit ==
  /\ bound \in BOOLEAN
  /\ inUse = [f \in WsFd |-> 2]
  /\ listenOuts = <<>> /\ selecting = <<>>
  /\ page = [p \in WsPage |-> NoPage]
  /\ peer = [f \in WsFd |-> "closed"] /\ pieces = WsPieces
  /\ failed = FALSE /\ aborted = FALSE

(* Clients *)
Open == {f \in WsFd : peer[f] # "closed"}

\* A client sends the next piece of a request, or the first of the next one.
ClientSends ==
  /\ pieces > 0 /\ pieces' = pieces - 1
  /\ \E f \in Open, what \in {"lines", "cut", "last"} :
       peer[f] \in {"silent", "midway"} /\ peer' = [peer EXCEPT ![f] = what]
  /\ UNCHANGED <<bound, inUse, listenOuts, selecting, page, failed, aborted>>

\* A client closes its side after what it has sent, or its connection is reset.
ClientGoes ==
  /\ \E f \in Open, how \in {"eof", "reset"} :
       /\ how = "eof" => peer[f] \in {"silent", "midway", "served"}
       /\ peer[f] # "reset"
       /\ peer' = [peer EXCEPT ![f] = how]
  /\ UNCHANGED <<bound, inUse, listenOuts, selecting, page, pieces, failed, aborted>>

(* Sockets *)
\* closeSocket: close, of whatever the descriptor is now, and the mark.
CloseSocket(f) == /\ peer' = [peer EXCEPT ![f] = "closed"]
                  /\ inUse' = [inUse EXCEPT ![f] = 2]

ReturnSocket(f) == inUse' = [inUse EXCEPT ![f] = 0]

Steps(p, from, to) ==
  /\ page[p].pc = from
  /\ page' = [page EXCEPT ![p] = IF to = "none" THEN NoPage ELSE [@ EXCEPT !.pc = to]]

(* Listen *)
\* The last of listen_outs is the output, and Page's input.
Starts(outs) ==
  \E p \in WsPage :
    /\ page[p].pc = "none"
    /\ page' = [page EXCEPT ![p] = [NoPage EXCEPT !.pc = "read", !.socket = Last(outs)]]
    /\ listenOuts' = Front(outs)

\* What is left of an earlier select.
ListenPop ==
  /\ selecting = <<>> /\ listenOuts # <<>>
  /\ Starts(listenOuts)
  /\ UNCHANGED <<bound, inUse, selecting, peer, pieces, failed, aborted>>

\* read_fds, and select, in the tenth of a second of which others run.
ListenSelect ==
  /\ selecting = <<>> /\ listenOuts = <<>>
  /\ selecting' = <<{f \in WsFd : inUse[f] = 0}>>
  /\ UNCHANGED <<bound, inUse, listenOuts, page, peer, pieces, failed, aborted>>

Readable(f) == peer[f] \in {"lines", "cut", "last", "eof", "reset"}

\* select runs out of time, or fails because a descriptor it was given is not open.
ListenNothing ==
  /\ selecting # <<>> /\ selecting' = <<>>
  /\ UNCHANGED <<bound, inUse, listenOuts, page, peer, pieces, failed, aborted>>

\* For structures: a socket that has a request is left among those to select.
Taken_Forgets(ready) == inUse

\* Listen marks the sockets that it found ready.
Taken(ready) == [f \in WsFd |-> IF f \in ready THEN 1 ELSE inUse[f]]

\* A connection: accept returns a new descriptor, or -1 if there is none or s does not
\* listen; -1 is output too, and the mark of -1 is written before the array.
AcceptReturns(new) ==
  IF bound /\ Open # WsFd THEN new \in WsFd \ Open ELSE new = WsNoFd

\* select returns; the sockets it says are ready and that are still waited for.
ListenReady ==
  /\ selecting # <<>> /\ selecting[1] \subseteq Open
  /\ \E client \in BOOLEAN, new \in WsFd \cup {WsNoFd} :
       LET ready == {f \in selecting[1] : Readable(f) /\ inUse[f] = 0}
           outs  == (IF client THEN <<new>> ELSE <<>>) \o SetToSeq(ready)
       IN  /\ IF client THEN AcceptReturns(new) ELSE new = WsNoFd
           /\ outs # <<>>
           /\ Starts(outs)
           /\ inUse' = IF client /\ new \in WsFd THEN [Taken(ready) EXCEPT ![new] = 1]
                                                 ELSE Taken(ready)
           /\ peer' = IF client /\ new \in WsFd THEN [peer EXCEPT ![new] = "silent"] ELSE peer
  /\ selecting' = <<>>
  /\ UNCHANGED <<bound, pieces, failed, aborted>>

(* ReadRequest *)
\* A read of a piece.  After a read that ended in a line (carry) the scan starts at the
\* front of the buffer but is only as long as what was read, so that it misses the end,
\* and with it, unless a single character was carried, that the request is complete.
ReadPiece(p) ==
  LET f == page[p].socket
      more(carry) == page' = [page EXCEPT ![p].carry = carry]
      done == \E close \in BOOLEAN :
                page' = [page EXCEPT ![p] = [@ EXCEPT !.pc = "header", !.carry = FALSE, !.close = close]]
  IN  /\ page[p].pc = "read" /\ f \in WsFd /\ peer[f] \in {"lines", "cut", "last"}
      /\ peer' = [peer EXCEPT ![f] = IF @ = "last" THEN "served" ELSE "midway"]
      /\ \/ peer[f] = "lines" /\ ~page[p].carry /\ more(FALSE)
         \/ peer[f] = "cut" /\ ~page[p].carry /\ more(TRUE)
         \/ peer[f] # "last" /\ page[p].carry /\ (\E c \in BOOLEAN : more(c))
         \/ peer[f] = "last" /\ done
         \/ peer[f] = "last" /\ page[p].carry /\ (\E c \in BOOLEAN : more(c))
      /\ UNCHANGED <<bound, inUse, listenOuts, selecting, pieces, failed, aborted>>

\* The read fails: the socket is closed and the error's handler is next.  (A read that
\* finds the client's end closed returns 0, and ReadRequest tries again for ever.)
ReadFails(p) ==
  /\ page[p].pc = "read" /\ page[p].socket \in WsFd /\ peer[page[p].socket] \in {"reset", "closed"}
  /\ Steps(p, "read", "bad") /\ CloseSocket(page[p].socket)
  /\ failed' = TRUE
  /\ UNCHANGED <<bound, listenOuts, selecting, pieces, aborted>>

\* The shim's read asserts that a descriptor is not -1.
ReadAborts(p) ==
  /\ page[p].pc = "read" /\ page[p].socket = WsNoFd /\ aborted' = TRUE
  /\ UNCHANGED <<bound, inUse, listenOuts, selecting, page, peer, pieces, failed>>

\* BadRequest writes nothing for the only error of ReadRequest, -1; it closes.
BadRequest(p) ==
  /\ Steps(p, "bad", "none") /\ CloseSocket(page[p].socket)
  /\ UNCHANGED <<bound, listenOuts, selecting, pieces, failed, aborted>>

(* ReadWrite *)
\* stat finds no such file.
NoSuchFile(p) ==
  /\ Steps(p, "header", "fourohf")
  /\ UNCHANGED <<bound, inUse, listenOuts, selecting, peer, pieces, failed, aborted>>

\* The header is written, and the file opened.
WriteHeader(p) ==
  /\ page[p].pc = "header" /\ peer[page[p].socket] \notin {"reset", "closed"}
  /\ Steps(p, "header", "body")
  /\ UNCHANGED <<bound, inUse, listenOuts, selecting, peer, pieces, failed, aborted>>

\* Writing fails, or the file cannot be opened: -1.
HeaderFails(p) ==
  /\ Steps(p, "header", "fourohf") /\ CloseSocket(page[p].socket)
  /\ failed' = TRUE
  /\ UNCHANGED <<bound, listenOuts, selecting, pieces, aborted>>

WriteBody(p) ==
  /\ page[p].pc = "body" /\ peer[page[p].socket] \notin {"reset", "closed"}
  /\ Steps(p, "body", "reply")
  /\ UNCHANGED <<bound, inUse, listenOuts, selecting, peer, pieces, failed, aborted>>

\* Reading the file or writing fails: the socket is closed, but 0 is returned.
BodyFails(p) ==
  /\ Steps(p, "body", "reply") /\ CloseSocket(page[p].socket)
  /\ failed' = TRUE
  /\ UNCHANGED <<bound, listenOuts, selecting, pieces, aborted>>

\* The response is there: the client may ask again.
Answered(f) == IF peer[f] = "served" THEN [peer EXCEPT ![f] = "silent"] ELSE peer

(* Reply and FourOhF *)
\* The end of a response, which closes the socket or has it selected again.
EndPage(p, from) ==
  /\ Steps(p, from, "none")
  /\ IF page[p].close THEN CloseSocket(page[p].socket)
                      ELSE ReturnSocket(page[p].socket) /\ peer' = Answered(page[p].socket)
  /\ UNCHANGED <<bound, listenOuts, selecting, pieces, failed, aborted>>

Reply(p) == EndPage(p, "reply")

\* FourOhF and writeHeaders, which do not look at what write returns.
FourOhF(p) == EndPage(p, "fourohf")

WsNext ==
  /\ ~aborted
  /\ \/ ClientSends \/ ClientGoes
     \/ ListenPop \/ ListenSelect \/ ListenNothing \/ ListenReady
     \/ \E p \in WsPage :
          \/ ReadPiece(p) \/ ReadFails(p) \/ ReadAborts(p) \/ BadRequest(p)
          \/ NoSuchFile(p) \/ WriteHeader(p) \/ HeaderFails(p) \/ WriteBody(p) \/ BodyFails(p)
          \/ Reply(p) \/ FourOhF(p)

Outs(f)  == {i \in DOMAIN listenOuts : listenOuts[i] = f}
Pages(f) == {p \in WsPage : page[p].socket = f}

(***************************************************************************)
(* As long as no call has failed: a socket that is marked 0 is open and    *)
(* nobody has it; one that is marked 1 is open and exactly one request, or *)
(* one entry of listen_outs, has it; and one marked 2 is closed and        *)
(* nobody's.  Listen, the requests and the clients take their steps in any *)
(* order.  After a failed call it is not so: the error handler closes, or  *)
(* Reply closes or returns, a socket that the node function has closed.    *)
(***************************************************************************)
SocketsOnce ==
  ~failed =>
    \A f \in WsFd :
      /\ inUse[f] = 2 <=> f \notin Open
      /\ Cardinality(Outs(f)) + Cardinality(Pages(f)) = (IF inUse[f] = 1 THEN 1 ELSE 0)
=============================================================================

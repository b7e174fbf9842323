-------------------------- MODULE Structures_proofs --------------------------
(***************************************************************************)
(* What the run of MCStructures checks of the parts, for any number of     *)
(* threads, events and nodes.                                              *)
(*                                                                         *)
(* A behaviour is about one part; of the others nothing is said.           *)
(***************************************************************************)
EXTENDS MCStructures, LFAtomics_proofs, Parts_proofs, AtomicMaps_proofs, FiniteSetTheorems, TLAPS

PartStep == UNCHANGED part /\ (LFNext \/ OwnNext \/ ProgNext)

-----------------------------------------------------------------------------
(***************************************************************************)
(* The web server.  As long as no call has failed, the places of a socket, *)
(* an entry of listen_outs or a request, are one where it is marked 1, and *)
(* none otherwise.  Listen's new entries cannot be places of a socket yet: *)
(* what select found is still marked 0, and what accept returned is not    *)
(* open.                                                                   *)
(***************************************************************************)
WsPC == {"none", "read", "header", "body", "reply", "bad", "fourohf"}

WsTypes ==
  /\ inUse \in [WsFd -> 0 .. 2]
  /\ peer = [f \in WsFd |-> peer[f]]
  /\ listenOuts \in Seq(WsFd \cup {WsNoFd})
  /\ page \in [WsPage -> [pc : WsPC, socket : WsFd \cup {WsNoFd}, carry : BOOLEAN, close : BOOLEAN]]
  /\ selecting \in Seq(SUBSET WsFd)
  /\ failed \in BOOLEAN

\* The error handler comes after a failed call, and listen_outs is empty during select.
WsSockets ==
  /\ \A p \in WsPage :
       /\ page[p].pc = "none" => page[p].socket = WsNoFd
       /\ page[p].pc \notin {"none", "read"} => page[p].socket \in WsFd
       /\ page[p].pc = "bad" => failed = TRUE
  /\ selecting # <<>> => listenOuts = <<>>

\* A socket is in outs or with a request.
WsPlaced(f, outs) ==
  (\E i \in DOMAIN outs : outs[i] = f) \/ (\E p \in WsPage : page[p].socket = f)

\* No two places of a socket, outs being entries.
WsApart(outs) ==
  /\ \A i, j \in DOMAIN outs : outs[i] \in WsFd /\ outs[i] = outs[j] => i = j
  /\ \A p, q \in WsPage : page[p].socket \in WsFd /\ page[p].socket = page[q].socket => p = q
  /\ \A i \in DOMAIN outs, p \in WsPage : outs[i] \in WsFd => page[p].socket # outs[i]

WsMarks == \A f \in WsFd : /\ inUse[f] = 2 <=> peer[f] = "closed"
                           /\ inUse[f] = 1 <=> WsPlaced(f, listenOuts)

WsInv == WsTypes /\ WsSockets /\ (failed = FALSE => WsMarks /\ WsApart(listenOuts))

LEMMA WsInitInv == WsInit => WsInv
  <1> SUFFICES ASSUME WsInit PROVE WsInv
    OBVIOUS
  <1>1. WsTypes /\ WsSockets
    <2>1. NoPage \in [pc : WsPC, socket : WsFd \cup {WsNoFd}, carry : BOOLEAN, close : BOOLEAN]
      BY DEF NoPage, WsPC
    <2>2. page \in [WsPage -> [pc : WsPC, socket : WsFd \cup {WsNoFd}, carry : BOOLEAN, close : BOOLEAN]]
      BY <2>1 DEF WsInit
    <2>3. \A p \in WsPage : page[p].pc = "none" /\ page[p].socket = WsNoFd
      BY DEF WsInit, NoPage
    <2>4. inUse \in [WsFd -> 0 .. 2] /\ peer = [f \in WsFd |-> peer[f]]
      BY DEF WsInit
    <2>5. failed \in BOOLEAN /\ listenOuts = <<>> /\ selecting = <<>>
      BY DEF WsInit
    <2> QED
      BY <2>2, <2>3, <2>4, <2>5 DEF WsTypes, WsSockets
  <1>2. WsMarks /\ WsApart(listenOuts)
    BY WebServerAssumption DEF WsInit, WsMarks, WsApart, WsPlaced, NoPage
  <1> QED
    BY <1>1, <1>2 DEF WsInv

\* Steps in which nobody's socket changes.
LEMMA WsQuiet ==
  ASSUME WsInv, WsTypes', WsSockets', failed' = FALSE => failed = FALSE,
         inUse' = inUse, listenOuts' = listenOuts,
         \A p \in WsPage : page'[p].socket = page[p].socket,
         \A f \in WsFd : peer'[f] = "closed" <=> peer[f] = "closed"
  PROVE  WsInv'
  <1>1. ASSUME failed = FALSE PROVE WsMarks' /\ WsApart(listenOuts)'
    BY <1>1 DEF WsInv, WsMarks, WsApart, WsPlaced
  <1> QED
    BY <1>1 DEF WsInv

LEMMA WsClients == ASSUME WsInv, ClientSends \/ ClientGoes PROVE WsInv'
  <1>1. PICK f \in WsFd, v \in {"lines", "cut", "last", "eof", "reset"} :
          peer[f] # "closed" /\ peer' = [peer EXCEPT ![f] = v]
    BY DEF ClientSends, ClientGoes, Open
  <1>2. UNCHANGED <<inUse, listenOuts, selecting, page, failed>>
    BY DEF ClientSends, ClientGoes
  <1>3. peer' = [g \in WsFd |-> IF g = f THEN v ELSE peer[g]]
    BY <1>1 DEF WsInv, WsTypes
  <1>4. WsTypes' /\ WsSockets'
    BY <1>2, <1>3 DEF WsInv, WsTypes, WsSockets
  <1>5. \A g \in WsFd : peer'[g] = "closed" <=> peer[g] = "closed"
    BY <1>1, <1>3
  <1> QED
    BY <1>2, <1>4, <1>5, WsQuiet

LEMMA WsSelects == ASSUME WsInv, ListenSelect \/ ListenNothing PROVE WsInv'
  <1>1. UNCHANGED <<inUse, listenOuts, peer, page, failed>>
    BY DEF ListenSelect, ListenNothing
  <1>2. selecting' \in Seq(SUBSET WsFd) /\ (selecting' # <<>> => listenOuts = <<>>)
    <2>1. CASE ListenSelect
      <3>1. PICK S \in SUBSET WsFd : selecting' = <<S>>
        BY <2>1 DEF ListenSelect
      <3> QED
        BY <2>1, <3>1 DEF ListenSelect
    <2>2. CASE ListenNothing
      BY <2>2 DEF ListenNothing
    <2> QED
      BY <2>1, <2>2
  <1>3. WsTypes' /\ WsSockets'
    BY <1>1, <1>2 DEF WsInv, WsTypes, WsSockets
  <1> QED
    BY <1>1, <1>3, WsQuiet

\* A request goes on with its socket, or has failed.
LEMMA WsGoesOn ==
  ASSUME WsInv, NEW p \in WsPage, NEW r \in [pc : WsPC, socket : WsFd \cup {WsNoFd}, carry : BOOLEAN, close : BOOLEAN],
         page' = [page EXCEPT ![p] = r], r.socket = page[p].socket,
         r.pc # "none", r.pc # "read" => r.socket \in WsFd, r.pc = "bad" => failed' = TRUE,
         failed' = TRUE \/ (failed' = failed /\ inUse' = inUse
                            /\ \A f \in WsFd : peer'[f] = "closed" <=> peer[f] = "closed"),
         inUse' \in [WsFd -> 0 .. 2], peer' = [f \in WsFd |-> peer'[f]],
         UNCHANGED <<listenOuts, selecting>>
  PROVE  WsInv'
  <1>1. /\ page'[p] = r /\ \A q \in WsPage : q # p => page'[q] = page[q]
        /\ page' \in [WsPage -> [pc : WsPC, socket : WsFd \cup {WsNoFd}, carry : BOOLEAN, close : BOOLEAN]]
    BY DEF WsInv, WsTypes
  <1>2. failed \in BOOLEAN /\ (failed = TRUE => failed' = TRUE) /\ failed' \in BOOLEAN
    BY DEF WsInv, WsTypes
  <1>3. WsTypes'
    BY <1>1, <1>2 DEF WsInv, WsTypes
  <1>4. WsSockets'
    BY <1>1, <1>2 DEF WsInv, WsSockets
  <1>5. CASE failed' = TRUE
    BY <1>3, <1>4, <1>5 DEF WsInv
  <1>6. CASE failed' # TRUE
    <2>1. \A q \in WsPage : page'[q].socket = page[q].socket
      BY <1>1
    <2> QED
      BY <1>2, <1>3, <1>4, <1>6, <2>1, WsQuiet
  <1> QED
    BY <1>5, <1>6

LEMMA WsPageFields ==
  ASSUME WsTypes, NEW p \in WsPage
  PROVE  /\ page[p] = [pc |-> page[p].pc, socket |-> page[p].socket, carry |-> page[p].carry, close |-> page[p].close]
         /\ page[p].pc \in WsPC /\ page[p].socket \in WsFd \cup {WsNoFd}
         /\ page[p].carry \in BOOLEAN /\ page[p].close \in BOOLEAN
  <1>1. page[p] \in [pc : WsPC, socket : WsFd \cup {WsNoFd}, carry : BOOLEAN, close : BOOLEAN]
    BY DEF WsTypes
  <1> QED
    BY <1>1

LEMMA WsReads == ASSUME WsInv, NEW p \in WsPage, ReadPiece(p) PROVE WsInv'
  <1> USE DEF WsInv
  <1>1. PICK f \in WsFd : f = page[p].socket /\ peer[f] \in {"lines", "cut", "last"}
    BY DEF ReadPiece
  <1>2. UNCHANGED <<inUse, listenOuts, selecting, failed>>
    BY DEF ReadPiece
  <1>3. PICK v \in {"served", "midway"} : peer' = [peer EXCEPT ![f] = v]
    BY <1>1 DEF ReadPiece
  <1>4. page[p] \in [pc : WsPC, socket : WsFd \cup {WsNoFd}, carry : BOOLEAN, close : BOOLEAN] /\ page[p].pc = "read"
    BY DEF WsTypes, ReadPiece
  <1>5. PICK r \in [pc : WsPC, socket : WsFd \cup {WsNoFd}, carry : BOOLEAN, close : BOOLEAN] :
          page' = [page EXCEPT ![p] = r] /\ r.socket = f /\ r.pc \in {"read", "header"}
    <2>1. \/ \E c \in BOOLEAN : page' = [page EXCEPT ![p].carry = c]
          \/ \E close \in BOOLEAN :
               page' = [page EXCEPT ![p] = [@ EXCEPT !.pc = "header", !.carry = FALSE, !.close = close]]
      BY DEF ReadPiece
    <2>2. ASSUME NEW c \in BOOLEAN, page' = [page EXCEPT ![p].carry = c]
          PROVE  \E r \in [pc : WsPC, socket : WsFd \cup {WsNoFd}, carry : BOOLEAN, close : BOOLEAN] :
                   page' = [page EXCEPT ![p] = r] /\ r.socket = f /\ r.pc \in {"read", "header"}
      <3>1. PICK r : r = [page[p] EXCEPT !.carry = c]
        OBVIOUS
      <3>2. /\ r \in [pc : WsPC, socket : WsFd \cup {WsNoFd}, carry : BOOLEAN, close : BOOLEAN]
            /\ r.socket = f /\ r.pc = "read"
        BY <1>1, <1>4, <3>1
      <3>3. page' = [page EXCEPT ![p] = r]
        BY <2>2, <3>1
      <3> QED
        BY <3>2, <3>3
    <2>3. ASSUME NEW close \in BOOLEAN,
                 page' = [page EXCEPT ![p] = [@ EXCEPT !.pc = "header", !.carry = FALSE, !.close = close]]
          PROVE  \E r \in [pc : WsPC, socket : WsFd \cup {WsNoFd}, carry : BOOLEAN, close : BOOLEAN] :
                   page' = [page EXCEPT ![p] = r] /\ r.socket = f /\ r.pc \in {"read", "header"}
      <3>1. PICK r : r = [page[p] EXCEPT !.pc = "header", !.carry = FALSE, !.close = close]
        OBVIOUS
      <3>2. /\ r \in [pc : WsPC, socket : WsFd \cup {WsNoFd}, carry : BOOLEAN, close : BOOLEAN]
            /\ r.socket = f /\ r.pc = "header"
        BY <1>1, <1>4, <3>1 DEF WsPC
      <3>3. page' = [page EXCEPT ![p] = r]
        BY <2>3, <3>1
      <3> QED
        BY <3>2, <3>3
    <2> QED
      BY <2>1, <2>2, <2>3
  <1>6. r.socket = page[p].socket /\ r.pc # "none" /\ r.pc # "bad" /\ r.socket \in WsFd
    BY <1>1, <1>5
  <1>7. /\ peer' = [g \in WsFd |-> peer'[g]]
        /\ \A g \in WsFd : peer'[g] = "closed" <=> peer[g] = "closed"
    BY <1>1, <1>3 DEF WsTypes
  <1>9. inUse' \in [WsFd -> 0 .. 2] /\ failed' = failed
    BY <1>2 DEF WsTypes
  <1> QED
    BY <1>2, <1>5, <1>6, <1>7, <1>9, WsGoesOn

LEMMA WsSteps ==
  ASSUME WsTypes, NEW p \in WsPage, NEW from, NEW to \in WsPC \ {"none"}, Steps(p, from, to)
  PROVE  \E r \in [pc : WsPC, socket : WsFd \cup {WsNoFd}, carry : BOOLEAN, close : BOOLEAN] :
           page' = [page EXCEPT ![p] = r] /\ r.socket = page[p].socket /\ r.pc = to
  <1>1. page' = [page EXCEPT ![p] = [page[p] EXCEPT !.pc = to]]
    BY DEF Steps
  <1>2. PICK r : r = [pc |-> to, socket |-> page[p].socket, carry |-> page[p].carry, close |-> page[p].close]
    OBVIOUS
  <1>3. [page[p] EXCEPT !.pc = to] = r
    <2>1. page[p] = [pc |-> page[p].pc, socket |-> page[p].socket, carry |-> page[p].carry, close |-> page[p].close]
      BY WsPageFields
    <2> QED
      BY <1>2, <2>1
  <1>4. /\ r \in [pc : WsPC, socket : WsFd \cup {WsNoFd}, carry : BOOLEAN, close : BOOLEAN]
        /\ r.socket = page[p].socket /\ r.pc = to
    BY <1>2, WsPageFields
  <1> QED
    BY <1>1, <1>3, <1>4

LEMMA WsCloses ==
  ASSUME WsTypes, NEW f \in WsFd, CloseSocket(f)
  PROVE  /\ inUse' \in [WsFd -> 0 .. 2] /\ peer' = [g \in WsFd |-> peer'[g]]
         /\ inUse'[f] = 2 /\ peer'[f] = "closed"
         /\ \A g \in WsFd : g # f => inUse'[g] = inUse[g] /\ peer'[g] = peer[g]
  <1>1. inUse' = [inUse EXCEPT ![f] = 2] /\ peer' = [peer EXCEPT ![f] = "closed"]
    BY DEF CloseSocket
  <1>2. /\ inUse' \in [WsFd -> 0 .. 2] /\ inUse'[f] = 2
        /\ \A g \in WsFd : g # f => inUse'[g] = inUse[g]
    BY <1>1 DEF WsTypes
  <1>3. /\ peer' = [g \in WsFd |-> peer'[g]] /\ peer'[f] = "closed"
        /\ \A g \in WsFd : g # f => peer'[g] = peer[g]
    BY <1>1 DEF WsTypes
  <1> QED
    BY <1>2, <1>3

LEMMA WsMiddle ==
  ASSUME WsInv, NEW p \in WsPage,
         ReadFails(p) \/ NoSuchFile(p) \/ WriteHeader(p) \/ HeaderFails(p) \/ WriteBody(p) \/ BodyFails(p)
  PROVE  WsInv'
  <1> USE DEF WsInv
  <1>1. UNCHANGED <<listenOuts, selecting>>
    BY DEF ReadFails, NoSuchFile, WriteHeader, HeaderFails, WriteBody, BodyFails
  <1>2. page[p].socket \in WsFd
    BY DEF ReadFails, NoSuchFile, WriteHeader, HeaderFails, WriteBody, BodyFails, WsSockets, Steps
  <1>3. PICK to \in {"bad", "body", "reply", "fourohf"} :
          (\E from : Steps(p, from, to)) /\ (to = "bad" => failed' = TRUE)
    BY DEF ReadFails, NoSuchFile, WriteHeader, HeaderFails, WriteBody, BodyFails
  <1>4. PICK r \in [pc : WsPC, socket : WsFd \cup {WsNoFd}, carry : BOOLEAN, close : BOOLEAN] :
          page' = [page EXCEPT ![p] = r] /\ r.socket = page[p].socket /\ r.pc = to
    <2>1. to \in WsPC \ {"none"}
      BY <1>3 DEF WsPC
    <2> QED
      BY <1>3, <2>1, WsSteps
  <1>5. \/ failed' = TRUE /\ CloseSocket(page[p].socket)
        \/ UNCHANGED <<failed, inUse, peer>>
    BY DEF ReadFails, NoSuchFile, WriteHeader, HeaderFails, WriteBody, BodyFails
  <1>6. inUse' \in [WsFd -> 0 .. 2] /\ peer' = [f \in WsFd |-> peer'[f]]
    BY <1>2, <1>5, WsCloses DEF WsTypes
  <1>7. failed' = TRUE \/ (failed' = failed /\ inUse' = inUse
                            /\ \A f \in WsFd : peer'[f] = "closed" <=> peer[f] = "closed")
    BY <1>5
  <1> QED
    BY <1>1, <1>2, <1>3, <1>4, <1>6, <1>7, WsGoesOn

\* The end of a request: its socket is closed, or waited for again.
LEMMA WsEnds ==
  ASSUME WsInv, WsTypes', NEW p \in WsPage, page'[p].pc = "none", page'[p].socket = WsNoFd,
         \A q \in WsPage : q # p => page'[q] = page[q],
         NEW f \in WsFd, f = page[p].socket,
         \A g \in WsFd : g # f => inUse'[g] = inUse[g] /\ (peer'[g] = "closed" <=> peer[g] = "closed"),
         failed = FALSE => inUse'[f] # 1 /\ (inUse'[f] = 2 <=> peer'[f] = "closed"),
         UNCHANGED <<listenOuts, selecting, failed>>
  PROVE  WsInv'
  <1> USE DEF WsInv
  <1>5. WsSockets'
    BY DEF WsSockets
  <1>6. ASSUME failed = FALSE PROVE WsMarks' /\ WsApart(listenOuts)'
    <2>1. WsApart(listenOuts)'
      BY <1>6, WebServerAssumption DEF WsApart
    <2>2. ASSUME NEW g \in WsFd, g # f
          PROVE  WsPlaced(g, listenOuts)' <=> WsPlaced(g, listenOuts)
      <3>1. \A q \in WsPage : page'[q].socket = g <=> page[q].socket = g
        BY <2>2, WebServerAssumption
      <3> QED
        BY <3>1 DEF WsPlaced
    <2>3. ~WsPlaced(f, listenOuts)'
      BY <1>6, WebServerAssumption DEF WsPlaced, WsApart
    <2>4. WsMarks'
      BY <1>6, <2>2, <2>3 DEF WsMarks
    <2> QED
      BY <2>1, <2>4
  <1> QED
    BY <1>5, <1>6

LEMMA WsReplies ==
  ASSUME WsInv, NEW p \in WsPage, BadRequest(p) \/ Reply(p) \/ FourOhF(p)
  PROVE  WsInv'
  <1>0. WsTypes /\ WsSockets /\ (failed = FALSE => WsMarks /\ WsApart(listenOuts))
    BY DEF WsInv
  <1>1. PICK from \in {"bad", "reply", "fourohf"} :
          Steps(p, from, "none") /\ (from = "bad" => failed = TRUE)
    BY <1>0 DEF BadRequest, Reply, FourOhF, EndPage, Steps, WsSockets
  <1>2. PICK f \in WsFd : f = page[p].socket
    BY <1>0, <1>1 DEF WsSockets, Steps
  <1>a. /\ page' \in [WsPage -> [pc : WsPC, socket : WsFd \cup {WsNoFd}, carry : BOOLEAN, close : BOOLEAN]]
        /\ page'[p].pc = "none" /\ page'[p].socket = WsNoFd
        /\ \A q \in WsPage : q # p => page'[q] = page[q]
    <2>1. page' = [page EXCEPT ![p] = NoPage]
      BY <1>1 DEF Steps
    <2>2. /\ NoPage \in [pc : WsPC, socket : WsFd \cup {WsNoFd}, carry : BOOLEAN, close : BOOLEAN]
          /\ NoPage.pc = "none" /\ NoPage.socket = WsNoFd
      BY DEF NoPage, WsPC
    <2> QED
      BY <1>0, <2>1, <2>2 DEF WsTypes
  <1>3. UNCHANGED <<listenOuts, selecting, failed>>
    BY DEF BadRequest, Reply, FourOhF, EndPage
  <1>4. CloseSocket(f) \/ (ReturnSocket(f) /\ peer' = Answered(f) /\ from # "bad")
    BY <1>1, <1>2 DEF BadRequest, Reply, FourOhF, EndPage, Steps
  <1>5. CASE CloseSocket(f)
    <2>1. \A g \in WsFd : g # f => inUse'[g] = inUse[g] /\ (peer'[g] = "closed" <=> peer[g] = "closed")
      BY <1>0, <1>5, WsCloses
    <2>2. inUse' \in [WsFd -> 0 .. 2] /\ peer' = [g \in WsFd |-> peer'[g]]
          /\ inUse'[f] = 2 /\ peer'[f] = "closed"
      BY <1>0, <1>5, WsCloses
    <2>3. WsTypes'
      BY <1>0, <1>3, <1>a, <2>2 DEF WsTypes
    <2>4. failed = FALSE => inUse'[f] # 1 /\ (inUse'[f] = 2 <=> peer'[f] = "closed")
      BY <2>2
    <2> QED
      BY <1>2, <1>3, <1>a, <2>1, <2>3, <2>4, WsEnds
  <1>6. CASE ReturnSocket(f) /\ peer' = Answered(f)
    <2>1. /\ inUse' \in [WsFd -> 0 .. 2] /\ inUse'[f] = 0
          /\ \A g \in WsFd : g # f => inUse'[g] = inUse[g]
      BY <1>0, <1>6 DEF ReturnSocket, WsTypes
    <2>2. /\ peer' = [g \in WsFd |-> peer'[g]]
          /\ \A g \in WsFd : peer'[g] = "closed" <=> peer[g] = "closed"
      BY <1>0, <1>6 DEF Answered, WsTypes
    <2>3. failed = FALSE => peer[f] # "closed"
      <3>1. failed = FALSE => WsPlaced(f, listenOuts) /\ inUse[f] = 1
        BY <1>0, <1>2 DEF WsMarks, WsPlaced
      <3> QED
        BY <1>0, <3>1 DEF WsMarks
    <2>4. WsTypes'
      BY <1>0, <1>3, <1>a, <2>1, <2>2 DEF WsTypes
    <2>5. failed = FALSE => inUse'[f] # 1 /\ (inUse'[f] = 2 <=> peer'[f] = "closed")
      BY <2>1, <2>2, <2>3
    <2>6. \A g \in WsFd : g # f => inUse'[g] = inUse[g] /\ (peer'[g] = "closed" <=> peer[g] = "closed")
      BY <2>1, <2>2
    <2> QED
      BY <1>2, <1>3, <1>a, <2>4, <2>5, <2>6, WsEnds
  <1> QED
    BY <1>4, <1>5, <1>6

LEMMA WsSetToSeq ==
  ASSUME NEW S, IsFiniteSet(S)
  PROVE  /\ SetToSeq(S) \in Seq(S)
         /\ \A i, j \in DOMAIN SetToSeq(S) : SetToSeq(S)[i] = SetToSeq(S)[j] => i = j
         /\ \A x \in S : \E i \in DOMAIN SetToSeq(S) : SetToSeq(S)[i] = x
  <1>1. PICK n \in Nat : n = Cardinality(S)
    BY FS_CardinalityType
  <1>2. ExistsBijection(1 .. n, S)
    BY <1>1, FS_CardinalityType
  <1>3. PICK f \in Bijection(1 .. n, S) : TRUE
    BY <1>2 DEF ExistsBijection
  <1>4. f \in [1 .. n -> S] /\ IsInjective(f)
    BY <1>3 DEF Bijection, Injection, IsInjective
  <1>5. SetToSeq(S) \in [1 .. n -> S] /\ IsInjective(SetToSeq(S))
    BY <1>1, <1>4 DEF SetToSeq
  <1>6. PICK g : g = SetToSeq(S)
    OBVIOUS
  <1>7. g \in [1 .. n -> S] /\ \A i, j \in 1 .. n : g[i] = g[j] => i = j
    BY <1>5, <1>6 DEF IsInjective
  <1>8. g \in Injection(1 .. n, S)
    BY <1>7 DEF Injection, IsInjective
  <1>9. Cardinality(1 .. n) = n
    <2>1. Cardinality(1 .. n) = IF n < 1 THEN 0 ELSE n - 1 + 1
      BY FS_Interval
    <2> QED
      BY <1>1, <2>1
  <1>10. g \in Surjection(1 .. n, S)
    BY <1>1, <1>8, <1>9, FS_Injection
  <1>11. \A x \in S : \E i \in 1 .. n : g[i] = x
    BY <1>10 DEF Surjection
  <1>12. g \in Seq(S) /\ DOMAIN g = 1 .. n
    BY <1>7
  <1> QED
    BY <1>6, <1>7, <1>11, <1>12

\* The last entry of outs becomes a request, the others stay.
LEMMA WsStarts ==
  ASSUME WsTypes, WsSockets, NEW outs \in Seq(WsFd \cup {WsNoFd}), outs # <<>>, Starts(outs)
  PROVE  /\ listenOuts' \in Seq(WsFd \cup {WsNoFd})
         /\ page' \in [WsPage -> [pc : WsPC, socket : WsFd \cup {WsNoFd}, carry : BOOLEAN, close : BOOLEAN]]
         /\ \A p \in WsPage : page'[p] = page[p] \/ page'[p].pc = "read"
         /\ \A f \in WsFd : WsPlaced(f, listenOuts)' <=> WsPlaced(f, outs)
         /\ WsApart(outs) => WsApart(listenOuts)'
  <1>1. PICK n : n = Len(outs)
    OBVIOUS
  <1>2. n \in Nat /\ n > 0 /\ DOMAIN outs = 1 .. n
    BY <1>1
  <1>3. PICK p \in WsPage : /\ page[p].pc = "none"
                            /\ page' = [page EXCEPT ![p] = [NoPage EXCEPT !.pc = "read", !.socket = Last(outs)]]
                            /\ listenOuts' = Front(outs)
    BY DEF Starts
  <1>4. PICK last \in WsFd \cup {WsNoFd} : last = outs[n]
    BY <1>2
  <1>5. PICK r : r = [NoPage EXCEPT !.pc = "read", !.socket = last]
    OBVIOUS
  <1>6. page' = [page EXCEPT ![p] = r]
    <2>1. Last(outs) = last
      BY <1>1, <1>4 DEF Last
    <2> QED
      BY <1>3, <1>5, <2>1
  <1>7. /\ r \in [pc : WsPC, socket : WsFd \cup {WsNoFd}, carry : BOOLEAN, close : BOOLEAN]
        /\ r.pc = "read" /\ r.socket = last
    <2>1. NoPage \in [pc : WsPC, socket : WsFd \cup {WsNoFd}, carry : BOOLEAN, close : BOOLEAN]
      BY DEF NoPage, WsPC
    <2> QED
      BY <1>4, <1>5, <2>1 DEF WsPC
  <1>8. /\ page' \in [WsPage -> [pc : WsPC, socket : WsFd \cup {WsNoFd}, carry : BOOLEAN, close : BOOLEAN]]
        /\ page'[p].pc = "read" /\ page'[p].socket = last
        /\ \A q \in WsPage : q # p => page'[q] = page[q]
    BY <1>6, <1>7 DEF WsTypes
  <1>9. page[p].socket = WsNoFd
    BY <1>3 DEF WsSockets
  <1>10. PICK front : front = SubSeq(outs, 1, n - 1)
    OBVIOUS
  <1>11. /\ front \in Seq(WsFd \cup {WsNoFd}) /\ DOMAIN front = 1 .. n - 1
         /\ \A i \in 1 .. n - 1 : front[i] = outs[i]
    <2>1. 1 \in 1 .. n + 1 /\ n - 1 \in 0 .. n
      BY <1>2
    <2> QED
      BY <1>1, <1>2, <1>10, <2>1, SubSeqProperties
  <1>12. listenOuts' = front
    BY <1>1, <1>3, <1>10 DEF Front
  <1>13. /\ \A i \in 1 .. n - 1 : i \in 1 .. n /\ i # n
         /\ \A i \in 1 .. n : i = n \/ i \in 1 .. n - 1
         /\ n \in 1 .. n
    BY <1>2
  <1>14. ASSUME NEW f \in WsFd PROVE WsPlaced(f, listenOuts)' <=> WsPlaced(f, outs)
    <2>1. (\E i \in 1 .. n : outs[i] = f) <=> (last = f \/ \E i \in 1 .. n - 1 : front[i] = f)
      BY <1>4, <1>11, <1>13
    <2>2. (\E q \in WsPage : page'[q].socket = f) <=> (last = f \/ \E q \in WsPage : page[q].socket = f)
      BY <1>8, <1>9, WebServerAssumption
    <2> QED
      BY <1>2, <1>11, <1>12, <2>1, <2>2 DEF WsPlaced
  <1>15. ASSUME WsApart(outs) PROVE WsApart(listenOuts)'
    <2>1. \A i, j \in 1 .. n - 1 : front[i] \in WsFd /\ front[i] = front[j] => i = j
      BY <1>2, <1>11, <1>13, <1>15 DEF WsApart
    <2>2. last \in WsFd => /\ \A i \in 1 .. n - 1 : front[i] # last
                           /\ \A q \in WsPage : page[q].socket # last
      BY <1>2, <1>4, <1>11, <1>13, <1>15 DEF WsApart
    <2>3. \A q, s \in WsPage : page'[q].socket \in WsFd /\ page'[q].socket = page'[s].socket => q = s
      BY <1>8, <1>15, <2>2 DEF WsApart
    <2>4. \A i \in 1 .. n - 1, q \in WsPage : front[i] \in WsFd => page'[q].socket # front[i]
      BY <1>2, <1>8, <1>11, <1>13, <1>15, <2>2, SMTT(30) DEF WsApart
    <2> QED
      BY <1>11, <1>12, <2>1, <2>3, <2>4 DEF WsApart
  <1> QED
    BY <1>8, <1>11, <1>12, <1>14, <1>15

LEMMA WsListenPop == ASSUME WsInv, ListenPop PROVE WsInv'
  <1>0. WsTypes /\ WsSockets /\ (failed = FALSE => WsMarks /\ WsApart(listenOuts))
    BY DEF WsInv
  <1>1. /\ listenOuts # <<>> /\ selecting = <<>> /\ Starts(listenOuts)
        /\ UNCHANGED <<inUse, selecting, peer, failed>>
    BY DEF ListenPop
  <1>2. listenOuts \in Seq(WsFd \cup {WsNoFd})
    BY <1>0 DEF WsTypes
  <1>3. /\ listenOuts' \in Seq(WsFd \cup {WsNoFd})
        /\ page' \in [WsPage -> [pc : WsPC, socket : WsFd \cup {WsNoFd}, carry : BOOLEAN, close : BOOLEAN]]
        /\ \A p \in WsPage : page'[p] = page[p] \/ page'[p].pc = "read"
        /\ \A f \in WsFd : WsPlaced(f, listenOuts)' <=> WsPlaced(f, listenOuts)
        /\ WsApart(listenOuts) => WsApart(listenOuts)'
    BY <1>0, <1>1, <1>2, WsStarts
  <1>4. WsTypes'
    BY <1>0, <1>1, <1>3 DEF WsTypes
  <1>5. WsSockets'
    BY <1>0, <1>1, <1>3 DEF WsSockets
  <1>6. failed = FALSE => WsMarks'
    BY <1>0, <1>1, <1>3 DEF WsMarks
  <1> QED
    BY <1>0, <1>1, <1>3, <1>4, <1>5, <1>6 DEF WsInv

\* What select and accept found are no places of sockets before.
LEMMA WsListenReady == ASSUME WsInv, ListenReady PROVE WsInv'
  <1>0. WsTypes /\ WsSockets /\ (failed = FALSE => WsMarks /\ WsApart(listenOuts))
    BY DEF WsInv
  <1>1. listenOuts = <<>>
    BY <1>0 DEF ListenReady, WsSockets
  <1>2. PICK picked : picked = {f \in selecting[1] : Readable(f) /\ inUse[f] = 0}
    OBVIOUS
  <1>3. selecting # <<>> /\ selecting' = <<>> /\ selecting[1] \subseteq WsFd
    BY <1>0 DEF ListenReady, WsTypes
  <1>4. picked \subseteq WsFd /\ IsFiniteSet(picked) /\ \A f \in picked : inUse[f] = 0
    BY <1>2, <1>3, WebServerAssumption, FS_Subset
  <1>5. PICK client \in BOOLEAN, new \in WsFd \cup {WsNoFd} :
          LET outs == (IF client THEN <<new>> ELSE <<>>) \o SetToSeq(picked)
          IN  /\ IF client THEN AcceptReturns(new) ELSE new = WsNoFd
              /\ outs # <<>>
              /\ Starts(outs)
              /\ inUse' = IF client /\ new \in WsFd THEN [Taken(picked) EXCEPT ![new] = 1]
                                                    ELSE Taken(picked)
              /\ peer' = IF client /\ new \in WsFd THEN [peer EXCEPT ![new] = "silent"] ELSE peer
    BY <1>2 DEF ListenReady
  <1>6. PICK found : found = SetToSeq(picked)
    OBVIOUS
  <1>7. /\ found \in Seq(picked)
        /\ \A i, j \in DOMAIN found : found[i] = found[j] => i = j
        /\ \A f \in picked : \E i \in DOMAIN found : found[i] = f
    BY <1>4, <1>6, WsSetToSeq
  <1>8. PICK outs : outs = (IF client THEN <<new>> ELSE <<>>) \o found
    OBVIOUS
  <1>9. PICK fresh : fresh = IF client THEN {new} ELSE {}
    OBVIOUS
  <1>10. /\ outs \in Seq(WsFd \cup {WsNoFd})
         /\ \A i \in DOMAIN outs : outs[i] \in fresh \cup picked
         /\ \A f \in fresh \cup picked : \E i \in DOMAIN outs : outs[i] = f
         /\ fresh \cap picked = {} => \A i, j \in DOMAIN outs : outs[i] = outs[j] => i = j
    <2>1. PICK m : m = Len(found)
      OBVIOUS
    <2>2. m \in Nat /\ DOMAIN found = 1 .. m /\ found \in Seq(WsFd \cup {WsNoFd}) /\ \A i \in 1 .. m : found[i] \in picked
      BY <1>4, <1>7, <2>1
    <2>3. CASE client
      <3>1. /\ outs \in Seq(WsFd \cup {WsNoFd}) /\ DOMAIN outs = 1 .. m + 1
            /\ outs[1] = new /\ \A i \in 1 .. m : outs[i + 1] = found[i]
        <4>1. outs = <<new>> \o found
          BY <1>8, <2>3
        <4> QED
          BY <2>1, <2>2, <4>1
      <3>2. \A i \in 1 .. m + 1 : i = 1 \/ \E j \in 1 .. m : i = j + 1 /\ outs[i] = found[j]
        <4>1. ASSUME NEW i \in 1 .. m + 1, i # 1
              PROVE  \E j \in 1 .. m : i = j + 1 /\ outs[i] = found[j]
          <5>1. PICK j \in 1 .. m : i = j + 1
            <6>1. i - 1 \in 1 .. m /\ i = (i - 1) + 1
              BY <2>2, <4>1
            <6> QED
              BY <6>1
          <5> QED
            BY <3>1, <5>1
        <4> QED
          BY <4>1
      <3>3. \A j \in 1 .. m : j + 1 \in 1 .. m + 1
        BY <2>2
      <3>4. 1 \in 1 .. m + 1
        BY <2>2
      <3>5. fresh = {new}
        BY <1>9, <2>3
      <3>6. \A i \in DOMAIN outs : outs[i] \in fresh \cup picked
        BY <2>2, <3>1, <3>2, <3>5
      <3>7. ASSUME NEW f \in fresh \cup picked PROVE \E i \in DOMAIN outs : outs[i] = f
        <4>1. CASE f \in fresh
          BY <3>1, <3>4, <3>5, <4>1
        <4>2. CASE f \in picked
          <5>1. PICK j \in 1 .. m : found[j] = f
            BY <1>7, <2>2, <4>2
          <5>2. j + 1 \in DOMAIN outs /\ outs[j + 1] = f
            BY <3>1, <3>3, <5>1
          <5> QED
            BY <5>2
        <4> QED
          BY <4>1, <4>2
      <3>8. ASSUME fresh \cap picked = {}, NEW i \in DOMAIN outs, NEW j \in DOMAIN outs, outs[i] = outs[j]
            PROVE  i = j
        <4>1. \A k \in 1 .. m : found[k] # new
          BY <2>2, <3>5, <3>8
        <4>2. CASE i = 1 \/ j = 1
          BY <3>1, <3>2, <3>8, <4>1, <4>2
        <4>3. CASE i # 1 /\ j # 1
          <5>1. PICK k \in 1 .. m : i = k + 1 /\ outs[i] = found[k]
            BY <3>1, <3>2, <4>3
          <5>2. PICK l \in 1 .. m : j = l + 1 /\ outs[j] = found[l]
            BY <3>1, <3>2, <4>3
          <5>3. k = l
            BY <1>7, <2>2, <3>8, <5>1, <5>2
          <5> QED
            BY <5>1, <5>2, <5>3
        <4> QED
          BY <4>2, <4>3
      <3> QED
        BY <3>1, <3>6, <3>7, <3>8
    <2>4. CASE ~client
      <3>1. outs = found /\ fresh = {}
        BY <1>7, <1>8, <1>9, <2>4
      <3> QED
        BY <1>7, <2>2, <3>1
    <2> QED
      BY <2>3, <2>4
  <1>11. Starts(outs) /\ outs # <<>>
    BY <1>5, <1>6, <1>8
  <1>12. failed' = failed
    BY DEF ListenReady
  <1>13. /\ inUse' \in [WsFd -> 0 .. 2]
         /\ \A f \in WsFd : inUse'[f] = IF f \in fresh \cup picked THEN 1 ELSE inUse[f]
         /\ peer' = [f \in WsFd |-> peer'[f]]
         /\ \A f \in WsFd : peer'[f] = IF f \in fresh THEN "silent" ELSE peer[f]
    <2>1. /\ Taken(picked) \in [WsFd -> 0 .. 2]
          /\ \A f \in WsFd : Taken(picked)[f] = IF f \in picked THEN 1 ELSE inUse[f]
      BY <1>0 DEF Taken, WsTypes
    <2>2. PICK taken : taken = Taken(picked)
      OBVIOUS
    <2>3. CASE client /\ new \in WsFd
      <3>1. fresh = {new} /\ inUse' = [taken EXCEPT ![new] = 1] /\ peer' = [peer EXCEPT ![new] = "silent"]
        BY <1>5, <1>9, <2>2, <2>3
      <3>2. /\ inUse' \in [WsFd -> 0 .. 2]
            /\ \A f \in WsFd : inUse'[f] = IF f \in fresh \cup picked THEN 1 ELSE inUse[f]
        BY <2>1, <2>2, <2>3, <3>1
      <3>3. /\ peer' = [f \in WsFd |-> peer'[f]]
            /\ \A f \in WsFd : peer'[f] = IF f \in fresh THEN "silent" ELSE peer[f]
        BY <1>0, <2>3, <3>1 DEF WsTypes
      <3> QED
        BY <3>2, <3>3
    <2>4. CASE ~(client /\ new \in WsFd)
      <3>1. (\A f \in WsFd : f \notin fresh) /\ inUse' = taken /\ peer' = peer
        BY <1>5, <1>9, <2>2, <2>4
      <3> QED
        BY <1>0, <2>1, <2>2, <3>1 DEF WsTypes
    <2> QED
      BY <2>3, <2>4
  <1>14. \A f \in fresh : f \in WsFd => peer[f] = "closed"
    BY <1>5, <1>9, WebServerAssumption DEF AcceptReturns, Open
  <1>15. /\ listenOuts' \in Seq(WsFd \cup {WsNoFd})
         /\ page' \in [WsPage -> [pc : WsPC, socket : WsFd \cup {WsNoFd}, carry : BOOLEAN, close : BOOLEAN]]
         /\ \A p \in WsPage : page'[p] = page[p] \/ page'[p].pc = "read"
         /\ \A f \in WsFd : WsPlaced(f, listenOuts)' <=> WsPlaced(f, outs)
         /\ WsApart(outs) => WsApart(listenOuts)'
    BY <1>0, <1>10, <1>11, WsStarts
  <1>16. WsTypes'
    BY <1>0, <1>3, <1>12, <1>13, <1>15 DEF WsTypes
  <1>17. WsSockets'
    BY <1>0, <1>3, <1>12, <1>15 DEF WsSockets
  <1>18. ASSUME failed = FALSE PROVE WsMarks' /\ WsApart(outs)
    <2>1. WsMarks /\ WsApart(listenOuts)
      BY <1>0, <1>18
    <2>2. \A f \in WsFd : inUse[f] = 1 <=> \E p \in WsPage : page[p].socket = f
      BY <1>1, <2>1 DEF WsMarks, WsPlaced
    <2>3. \A f \in fresh \cup picked : f \in WsFd => /\ inUse[f] # 1
                                                   /\ \A p \in WsPage : page[p].socket # f
      BY <1>4, <1>14, <2>1, <2>2 DEF WsMarks
    <2>4. fresh \cap picked = {}
      BY <1>4, <1>14, <2>1 DEF WsMarks
    <2>5. WsApart(outs)
      BY <1>10, <2>1, <2>3, <2>4 DEF WsApart
    <2>6. \A f \in WsFd : WsPlaced(f, outs) <=> f \in fresh \cup picked \/ inUse[f] = 1
      BY <1>10, <2>2 DEF WsPlaced
    <2>7. \A f \in WsFd : inUse'[f] = 1 <=> WsPlaced(f, listenOuts)'
      BY <1>13, <1>15, <2>6
    <2>8. ASSUME NEW f \in WsFd PROVE inUse'[f] = 2 <=> peer'[f] = "closed"
      BY <1>4, <1>13, <2>1 DEF WsMarks
    <2> QED
      BY <2>5, <2>7, <2>8 DEF WsMarks
  <1> QED
    BY <1>12, <1>15, <1>16, <1>17, <1>18 DEF WsInv

LEMMA WsNextInv == WsInv /\ [WsNext]_wsvars => WsInv'
  <1>1. ASSUME WsInv, wsvars' = wsvars PROVE WsInv'
    BY <1>1 DEF wsvars, WsInv, WsTypes, WsSockets, WsMarks, WsApart, WsPlaced
  <1>2. ASSUME WsInv, NEW p \in WsPage, ReadAborts(p) PROVE WsInv'
    BY <1>2 DEF ReadAborts, WsInv, WsTypes, WsSockets, WsMarks, WsApart, WsPlaced
  <1> QED
    BY <1>1, <1>2, WsClients, WsSelects, WsListenPop, WsListenReady, WsReads, WsMiddle, WsReplies DEF WsNext

LEMMA WsInvKeeps == WsInv => SocketsOnce
  <1> SUFFICES ASSUME WsInv, ~failed, NEW f \in WsFd
               PROVE  /\ inUse[f] = 2 <=> f \notin Open
                      /\ Cardinality(Outs(f)) + Cardinality(Pages(f)) = (IF inUse[f] = 1 THEN 1 ELSE 0)
    BY DEF SocketsOnce
  <1>1. WsMarks /\ WsApart(listenOuts)
    BY DEF WsInv, WsTypes
  <1>2. inUse[f] = 2 <=> f \notin Open
    BY <1>1 DEF WsMarks, Open
  <1>3. CASE inUse[f] # 1
    <2>1. Outs(f) = {} /\ Pages(f) = {}
      BY <1>1, <1>3 DEF WsMarks, WsPlaced, Outs, Pages
    <2> QED
      BY <1>2, <1>3, <2>1, FS_EmptySet
  <1>4. CASE inUse[f] = 1 /\ \E i \in DOMAIN listenOuts : listenOuts[i] = f
    <2>1. PICK i \in DOMAIN listenOuts : listenOuts[i] = f
      BY <1>4
    <2>2. Outs(f) = {i}
      BY <1>1, <2>1 DEF WsApart, Outs
    <2>3. Pages(f) = {}
      BY <1>1, <2>1 DEF WsApart, Pages
    <2>4. Cardinality(Outs(f)) = 1 /\ Cardinality(Pages(f)) = 0
      BY <2>2, <2>3, FS_EmptySet, FS_Singleton
    <2> QED
      BY <1>2, <1>4, <2>4
  <1>5. CASE inUse[f] = 1 /\ ~(\E i \in DOMAIN listenOuts : listenOuts[i] = f)
    <2>1. PICK p \in WsPage : page[p].socket = f
      BY <1>1, <1>5 DEF WsMarks, WsPlaced
    <2>2. Pages(f) = {p}
      BY <1>1, <2>1 DEF WsApart, Pages
    <2>3. Outs(f) = {}
      BY <1>5 DEF Outs
    <2>4. Cardinality(Outs(f)) = 0 /\ Cardinality(Pages(f)) = 1
      BY <2>2, <2>3, FS_EmptySet, FS_Singleton
    <2> QED
      BY <1>2, <1>5, <2>4
  <1> QED
    BY <1>3, <1>4, <1>5

-----------------------------------------------------------------------------
(***************************************************************************)
(* Scatter and gather.                                                     *)
(***************************************************************************)
SgPC == {"foo", "bar", "ask", "collect", "drop", "count", "done"}

SgTypes ==
  /\ sgStyle \in {"classic", "lockfree"}
  /\ sgpc \in [SgBar -> SgPC]
  /\ refCount \in Nat /\ gathered \in Nat /\ freed \in Nat

\* The references that were counted are those of the Bars that still have one,
\* and whose result is put is past Bar.
SgCounts ==
  /\ (\E b \in SgBar : sgpc[b] = "foo") =>
       /\ \A b \in SgBar : sgpc[b] = "foo"
       /\ freed = 0 /\ gathered = 0 /\ refCount = 0
  /\ (\A b \in SgBar : sgpc[b] # "foo") => refCount = Cardinality(SgHolders)
  /\ put = {b \in SgBar : sgpc[b] \notin {"foo", "bar"}}
  /\ freed > 0 => SgHolders = {}
  /\ sgStyle = "classic" =>
       /\ \A b \in SgBar : sgpc[b] # "count"
       /\ (\A b \in SgBar : sgpc[b] # "foo") => freed = (IF refCount = 0 THEN 1 ELSE 0)

\* A Bar that goes on to Collect is the last with a reference, and Collect ends it.
SgLast ==
  /\ \A b \in SgBar : sgpc[b] = "collect" => SgHolders = {b}
  /\ gathered > 0 => gathered = 1 /\ \A b \in SgBar : sgpc[b] \in {"drop", "count", "done"}

\* When nobody has a reference, or is about to look, the object was deleted.
SgDeletes == (\A b \in SgBar : sgpc[b] \notin {"foo", "count"}) /\ refCount = 0 => freed > 0

SgInv == SgTypes /\ SgCounts /\ SgLast /\ SgDeletes

LEMMA SgCountsHolders ==
  IsFiniteSet(SgHolders) /\ Cardinality(SgHolders) \in Nat
  <1>1. SgHolders \subseteq SgBar
    BY DEF SgHolders
  <1> QED
    BY <1>1, ScatterGatherAssumption, FS_Subset, FS_CardinalityType

LEMMA SgInitInv == SgInit => SgInv
  BY ScatterGatherAssumption DEF SgInit, SgInv, SgTypes, SgCounts, SgLast, SgDeletes, SgPC, SgHolders

\* The steps in which the same Bars have a reference.
LEMMA SgKeepsHolders ==
  ASSUME SgInv, NEW b \in SgBar, Bar(b) \/ Ask(b) \/ Collect(b)
  PROVE  SgInv'
  <1> USE DEF SgInv, SgTypes, SgPC
  <1>1. PICK v \in SgPC : sgpc' = [sgpc EXCEPT ![b] = v]
    BY DEF Bar, Ask, Collect, Passes
  <1>2. /\ sgpc[b] \in {"bar", "ask", "collect"} /\ v \in {"ask", "collect", "drop"}
        /\ UNCHANGED <<sgStyle, refCount, freed>>
    BY <1>1 DEF Bar, Ask, Collect, Passes
  <1>3. SgHolders' = SgHolders /\ b \in SgHolders
    BY <1>1, <1>2 DEF SgHolders
  <1>4. SgTypes'
    BY <1>1, <1>2 DEF Bar, Ask, Collect
  <1>5. /\ \A x \in SgBar : sgpc[x] # "foo" /\ sgpc'[x] # "foo"
        /\ sgStyle = "classic" => \A x \in SgBar : sgpc'[x] # "count"
    BY <1>1, <1>2 DEF SgCounts
  <1>6. put' = {x \in SgBar : sgpc'[x] \notin {"foo", "bar"}}
    BY <1>1, <1>2, <1>5 DEF SgCounts, Bar, Ask, Collect, Passes
  <1>7. SgCounts'
    BY <1>2, <1>3, <1>5, <1>6 DEF SgCounts
  <1>8. v = "collect" => SgHolders = {b}
    <2> SUFFICES ASSUME v = "collect" PROVE SgHolders = {b}
      OBVIOUS
    <2>1. refCount = 1
      BY <1>1 DEF Bar, Ask, Collect, Passes, IsLast
    <2>2. Cardinality(SgHolders) = 1
      BY <2>1, <1>5 DEF SgCounts
    <2> QED
      BY <2>2, <1>3, SgCountsHolders, FS_Singleton
  <1>9. SgLast'
    <2>1. \A x \in SgBar : sgpc'[x] = "collect" => SgHolders' = {x}
      BY <1>1, <1>2, <1>3, <1>8 DEF SgLast
    <2>2. gathered = 0
      BY <1>2 DEF SgLast
    <2>3. gathered' > 0 => gathered' = 1 /\ \A x \in SgBar : sgpc'[x] \in {"drop", "count", "done"}
      <3>1. CASE Bar(b) \/ Ask(b)
        BY <2>2, <3>1 DEF Bar, Ask
      <3>2. CASE Collect(b)
        <4>1. SgHolders = {b} /\ gathered' = 1 /\ v = "drop"
          BY <1>1, <2>2, <3>2 DEF Collect, Passes, SgLast
        <4>2. \A x \in SgBar : x # b => sgpc[x] \in {"count", "done"}
          BY <4>1, <1>5 DEF SgHolders
        <4> QED
          BY <4>1, <4>2, <1>1
      <3> QED
        BY <3>1, <3>2
    <2> QED
      BY <2>1, <2>3 DEF SgLast
  <1>10. SgDeletes'
    <2>1. \A x \in SgBar : sgpc[x] = "count" => sgpc'[x] = "count"
      BY <1>1, <1>2
    <2> QED
      BY <2>1, <1>2, <1>5 DEF SgDeletes
  <1> QED
    BY <1>4, <1>7, <1>9, <1>10

\* The steps in which a Bar's reference goes.
LEMMA SgDropsHolder ==
  ASSUME SgInv, NEW b \in SgBar, Disown(b) \/ Decr(b)
  PROVE  SgInv'
  <1> USE DEF SgInv, SgTypes, SgPC
  <1>1. PICK v \in {"done", "count"} : sgpc' = [sgpc EXCEPT ![b] = v]
    BY DEF Disown, Decr, Passes
  <1>2. /\ sgpc[b] = "drop" /\ refCount' = refCount - 1
        /\ UNCHANGED <<sgStyle, put, gathered>>
    BY <1>1 DEF Disown, Decr, Passes
  <1>3. SgHolders' = SgHolders \ {b} /\ b \in SgHolders
    BY <1>1, <1>2 DEF SgHolders
  <1>4. /\ Cardinality(SgHolders') = Cardinality(SgHolders) - 1
        /\ IsFiniteSet(SgHolders') /\ Cardinality(SgHolders') \in Nat
    BY <1>3, SgCountsHolders, FS_RemoveElement, FS_Subset, FS_CardinalityType
  <1>5. \A x \in SgBar : sgpc[x] # "foo" /\ sgpc'[x] # "foo"
    BY <1>1, <1>2 DEF SgCounts
  <1>6. refCount' = Cardinality(SgHolders') /\ refCount' \in Nat
    BY <1>2, <1>4, <1>5 DEF SgCounts
  <1>7. refCount' = 0 => SgHolders' = {}
    BY <1>4, <1>6, FS_EmptySet
  <1>8. freed = 0
    BY <1>3 DEF SgCounts
  <1>9. /\ freed' \in {0, 1} 
        /\ freed' > 0 => SgHolders' = {}
        /\ sgStyle = "classic" => freed' = (IF refCount' = 0 THEN 1 ELSE 0)
        /\ sgStyle = "classic" => \A x \in SgBar : sgpc'[x] # "count"
    BY <1>1, <1>2, <1>7, <1>8 DEF Disown, Decr, Passes, SgCounts
  <1>10. put' = {x \in SgBar : sgpc'[x] \notin {"foo", "bar"}}
    BY <1>1, <1>2 DEF SgCounts
  <1>11. SgTypes'
    BY <1>1, <1>2, <1>6, <1>9
  <1>12. SgCounts'
    BY <1>2, <1>5, <1>6, <1>9, <1>10 DEF SgCounts
  <1>13. SgLast'
    <2>1. \A x \in SgBar : sgpc'[x] # "collect"
      <3> SUFFICES ASSUME NEW x \in SgBar, sgpc'[x] = "collect" PROVE FALSE
        OBVIOUS
      <3>1. sgpc[x] = "collect" /\ x # b
        BY <1>1
      <3> QED
        BY <3>1, <1>3 DEF SgLast
    <2> QED
      BY <2>1, <1>1, <1>2 DEF SgLast
  <1>14. SgDeletes'
    <2>1. CASE Disown(b)
      BY <2>1 DEF Disown, SgDeletes
    <2>2. CASE Decr(b)
      BY <2>2 DEF Decr, Passes, SgDeletes
    <2> QED
      BY <2>1, <2>2
  <1> QED
    BY <1>11, <1>12, <1>13, <1>14

LEMMA SgNextInv == SgInv /\ [SgNext]_sgvars => SgInv'
  <1> SUFFICES ASSUME SgInv, [SgNext]_sgvars PROVE SgInv'
    OBVIOUS
  <1>1. CASE Foo
    <2> USE DEF SgInv, SgTypes, SgPC
    <2>1. /\ \A x \in SgBar : sgpc[x] = "foo" 
          /\ sgpc' = [x \in SgBar |-> "bar"] /\ refCount' = Cardinality(SgBar)
          /\ UNCHANGED <<sgStyle, put, gathered, freed>>
      <3>1. Cardinality(SgBar) \in Nat
        BY ScatterGatherAssumption, FS_CardinalityType
      <3> QED
        BY <1>1, <3>1 DEF Foo, CountAfterFoo, Cloned, Constructed
    <2>2. SgHolders' = SgBar /\ put = {} /\ freed = 0 /\ gathered = 0
      BY <2>1, ScatterGatherAssumption DEF SgHolders, SgCounts
    <2>3. Cardinality(SgBar) \in Nat /\ Cardinality(SgBar) # 0
      BY ScatterGatherAssumption, FS_CardinalityType, FS_EmptySet
    <2>4. SgTypes' /\ SgLast'
      BY <2>1, <2>2, <2>3 DEF SgLast
    <2>5. put' = {x \in SgBar : sgpc'[x] \notin {"foo", "bar"}}
      BY <2>1, <2>2
    <2>6. SgCounts'
      BY <2>1, <2>2, <2>3, <2>5, ScatterGatherAssumption DEF SgCounts
    <2>7. SgDeletes'
      BY <2>1, <2>3 DEF SgDeletes
    <2> QED
      BY <2>4, <2>6, <2>7
  <1>2. ASSUME NEW b \in SgBar, DeleteIfLast(b) PROVE SgInv'
    <2> USE DEF SgInv, SgTypes, SgPC
    <2>1. /\ sgpc' = [sgpc EXCEPT ![b] = "done"] /\ sgpc[b] = "count"
          /\ UNCHANGED <<sgStyle, refCount, put, gathered>>
          /\ freed' = freed \/ (refCount = 0 /\ freed' = freed + 1)
      BY <1>2 DEF DeleteIfLast, Passes
    <2>2. SgHolders' = SgHolders
      BY <2>1 DEF SgHolders
    <2>3. /\ \A x \in SgBar : sgpc[x] # "foo" /\ sgpc'[x] # "foo"
          /\ sgStyle # "classic"
      BY <2>1 DEF SgCounts
    <2>4. refCount = 0 => SgHolders = {}
      BY <2>3, SgCountsHolders, FS_EmptySet DEF SgCounts
    <2>5. put' = {x \in SgBar : sgpc'[x] \notin {"foo", "bar"}}
      BY <2>1 DEF SgCounts
    <2>6. SgTypes' /\ SgLast'
      BY <2>1, <2>2 DEF SgLast
    <2>7. SgCounts'
      BY <2>1, <2>2, <2>3, <2>4, <2>5 DEF SgCounts
    <2>8. SgDeletes'
      <3>1. refCount = 0 => freed' > 0
        BY <1>2, <2>1 DEF DeleteIfLast
      <3> QED
        BY <2>1, <3>1 DEF SgDeletes
    <2> QED
      BY <2>6, <2>7, <2>8
  <1>3. CASE UNCHANGED sgvars
    BY <1>3 DEF sgvars, SgInv, SgTypes, SgCounts, SgLast, SgDeletes, SgHolders
  <1> QED
    BY <1>1, <1>2, <1>3, SgKeepsHolders, SgDropsHolder DEF SgNext

LEMMA SgInvGathers == SgInv => GatheredOnce
  <1> SUFFICES ASSUME SgInv PROVE GatheredOnce
    OBVIOUS
  <1> USE DEF SgInv, SgTypes, SgPC
  <1>1. ASSUME NEW b \in SgBar, sgpc[b] = "collect" PROVE put = SgBar
    <2>1. SgHolders = {b} /\ \A x \in SgBar : sgpc[x] # "foo"
      BY <1>1 DEF SgLast, SgCounts
    <2>2. \A x \in SgBar : sgpc[x] \notin {"foo", "bar"}
      BY <2>1, <1>1 DEF SgHolders
    <2> QED
      BY <2>2 DEF SgCounts
  <1>2. ASSUME SgDone PROVE freed >= 1
    <2>1. SgHolders = {} /\ \A x \in SgBar : sgpc[x] \notin {"foo", "count"}
      BY <1>2 DEF SgDone, SgHolders
    <2>2. Cardinality(SgHolders) = 0
      BY <2>1, FS_EmptySet
    <2>3. refCount = 0
      BY <2>1, <2>2 DEF SgCounts
    <2> QED
      BY <2>1, <2>3 DEF SgDeletes
  <1>3. sgStyle = "classic" => freed <= 1
    BY DEF SgCounts
  <1>4. gathered <= 1
    BY DEF SgLast
  <1>5. SgHolders # {} => freed = 0
    BY DEF SgCounts
  <1>6. \A b \in SgBar : sgpc[b] = "collect" => SgHolders = {b}
    BY DEF SgLast
  <1> QED
    BY <1>1, <1>2, <1>3, <1>4, <1>5, <1>6 DEF GatheredOnce

\* The gather point is entered at most once, with every result in the object; the object
\* is there while somebody has a reference, and was deleted when nobody has one, with the
\* manager lock not twice (Scatter::disown, isLast); for any number of references.
THEOREM GatherCorrect == PartSpec => []GatherOnce
  <1> DEFINE Inv == part = "gather" => SgInv
  <1>1. PartInit => Inv
    BY SgInitInv DEF PartInit
  <1>2. Inv /\ [PartStep]_allvars => Inv'
    <2> SUFFICES ASSUME Inv, [PartStep]_allvars, part' = "gather" PROVE SgInv'
      OBVIOUS
    <2>1. part = "gather" /\ [SgNext]_sgvars
      BY DEF PartStep, LFNext, OwnNext, ProgNext, allvars, progvars
    <2> QED
      BY <2>1, SgNextInv
  <1>3. Inv => GatherOnce
    BY SgInvGathers DEF GatherOnce
  <1> QED
    BY <1>1, <1>2, <1>3, PTL DEF PartSpec, PartStep

-----------------------------------------------------------------------------
(***************************************************************************)
(* The exerciser's pools.                                                  *)
(***************************************************************************)
ExSlot == 0 .. ExSlots - 1
ExMaybe == ExItems \cup {ExNull}

ExTyped(ev1) ==
  ev1 \in [ExEvent -> [pc : {"none", "acquire", "wait", "run", "wait a little"},
                       kind : {"source", "node"}, pool : ExPools, item : ExMaybe]]

ExTypes ==
  /\ exStyle \in {"classic", "lockfree"}
  /\ firstCells \in Nat
  /\ memory \in [ExSlot -> ExMaybe]
  /\ window \in [ExPools -> [from : Nat, to : Nat]]
  /\ exWaiters \in [ExPools -> Seq(ExEvent)]
  /\ ExTyped(exev)

\* A window lies in the memory, and what is in front of its end are items.
ExWindows ==
  \A p \in ExPools : /\ window[p].from <= window[p].to /\ window[p].to <= ExSlots
                     /\ \A i \in ExSlot : i < window[p].to => memory[i] # ExNull

\* Who waits for a pool has a cell of that pool, which is empty, and waits once.
ExQueues ==
  \A p \in ExPools :
    /\ \A i \in DOMAIN exWaiters[p] : exev[exWaiters[p][i]].pc = "wait" /\ exev[exWaiters[p][i]].pool = p
    /\ \A i, j \in DOMAIN exWaiters[p] : exWaiters[p][i] = exWaiters[p][j] => i = j

\* Only who runs has an item.
ExRuns == \A x \in ExEvent : exev[x].item # ExNull => exev[x].pc = "run"

\* The items that are out and those in the window are as many as there are.
ExCounts ==
  \A p \in ExPools : /\ IsFiniteSet(ExHolders(p))
                     /\ Cardinality(ExHolders(p)) + (window[p].to - window[p].from) = ExPoolSize

\* Who waits for a pool found its window empty, and an item that comes back is handed over.
ExIdle == \A p \in ExPools : exWaiters[p] # <<>> => window[p].from = window[p].to

\* In the lock-free style there is one pool; each item is in its window or out, once.
ExOnce ==
  exStyle = "lockfree" =>
    /\ firstCells = 0
    /\ \A x \in ExEvent : exev[x].pc # "none" => exev[x].pool = "original"
    /\ \A i, j \in ExSlot :
         /\ window["original"].from <= i /\ i < window["original"].to
         /\ window["original"].from <= j /\ j < window["original"].to
         /\ memory[i] = memory[j]
         => i = j
    /\ \A x \in ExEvent, i \in ExSlot :
         window["original"].from <= i /\ i < window["original"].to => exev[x].item # memory[i]
    /\ \A x, y \in ExEvent : x # y /\ exev[x].item # ExNull => exev[x].item # exev[y].item

ExInv == ExTypes /\ ExWindows /\ ExQueues /\ ExRuns /\ ExCounts /\ ExIdle /\ ExOnce

LEMMA ExInitInv == ExInit => ExInv
  <1> SUFFICES ASSUME ExInit PROVE ExInv
    OBVIOUS
  <1> USE ExerciserAssumption DEF ExPools, ExItems, ExMaybe, ExSlot
  <1>1. /\ exStyle \in {"classic", "lockfree"} /\ firstCells \in Nat
        /\ exStyle = "lockfree" => firstCells = 0
        /\ window = [p \in ExPools |-> [from |-> 0, to |-> ExPoolSize]]
    BY DEF ExInit, ClSetWtype, LFSetWtype, Overwritten, Filled
  <1>2. /\ exWaiters = [p \in ExPools |-> <<>>]
        /\ exev = [x \in ExEvent |-> NoEvent]
        /\ memory = [i \in ExSlot |-> IF i < ExPoolSize THEN i + 1 ELSE ExNull]
    BY DEF ExInit, PoolFilled
  <1>3. ExTypes
    BY <1>1, <1>2 DEF ExTypes, ExTyped, NoEvent
  <1>4. ExWindows /\ ExRuns
    BY <1>1, <1>2 DEF ExWindows, ExRuns, NoEvent
  <1>5. ExQueues
    BY <1>2 DEF ExQueues
  <1>6. ExCounts
    <2>1. \A p \in ExPools : ExHolders(p) = {}
      BY <1>2 DEF ExHolders, NoEvent
    <2>2. Cardinality({}) = 0 /\ IsFiniteSet({})
      BY FS_EmptySet
    <2>3. \A p \in ExPools : window[p].to - window[p].from = ExPoolSize
      BY <1>1
    <2> QED
      <3>1. \A p \in ExPools : IsFiniteSet(ExHolders(p))
        BY <2>1, <2>2
      <3>2. \A p \in ExPools : Cardinality(ExHolders(p)) = 0
        BY <2>1, <2>2
      <3>3. ExPoolSize \in Nat
        OBVIOUS
      <3> HIDE DEF ExPools
      <3>4. \A p \in ExPools : Cardinality(ExHolders(p)) + (window[p].to - window[p].from) = ExPoolSize
        BY <3>2, <2>3, <3>3
      <3> QED
        BY <3>1, <3>4 DEF ExCounts
  <1>7. ExOnce
    BY <1>1, <1>2 DEF ExOnce, NoEvent
  <1>8. ExIdle
    BY <1>2 DEF ExIdle
  <1> QED
    BY <1>3, <1>4, <1>5, <1>6, <1>7, <1>8 DEF ExInv

LEMMA ExCreateSpecial ==
  ASSUME ExInv, NEW x \in ExEvent, CreateSpecial(x)
  PROVE  ExInv'
  <1>1. /\ exev[x].pc = "none" /\ exev[x].item = ExNull
        /\ UNCHANGED <<exStyle, memory, window, exWaiters>>
    BY DEF CreateSpecial, ExInv, ExRuns
  <1>2. /\ firstCells' \in Nat /\ (firstCells = 0 => firstCells' = 0)
        /\ ExTyped(exev')
        /\ exev'[x].pc \in {"acquire", "run"} /\ exev'[x].item = ExNull
        /\ exStyle = "lockfree" => exev'[x].pool = "original"
        /\ \A y \in ExEvent \ {x} : exev'[y] = exev[y]
    <2>1. PICK kind \in {"source", "node"}, asks \in BOOLEAN :
            LET first == asks /\ firstCells > 0
            IN  /\ exev' = [exev EXCEPT ![x] = [pc   |-> IF asks THEN "acquire" ELSE "run", kind |-> kind,
                                                pool |-> CellOf(first), item |-> ExNull]]
                /\ firstCells' = IF first THEN firstCells - 1 ELSE firstCells
      BY DEF CreateSpecial, TranslatorSays
    <2> DEFINE first   == asks /\ firstCells > 0
               itsCell == CellOf(first)
    <2>2. firstCells' = IF first THEN firstCells - 1 ELSE firstCells
      BY <2>1
    <2>3. exev' = [exev EXCEPT ![x] = [pc   |-> IF asks THEN "acquire" ELSE "run", kind |-> kind,
                                       pool |-> itsCell, item |-> ExNull]]
      BY <2>1
    <2>4. itsCell \in ExPools /\ (exStyle = "lockfree" => itsCell = "original")
      BY DEF CellOf, ExPools
    <2> HIDE DEF itsCell
    <2>5. firstCells' \in Nat /\ (firstCells = 0 => firstCells' = 0)
      <3>1. firstCells \in Nat
        BY DEF ExInv, ExTypes
      <3>2. firstCells' = firstCells \/ (firstCells > 0 /\ firstCells' = firstCells - 1)
        BY <2>2
      <3> QED
        BY <3>1, <3>2
    <2> QED
      BY <2>3, <2>4, <2>5 DEF ExInv, ExTypes, ExTyped, ExMaybe
  <1>3. ExTypes'
    BY <1>1, <1>2 DEF ExInv, ExTypes
  <1>4. ExWindows'
    BY <1>1 DEF ExInv, ExWindows
  <1>5. ExQueues'
    <2>1. \A p \in ExPools : \A i \in DOMAIN exWaiters[p] :
            exWaiters[p][i] \in ExEvent /\ exWaiters[p][i] # x
      BY <1>1 DEF ExInv, ExTypes, ExQueues
    <2> QED
      BY <1>1, <1>2, <2>1 DEF ExInv, ExQueues
  <1>6. ExRuns'
    BY <1>1, <1>2 DEF ExInv, ExRuns
  <1>7. \A y \in ExEvent : exev'[y].item = exev[y].item
    BY <1>1, <1>2
  <1>8. ExCounts'
    <2>1. \A p \in ExPools : ExHolders(p)' = ExHolders(p)
      BY <1>1, <1>2 DEF ExHolders
    <2> QED
      BY <2>1, <1>1 DEF ExInv, ExCounts
  <1>9. ExOnce'
    BY <1>1, <1>2, <1>7 DEF ExInv, ExOnce
  <1>10. ExIdle'
    BY <1>1 DEF ExInv, ExIdle
  <1> QED
    BY <1>3, <1>4, <1>5, <1>6, <1>8, <1>9, <1>10 DEF ExInv

\* One event gets an item, or loses its own, or one loses and another gets it.
LEMMA ExMoreHolders ==
  ASSUME NEW S, NEW x, IsFiniteSet(S)
  PROVE  /\ IsFiniteSet(S \cup {x}) /\ Cardinality(S \cup {x}) \in Nat
         /\ x \notin S => Cardinality(S \cup {x}) = Cardinality(S) + 1
         /\ IsFiniteSet(S \ {x}) /\ Cardinality(S \ {x}) \in Nat /\ Cardinality(S) \in Nat
         /\ x \in S => Cardinality(S \ {x}) = Cardinality(S) - 1
  BY FS_AddElement, FS_RemoveElement, FS_CardinalityType

LEMMA ExAcquireItem ==
  ASSUME ExInv, NEW x \in ExEvent, AcquireItem(x)
  PROVE  ExInv'
  <1>0. PICK p \in ExPools : p = exev[x].pool
    BY DEF ExInv, ExTypes, ExTyped
  <1> DEFINE from == window[p].from
             to == window[p].to
  <1>1. /\ exev[x].pc = "acquire" /\ exev[x].item = ExNull /\ p = exev[x].pool
        /\ from \in Nat /\ to \in Nat /\ from <= to /\ to <= ExSlots
        /\ UNCHANGED <<exStyle, firstCells, memory>>
    <2>1. exev[x].pc = "acquire" /\ exev[x].item = ExNull /\ UNCHANGED <<exStyle, firstCells, memory>>
      BY DEF AcquireItem, ExInv, ExRuns
    <2>3. window \in [ExPools -> [from : Nat, to : Nat]]
      BY DEF ExInv, ExTypes
    <2> QED
      BY <1>0, <2>1, <2>3 DEF ExInv, ExWindows
  <1>2. CASE from < to
    <2>1. exev' = [exev EXCEPT ![x].pc = "run", ![x].item = memory[from]]
      BY <1>0, <1>2 DEF AcquireItem
    <2>2. window' = [window EXCEPT ![p].from = @ + 1] /\ exWaiters' = exWaiters
      BY <1>0, <1>2 DEF AcquireItem
    <2>3. from \in ExSlot /\ memory[from] \in ExItems /\ memory[from] # ExNull
      <3>1. from \in ExSlot
        BY <1>1, <1>2, ExerciserAssumption DEF ExSlot
      <3>2. memory[from] # ExNull
        BY <1>1, <1>2, <3>1 DEF ExInv, ExWindows
      <3>3. memory \in [ExSlot -> ExMaybe]
        BY DEF ExInv, ExTypes
      <3> QED
        BY <3>1, <3>2, <3>3 DEF ExMaybe
    <2>4. /\ ExTyped(exev')
          /\ exev'[x].pc = "run" /\ exev'[x].item = memory[from] /\ exev'[x].pool = p
          /\ \A y \in ExEvent \ {x} : exev'[y] = exev[y]
      <3>1. ExTyped(exev) /\ memory[from] \in ExMaybe
        BY <2>3 DEF ExInv, ExTypes, ExMaybe
      <3>2. PICK r : r = [exev[x] EXCEPT !.pc = "run", !.item = memory[from]]
        OBVIOUS
      <3>3. exev[x] \in [pc : {"none", "acquire", "wait", "run", "wait a little"},
                         kind : {"source", "node"}, pool : ExPools, item : ExMaybe]
        BY <3>1 DEF ExTyped
      <3>4. /\ r \in [pc : {"none", "acquire", "wait", "run", "wait a little"},
                      kind : {"source", "node"}, pool : ExPools, item : ExMaybe]
            /\ r.pc = "run" /\ r.item = memory[from] /\ r.pool = exev[x].pool
        BY <3>1, <3>2, <3>3
      <3>5. exev' = [exev EXCEPT ![x] = r]
        BY <2>1, <3>2
      <3>6. ExTyped(exev') /\ exev'[x] = r /\ \A y \in ExEvent \ {x} : exev'[y] = exev[y]
        BY <3>1, <3>4, <3>5 DEF ExTyped
      <3> QED
        BY <1>1, <3>4, <3>6
    <2>5. /\ window' \in [ExPools -> [from : Nat, to : Nat]]
          /\ window'[p].from = from + 1 /\ window'[p].to = to
          /\ \A q \in ExPools \ {p} : window'[q] = window[q]
      <3>1. window \in [ExPools -> [from : Nat, to : Nat]]
        BY DEF ExInv, ExTypes
      <3> QED
        BY <1>1, <2>2, <3>1
    <2>6. ExTypes'
      BY <1>1, <2>2, <2>4, <2>5 DEF ExInv, ExTypes
    <2>7. ExWindows'
      BY <1>1, <1>2, <2>5 DEF ExInv, ExWindows
    <2>8. ExQueues'
      <3>1. exWaiters \in [ExPools -> Seq(ExEvent)]
        BY DEF ExInv, ExTypes
      <3>2. \A q \in ExPools : \A i \in DOMAIN exWaiters[q] : exWaiters[q][i] \in ExEvent
        BY <3>1
      <3>3. \A q \in ExPools : \A i \in DOMAIN exWaiters[q] : exWaiters[q][i] # x
        BY <1>1 DEF ExInv, ExQueues
      <3> QED
        BY <2>2, <2>4, <3>2, <3>3 DEF ExInv, ExQueues
    <2>9. ExRuns'
      BY <2>4 DEF ExInv, ExRuns
    <2>10. ExCounts'
      <3>1. ExHolders(p)' = ExHolders(p) \cup {x}
        BY <1>1, <2>3, <2>4 DEF ExHolders
      <3>2. \A q \in ExPools \ {p} : ExHolders(q)' = ExHolders(q)
        BY <1>1, <2>3, <2>4 DEF ExHolders
      <3>3. IsFiniteSet(ExHolders(p)) /\ Cardinality(ExHolders(p)) + (to - from) = ExPoolSize
        BY <1>1 DEF ExInv, ExCounts
      <3>4. /\ IsFiniteSet(ExHolders(p)') /\ Cardinality(ExHolders(p)') \in Nat
            /\ Cardinality(ExHolders(p)) \in Nat
            /\ Cardinality(ExHolders(p)') = Cardinality(ExHolders(p)) + 1
        <4>1. x \notin ExHolders(p)
          BY <1>1 DEF ExHolders
        <4> QED
          BY <3>1, <3>3, <4>1, ExMoreHolders
      <3>5. Cardinality(ExHolders(p)') + (window'[p].to - window'[p].from) = ExPoolSize
        BY <1>1, <2>5, <3>3, <3>4, ExerciserAssumption
      <3>6. \A q \in ExPools : 
              /\ IsFiniteSet(ExHolders(q)')
              /\ Cardinality(ExHolders(q)') + (window'[q].to - window'[q].from) = ExPoolSize
        <4> SUFFICES ASSUME NEW q \in ExPools, q # p
                     PROVE  /\ IsFiniteSet(ExHolders(q)')
                            /\ Cardinality(ExHolders(q)') + (window'[q].to - window'[q].from) = ExPoolSize
          BY <3>4, <3>5
        <4>1. ExHolders(q)' = ExHolders(q) /\ window'[q] = window[q]
          BY <2>5, <3>2
        <4> QED
          BY <4>1 DEF ExInv, ExCounts
      <3> QED
        BY <3>6 DEF ExCounts
    <2>11. ExOnce'
      <3> SUFFICES ASSUME exStyle = "lockfree" PROVE ExOnce'
        BY <1>1 DEF ExOnce
      <3>1. ExOnce!2
        BY DEF ExInv, ExOnce
      <3>2. p = "original"
        BY <1>1, <3>1
      <3>3. firstCells' = 0 /\ \A y \in ExEvent : exev'[y].pc # "none" => exev'[y].pool = "original"
        BY <1>1, <2>4, <3>1
      <3>4. \A i \in ExSlot : from + 1 <= i => from <= i /\ i # from
        BY <1>1, ExerciserAssumption DEF ExSlot
      <3>5. \A i, j \in ExSlot :
              from + 1 <= i /\ i < to /\ from + 1 <= j /\ j < to /\ memory[i] = memory[j] => i = j
        BY <3>1, <3>2, <3>4
      <3>6. \A y \in ExEvent, i \in ExSlot : from + 1 <= i /\ i < to => exev'[y].item # memory[i]
        <4> SUFFICES ASSUME NEW y \in ExEvent, NEW i \in ExSlot, from + 1 <= i, i < to
                     PROVE  exev'[y].item # memory[i]
          OBVIOUS
        <4>1. from <= i /\ i # from
          BY <3>4
        <4>2. memory[from] # memory[i]
          BY <3>1, <3>2, <4>1, <1>1, <1>2, <2>3
        <4>3. exev[y].item # memory[i]
          BY <3>1, <3>2, <4>1
        <4> QED
          BY <4>2, <4>3, <2>4
      <3>7. \A y, z \in ExEvent : y # z /\ exev'[y].item # ExNull => exev'[y].item # exev'[z].item
        <4>1. \A y \in ExEvent : exev[y].item # memory[from]
          BY <3>1, <3>2, <1>1, <1>2, <2>3
        <4> QED
          BY <4>1, <2>4, <3>1, <2>3
      <3> QED
        BY <3>2, <3>3, <3>5, <3>6, <3>7, <2>5, <1>1 DEF ExOnce
    <2>12. ExIdle'
      <3>1. exWaiters[p] = <<>>
        BY <1>1, <1>2 DEF ExInv, ExIdle
      <3> QED
        BY <2>2, <2>5, <3>1 DEF ExInv, ExIdle
    <2> QED
      BY <2>6, <2>7, <2>8, <2>9, <2>10, <2>11, <2>12 DEF ExInv
  <1>3. CASE ~(from < to)
    <2>1. exev' = [exev EXCEPT ![x].pc = "wait"]
      BY <1>0, <1>3 DEF AcquireItem
    <2>2. exWaiters' = [exWaiters EXCEPT ![p] = Append(@, x)] /\ window' = window
      BY <1>0, <1>3 DEF AcquireItem
    <2>3. /\ ExTyped(exev')
          /\ exev'[x].pc = "wait" /\ exev'[x].item = ExNull /\ exev'[x].pool = p
          /\ \A y \in ExEvent \ {x} : exev'[y] = exev[y]
      BY <1>1, <2>1 DEF ExInv, ExTypes, ExTyped, ExMaybe
    <2>4. exWaiters \in [ExPools -> Seq(ExEvent)] /\ exWaiters[p] \in Seq(ExEvent)
      BY <1>1 DEF ExInv, ExTypes
    <2>5. /\ exWaiters' \in [ExPools -> Seq(ExEvent)]
          /\ exWaiters'[p] = Append(exWaiters[p], x)
          /\ \A q \in ExPools \ {p} : exWaiters'[q] = exWaiters[q]
      <3> QED
        BY <1>1, <2>2, <2>4
    <2>6. ExTypes'
      BY <1>1, <2>2, <2>3, <2>5 DEF ExInv, ExTypes
    <2>7. ExWindows'
      BY <1>1, <2>2 DEF ExInv, ExWindows
    <2>8. ExQueues'
      <3>1. \A q \in ExPools : \A i \in DOMAIN exWaiters[q] : exWaiters[q][i] \in ExEvent
        BY <2>4
      <3>2. \A q \in ExPools : \A i \in DOMAIN exWaiters[q] : exWaiters[q][i] # x
        BY <1>1 DEF ExInv, ExQueues
      <3>3. ASSUME NEW q \in ExPools, q # p
            PROVE  /\ \A i \in DOMAIN exWaiters'[q] :
                        exev'[exWaiters'[q][i]].pc = "wait" /\ exev'[exWaiters'[q][i]].pool = q
                   /\ \A i, j \in DOMAIN exWaiters'[q] : exWaiters'[q][i] = exWaiters'[q][j] => i = j
        <4>1. exWaiters'[q] = exWaiters[q]
          BY <2>5, <3>3
        <4>2. \A i \in DOMAIN exWaiters[q] : exev'[exWaiters[q][i]] = exev[exWaiters[q][i]]
          BY <2>3, <3>1, <3>2
        <4> QED
          BY <4>1, <4>2 DEF ExInv, ExQueues
      <3>4. \A i \in DOMAIN exWaiters'[p] :
              exev'[exWaiters'[p][i]].pc = "wait" /\ exev'[exWaiters'[p][i]].pool = p
        <4> SUFFICES ASSUME NEW i \in DOMAIN exWaiters'[p]
                     PROVE  exev'[exWaiters'[p][i]].pc = "wait" /\ exev'[exWaiters'[p][i]].pool = p
          OBVIOUS
        <4>1. CASE i \in DOMAIN exWaiters[p]
          <5>1. exWaiters'[p][i] = exWaiters[p][i]
            BY <2>4, <2>5, <4>1
          <5>2. exev'[exWaiters[p][i]] = exev[exWaiters[p][i]]
            BY <1>1, <2>3, <3>1, <3>2, <4>1
          <5> QED
            BY <1>1, <4>1, <5>1, <5>2 DEF ExInv, ExQueues
        <4>2. CASE i \notin DOMAIN exWaiters[p]
          <5>1. exWaiters'[p][i] = x
            BY <2>4, <2>5, <4>2
          <5> QED
            BY <5>1, <2>3
        <4> QED
          BY <4>1, <4>2
      <3>5. \A i, j \in DOMAIN exWaiters'[p] : exWaiters'[p][i] = exWaiters'[p][j] => i = j
        <4>1. \A i, j \in DOMAIN exWaiters[p] : exWaiters[p][i] = exWaiters[p][j] => i = j
          BY <1>1 DEF ExInv, ExQueues
        <4>2. \A i \in DOMAIN exWaiters[p] : exWaiters[p][i] # x
          BY <1>1, <3>2
        <4> QED
          BY <4>1, <4>2, <2>4, <2>5
      <3> QED
        BY <3>3, <3>4, <3>5 DEF ExQueues
    <2>9. ExRuns'
      BY <2>3 DEF ExInv, ExRuns
    <2>10. \A y \in ExEvent : exev'[y].item = exev[y].item /\ exev'[y].pool = exev[y].pool
      BY <1>1, <2>3
    <2>11. ExCounts'
      <3>1. \A q \in ExPools : ExHolders(q)' = ExHolders(q)
        BY <2>10 DEF ExHolders
      <3> QED
        BY <2>2, <3>1 DEF ExInv, ExCounts
    <2>12. ExOnce'
      <3>1. \A y \in ExEvent : exev'[y].pc # "none" => exev[y].pc # "none"
        BY <1>1, <2>3
      <3> QED
        BY <1>1, <2>2, <2>10, <3>1 DEF ExInv, ExOnce
    <2>13. ExIdle'
      <3>1. from = to
        BY <1>1, <1>3
      <3> QED
        BY <2>2, <2>5, <3>1 DEF ExInv, ExIdle
    <2> QED
      BY <2>6, <2>7, <2>8, <2>9, <2>11, <2>12, <2>13 DEF ExInv
  <1> QED
    BY <1>2, <1>3

ExReleases(x) == exev[x].pc \in {"run", "wait a little"}
ExGoesTo(next1) == next1 \in {"wait a little", "none"}

LEMMA ExReleaseItem ==
  ASSUME ExInv, NEW x \in ExEvent, NEW next1, ExGoesTo(next1),
         ExReleases(x),
         ReleaseItem(x, next1), exStyle' = exStyle, firstCells' = firstCells
  PROVE  ExInv'
  <1>0. PICK p \in ExPools : p = exev[x].pool
    BY DEF ExInv, ExTypes, ExTyped
  <1> DEFINE from == window[p].from
             to == window[p].to
             it == exev[x].item
             Q == exWaiters[p]
  <1>1. from \in Nat /\ to \in Nat /\ from <= to /\ to <= ExSlots
    <2>1. window \in [ExPools -> [from : Nat, to : Nat]]
      BY DEF ExInv, ExTypes
    <2> QED
      BY <2>1 DEF ExInv, ExWindows
  <1>5. exWaiters \in [ExPools -> Seq(ExEvent)] /\ Q \in Seq(ExEvent)
    BY DEF ExInv, ExTypes
  <1>2. /\ \A q \in ExPools : \A i \in DOMAIN exWaiters[q] : exWaiters[q][i] \in ExEvent
        /\ \A q \in ExPools : \A i \in DOMAIN exWaiters[q] : exWaiters[q][i] # x
    <2>1. \A q \in ExPools : \A i \in DOMAIN exWaiters[q] : exWaiters[q][i] \in ExEvent
      BY <1>5
    <2>2. \A q \in ExPools : \A i \in DOMAIN exWaiters[q] : exWaiters[q][i] # x
      BY DEF ExReleases, ExInv, ExQueues
    <2> QED
      BY <2>1, <2>2
  <1>3. CASE it = ExNull
    <2>1. /\ exev' = [exev EXCEPT ![x].pc = next1, ![x].item = ExNull]
          /\ memory' = memory /\ window' = window /\ exWaiters' = exWaiters
      BY <1>3 DEF ReleaseItem, CellEmptied
    <2>2. /\ ExTyped(exev')
          /\ exev'[x].pc = next1 /\ exev'[x].item = ExNull /\ exev'[x].pool = p
          /\ \A y \in ExEvent \ {x} : exev'[y] = exev[y]
      BY <1>0, <2>1 DEF ExGoesTo, ExInv, ExTypes, ExTyped, ExMaybe
    <2>3. ExTypes'
      BY <2>1, <2>2 DEF ExInv, ExTypes
    <2>4. ExWindows'
      BY <2>1 DEF ExInv, ExWindows
    <2>5. ExQueues'
      <3>1. \A q \in ExPools : \A i \in DOMAIN exWaiters[q] : exev'[exWaiters[q][i]] = exev[exWaiters[q][i]]
        BY <2>2, <1>2
      <3>2. exWaiters' = exWaiters
        BY <2>1
      <3> QED
        BY <3>1, <3>2 DEF ExInv, ExQueues
    <2>6. ExRuns'
      BY <2>2 DEF ExInv, ExRuns
    <2>7. \A y \in ExEvent : exev'[y].item = exev[y].item /\ exev'[y].pool = exev[y].pool
      BY <1>0, <1>3, <2>2
    <2>8. ExCounts'
      <3>1. \A q \in ExPools : ExHolders(q)' = ExHolders(q)
        BY <2>7 DEF ExHolders
      <3> QED
        BY <2>1, <3>1 DEF ExInv, ExCounts
    <2>9. ExOnce'
      <3>1. \A y \in ExEvent : exev'[y].pc # "none" => exev[y].pc # "none"
        BY <2>2 DEF ExReleases
      <3> QED
        <4>1. memory' = memory /\ window' = window
          BY <2>1
        <4> QED
          BY <4>1, <2>7, <3>1 DEF ExInv, ExOnce
    <2>10. ExIdle'
      BY <2>1 DEF ExInv, ExIdle
    <2> QED
      BY <2>3, <2>4, <2>5, <2>6, <2>8, <2>9, <2>10 DEF ExInv
  <1>4. CASE it # ExNull /\ Q # <<>>
    <2> DEFINE hd == Head(Q)
    <2>1. /\ hd \in ExEvent /\ hd # x /\ hd = Q[1] /\ 1 \in DOMAIN Q
      BY <1>5, <1>2, <1>4
    <2>2. exev[hd].pc = "wait" /\ exev[hd].pool = p /\ exev[hd].item = ExNull
      BY <2>1 DEF ExInv, ExQueues, ExRuns
    <2>3. /\ exev' = [[exev EXCEPT ![hd].pc = "run", ![hd].item = it] EXCEPT ![x].pc = next1, ![x].item = ExNull]
          /\ exWaiters' = [exWaiters EXCEPT ![p] = Tail(@)] /\ UNCHANGED <<memory, window>>
      BY <1>0, <1>4 DEF ReleaseItem, CellEmptied
    <2>4. /\ ExTyped(exev')
          /\ exev'[x].pc = next1 /\ exev'[x].item = ExNull /\ exev'[x].pool = p
          /\ exev'[hd].pc = "run" /\ exev'[hd].item = it /\ exev'[hd].pool = p
          /\ \A y \in ExEvent \ {x, hd} : exev'[y] = exev[y]
      <3> DEFINE E1 == [exev EXCEPT ![hd].pc = "run", ![hd].item = it]
      <3> HIDE DEF hd
      <3>1. it \in ExMaybe
        BY DEF ExInv, ExTypes, ExTyped
      <3>2. /\ ExTyped(E1) /\ E1[hd].pc = "run" /\ E1[hd].item = it /\ E1[hd].pool = p
            /\ \A y \in ExEvent \ {hd} : E1[y] = exev[y]
        <4>1. ExTyped(exev)
          BY DEF ExInv, ExTypes
        <4>2. PICK r : r = [exev[hd] EXCEPT !.pc = "run", !.item = it]
          OBVIOUS
        <4>3. exev[hd] \in [pc : {"none", "acquire", "wait", "run", "wait a little"},
                            kind : {"source", "node"}, pool : ExPools, item : ExMaybe]
          BY <2>1, <4>1 DEF ExTyped
        <4>4. /\ r \in [pc : {"none", "acquire", "wait", "run", "wait a little"},
                        kind : {"source", "node"}, pool : ExPools, item : ExMaybe]
              /\ r.pc = "run" /\ r.item = it /\ r.pool = exev[hd].pool
          BY <3>1, <4>2, <4>3
        <4>5. E1 = [exev EXCEPT ![hd] = r]
          BY <4>2
        <4>6. ExTyped(E1) /\ E1[hd] = r /\ \A y \in ExEvent \ {hd} : E1[y] = exev[y]
          BY <2>1, <4>1, <4>4, <4>5 DEF ExTyped
        <4> QED
          BY <2>2, <4>4, <4>6
      <3> HIDE DEF E1
      <3>3. exev' = [E1 EXCEPT ![x].pc = next1, ![x].item = ExNull]
        BY <2>3 DEF E1
      <3>4. E1[x].pool = p
        BY <1>0, <2>1, <3>2
      <3>5. ExTyped(exev')
        <4>1. PICK r : r = [E1[x] EXCEPT !.pc = next1, !.item = ExNull]
          OBVIOUS
        <4>2. E1[x] \in [pc : {"none", "acquire", "wait", "run", "wait a little"},
                         kind : {"source", "node"}, pool : ExPools, item : ExMaybe]
          BY <3>2 DEF ExTyped
        <4>3. r \in [pc : {"none", "acquire", "wait", "run", "wait a little"},
                     kind : {"source", "node"}, pool : ExPools, item : ExMaybe]
          BY <4>1, <4>2 DEF ExGoesTo, ExMaybe
        <4>4. exev' = [E1 EXCEPT ![x] = r]
          BY <3>3, <4>1
        <4> QED
          BY <3>2, <4>3, <4>4 DEF ExTyped
      <3>7. /\ exev'[x].pc = next1 /\ exev'[x].item = ExNull /\ exev'[x].pool = E1[x].pool
            /\ \A y \in ExEvent \ {x} : exev'[y] = E1[y]
        BY <3>2, <3>3 DEF ExTyped
      <3> QED
        BY <2>1, <3>2, <3>4, <3>5, <3>7
    <2>5. /\ exWaiters' \in [ExPools -> Seq(ExEvent)]
          /\ exWaiters'[p] = Tail(Q) /\ Tail(Q) \in Seq(ExEvent)
          /\ \A q \in ExPools \ {p} : exWaiters'[q] = exWaiters[q]
      BY <1>5, <1>4, <2>3
    <2>6. /\ DOMAIN Tail(Q) = 1 .. Len(Q) - 1
          /\ \A i \in DOMAIN Tail(Q) : i + 1 \in DOMAIN Q /\ Tail(Q)[i] = Q[i + 1] /\ i + 1 # 1
      BY <1>5, <1>4
    <2> HIDE DEF hd
    <2>7. ExTypes'
      BY <2>3, <2>4, <2>5 DEF ExInv, ExTypes
    <2>8. ExWindows'
      BY <2>3 DEF ExInv, ExWindows
    <2>9. ExQueues'
      <3>1. ASSUME NEW q \in ExPools, q # p
            PROVE  /\ \A i \in DOMAIN exWaiters'[q] :
                        exev'[exWaiters'[q][i]].pc = "wait" /\ exev'[exWaiters'[q][i]].pool = q
                   /\ \A i, j \in DOMAIN exWaiters'[q] : exWaiters'[q][i] = exWaiters'[q][j] => i = j
        <4>1. exWaiters'[q] = exWaiters[q]
          BY <2>5, <3>1
        <4>2. \A i \in DOMAIN exWaiters[q] : exWaiters[q][i] # hd
          BY <2>2, <3>1 DEF ExInv, ExQueues
        <4>3. \A i \in DOMAIN exWaiters[q] : exev'[exWaiters[q][i]] = exev[exWaiters[q][i]]
          BY <1>2, <2>4, <4>2
        <4> QED
          BY <4>1, <4>3 DEF ExInv, ExQueues
      <3>2. \A i, j \in DOMAIN Q : Q[i] = Q[j] => i = j
        BY DEF ExInv, ExQueues
      <3>3. \A i \in DOMAIN exWaiters'[p] :
              exev'[exWaiters'[p][i]].pc = "wait" /\ exev'[exWaiters'[p][i]].pool = p
        <4> SUFFICES ASSUME NEW i \in DOMAIN Tail(Q)
                     PROVE  exev'[Tail(Q)[i]].pc = "wait" /\ exev'[Tail(Q)[i]].pool = p
          BY <2>5
        <4>1. PICK k \in DOMAIN Q : k = i + 1 /\ Tail(Q)[i] = Q[k] /\ k # 1
          BY <2>6
        <4>2. Q[k] # hd /\ Q[k] # x /\ Q[k] \in ExEvent
          BY <1>2, <2>1, <3>2, <4>1
        <4>3. exev[Q[k]].pc = "wait" /\ exev[Q[k]].pool = p
          BY DEF ExInv, ExQueues
        <4> QED
          BY <4>1, <4>2, <4>3, <2>4
      <3>4. \A i, j \in DOMAIN exWaiters'[p] : exWaiters'[p][i] = exWaiters'[p][j] => i = j
        <4>1. \A i, j \in DOMAIN Tail(Q) : Tail(Q)[i] = Tail(Q)[j] => i + 1 = j + 1
          BY <2>6, <3>2
        <4>2. \A i, j \in DOMAIN Tail(Q) : i + 1 = j + 1 => i = j
          BY <1>5, <2>6
        <4> QED
          BY <2>5, <4>1, <4>2
      <3> QED
        BY <3>1, <3>3, <3>4 DEF ExQueues
    <2>10. ExRuns'
      BY <2>4 DEF ExInv, ExRuns
    <2>11. ExCounts'
      <3>1. ExHolders(p)' = (ExHolders(p) \ {x}) \cup {hd}
        BY <1>0, <1>4, <2>1, <2>4 DEF ExHolders
      <3>2. \A q \in ExPools \ {p} : ExHolders(q)' = ExHolders(q)
        BY <1>0, <2>1, <2>2, <2>4 DEF ExHolders
      <3>3. IsFiniteSet(ExHolders(p)) /\ x \in ExHolders(p)
        BY <1>0, <1>4 DEF ExInv, ExCounts, ExHolders
      <3>4. /\ IsFiniteSet(ExHolders(p) \ {x})
            /\ Cardinality(ExHolders(p) \ {x}) = Cardinality(ExHolders(p)) - 1
            /\ Cardinality(ExHolders(p)) \in Nat
        BY <3>3, ExMoreHolders
      <3>5. /\ IsFiniteSet(ExHolders(p)')
            /\ Cardinality(ExHolders(p)') \in Nat
            /\ Cardinality(ExHolders(p)') = Cardinality(ExHolders(p) \ {x}) + 1
        <4>1. hd \notin ExHolders(p) \ {x}
          BY <2>2 DEF ExHolders
        <4> QED
          BY <3>1, <3>4, <4>1, ExMoreHolders
      <3>6. Cardinality(ExHolders(p)') = Cardinality(ExHolders(p))
        BY <3>4, <3>5
      <3>7. Cardinality(ExHolders(p)) + (window[p].to - window[p].from) = ExPoolSize
        BY DEF ExInv, ExCounts
      <3>8. Cardinality(ExHolders(p)') + (window[p].to - window[p].from) = ExPoolSize
        BY <1>1, <3>4, <3>5, <3>6, <3>7, ExerciserAssumption
      <3>9. ASSUME NEW q \in ExPools
            PROVE  /\ IsFiniteSet(ExHolders(q)')
                   /\ Cardinality(ExHolders(q)') + (window[q].to - window[q].from) = ExPoolSize
        <4>1. CASE q = p
          BY <4>1, <3>5, <3>8
        <4>2. CASE q # p
          BY <4>2, <3>2 DEF ExInv, ExCounts
        <4> QED
          BY <4>1, <4>2
      <3> QED
        BY <2>3, <3>9 DEF ExCounts
    <2>12. ExOnce'
      <3> SUFFICES ASSUME exStyle = "lockfree" PROVE ExOnce'
        BY DEF ExOnce
      <3>1. ExOnce!2
        BY DEF ExInv, ExOnce
      <3>2. firstCells' = 0 /\ \A y \in ExEvent : exev'[y].pc # "none" => exev'[y].pool = "original"
        <4>1. exev[x].pc # "none" /\ exev[hd].pc # "none"
          BY <2>2 DEF ExReleases
        <4>2. p = "original"
          BY <1>0, <3>1, <4>1
        <4> QED
          BY <3>1, <4>2, <2>4
      <3>3. \A y \in ExEvent, i \in ExSlot :
              window["original"].from <= i /\ i < window["original"].to => exev'[y].item # memory[i]
        <4>1. \A i \in ExSlot : window["original"].from <= i /\ i < window["original"].to => memory[i] # ExNull
          BY DEF ExInv, ExWindows, ExPools
        <4> QED
          BY <2>1, <2>4, <3>1, <4>1
      <3>4. \A y, z \in ExEvent : y # z /\ exev'[y].item # ExNull => exev'[y].item # exev'[z].item
        BY <1>4, <2>1, <2>4, <3>1
      <3> QED
        BY <2>3, <3>1, <3>2, <3>3, <3>4 DEF ExOnce
    <2>13. ExIdle'
      <3>1. window' = window /\ window[p].from = window[p].to
        BY <1>4, <2>3 DEF ExInv, ExIdle
      <3> QED
        BY <2>5, <3>1 DEF ExInv, ExIdle
    <2> QED
      BY <2>7, <2>8, <2>9, <2>10, <2>11, <2>12, <2>13 DEF ExInv
  <1>6. CASE it # ExNull /\ Q = <<>>
    <2>1. /\ to < ExSlots
          /\ memory' = [memory EXCEPT ![to] = it]
          /\ window' = [window EXCEPT ![p].to = @ + 1]
          /\ exev' = [exev EXCEPT ![x].pc = next1, ![x].item = ExNull]
          /\ exWaiters' = exWaiters
      BY <1>0, <1>6 DEF ReleaseItem, CellEmptied
    <2>2. /\ ExTyped(exev')
          /\ exev'[x].pc = next1 /\ exev'[x].item = ExNull /\ exev'[x].pool = p
          /\ \A y \in ExEvent \ {x} : exev'[y] = exev[y]
      BY <1>0, <2>1 DEF ExGoesTo, ExInv, ExTypes, ExTyped, ExMaybe
    <2>3. to \in ExSlot /\ it \in ExMaybe
      <3>1. to \in ExSlot
        BY <1>1, <2>1, ExerciserAssumption DEF ExSlot
      <3>2. it \in ExMaybe
        BY DEF ExInv, ExTypes, ExTyped
      <3> QED
        BY <3>1, <3>2
    <2>4. /\ memory' \in [ExSlot -> ExMaybe]
          /\ memory'[to] = it /\ \A i \in ExSlot : i # to => memory'[i] = memory[i]
      BY <2>1, <2>3 DEF ExInv, ExTypes
    <2>5. /\ window' \in [ExPools -> [from : Nat, to : Nat]]
          /\ window'[p].from = from /\ window'[p].to = to + 1
          /\ \A q \in ExPools \ {p} : window'[q] = window[q]
      <3>1. window \in [ExPools -> [from : Nat, to : Nat]]
        BY DEF ExInv, ExTypes
      <3> QED
        BY <1>1, <2>1, <3>1
    <2>6. ExTypes'
      BY <2>1, <2>2, <2>4, <2>5 DEF ExInv, ExTypes
    <2>7. \A q \in ExPools : window[q].to \in Nat
      <3>1. window \in [ExPools -> [from : Nat, to : Nat]]
        BY DEF ExInv, ExTypes
      <3> QED
        BY <3>1
    <2>8. ExWindows'
      <3>1. \A i \in ExSlot : memory[i] # ExNull => memory'[i] # ExNull
        BY <1>6, <2>4
      <3>2. ASSUME NEW q \in ExPools, q # p
            PROVE  /\ window'[q].from <= window'[q].to /\ window'[q].to <= ExSlots
                   /\ \A i \in ExSlot : i < window'[q].to => memory'[i] # ExNull
        BY <2>5, <3>1, <3>2 DEF ExInv, ExWindows
      <3>3. \A i \in ExSlot : i < to + 1 => i < to \/ i = to
        BY <1>1 DEF ExSlot
      <3>4. \A i \in ExSlot : i < to => memory[i] # ExNull
        BY DEF ExInv, ExWindows
      <3>5. \A i \in ExSlot : i < window'[p].to => memory'[i] # ExNull
        BY <1>6, <2>4, <2>5, <3>1, <3>3, <3>4
      <3>6. window'[p].from <= window'[p].to /\ window'[p].to <= ExSlots
        BY <1>1, <2>1, <2>5, ExerciserAssumption
      <3> QED
        BY <3>2, <3>5, <3>6 DEF ExWindows
    <2>9. ExQueues'
      <3>1. \A q \in ExPools : \A i \in DOMAIN exWaiters[q] : exev'[exWaiters[q][i]] = exev[exWaiters[q][i]]
        BY <2>2, <1>2
      <3>2. exWaiters' = exWaiters
        BY <2>1
      <3> QED
        BY <3>1, <3>2 DEF ExInv, ExQueues
    <2>10. ExRuns'
      BY <2>2 DEF ExInv, ExRuns
    <2>11. ExCounts'
      <3>1. ExHolders(p)' = ExHolders(p) \ {x} /\ x \in ExHolders(p)
        BY <1>0, <1>6, <2>2 DEF ExHolders
      <3>2. \A q \in ExPools \ {p} : ExHolders(q)' = ExHolders(q)
        BY <1>0, <2>2 DEF ExHolders
      <3>3. IsFiniteSet(ExHolders(p)) /\ Cardinality(ExHolders(p)) + (to - from) = ExPoolSize
        BY DEF ExInv, ExCounts
      <3>4. /\ IsFiniteSet(ExHolders(p)') /\ Cardinality(ExHolders(p)') = Cardinality(ExHolders(p)) - 1
            /\ Cardinality(ExHolders(p)) \in Nat
        BY <3>1, <3>3, ExMoreHolders
      <3>5. Cardinality(ExHolders(p)') + (window'[p].to - window'[p].from) = ExPoolSize
        BY <1>1, <2>5, <3>3, <3>4, ExerciserAssumption
      <3>6. ASSUME NEW q \in ExPools
            PROVE  /\ IsFiniteSet(ExHolders(q)')
                   /\ Cardinality(ExHolders(q)') + (window'[q].to - window'[q].from) = ExPoolSize
        <4>1. CASE q = p
          BY <4>1, <3>4, <3>5
        <4>2. CASE q # p
          <5>1. ExHolders(q)' = ExHolders(q) /\ window'[q] = window[q]
            BY <4>2, <2>5, <3>2
          <5> QED
            BY <5>1 DEF ExInv, ExCounts
        <4> QED
          BY <4>1, <4>2
      <3> QED
        BY <3>6 DEF ExCounts
    <2>12. ExOnce'
      <3> SUFFICES ASSUME exStyle = "lockfree" PROVE ExOnce'
        BY DEF ExOnce
      <3>1. ExOnce!2
        BY DEF ExInv, ExOnce
      <3>2. exev[x].pc # "none" /\ p = "original"
        BY <1>0, <3>1 DEF ExReleases
      <3>3. firstCells' = 0 /\ \A y \in ExEvent : exev'[y].pc # "none" => exev'[y].pool = "original"
        BY <3>1, <3>2, <2>2
      <3>4. \A i \in ExSlot : i < to + 1 => i = to \/ (i # to /\ i < to)
        BY <1>1 DEF ExSlot
      <3>5. \A i \in ExSlot : from <= i /\ i < to => memory[i] # it
        BY <3>1, <3>2
      <3>6. \A i, j \in ExSlot :
              from <= i /\ i < to + 1 /\ from <= j /\ j < to + 1 /\ memory'[i] = memory'[j] => i = j
        BY <2>4, <3>1, <3>2, <3>4, <3>5
      <3>7. \A y \in ExEvent, i \in ExSlot : from <= i /\ i < to + 1 => exev'[y].item # memory'[i]
        <4> SUFFICES ASSUME NEW y \in ExEvent, NEW i \in ExSlot, from <= i, i < to + 1
                     PROVE  exev'[y].item # memory'[i]
          OBVIOUS
        <4>1. CASE i = to
          <5>1. memory'[i] = it
            BY <2>4, <4>1
          <5>2. \A z \in ExEvent : x # z => exev[x].item # exev[z].item
            BY <1>6, <3>1
          <5> QED
            BY <1>6, <2>2, <5>1, <5>2
        <4>2. CASE i # to
          <5>1. memory'[i] = memory[i] /\ i < to
            BY <2>4, <3>4, <4>2
          <5>2. memory[i] # ExNull
            BY <5>1 DEF ExInv, ExWindows
          <5>3. exev[y].item # memory[i]
            BY <3>1, <3>2, <5>1
          <5> QED
            BY <2>2, <5>1, <5>2, <5>3
        <4> QED
          BY <4>1, <4>2
      <3>8. \A y, z \in ExEvent : y # z /\ exev'[y].item # ExNull => exev'[y].item # exev'[z].item
        BY <2>2, <3>1
      <3> QED
        BY <2>5, <3>2, <3>3, <3>6, <3>7, <3>8 DEF ExOnce
    <2>13. ExIdle'
      BY <1>6, <2>1, <2>5 DEF ExInv, ExIdle
    <2> QED
      BY <2>6, <2>8, <2>9, <2>10, <2>11, <2>12, <2>13 DEF ExInv
  <1> QED
    BY <1>3, <1>4, <1>6

LEMMA ExNextInv == ExInv /\ [ExNext]_exvars => ExInv'
  <1> SUFFICES ASSUME ExInv, [ExNext]_exvars PROVE ExInv'
    OBVIOUS
  <1>1. ASSUME NEW x \in ExEvent, SourceFunction(x) PROVE ExInv'
    <2>1. /\ exev[x].pc = "run" /\ ReleaseItem(x, "wait a little")
          /\ exStyle' = exStyle /\ firstCells' = firstCells
      BY <1>1 DEF SourceFunction
    <2> QED
      BY <2>1, ExReleaseItem DEF ExReleases, ExGoesTo
  <1>2. ASSUME NEW x \in ExEvent, NodeFunctionEnds(x) PROVE ExInv'
    <2>1. /\ exev[x].pc = "run" \/ exev[x].pc = "wait a little"
          /\ ReleaseItem(x, "none")
          /\ exStyle' = exStyle /\ firstCells' = firstCells
      BY <1>2 DEF NodeFunctionEnds
    <2> QED
      BY <2>1, ExReleaseItem DEF ExReleases, ExGoesTo
  <1>3. CASE UNCHANGED exvars
    <2>1. /\ exStyle' = exStyle /\ firstCells' = firstCells /\ memory' = memory
          /\ window' = window /\ exWaiters' = exWaiters /\ exev' = exev
      BY <1>3 DEF exvars
    <2>2. ExTypes' /\ ExWindows' /\ ExQueues' /\ ExRuns'
      BY <2>1 DEF ExInv, ExTypes, ExWindows, ExQueues, ExRuns
    <2>3. ExCounts' /\ ExIdle' /\ ExOnce'
      BY <2>1 DEF ExInv, ExCounts, ExIdle, ExOnce, ExHolders
    <2> QED
      BY <2>2, <2>3 DEF ExInv
  <1> QED
    BY <1>1, <1>2, <1>3, ExCreateSpecial, ExAcquireItem DEF ExNext

LEMMA ExInvPool == ExInv => ExercisedPool
  BY DEF ExInv, ExCounts, ExIdle, ExOnce, ExercisedPool

\* Each of the exerciser's two pools keeps as many items as it has, out or in its window,
\* and nobody waits for one that has an item there; in the lock-free style an item is with
\* one event at a time (set_wtype of ClAtomic and LFAtomic, AtomicPooled); for pools and
\* flows of any size.
THEOREM ExerciserCorrect == PartSpec => []ExerciserPool
  <1> DEFINE Inv == part = "exerciser" => ExInv
  <1>1. PartInit => Inv
    BY ExInitInv DEF PartInit
  <1>2. Inv /\ [PartStep]_allvars => Inv'
    <2> SUFFICES ASSUME Inv, [PartStep]_allvars, part' = "exerciser" PROVE ExInv'
      OBVIOUS
    <2>1. part = "exerciser" /\ [ExNext]_exvars
      BY DEF PartStep, LFNext, OwnNext, ProgNext, allvars, progvars
    <2> QED
      BY <2>1, ExNextInv
  <1>3. Inv => ExerciserPool
    BY ExInvPool DEF ExerciserPool
  <1> QED
    BY <1>1, <1>2, <1>3, PTL DEF PartSpec, PartStep

-----------------------------------------------------------------------------
(***************************************************************************)
(* The lock-free exclusive atomic.                                         *)
(***************************************************************************)
\* Of any number of events one at a time holds an exclusive atomic of the lock-free
\* runtime, it is marked free exactly when nobody holds it, and the holders on its list
\* are neither free nor private (push and pop of ExclusiveWaiterList).
THEOREM ExclusiveCorrect == PartSpec => []ExclusiveOneHolder
  <1> DEFINE Inv == part = "exclusive" => XInv
  <1>1. PartInit => Inv
    BY XInitInv DEF PartInit
  <1>2. Inv /\ [PartStep]_allvars => Inv'
    <2> SUFFICES ASSUME Inv, [PartStep]_allvars, part' = "exclusive" PROVE XInv'
      OBVIOUS
    <2>1. part = "exclusive" /\ [XNext]_xvars
      BY DEF PartStep, LFNext, OwnNext, ProgNext, allvars, lfvars
    <2> QED
      BY <2>1, XNextInv
  <1>3. Inv => ExclusiveOneHolder
    BY XInvHolds DEF ExclusiveOneHolder
  <1> QED
    BY <1>1, <1>2, <1>3, PTL DEF PartSpec, PartStep

-----------------------------------------------------------------------------
(***************************************************************************)
(* The I/O shim of the classic runtime.                                    *)
(***************************************************************************)
\* However many threads and descriptors there are: until the runtime stops, a thread that
\* goes to the kernel with the manager lock is not kept there, unless it writes more than
\* the buffer takes, and after a call a node function has the lock again unless it is
\* detached (the interposed calls of OFluxIOShim.cpp, UnlockRunTime).
THEOREM ShimCorrect == PartSpec => []ShimKeepsLockFree
  <1> DEFINE Inv == part = "shim" => ShInv
  <1>1. PartInit => Inv
    BY ShInitInv DEF PartInit
  <1>2. Inv /\ [PartStep]_allvars => Inv'
    <2> SUFFICES ASSUME Inv, [PartStep]_allvars, part' = "shim" PROVE ShInv'
      OBVIOUS
    <2>1. part = "shim" /\ (ShNext \/ shvars' = shvars)
      BY DEF PartStep, LFNext, OwnNext, ProgNext, allvars, ownvars
    <2> QED
      BY <2>1, ShNextInv, ShStutter
  <1>3. Inv => ShimKeepsLockFree
    BY ShInvKeeps DEF ShimKeepsLockFree
  <1> QED
    BY <1>1, <1>2, <1>3, PTL DEF PartSpec, PartStep

-----------------------------------------------------------------------------
(***************************************************************************)
(* The life of events and flows.                                           *)
(***************************************************************************)
LEMMA ElPart ==
  /\ PartInit => (part = "events" => ElInv)
  /\ (part = "events" => ElInv) /\ [PartStep]_allvars => (part = "events" => ElInv)'
  <1>1. PartInit => (part = "events" => ElInv)
    BY ElInitial DEF PartInit
  <1>2. ASSUME part = "events" => ElInv, [PartStep]_allvars, part' = "events" PROVE ElInv'
    <2>1. part = "events" /\ (ElNext \/ elvars' = elvars)
      BY <1>2 DEF PartStep, LFNext, OwnNext, ProgNext, allvars, ownvars
    <2> QED
      BY <1>2, <2>1, ElStep, ElStutter
  <1> QED
    BY <1>1, <1>2

\* In every style, for any number of threads, loads, outputs and events: an event that can
\* still read its input keeps the event whose output that is, and no event, nor the one it
\* keeps, is of a flow that load_flow deleted (EventBase's predecessor, get_successors,
\* RunTime::load_flow).
THEOREM EventsCorrect == PartSpec => []EventsKept
  <1> DEFINE Inv == part = "events" => ElInv
  <1>1. PartInit => Inv
    BY ElPart
  <1>2. Inv /\ [PartStep]_allvars => Inv'
    BY ElPart
  <1>3. Inv => EventsKept
    BY ElKept DEF EventsKept
  <1> QED
    BY <1>1, <1>2, <1>3, PTL DEF PartSpec, PartStep

\* In every style the source of the current flow has one event from the start on, whatever
\* its node function returns, however many outputs it splays and whenever flows are loaded
\* (successors_on_no_error, get_successors, push_initials_and_sources).
THEOREM SourceCorrect == PartSpec => []OneSource
  <1> DEFINE Inv == part = "events" => ElInv
  <1>1. PartInit => Inv
    BY ElPart
  <1>2. Inv /\ [PartStep]_allvars => Inv'
    BY ElPart
  <1>3. Inv => OneSource
    BY ElKept DEF OneSource
  <1> QED
    BY <1>1, <1>2, <1>3, PTL DEF PartSpec, PartStep

LEMMA CbPart ==
  /\ PartInit => (part = "buffer" => CbInv)
  /\ (part = "buffer" => CbInv) /\ [PartStep]_allvars => (part = "buffer" => CbInv)'
  <1>1. PartInit => (part = "buffer" => CbInv)
    BY CbCorrect DEF PartInit
  <1>2. ASSUME part = "buffer" => CbInv, [PartStep]_allvars, part' = "buffer" PROVE CbInv'
    <2>1. part = "buffer" /\ (CbNext \/ cbvars' = cbvars)
      BY <1>2 DEF PartStep, LFNext, OwnNext, ProgNext, allvars, ownvars
    <2> QED
      BY <1>2, <2>1, CbCorrect
  <1> QED
    BY <1>1, <1>2

LEMMA LlPart ==
  /\ PartInit => (part = "list" => LlInv)
  /\ (part = "list" => LlInv) /\ [PartStep]_allvars => (part = "list" => LlInv)'
  <1>1. PartInit => (part = "list" => LlInv)
    BY LlCorrect DEF PartInit
  <1>2. ASSUME part = "list" => LlInv, [PartStep]_allvars, part' = "list" PROVE LlInv'
    <2>1. part = "list" /\ (LlNext \/ llvars' = llvars)
      BY <1>2 DEF PartStep, LFNext, OwnNext, ProgNext, allvars, ownvars
    <2> QED
      BY <1>2, <2>1, LlCorrect
  <1> QED
    BY <1>1, <1>2

\* For any number of submitters below the buffer's size, and of items: run2 is executed of
\* each item once, in the order of the tickets and never twice at a time, and when all
\* submitters are done none is left behind (CircularBuffer::submit).  The list of threads
\* and timers has what was inserted and not removed, in order, and every node in it knows
\* the location that points to it (LinkedListRemovable).
THEOREM ContainersCorrect == PartSpec => []ContainersKept
  <1> DEFINE Inv == (part = "buffer" => CbInv) /\ (part = "list" => LlInv)
  <1>1. PartInit => Inv
    BY CbPart, LlPart
  <1>2. Inv /\ [PartStep]_allvars => Inv'
    BY CbPart, LlPart
  <1>3. Inv => ContainersKept
    BY CbCorrect, LlCorrect DEF ContainersKept
  <1> QED
    BY <1>1, <1>2, <1>3, PTL DEF PartSpec, PartStep

LEMMA SmrPart ==
  /\ PartInit => (part = "reclaim" => SmrInv)
  /\ (part = "reclaim" => SmrInv) /\ [PartStep]_allvars => (part = "reclaim" => SmrInv)'
  <1>1. PartInit => (part = "reclaim" => SmrInv)
    BY SmrCorrect DEF PartInit
  <1>2. ASSUME part = "reclaim" => SmrInv, [PartStep]_allvars, part' = "reclaim" PROVE SmrInv'
    <2>1. part = "reclaim" /\ (SmrNext \/ smrvars' = smrvars)
      BY <1>2 DEF PartStep, LFNext, OwnNext, ProgNext, allvars, ownvars, lfvars
    <2> QED
      BY <1>2, <2>1, SmrCorrect
  <1> QED
    BY <1>1, <1>2

\* For any number of threads, nodes and cells: no node goes back to the allocator that a
\* thread has announced, found still in its place, and uses; no node is put off twice, and
\* after a scan there is room in the batch ("_dcount < SMR_R": HAZARD_PTR_ASSIGN,
\* PerThread::defer_put, scan).
THEOREM ReclaimCorrect == PartSpec => []MemoryKept
  <1> DEFINE Inv == part = "reclaim" => SmrInv
  <1>1. PartInit => Inv
    BY SmrPart
  <1>2. Inv /\ [PartStep]_allvars => Inv'
    BY SmrPart
  <1>3. Inv => MemoryKept
    BY SmrCorrect DEF MemoryKept
  <1> QED
    BY <1>1, <1>2, <1>3, PTL DEF PartSpec, PartStep

LEMMA PlPart ==
  /\ PartInit => (part = "pool" => PlInv)
  /\ (part = "pool" => PlInv) /\ [PartStep]_allvars => (part = "pool" => PlInv)'
  <1>1. PartInit => (part = "pool" => PlInv)
    BY PlInitInv DEF PartInit
  <1>2. ASSUME part = "pool" => PlInv, [PartStep]_allvars, part' = "pool" PROVE PlInv'
    <2>1. part = "pool" /\ (PoolNext \/ pvars' = pvars)
      BY <1>2 DEF PartStep, LFNext, OwnNext, ProgNext, allvars, lfvars
    <2> QED
      BY <1>2, <2>1, PlNextInv
  <1> QED
    BY <1>1, <1>2

\* For any number of events and resources, and any first size of the arrays greater than
\* the number of resources: a resource is never with two events or twice in its queue, no
\* resource is idle while an event waits that nobody is about to serve, and nobody stores
\* over what another left there (AtomicPooled::acquire_or_wait, release and unwait_all), as
\* long as no assertion of it has failed.
THEOREM PoolCorrect == PartSpec => []PoolResourceOnce
  <1> DEFINE Inv == part = "pool" => PlInv
  <1>1. PartInit => Inv
    BY PlPart
  <1>2. Inv /\ [PartStep]_allvars => Inv'
    BY PlPart
  <1>3. Inv => PoolResourceOnce
    BY PlImplies DEF PoolResourceOnce
  <1> QED
    BY <1>1, <1>2, <1>3, PTL DEF PartSpec, PartStep

LEMMA WsPart ==
  /\ PartInit => (part = "webserver" => WsInv)
  /\ (part = "webserver" => WsInv) /\ [PartStep]_allvars => (part = "webserver" => WsInv)'
  <1>1. PartInit => (part = "webserver" => WsInv)
    BY WsInitInv DEF PartInit
  <1>2. ASSUME part = "webserver" => WsInv, [PartStep]_allvars, part' = "webserver" PROVE WsInv'
    <2>1. part = "webserver" /\ (WsNext \/ wsvars' = wsvars)
      BY <1>2 DEF PartStep, LFNext, OwnNext, ProgNext, allvars, progvars
    <2> QED
      BY <1>2, <2>1, WsNextInv
  <1> QED
    BY <1>1, <1>2

\* For any number of descriptors and requests, whatever clients send and whenever they go:
\* until a call fails, a socket is waited for, or with one request or entry of listen_outs,
\* or closed (Listen, Reply, FourOhF, closeSocket, returnSocket).
THEOREM WebServerCorrect == PartSpec => []WebServerSockets
  <1> DEFINE Inv == part = "webserver" => WsInv
  <1>1. PartInit => Inv
    BY WsPart
  <1>2. Inv /\ [PartStep]_allvars => Inv'
    BY WsPart
  <1>3. Inv => WebServerSockets
    BY WsInvKeeps DEF WebServerSockets
  <1> QED
    BY <1>1, <1>2, <1>3, PTL DEF PartSpec, PartStep

LEMMA AmPart ==
  /\ PartInit => (part = "maps" => AmInv)
  /\ (part = "maps" => AmInv) /\ [PartStep]_allvars => (part = "maps" => AmInv)'
  <1>1. PartInit => (part = "maps" => AmInv)
    BY AmInitInv DEF PartInit
  <1>2. ASSUME part = "maps" => AmInv, [PartStep]_allvars, part' = "maps" PROVE AmInv'
    <2>1. part = "maps" /\ (AmNext \/ amvars' = amvars)
      BY <1>2 DEF PartStep, LFNext, OwnNext, ProgNext, allvars, ownvars
    <2> QED
      BY <1>2, <2>1, AmNextInv
  <1> QED
    BY <1>1, <1>2

\* For any number of events, plans, keys, cells and data: the pool keeps what it was given
\* and a keyed atomic is the one in the map, which keeps none that nobody needs and that is
\* empty (AtomicPool, AtomicPooled, HeldAtomic::build and garbage_collect).
THEOREM MapsCorrect == PartSpec => []AtomicMapsKept
  <1> DEFINE Inv == part = "maps" => AmInv
  <1>1. PartInit => Inv
    BY AmPart
  <1>2. Inv /\ [PartStep]_allvars => Inv'
    BY AmPart
  <1>3. Inv => AtomicMapsKept
    BY AmKeepsPool, AmCollects DEF AtomicMapsKept
  <1> QED
    BY <1>1, <1>2, <1>3, PTL DEF PartSpec, PartStep

\* Who has the atomic of a key for itself is the only one that has it, though the atomic
\* may have been collected and made again while others needed it (garbage_collect).
THEOREM MapsExclude ==
  PartSpec => [](part = "maps" => \A k \in AmKey : \A u, v \in AmHolders(k) : u.wtype = Exclusive => v = u)
  <1> DEFINE Inv == part = "maps" => AmInv
             Alone == part = "maps" => \A k \in AmKey : \A u, v \in AmHolders(k) : u.wtype = Exclusive => v = u
  <1>1. PartInit => Inv
    BY AmPart
  <1>2. Inv /\ [PartStep]_allvars => Inv'
    BY AmPart
  <1>3. Inv => Alone
    BY AmExcludes
  <1> QED
    BY <1>1, <1>2, <1>3, PTL DEF PartSpec, PartStep
=============================================================================

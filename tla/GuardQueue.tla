------------------------------ MODULE GuardQueue ------------------------------
(***************************************************************************)
(* What a guard promises to the events of a flow, without the counters,    *)
(* modes and flags by which the runtime keeps the promise: per atomic, the *)
(* set of requests that are inside and the line of those that are not.     *)
(*   - whoever is inside together may share: readers, and upgradeable      *)
(*     requests once there is data;                                        *)
(*   - the line is served in the order of arrival, nobody enters past it;  *)
(*   - nobody stands in line for an atomic that is free, and all readers   *)
(*     at the front of the line enter together.                            *)
(***************************************************************************)
EXTENDS Naturals, Sequences

CONSTANTS 
    Atom,      \* the atomics
    Client,    \* who can make a request
    WType,     \* the access types, of which the next two may share
    Read, Upgradeable

VARIABLES
    present,   \* the atomic has data
    inside,    \* the requests that have the atomic
    line       \* the requests that wait for it, oldest first

vars == <<present, inside, line>>

Request == [who : Client, wtype : WType]

Shares(r, data) == r.wtype = Read \/ (r.wtype = Upgradeable /\ data)

Init == 
    /\ present \in [Atom -> BOOLEAN]
    /\ inside = [a \in Atom |-> {}]
    /\ line = [a \in Atom |-> <<>>]

\* A request enters a free atomic, or joins those inside when all may share
\* and nobody is in line.
Enter(a, r) ==
    /\ line[a] = <<>>
    /\ \/ inside[a] = {}
       \/ \A s \in inside[a] \cup {r} : Shares(s, present[a])
    /\ inside' = [inside EXCEPT ![a] = @ \cup {r}]
    /\ UNCHANGED <<present, line>>

\* A request stands in line behind the others.
StandInLine(a, r) ==
    /\ inside[a] # {}
    /\ line' = [line EXCEPT ![a] = Append(@, r)]
    /\ UNCHANGED <<present, inside>>

\* The n oldest requests may enter together, and no reader is left behind
\* that could have come along.
MayEnterTogether(a, n) ==
    /\ n > 1 => \A k \in 1 .. n : Shares(line[a][k], present[a])
    /\ (line[a][1].wtype = Read /\ n < Len(line[a])) 
          => ~ Shares(line[a][n + 1], present[a])

\* A request leaves; the last one to leave lets in the front of the line.
Leave(a, r) ==
    /\ r \in inside[a]
    /\ IF inside[a] # {r} \/ line[a] = <<>>
       THEN /\ inside' = [inside EXCEPT ![a] = @ \ {r}]
            /\ UNCHANGED line
       ELSE \E n \in 1 .. Len(line[a]) :
              /\ MayEnterTogether(a, n)
              /\ inside' = [inside EXCEPT ![a] = {line[a][k] : k \in 1 .. n}]
              /\ line' = [line EXCEPT ![a] = SubSeq(@, n + 1, Len(@))]
    /\ UNCHANGED present

\* Only a request that is alone inside changes whether there is data, and
\* never a reader.
Change(a) ==
    /\ \E r \in inside[a] : inside[a] = {r} /\ r.wtype # Read
    /\ present' = [present EXCEPT ![a] = ~ @]
    /\ UNCHANGED <<inside, line>>

Next == vars' # vars /\ \E a \in Atom : 
    \/ \E r \in Request : Enter(a, r) \/ StandInLine(a, r)
    \/ \E r \in inside[a] : Leave(a, r) 
    \/ Change(a)

Spec == Init /\ [][Next]_vars
=============================================================================

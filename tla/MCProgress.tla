----------------------------- MODULE MCProgress -----------------------------
(***************************************************************************)
(* What must come to an end: an event's wait for its guards (EventGuards   *)
(* on a small flow) and the loading of a flow (FlowReader on small         *)
(* programs).  The two share no state: part says which of them a behaviour *)
(* is about, the other stays where it is.                                  *)
(***************************************************************************)
EXTENDS MCGuards, MCFlow

VARIABLE part

progressvars == <<part, vars, frvars>>

NoEvents ==
    /\ atoms = [a \in Atom |-> NewAtomic] /\ present = [a \in Atom |-> FALSE]
    /\ pc = [x \in Event |-> "free"] /\ ha = [x \in Event |-> <<>>]
    /\ own = [x \in Event |-> {}] /\ on = [x \in Event |-> 1] /\ idx = [x \in Event |-> 0]

NoLoads ==
    /\ plan = [id |-> 0, broken |-> {}, files |-> <<>>, xml |-> <<>>] /\ dir = {}
    /\ phase = "start" /\ input = <<>> /\ rs = <<>> /\ allow = TRUE /\ scope = Main
    /\ fmaps = <<>> /\ visited = {} /\ todo = <<>> /\ flow = NewFlow /\ targets = <<>>
    /\ handlers = <<>> /\ active = {} /\ inits = <<>> /\ loads = 0

ProgressInit ==
    \/ part = "guards" /\ Init /\ NoLoads
    \/ part = "flow" /\ FRInit /\ NoEvents

ProgressNext ==
    \/ part = "guards" /\ Next /\ UNCHANGED <<part, frvars>>
    \/ part = "flow" /\ FRNext /\ UNCHANGED <<part, vars>>

\* Threads keep handling events and node functions return; the thread that loads a
\* flow goes on.
ProgressSpec ==
    /\ ProgressInit /\ [][ProgressNext]_progressvars
    /\ \A e \in Event : WF_vars(part = "guards" /\ Advance(e))
    /\ WF_frvars(part = "flow" /\ FRNext)
=============================================================================

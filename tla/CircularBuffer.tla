--------------------------- MODULE CircularBuffer ---------------------------
(***************************************************************************)
(* The buffer of src/src/util/CircularBuffer.h, to which threads submit    *)
(* work items.  A submitter takes the next ticket, executes the item's     *)
(* run1, puts the item in its place and, if it is its turn, executes run2  *)
(* of that item and of those after it that have been put meanwhile.        *)
(*                                                                         *)
(* Every access to a shared word is a step.  An item is its ticket.        *)
(***************************************************************************)
EXTENDS Integers, FiniteSets

CONSTANTS CbThread,
          CbSize,       \* 1 << _log_size
          CbItems       \* bound: how many items are submitted

\* With CbSize submitters, all may have a ticket and none may put its item: each waits
\* for _in - _out to come down.
ASSUME CbAssumption ==
  /\ CbSize \in Nat \ {0} /\ CbItems \in Nat
  /\ Cardinality(CbThread) < CbSize

NoItem == -1

VARIABLES cin, halfOut, cout,   \* _in, _half_out, _out
          array,                \* _array: tickets, or NoItem
          cpc,                  \* where a thread is in submit
          cbin,                 \* its variable in
          seenIn,               \* the _in it read
          tmp,                  \* the item it read
          ran                   \* history: how many run2s were finished

cbvars == <<cin, halfOut, cout, array, cpc, cbin, seenIn, tmp, ran>>

Place(i) == i % CbSize

CbInit ==
  /\ cin = 0 /\ halfOut = 0 /\ cout = 0
  /\ array = [i \in 0 .. CbSize - 1 |-> NoItem]
  /\ cpc = [t \in CbThread |-> "idle"]
  /\ cbin = [t \in CbThread |-> 0] /\ seenIn = cbin /\ tmp = [t \in CbThread |-> NoItem]
  /\ ran = 0

CbGo(t, from, to) == cpc[t] = from /\ cpc' = [cpc EXCEPT ![t] = to]

CbDone(t) == /\ cpc' = [cpc EXCEPT ![t] = "idle"]
             /\ cbin' = [cbin EXCEPT ![t] = 0]
             /\ tmp' = [tmp EXCEPT ![t] = NoItem]

\* A spot is reserved, and run1 executed.
Reserve(t) ==
  /\ CbGo(t, "idle", "spot") /\ cin < CbItems
  /\ cbin' = [cbin EXCEPT ![t] = cin] /\ cin' = cin + 1
  /\ UNCHANGED <<halfOut, cout, array, seenIn, tmp, ran>>

\* The loop that plants the item: the place is empty ...
SpotFree(t) ==
  /\ CbGo(t, "spot", "full") /\ array[Place(cbin[t])] = NoItem
  /\ seenIn' = [seenIn EXCEPT ![t] = cin]
  /\ UNCHANGED <<cin, halfOut, cout, array, cbin, tmp, ran>>

\* ... the buffer is not full ...
NotFull(t) ==
  /\ cpc[t] = "full"
  /\ cpc' = [cpc EXCEPT ![t] = IF seenIn[t] - cout > CbSize - 1 THEN "spot" ELSE "plant"]
  /\ seenIn' = [seenIn EXCEPT ![t] = 0]
  /\ UNCHANGED <<cin, halfOut, cout, array, cbin, tmp, ran>>

\* ... and the place is still empty.
Plant(t) ==
  LET i == Place(cbin[t])
  IN  /\ cpc[t] = "plant"
      /\ cpc' = [cpc EXCEPT ![t] = IF array[i] = NoItem THEN "turn" ELSE "spot"]
      /\ array' = IF array[i] = NoItem THEN [array EXCEPT ![i] = cbin[t]] ELSE array
      /\ UNCHANGED <<cin, halfOut, cout, cbin, seenIn, tmp, ran>>

\* _out == in
Turn(t) ==
  /\ cpc[t] = "turn"
  /\ IF cout = cbin[t] THEN cpc' = [cpc EXCEPT ![t] = "item"] /\ UNCHANGED <<cbin, tmp>>
                       ELSE CbDone(t)
  /\ UNCHANGED <<cin, halfOut, cout, array, seenIn, ran>>

ReadItem(t) ==
  LET item == array[Place(cbin[t])]
  IN  /\ cpc[t] = "item"
      /\ IF item # NoItem
         THEN /\ cpc' = [cpc EXCEPT ![t] = "before"]
              /\ tmp' = [tmp EXCEPT ![t] = item] /\ UNCHANGED cbin
         ELSE CbDone(t)
      /\ UNCHANGED <<cin, halfOut, cout, array, seenIn, ran>>

\* The place before it is empty, but for the first.
PreviousGone(t) ==
  /\ cpc[t] = "before"
  /\ IF cbin[t] = 0 \/ array[Place(cbin[t] + CbSize - 1)] = NoItem
     THEN cpc' = [cpc EXCEPT ![t] = "claim"] /\ UNCHANGED <<cbin, tmp>>
     ELSE CbDone(t)
  /\ UNCHANGED <<cin, halfOut, cout, array, seenIn, ran>>

\* For structures: _half_out is read and written, not compared and swapped.
Claim_Unguarded(t) ==
  /\ CbGo(t, "claim", "clear") /\ halfOut' = cbin[t] + 1
  /\ UNCHANGED <<cin, cout, array, cbin, seenIn, tmp, ran>>

\* One thread moves _half_out on.
Claim(t) ==
  /\ cpc[t] = "claim"
  /\ IF halfOut = cbin[t]
     THEN /\ cpc' = [cpc EXCEPT ![t] = "clear"] /\ halfOut' = cbin[t] + 1
          /\ UNCHANGED <<cbin, tmp>>
     ELSE CbDone(t) /\ UNCHANGED halfOut
  /\ UNCHANGED <<cin, cout, array, seenIn, ran>>

Clear(t) ==
  /\ CbGo(t, "clear", "run2")
  /\ array' = [array EXCEPT ![Place(cbin[t])] = NoItem]
  /\ UNCHANGED <<cin, halfOut, cout, cbin, seenIn, tmp, ran>>

\* run2 ends, and the item is deleted.
Run2(t) ==
  /\ CbGo(t, "run2", "out")
  /\ ran' = ran + 1 /\ tmp' = [tmp EXCEPT ![t] = NoItem]
  /\ UNCHANGED <<cin, halfOut, cout, array, cbin, seenIn>>

Out(t) ==
  /\ CbGo(t, "out", "turn")
  /\ cout' = IF cout = cbin[t] THEN cbin[t] + 1 ELSE cout
  /\ cbin' = [cbin EXCEPT ![t] = @ + 1]
  /\ UNCHANGED <<cin, halfOut, array, seenIn, tmp, ran>>

CbNext ==
  \E t \in CbThread :
    \/ Reserve(t) \/ SpotFree(t) \/ NotFull(t) \/ Plant(t)
    \/ Turn(t) \/ ReadItem(t) \/ PreviousGone(t) \/ Claim(t) \/ Clear(t)
    \/ Run2(t) \/ Out(t)

(* Properties *)
\* run2 is executed in the order of the tickets, each once and one at a time ("ensure
\* run2() calls are sequential", "no run2() calls overlap").
CbSequential ==
  \A t \in CbThread : cpc[t] = "run2" =>
    /\ tmp[t] = ran
    /\ \A u \in CbThread \ {t} : cpc[u] # "run2"

\* No item is left behind: when all submitters are done, all run2s are, and the places
\* are empty ("threads co-operate, help each other").
CbNothingLeft ==
  (\A t \in CbThread : cpc[t] = "idle") =>
    ran = cin /\ \A i \in DOMAIN array : array[i] = NoItem
=============================================================================

---------------------------- MODULE LFHashTable ----------------------------
(***************************************************************************)
(* The lock-free hash table and the atomic map over it.  A HashTable is a  *)
(* chain of implementations: when a key finds no room in one, another is   *)
(* put behind it and the entries are copied over, each marked with a tag   *)
(* while it is on its way; a fully copied first implementation is unlinked.*)
(* AtomicMapUnordered::get looks an atomic up or inserts a fresh one, and  *)
(* garbage_collect removes one that nobody uses.  Each action is one       *)
(* access to shared memory on which other threads depend.                  *)
(***************************************************************************)
EXTENDS Naturals, Integers, Sequences, FiniteSets

CONSTANTS HTProc,       \* threads
          HTKey,        \* keys of the guard
          HTHash,       \* key -> hash value
          FirstSlots,   \* entries of the first implementation
          MaxImpl,      \* bound: implementations ever made
          HTOps,        \* bound: gets of each thread
          HTCollects    \* whether the guard is declared gc

ASSUME LFHashTableAssumption ==
  /\ HTHash \in [HTKey -> Nat] /\ FirstSlots \in Nat \ {0}
  /\ MaxImpl \in Nat \ {0} /\ HTOps \in Nat /\ HTCollects \in BOOLEAN

VARIABLES impls,        \* the implementations: entry number -> [key, val]
          top,          \* HashTable::_impl
          count,        \* _stats.count of each implementation
          copied,       \* _stats.num_entries_copied
          scan,         \* _stats.copy_scan
          khash,        \* _thread_k_hashes
          htpc, r,      \* per thread: program counter and locals
          got,          \* per thread: the key and the atomic its event uses
          left,         \* per thread: gets left
          current       \* key -> value: what the swaps so far have made of the map

htvars == <<impls, top, count, copied, scan, khash, htpc, r, got, left, current>>
Tables == <<impls, top, count, copied, scan>>

\* HashTableConstants.  A value is a pointer and the tag in its lowest bit.
NoPtr == <<>>
DoesNotExist == [p |-> NoPtr, tag |-> FALSE]
CopiedValue  == [p |-> NoPtr, tag |-> TRUE]
TombStone    == [p |-> <<"tomb">>, tag |-> FALSE]
Tagged(v)    == [v EXCEPT !.tag = TRUE]
Stripped(v)  == [v EXCEPT !.tag = FALSE]

\* Nothing is left to copy.
Settled(v) == v \in {CopiedValue, Tagged(TombStone)}

\* The static atomic that stands for a key under collection, and fresh ones.
Gone == <<"gone">>
Fresh(p) == <<p, left[p]>>
Val(a) == [p |-> a, tag |-> FALSE]

NoKey == "nokey"
NoEntry == -1
NotFound == -2

Slots(i) == Cardinality(DOMAIN impls[i])
HasNext(i) == i < Len(impls)
EmptyTable(n) == [s \in 0 .. n - 1 |-> [key |-> NoKey, val |-> DoesNotExist]]

\* lookUp: the first probed entry that has the key or none.  Keys are only ever
\* written over NULL, so the reads before the last one do not matter.
LookUp(i, k) ==
  LET n == Slots(i)
      at(j) == (HTHash[k] + j) % n
      fits == {j \in 0 .. n - 1 : impls[i][at(j)].key \in {k, NoKey}}
  IN  IF fits = {} THEN NotFound
      ELSE at(CHOOSE j \in fits : \A m \in fits : j <= m)

IsEmpty(i, s) == impls[i][s].key = NoKey

HTLocals == [op |-> "get", k |-> NoKey, exp |-> DoesNotExist, new |-> DoesNotExist, i |-> 1,
             s |-> NoEntry, v |-> DoesNotExist, again |-> FALSE, x |-> 0, todo |-> 0, n |-> 0,
             cs |-> NoEntry, d |-> 1, ds |-> NoEntry, cv |-> DoesNotExist, ret |-> "none"]

NoAtomic == [k |-> NoKey, a |-> NoPtr]

HTInit ==
  /\ impls = <<EmptyTable(FirstSlots)>> /\ top = 1
  /\ count = [i \in 1 .. MaxImpl |-> 0]
  /\ copied = [i \in 1 .. MaxImpl |-> 0]
  /\ scan = [i \in 1 .. MaxImpl |-> 0]
  /\ khash = [p \in HTProc |-> NoEntry]
  /\ htpc = [p \in HTProc |-> "idle"]
  /\ r = [p \in HTProc |-> HTLocals]
  /\ got = [p \in HTProc |-> NoAtomic]
  /\ left = [p \in HTProc |-> HTOps]
  /\ current = [k \in HTKey |-> NoPtr]

HTGo(p, l) == htpc' = [htpc EXCEPT ![p] = l]
HTAt(p, l) == htpc[p] = l
HTStep(p, from, to) == HTAt(p, from) /\ HTGo(p, to)
Keep(p, rec) == r' = [r EXCEPT ![p] = rec]
Write(i, s, v) == impls' = [impls EXCEPT ![i][s].val = v]

\* startCopy: the next implementation doubles when this one is filled well.
NextSize(i) ==
  LET n == Slots(i)
  IN  IF count[i] > n \div 2 \/ count[i] > n \div 4 + n \div 8 THEN 2 * n ELSE n

StartCopy(i) ==
  IF HasNext(i) THEN UNCHANGED impls
  ELSE Len(impls) < MaxImpl /\ impls' = Append(impls, EmptyTable(NextSize(i)))

(* AtomicMapUnordered::get *)
MapGet(p) ==
  /\ htpc[p] = "idle" /\ got[p] = NoAtomic /\ left[p] > 0
  /\ left' = [left EXCEPT ![p] = @ - 1]
  /\ \E k \in HTKey : /\ khash' = [khash EXCEPT ![p] = HTHash[k]]
                      /\ Keep(p, [HTLocals EXCEPT !.k = k])
  /\ HTGo(p, "g_top")
  /\ UNCHANGED <<Tables, got, current>>

GetTop(p) ==
  /\ HTStep(p, "g_top", "g_look")
  /\ Keep(p, [r[p] EXCEPT !.i = top])
  /\ UNCHANGED <<Tables, khash, got, left, current>>

\* An empty entry ends the search; a full table passes it on to the next.
GetLook(p) ==
  /\ HTAt(p, "g_look")
  /\ LET i == r[p].i
         s == LookUp(i, r[p].k)
     IN  CASE s = NotFound /\ HasNext(i) ->
                HTStep(p, "g_look", "g_look") /\ Keep(p, [r[p] EXCEPT !.i = i + 1])
           [] s # NotFound /\ ~IsEmpty(i, s) ->
                HTStep(p, "g_look", "g_val") /\ Keep(p, [r[p] EXCEPT !.s = s])
           [] OTHER -> HTStep(p, "g_look", "g_end") /\ Keep(p, [r[p] EXCEPT !.v = DoesNotExist])
  /\ UNCHANGED <<Tables, khash, got, left, current>>

GetVal(p) ==
  /\ HTAt(p, "g_val")
  /\ LET v == impls[r[p].i][r[p].s].val
     IN  CASE Settled(v) ->
                HTStep(p, "g_val", "g_look") /\ Keep(p, [r[p] EXCEPT !.i = @ + 1])
           [] v.tag /\ ~Settled(v) ->
                /\ HTStep(p, "g_val", "y_read")
                /\ Keep(p, [r[p] EXCEPT !.cs = r[p].s, !.d = r[p].i + 1, !.ret = "g_look"])
           [] ~v.tag ->
                /\ HTStep(p, "g_val", "g_end")
                /\ Keep(p, [r[p] EXCEPT !.v = IF v = TombStone THEN DoesNotExist ELSE v])
  /\ UNCHANGED <<Tables, khash, got, left, current>>

\* The atomic under collection is waited out, the first time; a missing one is
\* inserted.  "Does_Not_Exist" is passed on as the expected value.
GetEnd(p) ==
  LET a == r[p].v.p
  IN  /\ HTAt(p, "g_end")
      /\ CASE a = Gone /\ ~r[p].again ->
                HTStep(p, "g_end", "g_top") /\ UNCHANGED <<r, got>>
           [] a = NoPtr /\ ~r[p].again ->
                /\ HTStep(p, "g_end", "p_top") /\ UNCHANGED got
                /\ Keep(p, [r[p] EXCEPT !.op = "put", !.exp = DoesNotExist, !.new = Val(Fresh(p))])
           [] OTHER ->
                /\ HTStep(p, "g_end", "idle") /\ got' = [got EXCEPT ![p] = [k |-> r[p].k, a |-> a]]
                /\ Keep(p, HTLocals)
      /\ UNCHANGED <<Tables, khash, left, current>>

(* HashTable::compareAndSwap, with helpCopy, and HashTable::remove *)
PutTop(p) ==
  /\ HTStep(p, "p_top", IF r[p].op # "remove" /\ HasNext(top) THEN "h_read" ELSE "c_look")
  /\ Keep(p, [r[p] EXCEPT !.i = top])
  /\ UNCHANGED <<Tables, khash, got, left, current>>

\* A chunk is one entry; a scan that has gone round twice copies them all.
HelpRead(p) ==
  /\ HTAt(p, "h_read")
  /\ LET i == r[p].i
     IN  /\ HTStep(p, "h_read", IF copied[i] = Slots(i) THEN "h_unlink" 
                                ELSE IF scan[i] >= 2 * Slots(i) THEN "h_copy" ELSE "h_add")
         /\ Keep(p, [r[p] EXCEPT !.n = 0, !.x = IF scan[i] >= 2 * Slots(i) THEN 0 ELSE scan[i],
                                 !.todo = IF scan[i] >= 2 * Slots(i) THEN Slots(i) ELSE 1])
  /\ UNCHANGED <<Tables, khash, got, left, current>>

HelpAdd(p) ==
  /\ HTStep(p, "h_add", "h_copy")
  /\ scan' = [scan EXCEPT ![r[p].i] = @ + 1]
  /\ UNCHANGED <<impls, top, count, copied, khash, r, got, left, current>>

HelpCopy(p) ==
  /\ HTAt(p, "h_copy")
  /\ IF r[p].todo > 0
     THEN /\ HTStep(p, "h_copy", "y_read")
          /\ Keep(p, [r[p] EXCEPT !.cs = r[p].x % Slots(r[p].i), !.x = @ + 1, !.todo = @ - 1,
                                  !.d = r[p].i + 1, !.ret = "h_copy"])
          /\ UNCHANGED copied
     ELSE /\ copied' = [copied EXCEPT ![r[p].i] = @ + r[p].n]
          /\ HTStep(p, "h_copy", IF copied'[r[p].i] = Slots(r[p].i) THEN "h_unlink" ELSE "c_look")
          /\ UNCHANGED r
  /\ UNCHANGED <<impls, top, count, scan, khash, got, left, current>>

\* A fully copied implementation is unlinked.  It is never freed: release
\* stores the count it read before the decrement.
HelpUnlink(p) ==
  /\ HTStep(p, "h_unlink", "c_look")
  /\ IF top = r[p].i THEN top' = top + 1 /\ Keep(p, [r[p] EXCEPT !.i = @ + 1])
                     ELSE UNCHANGED <<top, r>>
  /\ UNCHANGED <<impls, count, copied, scan, khash, got, left, current>>

\* HashTableImplementation::compareAndSwap; its return to the caller is CasEnd.
Whatever == DoesNotExist       \* Cas_Expect::Whatever, the same null pointer

CasLook(p) ==
  LET i == r[p].i
      s == LookUp(i, r[p].k)
  IN  /\ HTAt(p, "c_look")
      /\ CASE s = NotFound ->
                /\ HTStep(p, "c_look", "c_look") /\ StartCopy(i)
                /\ Keep(p, [r[p] EXCEPT !.i = i + 1])
           [] s # NotFound /\ IsEmpty(i, s) ->
                /\ HTStep(p, "c_look", IF r[p].exp # Whatever \/ r[p].new = DoesNotExist
                                       THEN "c_end" ELSE "c_key")
                /\ Keep(p, [r[p] EXCEPT !.s = s, !.v = DoesNotExist]) /\ UNCHANGED impls
           [] s # NotFound /\ ~IsEmpty(i, s) ->
                /\ HTStep(p, "c_look", "c_val")
                /\ Keep(p, [r[p] EXCEPT !.s = s]) /\ UNCHANGED impls
      /\ UNCHANGED <<top, count, copied, scan, khash, got, left, current>>

CasKey(p) ==
  /\ HTAt(p, "c_key")
  /\ IF IsEmpty(r[p].i, r[p].s)
     THEN HTStep(p, "c_key", "c_val") /\ impls' = [impls EXCEPT ![r[p].i][r[p].s].key = r[p].k]
     ELSE HTStep(p, "c_key", "c_look") /\ UNCHANGED impls
  /\ UNCHANGED <<top, count, copied, scan, khash, r, got, left, current>>

Existed(v) == v \notin {TombStone, DoesNotExist}

\* Nothing to do, or not what was expected: the value found is returned.
CasRefused(p, v) ==
  \/ r[p].exp # Whatever /\ r[p].exp # v
  \/ r[p].new = DoesNotExist /\ ~Existed(v)
  \/ v = r[p].new

CasVal(p) ==
  /\ HTAt(p, "c_val")
  /\ LET v == impls[r[p].i][r[p].s].val
     IN  CASE Settled(v) ->
                HTStep(p, "c_val", "c_look") /\ Keep(p, [r[p] EXCEPT !.i = @ + 1])
           [] v.tag /\ ~Settled(v) ->
                /\ HTStep(p, "c_val", "y_read")
                /\ Keep(p, [r[p] EXCEPT !.cs = r[p].s, !.d = r[p].i + 1, !.ret = "c_look"])
           [] ~v.tag ->
                /\ HTStep(p, "c_val", IF CasRefused(p, v) THEN "c_end" ELSE "c_cas")
                /\ Keep(p, [r[p] EXCEPT !.v = v])
  /\ UNCHANGED <<Tables, khash, got, left, current>>

CasSwap(p) ==
  LET i == r[p].i
      v == r[p].v
      new == r[p].new
  IN  /\ HTAt(p, "c_cas")
      /\ IF impls[i][r[p].s].val = v
         THEN /\ HTStep(p, "c_cas", "c_end")
              /\ Write(i, r[p].s, IF new = DoesNotExist THEN TombStone ELSE new)
              /\ count' = [count EXCEPT ![i] =
                    @ + (IF new # DoesNotExist THEN 1 ELSE 0) - (IF Existed(v) THEN 1 ELSE 0)]
              /\ current' = [current EXCEPT ![r[p].k] = new.p]
         ELSE HTStep(p, "c_cas", "c_look") /\ UNCHANGED <<impls, count, current>>
      /\ UNCHANGED <<top, copied, scan, khash, r, got, left>>

(* copyEntry: entry cs of implementation i into implementation d *)
CopyReturns(p, won) ==
  /\ HTGo(p, r[p].ret)
  /\ IF r[p].ret = "h_copy"
     THEN /\ Keep(p, [r[p] EXCEPT !.n = IF won THEN @ + 1 ELSE @]) /\ UNCHANGED copied
     ELSE /\ Keep(p, [r[p] EXCEPT !.i = @ + 1])
          /\ copied' = [copied EXCEPT ![r[p].i] = IF won THEN @ + 1 ELSE @]

CopyRead(p) ==
  /\ htpc[p] = "y_read"
  /\ LET v == impls[r[p].i][r[p].cs].val
     IN  IF Settled(v) THEN CopyReturns(p, FALSE)
         ELSE HTGo(p, IF v = DoesNotExist THEN "y_null" ELSE "y_tag") /\ UNCHANGED <<r, copied>>
  /\ UNCHANGED <<impls, top, count, scan, khash, got, left, current>>

\* An entry without a value is closed.
CopyNull(p) ==
  /\ htpc[p] = "y_null"
  /\ IF impls[r[p].i][r[p].cs].val = DoesNotExist
     THEN Write(r[p].i, r[p].cs, CopiedValue) /\ CopyReturns(p, TRUE)
     ELSE HTGo(p, "y_tag") /\ UNCHANGED <<impls, r, copied>>
  /\ UNCHANGED <<top, count, scan, khash, got, left, current>>

CopyTag(p) ==
  /\ htpc[p] = "y_tag"
  /\ LET v == impls[r[p].i][r[p].cs].val
     IN  /\ Write(r[p].i, r[p].cs, Tagged(v))
         /\ IF Settled(v) \/ v = TombStone THEN CopyReturns(p, v = TombStone)
            ELSE /\ HTGo(p, "y_look") /\ UNCHANGED copied
                 /\ Keep(p, [r[p] EXCEPT !.cv = Stripped(v)])
  /\ UNCHANGED <<top, count, scan, khash, got, left, current>>

CopyLook(p) ==
  LET s == LookUp(r[p].d, impls[r[p].i][r[p].cs].key)
  IN  /\ HTAt(p, "y_look")
      /\ IF s = NotFound
         THEN /\ HTStep(p, "y_look", "y_read") /\ StartCopy(r[p].d)
              /\ Keep(p, [r[p] EXCEPT !.d = @ + 1])
         ELSE /\ HTStep(p, "y_look", IF IsEmpty(r[p].d, s) THEN "y_key" ELSE "y_val")
              /\ Keep(p, [r[p] EXCEPT !.ds = s]) /\ UNCHANGED impls
      /\ UNCHANGED <<top, count, copied, scan, khash, got, left, current>>

CopyKey(p) ==
  /\ HTAt(p, "y_key")
  /\ IF IsEmpty(r[p].d, r[p].ds)
     THEN /\ HTStep(p, "y_key", "y_val")
          /\ impls' = [impls EXCEPT ![r[p].d][r[p].ds].key = impls[r[p].i][r[p].cs].key]
     ELSE HTStep(p, "y_key", "y_read") /\ UNCHANGED impls
  /\ UNCHANGED <<top, count, copied, scan, khash, r, got, left, current>>

\* For lf_runtime: the value is written whatever is there.
CopyValOver(p) ==
  /\ HTStep(p, "y_val", "y_won")
  /\ Write(r[p].d, r[p].ds, r[p].cv)
  /\ UNCHANGED <<top, count, copied, scan, khash, r, got, left, current>>

\* The value is only written over NULL: what was put there since is newer.
CopyVal(p) ==
  LET v == impls[r[p].d][r[p].ds].val
  IN  /\ HTAt(p, "y_val")
      /\ IF v = CopiedValue
         THEN /\ HTStep(p, "y_val", "y_read") /\ Keep(p, [r[p] EXCEPT !.d = @ + 1])
              /\ UNCHANGED impls
         ELSE /\ HTStep(p, "y_val", IF v = DoesNotExist THEN "y_won" ELSE "y_lost")
              /\ IF v = DoesNotExist THEN Write(r[p].d, r[p].ds, r[p].cv) ELSE UNCHANGED impls
              /\ UNCHANGED r
      /\ UNCHANGED <<top, count, copied, scan, khash, got, left, current>>

CopyDone(p) ==
  /\ htpc[p] \in {"y_won", "y_lost"}
  /\ Write(r[p].i, r[p].cs, CopiedValue)
  /\ count' = IF htpc[p] = "y_lost" THEN count
              ELSE [count EXCEPT ![r[p].i] = @ - 1, ![r[p].d] = @ + 1]
  /\ CopyReturns(p, htpc[p] = "y_won")
  /\ UNCHANGED <<top, scan, khash, got, left, current>>

(* AtomicMapUnordered::garbage_collect, when the event that used the atomic    *)
(* has released it with no data in it; another event that got it may hold it   *)
(* by now, wait on it, or be on its way to it                                  *)
HashUsed(k) == \E p \in HTProc : khash[p] = HTHash[k]
Shared(p) == \E q \in HTProc \ {p} : got[q].a = got[p].a

\* Another thread goes on with the event: the hash of the key stays behind.
EventMoves(p, q) ==
  /\ HTAt(p, "idle") /\ HTAt(q, "idle") /\ got[p] # NoAtomic /\ got[q] = NoAtomic
  /\ got' = [got EXCEPT ![q] = got[p], ![p] = NoAtomic]
  /\ UNCHANGED <<Tables, khash, htpc, r, left, current>>

EventDone(p) ==
  /\ HTStep(p, "idle", "idle") /\ got[p] # NoAtomic
  /\ got' = [got EXCEPT ![p] = NoAtomic]
  /\ UNCHANGED <<Tables, khash, r, left, current>>

Collect(p) ==
  /\ HTCollects /\ got[p] # NoAtomic /\ got[p].a \notin {NoPtr, Gone}
  /\ HTStep(p, "idle", "p_top") /\ ~HashUsed(got[p].k)
  /\ Keep(p, [HTLocals EXCEPT !.op = "mark", !.k = got[p].k, !.exp = Val(got[p].a), !.new = Val(Gone)])
  /\ UNCHANGED <<Tables, khash, got, left, current>>

\* The second check: removed for good, or put back.  An atomic another event
\* got may still be free, until that event acquires it.
CollectAgain(p) ==
  /\ HTStep(p, "check", "p_top")
  /\ \/ /\ ~HashUsed(r[p].k)
        /\ Keep(p, [r[p] EXCEPT !.op = "remove", !.exp = Whatever, !.new = DoesNotExist])
     \/ /\ HashUsed(r[p].k) \/ Shared(p)
        /\ Keep(p, [r[p] EXCEPT !.op = "restore", !.exp = Val(Gone), !.new = Val(got[p].a)])
  /\ UNCHANGED <<Tables, khash, got, left, current>>

\* The value returned: get takes null for success, garbage_collect any other.
CasEnd(p) ==
  LET null == r[p].v \in {DoesNotExist, TombStone}
  IN  /\ HTAt(p, "c_end")
      /\ CASE r[p].op = "put" /\ null ->
                /\ HTStep(p, "c_end", "idle") /\ Keep(p, HTLocals)
                /\ got' = [got EXCEPT ![p] = [k |-> r[p].k, a |-> r[p].new.p]]
           [] r[p].op = "put" /\ ~null ->
                /\ HTStep(p, "c_end", "g_top") /\ Keep(p, [r[p] EXCEPT !.again = TRUE])
                /\ UNCHANGED got
           [] r[p].op = "mark" /\ ~null -> HTStep(p, "c_end", "check") /\ UNCHANGED <<r, got>>
           [] OTHER ->
                /\ HTStep(p, "c_end", "idle") /\ Keep(p, HTLocals)
                /\ got' = [got EXCEPT ![p] = NoAtomic]
      /\ UNCHANGED <<Tables, khash, left, current>>

HTNext == \E p \in HTProc :
  \/ MapGet(p) \/ GetTop(p) \/ GetLook(p) \/ GetVal(p) \/ GetEnd(p)
  \/ PutTop(p) \/ HelpRead(p) \/ HelpAdd(p) \/ HelpCopy(p) \/ HelpUnlink(p)
  \/ CasLook(p) \/ CasKey(p) \/ CasVal(p) \/ CasSwap(p) \/ CasEnd(p)
  \/ CopyRead(p) \/ CopyNull(p) \/ CopyTag(p) \/ CopyLook(p) \/ CopyKey(p) \/ CopyVal(p)
  \/ CopyDone(p) \/ EventDone(p) \/ Collect(p) \/ CollectAgain(p)
  \/ \E q \in HTProc : EventMoves(p, q)

----------------------------------------------------------------------------

HTTypeOK ==
  /\ top \in 1 .. Len(impls) /\ Len(impls) <= MaxImpl
  /\ \A i \in DOMAIN impls : \A s \in DOMAIN impls[i] : impls[i][s].key \in HTKey \cup {NoKey}
  /\ got \in [HTProc -> [k : HTKey \cup {NoKey}, a : {NoPtr, Gone} \cup (HTProc \X Nat)]]

\* What a lookup from implementation i on would find if it ran alone.
Seen(k) ==
  LET arrived[i \in 1 .. Len(impls) + 1] ==   \* has the copy of k's value reached i?
        IF i > Len(impls) THEN FALSE
        ELSE LET s == LookUp(i, k)
             IN  IF s = NotFound THEN arrived[i + 1]
                 ELSE IF IsEmpty(i, s) \/ impls[i][s].val = DoesNotExist THEN FALSE
                 ELSE impls[i][s].val # CopiedValue \/ arrived[i + 1]
      found[i \in 1 .. Len(impls) + 1] ==
        IF i > Len(impls) THEN NoPtr
        ELSE LET s == LookUp(i, k)
                 v == impls[i][s].val
             IN  IF s = NotFound THEN found[i + 1]
                 ELSE IF IsEmpty(i, s) \/ v \in {DoesNotExist, TombStone} THEN NoPtr
                 ELSE IF Settled(v) \/ (v.tag /\ arrived[i + 1]) THEN found[i + 1]
                 ELSE v.p
  IN  found[top]

\* A copy in progress changes nothing that a lookup finds: the table always
\* holds what the successful swaps made of it, whatever has been copied,
\* doubled, helped or unlinked meanwhile (copyEntry, startCopy, helpCopy).
CopyIsTransparent == \A k \in HTKey : Seen(k) = current[k]

\* num_entries_copied counts every entry once, and an implementation is
\* unlinked only when nothing is left in it.
UnlinkedIsCopied ==
  /\ \A i \in DOMAIN impls : copied[i] <= Slots(i)
  /\ \A i \in 1 .. top - 1 : \A s \in DOMAIN impls[i] : Settled(impls[i][s].val)

\* Two events that use the same key at the same time use the same atomic
\* ("insert happens as long as there was no k in the table").
OneAtomicPerKey ==
  \A p, q \in HTProc : (got[p].k # NoKey /\ got[p].k = got[q].k) => got[p].a = got[q].a
============================================================================

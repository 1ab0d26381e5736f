-------------------------- MODULE CachedListerProofs --------------------------
(***************************************************************************)
(* Proofs about CachedLister, for every set of keys and index values and   *)
(* every number of writes and of watches that expire.                      *)
(***************************************************************************)
EXTENDS CachedLister, IndexerProofs, FiniteSetTheorems, SequenceTheorems,
        WellFoundedInduction

(* The queue has each key once, a key is popped with its deltas, and until *)
(* the first list nothing has happened.                                    *)
FifoInv ==
    /\ \A i, j \in 1..Len(queue) : queue[i] = queue[j] => i = j
    /\ popping = NotPopping \/ popping.left # <<>>
    /\ firstRV <= lastRV
    /\ ~populated => /\ reflector # "watch" /\ lastRV = 0 /\ initial = 0
                     /\ queue = <<>> /\ deltas = [k \in Keys |-> <<>>] /\ popping = NotPopping

(* The log of the server: an object has the key and the version of the     *)
(* write that made it, and Apply has a write left.                         *)
LogInv ==
    /\ \A p \in 1..Len(log) : log[p].obj # Absent =>
          log[p].obj.key = log[p].key /\ log[p].obj.rv = p
    /\ Len(log) <= MaxWrites
    /\ program = "caching" /\ round = 1 /\ pc \notin {"newClient", "exit"} => Len(log) < MaxWrites

(* Where the program is, and what that says of its variables.              *)
ProgramTypeOK ==
    /\ program \in {"caching", "processIndexing"}
    /\ pc \in {"setup", "waitForSync", "list", "listing", "apply", "newClient"} \cup Ended
    /\ round \in 1..3
    /\ at \in 1..Len(Queries)
    /\ result \subseteq Objects
    /\ started \in BOOLEAN /\ informer \in BOOLEAN /\ indexed \in BOOLEAN /\ outside \in BOOLEAN
    /\ shown \in [Keys -> 0..MaxWrites]

ProgramInv ==
    /\ ProgramTypeOK /\ FailsOnlyFromOutside
    /\ pc \in {"apply", "newClient"} => program = "caching" /\ round = 1
    /\ pc \in {"list", "listing", "apply", "newClient"} => started
    /\ program = "processIndexing" /\ pc # "setup" => indexed \/ outside

-------------------------------------------------------------------------------
(* A set of positions that is not empty has a greatest one.                *)
LEMMA MaxOfPositions ==
    ASSUME NEW n \in Nat, NEW S \in SUBSET (1..n), S # {}
    PROVE  Max(S) \in S /\ \A y \in S : Max(S) >= y
<1> DEFINE T == {n - y : y \in S}
<1>1. T \subseteq Nat /\ T # {}
  <2>1. ASSUME NEW y \in S PROVE n - y \in Nat
    OBVIOUS
  <2> QED BY <2>1
<1>2. PICK t \in T : \A u \in T : ~(<<u, t>> \in OpToRel(<, Nat))
  <2> HIDE DEF T
  <2> QED BY <1>1, WFMin, NatLessThanWellFounded
<1>3. PICK x \in S : t = n - x
  OBVIOUS
<1>4. ASSUME NEW y \in S PROVE x >= y
  <2>1. n - y \in T /\ n - y \in Nat /\ t \in Nat
    BY <1>1
  <2>2. ~(n - y < t)
    BY <1>2, <2>1 DEF OpToRel
  <2>3. x \in 1..n /\ y \in 1..n
    OBVIOUS
  <2> HIDE DEF T
  <2> QED BY <1>3, <2>2, <2>3
<1> QED
  BY <1>4 DEF Max

(* ObjectAt, of any log.                                                   *)
ObjectIn(l, k, rv) ==
    LET p == SelectLastInSubSeq(l, 1, rv, LAMBDA e : e.key = k)
    IN  IF p = 0 THEN Absent ELSE l[p].obj

(* The object at a version is that of the last write of the key up to it.  *)
LEMMA LastWrite ==
    ASSUME NEW l, NEW k, NEW rv \in Nat
    PROVE  \/ /\ \A p \in 1..rv : l[p].key # k
              /\ ObjectIn(l, k, rv) = Absent
           \/ \E p \in 1..rv :
                 /\ l[p].key = k /\ ObjectIn(l, k, rv) = l[p].obj
                 /\ \A q \in (p + 1)..rv : l[q].key # k
<1> DEFINE I == {i \in 1..rv : l[i].key = k}
<1>1. ObjectIn(l, k, rv) = IF I = {} THEN Absent ELSE l[Max(I)].obj
  <2>1. I # {} => Max(I) \in I
    BY MaxOfPositions
  <2> QED BY <2>1 DEF ObjectIn, SelectLastInSubSeq
<1>2. CASE I = {}
  BY <1>1, <1>2
<1>3. CASE I # {}
  <2>1. Max(I) \in I /\ \A y \in I : Max(I) >= y
    BY <1>3, MaxOfPositions
  <2>2. \A q \in (Max(I) + 1)..rv : l[q].key # k
    BY <2>1
  <2> QED BY <1>1, <1>3, <2>1, <2>2
<1> QED
  BY <1>2, <1>3

(* A write changes no earlier version.                                     *)
LEMMA EarlierKept ==
    ASSUME NEW l, NEW m, NEW k, NEW rv \in Nat,
           \A p \in 1..rv : m[p] = l[p]
    PROVE  ObjectIn(m, k, rv) = ObjectIn(l, k, rv)
<1>1. {i \in 1..rv : m[i].key = k} = {i \in 1..rv : l[i].key = k}
  OBVIOUS
<1> QED
  BY <1>1, MaxOfPositions DEF ObjectIn, SelectLastInSubSeq

(* Every order of a finite set is a sequence that has each element once.   *)
LEMMA OrderCovers ==
    ASSUME NEW S, IsFiniteSet(S), NEW s \in SetToSeqs(S)
    PROVE  /\ s \in Seq(S) /\ Len(s) = Cardinality(S) /\ Cardinality(S) \in Nat
           /\ \A i, j \in 1..Len(s) : s[i] = s[j] => i = j
           /\ \A x \in S : \E i \in 1..Len(s) : s[i] = x
<1> DEFINE n == Cardinality(S)
<1>1. n \in Nat
  BY FS_CardinalityType
<1>2. s \in [1..n -> S] /\ \A i, j \in 1..n : i # j => s[i] # s[j]
  BY DEF SetToSeqs
<1>3. s \in Seq(S) /\ Len(s) = n
  BY <1>1, <1>2, SeqDef, LenProperties
<1>4. ASSUME NEW x \in S, \A i \in 1..n : s[i] # x PROVE FALSE
  <2>1. IsFiniteSet(S \ {x}) /\ Cardinality(S \ {x}) = n - 1
    BY FS_RemoveElement
  <2>2. IsFiniteSet(1..n) /\ Cardinality(1..n) = n
    BY <1>1, FS_Interval
  <2>3. s \in [1..n -> S \ {x}]
    BY <1>2, <1>4
  <2>4. n - 1 < n
    BY <1>1
  <2> HIDE DEF n
  <2>5. \E i, j \in 1..n : i # j /\ s[i] = s[j]
    BY <2>1, <2>2, <2>3, <2>4, FS_PigeonHole
  <2> QED BY <1>2, <2>5
<1> QED
  BY <1>1, <1>2, <1>3, <1>4

-------------------------------------------------------------------------------
Delta == Objects \cup {Absent}

(* A queue of keys q that has the keys of deltas d, each once.             *)
Queued(q, d) ==
    /\ q \in Seq(Keys) /\ d \in [Keys -> Seq(Delta)]
    /\ \A i, j \in 1..Len(q) : q[i] = q[j] => i = j
    /\ \A k \in Keys : d[k] # <<>> <=> \E i \in 1..Len(q) : q[i] = k

(* A key with its deltas is queued unless it was (queueActionLocked).      *)
LEMMA DeltaAdded ==
    ASSUME NEW ds \in Seq(Delta), NEW obj \in Delta
    PROVE  /\ AddDelta(ds, obj) \in Seq(Delta) /\ AddDelta(ds, obj) # <<>>
           /\ AddDelta(ds, obj) = ds \/ AddDelta(ds, obj) = Append(ds, obj)
           /\ obj # Absent => AddDelta(ds, obj) = Append(ds, obj)
           /\ ds = <<>> => AddDelta(ds, obj) = Append(ds, obj)
BY AppendProperties DEF AddDelta

(* The deltas e have all keys of d and, once each, those of the order.     *)
AddsKeys(d, e, order) ==
    /\ e \in [Keys -> Seq(Delta)] /\ order \in Seq(Keys)
    /\ \A i, j \in 1..Len(order) : order[i] = order[j] => i = j
    /\ \A k \in Keys : d[k] # <<>> => e[k] # <<>>
    /\ \A k \in Keys : (d[k] = <<>> /\ e[k] # <<>>) <=> \E i \in 1..Len(order) : order[i] = k

(* Keys that were not queued, in any order, can follow those that were.    *)
LEMMA QueueLonger ==
    ASSUME NEW q, NEW d, Queued(q, d), NEW e, NEW order, AddsKeys(d, e, order)
    PROVE  /\ Queued(q \o order, e) /\ Len(q \o order) = Len(q) + Len(order)
           /\ \A i \in 1..Len(q) : (q \o order)[i] = q[i]
           /\ \A i \in 1..Len(order) : (q \o order)[Len(q) + i] = order[i]
<1> DEFINE r == q \o order
<1> USE DEF AddsKeys
<1>1. /\ q \in Seq(Keys) /\ Len(q) \in Nat
      /\ order \in Seq(Keys) /\ Len(order) \in Nat
  BY LenProperties DEF Queued
<1>2. /\ r \in Seq(Keys) /\ Len(r) = Len(q) + Len(order)
      /\ \A i \in 1..Len(r) : r[i] = IF i <= Len(q) THEN q[i] ELSE order[i - Len(q)]
  BY <1>1, ConcatProperties
<1> HIDE DEF r
<1>3. \A i \in 1..Len(q) : i \in 1..Len(r) /\ r[i] = q[i]
  BY <1>1, <1>2
<1>4. ASSUME NEW i \in 1..Len(order) PROVE Len(q) + i \in 1..Len(r) /\ r[Len(q) + i] = order[i]
  <2>1. Len(q) + i \in 1..Len(r) /\ ~(Len(q) + i <= Len(q)) /\ Len(q) + i - Len(q) = i
    BY <1>1, <1>2
  <2> QED BY <1>2, <2>1
<1>5. ASSUME NEW i \in 1..Len(r)
      PROVE  \/ i \in 1..Len(q) /\ r[i] = q[i]
             \/ \E l \in 1..Len(order) : l = i - Len(q) /\ r[i] = order[l]
  <2>1. i \in Int
    BY <1>1, <1>2
  <2>2. CASE i <= Len(q)
    BY <1>1, <1>2, <2>1, <2>2
  <2>3. CASE ~(i <= Len(q))
    <3>1. i - Len(q) \in 1..Len(order)
      BY <1>1, <1>2, <2>1, <2>3
    <3> QED BY <1>2, <2>3, <3>1
  <2> QED BY <2>2, <2>3
<1>6. \A i \in 1..Len(q) : q[i] \in Keys /\ d[q[i]] # <<>>
  BY <1>1, ElementOfSeq DEF Queued
<1>7. \A i \in 1..Len(order) : order[i] \in Keys /\ d[order[i]] = <<>>
  BY ElementOfSeq
<1>8. ASSUME NEW i \in 1..Len(r), NEW j \in 1..Len(r), r[i] = r[j] PROVE i = j
  <2>1. CASE i \in 1..Len(q) /\ r[i] = q[i] /\ j \in 1..Len(q) /\ r[j] = q[j]
    <3>1. q[i] = q[j]
      BY <1>8, <2>1
    <3> QED BY <2>1, <3>1 DEF Queued
  <2>2. ASSUME NEW l \in 1..Len(order), l = i - Len(q), r[i] = order[l],
               NEW m \in 1..Len(order), m = j - Len(q), r[j] = order[m]
        PROVE  i = j
    <3>1. order[l] = order[m]
      BY <1>8, <2>2
    <3>2. l = m
      BY <3>1
    <3>3. i \in Int /\ j \in Int
      BY <1>1, <1>2
    <3> QED BY <1>1, <2>2, <3>2, <3>3
  <2>3. \A l \in 1..Len(q), m \in 1..Len(order) : q[l] # order[m]
    BY <1>6, <1>7
  <2>4. (i \in 1..Len(q) /\ r[i] = q[i]) \/ \E l \in 1..Len(order) : l = i - Len(q) /\ r[i] = order[l]
    BY <1>5
  <2>5. (j \in 1..Len(q) /\ r[j] = q[j]) \/ \E l \in 1..Len(order) : l = j - Len(q) /\ r[j] = order[l]
    BY <1>5
  <2> QED BY <1>8, <2>1, <2>2, <2>3, <2>4, <2>5
<1>9. ASSUME NEW k \in Keys PROVE e[k] # <<>> <=> \E i \in 1..Len(r) : r[i] = k
  <2>1. ASSUME NEW i \in 1..Len(r), r[i] = k PROVE e[k] # <<>>
    BY <1>5, <1>6, <1>7, <2>1
  <2>2. ASSUME e[k] # <<>> PROVE \E i \in 1..Len(r) : r[i] = k
    <3>1. CASE d[k] # <<>>
      <4>1. PICK i \in 1..Len(q) : q[i] = k
        BY <3>1 DEF Queued
      <4> QED BY <1>3, <4>1
    <3>2. CASE d[k] = <<>>
      <4>1. PICK i \in 1..Len(order) : order[i] = k
        BY <2>2, <3>2
      <4> QED BY <1>4, <4>1
    <3> QED BY <3>1, <3>2
  <2> QED BY <2>1, <2>2
<1> QED
  BY <1>2, <1>3, <1>4, <1>8, <1>9 DEF Queued, r

(* The first key leaves the queue with all its deltas.                     *)
LEMMA QueueShorter ==
    ASSUME NEW q, NEW d, Queued(q, d), q # <<>>
    PROVE  /\ Head(q) \in Keys /\ d[Head(q)] # <<>> /\ Head(q) = q[1]
           /\ Queued(Tail(q), [d EXCEPT ![Head(q)] = <<>>])
           /\ Len(Tail(q)) = Len(q) - 1 /\ Len(q) \in Nat \ {0}
           /\ \A i \in 1..Len(Tail(q)) : Tail(q)[i] = q[i + 1]
<1>1. /\ q \in Seq(Keys) /\ Len(q) \in Nat \ {0} /\ 1 \in 1..Len(q)
      /\ d \in [Keys -> Seq(Delta)] /\ <<>> \in Seq(Delta)
  BY EmptySeq DEF Queued
<1>2. /\ Tail(q) \in Seq(Keys) /\ Len(Tail(q)) = Len(q) - 1 /\ Head(q) = q[1] /\ Head(q) \in Keys
      /\ \A i \in 1..Len(Tail(q)) : Tail(q)[i] = q[i + 1]
  BY <1>1, HeadTailProperties
<1> DEFINE r == Tail(q)  h == Head(q)  e == [d EXCEPT ![h] = <<>>]
<1>3. d[h] # <<>>
  BY <1>1, <1>2 DEF Queued
<1>4. e \in [Keys -> Seq(Delta)] /\ e[h] = <<>> /\ \A k \in Keys : k # h => e[k] = d[k]
  BY <1>1, <1>2
<1> HIDE DEF r, h, e
<1>5. \A i, j \in 1..Len(r) : r[i] = r[j] => i = j
  BY <1>1, <1>2 DEF Queued, r
<1>6. \A i \in 1..Len(r) : r[i] # h
  BY <1>1, <1>2 DEF Queued, r, h
<1>7. ASSUME NEW k \in Keys, k # h PROVE e[k] # <<>> <=> \E i \in 1..Len(r) : r[i] = k
  <2>1. ASSUME NEW i \in 1..Len(q), q[i] = k PROVE \E j \in 1..Len(r) : r[j] = k
    <3>1. i # 1
      BY <1>2, <1>7, <2>1 DEF h
    <3>2. i - 1 \in 1..Len(r) /\ (i - 1) + 1 = i
      BY <1>1, <1>2, <3>1 DEF r
    <3> QED BY <1>2, <2>1, <3>2 DEF r
  <2>2. ASSUME NEW i \in 1..Len(r), r[i] = k PROVE \E j \in 1..Len(q) : q[j] = k
    BY <1>1, <1>2, <2>2 DEF r
  <2> QED BY <1>4, <1>7, <2>1, <2>2 DEF Queued
<1>8. Queued(r, e)
  BY <1>2, <1>4, <1>5, <1>6, <1>7 DEF Queued, r
<1> QED
  BY <1>1, <1>2, <1>3, <1>8 DEF r, h, e

-------------------------------------------------------------------------------
(* The informer is well typed and consistent.                              *)
InformerInv ==
    /\ InformerTypeOK /\ IndexConsistent /\ FifoInv
    /\ firstRV \in 0..Len(log)

(* The part of its type invariant that is about the queue.                 *)
LEMMA QueueTypes ==
    ASSUME InformerInv
    PROVE  Queued(queue, deltas) /\ Len(queue) \in Nat /\ DOMAIN queue = 1..Len(queue)
<1>1. Len(queue) \in Nat /\ DOMAIN queue = 1..Len(queue)
  BY LenProperties DEF InformerInv, InformerTypeOK
<1> QED
  BY <1>1 DEF InformerInv, InformerTypeOK, FifoInv, Queued, Delta

(* Back from the queue's own invariant to the type invariant.              *)
LEMMA QueueTyped ==
    ASSUME Queued(queue', deltas')
    PROVE  /\ queue' \in Seq(Keys) /\ Len(queue') \in Nat
           /\ deltas' \in [Keys -> Seq(Objects \cup {Absent})]
           /\ \A k \in Keys : deltas'[k] # <<>> <=> \E i \in DOMAIN queue' : queue'[i] = k
           /\ \A i, j \in 1..Len(queue') : queue'[i] = queue'[j] => i = j
<1>1. queue' \in Seq(Keys)
  BY DEF Queued
<1>2. Len(queue') \in Nat /\ DOMAIN queue' = 1..Len(queue')
  BY <1>1, LenProperties
<1> QED
  BY <1>1, <1>2 DEF Queued, Delta

(* Starting the reflector, or nothing at all, keeps the informer's state.  *)
LEMMA QuietInformer ==
    ASSUME InformerInv, reflector' = reflector \/ reflector' = "list",
           UNCHANGED <<log, lastRV, expiries, fifoVars, popping, indexerVars, firstRV>>
    PROVE  InformerInv'
BY DEF InformerInv, InformerTypeOK, IndexerTypeOK, IndexConsistent, IndexValues, FifoInv,
       fifoVars, indexerVars, Entry, NotPopping

(* So does a write at the server.                                          *)
LEMMA LoggedInformer ==
    ASSUME InformerInv, NEW e \in Entry, log' = Append(log, e),
           UNCHANGED <<reflector, lastRV, expiries, fifoVars, popping, indexerVars, firstRV>>
    PROVE  InformerInv'
<1>1. log \in Seq(Entry) /\ Len(log) \in Nat
  BY LenProperties DEF InformerInv, InformerTypeOK
<1>2. log' \in Seq(Entry) /\ Len(log') = Len(log) + 1
  BY <1>1, AppendProperties
<1>3. lastRV' \in 0..Len(log') /\ firstRV' \in 0..Len(log')
  BY <1>1, <1>2 DEF InformerInv, InformerTypeOK
<1> QED
  BY <1>2, <1>3 DEF InformerInv, InformerTypeOK, IndexerTypeOK, IndexConsistent, IndexValues, FifoInv,
       fifoVars, indexerVars, Entry, NotPopping

(* The object of a key at a version is an object, or absent.               *)
LEMMA ObjectAtType ==
    ASSUME InformerInv, NEW k, NEW rv \in 0..Len(log)
    PROVE  ObjectAt(k, rv) \in Objects \cup {Absent} /\ ObjectAt(k, rv) = ObjectIn(log, k, rv)
<1>1. ObjectAt(k, rv) = ObjectIn(log, k, rv)
  BY DEF ObjectAt, ObjectIn
<1>2. log \in Seq(Entry) /\ Len(log) \in Nat
  BY LenProperties DEF InformerInv, InformerTypeOK
<1>3. \A p \in 1..rv : log[p] \in Entry
  BY <1>2, ElementOfSeq
<1> QED
  BY <1>1, <1>2, <1>3, LastWrite DEF Entry

WatchFirst == firstRV' = IF populated THEN firstRV ELSE lastRV'

(* A list: its keys join the queue once each, with their deltas.           *)
LEMMA ListTypes ==
    ASSUME InformerInv, ReflectorList, WatchFirst
    PROVE  InformerInv'
<1>1. PICK rv \in lastRV..Len(log) : Replace(rv) /\ lastRV' = rv
  BY DEF ReflectorList, ListFrom
<1>2. Len(log) \in Nat /\ lastRV \in 0..Len(log) /\ rv \in 0..Len(log) /\ lastRV <= rv
  BY LenProperties DEF InformerInv, InformerTypeOK
<1> DEFINE listed == {k \in Keys : ObjectAt(k, rv) # Absent}
           touched == listed \cup Vanished(listed)
           fresh == {k \in touched : deltas[k] = <<>>}
<1>3. touched \subseteq Keys /\ fresh \subseteq Keys /\ IsFiniteSet(touched) /\ IsFiniteSet(fresh)
  BY CachedListerAssumption, FS_Subset DEF Vanished
<1>4. PICK order \in SetToSeqs(fresh) : queue' = queue \o order
  BY <1>1 DEF Replace
<1>5. deltas' = [k \in Keys |-> IF k \in touched THEN AddDelta(deltas[k], ObjectAt(k, rv)) ELSE deltas[k]]
  BY <1>1 DEF Replace
<1>6. populated' = TRUE /\ initial' = IF populated THEN initial ELSE Cardinality(touched)
  BY <1>1 DEF Replace
<1>7. deltas \in [Keys -> Seq(Delta)]
  BY QueueTypes DEF Queued
<1> HIDE DEF touched, fresh
<1>8. /\ order \in Seq(fresh) /\ Len(order) = Cardinality(fresh) /\ Cardinality(fresh) \in Nat
      /\ \A i, j \in 1..Len(order) : order[i] = order[j] => i = j
      /\ \A x \in fresh : \E i \in 1..Len(order) : order[i] = x
  BY <1>3, OrderCovers
<1>9. order \in Seq(Keys) /\ \A i \in 1..Len(order) : order[i] \in fresh
  BY <1>3, <1>8, ElementOfSeq, SeqMonotonic
<1>10. ASSUME NEW k \in Keys
       PROVE  /\ deltas'[k] \in Seq(Delta)
              /\ deltas[k] # <<>> => deltas'[k] # <<>>
              /\ (deltas[k] = <<>> /\ deltas'[k] # <<>>) <=> k \in fresh
  BY <1>2, <1>5, <1>7, ObjectAtType, DeltaAdded DEF fresh, Delta
<1>11. deltas' \in [Keys -> Seq(Delta)]
  BY <1>5, <1>10
<1>12. Queued(queue', deltas') /\ Len(queue') = Len(queue) + Len(order)
  <2>1. \A k \in Keys : (deltas[k] = <<>> /\ deltas'[k] # <<>>) <=> \E i \in 1..Len(order) : order[i] = k
    BY <1>8, <1>9, <1>10
  <2>2. \A k \in Keys : deltas[k] # <<>> => deltas'[k] # <<>>
    BY <1>10
  <2>3. Queued(queue, deltas)
    BY QueueTypes
  <2>4. AddsKeys(deltas, deltas', order)
    BY <1>8, <1>9, <1>11, <2>1, <2>2 DEF AddsKeys
  <2>5. Queued(queue \o order, deltas') /\ Len(queue \o order) = Len(queue) + Len(order)
    BY <2>3, <2>4, QueueLonger
  <2> QED BY <1>4, <2>5
<1>13. initial' \in 0..Len(queue')
  <2>1. CASE populated
    BY <1>6, <1>8, <1>12, <2>1, QueueTypes DEF InformerInv, InformerTypeOK
  <2>2. CASE ~populated
    <3>1. touched = fresh
      BY <1>3, <2>2 DEF fresh, InformerInv, FifoInv
    <3> QED BY <1>6, <1>8, <1>12, <2>2, <3>1, QueueTypes
  <2> QED BY <2>1, <2>2
<1>14. InformerTypeOK'
  BY <1>1, <1>2, <1>6, <1>12, <1>13, QueueTyped
  DEF InformerInv, InformerTypeOK, IndexerTypeOK, ReflectorList, indexerVars, Entry
<1>15. FifoInv'
  <2>1. firstRV' <= lastRV'
    BY <1>1, <1>2 DEF WatchFirst, InformerInv, InformerTypeOK, FifoInv
  <2> QED BY <1>6, <1>12, <2>1, QueueTyped DEF InformerInv, FifoInv, ReflectorList, NotPopping
<1>16. firstRV' \in 0..Len(log')
  BY <1>1, <1>2 DEF WatchFirst, InformerInv, ReflectorList
<1> QED
  BY <1>14, <1>15, <1>16 DEF InformerInv, ReflectorList, indexerVars, IndexConsistent, IndexValues

(* A watch event: its key has one more delta, and is queued if it was not. *)
LEMMA WatchTypes ==
    ASSUME InformerInv, ReflectorWatch, WatchFirst
    PROVE  InformerInv'
<1> DEFINE k == log[lastRV + 1].key
           obj == log[lastRV + 1].obj
<1>1. /\ log \in Seq(Entry) /\ Len(log) \in Nat /\ lastRV \in 0..Len(log)
      /\ lastRV < Len(log) /\ lastRV + 1 \in 1..Len(log) /\ lastRV' = lastRV + 1
  BY LenProperties DEF InformerInv, InformerTypeOK, ReflectorWatch
<1>2. k \in Keys /\ obj \in Delta
  <2>1. log[lastRV + 1] \in Entry
    BY <1>1, ElementOfSeq
  <2> QED BY <2>1 DEF Entry, Delta
<1>3. /\ populated /\ populated' = populated /\ initial' = initial /\ popping' = popping
      /\ reflector' = reflector /\ log' = log /\ expiries' = expiries
      /\ items' = items /\ index' = index
  BY DEF ReflectorWatch, InformerInv, FifoInv, indexerVars
<1>4. \/ queue' = queue /\ deltas' = deltas
      \/ /\ deltas' = [deltas EXCEPT ![k] = AddDelta(@, obj)]
         /\ queue' = IF deltas[k] = <<>> THEN Append(queue, k) ELSE queue
  BY DEF ReflectorWatch
<1> HIDE DEF k, obj
<1>5. Queued(queue, deltas) /\ deltas \in [Keys -> Seq(Delta)] /\ Len(queue) \in Nat
  BY QueueTypes DEF Queued
<1>6. Queued(queue', deltas') /\ Len(queue') >= Len(queue)
  <2>1. CASE queue' = queue /\ deltas' = deltas
    BY <1>5, <2>1
  <2>2. CASE /\ deltas' = [deltas EXCEPT ![k] = AddDelta(@, obj)]
             /\ queue' = IF deltas[k] = <<>> THEN Append(queue, k) ELSE queue
    <3>1. /\ AddDelta(deltas[k], obj) \in Seq(Delta) /\ AddDelta(deltas[k], obj) # <<>>
          /\ deltas' = [deltas EXCEPT ![k] = AddDelta(deltas[k], obj)]
      BY <1>2, <1>5, <2>2, DeltaAdded
    <3>2. deltas' \in [Keys -> Seq(Delta)] /\ deltas'[k] # <<>> /\ \A j \in Keys : j # k => deltas'[j] = deltas[j]
      BY <1>2, <1>5, <3>1
    <3>3. CASE deltas[k] # <<>>
      BY <1>5, <2>2, <3>2, <3>3 DEF Queued
    <3>4. CASE deltas[k] = <<>>
      <4>1. <<k>> \in Seq(Keys) /\ Len(<<k>>) = 1 /\ <<k>>[1] = k
        BY <1>2
      <4>2. \A i \in 1..Len(<<k>>) : i = 1
        BY <4>1
      <4>3. AddsKeys(deltas, deltas', <<k>>)
        BY <3>2, <3>4, <4>1, <4>2 DEF AddsKeys
      <4>4. queue' = queue \o <<k>>
        BY <1>2, <1>5, <2>2, <3>4, AppendIsConcat DEF Queued
      <4>5. Queued(queue \o <<k>>, deltas') /\ Len(queue \o <<k>>) = Len(queue) + Len(<<k>>)
        BY <1>5, <4>3, QueueLonger
      <4> QED BY <1>5, <4>1, <4>4, <4>5
    <3> QED BY <3>3, <3>4
  <2> QED BY <1>4, <2>1, <2>2
<1>7. Len(queue') \in Nat
  BY <1>6, QueueTyped
<1>8. initial' \in 0..Len(queue') /\ lastRV' \in 0..Len(log')
  BY <1>1, <1>3, <1>5, <1>6, <1>7 DEF InformerInv, InformerTypeOK
<1>9. InformerTypeOK'
  BY <1>3, <1>6, <1>8, QueueTyped DEF InformerInv, InformerTypeOK, IndexerTypeOK, Entry
<1>10. FifoInv' /\ firstRV' \in 0..Len(log')
  BY <1>1, <1>3, <1>6, QueueTyped DEF InformerInv, FifoInv, WatchFirst, NotPopping
<1> QED
  BY <1>3, <1>9, <1>10 DEF InformerInv, IndexConsistent, IndexValues

(* An expired watch leaves everything but the reflector as it is.          *)
LEMMA ExpiryTypes ==
    ASSUME InformerInv, WatchExpires, WatchFirst
    PROVE  InformerInv'
<1>1. /\ reflector' = "list" /\ populated /\ firstRV' = firstRV
      /\ UNCHANGED <<log, lastRV, queue, deltas, populated, initial, popping, items, index>>
  BY DEF WatchExpires, InformerInv, FifoInv, WatchFirst, fifoVars, indexerVars
<1>2. expiries' \in 0..MaxExpiries
  BY InformerAssumption DEF InformerInv, InformerTypeOK, WatchExpires
<1> QED
  BY <1>1, <1>2 DEF InformerInv, InformerTypeOK, IndexerTypeOK, IndexConsistent, IndexValues,
                    FifoInv, Entry, NotPopping

(* Pop takes the first key and all its deltas.                             *)
LEMMA PopTypes ==
    ASSUME InformerInv, Pop, WatchFirst
    PROVE  InformerInv'
<1>1. Queued(queue, deltas) /\ Len(queue) \in Nat /\ queue # <<>>
  BY QueueTypes DEF Pop
<1>2. /\ Head(queue) \in Keys /\ deltas[Head(queue)] # <<>>
      /\ Queued(Tail(queue), [deltas EXCEPT ![Head(queue)] = <<>>])
      /\ Len(Tail(queue)) = Len(queue) - 1
  BY <1>1, QueueShorter
<1>3. Queued(queue', deltas') /\ Len(queue') = Len(queue) - 1
  BY <1>2 DEF Pop
<1>4. Len(queue') \in Nat
  BY <1>3, QueueTyped
<1>5. initial' \in 0..Len(queue')
  BY <1>1, <1>3, <1>4 DEF InformerInv, InformerTypeOK, Pop, InitialLeft
<1>6. /\ populated /\ firstRV' = firstRV
      /\ UNCHANGED <<log, reflector, lastRV, expiries, populated, items, index>>
  BY <1>1 DEF Pop, InformerInv, FifoInv, WatchFirst, indexerVars
<1>7. /\ popping' = [key |-> Head(queue), left |-> deltas[Head(queue)]]
      /\ deltas[Head(queue)] \in Seq(Objects \cup {Absent})
  BY <1>1, <1>2 DEF Pop, Queued, Delta
<1>8. /\ popping' \in [key : Keys \cup {Absent}, left : Seq(Objects \cup {Absent})]
      /\ popping'.left # <<>> /\ popping'.key \in Keys
  BY <1>2, <1>7
<1>9. InformerTypeOK'
  BY <1>3, <1>5, <1>6, <1>8, QueueTyped DEF InformerInv, InformerTypeOK, IndexerTypeOK, Entry
<1>10. FifoInv' /\ firstRV' \in 0..Len(log')
  BY <1>3, <1>6, <1>8, QueueTyped DEF InformerInv, FifoInv
<1> QED
  BY <1>6, <1>9, <1>10 DEF InformerInv, IndexConsistent, IndexValues

(* What HandleDelta does with the delta it handles.                        *)
LEMMA DeltaHandled ==
    ASSUME InformerInv, HandleDelta
    PROVE  LET k == popping.key  left == popping.left
           IN  /\ k \in Keys /\ left \in Seq(Delta) /\ left # <<>> /\ Head(left) \in Delta
               /\ Locked /\ populated
               /\ items' = [items EXCEPT ![k] = Head(left)]
               /\ popping' = IF Len(left) = 1 THEN NotPopping ELSE [key |-> k, left |-> Tail(left)]
               /\ Tail(left) \in Seq(Delta) /\ Len(Tail(left)) = Len(left) - 1
               /\ Len(left) \in Nat \ {0} /\ Len(left) # 1 => Tail(left) # <<>>
<1> DEFINE left == popping.left
<1>1. /\ Locked /\ left # <<>> /\ left \in Seq(Delta) /\ popping.key \in Keys
      /\ popping \in [key : Keys \cup {Absent}, left : Seq(Delta)]
  BY DEF HandleDelta, InformerInv, InformerTypeOK, FifoInv, Locked, Delta
<1>2. /\ Head(left) \in Delta /\ Tail(left) \in Seq(Delta) /\ Len(Tail(left)) = Len(left) - 1
      /\ Len(left) \in Nat \ {0} /\ Len(left) # 1 => Tail(left) # <<>>
  <2>1. Len(left) \in Nat \ {0} /\ Head(left) \in Delta /\ Tail(left) \in Seq(Delta) /\ Len(Tail(left)) = Len(left) - 1
    BY <1>1, HeadTailProperties, EmptySeq
  <2>2. Len(<<>>) = 0
    BY EmptySeq
  <2>3. Len(left) # 1 => Len(Tail(left)) # 0
    BY <2>1
  <2>4. Len(left) # 1 => Tail(left) # <<>>
    BY <2>2, <2>3
  <2> QED BY <2>1, <2>4
<1>3. items' = [items EXCEPT ![popping.key] = Head(left)]
  BY DEF HandleDelta, Delete, Update
<1>4. popping' = IF Len(left) = 1 THEN NotPopping ELSE [key |-> popping.key, left |-> Tail(left)]
  <2>1. [popping EXCEPT !.left = Tail(@)] = [key |-> popping.key, left |-> Tail(popping.left)]
    BY <1>1
  <2> QED BY <2>1 DEF HandleDelta
<1>5. populated
  BY <1>1 DEF InformerInv, FifoInv, Locked
<1> QED
  BY <1>1, <1>2, <1>3, <1>4, <1>5

(* HandleDelta writes one object to the store, which the index follows.    *)
LEMMA HandleTypes ==
    ASSUME InformerInv, HandleDelta, WatchFirst
    PROVE  InformerInv'
<1> DEFINE k == popping.key  left == popping.left
<1>1. /\ k \in Keys /\ left \in Seq(Delta) /\ left # <<>> /\ Head(left) \in Delta /\ populated
      /\ popping' = IF Len(left) = 1 THEN NotPopping ELSE [key |-> k, left |-> Tail(left)]
      /\ Tail(left) \in Seq(Delta) /\ Len(left) # 1 => Tail(left) # <<>>
  BY DeltaHandled
<1>2. IndexInv'
  <2>1. IndexInv
    BY DEF InformerInv, InformerTypeOK, IndexInv
  <2>2. CASE Head(left) = Absent
    BY <1>1, <2>1, <2>2, DeleteIndexed DEF HandleDelta
  <2>3. CASE Head(left) # Absent
    BY <1>1, <2>1, <2>3, UpdateIndexed DEF HandleDelta, Delta
  <2> QED BY <2>2, <2>3
<1>3. /\ firstRV' = firstRV
      /\ UNCHANGED <<log, reflector, lastRV, expiries, queue, deltas, populated, initial>>
  BY <1>1 DEF HandleDelta, WatchFirst, fifoVars
<1>4. /\ popping' \in [key : Keys \cup {Absent}, left : Seq(Delta)]
      /\ popping'.left # <<>> => popping'.key \in Keys
      /\ popping' = NotPopping \/ popping'.left # <<>>
  <2>1. <<>> \in Seq(Delta)
    BY EmptySeq
  <2> HIDE DEF k, left
  <2> QED BY <1>1, <2>1 DEF NotPopping
<1>5. InformerTypeOK'
  BY <1>2, <1>3, <1>4 DEF InformerInv, InformerTypeOK, IndexInv, Entry, Delta
<1>6. FifoInv' /\ firstRV' \in 0..Len(log')
  BY <1>1, <1>3, <1>4 DEF InformerInv, FifoInv
<1> QED
  BY <1>2, <1>5, <1>6 DEF InformerInv, IndexInv

(* No step of the informer breaks it (RunInformer).                        *)
LEMMA InformerKept ==
    ASSUME InformerInv, RunInformer
    PROVE  InformerInv'
<1>1. WatchFirst
  BY DEF RunInformer, WatchFirst
<1>2. ReflectorList \/ ReflectorWatch \/ WatchExpires \/ Pop \/ HandleDelta
  BY DEF RunInformer, InformerStep
<1> QED
  BY <1>1, <1>2, ListTypes, WatchTypes, ExpiryTypes, PopTypes, HandleTypes

-------------------------------------------------------------------------------
(* The queries are a list that is not empty, of index values.              *)
LEMMA QueryTypes ==
    /\ Len(Queries) \in Nat \ {0} /\ Len(Queries) <= Len(Namespaces) + Len(Labels)
    /\ Len(Namespaces) \in Nat /\ Len(Labels) \in Nat
    /\ \A i \in 1..Len(Queries) : Queries[i] \in Values
<1>1. /\ Namespaces \in Seq(STRING) /\ Len(Namespaces) \in Nat \ {0}
      /\ Labels \in Seq(STRING) /\ Len(Labels) \in Nat \ {0}
  BY CachedListerAssumption, EmptySeq
<1>2. DOMAIN Namespaces = 1..Len(Namespaces) /\ DOMAIN Labels = 1..Len(Labels)
  BY <1>1, LenProperties
<1>3. CASE program = "caching"
  <2>1. Queries = [i \in 1..Len(Namespaces) |-> <<"namespace", Namespaces[i]>>]
    BY <1>2, <1>3 DEF Queries
  <2>2. \A i \in 1..Len(Namespaces) : Queries[i] \in Values
    BY <1>2, <2>1, CachedListerAssumption
  <2>3. Queries \in Seq(Values) /\ Len(Queries) = Len(Namespaces)
    BY <1>1, <2>1, <2>2, SeqDef, LenProperties
  <2> QED BY <1>1, <2>2, <2>3
<1>4. CASE program # "caching"
  <2>1. Queries = [i \in 1..Len(Labels) |-> <<"field", PodsNS, Labels[i]>>]
    BY <1>2, <1>4 DEF Queries
  <2>2. \A i \in 1..Len(Labels) : Queries[i] \in Values
    BY <1>2, <2>1, CachedListerAssumption
  <2>3. Queries \in Seq(Values) /\ Len(Queries) = Len(Labels)
    BY <1>1, <2>1, <2>2, SeqDef, LenProperties
  <2> QED BY <1>1, <2>2, <2>3
<1> QED
  BY <1>3, <1>4

ListerInv == InformerInv /\ LogInv /\ ProgramInv

(* It has the type invariant and what it says of the index in it.          *)
LEMMA ListerTypes == ListerInv => TypeOK /\ IndexConsistent /\ FailsOnlyFromOutside
<1>1. ListerInv => at \in 1..(Len(Namespaces) + Len(Labels))
  BY QueryTypes DEF ListerInv, ProgramInv, ProgramTypeOK
<1> QED
  BY <1>1 DEF ListerInv, InformerInv, ProgramInv, ProgramTypeOK, TypeOK

(* Nothing has been logged but the object that exists beforehand.          *)
LEMMA InitLister == Init => ListerInv
<1> SUFFICES ASSUME Init PROVE ListerInv
  OBVIOUS
<1>1. PICK k \in Keys, cs \in Written :
          log = <<[key |-> k, obj |-> [key |-> k, rv |-> 1, containers |-> cs]]>>
  BY DEF Init
<1> DEFINE x == [key |-> k, rv |-> 1, containers |-> cs]
<1>2. MaxWrites \in Nat /\ MaxWrites >= 2 /\ x \in Objects
  <2>1. cs \in SUBSET Containers
    BY CachedListerAssumption DEF Written
  <2> QED BY <2>1, CachedListerAssumption, InformerAssumption
<1> HIDE DEF x
<1>3. /\ log = <<[key |-> k, obj |-> x]>> /\ x.key = k /\ x.rv = 1
      /\ log \in Seq(Entry) /\ Len(log) = 1 /\ log[1] = [key |-> k, obj |-> x]
  <2>1. log = <<[key |-> k, obj |-> x]>> /\ x.key = k /\ x.rv = 1
    BY <1>1 DEF x
  <2>2. [key |-> k, obj |-> x] \in Entry
    BY <1>2 DEF Entry
  <2> QED BY <2>1, <2>2
<1>4. LogInv
  BY <1>2, <1>3 DEF LogInv
<1>5. InformerInv
  <2>1. IndexerTypeOK /\ IndexConsistent
    BY DEF Init, InformerInit, IndexerInit, IndexerTypeOK, IndexConsistent, IndexValues
  <2>2. queue = <<>> /\ queue \in Seq(Keys) /\ Len(queue) = 0 /\ DOMAIN queue = {}
    BY EmptySeq DEF Init, InformerInit
  <2>3. deltas = [k0 \in Keys |-> <<>>] /\ deltas \in [Keys -> Seq(Objects \cup {Absent})]
    BY EmptySeq DEF Init, InformerInit
  <2>4. popping = NotPopping /\ popping.left = <<>>
        /\ popping \in [key : Keys \cup {Absent}, left : Seq(Objects \cup {Absent})]
    BY EmptySeq DEF Init, InformerInit, NotPopping
  <2>5. InformerTypeOK
    <3>1. \A k0 \in Keys : deltas[k0] # <<>> <=> \E i \in DOMAIN queue : queue[i] = k0
      BY <2>2, <2>3
    <3>2. lastRV \in 0..Len(log) /\ expiries \in 0..MaxExpiries /\ initial \in 0..Len(queue)
      BY <1>3, <2>2, InformerAssumption DEF Init, InformerInit
    <3> QED
      BY <1>3, <2>1, <2>2, <2>3, <2>4, <3>1, <3>2 DEF Init, InformerInit, InformerTypeOK
  <2> QED
    BY <1>3, <2>1, <2>2, <2>3, <2>4, <2>5 DEF InformerInv, FifoInv, Init, InformerInit
<1>6. ProgramInv
  <2>1. at \in 1..Len(Queries) /\ round \in 1..3
    BY QueryTypes DEF Init
  <2>2. shown \in [Keys -> 0..MaxWrites]
    BY InformerAssumption DEF Init
  <2> QED BY <2>1, <2>2 DEF Init, ProgramInv, ProgramTypeOK, FailsOnlyFromOutside
<1> QED
  BY <1>4, <1>5, <1>6 DEF ListerInv

(* The number of queries is that of the program, which does not change.    *)
LEMMA QueriesKept == program' = program => Queries' = Queries
BY DEF Queries

(* Each action of the programs keeps the three parts: until the cache has  *)
(* started there is no list to fail, ...                                   *)
LEMMA SetupKeeps ==
    ASSUME ListerInv, Setup
    PROVE  ListerInv'
<1>1. InformerInv'
  BY QuietInformer DEF Setup, ListerInv, informerVars, fifoVars
<1>2. LogInv'
  BY DEF Setup, ListerInv, LogInv, informerVars
<1>3. ProgramInv'
  BY QueriesKept DEF Setup, Exit, ListerInv, ProgramInv, ProgramTypeOK, FailsOnlyFromOutside, Ended
<1> QED
  BY <1>1, <1>2, <1>3 DEF ListerInv

(* ... the goroutine that starts it touches nothing else, ...              *)
LEMMA StartCacheKeeps ==
    ASSUME ListerInv, StartCache
    PROVE  ListerInv'
<1>1. InformerInv'
  BY QuietInformer DEF StartCache, ListerInv
<1>2. LogInv'
  BY DEF StartCache, ListerInv, LogInv, programVars
<1>3. ProgramInv'
  BY QueriesKept DEF StartCache, ListerInv, ProgramInv, ProgramTypeOK, FailsOnlyFromOutside, Ended, programVars
<1> QED
  BY <1>1, <1>2, <1>3 DEF ListerInv

(* ... main goes on to its listings once the cache has started, ...        *)
LEMMA WaitKeeps ==
    ASSUME ListerInv, WaitForCacheSync
    PROVE  ListerInv'
<1>1. InformerInv'
  BY QuietInformer DEF WaitForCacheSync, ListerInv, informerVars, fifoVars
<1>2. LogInv'
  BY DEF WaitForCacheSync, ListerInv, LogInv, informerVars
<1>3. ProgramInv'
  BY QueriesKept DEF WaitForCacheSync, ListerInv, ProgramInv, ProgramTypeOK, FailsOnlyFromOutside, Ended
<1> QED
  BY <1>1, <1>2, <1>3 DEF ListerInv

(* ... where the first List makes the informer, ...                        *)
LEMMA GetInformerKeeps ==
    ASSUME ListerInv, GetInformer
    PROVE  ListerInv'
<1>1. InformerInv'
  BY QuietInformer DEF GetInformer, ListerInv
<1>2. started /\ pc = "list"
  BY DEF GetInformer, ListerInv, ProgramInv
<1>3. LogInv'
  BY <1>2 DEF GetInformer, Exit, ListerInv, LogInv
<1>4. ProgramInv'
  <2>1. CASE informer' = TRUE /\ pc' = "listing" /\ UNCHANGED outside
    BY <1>2, <2>1, QueriesKept
    DEF GetInformer, ListerInv, ProgramInv, ProgramTypeOK, FailsOnlyFromOutside, Ended
  <2>2. CASE Exit(TRUE) /\ UNCHANGED <<informer, reflector>>
    BY <1>2, <2>2, QueriesKept
    DEF Exit, GetInformer, ListerInv, ProgramInv, ProgramTypeOK, FailsOnlyFromOutside, Ended
  <2>3. QED
    BY <1>2, <2>1, <2>2 DEF GetInformer
<1> QED
  BY <1>1, <1>3, <1>4 DEF ListerInv

(* ... and a second client leaves the cache alone, too.                    *)
LEMMA NewClientKeeps ==
    ASSUME ListerInv, NewClient
    PROVE  ListerInv'
<1>1. InformerInv'
  BY QuietInformer DEF NewClient, ListerInv, informerVars, fifoVars
<1>2. LogInv'
  BY DEF NewClient, Exit, ListerInv, LogInv, informerVars, ProgramInv, ProgramTypeOK
<1>3. ProgramInv'
  <2>1. /\ UNCHANGED <<program, at, result, indexed, shown, started, informer>>
        /\ Queries' = Queries /\ pc = "newClient"
    BY QueriesKept DEF NewClient
  <2>2. CASE pc' = "list" /\ round' = 2 /\ UNCHANGED outside
    BY <2>1, <2>2 DEF ListerInv, ProgramInv, ProgramTypeOK, FailsOnlyFromOutside, Ended
  <2>3. CASE Exit(TRUE) /\ UNCHANGED round
    BY <2>1, <2>3 DEF Exit, ListerInv, ProgramInv, ProgramTypeOK, FailsOnlyFromOutside, Ended
  <2> QED BY <2>2, <2>3 DEF NewClient
<1> QED
  BY <1>1, <1>2, <1>3 DEF ListerInv

(* The informer runs on its own.                                           *)
LEMMA RunInformerKeeps ==
    ASSUME ListerInv, RunInformer
    PROVE  ListerInv'
<1>1. InformerInv'
  BY InformerKept DEF ListerInv
<1>2. log' = log
  BY DEF RunInformer, InformerStep, ReflectorList, ReflectorWatch, WatchExpires, Pop, HandleDelta
<1>3. LogInv'
  BY <1>2 DEF RunInformer, ListerInv, LogInv, programVars
<1>4. ProgramInv'
  BY QueriesKept DEF RunInformer, ListerInv, ProgramInv, ProgramTypeOK, FailsOnlyFromOutside, Ended, programVars
<1> QED
  BY <1>1, <1>3, <1>4 DEF ListerInv

(* A write of an object with the next version keeps the log as it should   *)
(* be (Apply, OthersWrite).                                                *)
LEMMA WriteKeeps ==
    ASSUME ListerInv, NEW k \in Keys, NEW obj \in Delta, log' = Append(log, [key |-> k, obj |-> obj]),
           obj # Absent => obj.key = k /\ obj.rv = Len(log) + 1,
           UNCHANGED <<reflector, lastRV, expiries, fifoVars, popping, indexerVars, firstRV>>
    PROVE  /\ InformerInv' /\ Len(log') = Len(log) + 1 /\ Len(log) \in Nat
           /\ \A p \in 1..Len(log') : log'[p].obj # Absent =>
                 log'[p].obj.key = log'[p].key /\ log'[p].obj.rv = p
<1> DEFINE e == [key |-> k, obj |-> obj]
<1>1. e \in Entry
  BY DEF Entry, Delta
<1>2. log \in Seq(Entry) /\ Len(log) \in Nat
  BY LenProperties DEF ListerInv, InformerInv, InformerTypeOK
<1>3. /\ Len(log') = Len(log) + 1 /\ log'[Len(log) + 1] = e
      /\ \A p \in 1..Len(log) : log'[p] = log[p]
  BY <1>1, <1>2, AppendProperties
<1>4. InformerInv'
  BY <1>1, LoggedInformer DEF ListerInv
<1>5. ASSUME NEW p \in 1..Len(log'), log'[p].obj # Absent
      PROVE  log'[p].obj.key = log'[p].key /\ log'[p].obj.rv = p
  <2>1. p \in 1..Len(log) \/ p = Len(log) + 1
    BY <1>2, <1>3
  <2> QED BY <1>3, <1>5, <2>1 DEF ListerInv, LogInv
<1> QED
  BY <1>2, <1>3, <1>4, <1>5

(* Others leave the last write to Apply, until it has been made.           *)
LEMMA OthersWriteKeeps ==
    ASSUME ListerInv, OthersWrite
    PROVE  ListerInv'
<1>1. PICK k \in Keys, obj \in Delta :
          /\ log' = Append(log, [key |-> k, obj |-> obj])
          /\ obj # Absent => obj.key = k /\ obj.rv = Len(log) + 1
  <2>1. PICK k \in Keys : \/ Write(k, Absent)
                          \/ \E cs \in Written :
                                Write(k, [key |-> k, rv |-> Len(log) + 1, containers |-> cs])
    BY DEF OthersWrite
  <2>2. CASE Write(k, Absent)
    BY <2>2 DEF Write, Delta
  <2>3. CASE \E cs \in Written : Write(k, [key |-> k, rv |-> Len(log) + 1, containers |-> cs])
    <3>1. PICK cs \in Written : Write(k, [key |-> k, rv |-> Len(log) + 1, containers |-> cs])
      BY <2>3
    <3>2. cs \in SUBSET Containers
      BY CachedListerAssumption DEF Written
    <3>3. Len(log) + 1 \in 1..MaxWrites
      BY LenProperties, InformerAssumption DEF OthersWrite, ListerInv, InformerInv, InformerTypeOK
    <3>4. [key |-> k, rv |-> Len(log) + 1, containers |-> cs] \in Objects
      BY <3>2, <3>3, CachedListerAssumption
    <3> QED BY <3>1, <3>4 DEF Write, Delta
  <2> QED BY <2>1, <2>2, <2>3
<1>2. /\ UNCHANGED <<reflector, lastRV, expiries, fifoVars, popping, indexerVars, firstRV>>
      /\ UNCHANGED <<programVars, started, informer>> /\ Len(log) < MaxWrites - 1
  BY DEF OthersWrite
<1>3. /\ InformerInv' /\ Len(log') = Len(log) + 1 /\ Len(log) \in Nat
      /\ \A p \in 1..Len(log') : log'[p].obj # Absent =>
                 log'[p].obj.key = log'[p].key /\ log'[p].obj.rv = p
  BY <1>1, <1>2, WriteKeeps
<1>4. LogInv'
  BY <1>2, <1>3, InformerAssumption DEF LogInv
<1>5. ProgramInv'
  BY <1>2, QueriesKept DEF ListerInv, ProgramInv, ProgramTypeOK, FailsOnlyFromOutside, Ended, programVars
<1> QED
  BY <1>3, <1>4, <1>5 DEF ListerInv

(* Apply is the write that was left.                                       *)
LEMMA ApplyKeeps ==
    ASSUME ListerInv, Apply
    PROVE  ListerInv'
<1>1. /\ UNCHANGED <<program, round, at, result, indexed, shown, started, informer>>
      /\ UNCHANGED <<reflector, lastRV, expiries, fifoVars, popping, indexerVars, firstRV>>
      /\ pc = "apply" /\ program = "caching" /\ round = 1
  BY DEF Apply, ListerInv, ProgramInv
<1>2. \/ pc' = "newClient" /\ UNCHANGED outside
      \/ pc' = "exit" /\ outside' = TRUE
  BY DEF Apply, Exit
<1>3. ProgramInv'
  BY <1>1, <1>2, QueriesKept DEF ListerInv, ProgramInv, ProgramTypeOK, FailsOnlyFromOutside, Ended
<1>4. Len(log) < MaxWrites /\ Len(log) \in Nat
  BY <1>1, LenProperties DEF ListerInv, LogInv, InformerInv, InformerTypeOK
<1>5. CASE UNCHANGED log
  <2>1. InformerInv'
    BY <1>1, <1>5, QuietInformer DEF ListerInv
  <2>2. LogInv'
    BY <1>2, <1>5 DEF ListerInv, LogInv
  <2> QED BY <1>3, <2>1, <2>2 DEF ListerInv
<1>6. CASE WriteApp
  <2> DEFINE x == [key |-> TheApp, rv |-> Len(log) + 1, containers |-> {}]
  <2>1. x \in Delta /\ TheApp \in Keys
    BY <1>4, CachedListerAssumption, InformerAssumption DEF Delta
  <2>2. log' = Append(log, [key |-> TheApp, obj |-> x])
    BY <1>6 DEF WriteApp, Write
  <2>3. x.key = TheApp /\ x.rv = Len(log) + 1
    OBVIOUS
  <2> HIDE DEF x
  <2>4. /\ InformerInv' /\ Len(log') = Len(log) + 1
        /\ \A p \in 1..Len(log') : log'[p].obj # Absent =>
                 log'[p].obj.key = log'[p].key /\ log'[p].obj.rv = p
    BY <1>1, <2>1, <2>2, <2>3, WriteKeeps
  <2>5. LogInv'
    BY <1>2, <1>4, <2>4, InformerAssumption DEF LogInv
  <2> QED BY <1>3, <2>4, <2>5 DEF ListerInv
<1> QED
  BY <1>5, <1>6 DEF Apply

(* What a listing finds are stored objects.                                *)
LEMMA FoundTypes ==
    ASSUME ListerInv, NEW v \in Values
    PROVE  /\ ByIndex(v) \subseteq Objects
           /\ \A k \in index[v] : k \in Keys /\ items[k] \in Objects /\ v \in IndexFunc[items[k]]
<1>1. ASSUME NEW k \in index[v] PROVE k \in Keys /\ items[k] \in Objects /\ v \in IndexFunc[items[k]]
  BY DEF ListerInv, InformerInv, InformerTypeOK, IndexerTypeOK, IndexConsistent, IndexValues
<1> QED
  BY <1>1 DEF ByIndex

(* The version an object is shown at is that of the stored object.         *)
LEMMA ListKeeps ==
    ASSUME ListerInv, List
    PROVE  ListerInv'
<1>1. InformerInv'
  BY QuietInformer DEF List, ListerInv, informerVars, fifoVars
<1>2. /\ UNCHANGED <<program, indexed, informerVars, started, informer, firstRV>>
      /\ Queries' = Queries /\ pc = "listing" /\ log' = log /\ started
  BY QueriesKept DEF List, informerVars, ListerInv, ProgramInv
<1>3. CASE program = "processIndexing" /\ ~indexed
  <2>1. outside' = TRUE /\ pc' = "exit" /\ UNCHANGED <<round, at, result, shown>>
    BY <1>2, <1>3 DEF List, Exit, ListerInv, ProgramInv, ProgramTypeOK
  <2>2. ProgramInv'
    BY <1>2, <2>1 DEF ListerInv, ProgramInv, ProgramTypeOK, FailsOnlyFromOutside, Ended
  <2>3. LogInv'
    BY <1>2, <2>1 DEF ListerInv, LogInv
  <2> QED BY <1>1, <2>2, <2>3 DEF ListerInv
<1>4. CASE ~(program = "processIndexing" /\ ~indexed)
  <2>1. /\ result' = ByIndex(Queries[at])
        /\ shown' = [k \in Keys |-> IF \E o \in result' : o.key = k
                                    THEN (CHOOSE o \in result' : o.key = k).rv
                                    ELSE shown[k]]
        /\ NextQuery /\ UNCHANGED outside
    BY <1>4 DEF List
  <2>2. result' \subseteq Objects
    BY <2>1, FoundTypes, QueryTypes DEF ListerInv, ProgramInv, ProgramTypeOK
  <2>3. shown' \in [Keys -> 0..MaxWrites]
    <3>1. ASSUME NEW k \in Keys, \E o \in result' : o.key = k
          PROVE  (CHOOSE o \in result' : o.key = k).rv \in 0..MaxWrites
      <4>1. (CHOOSE o \in result' : o.key = k) \in Objects
        BY <2>2, <3>1
      <4> QED BY <4>1, CachedListerAssumption, InformerAssumption
    <3> QED BY <2>1, <3>1 DEF ListerInv, ProgramInv, ProgramTypeOK
  <2>4. at' \in 1..Len(Queries) /\ round' \in 1..3
    BY <2>1, QueryTypes DEF NextQuery, ListerInv, ProgramInv, ProgramTypeOK
  <2>5. /\ pc' \in {"list", "apply", "done"}
        /\ pc' = "apply" => program = "caching" /\ round' = 1
        /\ round' = 1 => round = 1
    BY <2>1 DEF NextQuery
  <2>6. ProgramInv'
    BY <1>2, <2>1, <2>2, <2>3, <2>4, <2>5
    DEF ListerInv, ProgramInv, ProgramTypeOK, FailsOnlyFromOutside, Ended
  <2>7. LogInv'
    BY <1>2, <2>5 DEF ListerInv, LogInv
  <2> QED BY <1>1, <2>6, <2>7 DEF ListerInv
<1> QED
  BY <1>3, <1>4

(* Every step keeps all of it.                                             *)
LEMMA ListerInductive == ListerInv /\ [Next]_vars => ListerInv'
<1> SUFFICES ASSUME ListerInv, [Next]_vars PROVE ListerInv'
  OBVIOUS
<1>1. CASE UNCHANGED vars
  <2>1. InformerInv'
    BY <1>1, QuietInformer DEF vars, informerVars, fifoVars, ListerInv
  <2>2. LogInv' /\ ProgramInv'
    BY <1>1, QueriesKept DEF vars, informerVars, programVars, ListerInv, LogInv, ProgramInv,
       ProgramTypeOK, FailsOnlyFromOutside, Ended
  <2> QED BY <2>1, <2>2 DEF ListerInv
<1>2. CASE Next
  BY <1>2, SetupKeeps, WaitKeeps, GetInformerKeeps, ListKeeps, ApplyKeeps, NewClientKeeps,
     StartCacheKeeps, RunInformerKeeps, OthersWriteKeeps DEF Next, Main
<1> QED
  BY <1>1, <1>2

(***************************************************************************)
(* The cache, its queue, and both programs at each of their calls keep     *)
(* their shape: with it, the counter of the first list never exceeds the   *)
(* queue (TypeOK of every Informer and CachedLister variable).             *)
(***************************************************************************)
THEOREM ListerTypeCorrect == Spec => []TypeOK
<1>1. ListerInv => TypeOK
  BY ListerTypes
<1> QED
  BY <1>1, InitLister, ListerInductive, PTL DEF Spec

(***************************************************************************)
(* The index the listings read agrees with the store, through expired      *)
(* watches, new lists and deletions (HandleDeltas, updateIndices).         *)
(***************************************************************************)
THEOREM ListerIndexAgrees == Spec => []IndexConsistent
<1>1. ListerInv => IndexConsistent
  BY ListerTypes
<1> QED
  BY <1>1, InitLister, ListerInductive, PTL DEF Spec

(***************************************************************************)
(* The programs fail only by a call to the outside (main, performListings).*)
(***************************************************************************)
THEOREM ListerFailsOnlyFromOutside == Spec => []FailsOnlyFromOutside
<1>1. ListerInv => FailsOnlyFromOutside
  BY ListerTypes
<1> QED
  BY <1>1, InitLister, ListerInductive, PTL DEF Spec

-------------------------------------------------------------------------------
(* What is on its way to the store for a key: the deltas being handled,    *)
(* then the queued ones.                                                   *)
Popped(k) == IF Locked /\ popping.key = k THEN popping.left ELSE <<>>

(* What is stored for a key, and after it what is on its way.              *)
Line(k) == <<items[k]>> \o (Popped(k) \o deltas[k])

(* An object of the key, written to the log l and no later than version v. *)
Seen(l, v, k, x) ==
    /\ x \in Objects /\ x.rv \in 1..v
    /\ l[x.rv] = [key |-> k, obj |-> x]

(* The key is as it was at version v, or it has been written since.        *)
UnwrittenIn(l, k, v) == \A p \in (v + 1)..Len(l) : l[p].key # k

After(l, k, v, x) == IF x = Absent THEN ~UnwrittenIn(l, k, v) ELSE x.rv >= v

(* Everything in the line has been seen by version v, and comes after what *)
(* is before it and after what has been shown at version s, if anything    *)
(* has; that has been seen, too.                                           *)
OrderedLine(l, v, k, s, line) ==
    /\ \A i \in 1..Len(line) : line[i] # Absent => Seen(l, v, k, line[i])
    /\ \A i, j \in 1..Len(line) : j < i /\ line[j] # Absent => After(l, k, line[j].rv, line[i])
    /\ s > 0 => /\ Seen(l, v, k, l[s].obj) /\ l[s].obj.rv = s
                /\ \A i \in 1..Len(line) : After(l, k, s, line[i])

MonotoneInv == \A k \in Keys : OrderedLine(log, lastRV, k, shown[k], Line(k))

(* What keeps a line in order: a longer log, ...                           *)
LEMMA OrderedLog ==
    ASSUME NEW l \in Seq(Entry), NEW v \in 0..Len(l), NEW k, NEW s \in Nat, NEW line,
           OrderedLine(l, v, k, s, line), NEW e \in Entry
    PROVE  OrderedLine(Append(l, e), v, k, s, line)
<1> DEFINE m == Append(l, e)
<1>1. Len(l) \in Nat /\ Len(m) = Len(l) + 1 /\ \A p \in 1..Len(l) : m[p] = l[p]
  BY LenProperties, AppendProperties
<1> HIDE DEF m
<1>2. \A x : Seen(l, v, k, x) => Seen(m, v, k, x)
  BY <1>1 DEF Seen
<1>3. ASSUME NEW r \in Nat, ~UnwrittenIn(l, k, r) PROVE ~UnwrittenIn(m, k, r)
  <2>1. PICK p \in (r + 1)..Len(l) : l[p].key = k
    BY <1>3 DEF UnwrittenIn
  <2>2. p \in (r + 1)..Len(m) /\ p \in 1..Len(l)
    BY <1>1
  <2> QED BY <1>1, <2>1, <2>2 DEF UnwrittenIn
<1>4. ASSUME NEW r \in Nat, NEW x, After(l, k, r, x) PROVE After(m, k, r, x)
  BY <1>3, <1>4 DEF After
<1>5. ASSUME NEW i \in 1..Len(line), NEW j \in 1..Len(line), j < i, line[j] # Absent
      PROVE  After(m, k, line[j].rv, line[i])
  <2>1. line[j].rv \in Nat
    <3>1. Seen(l, v, k, line[j])
      BY <1>5 DEF OrderedLine
    <3> QED BY <1>1, <3>1 DEF Seen
  <2> QED BY <1>4, <1>5, <2>1 DEF OrderedLine
<1>6. ASSUME s > 0
      PROVE  /\ Seen(m, v, k, m[s].obj) /\ m[s].obj.rv = s
             /\ \A i \in 1..Len(line) : After(m, k, s, line[i])
  <2>1. Seen(l, v, k, l[s].obj) /\ l[s].obj.rv = s /\ \A i \in 1..Len(line) : After(l, k, s, line[i])
    BY <1>6 DEF OrderedLine
  <2>2. s \in 1..Len(l)
    BY <1>1, <2>1 DEF Seen
  <2> QED BY <1>1, <1>2, <1>4, <2>1, <2>2
<1> QED
  BY <1>2, <1>5, <1>6 DEF OrderedLine, m

(* ... the end of its first element, ...                                   *)
LEMMA OrderedTail ==
    ASSUME NEW l, NEW v, NEW k, NEW s, NEW line \in Seq(Delta), line # <<>>,
           OrderedLine(l, v, k, s, line)
    PROVE  OrderedLine(l, v, k, s, Tail(line))
<1> DEFINE t == Tail(line)
<1>1. /\ Len(t) \in Nat /\ Len(line) = Len(t) + 1
      /\ \A i \in 1..Len(t) : t[i] = line[i + 1] /\ i + 1 \in 1..Len(line)
  BY HeadTailProperties, EmptySeq
<1> HIDE DEF t
<1>2. \A i, j \in 1..Len(t) : j < i => j + 1 < i + 1
  OBVIOUS
<1>3. \A i, j \in 1..Len(t) : j < i /\ t[j] # Absent => After(l, k, t[j].rv, t[i])
  BY <1>1, <1>2 DEF OrderedLine
<1>4. \A i \in 1..Len(t) : t[i] # Absent => Seen(l, v, k, t[i])
  BY <1>1 DEF OrderedLine
<1>5. s > 0 => /\ Seen(l, v, k, l[s].obj) /\ l[s].obj.rv = s
               /\ \A i \in 1..Len(t) : After(l, k, s, t[i])
  BY <1>1 DEF OrderedLine
<1> QED
  BY <1>3, <1>4, <1>5 DEF OrderedLine, t

(* ... its first element being shown, ...                                  *)
LEMMA OrderedShown ==
    ASSUME NEW l, NEW v, NEW k, NEW s, NEW line, Len(line) \in Nat \ {0},
           line[1] # Absent, OrderedLine(l, v, k, s, line)
    PROVE  OrderedLine(l, v, k, line[1].rv, line)
<1> DEFINE x == line[1]
<1>1. 1 \in 1..Len(line) /\ Seen(l, v, k, x) /\ x # Absent
  BY DEF OrderedLine
<1>2. l[x.rv].obj = x /\ x.rv \in Int
  BY <1>1 DEF Seen
<1>3. ASSUME NEW i \in 1..Len(line) PROVE After(l, k, x.rv, line[i])
  <2>1. CASE i = 1
    BY <1>1, <1>2, <2>1 DEF After
  <2>2. CASE i # 1
    <3>1. 1 < i
      BY <2>2
    <3> QED BY <1>1, <3>1 DEF OrderedLine
  <2> QED BY <2>1, <2>2
<1> QED
  BY <1>1, <1>2, <1>3 DEF OrderedLine

(* ... and the object at a version not older than v coming last.           *)
LEMMA OrderedNewest ==
    ASSUME NEW l \in Seq(Entry), NEW v \in 0..Len(l), NEW w \in v..Len(l), NEW k \in Keys, NEW s \in Nat,
           \A p \in 1..Len(l) : l[p].obj # Absent => l[p].obj.key = l[p].key /\ l[p].obj.rv = p,
           NEW line \in Seq(Delta), OrderedLine(l, v, k, s, line)
    PROVE  /\ ObjectIn(l, k, w) \in Delta
           /\ OrderedLine(l, w, k, s, line)
           /\ OrderedLine(l, w, k, s, Append(line, ObjectIn(l, k, w)))
<1> DEFINE x == ObjectIn(l, k, w)
           t == Append(line, x)
<1>1. Len(l) \in Nat /\ w \in Nat /\ w <= Len(l) /\ v <= w /\ Len(line) \in Nat
  BY LenProperties
<1>2. \/ (\A p \in 1..w : l[p].key # k) /\ x = Absent
      \/ \E p \in 1..w : l[p].key = k /\ x = l[p].obj /\ \A q \in (p + 1)..w : l[q].key # k
  BY <1>1, LastWrite
<1> HIDE DEF x
<1>3. \A y : Seen(l, v, k, y) => Seen(l, w, k, y)
  BY <1>1 DEF Seen
<1>4. x # Absent => Seen(l, w, k, x)
  <2> SUFFICES ASSUME x # Absent PROVE Seen(l, w, k, x)
    OBVIOUS
  <2>1. PICK p \in 1..w : l[p].key = k /\ x = l[p].obj
    BY <1>2
  <2>2. p \in 1..Len(l) /\ l[p] \in Entry
    BY <1>1, ElementOfSeq
  <2>3. x \in Objects /\ x.rv = p /\ l[p] = [key |-> k, obj |-> x]
    BY <2>1, <2>2 DEF Entry
  <2> QED BY <2>1, <2>3 DEF Seen
<1>5. x \in Delta
  BY <1>4 DEF Seen, Delta
<1>6. ASSUME NEW y, Seen(l, w, k, y) PROVE After(l, k, y.rv, x)
  <2>1. /\ y.rv \in 1..w /\ l[y.rv].key = k /\ l[y.rv].obj = y
        /\ y \in Objects /\ y # Absent
    BY <1>6, IndexerAssumption DEF Seen
  <2>2. PICK p \in 1..w : l[p].key = k /\ x = l[p].obj /\ \A q \in (p + 1)..w : l[q].key # k
    BY <1>2, <2>1
  <2>3. y.rv <= p
    BY <1>1, <2>1, <2>2
  <2>4. CASE x = Absent
    <3>1. y.rv # p
      BY <2>1, <2>2, <2>4
    <3>2. p \in (y.rv + 1)..Len(l)
      BY <1>1, <2>1, <2>3, <3>1
    <3> QED BY <2>2, <2>4, <3>2 DEF After, UnwrittenIn
  <2>5. CASE x # Absent
    <3>1. x.rv = p
      BY <1>1, <2>2, <2>5
    <3> QED BY <2>3, <2>5, <3>1 DEF After
  <2> QED BY <2>4, <2>5
<1>7. /\ Len(t) = Len(line) + 1 /\ t[Len(line) + 1] = x
      /\ \A i \in 1..Len(line) : t[i] = line[i]
  BY <1>5, AppendProperties
<1> HIDE DEF t
<1>8. \A i \in 1..Len(t) : i \in 1..Len(line) \/ i = Len(line) + 1
  BY <1>1, <1>7
<1>9. OrderedLine(l, w, k, s, line)
  BY <1>3 DEF OrderedLine
<1>10. \A i \in 1..Len(t) : t[i] # Absent => Seen(l, w, k, t[i])
  BY <1>4, <1>7, <1>8, <1>9 DEF OrderedLine
<1>11. ASSUME NEW i \in 1..Len(t), NEW j \in 1..Len(t), j < i, t[j] # Absent
       PROVE  After(l, k, t[j].rv, t[i])
  <2>1. CASE i \in 1..Len(line)
    <3>1. j \in 1..Len(line)
      BY <1>1, <1>7, <1>11, <2>1
    <3> QED BY <1>7, <1>9, <1>11, <2>1, <3>1 DEF OrderedLine
  <2>2. CASE i = Len(line) + 1
    BY <1>6, <1>7, <1>10, <1>11, <2>2
  <2> QED BY <1>8, <2>1, <2>2
<1>12. ASSUME s > 0
       PROVE  /\ Seen(l, w, k, l[s].obj) /\ l[s].obj.rv = s
              /\ \A i \in 1..Len(t) : After(l, k, s, t[i])
  <2>1. Seen(l, w, k, l[s].obj) /\ l[s].obj.rv = s /\ \A i \in 1..Len(line) : After(l, k, s, line[i])
    BY <1>9, <1>12 DEF OrderedLine
  <2>2. After(l, k, s, x)
    BY <1>6, <2>1
  <2> QED BY <1>7, <1>8, <2>1, <2>2
<1> QED
  BY <1>5, <1>9, <1>10, <1>11, <1>12 DEF OrderedLine, t, x

-------------------------------------------------------------------------------
(* A line: an element, then two sequences.                                 *)
LineOf(x, p, d) == <<x>> \o (p \o d)

IsLine(line, x, p, d) ==
    /\ line \in Seq(Delta) /\ line # <<>>
    /\ Len(line) = 1 + Len(p) + Len(d)
    /\ Len(p) \in Nat /\ Len(d) \in Nat
    /\ line[1] = x
    /\ \A i \in 1..Len(p) : line[1 + i] = p[i]
    /\ \A i \in 1..Len(d) : line[1 + Len(p) + i] = d[i]

(* The store, the deltas being handled and the queued ones, in this order. *)
LEMMA LineShape ==
    ASSUME NEW x \in Delta, NEW p \in Seq(Delta), NEW d \in Seq(Delta)
    PROVE  IsLine(LineOf(x, p, d), x, p, d)
<1>1. <<x>> \in Seq(Delta) /\ Len(<<x>>) = 1 /\ <<x>>[1] = x /\ Len(p) \in Nat /\ Len(d) \in Nat
  BY LenProperties
<1> DEFINE r == p \o d  f == <<x>>
<1>2. /\ r \in Seq(Delta) /\ Len(r) = Len(p) + Len(d)
      /\ \A i \in 1..Len(p) + Len(d) : r[i] = IF i <= Len(p) THEN p[i] ELSE d[i - Len(p)]
  BY ConcatProperties
<1> HIDE DEF r, f
<1> DEFINE line == f \o r
<1>3. /\ line \in Seq(Delta) /\ Len(line) = 1 + Len(r)
      /\ \A i \in 1..1 + Len(r) : line[i] = IF i <= 1 THEN f[i] ELSE r[i - 1]
  <2>1. f \in Seq(Delta) /\ Len(f) = 1 /\ Len(r) \in Nat
    BY <1>1, <1>2 DEF f
  <2>2. /\ line \in Seq(Delta) /\ Len(line) = Len(f) + Len(r)
        /\ \A i \in 1..Len(f) + Len(r) : line[i] = IF i <= Len(f) THEN f[i] ELSE r[i - Len(f)]
    <3>1. r \in Seq(Delta) /\ f \in Seq(Delta)
      BY <1>2, <2>1
    <3> QED BY ONLY <3>1, ConcatProperties DEF line
  <2> HIDE DEF line
  <2> QED BY <2>1, <2>2
<1> HIDE DEF line
<1>4. line[1] = x /\ Len(line) = 1 + Len(p) + Len(d) /\ line # <<>>
  BY <1>1, <1>2, <1>3, EmptySeq DEF f
<1>5. ASSUME NEW i \in 1..Len(p) PROVE line[1 + i] = p[i]
  <2>1. 1 + i \in 1..1 + Len(r) /\ ~(1 + i <= 1) /\ (1 + i) - 1 = i /\ i \in 1..Len(p) + Len(d) /\ i <= Len(p)
    BY <1>1, <1>2
  <2> QED BY <1>2, <1>3, <2>1
<1>6. ASSUME NEW i \in 1..Len(d) PROVE line[1 + Len(p) + i] = d[i]
  <2>1. /\ 1 + Len(p) + i \in 1..1 + Len(r) /\ ~(1 + Len(p) + i <= 1)
        /\ (1 + Len(p) + i) - 1 = Len(p) + i /\ Len(p) + i \in 1..Len(p) + Len(d)
        /\ ~(Len(p) + i <= Len(p)) /\ (Len(p) + i) - Len(p) = i
    BY <1>1, <1>2
  <2>2. line[1 + Len(p) + i] = r[Len(p) + i]
    BY <1>3, <2>1
  <2> QED BY <1>2, <2>1, <2>2
<1>7. line = LineOf(x, p, d)
  BY DEF LineOf, line, r, f
<1>8. IsLine(line, x, p, d)
  BY <1>1, <1>3, <1>4, <1>5, <1>6 DEF IsLine
<1> QED
  BY <1>7, <1>8

(* The line begins with what is stored, ...                                *)
LEMMA LineFirst ==
    ASSUME NEW line, NEW x, NEW p, NEW d, IsLine(line, x, p, d)
    PROVE  Len(line) \in Nat \ {0} /\ 1 \in 1..Len(line) /\ line[1] = x
BY DEF IsLine

(* ... and goes on with the delta to handle next.                          *)
LEMMA LineSecond ==
    ASSUME NEW line, NEW x, NEW p \in Seq(Delta), NEW d, IsLine(line, x, p, d), p # <<>>
    PROVE  2 \in 2..Len(line) /\ line[2] = Head(p)
<1>1. Len(p) \in Nat \ {0} /\ Head(p) = p[1]
  BY EmptySeq, HeadTailProperties
<1>2. Len(line) = 1 + Len(p) + Len(d) /\ Len(d) \in Nat /\ \A i \in 1..Len(p) : line[1 + i] = p[i]
  BY DEF IsLine
<1>3. 1 \in 1..Len(p) /\ 1 + 1 = 2 /\ 2 \in 2..Len(line)
  BY <1>1, <1>2
<1> QED
  BY <1>1, <1>2, <1>3

(* If all after the first are one object, they are when it is added.       *)
LEMMA LineSame ==
    ASSUME NEW line \in Seq(Delta), Len(line) \in Nat \ {0}, NEW o \in Delta,
           \A i \in 2..Len(line) : line[i] = o
    PROVE  \A i \in 2..Len(Append(line, o)) : Append(line, o)[i] = o
<1> DEFINE n == Len(line)  t == Append(line, o)
<1>1. Len(t) = n + 1 /\ t[n + 1] = o /\ \A i \in 1..n : t[i] = line[i]
  BY AppendProperties
<1>2. \A i \in 2..(n + 1) : i = n + 1 \/ (i \in 2..n /\ i \in 1..n)
  OBVIOUS
<1> HIDE DEF t
<1>3. \A i \in 2..Len(t) : t[i] = o
  BY <1>1, <1>2
<1> QED
  BY <1>3 DEF t

(* A delta queued comes last, ...                                          *)
LEMMA LineLonger ==
    ASSUME NEW x \in Delta, NEW p \in Seq(Delta), NEW d \in Seq(Delta), NEW y \in Delta
    PROVE  LineOf(x, p, Append(d, y)) = Append(LineOf(x, p, d), y)
<1>1. <<x>> \in Seq(Delta) /\ <<y>> \in Seq(Delta) /\ p \o d \in Seq(Delta) /\ d \o <<y>> \in Seq(Delta)
  BY ConcatProperties
<1>2. Append(d, y) = d \o <<y>>
  BY AppendIsConcat
<1>3. p \o (d \o <<y>>) = (p \o d) \o <<y>>
  BY <1>1, ConcatAssociative
<1>4. <<x>> \o ((p \o d) \o <<y>>) = (<<x>> \o (p \o d)) \o <<y>>
  BY <1>1, ConcatAssociative
<1>5. <<x>> \o (p \o d) \in Seq(Delta)
  BY <1>1, ConcatProperties
<1> QED
  BY <1>1, <1>2, <1>3, <1>4, <1>5, AppendIsConcat DEF LineOf

(* ... taking them from the queue leaves the line as it is, ...            *)
LEMMA LinePopped ==
    ASSUME NEW x \in Delta, NEW d \in Seq(Delta)
    PROVE  LineOf(x, d, <<>>) = LineOf(x, <<>>, d)
BY ConcatEmptySeq DEF LineOf

(* ... and storing the first one takes the stored object from it.          *)
LEMMA LineShorter ==
    ASSUME NEW x \in Delta, NEW p \in Seq(Delta), NEW d \in Seq(Delta), p # <<>>
    PROVE  LineOf(Head(p), Tail(p), d) = Tail(LineOf(x, p, d))
<1> DEFINE a == LineOf(Head(p), Tail(p), d)
           b == LineOf(x, p, d)
           c == Tail(b)
<1>1. /\ Head(p) \in Delta /\ Tail(p) \in Seq(Delta) /\ Len(Tail(p)) = Len(p) - 1
      /\ Head(p) = p[1] /\ \A i \in 1..Len(Tail(p)) : Tail(p)[i] = p[i + 1]
      /\ Len(p) \in Nat \ {0} /\ Len(d) \in Nat
  BY HeadTailProperties, EmptySeq, LenProperties
<1>2. IsLine(b, x, p, d)
  BY LineShape
<1>3. IsLine(a, Head(p), Tail(p), d)
  BY <1>1, LineShape
<1> HIDE DEF a, b
<1> USE DEF IsLine
<1>4. /\ c \in Seq(Delta) /\ Len(c) = Len(b) - 1
      /\ \A i \in 1..Len(c) : c[i] = b[i + 1]
  BY <1>2, HeadTailProperties
<1> HIDE DEF c
<1>5. Len(a) = Len(p) + Len(d) /\ Len(c) = Len(p) + Len(d)
  BY <1>1, <1>2, <1>3, <1>4
<1>6. ASSUME NEW i \in 1..Len(p) PROVE a[i] = p[i]
  <2>1. CASE i = 1
    BY <1>1, <1>3, <2>1
  <2>2. CASE i # 1
    <3>1. i - 1 \in 1..Len(Tail(p)) /\ 1 + (i - 1) = i /\ (i - 1) + 1 = i
      BY <1>1, <2>2
    <3> QED BY <1>1, <1>3, <3>1
  <2> QED BY <2>1, <2>2
<1>7. ASSUME NEW i \in 1..Len(a) PROVE a[i] = c[i]
  <2>1. i \in Int /\ i \in 1..Len(c) /\ c[i] = b[i + 1] /\ i + 1 = 1 + i
    BY <1>1, <1>4, <1>5
  <2>2. CASE i <= Len(p)
    <3>1. i \in 1..Len(p)
      BY <1>1, <1>5, <2>1, <2>2
    <3> QED BY <1>2, <1>6, <2>1, <3>1
  <2>3. CASE ~(i <= Len(p))
    <3> DEFINE j == i - Len(p)
    <3>1. j \in 1..Len(d) /\ 1 + Len(Tail(p)) + j = i /\ 1 + Len(p) + j = 1 + i
      BY <1>1, <1>5, <2>1, <2>3
    <3> HIDE DEF j
    <3>2. a[1 + Len(Tail(p)) + j] = d[j] /\ b[1 + Len(p) + j] = d[j]
      BY <1>2, <1>3, <3>1
    <3> QED BY <2>1, <3>1, <3>2
  <2> QED BY <2>2, <2>3
<1> QED
  BY <1>3, <1>4, <1>5, <1>7, SeqEqual DEF a, b, c

(* The line of a key is one.                                               *)
LEMMA LineTypes ==
    ASSUME InformerInv, NEW k \in Keys
    PROVE  /\ items[k] \in Delta /\ Popped(k) \in Seq(Delta) /\ deltas[k] \in Seq(Delta)
           /\ Line(k) = LineOf(items[k], Popped(k), deltas[k])
           /\ IsLine(Line(k), items[k], Popped(k), deltas[k])
<1>1. items[k] \in Delta /\ deltas[k] \in Seq(Delta)
  BY DEF InformerInv, InformerTypeOK, IndexerTypeOK, Delta
<1>2. Popped(k) \in Seq(Delta)
  BY EmptySeq DEF InformerInv, InformerTypeOK, Popped, Delta
<1>3. Line(k) = LineOf(items[k], Popped(k), deltas[k])
  BY DEF Line, LineOf
<1> QED
  BY <1>1, <1>2, <1>3, LineShape

(* What is on its way does not change by itself.                           *)
LEMMA LineKept ==
    ASSUME NEW k \in Keys, UNCHANGED <<items, popping, deltas>>
    PROVE  Line(k)' = Line(k) /\ Popped(k)' = Popped(k)
BY DEF Line, Popped, Locked, NotPopping

(* The reflector queues what the server has at the version it sees, if     *)
(* anything.                                                               *)
LEMMA ReflectedLine ==
    ASSUME InformerInv, ReflectorList \/ ReflectorWatch, NEW k \in Keys,
           ObjectIn(log, k, lastRV') \in Delta
    PROVE  /\ lastRV' \in lastRV..Len(log) /\ UNCHANGED <<log, items, popping>>
           /\ Popped(k)' = Popped(k)
           /\ \/ Line(k)' = Line(k)
              \/ Line(k)' = Append(Line(k), ObjectIn(log, k, lastRV'))
<1> DEFINE x == ObjectIn(log, k, lastRV')
<1>1. UNCHANGED <<log, items, popping>>
  BY DEF ReflectorList, ReflectorWatch, indexerVars
<1>2. lastRV \in 0..Len(log) /\ Len(log) \in Nat /\ lastRV' \in lastRV..Len(log)
  BY LenProperties DEF InformerInv, InformerTypeOK, ReflectorList, ReflectorWatch, ListFrom
<1>3. /\ items[k] \in Delta /\ Popped(k) \in Seq(Delta) /\ deltas[k] \in Seq(Delta)
      /\ Line(k) = LineOf(items[k], Popped(k), deltas[k])
  BY LineTypes
<1>4. deltas'[k] = deltas[k] \/ deltas'[k] = AddDelta(deltas[k], x)
  <2>1. CASE ReflectorList
    <3>1. PICK rv \in lastRV..Len(log) : Replace(rv) /\ lastRV' = rv
      BY <2>1 DEF ReflectorList, ListFrom
    <3>2. ObjectAt(k, rv) = x
      BY <3>1 DEF ObjectAt, ObjectIn
    <3> QED BY <3>1, <3>2 DEF Replace
  <2>2. CASE ReflectorWatch
    <3>1. CASE deltas' = [deltas EXCEPT ![k] = AddDelta(@, log[lastRV + 1].obj)]
               /\ log[lastRV + 1].key = k
      <4>1. lastRV' = lastRV + 1 /\ lastRV + 1 \in 1..(lastRV + 1)
        BY <1>2, <2>2 DEF ReflectorWatch
      <4>2. x = log[lastRV + 1].obj
        <5>1. \/ \A p \in 1..(lastRV + 1) : log[p].key # k
              \/ \E p \in 1..(lastRV + 1) :
                   /\ log[p].key = k /\ x = log[p].obj
                   /\ \A q \in (p + 1)..(lastRV + 1) : log[q].key # k
          BY <1>2, <4>1, LastWrite
        <5>2. PICK p \in 1..(lastRV + 1) : x = log[p].obj /\ \A q \in (p + 1)..(lastRV + 1) : log[q].key # k
          BY <3>1, <4>1, <5>1
        <5>3. p = lastRV + 1
          <6>1. lastRV + 1 \notin (p + 1)..(lastRV + 1)
            BY <3>1, <5>2
          <6> QED BY <1>2, <6>1
        <5> QED BY <5>2, <5>3
      <4> QED BY <3>1, <4>2 DEF InformerInv, InformerTypeOK
    <3>2. CASE deltas'[k] = deltas[k]
      BY <3>2
    <3>3. \/ deltas' = deltas
          \/ \E j : deltas' = [deltas EXCEPT ![j] = AddDelta(@, log[lastRV + 1].obj)]
                    /\ log[lastRV + 1].key = j
      BY <2>2 DEF ReflectorWatch
    <3> QED BY <3>1, <3>2, <3>3 DEF InformerInv, InformerTypeOK
  <2> QED BY <2>1, <2>2
<1>5. deltas'[k] = deltas[k] \/ deltas'[k] = Append(deltas[k], x)
  BY <1>3, <1>4, DeltaAdded
<1>6. Popped(k)' = Popped(k)
  BY <1>1 DEF Popped, Locked, NotPopping
<1>7. Line(k)' = LineOf(items'[k], Popped(k)', deltas'[k])
  BY DEF Line, LineOf
<1>8. x \in Delta
  OBVIOUS
<1> HIDE DEF x
<1>9. LineOf(items[k], Popped(k), Append(deltas[k], x)) = Append(LineOf(items[k], Popped(k), deltas[k]), x)
  BY <1>3, <1>8, LineLonger
<1>10. Line(k)' = Line(k) \/ Line(k)' = Append(Line(k), x)
  BY <1>1, <1>3, <1>5, <1>6, <1>7, <1>9
<1> QED
  BY <1>1, <1>2, <1>6, <1>10 DEF x

(* Pop leaves every line as it is, ...                                     *)
LEMMA PoppedLine ==
    ASSUME InformerInv, Pop, NEW k \in Keys
    PROVE  /\ Line(k)' = Line(k) /\ populated
           /\ Head(queue) = k => Popped(k)' # <<>>
           /\ Popped(k) = <<>>
<1>1. /\ Head(queue) \in Keys /\ deltas[Head(queue)] # <<>> /\ queue # <<>> /\ populated
  BY QueueTypes, QueueShorter DEF Pop, InformerInv, FifoInv
<1>2. /\ items[k] \in Delta /\ Popped(k) \in Seq(Delta) /\ deltas[k] \in Seq(Delta)
      /\ Line(k) = LineOf(items[k], Popped(k), deltas[k])
  BY LineTypes
<1>3. Popped(k) = <<>> /\ items' = items
  BY DEF Pop, Popped, indexerVars
<1>4. Line(k)' = LineOf(items'[k], Popped(k)', deltas'[k])
  BY DEF Line, LineOf
<1>5. popping' = [key |-> Head(queue), left |-> deltas[Head(queue)]] /\ popping'.left # <<>>
  BY <1>1 DEF Pop
<1>6. popping' # NotPopping
  BY <1>5 DEF NotPopping
<1>7. CASE Head(queue) = k
  <2>1. Popped(k)' = deltas[k] /\ deltas'[k] = <<>>
    BY <1>5, <1>6, <1>7 DEF Popped, Locked, Pop, InformerInv, InformerTypeOK, NotPopping
  <2> QED BY <1>1, <1>2, <1>3, <1>4, <1>7, <2>1, LinePopped
<1>8. CASE Head(queue) # k
  <2>1. Popped(k)' = <<>> /\ deltas'[k] = deltas[k]
    BY <1>5, <1>6, <1>8 DEF Popped, Locked, Pop, InformerInv, InformerTypeOK, NotPopping
  <2> QED BY <1>1, <1>2, <1>3, <1>4, <1>8, <2>1
<1> QED
  BY <1>7, <1>8

(* ... and HandleDelta moves that of its key by one.                       *)
LEMMA HandledLine ==
    ASSUME InformerInv, HandleDelta, NEW k \in Keys
    PROVE  /\ k = popping.key => Line(k)' = Tail(Line(k)) /\ Line(k) # <<>> /\ Popped(k) # <<>>
           /\ k # popping.key => Line(k)' = Line(k) /\ Popped(k) = <<>> /\ items'[k] = items[k]
           /\ populated
<1>1. /\ items[k] \in Delta /\ Popped(k) \in Seq(Delta) /\ deltas[k] \in Seq(Delta)
      /\ Line(k) = LineOf(items[k], Popped(k), deltas[k])
      /\ IsLine(Line(k), items[k], Popped(k), deltas[k])
  BY LineTypes
<1>2. Line(k)' = LineOf(items'[k], Popped(k)', deltas'[k]) /\ deltas' = deltas
  BY DEF Line, LineOf, HandleDelta, fifoVars
<1> DEFINE left == popping.left
<1>3. /\ left \in Seq(Delta) /\ left # <<>> /\ Locked /\ populated
      /\ items' = [items EXCEPT ![popping.key] = Head(left)]
      /\ popping' = IF Len(left) = 1 THEN NotPopping ELSE [key |-> popping.key, left |-> Tail(left)]
      /\ Tail(left) \in Seq(Delta) /\ Len(Tail(left)) = Len(left) - 1
      /\ Len(left) # 1 => Tail(left) # <<>>
  BY DeltaHandled
<1>4. items \in [Keys -> Objects \cup {Absent}]
  BY DEF InformerInv, InformerTypeOK, IndexerTypeOK
<1>5. CASE k = popping.key
  <2>1. Popped(k) = left
    BY <1>3, <1>5 DEF Popped
  <2>2. Popped(k)' = Tail(left)
    <3>1. CASE Len(left) = 1
      <4>1. Tail(left) = <<>>
        <5>1. Tail(left) \in Seq(Delta) /\ Len(Tail(left)) = 0
          BY <1>3, <3>1
        <5> HIDE DEF left
        <5> QED BY <5>1, EmptySeq
      <4>2. ~Locked'
        BY <1>3, <3>1 DEF Locked, NotPopping
      <4> QED BY <4>1, <4>2 DEF Popped
    <3>2. CASE Len(left) # 1
      <4>1. popping' = [key |-> k, left |-> Tail(left)] /\ popping'.left # <<>>
        BY <1>3, <1>5, <3>2
      <4>2. popping' # NotPopping
        BY <4>1 DEF NotPopping
      <4>3. Locked'
        BY <4>2 DEF Locked, NotPopping
      <4> QED BY <4>1, <4>3 DEF Popped
    <3> QED BY <3>1, <3>2
  <2>3. items'[k] = Head(left)
    BY <1>3, <1>4, <1>5
  <2>4. LineOf(Head(left), Tail(left), deltas[k]) = Tail(LineOf(items[k], left, deltas[k]))
    BY <1>1, <1>3, LineShorter
  <2> QED BY <1>1, <1>2, <1>3, <1>5, <2>1, <2>2, <2>3, <2>4 DEF IsLine
<1>6. CASE k # popping.key
  <2>1. Popped(k) = <<>> /\ Popped(k)' = <<>>
    BY <1>3, <1>6 DEF Popped, Locked, NotPopping
  <2>2. items'[k] = items[k]
    BY <1>3, <1>4, <1>6
  <2> QED BY <1>1, <1>2, <1>3, <1>6, <2>1, <2>2
<1> QED
  BY <1>5, <1>6

(* At first nothing is stored, on its way or shown.                        *)
LEMMA InitLine ==
    ASSUME Init, NEW k \in Keys
    PROVE  Line(k) = <<Absent>> /\ Popped(k) = <<>>
<1>1. items[k] = Absent /\ Popped(k) = <<>> /\ deltas[k] = <<>>
  BY DEF Init, InformerInit, IndexerInit, Popped, Locked
<1>2. <<>> \o <<>> = <<>> /\ <<Absent>> \o <<>> = <<Absent>>
  BY ConcatEmptySeq
<1> QED
  BY <1>1, <1>2 DEF Line

(* At first a key has nothing but what is stored, which is nothing.        *)
LEMMA InitMonotone == Init => MonotoneInv
<1> SUFFICES ASSUME Init, NEW k \in Keys PROVE OrderedLine(log, lastRV, k, shown[k], Line(k))
  BY DEF MonotoneInv
<1>1. Line(k) = <<Absent>> /\ shown[k] = 0
  BY InitLine DEF Init
<1>2. Len(<<Absent>>) = 1 /\ <<Absent>>[1] = Absent
  OBVIOUS
<1>3. \A i \in 1..Len(Line(k)) : Line(k)[i] = Absent
  BY <1>1, <1>2
<1> QED
  BY <1>1, <1>3 DEF OrderedLine

(* The steps of the program that show nothing, and those of others.        *)
LEMMA WriteMonotone ==
    ASSUME ListerInv, MonotoneInv, UNCHANGED <<lastRV, items, popping, deltas, shown>>,
           log' = log \/ \E e \in Entry : log' = Append(log, e)
    PROVE  MonotoneInv'
<1> SUFFICES ASSUME NEW k \in Keys PROVE OrderedLine(log', lastRV', k, shown'[k], Line(k)')
  BY DEF MonotoneInv
<1>1. Line(k)' = Line(k)
  BY LineKept
<1>2. OrderedLine(log, lastRV, k, shown[k], Line(k))
  BY DEF MonotoneInv
<1>3. CASE log' = log
  BY <1>1, <1>2, <1>3
<1>4. ASSUME NEW e \in Entry, log' = Append(log, e)
      PROVE  OrderedLine(log', lastRV', k, shown'[k], Line(k)')
  <2>1. log \in Seq(Entry) /\ lastRV \in 0..Len(log)
    BY DEF ListerInv, InformerInv, InformerTypeOK
  <2>2. shown[k] \in Nat
    BY InformerAssumption DEF ListerInv, ProgramInv, ProgramTypeOK
  <2>3. OrderedLine(Append(log, e), lastRV, k, shown[k], Line(k))
    BY <1>2, <2>1, <2>2, OrderedLog
  <2> QED BY <1>1, <1>4, <2>3
<1> QED
  BY <1>3, <1>4

(* The steps of the informer.                                              *)
LEMMA InformerMonotone ==
    ASSUME ListerInv, MonotoneInv, RunInformer
    PROVE  MonotoneInv'
<1> SUFFICES ASSUME NEW k \in Keys PROVE OrderedLine(log', lastRV', k, shown'[k], Line(k)')
  BY DEF MonotoneInv
<1>1. OrderedLine(log, lastRV, k, shown[k], Line(k))
  BY DEF MonotoneInv
<1>2. InformerInv /\ shown' = shown
  BY DEF ListerInv, RunInformer, programVars
<1>3. CASE ReflectorList \/ ReflectorWatch
  <2>1. log \in Seq(Entry) /\ lastRV \in 0..Len(log) /\ Len(log) \in Nat /\ lastRV' \in lastRV..Len(log)
    BY <1>2, <1>3, LenProperties DEF InformerInv, InformerTypeOK, ReflectorList, ReflectorWatch, ListFrom
  <2>2. shown[k] \in Nat
    BY InformerAssumption DEF ListerInv, ProgramInv, ProgramTypeOK
  <2>3. Line(k) \in Seq(Delta)
    BY <1>2, LineTypes DEF IsLine
  <2>4. \A p \in 1..Len(log) : log[p].obj # Absent => log[p].obj.key = log[p].key /\ log[p].obj.rv = p
    BY DEF ListerInv, LogInv
  <2>5. /\ ObjectIn(log, k, lastRV') \in Delta
        /\ OrderedLine(log, lastRV', k, shown[k], Line(k))
        /\ OrderedLine(log, lastRV', k, shown[k], Append(Line(k), ObjectIn(log, k, lastRV')))
    BY <1>1, <2>1, <2>2, <2>3, <2>4, OrderedNewest
  <2>6. log' = log /\ (Line(k)' = Line(k) \/ Line(k)' = Append(Line(k), ObjectIn(log, k, lastRV')))
    BY <1>2, <1>3, <2>5, ReflectedLine
  <2> QED BY <1>2, <2>5, <2>6
<1>4. CASE WatchExpires
  BY <1>1, <1>2, <1>4, LineKept DEF WatchExpires, indexerVars, fifoVars
<1>5. CASE Pop
  BY <1>1, <1>2, <1>5, PoppedLine DEF Pop
<1>6. CASE HandleDelta
  <2>1. log' = log /\ lastRV' = lastRV
    BY <1>6 DEF HandleDelta
  <2>2. CASE k = popping.key
    <3>1. Line(k)' = Tail(Line(k)) /\ Line(k) # <<>> /\ Line(k) \in Seq(Delta)
      BY <1>2, <1>6, <2>2, HandledLine, LineTypes DEF IsLine
    <3>2. OrderedLine(log, lastRV, k, shown[k], Tail(Line(k)))
      BY <1>1, <3>1, OrderedTail
    <3> QED BY <1>2, <2>1, <3>1, <3>2
  <2>3. CASE k # popping.key
    BY <1>1, <1>2, <1>6, <2>1, <2>3, HandledLine
  <2> QED BY <2>2, <2>3
<1> QED
  BY <1>3, <1>4, <1>5, <1>6 DEF RunInformer, InformerStep

(* What List finds and shows of each key is what is stored.                *)
LEMMA ListShows ==
    ASSUME ListerInv, MonotoneInv, List, pc' # "exit", NEW k \in Keys
    PROVE  /\ Queries[at] \in Values /\ HasSynced
           /\ k \in index[Queries[at]] <=> Queries[at] \in IndexValues(items[k])
           /\ k \in index[Queries[at]] =>
                 /\ items[k] \in result' /\ items[k] # Absent /\ items[k].key = k
                 /\ \A o \in result' : o.key = k => o = items[k]
                 /\ shown'[k] = items[k].rv
           /\ k \notin index[Queries[at]] =>
                 /\ \A o \in result' : o.key # k
                 /\ shown'[k] = shown[k]
<1>1. Queries[at] \in Values
  BY QueryTypes DEF ListerInv, ProgramInv, ProgramTypeOK
<1>2. /\ result' = ByIndex(Queries[at]) /\ HasSynced
      /\ shown' = [j \in Keys |-> IF \E o \in result' : o.key = j
                                  THEN (CHOOSE o \in result' : o.key = j).rv
                                  ELSE shown[j]]
  BY DEF List, Exit
<1>3. \A j \in index[Queries[at]] : j \in Keys /\ items[j] \in Objects
  BY <1>1, FoundTypes
<1>4. k \in index[Queries[at]] <=> Queries[at] \in IndexValues(items[k])
  BY <1>1 DEF ListerInv, InformerInv, IndexConsistent
<1>5. ASSUME NEW j \in Keys, items[j] \in Objects PROVE items[j].key = j
  <2>1. OrderedLine(log, lastRV, j, shown[j], Line(j)) /\ items[j] # Absent
    BY <1>5, IndexerAssumption DEF MonotoneInv
  <2>2. IsLine(Line(j), items[j], Popped(j), deltas[j])
    BY LineTypes DEF ListerInv
  <2>3. 1 \in 1..Len(Line(j)) /\ Line(j)[1] = items[j]
    BY <2>2, LineFirst
  <2>4. Seen(log, lastRV, j, items[j])
    BY <2>1, <2>3 DEF OrderedLine
  <2>5. items[j].rv \in 1..Len(log)
    BY <2>4, LenProperties DEF Seen, ListerInv, InformerInv, InformerTypeOK
  <2> QED BY <2>1, <2>4, <2>5 DEF Seen, ListerInv, LogInv
<1>6. \A o \in result' : \E j \in index[Queries[at]] : o = items[j] /\ o.key = j
  BY <1>2, <1>3, <1>5 DEF ByIndex
<1>7. CASE k \in index[Queries[at]]
  <2>1. items[k] \in result' /\ items[k] # Absent /\ items[k].key = k
    BY <1>2, <1>3, <1>5, <1>7, IndexerAssumption DEF ByIndex
  <2>2. \A o \in result' : o.key = k => o = items[k]
    BY <1>6
  <2>3. (CHOOSE o \in result' : o.key = k) = items[k]
    BY <2>1, <2>2
  <2>4. shown'[k] = items[k].rv
    BY <1>2, <2>1, <2>3
  <2> QED BY <1>1, <1>2, <1>4, <1>7, <2>1, <2>2, <2>4
<1>8. CASE k \notin index[Queries[at]]
  <2>1. \A o \in result' : o.key # k
    BY <1>6, <1>8
  <2> QED BY <1>1, <1>2, <1>4, <1>8, <2>1
<1> QED
  BY <1>7, <1>8

(* A listing shows what is stored, the first of the line.                  *)
LEMMA ListMonotone ==
    ASSUME ListerInv, MonotoneInv, List
    PROVE  MonotoneInv'
<1> SUFFICES ASSUME NEW k \in Keys PROVE OrderedLine(log', lastRV', k, shown'[k], Line(k)')
  BY DEF MonotoneInv
<1>1. OrderedLine(log, lastRV, k, shown[k], Line(k))
  BY DEF MonotoneInv
<1>2. Line(k)' = Line(k) /\ log' = log /\ lastRV' = lastRV
  BY LineKept DEF List, informerVars, indexerVars, fifoVars
<1>3. CASE shown'[k] = shown[k]
  BY <1>1, <1>2, <1>3
<1>4. CASE shown'[k] # shown[k]
  <2>1. pc' # "exit"
    BY <1>4 DEF List, Exit, NextQuery
  <2>2. items[k] # Absent /\ shown'[k] = items[k].rv
    BY <1>4, <2>1, ListShows
  <2>3. IsLine(Line(k), items[k], Popped(k), deltas[k])
    BY LineTypes DEF ListerInv
  <2>4. Len(Line(k)) \in Nat \ {0} /\ Line(k)[1] = items[k]
    BY <2>3, LineFirst
  <2>5. OrderedLine(log, lastRV, k, items[k].rv, Line(k))
    BY <1>1, <2>2, <2>4, OrderedShown
  <2> QED BY <1>2, <2>2, <2>5
<1> QED
  BY <1>3, <1>4

(* Every step keeps all lines in order.                                    *)
LEMMA MonotoneInductive == ListerInv /\ MonotoneInv /\ [Next]_vars => MonotoneInv'
<1> SUFFICES ASSUME ListerInv, MonotoneInv, [Next]_vars PROVE MonotoneInv'
  OBVIOUS
<1>1. CASE RunInformer
  BY <1>1, InformerMonotone
<1>2. CASE List
  BY <1>2, ListMonotone
<1>3. CASE OthersWrite \/ Apply
  <2>1. UNCHANGED <<lastRV, items, popping, deltas, shown>>
    BY <1>3 DEF OthersWrite, Apply, programVars, indexerVars, fifoVars
  <2>2. InformerInv' /\ (log' = log \/ \E e : log' = Append(log, e))
    BY <1>3, ListerInductive DEF ListerInv, OthersWrite, Apply, Write, WriteApp, Next, Main
  <2>3. log' = log \/ \E e \in Entry : log' = Append(log, e)
    <3> SUFFICES ASSUME NEW e, log' = Append(log, e) PROVE e \in Entry
      BY <2>2
    <3>1. log \in Seq(Entry) /\ log' \in Seq(Entry)
      BY <2>2 DEF ListerInv, InformerInv, InformerTypeOK, Entry
    <3>2. Len(log') = Len(log) + 1 /\ log'[Len(log) + 1] = e /\ Len(log) \in Nat
      BY <3>1, LenProperties
    <3>3. Len(log) + 1 \in 1..Len(log')
      BY <3>2
    <3> QED BY <3>1, <3>2, <3>3, ElementOfSeq
  <2> QED BY <2>1, <2>3, WriteMonotone
<1>4. CASE Setup \/ WaitForCacheSync \/ GetInformer \/ NewClient \/ StartCache \/ UNCHANGED vars
  <2>1. UNCHANGED <<log, lastRV, items, popping, deltas, shown>>
    BY <1>4 DEF Setup, WaitForCacheSync, GetInformer, NewClient, StartCache, vars, informerVars,
       programVars, indexerVars, fifoVars
  <2> QED BY <2>1, WriteMonotone
<1> QED
  BY <1>1, <1>2, <1>3, <1>4 DEF Next, Main

(***************************************************************************)
(* No listing goes back in time, for any number of objects, writes and     *)
(* expired watches: what is shown is not older than what was shown before, *)
(* and what is missing from a query it answered has been written since     *)
(* (ListAndWatch, DeltaFIFO, HandleDeltas, ByIndex).                       *)
(***************************************************************************)
THEOREM ListingsNeverGoBack == Spec => ListingsMonotone
<1> DEFINE Shows(k) ==
      \/ \E o \in result' : o.key = k /\ o.rv >= shown[k]
      \/ /\ \A o \in result' : o.key # k
         /\ Queries[at] \in IndexFunc[log[shown[k]].obj] => ~Unwritten(k, shown[k])
<1>1. ASSUME ListerInv, MonotoneInv, [Next]_vars, Lists, NEW k \in Keys, shown[k] > 0
      PROVE  Shows(k)
  <2>1. List /\ pc' # "exit"
    BY <1>1 DEF Lists, Next, Main, vars, programVars, Setup, WaitForCacheSync, GetInformer, Apply,
       NewClient, StartCache, RunInformer, OthersWrite, Ended
  <2>2. /\ Queries[at] \in Values
        /\ k \in index[Queries[at]] <=> Queries[at] \in IndexValues(items[k])
        /\ k \in index[Queries[at]] =>
              items[k] \in result' /\ items[k] # Absent /\ items[k].key = k
        /\ k \notin index[Queries[at]] => \A o \in result' : o.key # k
    BY <1>1, <2>1, ListShows
  <2>3. IsLine(Line(k), items[k], Popped(k), deltas[k]) /\ items[k] \in Delta
    BY <1>1, LineTypes DEF ListerInv
  <2>4. 1 \in 1..Len(Line(k)) /\ Line(k)[1] = items[k]
    BY <2>3, LineFirst
  <2>5. OrderedLine(log, lastRV, k, shown[k], Line(k))
    BY <1>1 DEF MonotoneInv
  <2>6. /\ items[k] # Absent => Seen(log, lastRV, k, items[k])
        /\ Seen(log, lastRV, k, log[shown[k]].obj) /\ log[shown[k]].obj.rv = shown[k]
        /\ After(log, k, shown[k], items[k])
    BY <1>1, <2>4, <2>5 DEF OrderedLine
  <2>7. CASE k \in index[Queries[at]]
    BY <2>2, <2>6, <2>7 DEF After
  <2>8. CASE k \notin index[Queries[at]] /\ items[k] = Absent
    BY <2>2, <2>6, <2>8 DEF After, UnwrittenIn, Unwritten
  <2>9. CASE k \notin index[Queries[at]] /\ items[k] # Absent
    <3>1. items[k].rv \in 1..lastRV /\ log[items[k].rv] = [key |-> k, obj |-> items[k]]
          /\ items[k].rv >= shown[k]
      BY <2>6, <2>9 DEF Seen, After
    <3>2. lastRV \in 0..Len(log) /\ Len(log) \in Nat /\ shown[k] \in Nat
      BY <1>1, LenProperties, InformerAssumption
      DEF ListerInv, InformerInv, InformerTypeOK, ProgramInv, ProgramTypeOK
    <3>3. CASE items[k].rv = shown[k]
      <4>1. log[shown[k]].obj = items[k]
        BY <3>1, <3>3
      <4> QED BY <2>2, <2>9, <4>1 DEF IndexValues
    <3>4. CASE items[k].rv # shown[k]
      <4>1. items[k].rv \in (shown[k] + 1)..Len(log)
        BY <3>1, <3>2, <3>4
      <4>2. log[items[k].rv].key = k
        BY <3>1
      <4> QED BY <2>2, <2>9, <4>1, <4>2 DEF Unwritten
    <3> QED BY <3>3, <3>4
  <2> QED BY <2>7, <2>8, <2>9
<1>2. ListerInv /\ MonotoneInv /\ [Next]_vars => [Lists => \A k \in Keys : shown[k] > 0 => Shows(k)]_vars
  BY <1>1
<1> QED
  BY <1>2, InitLister, InitMonotone, ListerInductive, MonotoneInductive, PTL DEF Spec, ListingsMonotone

-------------------------------------------------------------------------------
(* A key that has not been written has the object it had.                  *)
LEMMA UnwrittenSame ==
    ASSUME NEW l, Len(l) \in Nat, NEW v \in 0..Len(l), NEW w \in v..Len(l), NEW k, UnwrittenIn(l, k, v)
    PROVE  ObjectIn(l, k, w) = ObjectIn(l, k, v)
<1>1. v \in Nat /\ w \in Nat /\ v <= w
  OBVIOUS
<1>2. \A p \in (v + 1)..w : l[p].key # k
  BY DEF UnwrittenIn
<1>3. {i \in 1..w : l[i].key = k} = {i \in 1..v : l[i].key = k}
  BY <1>1, <1>2
<1> QED
  BY <1>3 DEF ObjectIn, SelectLastInSubSeq

(* What the invariant asks of a key whose object is o.                     *)
OnItsWay(k, o) ==
    /\ \A i \in 2..Len(Line(k)) : Line(k)[i] = o
    /\ \/ items[k] = o
       \/ Popped(k) # <<>>
       \/ \E i \in 1..initial : queue[i] = k

(* The reflector never shortens the queue, nor recounts the first list.    *)
LEMMA QueueKept ==
    ASSUME InformerInv, populated, ReflectorList \/ ReflectorWatch
    PROVE  /\ populated' /\ initial' = initial /\ initial \in 0..Len(queue) /\ Len(queue) \in Nat
           /\ \A i \in 1..Len(queue) : queue'[i] = queue[i]
<1>1. queue \in Seq(Keys) /\ Len(queue) \in Nat /\ initial \in 0..Len(queue)
  BY LenProperties DEF InformerInv, InformerTypeOK
<1>2. CASE ReflectorList
  <2>1. PICK rv : Replace(rv)
    BY <1>2 DEF ReflectorList
  <2> DEFINE listed == {k \in Keys : ObjectAt(k, rv) # Absent}
             fresh == {k \in listed \cup Vanished(listed) : deltas[k] = <<>>}
  <2>2. PICK order \in SetToSeqs(fresh) : queue' = queue \o order
    BY <2>1 DEF Replace
  <2>3. fresh \in SUBSET Keys /\ IsFiniteSet(fresh)
    BY CachedListerAssumption, FS_Subset DEF Vanished
  <2> HIDE DEF fresh
  <2>4. order \in Seq(fresh)
    BY <2>3, OrderCovers
  <2>5. order \in Seq(Keys)
    BY <2>3, <2>4, SeqMonotonic
  <2>6. /\ Len(queue \o order) = Len(queue) + Len(order) /\ Len(order) \in Nat
        /\ \A i \in 1..Len(queue) + Len(order) :
              (queue \o order)[i] = IF i <= Len(queue) THEN queue[i] ELSE order[i - Len(queue)]
    BY <1>1, <2>5, ConcatProperties, LenProperties
  <2>7. \A i \in 1..Len(queue) : i \in 1..Len(queue) + Len(order) /\ i <= Len(queue)
    BY <1>1, <2>6
  <2>8. \A i \in 1..Len(queue) : queue'[i] = queue[i]
    BY <2>2, <2>6, <2>7
  <2> QED BY <1>1, <2>1, <2>8 DEF Replace
<1>3. CASE ReflectorWatch
  <2>1. queue' = queue \/ \E k \in Keys : queue' = Append(queue, k)
    <3>1. lastRV + 1 \in 1..Len(log)
      BY <1>3, LenProperties DEF ReflectorWatch, InformerInv, InformerTypeOK
    <3>2. log[lastRV + 1] \in Entry
      BY <3>1, ElementOfSeq DEF InformerInv, InformerTypeOK
    <3> QED BY <1>3, <3>2 DEF ReflectorWatch, Entry
  <2>2. \A i \in 1..Len(queue) : queue'[i] = queue[i]
    BY <1>1, <2>1, AppendProperties
  <2> QED BY <1>1, <1>3, <2>2 DEF ReflectorWatch
<1> QED
  BY <1>2, <1>3

(* The first list queues all its objects, and nothing is before them.      *)
LEMMA FirstListed ==
    ASSUME InformerInv, ~populated, ReflectorList, WatchFirst, NEW k \in Keys,
           NEW o \in Objects, o = ObjectIn(log, k, lastRV')
    PROVE  OnItsWay(k, o)'
<1>1. PICK rv \in lastRV..Len(log) : Replace(rv) /\ lastRV' = rv
  BY DEF ReflectorList, ListFrom
<1>2. /\ queue = <<>> /\ deltas = [j \in Keys |-> <<>>] /\ popping = NotPopping
      /\ firstRV' = lastRV' /\ log' = log
  BY DEF InformerInv, FifoInv, WatchFirst, ReflectorList
<1> DEFINE listed == {j \in Keys : ObjectAt(j, rv) # Absent}
           touched == listed \cup Vanished(listed)
           fresh == {j \in touched : deltas[j] = <<>>}
<1>3. touched \in SUBSET Keys /\ fresh = touched /\ IsFiniteSet(fresh)
  BY <1>2, CachedListerAssumption, FS_Subset DEF Vanished
<1>4. k \in touched
  BY <1>1, IndexerAssumption DEF ObjectAt, ObjectIn
<1>5. PICK order \in SetToSeqs(fresh) : queue' = queue \o order
  BY <1>1 DEF Replace
<1>6. initial' = Cardinality(touched)
  BY <1>1 DEF Replace
<1> HIDE DEF touched, fresh
<1>7. order \in Seq(fresh) /\ Len(order) = Cardinality(fresh) /\ \E i \in 1..Len(order) : order[i] = k
  BY <1>3, <1>4, OrderCovers
<1>8. queue' = order
  BY <1>2, <1>5, <1>7, ConcatEmptySeq
<1>9. \E i \in 1..initial' : queue'[i] = k
  BY <1>3, <1>6, <1>7, <1>8
<1>10. IsLine(Line(k), items[k], Popped(k), deltas[k]) /\ Popped(k) = <<>> /\ deltas[k] = <<>>
  BY <1>2, LineTypes DEF Popped, Locked
<1>11. Line(k) \in Seq(Delta) /\ Len(Line(k)) = 1
  BY <1>10, EmptySeq DEF IsLine
<1>12. Line(k)' = Line(k) \/ Line(k)' = Append(Line(k), o)
  BY ReflectedLine DEF Delta
<1>13. o \in Delta
  BY DEF Delta
<1>14. \A i \in 2..Len(Line(k)') : Line(k)'[i] = o
  <2>1. \A i \in 2..Len(Line(k)) : Line(k)[i] = o
    BY <1>11
  <2>2. \A i \in 2..Len(Append(Line(k), o)) : Append(Line(k), o)[i] = o
    BY <1>11, <1>13, <2>1, LineSame
  <2> QED BY <1>12, <2>1, <2>2
<1> QED
  BY <1>9, <1>14 DEF OnItsWay

(* An object of the first list that nobody has written since: no other is  *)
(* on its way, and it is stored, or among the deltas being handled, or     *)
(* queued among the keys of that list.                                     *)
FirstInv ==
    \A k \in Keys :
        LET o == ObjectIn(log, k, firstRV)
        IN  populated /\ o # Absent /\ UnwrittenIn(log, k, firstRV) => OnItsWay(k, o)

(* A write changes nothing of this, except for the key it writes.          *)
LEMMA WriteFirst ==
    ASSUME InformerInv, NEW k \in Keys, FirstInv, populated' = populated,
           UNCHANGED <<firstRV, items, popping, deltas, queue, initial>>,
           log' = log \/ \E e \in Entry : log' = Append(log, e),
           NEW o \in Objects, populated', o = ObjectIn(log', k, firstRV'),
           UnwrittenIn(log', k, firstRV')
    PROVE  OnItsWay(k, o)'
<1>1. log \in Seq(Entry) /\ Len(log) \in Nat /\ firstRV \in 0..Len(log) /\ firstRV' = firstRV
  BY LenProperties DEF InformerInv, InformerTypeOK
<1>2. Line(k)' = Line(k) /\ Popped(k)' = Popped(k)
  BY LineKept
<1>3. Len(log') \in Nat /\ Len(log') >= Len(log) /\ \A p \in 1..Len(log) : log'[p] = log[p]
  BY <1>1, AppendProperties
<1>4. UnwrittenIn(log, k, firstRV)
  BY <1>1, <1>3 DEF UnwrittenIn
<1>5. o = ObjectIn(log, k, firstRV)
  <2>1. \A p \in 1..firstRV : log'[p] = log[p]
    BY <1>1, <1>3
  <2> QED BY <1>1, <2>1, EarlierKept
<1>6. OnItsWay(k, o)
  BY <1>4, <1>5, IndexerAssumption DEF FirstInv
<1> QED
  BY <1>2, <1>6 DEF OnItsWay

(* Nor does the informer lose the object.                                  *)
LEMMA InformerFirst ==
    ASSUME ListerInv, FirstInv, RunInformer, NEW k \in Keys,
           NEW o \in Objects, populated', o = ObjectIn(log', k, firstRV'),
           UnwrittenIn(log', k, firstRV')
    PROVE  OnItsWay(k, o)'
<1>1. InformerInv /\ WatchFirst /\ log' = log
  BY DEF ListerInv, RunInformer, WatchFirst, InformerStep, ReflectorList, ReflectorWatch,
     WatchExpires, Pop, HandleDelta
<1>2. CASE ~populated
  <2>1. ReflectorList
    BY <1>1, <1>2 DEF RunInformer, InformerStep, InformerInv, FifoInv, ReflectorWatch, WatchExpires,
       Pop, HandleDelta, Locked, fifoVars
  <2>2. o = ObjectIn(log, k, lastRV')
    BY <1>1, <1>2 DEF WatchFirst
  <2> QED BY <1>1, <1>2, <2>1, <2>2, FirstListed
<1>3. CASE populated
  <2>1. firstRV' = firstRV /\ o = ObjectIn(log, k, firstRV) /\ UnwrittenIn(log, k, firstRV)
    BY <1>1, <1>3 DEF WatchFirst
  <2>2. OnItsWay(k, o)
    BY <1>3, <2>1, IndexerAssumption DEF FirstInv
  <2>3. o \in Delta /\ IsLine(Line(k), items[k], Popped(k), deltas[k])
    BY <1>1, LineTypes DEF Delta
  <2>4. Line(k) \in Seq(Delta) /\ Len(Line(k)) \in Nat \ {0}
    BY <2>3, LineFirst DEF IsLine
  <2>5. CASE ReflectorList \/ ReflectorWatch
    <3>1. ObjectIn(log, k, lastRV') = o
      <4>1. /\ Len(log) \in Nat /\ firstRV \in 0..Len(log) /\ lastRV \in 0..Len(log)
            /\ firstRV <= lastRV /\ lastRV' \in lastRV..Len(log)
        <5>1. Len(log) \in Nat /\ lastRV \in 0..Len(log)
          BY <1>1, LenProperties DEF InformerInv, InformerTypeOK
        <5>2. lastRV' \in lastRV..Len(log)
          <6>1. CASE ReflectorList
            BY <6>1 DEF ReflectorList, ListFrom
          <6>2. CASE ReflectorWatch
            BY <5>1, <6>2 DEF ReflectorWatch
          <6> QED BY <2>5, <6>1, <6>2
        <5> QED BY <1>1, <5>1, <5>2 DEF InformerInv, FifoInv
      <4>2. lastRV' \in firstRV..Len(log)
        BY <4>1
      <4> QED BY <2>1, <4>1, <4>2, UnwrittenSame
    <3>2. /\ UNCHANGED items /\ Popped(k)' = Popped(k)
          /\ Line(k)' = Line(k) \/ Line(k)' = Append(Line(k), o)
      BY <1>1, <2>3, <2>5, <3>1, ReflectedLine
    <3>3. \A i \in 2..Len(Line(k)') : Line(k)'[i] = o
      <4>1. \A i \in 2..Len(Line(k)) : Line(k)[i] = o
        BY <2>2 DEF OnItsWay
      <4>2. \A i \in 2..Len(Append(Line(k), o)) : Append(Line(k), o)[i] = o
        BY <2>3, <2>4, <4>1, LineSame
      <4> QED BY <3>2, <4>1, <4>2
    <3>4. initial' = initial /\ \A i \in 1..initial : queue'[i] = queue[i]
      BY <1>1, <1>3, <2>5, QueueKept
    <3> QED BY <2>2, <3>2, <3>3, <3>4 DEF OnItsWay
  <2>6. CASE WatchExpires
    <3>1. UNCHANGED <<items, popping, deltas, queue, initial>>
      BY <2>6 DEF WatchExpires, indexerVars, fifoVars
    <3>2. Line(k)' = Line(k) /\ Popped(k)' = Popped(k)
      BY <3>1, LineKept
    <3> QED BY <2>2, <3>1, <3>2 DEF OnItsWay
  <2>7. CASE Pop
    <3>1. /\ Line(k)' = Line(k) /\ Popped(k) = <<>> /\ items' = items
          /\ Head(queue) = k => Popped(k)' # <<>>
      BY <1>1, <2>7, PoppedLine DEF Pop, indexerVars
    <3>2. /\ Head(queue) = queue[1] /\ Len(queue) \in Nat \ {0} /\ queue' = Tail(queue)
          /\ Len(queue') = Len(queue) - 1 /\ \A i \in 1..Len(queue') : queue'[i] = queue[i + 1]
          /\ initial \in 0..Len(queue)
      BY <1>1, <2>7, QueueTypes, QueueShorter DEF Pop, InformerInv, InformerTypeOK
    <3>3. ASSUME NEW i \in 1..initial, queue[i] = k, i # 1
          PROVE  \E j \in 1..initial' : queue'[j] = k
      <4>1. initial' = initial - 1
        BY <2>7, <3>2, <3>3 DEF Pop, InitialLeft
      <4>2. i - 1 \in 1..initial' /\ i - 1 \in 1..Len(queue') /\ (i - 1) + 1 = i
        BY <3>2, <3>3, <4>1
      <4> QED BY <3>2, <3>3, <4>2
    <3> QED BY <2>2, <3>1, <3>2, <3>3 DEF OnItsWay
  <2>8. CASE HandleDelta
    <3>1. queue' = queue /\ initial' = initial
      BY <2>8 DEF HandleDelta, fifoVars
    <3>2. CASE k = popping.key
      <4>1. Line(k)' = Tail(Line(k)) /\ Line(k) # <<>> /\ Popped(k) # <<>>
        BY <1>1, <2>8, <3>2, HandledLine
      <4>2. /\ Len(Line(k)') = Len(Line(k)) - 1
            /\ \A i \in 1..Len(Line(k)') : Line(k)'[i] = Line(k)[i + 1]
        BY <2>4, <4>1, HeadTailProperties
      <4>4. ASSUME NEW i \in 1..Len(Line(k)') PROVE Line(k)'[i] = o
        <5>1. i + 1 \in 2..Len(Line(k))
          BY <2>4, <4>2
        <5> QED BY <2>2, <4>2, <5>1 DEF OnItsWay
      <4>5. items'[k] = o
        <5>1. /\ items' = [items EXCEPT ![k] = Head(popping.left)] /\ Locked
              /\ items \in [Keys -> Objects \cup {Absent}]
          BY <1>1, <2>8, <3>2, DeltaHandled DEF InformerInv, InformerTypeOK, IndexerTypeOK
        <5>2. items'[k] = Head(Popped(k))
          BY <3>2, <5>1 DEF Popped
        <5>3. Popped(k) \in Seq(Delta)
          BY <1>1, LineTypes
        <5>4. 2 \in 2..Len(Line(k)) /\ Line(k)[2] = Head(Popped(k))
          BY <2>3, <4>1, <5>3, LineSecond
        <5> QED BY <2>2, <5>2, <5>4 DEF OnItsWay
      <4>6. \A i \in 2..Len(Line(k)') : Line(k)'[i] = o
        BY <4>4
      <4> QED BY <4>5, <4>6 DEF OnItsWay
    <3>3. CASE k # popping.key
      <4>1. Line(k)' = Line(k) /\ Popped(k) = <<>> /\ items'[k] = items[k]
        BY <1>1, <2>8, <3>3, HandledLine
      <4> QED BY <2>2, <3>1, <4>1 DEF OnItsWay
    <3> QED BY <3>2, <3>3
  <2> QED BY <2>5, <2>6, <2>7, <2>8 DEF RunInformer, InformerStep
<1> QED
  BY <1>2, <1>3

(* Before the first list there is nothing to be shown.                     *)
LEMMA InitFirst == Init => FirstInv
BY DEF Init, InformerInit, FirstInv

(* Every step keeps the objects of the first list on their way.            *)
LEMMA FirstInductive == ListerInv /\ FirstInv /\ [Next]_vars => FirstInv'
<1> SUFFICES ASSUME ListerInv, FirstInv, [Next]_vars, NEW k \in Keys, NEW o,
                    o = ObjectIn(log', k, firstRV'), populated', o # Absent,
                    UnwrittenIn(log', k, firstRV')
             PROVE  OnItsWay(k, o)'
  BY DEF FirstInv
<1>1. InformerInv /\ InformerInv'
  BY ListerInductive DEF ListerInv
<1>2. log' \in Seq(Entry) /\ Len(log') \in Nat /\ firstRV' \in 0..Len(log')
  BY <1>1, LenProperties DEF InformerInv, InformerTypeOK, Entry
<1>3. o \in Objects
  <2>1. PICK p \in 1..firstRV' : o = log'[p].obj
    BY <1>2, LastWrite
  <2>2. p \in 1..Len(log')
    BY <1>2, <2>1
  <2>3. log'[p] \in Entry
    BY <1>2, <2>2, ElementOfSeq
  <2> QED BY <2>1, <2>3 DEF Entry
<1>4. CASE RunInformer
  BY <1>3, <1>4, InformerFirst
<1>5. CASE ~RunInformer
  <2>1. UNCHANGED <<populated, firstRV, items, popping, deltas, queue, initial>>
    BY <1>5 DEF Next, Main, vars, Setup, WaitForCacheSync, GetInformer, List, Apply, NewClient,
       StartCache, OthersWrite, programVars, informerVars, indexerVars, fifoVars
  <2>2. log' = log \/ \E e : log' = Append(log, e)
    BY <1>5 DEF Next, Main, vars, Setup, WaitForCacheSync, GetInformer, List, Apply, NewClient,
       StartCache, OthersWrite, programVars, informerVars, Write, WriteApp
  <2>3. log' = log \/ \E e \in Entry : log' = Append(log, e)
    <3> SUFFICES ASSUME NEW e, log' = Append(log, e) PROVE e \in Entry
      BY <2>2
    <3>1. log \in Seq(Entry)
      BY <1>1 DEF InformerInv, InformerTypeOK
    <3>2. Len(log') = Len(log) + 1 /\ log'[Len(log) + 1] = e /\ Len(log) \in Nat
      BY <3>1, LenProperties
    <3>3. Len(log) + 1 \in 1..Len(log')
      BY <3>2
    <3> QED BY <1>2, <3>2, <3>3, ElementOfSeq
  <2> QED BY <1>1, <1>3, <2>1, <2>3, WriteFirst
<1> QED
  BY <1>4, <1>5

(***************************************************************************)
(* No listing misses an object that the informer's first list had and      *)
(* nobody has written since, for any number of objects, writes and expired *)
(* watches: List waits for the first list to be handled to its end, and    *)
(* until then the object is in the queue (Replace, Pop, HasSynced).        *)
(***************************************************************************)
THEOREM FirstListShown == Spec => FirstListComplete
<1> DEFINE Has(k) ==
      LET o == ObjectAt(k, firstRV)
      IN  Queries[at] \in IndexValues(o) /\ Unwritten(k, firstRV) => o \in result'
<1>1. ASSUME ListerInv, MonotoneInv, FirstInv, [Next]_vars, Lists, NEW k \in Keys PROVE Has(k)
  <2> DEFINE o == ObjectAt(k, firstRV)
  <2> SUFFICES ASSUME Queries[at] \in IndexValues(o), Unwritten(k, firstRV) PROVE o \in result'
    OBVIOUS
  <2>1. List /\ pc' # "exit"
    BY <1>1 DEF Lists, Next, Main, vars, programVars, Setup, WaitForCacheSync, GetInformer, Apply,
       NewClient, StartCache, RunInformer, OthersWrite, Ended
  <2>2. /\ HasSynced
        /\ k \in index[Queries[at]] <=> Queries[at] \in IndexValues(items[k])
        /\ k \in index[Queries[at]] => items[k] \in result'
    BY <1>1, <2>1, ListShows
  <2>3. o = ObjectIn(log, k, firstRV) /\ o # Absent /\ UnwrittenIn(log, k, firstRV)
    BY DEF ObjectAt, ObjectIn, IndexValues, Unwritten, UnwrittenIn
  <2>4. populated /\ initial = 0 /\ Popped(k) = <<>>
    BY <2>2 DEF HasSynced, Popped
  <2>5. OnItsWay(k, o)
    BY <1>1, <2>3, <2>4 DEF FirstInv
  <2>6. items[k] = o
    BY <2>4, <2>5 DEF OnItsWay
  <2> QED BY <2>2, <2>6
<1>2. ListerInv /\ MonotoneInv /\ FirstInv /\ [Next]_vars => [Lists => \A k \in Keys : Has(k)]_vars
  BY <1>1
<1> QED
  BY <1>2, InitLister, InitMonotone, InitFirst, ListerInductive, MonotoneInductive, FirstInductive,
     PTL DEF Spec, FirstListComplete
===============================================================================

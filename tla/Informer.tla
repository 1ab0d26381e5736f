------------------------------- MODULE Informer -------------------------------
(***************************************************************************)
(* One informer of client-go: the reflector lists and watches the objects  *)
(* of a kind at the API server (tools/cache/reflector.go), the delta queue *)
(* holds what it saw (delta_fifo.go), and the processing loop applies it   *)
(* to the indexed store (shared_informer.go, HandleDeltas).                *)
(***************************************************************************)
EXTENDS Indexer, Integers, SequencesExt

CONSTANTS
    MaxWrites,   \* bound on the writes at the API server
    MaxExpiries  \* bound on the watches that expire

ASSUME InformerAssumption == MaxWrites \in Nat /\ MaxExpiries \in Nat

VARIABLES
    log,       \* the writes at the server; a resource version is a position
    reflector, \* what the reflector does: "off", "list" or "watch"
    lastRV,    \* the resource version it has seen last
    expiries,  \* watches that have expired so far
    queue,     \* keys with deltas, in the order they came
    deltas,    \* for each key what happened to it: an object, or Absent
    populated, \* has the queue been filled by a first list?
    initial,   \* how many keys of that list are still to be popped
    popping    \* the deltas being handled, under the lock of the queue

fifoVars == <<queue, deltas, populated, initial>>
informerVars == <<log, reflector, lastRV, expiries, fifoVars, popping, indexerVars>>

Entry == [key : Keys, obj : Objects \cup {Absent}]
NotPopping == [key |-> Absent, left |-> <<>>]

InformerTypeOK ==
    /\ IndexerTypeOK
    /\ log \in Seq(Entry)
    /\ reflector \in {"off", "list", "watch"}
    /\ lastRV \in 0..Len(log)
    /\ expiries \in 0..MaxExpiries
    /\ queue \in Seq(Keys)
    /\ deltas \in [Keys -> Seq(Objects \cup {Absent})]
    /\ populated \in BOOLEAN
    /\ initial \in 0..Len(queue)
    /\ popping \in [key : Keys \cup {Absent}, left : Seq(Objects \cup {Absent})]
    /\ popping.left # <<>> => popping.key \in Keys
    /\ \A k \in Keys : deltas[k] # <<>> <=> \E i \in DOMAIN queue : queue[i] = k

InformerInit ==
    /\ IndexerInit
    /\ reflector = "off" /\ lastRV = 0 /\ expiries = 0
    /\ queue = <<>> /\ deltas = [k \in Keys |-> <<>>]
    /\ populated = FALSE /\ initial = 0 /\ popping = NotPopping

-------------------------------------------------------------------------------
(* The object of key k at resource version rv. *)
ObjectAt(k, rv) ==
    LET p == SelectLastInSubSeq(log, 1, rv, LAMBDA e : e.key = k)
    IN  IF p = 0 THEN Absent ELSE log[p].obj

(* A write at the API server. *)
Write(k, obj) ==
    /\ obj # Absent \/ ObjectAt(k, Len(log)) # Absent
    /\ log' = Append(log, [key |-> k, obj |-> obj])

-------------------------------------------------------------------------------
(* queueActionLocked: a second deletion in a row is dropped. *)
AddDelta(ds, obj) ==
    IF obj = Absent /\ ds # <<>> /\ Last(ds) = Absent THEN ds ELSE Append(ds, obj)

Locked == popping # NotPopping

(* Keys to be deleted since a list does not have them. *)
Vanished(listed) == {k \in Keys \ listed : items[k] # Absent}

(* The reflector lists at some version not older than the last it saw, the *)
(* first time at any; Replace queues an update of every object and the     *)
(* deletion of the stored ones that are not listed.                        *)
ListFrom_Any == 0  \* a slip: every list may be answered with any version

ListFrom == lastRV

Replace(rv) ==
    LET listed == {k \in Keys : ObjectAt(k, rv) # Absent}
        touched == listed \cup Vanished(listed)
        fresh == {k \in touched : deltas[k] = <<>>}
    IN  /\ deltas' = [k \in Keys |-> IF k \in touched THEN AddDelta(deltas[k], ObjectAt(k, rv))
                                                      ELSE deltas[k]]
        /\ \E order \in SetToSeqs(fresh) : queue' = queue \o order
        /\ populated' = TRUE
        /\ initial' = IF populated THEN initial ELSE Cardinality(touched)

ReflectorList ==
    /\ reflector = "list" /\ ~Locked
    /\ \E rv \in ListFrom..Len(log) : Replace(rv) /\ lastRV' = rv
    /\ reflector' = "watch"
    /\ UNCHANGED <<log, expiries, popping, indexerVars>>

(* The watch brings the next write; the deletion of an object that neither *)
(* the store nor the queue has is not queued.                              *)
ReflectorWatch ==
    /\ reflector = "watch" /\ ~Locked
    /\ lastRV < Len(log)
    /\ lastRV' = lastRV + 1
    /\ LET k == log[lastRV + 1].key
           obj == log[lastRV + 1].obj
       IN  IF obj = Absent /\ items[k] = Absent /\ deltas[k] = <<>>
           THEN UNCHANGED <<queue, deltas>>
           ELSE /\ deltas' = [deltas EXCEPT ![k] = AddDelta(@, obj)]
                /\ queue' = IF deltas[k] = <<>> THEN Append(queue, k) ELSE queue
    /\ UNCHANGED <<log, reflector, expiries, populated, initial, popping, indexerVars>>

(* The server has forgotten the version the watch is at: list again. *)
WatchExpires ==
    /\ reflector = "watch" /\ expiries < MaxExpiries
    /\ reflector' = "list" /\ expiries' = expiries + 1
    /\ UNCHANGED <<log, lastRV, fifoVars, popping, indexerVars>>

(* Pop takes the first key with all its deltas and keeps the lock while    *)
(* HandleDeltas applies them to the store one by one.                      *)
InitialLeft_Down == initial - 1  \* a slip: the count goes on below zero

InitialLeft == IF initial > 0 THEN initial - 1 ELSE 0

Pop ==
    /\ ~Locked /\ queue # <<>>
    /\ popping' = [key |-> Head(queue), left |-> deltas[Head(queue)]]
    /\ queue' = Tail(queue)
    /\ deltas' = [deltas EXCEPT ![Head(queue)] = <<>>]
    /\ initial' = InitialLeft
    /\ UNCHANGED <<log, reflector, lastRV, expiries, populated, indexerVars>>

HandleDelta ==
    /\ Locked
    /\ LET k == popping.key
           obj == Head(popping.left)
       IN  IF obj = Absent THEN Delete(k) ELSE Update(k, obj)
    /\ popping' = IF Len(popping.left) = 1 THEN NotPopping
                  ELSE [popping EXCEPT !.left = Tail(@)]
    /\ UNCHANGED <<log, reflector, lastRV, expiries, fifoVars>>

InformerStep == ReflectorList \/ ReflectorWatch \/ WatchExpires \/ Pop \/ HandleDelta

(* HasSynced: the first list has been handled to its end. *)
HasSynced_Populated == populated  \* a slip: it has been queued

HasSynced == populated /\ initial = 0 /\ ~Locked
===============================================================================

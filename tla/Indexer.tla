------------------------------- MODULE Indexer --------------------------------
(***************************************************************************)
(* The indexed store of an informer (client-go                             *)
(* tools/cache/thread_safe_store.go): the items and, kept up with every    *)
(* write, an index from the values an index function gives to the keys of  *)
(* the items that have them. An index value stands for the name of an      *)
(* index and a value in it.                                                *)
(***************************************************************************)
CONSTANTS
    Keys,      \* keys of the store: namespace and name
    Objects,   \* the objects that may be stored
    Values,    \* index values
    IndexFunc, \* the index values of each object
    Absent     \* stands for no object

ASSUME IndexerAssumption ==
    /\ IndexFunc \in [Objects -> SUBSET Values]
    /\ Absent \notin Objects

VARIABLES
    items,  \* the stored object of each key
    index   \* the keys under each index value

indexerVars == <<items, index>>

IndexerTypeOK ==
    /\ items \in [Keys -> Objects \cup {Absent}]
    /\ index \in [Values -> SUBSET Keys]

IndexerInit ==
    /\ items = [k \in Keys |-> Absent]
    /\ index = [v \in Values |-> {}]

IndexValues(obj) == IF obj = Absent THEN {} ELSE IndexFunc[obj]

(* deleteFromIndices takes k from under the values of obj. *)
deleteFromIndices_Kept(idx, obj, k) == idx  \* a slip: it does not

deleteFromIndices(idx, obj, k) ==
    [v \in Values |-> IF v \in IndexValues(obj) THEN idx[v] \ {k} ELSE idx[v]]

(* updateIndices removes the old object's entries before it adds those of  *)
(* the new one.                                                            *)
updateIndices(idx, oldObj, newObj, k) ==
    LET cleared == deleteFromIndices(idx, oldObj, k)
    IN  [v \in Values |-> IF v \in IndexValues(newObj) THEN cleared[v] \cup {k} ELSE cleared[v]]

(* Add and Update are the same. *)
Update(k, obj) ==
    /\ items' = [items EXCEPT ![k] = obj]
    /\ index' = updateIndices(index, items[k], obj, k)

Delete(k) ==
    /\ items' = [items EXCEPT ![k] = Absent]
    /\ index' = deleteFromIndices(index, items[k], k)

ByIndex(v) == {items[k] : k \in index[v]}

(* The store on its own, under any sequence of writes. *)
IndexerNext == \E k \in Keys : Delete(k) \/ \E obj \in Objects : Update(k, obj)

IndexerSpec == IndexerInit /\ [][IndexerNext]_indexerVars

(* A lookup by an index value finds the items that have the value, and no  *)
(* others: the incremental index is the one computed from the items        *)
(* (ByIndex against updateIndices and deleteFromIndices).                  *)
IndexConsistent ==
    \A v \in Values : index[v] = {k \in Keys : v \in IndexValues(items[k])}
===============================================================================

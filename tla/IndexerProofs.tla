---------------------------- MODULE IndexerProofs -----------------------------
(***************************************************************************)
(* Proofs about Indexer, for every set of keys, objects and index values   *)
(* and every index function, one that gives an object several values       *)
(* included.                                                               *)
(***************************************************************************)
EXTENDS Indexer, TLAPS

IndexInv == IndexerTypeOK /\ IndexConsistent

LEMMA DeleteIndexed ==
  ASSUME IndexInv, NEW k \in Keys, Delete(k)
  PROVE  IndexInv'
<1> USE IndexerAssumption DEF IndexInv, IndexerTypeOK
<1>1. IndexerTypeOK'
  BY DEF Delete, deleteFromIndices
<1>2. ASSUME NEW v \in Values
      PROVE  index'[v] = {j \in Keys : v \in IndexValues(items'[j])}
  BY DEF Delete, deleteFromIndices, IndexConsistent, IndexValues
<1>3. QED
  BY <1>1, <1>2 DEF IndexConsistent, IndexValues

LEMMA UpdateIndexed ==
  ASSUME IndexInv, NEW k \in Keys, NEW obj \in Objects, Update(k, obj)
  PROVE  IndexInv'
<1> USE IndexerAssumption DEF IndexInv, IndexerTypeOK
<1> DEFINE cleared == deleteFromIndices(index, items[k], k)
<1>1. cleared \in [Values -> SUBSET Keys]
  BY DEF deleteFromIndices
<1>2. ASSUME NEW v \in Values
      PROVE  cleared[v] = {j \in Keys \ {k} : v \in IndexValues(items[j])}
  BY DEF deleteFromIndices, IndexConsistent, IndexValues
<1>3. /\ index' = [v \in Values |->
                     IF v \in IndexValues(obj) THEN cleared[v] \cup {k} ELSE cleared[v]]
      /\ items' = [items EXCEPT ![k] = obj]
  BY DEF Update, updateIndices
<1> HIDE DEF cleared
<1>4. IndexerTypeOK'
  BY <1>1, <1>3
<1>5. ASSUME NEW v \in Values
      PROVE  index'[v] = {j \in Keys : v \in IndexValues(items'[j])}
  BY <1>1, <1>2, <1>3 DEF IndexValues
<1>6. QED
  BY <1>4, <1>5 DEF IndexConsistent, IndexValues

(***************************************************************************)
(* Whatever is written, the index agrees with the items (updateIndices,    *)
(* deleteFromIndices).                                                     *)
(***************************************************************************)
THEOREM IndexAgrees == IndexerSpec => []IndexConsistent
<1>1. IndexerInit => IndexInv
  BY DEF IndexerInit, IndexInv, IndexerTypeOK, IndexConsistent, IndexValues
<1>2. IndexInv /\ [IndexerNext]_indexerVars => IndexInv'
  <2> SUFFICES ASSUME IndexInv, [IndexerNext]_indexerVars PROVE IndexInv'
    OBVIOUS
  <2>1. CASE IndexerNext
    BY <2>1, DeleteIndexed, UpdateIndexed DEF IndexerNext
  <2>2. CASE UNCHANGED indexerVars
    BY <2>2 DEF indexerVars, IndexInv, IndexerTypeOK, IndexConsistent, IndexValues
  <2>3. QED
    BY <2>1, <2>2
<1>3. QED
  BY <1>1, <1>2, PTL DEF IndexerSpec, IndexInv
===============================================================================

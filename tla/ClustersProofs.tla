---------------------------- MODULE ClustersProofs ----------------------------
(***************************************************************************)
(* Facts about the API calls and the caches of Clusters, for the proofs    *)
(* about the controller: what every call keeps, whoever makes it.          *)
(***************************************************************************)
EXTENDS Clusters, SequencesExt, FiniteSetTheorems, SequenceTheorems, TLAPS

(* The clusters are well typed, and what their caches can list is finite.  *)
ClustersInv ==
    /\ ClustersTypeOK
    /\ \A c \in ClusterNames : IsFiniteSet(nss[c]) /\ IsFiniteSet(rbs[c])
    /\ \A c \in ClusterNames : IsFiniteSet(nsCache[c]) /\ IsFiniteSet(rbCache[c])

-------------------------------------------------------------------------------
(* A function on 1..n is a sequence. *)
LEMMA FunctionIsSeq ==
    ASSUME NEW S, NEW n \in Nat, NEW s \in [1..n -> S]
    PROVE  s \in Seq(S)
BY SeqDef

(* A sequence with more than one element has a tail with some. *)
LEMMA TailNotEmpty ==
    ASSUME NEW S, NEW s \in Seq(S), Len(s) > 1
    PROVE  Tail(s) \in Seq(S) /\ Tail(s) # <<>>
<1>1. s # <<>>
  BY EmptySeq
<1>2. Tail(s) \in Seq(S) /\ Len(Tail(s)) = Len(s) - 1
  BY <1>1, HeadTailProperties
<1>3. Len(s) \in Nat
  BY LenProperties
<1>4. Len(Tail(s)) # 0
  BY <1>2, <1>3
<1> QED
  BY <1>2, <1>4, EmptySeq

(* So is every order of a finite set. *)
LEMMA OrderIsSeq ==
    ASSUME NEW S, IsFiniteSet(S), NEW s \in SetToSeqs(S)
    PROVE  s \in Seq(S)
<1>1. Cardinality(S) \in Nat
  BY FS_CardinalityType
<1>2. s \in [1..Cardinality(S) -> S]
  BY DEF SetToSeqs
<1> QED
  BY <1>1, <1>2, FunctionIsSeq

(* The namespace of a space is a namespace name. *)
LEMMA NsNameType ==
    ASSUME NEW o \in OrgNames, NEW s \in SpaceNames
    PROVE  NsName(o, s) \in NamespaceNames
BY DEF NsName, NamespaceNames

(* The empty clusters of the initial state are well typed. *)
LEMMA ClustersInitInv == ClustersInit => ClustersInv
<1> SUFFICES ASSUME ClustersInit PROVE ClustersInv
  OBVIOUS
<1>1. IsFiniteSet({})
  BY FS_EmptySet
<1>2. ClustersTypeOK
  BY ClustersAssumption DEF ClustersInit, CachesDown, ClustersTypeOK
<1> QED
  BY <1>1, <1>2 DEF ClustersInit, CachesDown, ClustersInv

(* A fault that is counted stays within its bound. *)
LEMMA FaultBound ==
    ASSUME ClustersInv, Fault
    PROVE  faults' \in 0..MaxFaults
BY ClustersAssumption DEF ClustersInv, ClustersTypeOK, Fault

(* Marking namespaces as terminating keeps them well typed and finite      *)
(* (DeleteAllOf of reconcileDeletedOrg).                                   *)
LEMMA TerminateInv ==
    ASSUME ClustersInv, NEW c \in ClusterNames, NEW gone \in SUBSET nss[c], Terminate(c, gone)
    PROVE  /\ nss' \in [ClusterNames -> SUBSET Namespace]
           /\ \A d \in ClusterNames : IsFiniteSet(nss'[d])
<1> DEFINE marked == {[x EXCEPT !.phase = "terminating"] : x \in gone}
           f == [x \in gone |-> [x EXCEPT !.phase = "terminating"]]
<1>1. gone \in SUBSET Namespace /\ IsFiniteSet(nss[c])
  BY DEF ClustersInv, ClustersTypeOK
<1>2. marked \in SUBSET Namespace
  BY <1>1 DEF Namespace, Phases
<1>3. IsFiniteSet(gone)
  BY <1>1, FS_Subset
<1>4. f \in Surjection(gone, marked)
  BY DEF Surjection
<1>5. IsFiniteSet(marked)
  <2> HIDE DEF marked, f
  <2> QED BY <1>3, <1>4, FS_Surjection
<1>6. IsFiniteSet((nss[c] \ gone) \cup marked)
  <2>1. IsFiniteSet(nss[c] \ gone)
    BY <1>1, FS_Subset
  <2> HIDE DEF marked
  <2> QED BY <2>1, <1>5, FS_Union
<1>7. nss' = [nss EXCEPT ![c] = (nss[c] \ gone) \cup marked]
  BY DEF Terminate
<1> HIDE DEF marked
<1> QED
  BY <1>2, <1>6, <1>7 DEF ClustersInv, ClustersTypeOK

(* A Create of a namespace keeps the clusters well typed (createNamespace). *)
LEMMA CreateNamespaceInv ==
    ASSUME ClustersInv, NEW c \in ClusterNames, NEW n \in NamespaceNames,
           NEW o \in OrgNames, NEW r, APICreateNamespace(c, n, o, r), UNCHANGED cacheVars
    PROVE  ClustersInv'
<1> DEFINE new == [name |-> n, org |-> o, phase |-> "active"]
<1>1. new \in Namespace
  BY DEF Namespace, Phases
<1>2. IsFiniteSet(nss[c] \cup {new})
  BY FS_AddElement DEF ClustersInv
<1>3. UNCHANGED nss \/ nss' = [nss EXCEPT ![c] = @ \cup {new}]
  BY DEF APICreateNamespace, AddNamespace
<1>4. faults' \in 0..MaxFaults
  BY FaultBound DEF APICreateNamespace, ClustersInv, ClustersTypeOK
<1>5. UNCHANGED <<rbs, cacheVars>>
  BY DEF APICreateNamespace
<1> HIDE DEF new
<1> QED
  BY <1>1, <1>2, <1>3, <1>4, <1>5 DEF ClustersInv, ClustersTypeOK, cacheVars

(* So does a Create of a role binding, by either reconciler.               *)
LEMMA CreateBindingInv ==
    ASSUME ClustersInv, NEW c \in ClusterNames, NEW b \in RoleBinding,
           NEW r, APICreateBinding(c, b, r), UNCHANGED cacheVars
    PROVE  ClustersInv'
<1>1. IsFiniteSet(rbs[c] \cup {b})
  BY FS_AddElement DEF ClustersInv
<1>2. UNCHANGED rbs \/ rbs' = [rbs EXCEPT ![c] = @ \cup {b}]
  BY DEF APICreateBinding, AddBinding
<1>3. faults' \in 0..MaxFaults
  BY FaultBound DEF APICreateBinding, ClustersInv, ClustersTypeOK
<1>4. UNCHANGED <<nss, cacheVars>>
  BY DEF APICreateBinding
<1> QED
  BY <1>1, <1>2, <1>3, <1>4 DEF ClustersInv, ClustersTypeOK, cacheVars

(* So does a Delete of one (reconcileDeletedGlobalUser).                   *)
LEMMA DeleteBindingInv ==
    ASSUME ClustersInv, NEW c \in ClusterNames, NEW b,
           NEW r, APIDeleteBinding(c, b, r), UNCHANGED cacheVars
    PROVE  ClustersInv'
<1>1. rbs[c] \ Named(c, b) \in SUBSET rbs[c] /\ IsFiniteSet(rbs[c])
  BY DEF ClustersInv
<1>2. IsFiniteSet(rbs[c] \ Named(c, b))
  BY <1>1, FS_Subset
<1>3. UNCHANGED rbs \/ rbs' = [rbs EXCEPT ![c] = @ \ Named(c, b)]
  BY DEF APIDeleteBinding, RemoveBinding
<1>4. faults' \in 0..MaxFaults
  BY FaultBound DEF APIDeleteBinding, ClustersInv, ClustersTypeOK
<1>5. UNCHANGED <<nss, cacheVars>>
  BY DEF APIDeleteBinding
<1> QED
  BY <1>1, <1>2, <1>3, <1>4, <1>5 DEF ClustersInv, ClustersTypeOK, cacheVars

(* So does a DeleteAllOf of namespaces (reconcileDeletedOrg).              *)
LEMMA DeleteNamespacesInv ==
    ASSUME ClustersInv, NEW c \in ClusterNames, NEW o,
           NEW r, APIDeleteNamespaces(c, o, r), UNCHANGED cacheVars
    PROVE  ClustersInv'
<1>1. UNCHANGED nss \/ \E gone \in SUBSET nss[c] : Terminate(c, gone)
  BY DEF APIDeleteNamespaces, Labelled
<1>2. /\ nss' \in [ClusterNames -> SUBSET Namespace]
      /\ \A d \in ClusterNames : IsFiniteSet(nss'[d])
  BY <1>1, TerminateInv DEF ClustersInv, ClustersTypeOK
<1>3. faults' \in 0..MaxFaults
  BY FaultBound DEF APIDeleteNamespaces, ClustersInv, ClustersTypeOK
<1>4. UNCHANGED <<rbs, cacheVars>>
  BY DEF APIDeleteNamespaces
<1> QED
  BY <1>2, <1>3, <1>4 DEF ClustersInv, ClustersTypeOK, cacheVars

-------------------------------------------------------------------------------
(* So does the namespace controller of a cluster.                          *)
LEMMA NamespaceControllerInv ==
    ASSUME ClustersInv, NEW c \in ClusterNames, NEW n,
           EmptyNamespace(c, n) \/ RemoveNamespace(c, n)
    PROVE  ClustersInv'
<1>1. {b \in rbs[c] : b.ns # n} \in SUBSET rbs[c] /\ {x \in nss[c] : x.name # n} \in SUBSET nss[c]
  OBVIOUS
<1>2. IsFiniteSet({b \in rbs[c] : b.ns # n}) /\ IsFiniteSet({x \in nss[c] : x.name # n})
  BY <1>1, FS_Subset DEF ClustersInv
<1>3. CASE EmptyNamespace(c, n)
  BY <1>1, <1>2, <1>3 DEF EmptyNamespace, ClustersInv, ClustersTypeOK, cacheVars
<1>4. CASE RemoveNamespace(c, n)
  BY <1>1, <1>2, <1>4 DEF RemoveNamespace, ClustersInv, ClustersTypeOK, cacheVars
<1> QED
  BY <1>3, <1>4

(* So do the steps of a cache, which only copy what the server holds.      *)
LEMMA CacheInv ==
    ASSUME ClustersInv, NEW c \in ClusterNames,
           StartCache(c) \/ SyncNamespaces(c) \/ SyncBindings(c) \/ WatchNamespaces(c)
    PROVE  ClustersInv'
BY DEF ClustersInv, ClustersTypeOK, StartCache, SyncNamespaces, SyncBindings, WatchNamespaces, apiVars

(* So does a step that is not about the clusters.                          *)
LEMMA ClustersUnchanged ==
    ASSUME ClustersInv, UNCHANGED clusterVars
    PROVE  ClustersInv'
BY DEF ClustersInv, ClustersTypeOK, clusterVars, apiVars, cacheVars

-------------------------------------------------------------------------------
(* What a List returns is a finite set of the right kind. *)
LEMMA ListedNamespacesType ==
    ASSUME ClustersInv, NEW c \in ClusterNames
    PROVE  /\ ListedNamespaces(c) \in SUBSET NamespaceNames
           /\ IsFiniteSet(ListedNamespaces(c))
<1> DEFINE S == IF c \in watched THEN nsCache[c] ELSE nss[c]
           T == {x.name : x \in S}
           f == [x \in S |-> x.name]
<1>1. S \in SUBSET Namespace /\ IsFiniteSet(S)
  BY DEF ClustersInv, ClustersTypeOK
<1>2. f \in Surjection(S, T)
  BY DEF Surjection
<1>3. IsFiniteSet(T)
  <2> HIDE DEF S, T, f
  <2> QED BY <1>1, <1>2, FS_Surjection
<1>4. T \in SUBSET NamespaceNames
  BY <1>1 DEF Namespace
<1> QED
  BY <1>3, <1>4 DEF ListedNamespaces

(* So it is for the bindings listed by label and index.                    *)
LEMMA ListedBindingsType ==
    ASSUME ClustersInv, NEW c \in ClusterNames, NEW u, NEW level
    PROVE  /\ ListedBindings(c, u, level) \in SUBSET RoleBinding
           /\ IsFiniteSet(ListedBindings(c, u, level))
<1>1. ListedBindings(c, u, level) \in SUBSET rbCache[c]
  BY DEF ListedBindings
<1>2. rbCache[c] \in SUBSET RoleBinding /\ IsFiniteSet(rbCache[c])
  BY DEF ClustersInv, ClustersTypeOK
<1> QED
  BY <1>1, <1>2, FS_Subset
===============================================================================

------------------------------- MODULE Clusters -------------------------------
(***************************************************************************)
(* The workload clusters as the org controller sees them: for each cluster *)
(* the API server's namespaces and role bindings, the namespace controller *)
(* that empties and removes a terminating namespace, and the controller's  *)
(* own cache (informers) of that cluster, which its List calls read while  *)
(* its Create and Delete calls go to the API server.                       *)
(***************************************************************************)
EXTENDS OrgTypes

CONSTANTS
    DeleteCollectionServed, \* does the API server serve DeleteAllOf on namespaces?
    MaxFaults               \* bound on the API calls that fail for no reason of their own

ASSUME ClustersAssumption ==
    /\ DeleteCollectionServed \in BOOLEAN
    /\ MaxFaults \in Nat

VARIABLES
    nss,      \* nss[c]: the namespaces with an org label in cluster c
    rbs,      \* rbs[c]: the role bindings in those namespaces
    cacheUp,  \* clusters whose cache has been started
    watched,  \* clusters for which an informer of namespaces has been made
    nsCache,  \* nsCache[c]: the namespaces as the cache of c last saw them
    rbCache,  \* rbCache[c]: the role bindings as the cache of c last saw them
    faults    \* number of injected faults so far

apiVars == <<nss, rbs, faults>>
cacheVars == <<cacheUp, watched, nsCache, rbCache>>
clusterVars == <<apiVars, cacheVars>>

ClustersTypeOK ==
    /\ nss \in [ClusterNames -> SUBSET Namespace]
    /\ rbs \in [ClusterNames -> SUBSET RoleBinding]
    /\ cacheUp \subseteq ClusterNames
    /\ watched \subseteq ClusterNames
    /\ nsCache \in [ClusterNames -> SUBSET Namespace]
    /\ rbCache \in [ClusterNames -> SUBSET RoleBinding]
    /\ faults \in 0..MaxFaults

CachesDown ==
    /\ cacheUp = {}
    /\ watched = {}
    /\ nsCache = [c \in ClusterNames |-> {}]
    /\ rbCache = [c \in ClusterNames |-> {}]

ClustersInit ==
    /\ nss = [c \in ClusterNames |-> {}]
    /\ rbs = [c \in ClusterNames |-> {}]
    /\ faults = 0
    /\ CachesDown

-------------------------------------------------------------------------------
(***************************************************************************)
(* API calls. Each is one atomic step of the API server; r is what the     *)
(* caller gets. A call may also fail although the server was reachable     *)
(* (Fault), before or after it took effect: a timeout tells nothing.       *)
(***************************************************************************)
Fault == faults < MaxFaults /\ faults' = faults + 1

NamespaceExists(c, n) == \E x \in nss[c] : x.name = n

NamespaceActive(c, n) == \E x \in nss[c] : x.name = n /\ x.phase = "active"

AddNamespace(c, n, o) ==
    nss' = [nss EXCEPT ![c] = @ \cup {[name |-> n, org |-> o, phase |-> "active"]}]

(* Create of a Namespace n labelled with org o. *)
APICreateNamespace(c, n, o, r) ==
    /\ UNCHANGED rbs
    /\ \/ r = "created" /\ ~NamespaceExists(c, n) /\ AddNamespace(c, n, o) /\ UNCHANGED faults
       \/ r = "alreadyExists" /\ NamespaceExists(c, n) /\ UNCHANGED <<nss, faults>>
       \/ r = "error" /\ Fault /\ UNCHANGED nss
       \/ r = "error" /\ Fault /\ ~NamespaceExists(c, n) /\ AddNamespace(c, n, o)

(* A binding is admitted into an active namespace that has none of its     *)
(* name; otherwise the server answers NotFound, Forbidden or AlreadyExists.*)
Admits(c, b) ==
    /\ NamespaceActive(c, b.ns)
    /\ \A x \in rbs[c] : ~SameKey(x, b)

AddBinding(c, b) == rbs' = [rbs EXCEPT ![c] = @ \cup {b}]

(* Create of RoleBinding b. *)
APICreateBinding(c, b, r) ==
    /\ UNCHANGED nss
    /\ \/ r = "ok" /\ Admits(c, b) /\ AddBinding(c, b) /\ UNCHANGED faults
       \/ r = "error" /\ ~Admits(c, b) /\ UNCHANGED <<rbs, faults>>
       \/ r = "error" /\ Fault /\ UNCHANGED rbs
       \/ r = "error" /\ Fault /\ Admits(c, b) /\ AddBinding(c, b)

(* Delete of a RoleBinding with the namespace and name of b, whatever else *)
(* the binding of that name now says: the call sends no precondition.      *)
Named(c, b) == {x \in rbs[c] : SameKey(x, b)}

RemoveBinding(c, b) == rbs' = [rbs EXCEPT ![c] = @ \ Named(c, b)]

APIDeleteBinding(c, b, r) ==
    /\ UNCHANGED nss
    /\ \/ r = "ok" /\ Named(c, b) # {} /\ RemoveBinding(c, b) /\ UNCHANGED faults
       \/ r = "error" /\ Named(c, b) = {} /\ UNCHANGED <<rbs, faults>>
       \/ r = "error" /\ Fault /\ UNCHANGED rbs
       \/ r = "error" /\ Fault /\ Named(c, b) # {} /\ RemoveBinding(c, b)

(* DeleteAllOf namespaces labelled with org o: the server marks each as    *)
(* terminating; a call that fails may have marked any of them.             *)
Labelled_AnyOrg(c, o) == nss[c]  \* a slip: the label selector is dropped

Labelled(c, o) == {x \in nss[c] : x.org = o}

Terminate(c, gone) ==
    nss' = [nss EXCEPT ![c] = (@ \ gone) \cup {[x EXCEPT !.phase = "terminating"] : x \in gone}]

APIDeleteNamespaces(c, o, r) ==
    /\ UNCHANGED rbs
    /\ \/ r = "ok" /\ DeleteCollectionServed /\ Terminate(c, Labelled(c, o)) /\ UNCHANGED faults
       \/ r = "error" /\ ~DeleteCollectionServed /\ UNCHANGED <<nss, faults>>
       \/ /\ r = "error" /\ DeleteCollectionServed /\ Fault
          /\ \E gone \in SUBSET Labelled(c, o) : Terminate(c, gone)

-------------------------------------------------------------------------------
(***************************************************************************)
(* The namespace controller of a cluster.                                  *)
(***************************************************************************)
EmptyNamespace(c, n) ==
    /\ \E x \in nss[c] : x.name = n /\ x.phase = "terminating"
    /\ \E b \in rbs[c] : b.ns = n
    /\ rbs' = [rbs EXCEPT ![c] = {b \in @ : b.ns # n}]
    /\ UNCHANGED <<nss, faults, cacheVars>>

RemoveNamespace(c, n) ==
    /\ \E x \in nss[c] : x.name = n /\ x.phase = "terminating"
    /\ \A b \in rbs[c] : b.ns # n
    /\ nss' = [nss EXCEPT ![c] = {x \in @ : x.name # n}]
    /\ UNCHANGED <<rbs, faults, cacheVars>>

-------------------------------------------------------------------------------
(***************************************************************************)
(* The cache of a cluster. The field index makes the informer of role      *)
(* bindings; the informer of namespaces is made by the first List of them. *)
(* An informer is filled when the cache is started, or, made later, before *)
(* that List returns. Watch events then bring it up to date, some time.    *)
(***************************************************************************)
StartCache(c) ==
    /\ c \notin cacheUp
    /\ cacheUp' = cacheUp \cup {c}
    /\ rbCache' = [rbCache EXCEPT ![c] = rbs[c]]
    /\ nsCache' = IF c \in watched THEN [nsCache EXCEPT ![c] = nss[c]] ELSE nsCache
    /\ UNCHANGED <<apiVars, watched>>

SyncNamespaces(c) ==
    /\ c \in watched \cap cacheUp
    /\ nsCache[c] # nss[c]
    /\ nsCache' = [nsCache EXCEPT ![c] = nss[c]]
    /\ UNCHANGED <<apiVars, cacheUp, watched, rbCache>>

SyncBindings(c) ==
    /\ c \in cacheUp
    /\ rbCache[c] # rbs[c]
    /\ rbCache' = [rbCache EXCEPT ![c] = rbs[c]]
    /\ UNCHANGED <<apiVars, cacheUp, watched, nsCache>>

(* What a List of namespaces by the org label returns from a started       *)
(* cache, and what it leaves behind in any.                                *)
ListedNamespaces(c) ==
    {x.name : x \in IF c \in watched THEN nsCache[c] ELSE nss[c]}

WatchNamespaces(c) ==
    /\ watched' = watched \cup {c}
    /\ nsCache' = IF c \in watched \/ c \notin cacheUp
                  THEN nsCache
                  ELSE [nsCache EXCEPT ![c] = nss[c]]
    /\ UNCHANGED <<apiVars, cacheUp, rbCache>>

(* A slip that would list a user's bindings by the index alone. *)
ListedBindings_AnyLevel(c, u, level) == {b \in rbCache[c] : b.user = u}

(* What a List of role bindings by level label and user index returns. *)
ListedBindings(c, u, level) ==
    {b \in rbCache[c] : b.level = level /\ b.user = u}
===============================================================================

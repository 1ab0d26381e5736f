---------------------------- MODULE OrgController -----------------------------
(***************************************************************************)
(* The org controller (cross-cluster-orgs/org-controller): one process     *)
(* with a worker for Org and a worker for GlobalUser resources, running    *)
(* interleaved over the same clusters, while users edit the resources, the *)
(* clusters' caches lag behind and the process may crash and restart.      *)
(***************************************************************************)
EXTENDS OrgReconciler, GlobalUserReconciler

CONSTANTS
    MaxEdits,   \* bound on the edits users make
    MaxCrashes, \* bound on the crashes of the controller
    Resyncing   \* do the informers resync?

ASSUME OrgControllerAssumption ==
    /\ MaxEdits \in Nat
    /\ MaxCrashes \in Nat
    /\ Resyncing \in BOOLEAN

VARIABLES
    edits,     \* number of edits so far
    crashes,   \* number of crashes so far
    everOrgs,  \* history: every <<o, spec>> some Org o has had
    everUsers, \* history: every <<u, roles>> some GlobalUser u has had
    deletions  \* history: the orgs that have been deleted at some time

historyVars == <<everOrgs, everUsers, deletions>>
boundVars == <<edits, crashes>>
vars == <<clusterVars, managerVars, orgVars, userVars, boundVars, historyVars>>

TypeOK ==
    /\ ClustersTypeOK /\ ManagerTypeOK /\ OrgTypeOK /\ UserTypeOK
    /\ edits \in 0..MaxEdits
    /\ crashes \in 0..MaxCrashes
    /\ everOrgs \subseteq OrgNames \X OrgSpecs
    /\ everUsers \subseteq UserNames \X GlobalSpecs
    /\ deletions \subseteq OrgNames

Init ==
    /\ ClustersInit /\ ManagerInit /\ OrgInit /\ UserInit
    /\ edits = 0 /\ crashes = 0
    /\ everOrgs = {} /\ everUsers = {} /\ deletions = {}

-------------------------------------------------------------------------------
(***************************************************************************)
(* Users edit the custom resources. When the process is up the event       *)
(* handler (EnqueueRequestForObject) adds the key; while it is down the    *)
(* event is lost.                                                          *)
(***************************************************************************)
Edit == edits < MaxEdits /\ edits' = edits + 1

Enqueued(queue, k) == IF up THEN queue \cup {k} ELSE queue

PutOrg(o, spec) ==
    /\ Edit
    /\ orgs[o] # spec
    /\ orgs' = [orgs EXCEPT ![o] = spec]
    /\ orgQueue' = Enqueued(orgQueue, o)
    /\ everOrgs' = everOrgs \cup {<<o, spec>>}
    /\ UNCHANGED <<clusterVars, up, gusers, orgFailing, orgPass, userVars,
                   crashes, everUsers, deletions>>

DeleteOrg(o) ==
    /\ Edit
    /\ orgs[o] # Absent
    /\ orgs' = [orgs EXCEPT ![o] = Absent]
    /\ orgQueue' = Enqueued(orgQueue, o)
    /\ deletions' = deletions \cup {o}
    /\ UNCHANGED <<clusterVars, up, gusers, orgFailing, orgPass, userVars,
                   crashes, everOrgs, everUsers>>

PutGlobalUser(u, roles) ==
    /\ Edit
    /\ gusers[u] # roles
    /\ gusers' = [gusers EXCEPT ![u] = roles]
    /\ userQueue' = Enqueued(userQueue, u)
    /\ everUsers' = everUsers \cup {<<u, roles>>}
    /\ UNCHANGED <<clusterVars, up, orgs, userFailing, userPass, orgVars,
                   crashes, everOrgs, deletions>>

DeleteGlobalUser(u) ==
    /\ Edit
    /\ gusers[u] # Absent
    /\ gusers' = [gusers EXCEPT ![u] = Absent]
    /\ userQueue' = Enqueued(userQueue, u)
    /\ UNCHANGED <<clusterVars, up, orgs, userFailing, userPass, orgVars,
                   crashes, historyVars>>

(***************************************************************************)
(* The informers re-deliver every object they hold every ten hours, as an  *)
(* update that the event handler enqueues like any other.                  *)
(***************************************************************************)
ResyncOrg(o) ==
    /\ Resyncing /\ up
    /\ orgs[o] # Absent
    /\ orgQueue' = orgQueue \cup {o}
    /\ UNCHANGED <<clusterVars, managerVars, orgFailing, orgPass, userVars, boundVars, historyVars>>

ResyncGlobalUser(u) ==
    /\ Resyncing /\ up
    /\ gusers[u] # Absent
    /\ userQueue' = userQueue \cup {u}
    /\ UNCHANGED <<clusterVars, managerVars, userFailing, userPass, orgVars, boundVars, historyVars>>

(***************************************************************************)
(* A crash loses the queues, the passes in progress and the caches of the  *)
(* clusters, and nothing else: the program keeps no state outside the API  *)
(* servers. A start fills the manager's cache and enqueues what exists.    *)
(***************************************************************************)
Crash ==
    /\ up /\ crashes < MaxCrashes
    /\ up' = FALSE
    /\ crashes' = crashes + 1
    /\ orgQueue' = {} /\ orgFailing' = {} /\ orgPass' = Idle
    /\ userQueue' = {} /\ userFailing' = {} /\ userPass' = UserIdle
    /\ cacheUp' = {} /\ watched' = {}
    /\ nsCache' = [c \in ClusterNames |-> {}]
    /\ rbCache' = [c \in ClusterNames |-> {}]
    /\ UNCHANGED <<apiVars, orgs, gusers, edits, historyVars>>

Start ==
    /\ ~up
    /\ up' = TRUE
    /\ orgQueue' = OrgsPresent
    /\ userQueue' = GlobalUsersPresent
    /\ UNCHANGED <<clusterVars, orgs, gusers, orgFailing, orgPass, userFailing, userPass,
                   boundVars, historyVars>>

-------------------------------------------------------------------------------
(* The steps of the two workers. *)
OrgWorker ==
    /\ OrgStep \/ \E o \in OrgNames : OrgBegin(o)
    /\ UNCHANGED <<userVars, boundVars, historyVars>>

UserWorker ==
    /\ UserStep \/ \E u \in UserNames : UserBegin(u)
    /\ UNCHANGED <<orgVars, boundVars, historyVars>>

(* The steps of the clusters: the caches live in the process. *)
ClusterStep(c) ==
    /\ \/ up /\ (StartCache(c) \/ SyncNamespaces(c) \/ SyncBindings(c))
       \/ \E n \in NamespaceNames : EmptyNamespace(c, n) \/ RemoveNamespace(c, n)
    /\ UNCHANGED <<managerVars, orgVars, userVars, boundVars, historyVars>>

UserEdit ==
    \/ \E o \in OrgNames : DeleteOrg(o) \/ \E spec \in OrgSpecs : PutOrg(o, spec)
    \/ \E u \in UserNames : DeleteGlobalUser(u) \/ \E roles \in GlobalSpecs : PutGlobalUser(u, roles)

Resync ==
    \/ \E o \in OrgNames : ResyncOrg(o)
    \/ \E u \in UserNames : ResyncGlobalUser(u)

Next ==
    \/ OrgWorker
    \/ UserWorker
    \/ \E c \in ClusterNames : ClusterStep(c)
    \/ UserEdit
    \/ Resync
    \/ Crash
    \/ Start

Spec == Init /\ [][Next]_vars

(***************************************************************************)
(* Fairness the program's scheduling justifies: a worker goroutine that    *)
(* has taken a key goes on with it; the work queue is FIFO, so a waiting   *)
(* key is not overtaken forever; the process restarts; watch events and    *)
(* the namespace controllers make progress. Nothing obliges users to edit, *)
(* calls to fail or the process to crash.                                  *)
(***************************************************************************)
OrgFairness ==
    /\ WF_vars(OrgStep /\ UNCHANGED <<userVars, boundVars, historyVars>>)
    /\ \A o \in OrgNames : SF_vars(OrgBegin(o) /\ UNCHANGED <<userVars, boundVars, historyVars>>)

UserFairness ==
    /\ WF_vars(UserStep /\ UNCHANGED <<orgVars, boundVars, historyVars>>)
    /\ \A u \in UserNames : SF_vars(UserBegin(u) /\ UNCHANGED <<orgVars, boundVars, historyVars>>)

ClusterFairness ==
    \A c \in ClusterNames : WF_vars(ClusterStep(c))

FairSpec == Spec /\ WF_vars(Start) /\ OrgFairness /\ UserFairness /\ ClusterFairness

(* The resync of the informers is periodic, hence fair as well. *)
FairSpecWithResync ==
    /\ FairSpec
    /\ \A o \in OrgNames : WF_vars(ResyncOrg(o))
    /\ \A u \in UserNames : WF_vars(ResyncGlobalUser(u))
===============================================================================

---------------------------- MODULE OrgProperties -----------------------------
(***************************************************************************)
(* What the org controller is for: the clusters hold the namespaces and    *)
(* the grants that the Org and GlobalUser resources declare, and nothing   *)
(* nobody declared.                                                        *)
(***************************************************************************)
EXTENDS OrgController

(* A list of users gives user u the role r. *)
Grants(users, u, r) ==
    \E i \in DOMAIN users : users[i].name = u /\ \E k \in DOMAIN users[i].roles : users[i].roles[k] = r

(* The spec of org o puts a space in cluster c whose namespace is n, and   *)
(* gives user u the role r there.                                          *)
SpecGrants(o, spec, c, n, u, r) ==
    \E i \in DOMAIN spec.spaces :
        /\ spec.spaces[i].cluster = c
        /\ NsName(o, spec.spaces[i].name) = n
        /\ Grants(spec.users \o spec.spaces[i].users, u, r)

DeclaredByOrg(c, b) ==
    \E o \in OrgNames, spec \in OrgSpecs :
        <<o, spec>> \in everOrgs /\ SpecGrants(o, spec, c, b.ns, b.user, b.role)

(* Some version of GlobalUser u listed the role r. *)
RoleDeclared(u, r) ==
    \E roles \in GlobalSpecs :
        <<u, roles>> \in everUsers /\ \E k \in DOMAIN roles : roles[k] = r

Declared(c, b) ==
    IF b.level = otherLevel THEN DeclaredByOrg(c, b) ELSE RoleDeclared(b.user, b.role)

-------------------------------------------------------------------------------
(* Whatever the interleaving of the two reconcilers, edits, stale reads,   *)
(* faults and crashes, a role binding in a cluster is one that some single *)
(* version of an Org declared for that namespace of that cluster, or, at   *)
(* the global level, that some version of a GlobalUser declared            *)
(* (createRoleBindings and its two callers).                               *)
GrantsDeclared ==
    \A c \in ClusterNames : \A b \in rbs[c] : Declared(c, b)

(* What makes it inductive: the resources are recorded, and what a pass    *)
(* has in hand, however stale, was declared when the pass read it.         *)
Recorded ==
    /\ \A o \in OrgNames : orgs[o] # Absent => <<o, orgs[o]>> \in everOrgs
    /\ \A u \in UserNames : gusers[u] # Absent => <<u, gusers[u]>> \in everUsers

OrgPassDeclared ==
    orgPass.pc \in {"getGlobalUsers", "createNamespace", "createRoleBindings"} =>
        /\ <<orgPass.org, orgPass.spec>> \in everOrgs
        /\ \A u \in UserNames, r \in Roles :
              /\ Grants(orgPass.globals, u, r) => RoleDeclared(u, r)
              /\ Grants(orgPass.todo[globalLevel], u, r) => RoleDeclared(u, r)
              /\ orgPass.pc = "createRoleBindings" /\ Grants(orgPass.todo[otherLevel], u, r) =>
                    Grants(SpaceUsers(orgPass.spec, orgPass.space), u, r)

UserPassDeclared ==
    userPass.pc \in {"getCfNamespaces", "createRoleBindings"} =>
        /\ <<userPass.user, userPass.roles>> \in everUsers
        /\ \A k \in DOMAIN userPass.todo :
              \E j \in DOMAIN userPass.roles : userPass.roles[j] = userPass.todo[k]

(* An org's grants stay in that org's namespaces: a namespace labelled     *)
(* with org o holds no org or space grant that only other orgs declared    *)
(* (reconcileSpace names the namespace, createNamespace labels it).        *)
OrgIsolation ==
    \A c \in ClusterNames : \A x \in nss[c], b \in rbs[c] :
        b.ns = x.name /\ b.level = otherLevel =>
            \E spec \in OrgSpecs :
                <<x.org, spec>> \in everOrgs /\ SpecGrants(x.org, spec, c, b.ns, b.user, b.role)

(* What isolation rests on: no two orgs can name the same namespace, ...   *)
UnambiguousNames ==
    \A o, p \in OrgNames, s, t \in SpaceNames : NsName(o, s) = NsName(p, t) => o = p

(* ... and a namespace is named after the org of its label.                *)
NamespacesNamed ==
    \A c \in ClusterNames : \A x \in nss[c] : \E s \in SpaceNames : x.name = NsName(x.org, s)

(* Only the namespaces of an org somebody deleted are ever put to death    *)
(* (the label selector of reconcileDeletedOrg, and Get's NotFound).        *)
TerminatesOnlyDeletedOrgs ==
    \A c \in ClusterNames : \A x \in nss[c] :
        x.phase = "terminating" => x.org \in deletions

(* What makes that inductive: a key waits in the queue, or is worked on,   *)
(* only if its org exists or has been deleted.                             *)
Known(o) == orgs[o] # Absent \/ o \in deletions

KeysKnown ==
    /\ \A o \in orgQueue : Known(o)
    /\ orgPass # Idle => Known(orgPass.org)
    /\ orgPass.pc = "reconcileDeletedOrg" => orgPass.org \in deletions

(* A GlobalUser has declared a grant whose binding has the name that a      *)
(* binding of role r to user u has: Delete goes by that name alone.        *)
GloballyNamed(u, r) ==
    \E v \in UserNames, q \in Roles : RoleDeclared(v, q) /\ v \o q = u \o r

(* Revoking a global user leaves the grants of orgs and spaces alone: such *)
(* a binding disappears only with its namespace, unless a grant at the     *)
(* global level has its name too (the level label in the List of           *)
(* reconcileDeletedGlobalUser, however stale what it lists).               *)
OtherLevelSurvives ==
    [][\A c \in ClusterNames : \A b \in rbs[c] :
          /\ b.level = otherLevel /\ NamespaceActive(c, b.ns)
          /\ ~GloballyNamed(b.user, b.role)
          => b \in rbs'[c]]_vars

(* What it rests on: a cluster has one namespace of a name, what a cache   *)
(* holds was declared, and what a pass revokes are grants that GlobalUsers *)
(* declared.                                                               *)
NamesUnique ==
    \A c \in ClusterNames : \A x, y \in nss[c] : x.name = y.name => x = y

CachedDeclared ==
    \A c \in ClusterNames : \A b \in rbCache[c] : Declared(c, b)

GlobalGrant(b) == b.level = globalLevel /\ RoleDeclared(b.user, b.role)

RevokingDeclared ==
    userPass.pc = "deleteRoleBinding" =>
        \A i \in DOMAIN userPass.rbs : GlobalGrant(userPass.rbs[i])

-------------------------------------------------------------------------------
(* A pass over org o, read with this spec, returns without an error. *)
OrgSucceeds(o, spec) ==
    /\ orgPass.pc \in {"getGlobalUsers", "createNamespace", "createRoleBindings"}
    /\ orgPass.org = o /\ orgPass.spec = spec
    /\ orgPass' = Idle /\ up'
    /\ o \notin orgFailing'

(* User u has role r in the namespace of space i of spec. *)
GrantBound(o, spec, i, u, r) ==
    \E b \in rbs[spec.spaces[i].cluster] :
        b.ns = NsName(o, spec.spaces[i].name) /\ b.user = u /\ b.role = r

(* The grants that space i of spec makes for org o are in its cluster. *)
GrantsBound(o, spec, i) ==
    \A u \in UserNames, r \in Roles :
        Grants(SpaceUsers(spec, i), u, r) => GrantBound(o, spec, i, u, r)

SpaceApplied(o, spec, i) ==
    /\ spec.spaces[i].cluster \in ClusterNames
    /\ \E x \in nss[spec.spaces[i].cluster] :
          x.name = NsName(o, spec.spaces[i].name) /\ x.phase = "active"
    /\ GrantsBound(o, spec, i)

(* A pass that returns no error has bound every grant of the org's last    *)
(* space, whatever happened to the clusters while it ran (the error that   *)
(* Reconcile returns is the last space's), but for a grant whose binding   *)
(* the other reconciler may have deleted for its name.                     *)
SuccessBindsLastSpace ==
    [][\A o \in OrgNames, spec \in OrgSpecs :
          OrgSucceeds(o, spec) /\ spec.spaces # <<>> =>
              \A u \in UserNames, r \in Roles :
                  Grants(SpaceUsers(spec, Len(spec.spaces)), u, r) =>
                      \/ GloballyNamed(u, r)
                      \/ GrantBound(o, spec, Len(spec.spaces), u, r)']_vars

(* What it rests on: a grant of the space the pass is in is bound already, *)
(* in a namespace that stays, or still to bind.                            *)
OrgBound(c, n, u, r) ==
    /\ NamespaceActive(c, n)
    /\ \E b \in rbs[c] : b.ns = n /\ b.user = u /\ b.role = r /\ b.level = otherLevel

BoundSoFar ==
    orgPass.pc = "createRoleBindings" =>
        LET space == orgPass.spec.spaces[orgPass.space]
        IN  \A u \in UserNames, r \in Roles :
               Grants(SpaceUsers(orgPass.spec, orgPass.space), u, r) =>
                   \/ GloballyNamed(u, r)
                   \/ Grants(orgPass.todo[otherLevel], u, r)
                   \/ OrgBound(space.cluster, NsName(orgPass.org, space.name), u, r)

(* "Reconciler performs a full reconciliation for the object referred to   *)
(* by the Request. The Controller will requeue the Request ... if an error *)
(* is non-nil" (pkg/reconcile/reconcile.go:90): a pass that returns no     *)
(* error has applied every space.                                          *)
SuccessAppliesEverySpace ==
    [][\A o \in OrgNames, spec \in OrgSpecs :
          OrgSucceeds(o, spec) =>
              \A i \in DOMAIN spec.spaces : SpaceApplied(o, spec, i)']_vars

-------------------------------------------------------------------------------
(* The spaces the loop of Reconcile reaches: those before the first one    *)
(* whose cluster is unknown.                                               *)
Reached(spec) ==
    {i \in DOMAIN spec.spaces : \A j \in 1..i : spec.spaces[j].cluster \in ClusterNames}

(* "Reconcile functions should be idempotent, and should always reconcile  *)
(* state by reading all the state it needs, then writing updates"          *)
(* (controller-runtime/FAQ.md:13): once edits stop, every reachable space  *)
(* of every org is applied and stays so.                                   *)
OrgsConverge ==
    <>[](\A o \in OrgNames : orgs[o] # Absent =>
            \A i \in Reached(orgs[o]) : SpaceApplied(o, orgs[o], i))

(* Which orgs the code does that for. No version of the org changes who    *)
(* has what in a space another version has, or lists a binding twice: the  *)
(* Create of a binding that exists ends the space. After a deletion no     *)
(* version has two spaces, of which the first may fail unnoticed.          *)
HasHad(o, spec) == <<o, spec>> \in everOrgs

NeverChanged(o) ==
    \A v, w \in OrgSpecs : HasHad(o, v) /\ HasHad(o, w) =>
        \A i \in Reached(v), j \in Reached(w) :
            /\ v.spaces[i].cluster = w.spaces[j].cluster
            /\ v.spaces[i].name = w.spaces[j].name
            => SpaceUsers(v, i) = SpaceUsers(w, j)

ListedOnce(users) ==
    \A i, j \in DOMAIN users :
        \A k \in DOMAIN users[i].roles, l \in DOMAIN users[j].roles :
            users[i].name \o users[i].roles[k] = users[j].name \o users[j].roles[l]
            => i = j /\ k = l

Steady(o) ==
    /\ NeverChanged(o)
    /\ \A v \in OrgSpecs : HasHad(o, v) =>
          /\ \A i \in Reached(v) : ListedOnce(SpaceUsers(v, i))
          /\ o \in deletions => Cardinality(Reached(v)) <= 1

(* Nothing else has made a binding or left a space half done.              *)
Undisturbed == UnambiguousNames /\ everUsers = {} /\ faults = 0 /\ crashes = 0

(* Once edits stop, every reachable space of every steady org is applied   *)
(* and stays so, although its namespace may have been terminating, its     *)
(* passes have read older versions, and orgs that can never succeed are    *)
(* retried beside it (Reconcile and the requeue of what it returns).       *)
SteadyOrgsConverge ==
    <>[](Undisturbed =>
            \A o \in OrgNames : orgs[o] # Absent /\ Steady(o) =>
                \A i \in Reached(orgs[o]) : SpaceApplied(o, orgs[o], i))

(* No deletion is forgotten while the process runs: as long as a cluster   *)
(* holds a living namespace of an org that is gone, the org's key waits or *)
(* the pass over it has that cluster still to visit, whichever clusters    *)
(* failed before, in whatever order (reconcileDeletedOrg and its requeue). *)
DeletionsRemembered ==
    crashes = 0 =>
        \A o \in OrgNames, c \in ClusterNames :
            orgs[o] = Absent /\ (\E x \in Labelled(c, o) : x.phase = "active") =>
                \/ o \in orgQueue
                \/ orgPass.pc = "reconcileDeletedOrg" /\ orgPass.org = o /\ c \in orgPass.left

(* What it rests on: a pass over an org that is gone by now has its key    *)
(* waiting, and a deletion goes on from cluster to cluster.                *)
PassesOutdated ==
    crashes = 0 =>
        /\ up
        /\ orgPass.pc \in {"getGlobalUsers", "createNamespace", "createRoleBindings"}
           /\ orgs[orgPass.org] = Absent => orgPass.org \in orgQueue

(* "attempt to reconcile *all* state for that given root objects"          *)
(* (controller-runtime/FAQ.md:8), the deleted ones included: once edits    *)
(* stop, no cluster keeps a namespace of a deleted org.                    *)
DeletedOrgsCleanedUp ==
    <>[](\A o \in OrgNames : orgs[o] = Absent =>
            \A c \in ClusterNames : Labelled(c, o) = {})

(* Once edits stop, a deleted global user holds no global-level grant.     *)
DeletedGlobalUsersRevoked ==
    <>[](\A u \in UserNames : gusers[u] = Absent =>
            \A c \in ClusterNames : \A b \in rbs[c] : b.level = globalLevel => b.user # u)

(* Once edits stop, every global user has every role in every namespace    *)
(* of every org.                                                           *)
GlobalUsersBound ==
    <>[](\A u \in GlobalUsersPresent : \A c \in ClusterNames : \A x \in nss[c] :
            \A k \in DOMAIN gusers[u] :
                \E b \in rbs[c] : b.ns = x.name /\ b.user = u /\ b.role = gusers[u][k])
===============================================================================

---------------------------- MODULE OrgReconciler -----------------------------
(***************************************************************************)
(* The reconciler of Org resources (reconcilers/org.go) and the one worker *)
(* that runs it. A pass is Org.Reconcile for one key of the work queue,    *)
(* cut at its calls: every read of the manager's cache and every API call  *)
(* is a step, and the code between two calls belongs to the first.         *)
(***************************************************************************)
EXTENDS ManagerCache, SequencesExt

VARIABLES
    orgQueue,    \* keys waiting in the work queue, delayed retries included
    orgFailing,  \* keys the queue's rate limiter counts failures for
    orgPass      \* the pass in progress

orgVars == <<orgQueue, orgFailing, orgPass>>

Idle == [pc |-> "idle"]

(* A user with the roles that createRoleBindings has still to bind. *)
Todo == [{globalLevel, otherLevel} -> Seq(User)]
NothingToDo == [l \in {globalLevel, otherLevel} |-> <<>>]

(* Local variables of Reconcile for an org that exists: its spec and the   *)
(* global users as they were read, the space reached, the bindings left.   *)
OrgApplying ==
    [pc : {"getGlobalUsers", "createNamespace", "createRoleBindings"},
     org : OrgNames, spec : OrgSpecs, globals : Seq(User),
     space : Nat, todo : Todo]

(* Local variables of reconcileDeletedOrg: the clusters left to visit. *)
OrgDeleting == [pc : {"reconcileDeletedOrg"}, org : OrgNames, left : SUBSET ClusterNames]

OrgTypeOK ==
    /\ orgQueue \subseteq OrgNames
    /\ orgFailing \subseteq OrgNames
    /\ orgPass \in {Idle} \cup OrgApplying \cup OrgDeleting
    /\ orgPass.pc \in {"createNamespace", "createRoleBindings"} =>
          /\ orgPass.space \in 1..Len(orgPass.spec.spaces)
          /\ orgPass.spec.spaces[orgPass.space].cluster \in ClusterNames
    /\ orgPass.pc = "createRoleBindings" => orgPass.todo # NothingToDo
    /\ orgPass.pc = "reconcileDeletedOrg" => orgPass.left # {}

OrgInit ==
    /\ orgQueue = {}
    /\ orgFailing = {}
    /\ orgPass = Idle

-------------------------------------------------------------------------------
(* A slip that would drop a key whose pass failed. *)
OrgReturn_NoRequeue(o, failed) ==
    /\ orgPass' = Idle
    /\ orgQueue' = orgQueue
    /\ orgFailing' = IF failed THEN orgFailing \cup {o} ELSE orgFailing \ {o}

(* Reconcile returns: an error puts the key back with a delay (rate        *)
(* limited), success makes the rate limiter forget it.                     *)
OrgReturn(o, failed) ==
    /\ orgPass' = Idle
    /\ orgQueue' = IF failed THEN orgQueue \cup {o} ELSE orgQueue
    /\ orgFailing' = IF failed THEN orgFailing \cup {o} ELSE orgFailing \ {o}

(* The worker takes a key and Get reads the org. The queue serves keys in  *)
(* the order they came; here any waiting key may be next. When the key was *)
(* taken for an event, the retry of a pass that failed still waits for the *)
(* end of its delay.                                                       *)
OrgBegin(o) ==
    /\ up /\ orgPass = Idle
    /\ o \in orgQueue
    /\ \/ orgQueue' = orgQueue \ {o}
       \/ o \in orgFailing /\ UNCHANGED orgQueue
    /\ orgPass' =
         IF orgs[o] = Absent
         THEN [pc |-> "reconcileDeletedOrg", org |-> o, left |-> ClusterNames]
         ELSE [pc |-> "getGlobalUsers", org |-> o, spec |-> orgs[o],
               globals |-> <<>>, space |-> 0, todo |-> NothingToDo]
    /\ UNCHANGED <<orgFailing, clusterVars, managerVars>>

(* The loop over the spaces reaches space i of pass p. *)
EnterSpace(p, i) ==
    IF p.spec.spaces[i].cluster \in ClusterNames
    THEN /\ orgPass' = [p EXCEPT !.pc = "createNamespace", !.space = i, !.todo = NothingToDo]
         /\ UNCHANGED <<orgQueue, orgFailing>>
    ELSE OrgReturn(p.org, TRUE)

(* reconcileSpace is done with a space. Its error is logged and kept in    *)
(* err, which the next space overwrites and Reconcile returns at the end.  *)
LeaveSpace(p, failed) ==
    IF p.space < Len(p.spec.spaces)
    THEN EnterSpace(p, p.space + 1)
    ELSE OrgReturn(p.org, failed)

(* getGlobalUsers lists the global users, in whatever order the cache      *)
(* returns them, and the loop over the spaces starts.                      *)
GlobalUserLists ==
    LET listed == {u \in UserNames : gusers[u] \notin {Absent, <<>>}}
    IN  {[i \in DOMAIN s |-> [name |-> s[i], roles |-> gusers[s[i]]]] : s \in SetToSeqs(listed)}

OrgGetGlobalUsers ==
    /\ up /\ orgPass.pc = "getGlobalUsers"
    /\ \E g \in GlobalUserLists :
          IF orgPass.spec.spaces = <<>>
          THEN OrgReturn(orgPass.org, FALSE)
          ELSE EnterSpace([orgPass EXCEPT !.globals = g], 1)
    /\ UNCHANGED <<clusterVars, managerVars>>

(* A slip that would give a space the users of the org's last space. *)
SpaceUsers_LastSpace(spec, i) == spec.users \o spec.spaces[Len(spec.spaces)].users

(* The users of the org and of its space i. *)
SpaceUsers(spec, i) == spec.users \o spec.spaces[i].users

(* createNamespace, for which a namespace of that name is as good as one   *)
(* it made; then the lists of users to bind in it are put together.        *)
OrgCreateNamespace ==
    /\ up /\ orgPass.pc = "createNamespace"
    /\ LET space == orgPass.spec.spaces[orgPass.space]
           todo == [l \in {globalLevel, otherLevel} |->
                      IF l = globalLevel THEN orgPass.globals
                                         ELSE SpaceUsers(orgPass.spec, orgPass.space)]
       IN  \E r \in {"created", "alreadyExists", "error"} :
              /\ APICreateNamespace(space.cluster, NsName(orgPass.org, space.name), orgPass.org, r)
              /\ IF r = "error" \/ todo = NothingToDo
                 THEN LeaveSpace(orgPass, r = "error")
                 ELSE /\ orgPass' = [orgPass EXCEPT !.pc = "createRoleBindings", !.todo = todo]
                      /\ UNCHANGED <<orgQueue, orgFailing>>
    /\ UNCHANGED <<cacheVars, managerVars>>

(* The next binding of createRoleBindings: the global users come first,    *)
(* each user's roles in order. Any error of Create ends the space.         *)
NextLevel(todo) == IF todo[globalLevel] # <<>> THEN globalLevel ELSE otherLevel

DropRole_KeepUser(users) ==  \* a slip: a user with no role left stays in the list
    <<[Head(users) EXCEPT !.roles = Tail(@)]>> \o Tail(users)

DropRole_FirstOnly(users) == <<>>  \* a slip: the loop ends after one binding

DropRole(users) ==
    IF Len(Head(users).roles) > 1
    THEN <<[Head(users) EXCEPT !.roles = Tail(@)]>> \o Tail(users)
    ELSE Tail(users)

OrgCreateRoleBinding ==
    /\ up /\ orgPass.pc = "createRoleBindings"
    /\ LET space == orgPass.spec.spaces[orgPass.space]
           level == NextLevel(orgPass.todo)
           user == Head(orgPass.todo[level])
           binding == [ns |-> NsName(orgPass.org, space.name), user |-> user.name,
                       role |-> Head(user.roles), level |-> level]
           rest == [orgPass.todo EXCEPT ![level] = DropRole(@)]
       IN  \E r \in {"ok", "error"} :
              /\ APICreateBinding(space.cluster, binding, r)
              /\ IF r = "error" \/ rest = NothingToDo
                 THEN LeaveSpace(orgPass, r = "error")
                 ELSE /\ orgPass' = [orgPass EXCEPT !.todo = rest]
                      /\ UNCHANGED <<orgQueue, orgFailing>>
    /\ UNCHANGED <<cacheVars, managerVars>>

(* A slip that would report the last cluster's error only. *)
OrgDeleteNamespaces_LastError(c) ==
    /\ up /\ orgPass.pc = "reconcileDeletedOrg"
    /\ c \in orgPass.left
    /\ \E r \in {"ok", "error"} :
          /\ APIDeleteNamespaces(c, orgPass.org, r)
          /\ IF orgPass.left = {c}
             THEN OrgReturn(orgPass.org, r = "error")
             ELSE /\ orgPass' = [orgPass EXCEPT !.left = @ \ {c}]
                  /\ UNCHANGED <<orgQueue, orgFailing>>
    /\ UNCHANGED <<cacheVars, managerVars>>

(* reconcileDeletedOrg visits the clusters in the random order of a Go     *)
(* map; the first error ends the pass.                                     *)
OrgDeleteNamespaces(c) ==
    /\ up /\ orgPass.pc = "reconcileDeletedOrg"
    /\ c \in orgPass.left
    /\ \E r \in {"ok", "error"} :
          /\ APIDeleteNamespaces(c, orgPass.org, r)
          /\ IF r = "error" \/ orgPass.left = {c}
             THEN OrgReturn(orgPass.org, r = "error")
             ELSE /\ orgPass' = [orgPass EXCEPT !.left = @ \ {c}]
                  /\ UNCHANGED <<orgQueue, orgFailing>>
    /\ UNCHANGED <<cacheVars, managerVars>>

(* What the worker does once it has taken a key. *)
OrgStep ==
    \/ OrgGetGlobalUsers
    \/ OrgCreateNamespace
    \/ OrgCreateRoleBinding
    \/ \E c \in ClusterNames : OrgDeleteNamespaces(c)
===============================================================================

------------------------- MODULE GlobalUserReconciler -------------------------
(***************************************************************************)
(* The reconciler of GlobalUser resources (reconcilers/global_user.go) and *)
(* the one worker that runs it, cut at its calls like OrgReconciler.       *)
(***************************************************************************)
EXTENDS ManagerCache, SequencesExt

VARIABLES
    userQueue,    \* keys waiting in the work queue, delayed retries included
    userFailing,  \* keys the queue's rate limiter counts failures for
    userPass      \* the pass in progress

userVars == <<userQueue, userFailing, userPass>>

UserIdle == [pc |-> "idle"]

(* Local variables of Reconcile for a global user that exists: the roles   *)
(* read, the clusters left, the namespaces listed in the current cluster   *)
(* and the roles still to bind in the first of them.                       *)
UserGranting ==
    [pc : {"getCfNamespaces", "createRoleBindings"},
     user : UserNames, roles : GlobalSpecs, left : SUBSET ClusterNames,
     cluster : ClusterNames \cup {Absent}, nss : Seq(NamespaceNames), todo : Seq(Roles)]

(* Local variables of reconcileDeletedGlobalUser: the clusters left and    *)
(* the listed bindings still to delete in the current one.                 *)
UserRevoking ==
    [pc : {"listRoleBindings", "deleteRoleBinding"},
     user : UserNames, left : SUBSET ClusterNames,
     cluster : ClusterNames \cup {Absent}, rbs : Seq(RoleBinding)]

UserTypeOK ==
    /\ userQueue \subseteq UserNames
    /\ userFailing \subseteq UserNames
    /\ userPass \in {UserIdle} \cup UserGranting \cup UserRevoking
    /\ userPass.pc \in {"getCfNamespaces", "listRoleBindings"} => userPass.left # {}
    /\ userPass.pc = "createRoleBindings" => 
          userPass.nss # <<>> /\ userPass.todo # <<>> /\ userPass.roles # <<>>
    /\ userPass.pc = "deleteRoleBinding" => userPass.rbs # <<>>
    /\ userPass.pc \in {"createRoleBindings", "deleteRoleBinding"} => userPass.cluster \in ClusterNames

UserInit ==
    /\ userQueue = {}
    /\ userFailing = {}
    /\ userPass = UserIdle

-------------------------------------------------------------------------------
(* Reconcile returns: see OrgReturn. *)
UserReturn(u, failed) ==
    /\ userPass' = UserIdle
    /\ userQueue' = IF failed THEN userQueue \cup {u} ELSE userQueue
    /\ userFailing' = IF failed THEN userFailing \cup {u} ELSE userFailing \ {u}

(* The pass over a global user that exists, and over one that does not. *)
Granting(u) ==
    [pc |-> "getCfNamespaces", user |-> u, roles |-> gusers[u],
     left |-> ClusterNames, cluster |-> Absent, nss |-> <<>>, todo |-> <<>>]

Revoking(u) ==
    [pc |-> "listRoleBindings", user |-> u, left |-> ClusterNames,
     cluster |-> Absent, rbs |-> <<>>]

UserPass_AlwaysRevoke(u) == Revoking(u)  \* a slip: Get's outcome is not looked at

UserPass(u) == IF gusers[u] = Absent THEN Revoking(u) ELSE Granting(u)

(* The worker takes a key and Get reads the global user: see OrgBegin. *)
UserBegin(u) ==
    /\ up /\ userPass = UserIdle
    /\ u \in userQueue
    /\ \/ userQueue' = userQueue \ {u}
       \/ u \in userFailing /\ UNCHANGED userQueue
    /\ userPass' = UserPass(u)
    /\ UNCHANGED <<userFailing, clusterVars, managerVars>>

(* The loop over the clusters is done with the current one. *)
GrantedCluster(p) ==
    IF p.left = {}
    THEN UserReturn(p.user, FALSE)
    ELSE /\ userPass' = [p EXCEPT !.pc = "getCfNamespaces", !.cluster = Absent,
                                  !.nss = <<>>, !.todo = <<>>]
         /\ UNCHANGED <<userQueue, userFailing>>

RevokedCluster(p) ==
    IF p.left = {}
    THEN UserReturn(p.user, FALSE)
    ELSE /\ userPass' = [p EXCEPT !.pc = "listRoleBindings", !.cluster = Absent, !.rbs = <<>>]
         /\ UNCHANGED <<userQueue, userFailing>>

(* getCfNamespaces: a List of the namespaces with an org label, answered   *)
(* from the cache of cluster c in any order, or refused when that cache    *)
(* has not been started yet.                                               *)
UserGetCfNamespaces(c) ==
    /\ up /\ userPass.pc = "getCfNamespaces"
    /\ c \in userPass.left
    /\ WatchNamespaces(c)
    /\ IF c \in cacheUp
       THEN \E listed \in SetToSeqs(ListedNamespaces(c)) :
               LET p == [userPass EXCEPT !.left = @ \ {c}, !.cluster = c, !.nss = listed,
                                         !.todo = userPass.roles, !.pc = "createRoleBindings"]
               IN  IF listed = <<>> \/ p.roles = <<>>
                   THEN GrantedCluster(p)
                   ELSE userPass' = p /\ UNCHANGED <<userQueue, userFailing>>
       ELSE UserReturn(userPass.user, TRUE)
    /\ UNCHANGED managerVars

(* createRoleBindings in the first of the listed namespaces. *)
UserCreateRoleBinding ==
    /\ up /\ userPass.pc = "createRoleBindings"
    /\ LET binding == [ns |-> Head(userPass.nss), user |-> userPass.user,
                       role |-> Head(userPass.todo), level |-> globalLevel]
       IN  \E r \in {"ok", "error"} :
              /\ APICreateBinding(userPass.cluster, binding, r)
              /\ \/ r = "error" /\ UserReturn(userPass.user, TRUE)
                 \/ /\ r = "ok" /\ Len(userPass.todo) > 1
                    /\ userPass' = [userPass EXCEPT !.todo = Tail(@)]
                    /\ UNCHANGED <<userQueue, userFailing>>
                 \/ /\ r = "ok" /\ Len(userPass.todo) = 1 /\ Len(userPass.nss) > 1
                    /\ userPass' = [userPass EXCEPT !.nss = Tail(@), !.todo = userPass.roles]
                    /\ UNCHANGED <<userQueue, userFailing>>
                 \/ /\ r = "ok" /\ Len(userPass.todo) = 1 /\ Len(userPass.nss) = 1
                    /\ GrantedCluster(userPass)
    /\ UNCHANGED <<cacheVars, managerVars>>

(* A List of the global-level bindings of the user, from the cache and its *)
(* field index.                                                            *)
UserListRoleBindings(c) ==
    /\ up /\ userPass.pc = "listRoleBindings"
    /\ c \in userPass.left
    /\ IF c \in cacheUp
       THEN \E listed \in SetToSeqs(ListedBindings(c, userPass.user, globalLevel)) :
               LET p == [userPass EXCEPT !.left = @ \ {c}, !.cluster = c, !.rbs = listed,
                                         !.pc = "deleteRoleBinding"]
               IN  IF listed = <<>>
                   THEN RevokedCluster(p)
                   ELSE userPass' = p /\ UNCHANGED <<userQueue, userFailing>>
       ELSE UserReturn(userPass.user, TRUE)
    /\ UNCHANGED <<clusterVars, managerVars>>

(* Delete of the next listed binding; any error ends the pass. *)
UserDeleteRoleBinding ==
    /\ up /\ userPass.pc = "deleteRoleBinding"
    /\ \E r \in {"ok", "error"} :
          /\ APIDeleteBinding(userPass.cluster, Head(userPass.rbs), r)
          /\ \/ r = "error" /\ UserReturn(userPass.user, TRUE)
             \/ /\ r = "ok" /\ Len(userPass.rbs) > 1
                /\ userPass' = [userPass EXCEPT !.rbs = Tail(@)]
                /\ UNCHANGED <<userQueue, userFailing>>
             \/ r = "ok" /\ Len(userPass.rbs) = 1 /\ RevokedCluster(userPass)
    /\ UNCHANGED <<cacheVars, managerVars>>

(* What the worker does once it has taken a key. *)
UserStep ==
    \/ \E c \in ClusterNames : UserGetCfNamespaces(c)
    \/ UserCreateRoleBinding
    \/ \E c \in ClusterNames : UserListRoleBindings(c)
    \/ UserDeleteRoleBinding
===============================================================================

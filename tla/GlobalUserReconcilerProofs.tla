---------------------- MODULE GlobalUserReconcilerProofs ----------------------
(***************************************************************************)
(* The steps of the GlobalUser reconciler keep it, and the clusters, well  *)
(* typed.                                                                  *)
(***************************************************************************)
EXTENDS GlobalUserReconciler, ClustersProofs

(* What the GlobalUser worker relies on, and keeps. *)
UserTypeInv == ClustersInv /\ ManagerTypeOK /\ UserTypeOK

-------------------------------------------------------------------------------
(* The shape of the pass at each place the worker can be in. *)
LEMMA UserPassShape ==
    ASSUME UserTypeOK
    PROVE  /\ userPass.pc \in {"getCfNamespaces", "createRoleBindings"} => userPass \in UserGranting
           /\ userPass.pc \in {"listRoleBindings", "deleteRoleBinding"} => userPass \in UserRevoking
BY DEF UserTypeOK, UserIdle, UserGranting, UserRevoking

(* Returning leaves an idle worker and a queue of keys. *)
LEMMA UserReturnType ==
    ASSUME UserTypeOK, NEW u \in UserNames, NEW failed, UserReturn(u, failed)
    PROVE  UserTypeOK'
BY DEF UserTypeOK, UserReturn, UserIdle

(* Going on to the next cluster keeps the pass well typed. *)
LEMMA GrantedClusterType ==
    ASSUME UserTypeOK, NEW p \in UserGranting, GrantedCluster(p)
    PROVE  UserTypeOK'
<1>1. CASE p.left = {}
  BY <1>1, UserReturnType DEF GrantedCluster, UserGranting
<1>2. CASE p.left # {}
  <2> DEFINE q == [p EXCEPT !.pc = "getCfNamespaces", !.cluster = Absent, !.nss = <<>>, !.todo = <<>>]
  <2>1. q \in UserGranting /\ q.pc = "getCfNamespaces" /\ q.left # {}
    BY <1>2, EmptySeq DEF UserGranting
  <2>2. userPass' = q /\ UNCHANGED <<userQueue, userFailing>>
    BY <1>2 DEF GrantedCluster
  <2> HIDE DEF q
  <2> QED
    BY <2>1, <2>2 DEF UserTypeOK
<1> QED
  BY <1>1, <1>2

(* So it does for the pass over a deleted global user.                     *)
LEMMA RevokedClusterType ==
    ASSUME UserTypeOK, NEW p \in UserRevoking, RevokedCluster(p)
    PROVE  UserTypeOK'
<1>1. CASE p.left = {}
  BY <1>1, UserReturnType DEF RevokedCluster, UserRevoking
<1>2. CASE p.left # {}
  <2> DEFINE q == [p EXCEPT !.pc = "listRoleBindings", !.cluster = Absent, !.rbs = <<>>]
  <2>1. q \in UserRevoking /\ q.pc = "listRoleBindings" /\ q.left # {}
    BY <1>2, EmptySeq DEF UserRevoking
  <2>2. userPass' = q /\ UNCHANGED <<userQueue, userFailing>>
    BY <1>2 DEF RevokedCluster
  <2> HIDE DEF q
  <2> QED
    BY <2>1, <2>2 DEF UserTypeOK
<1> QED
  BY <1>1, <1>2

-------------------------------------------------------------------------------
(* The worker takes a key. *)
LEMMA UserBeginType ==
    ASSUME UserTypeInv, NEW u \in UserNames, UserBegin(u)
    PROVE  UserTypeInv'
<1>1. ClustersInv'
  BY ClustersUnchanged DEF UserTypeInv, UserBegin
<1>2. ManagerTypeOK'
  BY DEF UserTypeInv, UserBegin, ManagerTypeOK, managerVars
<1>3. CASE gusers[u] = Absent
  <2>1. userPass' \in UserRevoking /\ userPass'.pc = "listRoleBindings" /\ userPass'.left # {}
    BY <1>3, TypesAssumption, EmptySeq DEF UserBegin, UserPass, Revoking, UserRevoking
  <2> QED
    BY <1>1, <1>2, <2>1 DEF UserTypeInv, UserTypeOK, UserBegin
<1>4. CASE gusers[u] # Absent
  <2>1. gusers[u] \in GlobalSpecs
    BY <1>4 DEF UserTypeInv, ManagerTypeOK
  <2>2. userPass' \in UserGranting /\ userPass'.pc = "getCfNamespaces" /\ userPass'.left # {}
    BY <1>4, <2>1, TypesAssumption, EmptySeq DEF UserBegin, UserPass, Granting, UserGranting
  <2> QED
    BY <1>1, <1>2, <2>2 DEF UserTypeInv, UserTypeOK, UserBegin
<1> QED
  BY <1>3, <1>4

(* It lists the namespaces of a cluster, or fails to (getCfNamespaces).    *)
LEMMA UserGetCfNamespacesType ==
    ASSUME UserTypeInv, NEW c \in ClusterNames, UserGetCfNamespaces(c)
    PROVE  UserTypeInv'
<1>1. userPass \in UserGranting
  BY UserPassShape DEF UserTypeInv, UserGetCfNamespaces
<1>2. userPass.user \in UserNames /\ userPass.roles \in Seq(Roles)
  BY <1>1, TypesAssumption DEF UserGranting
<1>3. ClustersInv'
  BY CacheInv DEF UserTypeInv, UserGetCfNamespaces
<1>4. ManagerTypeOK'
  BY DEF UserTypeInv, UserGetCfNamespaces, ManagerTypeOK, managerVars
<1>5. CASE c \notin cacheUp
  <2>1. UserReturn(userPass.user, TRUE)
    BY <1>5 DEF UserGetCfNamespaces
  <2> QED
    BY <1>2, <1>3, <1>4, <2>1, UserReturnType DEF UserTypeInv
<1>6. CASE c \in cacheUp
  <2>1. PICK listed \in SetToSeqs(ListedNamespaces(c)) :
          LET p == [userPass EXCEPT !.left = @ \ {c}, !.cluster = c, !.nss = listed,
                                    !.todo = userPass.roles, !.pc = "createRoleBindings"]
          IN  IF listed = <<>> \/ p.roles = <<>>
              THEN GrantedCluster(p)
              ELSE userPass' = p /\ UNCHANGED <<userQueue, userFailing>>
    BY <1>6 DEF UserGetCfNamespaces
  <2> DEFINE p == [userPass EXCEPT !.left = @ \ {c}, !.cluster = c, !.nss = listed,
                                   !.todo = userPass.roles, !.pc = "createRoleBindings"]
  <2>2. listed \in Seq(NamespaceNames)
    <3>1. ListedNamespaces(c) \in SUBSET NamespaceNames /\ IsFiniteSet(ListedNamespaces(c))
      BY ListedNamespacesType DEF UserTypeInv
    <3>2. listed \in Seq(ListedNamespaces(c))
      BY <3>1, OrderIsSeq
    <3> QED BY <3>1, <3>2, SeqDef
  <2>3. p \in UserGranting
    BY <1>1, <1>2, <2>2 DEF UserGranting
  <2>4. p.pc = "createRoleBindings" /\ p.nss = listed /\ p.todo = p.roles /\ p.cluster = c
    BY <1>1 DEF UserGranting
  <2>5. IF listed = <<>> \/ p.roles = <<>>
        THEN GrantedCluster(p)
        ELSE userPass' = p /\ UNCHANGED <<userQueue, userFailing>>
    BY <2>1
  <2> HIDE DEF p
  <2>6. CASE listed = <<>> \/ p.roles = <<>>
    BY <1>3, <1>4, <2>3, <2>5, <2>6, GrantedClusterType DEF UserTypeInv
  <2>7. CASE ~(listed = <<>> \/ p.roles = <<>>)
    BY <1>3, <1>4, <2>3, <2>4, <2>5, <2>7 DEF UserTypeInv, UserTypeOK
  <2> QED
    BY <2>6, <2>7
<1> QED
  BY <1>5, <1>6

(* It makes a binding, or fails to (createRoleBindings).                   *)
LEMMA UserCreateRoleBindingType ==
    ASSUME UserTypeInv, UserCreateRoleBinding
    PROVE  UserTypeInv'
<1> DEFINE binding == [ns |-> Head(userPass.nss), user |-> userPass.user,
                       role |-> Head(userPass.todo), level |-> globalLevel]
<1>1. userPass \in UserGranting /\ userPass.pc = "createRoleBindings"
  BY UserPassShape DEF UserTypeInv, UserCreateRoleBinding
<1>2. /\ userPass.user \in UserNames /\ userPass.roles \in Seq(Roles)
      /\ userPass.nss \in Seq(NamespaceNames) /\ userPass.nss # <<>>
      /\ userPass.todo \in Seq(Roles) /\ userPass.todo # <<>>
      /\ userPass.cluster \in ClusterNames
  BY <1>1, TypesAssumption DEF UserGranting, UserTypeInv, UserTypeOK
<1>3. binding \in RoleBinding
  BY <1>2, HeadTailProperties DEF RoleBinding
<1>4. PICK r \in {"ok", "error"} :
        /\ APICreateBinding(userPass.cluster, binding, r)
        /\ \/ r = "error" /\ UserReturn(userPass.user, TRUE)
           \/ /\ r = "ok" /\ Len(userPass.todo) > 1
              /\ userPass' = [userPass EXCEPT !.todo = Tail(@)]
              /\ UNCHANGED <<userQueue, userFailing>>
           \/ /\ r = "ok" /\ Len(userPass.todo) = 1 /\ Len(userPass.nss) > 1
              /\ userPass' = [userPass EXCEPT !.nss = Tail(@), !.todo = userPass.roles]
              /\ UNCHANGED <<userQueue, userFailing>>
           \/ /\ r = "ok" /\ Len(userPass.todo) = 1 /\ Len(userPass.nss) = 1
              /\ GrantedCluster(userPass)
  BY DEF UserCreateRoleBinding
<1>5. UNCHANGED <<cacheVars, managerVars>>
  BY DEF UserCreateRoleBinding
<1> HIDE DEF binding
<1>6. ClustersInv'
  BY <1>2, <1>3, <1>4, <1>5, CreateBindingInv DEF UserTypeInv
<1>7. ManagerTypeOK'
  BY <1>5 DEF UserTypeInv, ManagerTypeOK, managerVars
<1>8. CASE UserReturn(userPass.user, TRUE)
  BY <1>2, <1>6, <1>7, <1>8, UserReturnType DEF UserTypeInv
<1>9. CASE /\ Len(userPass.todo) > 1
           /\ userPass' = [userPass EXCEPT !.todo = Tail(@)]
           /\ UNCHANGED <<userQueue, userFailing>>
  <2> DEFINE q == [userPass EXCEPT !.todo = Tail(@)]
  <2>1. Tail(userPass.todo) \in Seq(Roles) /\ Tail(userPass.todo) # <<>>
    BY <1>2, <1>9, TailNotEmpty
  <2>2. q \in UserGranting /\ q.pc = "createRoleBindings" /\ q.cluster = userPass.cluster
        /\ q.nss = userPass.nss /\ q.todo = Tail(userPass.todo)
    BY <1>1, <2>1 DEF UserGranting
  <2> HIDE DEF q
  <2> QED
    BY <1>2, <1>6, <1>7, <1>9, <2>1, <2>2 DEF UserTypeInv, UserTypeOK, q
<1>10. CASE /\ Len(userPass.nss) > 1
            /\ userPass' = [userPass EXCEPT !.nss = Tail(@), !.todo = userPass.roles]
            /\ UNCHANGED <<userQueue, userFailing>>
  <2> DEFINE q == [userPass EXCEPT !.nss = Tail(@), !.todo = userPass.roles]
  <2>1. Tail(userPass.nss) \in Seq(NamespaceNames) /\ Tail(userPass.nss) # <<>>
    BY <1>2, <1>10, TailNotEmpty
  <2>2. q \in UserGranting /\ q.pc = "createRoleBindings" /\ q.cluster = userPass.cluster
        /\ q.nss = Tail(userPass.nss) /\ q.todo = userPass.roles
    BY <1>1, <1>2, <2>1 DEF UserGranting
  <2>3. userPass.roles # <<>>
    BY <1>1 DEF UserTypeInv, UserTypeOK
  <2> HIDE DEF q
  <2> QED
    BY <1>2, <1>6, <1>7, <1>10, <2>1, <2>2, <2>3 DEF UserTypeInv, UserTypeOK, q
<1>11. CASE GrantedCluster(userPass)
  BY <1>1, <1>6, <1>7, <1>11, GrantedClusterType DEF UserTypeInv
<1> QED
  BY <1>4, <1>8, <1>9, <1>10, <1>11

(* It lists the bindings to delete, or fails to.                           *)
LEMMA UserListRoleBindingsType ==
    ASSUME UserTypeInv, NEW c \in ClusterNames, UserListRoleBindings(c)
    PROVE  UserTypeInv'
<1>1. userPass \in UserRevoking
  BY UserPassShape DEF UserTypeInv, UserListRoleBindings
<1>2. userPass.user \in UserNames
  BY <1>1 DEF UserRevoking
<1>3. ClustersInv'
  BY ClustersUnchanged DEF UserTypeInv, UserListRoleBindings
<1>4. ManagerTypeOK'
  BY DEF UserTypeInv, UserListRoleBindings, ManagerTypeOK, managerVars
<1>5. CASE c \notin cacheUp
  <2>1. UserReturn(userPass.user, TRUE)
    BY <1>5 DEF UserListRoleBindings
  <2> QED
    BY <1>2, <1>3, <1>4, <2>1, UserReturnType DEF UserTypeInv
<1>6. CASE c \in cacheUp
  <2>1. PICK listed \in SetToSeqs(ListedBindings(c, userPass.user, globalLevel)) :
          LET p == [userPass EXCEPT !.left = @ \ {c}, !.cluster = c, !.rbs = listed,
                                    !.pc = "deleteRoleBinding"]
          IN  IF listed = <<>>
              THEN RevokedCluster(p)
              ELSE userPass' = p /\ UNCHANGED <<userQueue, userFailing>>
    BY <1>6 DEF UserListRoleBindings
  <2> DEFINE L == ListedBindings(c, userPass.user, globalLevel)
             p == [userPass EXCEPT !.left = @ \ {c}, !.cluster = c, !.rbs = listed,
                                   !.pc = "deleteRoleBinding"]
  <2>2. listed \in Seq(RoleBinding)
    <3>1. L \in SUBSET RoleBinding /\ IsFiniteSet(L)
      BY ListedBindingsType DEF UserTypeInv
    <3>2. listed \in SetToSeqs(L)
      BY <2>1
    <3> HIDE DEF L
    <3>3. listed \in Seq(L)
      BY <3>1, <3>2, OrderIsSeq
    <3> QED BY <3>1, <3>3, SeqDef
  <2>3. p \in UserRevoking
    BY <1>1, <2>2 DEF UserRevoking
  <2>4. p.pc = "deleteRoleBinding" /\ p.rbs = listed /\ p.cluster = c
    BY <1>1 DEF UserRevoking
  <2>5. IF listed = <<>>
        THEN RevokedCluster(p)
        ELSE userPass' = p /\ UNCHANGED <<userQueue, userFailing>>
    BY <2>1
  <2> HIDE DEF p
  <2>6. CASE listed = <<>>
    BY <1>3, <1>4, <2>3, <2>5, <2>6, RevokedClusterType DEF UserTypeInv
  <2>7. CASE listed # <<>>
    BY <1>3, <1>4, <2>3, <2>4, <2>5, <2>7 DEF UserTypeInv, UserTypeOK
  <2> QED
    BY <2>6, <2>7
<1> QED
  BY <1>5, <1>6

(* It deletes a binding, or fails to.                                      *)
LEMMA UserDeleteRoleBindingType ==
    ASSUME UserTypeInv, UserDeleteRoleBinding
    PROVE  UserTypeInv'
<1>1. userPass \in UserRevoking /\ userPass.pc = "deleteRoleBinding"
  BY UserPassShape DEF UserTypeInv, UserDeleteRoleBinding
<1>2. /\ userPass.user \in UserNames
      /\ userPass.rbs \in Seq(RoleBinding) /\ userPass.rbs # <<>>
      /\ userPass.cluster \in ClusterNames
  BY <1>1 DEF UserRevoking, UserTypeInv, UserTypeOK
<1>3. PICK r \in {"ok", "error"} :
        /\ APIDeleteBinding(userPass.cluster, Head(userPass.rbs), r)
        /\ \/ r = "error" /\ UserReturn(userPass.user, TRUE)
           \/ /\ r = "ok" /\ Len(userPass.rbs) > 1
              /\ userPass' = [userPass EXCEPT !.rbs = Tail(@)]
              /\ UNCHANGED <<userQueue, userFailing>>
           \/ r = "ok" /\ Len(userPass.rbs) = 1 /\ RevokedCluster(userPass)
  BY DEF UserDeleteRoleBinding
<1>4. UNCHANGED <<cacheVars, managerVars>>
  BY DEF UserDeleteRoleBinding
<1>5. ClustersInv'
  BY <1>2, <1>3, <1>4, DeleteBindingInv DEF UserTypeInv
<1>6. ManagerTypeOK'
  BY <1>4 DEF UserTypeInv, ManagerTypeOK, managerVars
<1>7. CASE UserReturn(userPass.user, TRUE)
  BY <1>2, <1>5, <1>6, <1>7, UserReturnType DEF UserTypeInv
<1>8. CASE /\ Len(userPass.rbs) > 1
           /\ userPass' = [userPass EXCEPT !.rbs = Tail(@)]
           /\ UNCHANGED <<userQueue, userFailing>>
  <2> DEFINE q == [userPass EXCEPT !.rbs = Tail(@)]
  <2>1. Tail(userPass.rbs) \in Seq(RoleBinding) /\ Tail(userPass.rbs) # <<>>
    BY <1>2, <1>8, TailNotEmpty
  <2>2. q \in UserRevoking /\ q.pc = "deleteRoleBinding" /\ q.cluster = userPass.cluster
        /\ q.rbs = Tail(userPass.rbs)
    BY <1>1, <2>1 DEF UserRevoking
  <2> HIDE DEF q
  <2> QED
    BY <1>2, <1>5, <1>6, <1>8, <2>1, <2>2 DEF UserTypeInv, UserTypeOK, q
<1>9. CASE RevokedCluster(userPass)
  BY <1>1, <1>5, <1>6, <1>9, RevokedClusterType DEF UserTypeInv
<1> QED
  BY <1>3, <1>7, <1>8, <1>9

(* Whatever the GlobalUser worker does keeps the types.                    *)
LEMMA UserStepType ==
    ASSUME UserTypeInv, UserStep \/ \E u \in UserNames : UserBegin(u)
    PROVE  UserTypeInv'
BY UserBeginType, UserGetCfNamespacesType, UserCreateRoleBindingType,
   UserListRoleBindingsType, UserDeleteRoleBindingType DEF UserStep
===============================================================================

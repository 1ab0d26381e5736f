------------------------- MODULE OrgReconcilerProofs --------------------------
(***************************************************************************)
(* The steps of the Org reconciler keep it, and the clusters, well typed.  *)
(***************************************************************************)
EXTENDS OrgReconciler, ClustersProofs

(* What the Org worker relies on, and keeps. *)
OrgTypeInv == ClustersInv /\ ManagerTypeOK /\ OrgTypeOK

-------------------------------------------------------------------------------
(* Dropping the role just bound leaves a list of users with roles to bind, *)
(* and the binding made was for a user and a role of the data.             *)
LEMMA DropRoleType ==
    ASSUME NEW users \in Seq(User), users # <<>>
    PROVE  /\ Head(users) \in User
           /\ Head(Head(users).roles) \in Roles
           /\ DropRole(users) \in Seq(User)
<1>1. Head(users) \in User /\ Tail(users) \in Seq(User)
  BY HeadTailProperties
<1>2. Head(users).roles \in Seq(Roles) /\ Head(users).roles # <<>>
  BY <1>1 DEF User
<1>3. Head(Head(users).roles) \in Roles /\ Tail(Head(users).roles) \in Seq(Roles)
  BY <1>2, HeadTailProperties
<1>4. CASE Len(Head(users).roles) > 1
  <2> DEFINE rest == [Head(users) EXCEPT !.roles = Tail(@)]
  <2>1. Tail(Head(users).roles) # <<>>
    BY <1>2, <1>4, TailNotEmpty
  <2>2. rest \in User
    <3> DEFINE RoleLists == Seq(Roles) \ {<<>>}
    <3>1. \A u \in User, rs \in RoleLists : [u EXCEPT !.roles = rs] \in User
      <4>1. User = [name : UserNames, roles : RoleLists]
        BY DEF User
      <4> HIDE DEF RoleLists
      <4> QED BY <4>1
    <3> QED BY <1>1, <1>3, <2>1, <3>1
  <2>3. <<rest>> \o Tail(users) \in Seq(User)
    <3> HIDE DEF rest
    <3>1. <<rest>> \in Seq(User)
      BY <2>2
    <3> QED BY <1>1, <3>1, ConcatProperties
  <2> QED
    BY <1>1, <1>3, <1>4, <2>3 DEF DropRole
<1>5. CASE ~(Len(Head(users).roles) > 1)
  BY <1>1, <1>3, <1>5 DEF DropRole
<1> QED
  BY <1>4, <1>5

(* Every order in which the cache may list the global users is a list of   *)
(* users with roles (getGlobalUsers).                                      *)
LEMMA GlobalUserListsType ==
    ASSUME ManagerTypeOK, NEW g \in GlobalUserLists
    PROVE  g \in Seq(User)
<1> DEFINE listed == {u \in UserNames : gusers[u] \notin {Absent, <<>>}}
<1>1. PICK s \in SetToSeqs(listed) : g = [i \in DOMAIN s |-> [name |-> s[i], roles |-> gusers[s[i]]]]
  BY DEF GlobalUserLists
<1>2. IsFiniteSet(listed)
  BY TypesAssumption, FS_Subset
<1>3. s \in Seq(listed)
  <2> HIDE DEF listed
  <2> QED BY <1>1, <1>2, OrderIsSeq
<1>4. \A u \in listed : [name |-> u, roles |-> gusers[u]] \in User
  BY TypesAssumption DEF ManagerTypeOK, User
<1>5. s \in [1..Len(s) -> listed] /\ DOMAIN s = 1..Len(s) /\ Len(s) \in Nat
  <2> HIDE DEF listed
  <2> QED BY <1>3, LenProperties
<1>6. g \in [1..Len(s) -> User]
  <2> HIDE DEF listed
  <2> QED BY <1>1, <1>4, <1>5
<1> QED
  BY <1>5, <1>6, FunctionIsSeq

-------------------------------------------------------------------------------
(* Having nothing to do is a way to have bindings left to make. *)
LEMMA NothingToDoType == NothingToDo \in Todo
BY DEF NothingToDo, Todo

(* Returning leaves an idle worker and a queue of keys. *)
LEMMA OrgReturnType ==
    ASSUME OrgTypeOK, NEW o \in OrgNames, NEW failed, OrgReturn(o, failed)
    PROVE  OrgTypeOK'
BY DEF OrgTypeOK, OrgReturn, Idle

(* So does entering a space of a well typed pass.                          *)
LEMMA EnterSpaceType ==
    ASSUME OrgTypeOK, NEW p \in OrgApplying, NEW i \in 1..Len(p.spec.spaces), EnterSpace(p, i)
    PROVE  OrgTypeOK'
<1>1. CASE p.spec.spaces[i].cluster \in ClusterNames
  <2> DEFINE q == [p EXCEPT !.pc = "createNamespace", !.space = i, !.todo = NothingToDo]
  <2>1. q \in OrgApplying
    <3>1. Len(p.spec.spaces) \in Nat
      BY TypesAssumption, LenProperties DEF OrgApplying, OrgSpec
    <3>2. i \in Nat
      BY <3>1
    <3> QED BY <3>2, NothingToDoType DEF OrgApplying
  <2>2. q.pc = "createNamespace" /\ q.space = i /\ q.spec = p.spec
    BY DEF OrgApplying
  <2>3. orgPass' = q /\ UNCHANGED <<orgQueue, orgFailing>>
    BY <1>1 DEF EnterSpace
  <2> HIDE DEF q
  <2> QED
    BY <1>1, <2>1, <2>2, <2>3 DEF OrgTypeOK
<1>2. CASE p.spec.spaces[i].cluster \notin ClusterNames
  BY <1>2, OrgReturnType DEF EnterSpace, OrgApplying
<1> QED
  BY <1>1, <1>2

(* Leaving a space enters the next or returns.                             *)
LEMMA LeaveSpaceType ==
    ASSUME OrgTypeOK, NEW p \in OrgApplying, p.space \in 1..Len(p.spec.spaces),
           NEW failed, LeaveSpace(p, failed)
    PROVE  OrgTypeOK'
<1>1. p.spec.spaces \in Seq(Space) /\ p.org \in OrgNames
  BY TypesAssumption DEF OrgApplying, OrgSpec
<1>2. CASE p.space < Len(p.spec.spaces)
  <2>1. p.space + 1 \in 1..Len(p.spec.spaces)
    BY <1>1, <1>2, LenProperties
  <2> QED
    BY <1>2, <2>1, EnterSpaceType DEF LeaveSpace
<1>3. CASE ~(p.space < Len(p.spec.spaces))
  BY <1>1, <1>3, OrgReturnType DEF LeaveSpace
<1> QED
  BY <1>2, <1>3

-------------------------------------------------------------------------------
(* The worker takes a key. *)
LEMMA OrgBeginType ==
    ASSUME OrgTypeInv, NEW o \in OrgNames, OrgBegin(o)
    PROVE  OrgTypeInv'
<1>1. ClustersInv'
  BY ClustersUnchanged DEF OrgTypeInv, OrgBegin
<1>2. ManagerTypeOK'
  BY DEF OrgTypeInv, OrgBegin, ManagerTypeOK, managerVars
<1>3. CASE orgs[o] = Absent
  <2>1. orgPass' \in OrgDeleting /\ orgPass'.pc = "reconcileDeletedOrg" /\ orgPass'.left # {}
    BY <1>3, TypesAssumption DEF OrgBegin, OrgDeleting
  <2> QED
    BY <1>1, <1>2, <2>1 DEF OrgTypeInv, OrgTypeOK, OrgBegin
<1>4. CASE orgs[o] # Absent
  <2>1. orgs[o] \in OrgSpecs
    BY <1>4 DEF OrgTypeInv, ManagerTypeOK
  <2>2. orgPass' \in OrgApplying
    BY <1>4, <2>1 DEF OrgBegin, OrgApplying, Todo, NothingToDo
  <2>3. orgPass'.pc = "getGlobalUsers"
    BY <1>4 DEF OrgBegin
  <2> QED
    BY <1>1, <1>2, <2>2, <2>3 DEF OrgTypeInv, OrgTypeOK, OrgBegin
<1> QED
  BY <1>1, <1>2, <1>3, <1>4 DEF OrgTypeInv

(* The shape of the pass at each place the worker can be in. *)
LEMMA OrgPassShape ==
    ASSUME OrgTypeOK
    PROVE  /\ orgPass.pc \in {"getGlobalUsers", "createNamespace", "createRoleBindings"}
                 => orgPass \in OrgApplying
           /\ orgPass.pc = "reconcileDeletedOrg" => orgPass \in OrgDeleting
BY DEF OrgTypeOK, Idle, OrgApplying, OrgDeleting

(* It lists the global users (getGlobalUsers).                             *)
LEMMA OrgGetGlobalUsersType ==
    ASSUME OrgTypeInv, OrgGetGlobalUsers
    PROVE  OrgTypeInv'
<1>1. ClustersInv'
  BY ClustersUnchanged DEF OrgTypeInv, OrgGetGlobalUsers
<1>2. ManagerTypeOK'
  BY DEF OrgTypeInv, OrgGetGlobalUsers, ManagerTypeOK, managerVars
<1>3. orgPass \in OrgApplying
  BY OrgPassShape DEF OrgTypeInv, OrgGetGlobalUsers
<1>4. orgPass.org \in OrgNames /\ orgPass.spec.spaces \in Seq(Space)
  BY <1>3, TypesAssumption DEF OrgApplying, OrgSpec
<1>5. PICK g \in GlobalUserLists :
          IF orgPass.spec.spaces = <<>>
          THEN OrgReturn(orgPass.org, FALSE)
          ELSE EnterSpace([orgPass EXCEPT !.globals = g], 1)
  BY DEF OrgGetGlobalUsers
<1>6. CASE orgPass.spec.spaces = <<>>
  BY <1>1, <1>2, <1>4, <1>5, <1>6, OrgReturnType DEF OrgTypeInv
<1>7. CASE orgPass.spec.spaces # <<>>
  <2> DEFINE p == [orgPass EXCEPT !.globals = g]
  <2>1. g \in Seq(User)
    BY GlobalUserListsType DEF OrgTypeInv
  <2>2. p \in OrgApplying /\ p.spec = orgPass.spec
    BY <1>3, <2>1 DEF OrgApplying
  <2>3. 1 \in 1..Len(p.spec.spaces)
    BY <1>4, <1>7, <2>2, EmptySeq
  <2>4. EnterSpace(p, 1)
    BY <1>5, <1>7
  <2> HIDE DEF p
  <2>5. OrgTypeOK'
    BY <2>2, <2>3, <2>4, EnterSpaceType DEF OrgTypeInv
  <2> QED
    BY <1>1, <1>2, <2>5 DEF OrgTypeInv
<1> QED
  BY <1>6, <1>7

(* It makes the namespace of a space, or fails to (createNamespace).       *)
LEMMA OrgCreateNamespaceType ==
    ASSUME OrgTypeInv, OrgCreateNamespace
    PROVE  OrgTypeInv'
<1> DEFINE space == orgPass.spec.spaces[orgPass.space]
           todo == [l \in {globalLevel, otherLevel} |->
                      IF l = globalLevel THEN orgPass.globals
                                         ELSE SpaceUsers(orgPass.spec, orgPass.space)]
<1>1. orgPass \in OrgApplying
  BY OrgPassShape DEF OrgTypeInv, OrgCreateNamespace
<1>2. /\ orgPass.org \in OrgNames
      /\ orgPass.spec \in OrgSpec
      /\ orgPass.globals \in Seq(User)
  BY <1>1, TypesAssumption DEF OrgApplying
<1>3. /\ orgPass.space \in 1..Len(orgPass.spec.spaces)
      /\ space.cluster \in ClusterNames
  BY DEF OrgTypeInv, OrgTypeOK, OrgCreateNamespace
<1>4. space \in Space /\ orgPass.spec.users \in Seq(User)
  BY <1>2, <1>3, ElementOfSeq DEF OrgSpec
<1>5. NsName(orgPass.org, space.name) \in NamespaceNames
  BY <1>2, <1>4, NsNameType DEF Space
<1>6. SpaceUsers(orgPass.spec, orgPass.space) \in Seq(User)
  BY <1>4, ConcatProperties DEF SpaceUsers, Space
<1>7. todo \in Todo
  BY <1>2, <1>6 DEF Todo
<1>8. PICK r \in {"created", "alreadyExists", "error"} :
          /\ APICreateNamespace(space.cluster, NsName(orgPass.org, space.name), orgPass.org, r)
          /\ IF r = "error" \/ todo = NothingToDo
             THEN LeaveSpace(orgPass, r = "error")
             ELSE /\ orgPass' = [orgPass EXCEPT !.pc = "createRoleBindings", !.todo = todo]
                  /\ UNCHANGED <<orgQueue, orgFailing>>
  BY DEF OrgCreateNamespace
<1>9. UNCHANGED <<cacheVars, managerVars>>
  BY DEF OrgCreateNamespace
<1> HIDE DEF space, todo
<1>10. ClustersInv'
  BY <1>2, <1>3, <1>5, <1>8, <1>9, CreateNamespaceInv DEF OrgTypeInv
<1>11. ManagerTypeOK'
  BY <1>9 DEF OrgTypeInv, ManagerTypeOK, managerVars
<1>12. CASE r = "error" \/ todo = NothingToDo
  BY <1>1, <1>3, <1>8, <1>10, <1>11, <1>12, LeaveSpaceType DEF OrgTypeInv
<1>13. CASE ~(r = "error" \/ todo = NothingToDo)
  <2> DEFINE q == [orgPass EXCEPT !.pc = "createRoleBindings", !.todo = todo]
  <2>1. /\ q \in OrgApplying /\ q.pc = "createRoleBindings" /\ q.todo = todo
        /\ q.space = orgPass.space /\ q.spec = orgPass.spec
    BY <1>1, <1>7 DEF OrgApplying
  <2>2. orgPass' = q /\ UNCHANGED <<orgQueue, orgFailing>>
    BY <1>8, <1>13
  <2> HIDE DEF q
  <2>3. OrgTypeOK'
    BY <1>3, <1>13, <2>1, <2>2 DEF OrgTypeInv, OrgTypeOK, space
  <2> QED
    BY <1>10, <1>11, <2>3 DEF OrgTypeInv
<1> QED
  BY <1>12, <1>13

(* It makes a binding, or fails to (createRoleBindings).                   *)
LEMMA OrgCreateRoleBindingType ==
    ASSUME OrgTypeInv, OrgCreateRoleBinding
    PROVE  OrgTypeInv'
<1> DEFINE space == orgPass.spec.spaces[orgPass.space]
           level == NextLevel(orgPass.todo)
           user == Head(orgPass.todo[level])
           binding == [ns |-> NsName(orgPass.org, space.name), user |-> user.name,
                       role |-> Head(user.roles), level |-> level]
           rest == [orgPass.todo EXCEPT ![level] = DropRole(@)]
<1>1. orgPass \in OrgApplying
  BY OrgPassShape DEF OrgTypeInv, OrgCreateRoleBinding
<1>2. /\ orgPass.org \in OrgNames
      /\ orgPass.spec \in OrgSpec
      /\ orgPass.todo \in Todo
  BY <1>1, TypesAssumption DEF OrgApplying
<1>3. /\ orgPass.space \in 1..Len(orgPass.spec.spaces)
      /\ space.cluster \in ClusterNames
      /\ orgPass.todo # NothingToDo
      /\ orgPass.pc = "createRoleBindings"
  BY DEF OrgTypeInv, OrgTypeOK, OrgCreateRoleBinding
<1>4. space \in Space
  BY <1>2, <1>3, ElementOfSeq DEF OrgSpec
<1>5. NsName(orgPass.org, space.name) \in NamespaceNames
  BY <1>2, <1>4, NsNameType DEF Space
<1>6. /\ level \in {globalLevel, otherLevel}
      /\ orgPass.todo[level] \in Seq(User)
      /\ orgPass.todo[level] # <<>>
  BY <1>2, <1>3 DEF NextLevel, Todo, NothingToDo
<1>7. user \in User /\ Head(user.roles) \in Roles /\ DropRole(orgPass.todo[level]) \in Seq(User)
  BY <1>6, DropRoleType
<1>8. binding \in RoleBinding
  BY <1>5, <1>6, <1>7 DEF RoleBinding, User
<1>9. rest \in Todo
  BY <1>2, <1>6, <1>7 DEF Todo
<1>10. PICK r \in {"ok", "error"} :
          /\ APICreateBinding(space.cluster, binding, r)
          /\ IF r = "error" \/ rest = NothingToDo
             THEN LeaveSpace(orgPass, r = "error")
             ELSE /\ orgPass' = [orgPass EXCEPT !.todo = rest]
                  /\ UNCHANGED <<orgQueue, orgFailing>>
  BY DEF OrgCreateRoleBinding
<1>11. UNCHANGED <<cacheVars, managerVars>>
  BY DEF OrgCreateRoleBinding
<1> HIDE DEF space, level, user, binding, rest
<1>12. ClustersInv'
  BY <1>3, <1>8, <1>10, <1>11, CreateBindingInv DEF OrgTypeInv
<1>13. ManagerTypeOK'
  BY <1>11 DEF OrgTypeInv, ManagerTypeOK, managerVars
<1>14. CASE r = "error" \/ rest = NothingToDo
  BY <1>1, <1>3, <1>10, <1>12, <1>13, <1>14, LeaveSpaceType DEF OrgTypeInv
<1>15. CASE ~(r = "error" \/ rest = NothingToDo)
  <2> DEFINE q == [orgPass EXCEPT !.todo = rest]
  <2>1. /\ q \in OrgApplying /\ q.pc = "createRoleBindings" /\ q.todo = rest
        /\ q.space = orgPass.space /\ q.spec = orgPass.spec
    BY <1>1, <1>3, <1>9 DEF OrgApplying
  <2>2. orgPass' = q /\ UNCHANGED <<orgQueue, orgFailing>>
    BY <1>10, <1>15
  <2> HIDE DEF q
  <2>3. OrgTypeOK'
    BY <1>3, <1>15, <2>1, <2>2 DEF OrgTypeInv, OrgTypeOK, space
  <2> QED
    BY <1>12, <1>13, <2>3 DEF OrgTypeInv
<1> QED
  BY <1>14, <1>15

(* It deletes the namespaces of an org in a cluster, or fails to           *)
(* (reconcileDeletedOrg).                                                  *)
LEMMA OrgDeleteNamespacesType ==
    ASSUME OrgTypeInv, NEW c \in ClusterNames, OrgDeleteNamespaces(c)
    PROVE  OrgTypeInv'
<1>1. /\ orgPass \in OrgDeleting /\ orgPass.pc = "reconcileDeletedOrg"
      /\ orgPass.org \in OrgNames /\ orgPass.left \in SUBSET ClusterNames /\ c \in orgPass.left
  BY OrgPassShape DEF OrgTypeInv, OrgDeleteNamespaces, OrgDeleting
<1>2. PICK r \in {"ok", "error"} :
          /\ APIDeleteNamespaces(c, orgPass.org, r)
          /\ IF r = "error" \/ orgPass.left = {c}
             THEN OrgReturn(orgPass.org, r = "error")
             ELSE /\ orgPass' = [orgPass EXCEPT !.left = @ \ {c}]
                  /\ UNCHANGED <<orgQueue, orgFailing>>
  BY DEF OrgDeleteNamespaces
<1>3. UNCHANGED <<cacheVars, managerVars>>
  BY DEF OrgDeleteNamespaces
<1>4. ClustersInv'
  BY <1>2, <1>3, DeleteNamespacesInv DEF OrgTypeInv
<1>5. ManagerTypeOK'
  BY <1>3 DEF OrgTypeInv, ManagerTypeOK, managerVars
<1>6. CASE r = "error" \/ orgPass.left = {c}
  BY <1>1, <1>2, <1>4, <1>5, <1>6, OrgReturnType DEF OrgTypeInv
<1>7. CASE ~(r = "error" \/ orgPass.left = {c})
  <2> DEFINE q == [orgPass EXCEPT !.left = @ \ {c}]
  <2>1. q \in OrgDeleting /\ q.pc = "reconcileDeletedOrg" /\ q.left # {}
    BY <1>1, <1>7 DEF OrgDeleting
  <2>2. orgPass' = q /\ UNCHANGED <<orgQueue, orgFailing>>
    BY <1>2, <1>7
  <2> HIDE DEF q
  <2>3. OrgTypeOK'
    BY <2>1, <2>2 DEF OrgTypeInv, OrgTypeOK
  <2> QED
    BY <1>4, <1>5, <2>3 DEF OrgTypeInv
<1> QED
  BY <1>6, <1>7

(* Whatever the Org worker does keeps the types. *)
LEMMA OrgStepType ==
    ASSUME OrgTypeInv, OrgStep \/ \E o \in OrgNames : OrgBegin(o)
    PROVE  OrgTypeInv'
BY OrgBeginType, OrgGetGlobalUsersType, OrgCreateNamespaceType, OrgCreateRoleBindingType,
   OrgDeleteNamespacesType DEF OrgStep
===============================================================================

------------------------- MODULE OrgControllerProofs --------------------------
(***************************************************************************)
(* Theorems about the org controller, for every set of names, clusters and *)
(* specs, and however many edits, faults and crashes there are.            *)
(***************************************************************************)
EXTENDS OrgProperties, OrgReconcilerProofs, GlobalUserReconcilerProofs

(* The state is well typed and what the caches list is finite.             *)
TypeInv == ClustersInv /\ TypeOK

-------------------------------------------------------------------------------
(* The initial state is well typed.                                        *)
LEMMA InitTypeInv == Init => TypeInv
<1> SUFFICES ASSUME Init PROVE TypeInv
  OBVIOUS
<1>1. ClustersInv
  BY ClustersInitInv DEF Init
<1>2. ManagerTypeOK /\ OrgTypeOK /\ UserTypeOK
  BY DEF Init, ManagerInit, OrgInit, UserInit, ManagerTypeOK, OrgTypeOK, UserTypeOK, Idle, UserIdle
<1> QED
  BY <1>1, <1>2, OrgControllerAssumption DEF Init, TypeInv, TypeOK, ClustersInv

(* The queue of a controller that is up or down holds keys.                *)
LEMMA EnqueuedType ==
    ASSUME NEW S, NEW queue \in SUBSET S, NEW k \in S
    PROVE  Enqueued(queue, k) \in SUBSET S
BY DEF Enqueued

(* Users' edits keep the types.                                            *)
LEMMA UserEditType ==
    ASSUME TypeInv, UserEdit
    PROVE  TypeInv'
<1>1. ClustersInv' /\ UNCHANGED <<orgFailing, orgPass, userFailing, userPass, crashes>>
  BY ClustersUnchanged
     DEF TypeInv, UserEdit, PutOrg, DeleteOrg, PutGlobalUser, DeleteGlobalUser, orgVars, userVars
<1>2. edits' \in 0..MaxEdits
  BY OrgControllerAssumption
     DEF TypeInv, TypeOK, UserEdit, PutOrg, DeleteOrg, PutGlobalUser, DeleteGlobalUser, Edit
<1>3. orgQueue' \in SUBSET OrgNames /\ userQueue' \in SUBSET UserNames
  BY EnqueuedType
     DEF TypeInv, TypeOK, OrgTypeOK, UserTypeOK, UserEdit, PutOrg, DeleteOrg, PutGlobalUser,
         DeleteGlobalUser, orgVars, userVars
<1>4. ManagerTypeOK'
  BY DEF TypeInv, TypeOK, ManagerTypeOK, UserEdit, PutOrg, DeleteOrg, PutGlobalUser, DeleteGlobalUser
<1>5. /\ everOrgs' \in SUBSET (OrgNames \X OrgSpecs)
      /\ everUsers' \in SUBSET (UserNames \X GlobalSpecs)
      /\ deletions' \in SUBSET OrgNames
  BY DEF TypeInv, TypeOK, UserEdit, PutOrg, DeleteOrg, PutGlobalUser, DeleteGlobalUser, historyVars
<1> QED
  BY <1>1, <1>2, <1>3, <1>4, <1>5 DEF TypeInv, TypeOK, OrgTypeOK, UserTypeOK, ClustersInv

(* So do resyncs, crashes and starts.                                      *)
LEMMA ProcessType ==
    ASSUME TypeInv, Resync \/ Crash \/ Start
    PROVE  TypeInv'
<1>1. CASE Resync
  <2>1. ClustersInv'
    BY <1>1, ClustersUnchanged DEF TypeInv, Resync, ResyncOrg, ResyncGlobalUser
  <2> QED
    BY <1>1, <2>1
       DEF TypeInv, TypeOK, ClustersInv, ManagerTypeOK, OrgTypeOK, UserTypeOK, Resync, ResyncOrg,
           ResyncGlobalUser, managerVars, orgVars, userVars, boundVars, historyVars
<1>2. CASE Crash
  <2>1. ClustersInv'
    <3>1. IsFiniteSet({})
      BY FS_EmptySet
    <3> QED
      BY <1>2, <3>1 DEF TypeInv, ClustersInv, ClustersTypeOK, Crash, apiVars
  <2>2. crashes' \in 0..MaxCrashes
    BY <1>2, OrgControllerAssumption DEF TypeInv, TypeOK, Crash
  <2> QED
    BY <1>2, <2>1, <2>2
       DEF TypeInv, TypeOK, ClustersInv, ManagerTypeOK, OrgTypeOK, UserTypeOK, Crash, Idle,
           UserIdle, historyVars
<1>3. CASE Start
  <2>1. ClustersInv'
    BY <1>3, ClustersUnchanged DEF TypeInv, Start
  <2> QED
    BY <1>3, <2>1
       DEF TypeInv, TypeOK, ClustersInv, ManagerTypeOK, OrgTypeOK, UserTypeOK, Start, OrgsPresent,
           GlobalUsersPresent, boundVars, historyVars
<1> QED
  BY <1>1, <1>2, <1>3

(* Every step keeps the types.                                             *)
LEMMA NextTypeInv == TypeInv /\ [Next]_vars => TypeInv'
<1> SUFFICES ASSUME TypeInv, [Next]_vars PROVE TypeInv'
  OBVIOUS
<1>1. CASE OrgWorker
  <2>1. OrgTypeInv'
    BY <1>1, OrgStepType DEF OrgWorker, TypeInv, TypeOK, OrgTypeInv
  <2> QED
    BY <1>1, <2>1
       DEF TypeInv, TypeOK, OrgTypeInv, ClustersInv, UserTypeOK, OrgWorker, userVars, boundVars, historyVars
<1>2. CASE UserWorker
  <2>1. UserTypeInv'
    BY <1>2, UserStepType DEF UserWorker, TypeInv, TypeOK, UserTypeInv
  <2> QED
    BY <1>2, <2>1
       DEF TypeInv, TypeOK, UserTypeInv, ClustersInv, OrgTypeOK, UserWorker, orgVars, boundVars, historyVars
<1>3. ASSUME NEW c \in ClusterNames, ClusterStep(c) PROVE TypeInv'
  <2>1. ClustersInv'
    BY <1>3, CacheInv, NamespaceControllerInv DEF ClusterStep, TypeInv
  <2> QED
    BY <1>3, <2>1
       DEF TypeInv, TypeOK, ClustersInv, ManagerTypeOK, OrgTypeOK, UserTypeOK, ClusterStep,
           managerVars, orgVars, userVars, boundVars, historyVars
<1>4. CASE UserEdit
  BY <1>4, UserEditType
<1>5. CASE Resync \/ Crash \/ Start
  BY <1>5, ProcessType
<1>6. CASE UNCHANGED vars
  <2>1. ClustersInv'
    BY <1>6, ClustersUnchanged DEF TypeInv, vars
  <2> QED
    BY <1>6, <2>1
       DEF TypeInv, TypeOK, ClustersInv, ManagerTypeOK, OrgTypeOK, UserTypeOK, vars,
           managerVars, orgVars, userVars, boundVars, historyVars
<1> QED
  BY <1>1, <1>2, <1>3, <1>4, <1>5, <1>6 DEF Next

(* The local variables of both passes keep their shape at every call: the  *)
(* space a pass is in exists and lies in a known cluster, a loop is left   *)
(* when its list is used up (Reconcile of both reconcilers).               *)
THEOREM TypeCorrect == Spec => []TypeOK
<1>1. Spec => []TypeInv
  BY InitTypeInv, NextTypeInv, PTL DEF Spec
<1>2. TypeInv => TypeOK
  BY DEF TypeInv
<1> QED
  BY <1>1, <1>2, PTL

-------------------------------------------------------------------------------
(***************************************************************************)
(* Only the namespaces of deleted orgs are put to death.                   *)
(***************************************************************************)
DeathInv == TypeInv /\ KeysKnown /\ TerminatesOnlyDeletedOrgs

(* A terminating namespace, after a call, was one before or belongs to the *)
(* org whose namespaces the call deletes.                                  *)
LEMMA TerminatedByCall ==
    ASSUME ClustersInv, NEW c \in ClusterNames, NEW o, NEW r, APIDeleteNamespaces(c, o, r),
           NEW d \in ClusterNames, NEW x \in nss'[d], x.phase = "terminating"
    PROVE  x \in nss[d] \/ x.org = o
<1>1. nss \in [ClusterNames -> SUBSET Namespace]
  BY DEF ClustersInv, ClustersTypeOK
<1>2. CASE UNCHANGED nss
  BY <1>2
<1>3. ASSUME NEW gone \in SUBSET Labelled(c, o), Terminate(c, gone)
      PROVE  x \in nss[d] \/ x.org = o
  <2>1. CASE x \notin nss[d]
    <3>1. PICK y \in gone : x = [y EXCEPT !.phase = "terminating"]
      BY <1>1, <1>3, <2>1 DEF Terminate
    <3>2. y \in Namespace /\ y.org = o
      BY <1>1, <1>3 DEF Labelled
    <3> QED
      BY <3>1, <3>2 DEF Namespace
  <2> QED
    BY <2>1
<1>4. UNCHANGED nss \/ \E gone \in SUBSET Labelled(c, o) : Terminate(c, gone)
  BY DEF APIDeleteNamespaces
<1> QED
  BY <1>2, <1>3, <1>4

(* An org stays known: only its deletion makes it absent.                  *)
LEMMA KnownStable ==
    ASSUME TypeInv, [Next]_vars, NEW o \in OrgNames, Known(o)
    PROVE  Known(o)'
<1>1. CASE UserEdit
  <2>1. ASSUME NEW u \in OrgNames, NEW spec \in OrgSpecs, PutOrg(u, spec) PROVE Known(o)'
    BY <2>1, TypesAssumption DEF TypeInv, TypeOK, ManagerTypeOK, PutOrg, Known
  <2>2. ASSUME NEW u \in OrgNames, DeleteOrg(u) PROVE Known(o)'
    BY <2>2 DEF TypeInv, TypeOK, ManagerTypeOK, DeleteOrg, Known
  <2> QED
    BY <1>1, <2>1, <2>2 DEF UserEdit, PutGlobalUser, DeleteGlobalUser, historyVars, Known
<1>2. CASE UNCHANGED <<orgs, deletions>>
  BY <1>2 DEF Known
<1>3. UserEdit \/ UNCHANGED <<orgs, deletions>>
  BY DEF Next, vars, OrgWorker, OrgStep, OrgBegin, OrgGetGlobalUsers, OrgCreateNamespace,
         OrgCreateRoleBinding, OrgDeleteNamespaces, UserWorker, UserStep, UserBegin,
         UserGetCfNamespaces, UserCreateRoleBinding, UserListRoleBindings, UserDeleteRoleBinding,
         ClusterStep, Resync, ResyncOrg, ResyncGlobalUser, Crash, Start, managerVars, historyVars
<1> QED
  BY <1>1, <1>2, <1>3

(* A pass that goes on is about the same org; one that ends may put its    *)
(* key back and no other.                                                  *)
LEMMA OrgStepKeys ==
    ASSUME OrgTypeInv, OrgStep
    PROVE  /\ orgPass # Idle
           /\ orgPass' = Idle \/ orgPass'.org = orgPass.org
           /\ orgPass'.pc = "reconcileDeletedOrg" => orgPass.pc = "reconcileDeletedOrg"
           /\ orgQueue' \subseteq orgQueue \cup {orgPass.org}
<1> DEFINE Keeps == /\ orgPass' = Idle \/ orgPass'.org = orgPass.org
                    /\ orgPass'.pc = "reconcileDeletedOrg" => orgPass.pc = "reconcileDeletedOrg"
                    /\ orgQueue' \subseteq orgQueue \cup {orgPass.org}
<1>1. ASSUME NEW failed, OrgReturn(orgPass.org, failed) PROVE Keeps
  BY <1>1 DEF OrgReturn, Idle
<1>2. ASSUME NEW p \in OrgApplying, p.org = orgPass.org, NEW i, EnterSpace(p, i) PROVE Keeps
  BY <1>1, <1>2 DEF EnterSpace, OrgApplying
<1>3. ASSUME orgPass \in OrgApplying, NEW failed, LeaveSpace(orgPass, failed) PROVE Keeps
  BY <1>1, <1>2, <1>3 DEF LeaveSpace
<1>4. CASE OrgGetGlobalUsers
  <2>1. orgPass \in OrgApplying /\ orgPass # Idle
    BY <1>4, OrgPassShape DEF OrgGetGlobalUsers, OrgTypeInv, Idle
  <2>2. PICK g \in GlobalUserLists :
          IF orgPass.spec.spaces = <<>>
          THEN OrgReturn(orgPass.org, FALSE)
          ELSE EnterSpace([orgPass EXCEPT !.globals = g], 1)
    BY <1>4 DEF OrgGetGlobalUsers
  <2>3. g \in Seq(User)
    BY GlobalUserListsType DEF OrgTypeInv
  <2>4. [orgPass EXCEPT !.globals = g] \in OrgApplying
        /\ [orgPass EXCEPT !.globals = g].org = orgPass.org
    BY <2>1, <2>3 DEF OrgApplying
  <2> QED
    BY <1>1, <1>2, <2>1, <2>2, <2>4
<1>5. CASE OrgCreateNamespace
  <2>1. orgPass \in OrgApplying /\ orgPass # Idle
    BY <1>5, OrgPassShape DEF OrgCreateNamespace, OrgTypeInv, Idle
  <2>2. \/ \E failed \in BOOLEAN : LeaveSpace(orgPass, failed)
        \/ /\ \E todo : orgPass' = [orgPass EXCEPT !.pc = "createRoleBindings", !.todo = todo]
           /\ UNCHANGED orgQueue
    BY <1>5 DEF OrgCreateNamespace
  <2> QED
    BY <1>3, <2>1, <2>2 DEF OrgApplying
<1>6. CASE OrgCreateRoleBinding
  <2>1. orgPass \in OrgApplying /\ orgPass # Idle /\ orgPass.pc = "createRoleBindings"
    BY <1>6, OrgPassShape DEF OrgCreateRoleBinding, OrgTypeInv, Idle
  <2>2. \/ \E failed \in BOOLEAN : LeaveSpace(orgPass, failed)
        \/ /\ \E todo : orgPass' = [orgPass EXCEPT !.todo = todo]
           /\ UNCHANGED orgQueue
    BY <1>6 DEF OrgCreateRoleBinding
  <2> QED
    BY <1>3, <2>1, <2>2 DEF OrgApplying
<1>7. ASSUME NEW c \in ClusterNames, OrgDeleteNamespaces(c) PROVE Keeps /\ orgPass # Idle
  <2>1. orgPass \in OrgDeleting /\ orgPass # Idle /\ orgPass.pc = "reconcileDeletedOrg"
    BY <1>7, OrgPassShape DEF OrgDeleteNamespaces, OrgTypeInv, Idle
  <2>2. \/ \E failed \in BOOLEAN : OrgReturn(orgPass.org, failed)
        \/ orgPass' = [orgPass EXCEPT !.left = @ \ {c}] /\ UNCHANGED orgQueue
    BY <1>7 DEF OrgDeleteNamespaces
  <2> QED
    BY <1>1, <2>1, <2>2 DEF OrgDeleting
<1> QED
  BY <1>4, <1>5, <1>6, <1>7, OrgPassShape
     DEF OrgStep, OrgGetGlobalUsers, OrgCreateNamespace, OrgCreateRoleBinding, OrgTypeInv, Idle

(* The keys stay known: an org is enqueued by its edits, at a start or by  *)
(* a resync, and again by a pass over it that fails.                       *)
LEMMA KeysKnownStable ==
    ASSUME TypeInv, KeysKnown, [Next]_vars
    PROVE  KeysKnown'
<1> DEFINE SameOrPassed == /\ orgQueue' \subseteq orgQueue
                           /\ UNCHANGED orgPass \/ orgPass' = Idle
<1>1. orgQueue \subseteq OrgNames /\ (orgPass # Idle => orgPass.org \in OrgNames)
  BY DEF TypeInv, TypeOK, OrgTypeOK, OrgApplying, OrgDeleting
<1>2. deletions \subseteq deletions'
  BY DEF Next, vars, UserEdit, PutOrg, DeleteOrg, PutGlobalUser, DeleteGlobalUser, OrgWorker,
         UserWorker, ClusterStep, Resync, ResyncOrg, ResyncGlobalUser, Crash, Start, historyVars
<1>3. CASE SameOrPassed
  BY <1>1, <1>2, <1>3, KnownStable DEF KeysKnown, Idle
<1>4. CASE OrgStep
  <2>1. OrgTypeInv
    BY DEF TypeInv, TypeOK, OrgTypeInv
  <2> QED
    BY <1>1, <1>2, <1>4, <2>1, KnownStable, OrgStepKeys DEF KeysKnown, Idle
<1>5. ASSUME NEW o \in OrgNames, OrgBegin(o), UNCHANGED historyVars PROVE KeysKnown'
  <2>1. Known(o) /\ Known(o)'
    BY <1>5, KnownStable DEF KeysKnown, OrgBegin
  <2>2. /\ orgPass'.org = o
        /\ orgPass'.pc = "reconcileDeletedOrg" => orgs[o] = Absent
    BY <1>5 DEF OrgBegin
  <2>3. UNCHANGED <<orgs, deletions>> /\ orgQueue' \subseteq orgQueue
    BY <1>5 DEF OrgBegin, managerVars, historyVars
  <2> QED
    BY <1>1, <2>1, <2>2, <2>3, KnownStable DEF KeysKnown, Known
<1>6. CASE UserEdit
  <2>1. UNCHANGED orgPass
    BY <1>6 DEF UserEdit, PutOrg, DeleteOrg, PutGlobalUser, DeleteGlobalUser, orgVars
  <2>2. ASSUME NEW o \in OrgNames, NEW spec \in OrgSpecs, PutOrg(o, spec) PROVE KeysKnown'
    <3>1. orgQueue' \subseteq orgQueue \cup {o} /\ Known(o)'
      BY <2>2, TypesAssumption DEF PutOrg, Enqueued, Known, TypeInv, TypeOK, ManagerTypeOK
    <3> QED
      BY <1>1, <1>2, <2>1, <3>1, KnownStable DEF KeysKnown, Idle
  <2>3. ASSUME NEW o \in OrgNames, DeleteOrg(o) PROVE KeysKnown'
    <3>1. orgQueue' \subseteq orgQueue \cup {o} /\ Known(o)'
      BY <2>3 DEF DeleteOrg, Enqueued, Known
    <3> QED
      BY <1>1, <1>2, <2>1, <3>1, KnownStable DEF KeysKnown, Idle
  <2>4. CASE UNCHANGED orgVars
    BY <1>3, <2>4 DEF orgVars
  <2> QED
    BY <1>6, <2>2, <2>3, <2>4 DEF UserEdit, PutGlobalUser, DeleteGlobalUser
<1>7. ASSUME NEW o \in OrgNames, ResyncOrg(o) PROVE KeysKnown'
  <2>1. orgQueue' = orgQueue \cup {o} /\ Known(o)' /\ UNCHANGED orgPass
    BY <1>7 DEF ResyncOrg, Known, managerVars
  <2> QED
    BY <1>1, <1>2, <2>1, KnownStable DEF KeysKnown, Idle
<1>8. CASE Start
  <2>1. orgQueue' = OrgsPresent /\ UNCHANGED <<orgs, orgPass, deletions>>
    BY <1>8 DEF Start, historyVars
  <2> QED
    BY <1>1, <2>1, KnownStable DEF KeysKnown, Known, OrgsPresent, Idle
<1>9. CASE Crash
  BY <1>3, <1>9 DEF Crash
<1>10. UserWorker \/ (\E c \in ClusterNames : ClusterStep(c)) \/ UNCHANGED vars
         \/ (\E u \in UserNames : ResyncGlobalUser(u)) => SameOrPassed
  BY DEF UserWorker, ClusterStep, vars, ResyncGlobalUser, orgVars
<1> QED
  BY <1>3, <1>4, <1>5, <1>6, <1>7, <1>8, <1>9, <1>10 DEF Next, OrgWorker, Resync

(* A step that terminates namespaces is a call of reconcileDeletedOrg.     *)
LEMMA TerminatesStable ==
    ASSUME DeathInv, [Next]_vars
    PROVE  TerminatesOnlyDeletedOrgs'
<1> SUFFICES ASSUME NEW d \in ClusterNames, NEW x \in nss'[d], x.phase = "terminating"
             PROVE  x.org \in deletions'
  BY DEF TerminatesOnlyDeletedOrgs
<1>1. ClustersInv /\ nss \in [ClusterNames -> SUBSET Namespace]
  BY DEF DeathInv, TypeInv, ClustersInv, ClustersTypeOK
<1>2. deletions \subseteq deletions'
  BY DEF Next, vars, UserEdit, PutOrg, DeleteOrg, PutGlobalUser, DeleteGlobalUser, OrgWorker,
         UserWorker, ClusterStep, Resync, ResyncOrg, ResyncGlobalUser, Crash, Start, historyVars
<1>3. CASE x \in nss[d]
  BY <1>2, <1>3 DEF DeathInv, TerminatesOnlyDeletedOrgs
<1>4. ASSUME NEW c \in ClusterNames, OrgDeleteNamespaces(c) PROVE x.org \in deletions'
  <2>1. orgPass.org \in deletions
    BY <1>4 DEF OrgDeleteNamespaces, DeathInv, KeysKnown
  <2>2. PICK r \in {"ok", "error"} : APIDeleteNamespaces(c, orgPass.org, r)
    BY <1>4 DEF OrgDeleteNamespaces
  <2>3. x \in nss[d] \/ x.org = orgPass.org
    BY <1>1, <2>2, TerminatedByCall
  <2> QED
    BY <1>2, <1>3, <2>1, <2>3
<1>5. CASE OrgCreateNamespace
  <2>1. PICK c, n, o, r : APICreateNamespace(c, n, o, r)
    BY <1>5 DEF OrgCreateNamespace
  <2>2. x \in nss[d] \/ x.phase = "active"
    BY <1>1, <2>1 DEF APICreateNamespace, AddNamespace
  <2> QED
    BY <1>3, <2>2
<1>6. ASSUME NEW c \in ClusterNames, ClusterStep(c) PROVE x.org \in deletions'
  <2>1. x \in nss[d]
    BY <1>1, <1>6 DEF ClusterStep, StartCache, SyncNamespaces, SyncBindings, EmptyNamespace,
                      RemoveNamespace, apiVars
  <2> QED
    BY <1>3, <2>1
<1>7. CASE UNCHANGED nss
  BY <1>3, <1>7
<1>8. OrgWorker => \/ UNCHANGED nss \/ OrgCreateNamespace
                   \/ \E c \in ClusterNames : OrgDeleteNamespaces(c)
  BY DEF OrgWorker, OrgStep, OrgBegin, OrgGetGlobalUsers, OrgCreateRoleBinding, APICreateBinding,
         clusterVars, apiVars
<1>9. UserWorker => UNCHANGED nss
  BY DEF UserWorker, UserStep, UserBegin, UserGetCfNamespaces, UserCreateRoleBinding,
         UserListRoleBindings, UserDeleteRoleBinding, WatchNamespaces, APICreateBinding,
         APIDeleteBinding, clusterVars, apiVars
<1>10. UserEdit \/ Resync \/ Crash \/ Start \/ UNCHANGED vars => UNCHANGED nss
  BY DEF UserEdit, PutOrg, DeleteOrg, PutGlobalUser, DeleteGlobalUser, Resync, ResyncOrg,
         ResyncGlobalUser, Crash, Start, vars, clusterVars, apiVars
<1> QED
  BY <1>4, <1>5, <1>6, <1>7, <1>8, <1>9, <1>10 DEF Next

(* However edits, retries, faults and crashes interleave, a namespace is   *)
(* put to death only if its org was deleted at some time: a key is taken   *)
(* for a deletion only when Get no longer finds it (Org.Reconcile), and    *)
(* the label selector picks no other org (reconcileDeletedOrg).            *)
THEOREM OnlyDeletedOrgsTerminate == Spec => []TerminatesOnlyDeletedOrgs
<1>1. Init => DeathInv
  <2> SUFFICES ASSUME Init PROVE DeathInv
    OBVIOUS
  <2>1. KeysKnown
    BY DEF Init, OrgInit, Idle, KeysKnown
  <2>2. TerminatesOnlyDeletedOrgs
    BY DEF Init, ClustersInit, TerminatesOnlyDeletedOrgs
  <2> QED
    BY <2>1, <2>2, InitTypeInv DEF DeathInv
<1>2. DeathInv /\ [Next]_vars => DeathInv'
  BY NextTypeInv, KeysKnownStable, TerminatesStable DEF DeathInv
<1>3. DeathInv => TerminatesOnlyDeletedOrgs
  BY DEF DeathInv
<1> QED
  BY <1>1, <1>2, <1>3, PTL DEF Spec

-------------------------------------------------------------------------------
(***************************************************************************)
(* Every role binding was declared.                                        *)
(***************************************************************************)
GrantsInv == TypeInv /\ Recorded /\ OrgPassDeclared /\ UserPassDeclared /\ GrantsDeclared

(* The role to bind next is one the list grants, and dropping it grants    *)
(* nothing new (the loops of createRoleBindings).                          *)
LEMMA DropRoleGrants ==
    ASSUME NEW users \in Seq(User), users # <<>>
    PROVE  /\ Grants(users, Head(users).name, Head(Head(users).roles))
           /\ \A u, r : Grants(DropRole(users), u, r) => Grants(users, u, r)
<1> DEFINE first == Head(users)
           fewer == [first EXCEPT !.roles = Tail(@)]
<1>1. /\ Head(users) \in User /\ Head(users) = users[1]
      /\ Tail(users) \in Seq(User) /\ Len(Tail(users)) = Len(users) - 1
      /\ Len(users) \in Nat /\ Len(users) > 0 /\ DOMAIN users = 1..Len(users)
  BY HeadTailProperties, LenProperties, EmptySeq
<1>2. \A i \in 1..Len(Tail(users)) : Tail(users)[i] = users[i + 1]
  BY <1>1, HeadTailProperties
<1>3. /\ first.roles \in Seq(Roles) /\ first.roles # <<>>
      /\ Head(first.roles) = first.roles[1] /\ Tail(first.roles) \in Seq(Roles)
      /\ Len(first.roles) \in Nat /\ Len(first.roles) > 0
      /\ DOMAIN first.roles = 1..Len(first.roles)
      /\ Len(Tail(first.roles)) = Len(first.roles) - 1
      /\ \A k \in 1..Len(Tail(first.roles)) : Tail(first.roles)[k] = first.roles[k + 1]
  <2>1. first.roles \in Seq(Roles) /\ first.roles # <<>>
    BY <1>1 DEF User
  <2> HIDE DEF first
  <2> QED
    BY <2>1, HeadTailProperties, LenProperties, EmptySeq
<1>4. Grants(users, first.name, Head(first.roles))
  BY <1>1, <1>3 DEF Grants
<1>5. ASSUME NEW u, NEW r, Grants(Tail(users), u, r) PROVE Grants(users, u, r)
  <2>1. PICK i \in 1..Len(Tail(users)) :
          Tail(users)[i].name = u /\ \E k \in DOMAIN Tail(users)[i].roles : Tail(users)[i].roles[k] = r
    BY <1>1, <1>5, LenProperties DEF Grants
  <2>2. i + 1 \in 1..Len(users) /\ Tail(users)[i] = users[i + 1]
    BY <1>1, <1>2
  <2> QED
    BY <1>1, <2>1, <2>2 DEF Grants
<1>6. ASSUME NEW u, NEW r, NEW k \in DOMAIN Tail(first.roles), Tail(first.roles)[k] = r, first.name = u
      PROVE  Grants(users, u, r)
  <2>1. k \in 1..Len(Tail(first.roles))
    BY <1>3, LenProperties
  <2>2. k + 1 \in 1..Len(first.roles) /\ first.roles[k + 1] = r
    BY <1>3, <1>6, <2>1
  <2> QED
    BY <1>1, <1>3, <1>6, <2>2 DEF Grants
<1>7. ASSUME Len(first.roles) > 1, NEW u, NEW r, Grants(<<fewer>> \o Tail(users), u, r)
      PROVE  Grants(users, u, r)
  <2>1. fewer.name = first.name /\ fewer.roles = Tail(first.roles)
    BY <1>1 DEF User
  <2> DEFINE all == <<fewer>> \o Tail(users)
  <2>2. /\ DOMAIN all = 1..(1 + Len(Tail(users))) /\ all[1] = fewer
        /\ \A i \in 1..Len(Tail(users)) : all[i + 1] = Tail(users)[i]
    <3> HIDE DEF fewer, first
    <3>1. Len(Tail(users)) \in Nat /\ Len(<<fewer>>) = 1
      BY <1>1, LenProperties
    <3> QED
      BY <1>1, <3>1
  <2>3. PICK i \in DOMAIN all : all[i].name = u /\ \E k \in DOMAIN all[i].roles : all[i].roles[k] = r
    BY <1>7 DEF Grants
  <2> HIDE DEF all, fewer
  <2>4. CASE i = 1
    BY <1>6, <2>1, <2>2, <2>3, <2>4
  <2>5. CASE i # 1
    <3>1. i - 1 \in 1..Len(Tail(users)) /\ all[i] = Tail(users)[i - 1]
      BY <1>1, <2>2, <2>5
    <3>2. DOMAIN Tail(users) = 1..Len(Tail(users))
      BY <1>1, LenProperties
    <3>3. Grants(Tail(users), u, r)
      BY <2>3, <3>1, <3>2 DEF Grants
    <3> QED
      BY <1>5, <3>3
  <2> QED
    BY <2>4, <2>5
<1> QED
  BY <1>4, <1>5, <1>7 DEF DropRole

(* Nobody is granted anything by an empty list.                            *)
LEMMA NothingGranted == \A u, r : ~Grants(<<>>, u, r)
BY DEF Grants

(* A list of the global users grants what their GlobalUsers declare        *)
(* (getGlobalUsers).                                                       *)
LEMMA GlobalsDeclared ==
    ASSUME ManagerTypeOK, Recorded, NEW g \in GlobalUserLists, NEW u, NEW r, Grants(g, u, r)
    PROVE  RoleDeclared(u, r)
<1> DEFINE listed == {v \in UserNames : gusers[v] \notin {Absent, <<>>}}
<1>1. PICK s \in SetToSeqs(listed) : g = [i \in DOMAIN s |-> [name |-> s[i], roles |-> gusers[s[i]]]]
  BY DEF GlobalUserLists
<1>2. s \in Seq(listed)
  <2>1. IsFiniteSet(listed)
    BY TypesAssumption, FS_Subset
  <2> HIDE DEF listed
  <2> QED BY <1>1, <2>1, OrderIsSeq
<1>3. PICK i \in DOMAIN s : s[i] = u /\ \E k \in DOMAIN gusers[u] : gusers[u][k] = r
  BY <1>1 DEF Grants
<1>4. s[i] \in listed
  <2> HIDE DEF listed
  <2> QED BY <1>2, <1>3, LenProperties, ElementOfSeq
<1>5. u \in UserNames /\ gusers[u] \in GlobalSpecs /\ <<u, gusers[u]>> \in everUsers
  BY <1>3, <1>4 DEF Recorded, ManagerTypeOK
<1> QED
  BY <1>3, <1>5 DEF RoleDeclared

(* What was declared stays so: the history only grows.                     *)
LEMMA DeclaredStable ==
    ASSUME everOrgs \subseteq everOrgs', everUsers \subseteq everUsers'
    PROVE  /\ \A c, b : Declared(c, b) => Declared(c, b)'
           /\ \A u, r : RoleDeclared(u, r) => RoleDeclared(u, r)'
BY DEF Declared, DeclaredByOrg, RoleDeclared

(* A Create adds no other binding than its own, a Delete none at all.      *)
LEMMA CreatedBinding ==
    ASSUME ClustersInv, NEW c \in ClusterNames, NEW b, NEW r, APICreateBinding(c, b, r),
           NEW d \in ClusterNames, NEW x \in rbs'[d]
    PROVE  x \in rbs[d] \/ (d = c /\ x = b)
BY DEF ClustersInv, ClustersTypeOK, APICreateBinding, AddBinding

(* What the pass p over an existing org has in hand is declared.           *)
InHand(p) ==
    /\ <<p.org, p.spec>> \in everOrgs
    /\ \A u \in UserNames, r \in Roles :
          /\ Grants(p.globals, u, r) => RoleDeclared(u, r)
          /\ Grants(p.todo[globalLevel], u, r) => RoleDeclared(u, r)

(* Returning and going from space to space keep that (the loop of          *)
(* Org.Reconcile).                                                         *)
LEMMA EnterSpaceDeclared ==
    ASSUME NEW p \in OrgApplying, InHand(p), NEW i \in 1..Len(p.spec.spaces), EnterSpace(p, i),
           UNCHANGED historyVars
    PROVE  OrgPassDeclared'
<1>1. CASE p.spec.spaces[i].cluster \in ClusterNames
  <2>1. orgPass' = [p EXCEPT !.pc = "createNamespace", !.space = i, !.todo = NothingToDo]
    BY <1>1 DEF EnterSpace
  <2>2. /\ orgPass'.pc = "createNamespace" /\ orgPass'.org = p.org /\ orgPass'.spec = p.spec
        /\ orgPass'.globals = p.globals /\ orgPass'.todo[globalLevel] = <<>>
    BY <2>1 DEF OrgApplying, NothingToDo
  <2> QED
    BY <2>2, NothingGranted DEF OrgPassDeclared, InHand, historyVars, RoleDeclared
<1>2. CASE p.spec.spaces[i].cluster \notin ClusterNames
  BY <1>2 DEF EnterSpace, OrgReturn, Idle, OrgPassDeclared
<1> QED
  BY <1>1, <1>2

(* So does leaving a space, whether its error is kept or not.              *)
LEMMA LeaveSpaceDeclared ==
    ASSUME NEW p \in OrgApplying, p.space \in 1..Len(p.spec.spaces), InHand(p),
           NEW failed, LeaveSpace(p, failed), UNCHANGED historyVars
    PROVE  OrgPassDeclared'
<1>1. Len(p.spec.spaces) \in Nat
  BY TypesAssumption, LenProperties DEF OrgApplying, OrgSpec
<1>2. CASE p.space < Len(p.spec.spaces)
  BY <1>1, <1>2, EnterSpaceDeclared DEF LeaveSpace
<1>3. CASE ~(p.space < Len(p.spec.spaces))
  BY <1>3 DEF LeaveSpace, OrgReturn, Idle, OrgPassDeclared
<1> QED
  BY <1>2, <1>3

(* A pass begins with the spec that Get returned.                          *)
LEMMA OrgBeginDeclared ==
    ASSUME GrantsInv, NEW o \in OrgNames, OrgBegin(o), UNCHANGED historyVars
    PROVE  OrgPassDeclared'
<1>1. CASE orgs[o] = Absent
  BY <1>1 DEF OrgBegin, OrgPassDeclared
<1>2. CASE orgs[o] # Absent
  <2>1. orgPass' = [pc |-> "getGlobalUsers", org |-> o, spec |-> orgs[o],
                    globals |-> <<>>, space |-> 0, todo |-> NothingToDo]
    BY <1>2 DEF OrgBegin
  <2>2. orgPass'.todo[globalLevel] = <<>>
    BY <2>1 DEF NothingToDo
  <2>3. <<o, orgs[o]>> \in everOrgs
    BY <1>2 DEF GrantsInv, Recorded
  <2> QED
    BY <2>1, <2>2, <2>3, NothingGranted DEF OrgPassDeclared, historyVars
<1> QED
  BY <1>1, <1>2

(* The global users are listed as declared.                                *)
LEMMA OrgGetGlobalUsersDeclared ==
    ASSUME GrantsInv, OrgGetGlobalUsers, UNCHANGED historyVars
    PROVE  OrgPassDeclared'
<1>1. orgPass \in OrgApplying /\ ManagerTypeOK /\ orgPass.pc = "getGlobalUsers"
  BY OrgPassShape DEF OrgGetGlobalUsers, GrantsInv, TypeInv, TypeOK
<1>2. InHand(orgPass)
  BY <1>1 DEF GrantsInv, OrgPassDeclared, InHand
<1>3. PICK g \in GlobalUserLists :
          IF orgPass.spec.spaces = <<>>
          THEN OrgReturn(orgPass.org, FALSE)
          ELSE EnterSpace([orgPass EXCEPT !.globals = g], 1)
  BY DEF OrgGetGlobalUsers
<1>4. CASE orgPass.spec.spaces = <<>>
  BY <1>3, <1>4 DEF OrgReturn, Idle, OrgPassDeclared
<1>5. CASE orgPass.spec.spaces # <<>>
  <2> DEFINE p == [orgPass EXCEPT !.globals = g]
  <2>1. g \in Seq(User) /\ \A u, r : Grants(g, u, r) => RoleDeclared(u, r)
    BY <1>1, GlobalUserListsType, GlobalsDeclared DEF GrantsInv
  <2>2. /\ p \in OrgApplying /\ p.spec = orgPass.spec /\ p.org = orgPass.org
        /\ p.globals = g /\ p.todo = orgPass.todo
    BY <1>1, <2>1 DEF OrgApplying
  <2>3. orgPass.spec.spaces \in Seq(Space)
    BY <1>1, TypesAssumption DEF OrgApplying, OrgSpec
  <2>4. EnterSpace(p, 1)
    BY <1>3, <1>5
  <2> HIDE DEF p
  <2>5. 1 \in 1..Len(p.spec.spaces)
    BY <1>5, <2>2, <2>3, EmptySeq
  <2>6. InHand(p)
    BY <1>2, <2>1, <2>2 DEF InHand
  <2> QED
    BY <2>2, <2>4, <2>5, <2>6, EnterSpaceDeclared
<1> QED
  BY <1>4, <1>5

(* The users to bind in a space are the global users and the space's.      *)
LEMMA OrgCreateNamespaceDeclared ==
    ASSUME GrantsInv, OrgCreateNamespace, UNCHANGED historyVars
    PROVE  OrgPassDeclared'
<1> DEFINE todo == [l \in {globalLevel, otherLevel} |->
                      IF l = globalLevel THEN orgPass.globals
                                         ELSE SpaceUsers(orgPass.spec, orgPass.space)]
<1>1. /\ orgPass \in OrgApplying /\ orgPass.pc = "createNamespace"
      /\ orgPass.space \in 1..Len(orgPass.spec.spaces)
  BY OrgPassShape DEF OrgCreateNamespace, GrantsInv, TypeInv, TypeOK, OrgTypeOK
<1>2. InHand(orgPass)
  BY <1>1 DEF GrantsInv, OrgPassDeclared, InHand
<1>3. /\ todo[globalLevel] = orgPass.globals
      /\ todo[otherLevel] = SpaceUsers(orgPass.spec, orgPass.space)
  BY DEF globalLevel, otherLevel
<1>4. \/ \E failed \in BOOLEAN : LeaveSpace(orgPass, failed)
      \/ orgPass' = [orgPass EXCEPT !.pc = "createRoleBindings", !.todo = todo]
  BY DEF OrgCreateNamespace
<1> HIDE DEF todo
<1>5. CASE orgPass' = [orgPass EXCEPT !.pc = "createRoleBindings", !.todo = todo]
  <2>1. /\ orgPass'.pc = "createRoleBindings" /\ orgPass'.org = orgPass.org
        /\ orgPass'.spec = orgPass.spec /\ orgPass'.globals = orgPass.globals
        /\ orgPass'.space = orgPass.space /\ orgPass'.todo = todo
    BY <1>1, <1>5 DEF OrgApplying
  <2> QED
    BY <1>2, <1>3, <2>1 DEF OrgPassDeclared, InHand, historyVars, RoleDeclared
<1> QED
  BY <1>1, <1>2, <1>4, <1>5, LeaveSpaceDeclared

(* The binding made is one the space's lists declare at its level, and so  *)
(* are those left (createRoleBindings, called by reconcileSpace).          *)
LEMMA OrgCreateRoleBindingDeclared ==
    ASSUME GrantsInv, OrgCreateRoleBinding, UNCHANGED historyVars
    PROVE  /\ OrgPassDeclared'
           /\ \A d \in ClusterNames : \A x \in rbs'[d] : x \in rbs[d] \/ Declared(d, x)
<1> DEFINE space == orgPass.spec.spaces[orgPass.space]
           level == NextLevel(orgPass.todo)
           user == Head(orgPass.todo[level])
           binding == [ns |-> NsName(orgPass.org, space.name), user |-> user.name,
                       role |-> Head(user.roles), level |-> level]
           rest == [orgPass.todo EXCEPT ![level] = DropRole(@)]
<1>1. /\ orgPass \in OrgApplying /\ orgPass.pc = "createRoleBindings"
      /\ orgPass.space \in 1..Len(orgPass.spec.spaces) /\ space.cluster \in ClusterNames
      /\ orgPass.todo # NothingToDo /\ ClustersInv
  BY OrgPassShape DEF OrgCreateRoleBinding, GrantsInv, TypeInv, TypeOK, OrgTypeOK
<1>2. /\ InHand(orgPass)
      /\ \A u \in UserNames, r \in Roles :
            Grants(orgPass.todo[otherLevel], u, r) => Grants(SpaceUsers(orgPass.spec, orgPass.space), u, r)
  BY <1>1 DEF GrantsInv, OrgPassDeclared, InHand
<1>3. orgPass.todo \in Todo /\ orgPass.org \in OrgNames /\ orgPass.spec \in OrgSpecs
  BY <1>1 DEF OrgApplying
<1>4. /\ level \in {globalLevel, otherLevel}
      /\ orgPass.todo[level] \in Seq(User) /\ orgPass.todo[level] # <<>>
  BY <1>1, <1>3 DEF NextLevel, Todo, NothingToDo
<1>5. /\ user \in User /\ Head(user.roles) \in Roles
      /\ Grants(orgPass.todo[level], user.name, Head(user.roles))
      /\ \A u, r : Grants(DropRole(orgPass.todo[level]), u, r) => Grants(orgPass.todo[level], u, r)
  BY <1>4, DropRoleType, DropRoleGrants
<1>6. user.name \in UserNames
  BY <1>5 DEF User
<1>7. Declared(space.cluster, binding)
  <2>1. CASE level = globalLevel
    <3>1. RoleDeclared(user.name, Head(user.roles))
      BY <1>2, <1>5, <1>6, <2>1 DEF InHand
    <3> HIDE DEF user
    <3> QED
      BY <2>1, <3>1 DEF Declared, globalLevel, otherLevel
  <2>2. CASE level = otherLevel
    <3>1. Grants(SpaceUsers(orgPass.spec, orgPass.space), user.name, Head(user.roles))
      BY <1>2, <1>5, <1>6, <2>2
    <3>2. orgPass.space \in DOMAIN orgPass.spec.spaces
      <4>1. orgPass.spec.spaces \in Seq(Space)
        BY <1>3, TypesAssumption DEF OrgSpec
      <4> QED BY <1>1, <4>1, LenProperties
    <3>3. SpecGrants(orgPass.org, orgPass.spec, space.cluster, NsName(orgPass.org, space.name),
                     user.name, Head(user.roles))
      <4> HIDE DEF user
      <4> QED BY <3>1, <3>2 DEF SpecGrants, SpaceUsers
    <3>4. DeclaredByOrg(space.cluster, binding)
      <4> HIDE DEF user, space
      <4> QED BY <1>2, <1>3, <3>3 DEF DeclaredByOrg, InHand
    <3> HIDE DEF user, space
    <3> QED
      BY <2>2, <3>4 DEF Declared
  <2> QED
    BY <1>4, <2>1, <2>2
<1>8. /\ \A u, r : Grants(rest[globalLevel], u, r) => Grants(orgPass.todo[globalLevel], u, r)
      /\ \A u, r : Grants(rest[otherLevel], u, r) => Grants(orgPass.todo[otherLevel], u, r)
  BY <1>3, <1>4, <1>5 DEF Todo
<1>9. PICK r \in {"ok", "error"} :
          /\ APICreateBinding(space.cluster, binding, r)
          /\ \/ LeaveSpace(orgPass, r = "error")
             \/ orgPass' = [orgPass EXCEPT !.todo = rest]
  BY DEF OrgCreateRoleBinding
<1> HIDE DEF space, level, user, binding, rest
<1>10. \A d \in ClusterNames : \A x \in rbs'[d] : x \in rbs[d] \/ Declared(d, x)
  BY <1>1, <1>7, <1>9, CreatedBinding
<1>11. CASE orgPass' = [orgPass EXCEPT !.todo = rest]
  <2>1. /\ orgPass'.pc = "createRoleBindings" /\ orgPass'.org = orgPass.org
        /\ orgPass'.spec = orgPass.spec /\ orgPass'.globals = orgPass.globals
        /\ orgPass'.space = orgPass.space /\ orgPass'.todo = rest
    BY <1>1, <1>11 DEF OrgApplying
  <2> QED
    BY <1>2, <1>8, <1>10, <2>1 DEF OrgPassDeclared, InHand, historyVars, RoleDeclared
<1> QED
  BY <1>1, <1>2, <1>9, <1>10, <1>11, LeaveSpaceDeclared

(* Whatever the Org worker does, it has declared users in hand and binds   *)
(* no others.                                                              *)
LEMMA OrgWorkerDeclared ==
    ASSUME GrantsInv, OrgWorker
    PROVE  /\ OrgPassDeclared'
           /\ \A d \in ClusterNames : \A x \in rbs'[d] : x \in rbs[d] \/ Declared(d, x)
<1>1. UNCHANGED historyVars
  BY DEF OrgWorker
<1>2. CASE OrgCreateRoleBinding
  BY <1>1, <1>2, OrgCreateRoleBindingDeclared
<1>3. CASE OrgGetGlobalUsers \/ \E o \in OrgNames : OrgBegin(o)
  <2>1. UNCHANGED rbs
    BY <1>3 DEF OrgGetGlobalUsers, OrgBegin, clusterVars, apiVars
  <2> QED
    BY <1>1, <1>3, <2>1, OrgGetGlobalUsersDeclared, OrgBeginDeclared
<1>4. CASE OrgCreateNamespace
  <2>1. UNCHANGED rbs
    BY <1>4 DEF OrgCreateNamespace, APICreateNamespace
  <2> QED
    BY <1>1, <1>4, <2>1, OrgCreateNamespaceDeclared
<1>5. CASE \E c \in ClusterNames : OrgDeleteNamespaces(c)
  <2>1. UNCHANGED rbs
    BY <1>5 DEF OrgDeleteNamespaces, APIDeleteNamespaces
  <2>2. OrgPassDeclared'
    <3>1. orgPass \in OrgDeleting
      BY <1>5, OrgPassShape DEF OrgDeleteNamespaces, GrantsInv, TypeInv, TypeOK
    <3>2. orgPass' = Idle \/ orgPass'.pc = "reconcileDeletedOrg"
      BY <1>5, <3>1 DEF OrgDeleteNamespaces, OrgReturn, OrgDeleting
    <3> QED BY <3>2 DEF OrgPassDeclared, Idle
  <2> QED
    BY <2>1, <2>2
<1> QED
  BY <1>2, <1>3, <1>4, <1>5 DEF OrgWorker, OrgStep

(* Going on to the next cluster keeps the roles read from the GlobalUser.  *)
LEMMA GrantedClusterDeclared ==
    ASSUME NEW p \in UserGranting, <<p.user, p.roles>> \in everUsers, GrantedCluster(p),
           UNCHANGED historyVars
    PROVE  UserPassDeclared'
<1>1. CASE p.left = {}
  BY <1>1 DEF GrantedCluster, UserReturn, UserIdle, UserPassDeclared
<1>2. CASE p.left # {}
  <2>1. /\ userPass'.user = p.user /\ userPass'.roles = p.roles /\ userPass'.todo = <<>>
    BY <1>2 DEF GrantedCluster, UserGranting
  <2> QED
    BY <2>1 DEF UserPassDeclared, historyVars
<1> QED
  BY <1>1, <1>2

(* The roles to bind in the namespaces listed are those of the GlobalUser. *)
LEMMA UserGetCfNamespacesDeclared ==
    ASSUME GrantsInv, NEW c \in ClusterNames, UserGetCfNamespaces(c), UNCHANGED historyVars
    PROVE  UserPassDeclared'
<1>1. userPass \in UserGranting /\ userPass.pc = "getCfNamespaces" /\ UserTypeInv
  BY UserPassShape DEF UserGetCfNamespaces, GrantsInv, TypeInv, TypeOK, UserTypeInv
<1>2. <<userPass.user, userPass.roles>> \in everUsers
  BY <1>1 DEF GrantsInv, UserPassDeclared
<1>3. CASE c \notin cacheUp
  BY <1>3 DEF UserGetCfNamespaces, UserReturn, UserIdle, UserPassDeclared
<1>4. CASE c \in cacheUp
  <2>1. PICK listed \in SetToSeqs(ListedNamespaces(c)) :
          LET p == [userPass EXCEPT !.left = @ \ {c}, !.cluster = c, !.nss = listed,
                                    !.todo = userPass.roles, !.pc = "createRoleBindings"]
          IN  GrantedCluster(p) \/ userPass' = p
    BY <1>4 DEF UserGetCfNamespaces
  <2> DEFINE p == [userPass EXCEPT !.left = @ \ {c}, !.cluster = c, !.nss = listed,
                                   !.todo = userPass.roles, !.pc = "createRoleBindings"]
  <2>2. listed \in Seq(NamespaceNames)
    <3>1. ListedNamespaces(c) \in SUBSET NamespaceNames /\ IsFiniteSet(ListedNamespaces(c))
      BY <1>1, ListedNamespacesType DEF UserTypeInv
    <3>2. listed \in Seq(ListedNamespaces(c))
      BY <3>1, OrderIsSeq
    <3> QED BY <3>1, <3>2, SeqDef
  <2>3. userPass.roles \in Seq(Roles)
    BY <1>1, TypesAssumption DEF UserGranting
  <2>4. p \in UserGranting
    BY <1>1, <2>2, <2>3 DEF UserGranting
  <2>5. p.user = userPass.user /\ p.roles = userPass.roles /\ p.todo = userPass.roles
    BY <1>1 DEF UserGranting
  <2>6. GrantedCluster(p) \/ userPass' = p
    BY <2>1
  <2> HIDE DEF p
  <2>7. CASE userPass' = p
    BY <1>2, <2>5, <2>7 DEF UserPassDeclared, historyVars
  <2> QED
    BY <1>2, <2>4, <2>5, <2>6, <2>7, GrantedClusterDeclared
<1> QED
  BY <1>3, <1>4

(* The binding made gives a role the GlobalUser declared, and so will the  *)
(* ones left (createRoleBindings, called for a namespace of a cluster).    *)
LEMMA UserCreateRoleBindingDeclared ==
    ASSUME GrantsInv, UserCreateRoleBinding, UNCHANGED historyVars
    PROVE  /\ UserPassDeclared'
           /\ \A d \in ClusterNames : \A x \in rbs'[d] : x \in rbs[d] \/ Declared(d, x)
<1> DEFINE binding == [ns |-> Head(userPass.nss), user |-> userPass.user,
                       role |-> Head(userPass.todo), level |-> globalLevel]
<1>1. /\ userPass \in UserGranting /\ userPass.pc = "createRoleBindings"
      /\ userPass.todo # <<>> /\ userPass.cluster \in ClusterNames /\ ClustersInv
  BY UserPassShape DEF UserCreateRoleBinding, GrantsInv, TypeInv, TypeOK, UserTypeOK
<1>2. /\ <<userPass.user, userPass.roles>> \in everUsers
      /\ \A k \in DOMAIN userPass.todo :
            \E j \in DOMAIN userPass.roles : userPass.roles[j] = userPass.todo[k]
  BY <1>1 DEF GrantsInv, UserPassDeclared
<1>3. /\ userPass.todo \in Seq(Roles) /\ Len(userPass.todo) \in Nat /\ Len(userPass.todo) > 0
      /\ DOMAIN userPass.todo = 1..Len(userPass.todo) /\ Head(userPass.todo) = userPass.todo[1]
      /\ Tail(userPass.todo) \in Seq(Roles)
      /\ DOMAIN Tail(userPass.todo) = 1..(Len(userPass.todo) - 1)
      /\ \A k \in 1..(Len(userPass.todo) - 1) : Tail(userPass.todo)[k] = userPass.todo[k + 1]
  <2>1. userPass.todo \in Seq(Roles)
    BY <1>1 DEF UserGranting
  <2> QED
    BY <1>1, <2>1, HeadTailProperties, LenProperties, EmptySeq
<1>4. Declared(userPass.cluster, binding)
  <2>1. userPass.roles \in GlobalSpecs
    BY <1>1 DEF UserGranting
  <2>2. RoleDeclared(userPass.user, Head(userPass.todo))
    <3>1. 1 \in DOMAIN userPass.todo
      BY <1>3
    <3>2. PICK j \in DOMAIN userPass.roles : userPass.roles[j] = userPass.todo[1]
      BY <1>2, <3>1
    <3>3. userPass.roles[j] = Head(userPass.todo)
      BY <1>3, <3>2
    <3> QED
      BY <1>2, <2>1, <3>3 DEF RoleDeclared
  <2>3. /\ binding.user = userPass.user /\ binding.role = Head(userPass.todo)
        /\ binding.level # otherLevel
    BY DEF globalLevel, otherLevel
  <2> HIDE DEF binding
  <2> QED
    BY <2>2, <2>3 DEF Declared
<1>5. PICK r \in {"ok", "error"} :
        /\ APICreateBinding(userPass.cluster, binding, r)
        /\ \/ UserReturn(userPass.user, TRUE)
           \/ Len(userPass.todo) > 1 /\ userPass' = [userPass EXCEPT !.todo = Tail(@)]
           \/ userPass' = [userPass EXCEPT !.nss = Tail(@), !.todo = userPass.roles]
           \/ GrantedCluster(userPass)
  BY DEF UserCreateRoleBinding
<1> HIDE DEF binding
<1>6. \A d \in ClusterNames : \A x \in rbs'[d] : x \in rbs[d] \/ Declared(d, x)
  BY <1>1, <1>4, <1>5, CreatedBinding
<1>7. CASE UserReturn(userPass.user, TRUE)
  BY <1>6, <1>7 DEF UserReturn, UserIdle, UserPassDeclared
<1>8. CASE userPass' = [userPass EXCEPT !.todo = Tail(@)]
  <2>1. /\ userPass'.user = userPass.user /\ userPass'.roles = userPass.roles
        /\ userPass'.todo = Tail(userPass.todo)
    BY <1>1, <1>8 DEF UserGranting
  <2>2. \A k \in DOMAIN Tail(userPass.todo) :
          k + 1 \in DOMAIN userPass.todo /\ Tail(userPass.todo)[k] = userPass.todo[k + 1]
    BY <1>3
  <2> QED
    BY <1>2, <1>6, <2>1, <2>2 DEF UserPassDeclared, historyVars
<1>9. CASE userPass' = [userPass EXCEPT !.nss = Tail(@), !.todo = userPass.roles]
  <2>1. /\ userPass'.user = userPass.user /\ userPass'.roles = userPass.roles
        /\ userPass'.todo = userPass.roles
    BY <1>1, <1>9 DEF UserGranting
  <2> QED
    BY <1>2, <1>6, <2>1 DEF UserPassDeclared, historyVars
<1>10. CASE GrantedCluster(userPass)
  BY <1>1, <1>2, <1>6, <1>10, GrantedClusterDeclared
<1> QED
  BY <1>5, <1>7, <1>8, <1>9, <1>10

(* Whatever the GlobalUser worker does, it has declared roles in hand and  *)
(* binds no others; revoking binds none.                                   *)
LEMMA UserWorkerDeclared ==
    ASSUME GrantsInv, UserWorker
    PROVE  /\ UserPassDeclared'
           /\ \A d \in ClusterNames : \A x \in rbs'[d] : x \in rbs[d] \/ Declared(d, x)
<1>1. UNCHANGED historyVars
  BY DEF UserWorker
<1>2. CASE UserCreateRoleBinding
  BY <1>1, <1>2, UserCreateRoleBindingDeclared
<1>3. CASE \E c \in ClusterNames : UserGetCfNamespaces(c)
  <2>1. UNCHANGED rbs
    BY <1>3 DEF UserGetCfNamespaces, WatchNamespaces, apiVars
  <2> QED
    BY <1>1, <1>3, <2>1, UserGetCfNamespacesDeclared
<1>4. ASSUME NEW u \in UserNames, UserBegin(u) PROVE UserPassDeclared' /\ UNCHANGED rbs
  <2>1. CASE gusers[u] = Absent
    BY <1>4, <2>1 DEF UserBegin, UserPass, Revoking, UserPassDeclared, clusterVars, apiVars
  <2>2. CASE gusers[u] # Absent
    <3>1. /\ userPass'.user = u /\ userPass'.roles = gusers[u] /\ userPass'.todo = <<>>
          /\ UNCHANGED rbs
      BY <1>4, <2>2 DEF UserBegin, UserPass, Granting, clusterVars, apiVars
    <3>2. <<u, gusers[u]>> \in everUsers
      BY <2>2 DEF GrantsInv, Recorded
    <3> QED
      BY <1>1, <3>1, <3>2 DEF UserPassDeclared, historyVars
  <2> QED
    BY <2>1, <2>2
<1>5. CASE UserDeleteRoleBinding \/ \E c \in ClusterNames : UserListRoleBindings(c)
  <2>1. userPass \in UserRevoking
    BY <1>5, UserPassShape DEF UserListRoleBindings, UserDeleteRoleBinding, GrantsInv, TypeInv, TypeOK
  <2>2. \/ userPass' = UserIdle
        \/ userPass'.pc \in {"listRoleBindings", "deleteRoleBinding"}
    BY <1>5, <2>1
       DEF UserListRoleBindings, UserDeleteRoleBinding, RevokedCluster, UserReturn, UserRevoking
  <2>3. \A d \in ClusterNames : rbs'[d] \subseteq rbs[d]
    BY <1>5 DEF UserListRoleBindings, UserDeleteRoleBinding, APIDeleteBinding, RemoveBinding,
                clusterVars, apiVars, GrantsInv, TypeInv, ClustersInv, ClustersTypeOK
  <2> QED
    BY <2>2, <2>3 DEF UserPassDeclared, UserIdle
<1> QED
  BY <1>2, <1>3, <1>4, <1>5 DEF UserWorker, UserStep

-------------------------------------------------------------------------------
(* Every step keeps the invariant: edits add to the history what they put  *)
(* in the resources, and only the workers bind.                            *)
LEMMA NextGrantsInv == GrantsInv /\ [Next]_vars => GrantsInv'
<1> SUFFICES ASSUME GrantsInv, [Next]_vars PROVE GrantsInv'
  OBVIOUS
<1> DEFINE OnlyDeclared ==
             \A d \in ClusterNames : \A x \in rbs'[d] : x \in rbs[d] \/ Declared(d, x)
<1>1. TypeInv'
  BY NextTypeInv DEF GrantsInv
<1>2. everOrgs \subseteq everOrgs' /\ everUsers \subseteq everUsers'
  BY DEF Next, vars, UserEdit, PutOrg, DeleteOrg, PutGlobalUser, DeleteGlobalUser, OrgWorker,
         UserWorker, ClusterStep, Resync, ResyncOrg, ResyncGlobalUser, Crash, Start, historyVars
<1>3. Recorded'
  <2>1. ASSUME NEW o \in OrgNames, orgs'[o] # Absent PROVE <<o, orgs'[o]>> \in everOrgs'
    <3>1. CASE UserEdit
      BY <1>2, <2>1, <3>1 DEF UserEdit, PutOrg, DeleteOrg, PutGlobalUser, DeleteGlobalUser,
                              GrantsInv, Recorded, TypeInv, TypeOK, ManagerTypeOK
    <3>2. CASE UNCHANGED orgs
      BY <1>2, <2>1, <3>2 DEF GrantsInv, Recorded
    <3>3. UserEdit \/ UNCHANGED orgs
      BY DEF Next, vars, OrgWorker, OrgStep, OrgBegin, OrgGetGlobalUsers, OrgCreateNamespace,
             OrgCreateRoleBinding, OrgDeleteNamespaces, UserWorker, UserStep, UserBegin,
             UserGetCfNamespaces, UserCreateRoleBinding, UserListRoleBindings,
             UserDeleteRoleBinding, ClusterStep, Resync, ResyncOrg, ResyncGlobalUser, Crash,
             Start, managerVars
    <3> QED
      BY <3>1, <3>2, <3>3
  <2>2. ASSUME NEW u \in UserNames, gusers'[u] # Absent PROVE <<u, gusers'[u]>> \in everUsers'
    <3>1. CASE UserEdit
      BY <1>2, <2>2, <3>1 DEF UserEdit, PutOrg, DeleteOrg, PutGlobalUser, DeleteGlobalUser,
                              GrantsInv, Recorded, TypeInv, TypeOK, ManagerTypeOK
    <3>2. CASE UNCHANGED gusers
      BY <1>2, <2>2, <3>2 DEF GrantsInv, Recorded
    <3>3. UserEdit \/ UNCHANGED gusers
      BY DEF Next, vars, OrgWorker, OrgStep, OrgBegin, OrgGetGlobalUsers, OrgCreateNamespace,
             OrgCreateRoleBinding, OrgDeleteNamespaces, UserWorker, UserStep, UserBegin,
             UserGetCfNamespaces, UserCreateRoleBinding, UserListRoleBindings,
             UserDeleteRoleBinding, ClusterStep, Resync, ResyncOrg, ResyncGlobalUser, Crash,
             Start, managerVars
    <3> QED
      BY <3>1, <3>2, <3>3
  <2> QED
    BY <2>1, <2>2 DEF Recorded
<1>4. OrgPassDeclared'
  <2>1. CASE OrgWorker
    BY <2>1, OrgWorkerDeclared
  <2>2. CASE orgPass' = Idle
    BY <2>2 DEF OrgPassDeclared, Idle
  <2>3. CASE UNCHANGED orgPass
    BY <1>2, <2>3, DeclaredStable DEF GrantsInv, OrgPassDeclared
  <2> QED
    BY <2>1, <2>2, <2>3
       DEF Next, vars, UserWorker, ClusterStep, UserEdit, PutOrg, DeleteOrg, PutGlobalUser,
           DeleteGlobalUser, Resync, ResyncOrg, ResyncGlobalUser, Crash, Start, orgVars
<1>5. UserPassDeclared'
  <2>1. CASE UserWorker
    BY <2>1, UserWorkerDeclared
  <2>2. CASE userPass' = UserIdle
    BY <2>2 DEF UserPassDeclared, UserIdle
  <2>3. CASE UNCHANGED userPass
    BY <1>2, <2>3 DEF GrantsInv, UserPassDeclared
  <2> QED
    BY <2>1, <2>2, <2>3
       DEF Next, vars, OrgWorker, ClusterStep, UserEdit, PutOrg, DeleteOrg, PutGlobalUser,
           DeleteGlobalUser, Resync, ResyncOrg, ResyncGlobalUser, Crash, Start, userVars
<1>6. OnlyDeclared
  <2>1. CASE OrgWorker \/ UserWorker
    BY <2>1, OrgWorkerDeclared, UserWorkerDeclared
  <2>2. ASSUME NEW c \in ClusterNames, ClusterStep(c) PROVE OnlyDeclared
    BY <2>2 DEF ClusterStep, StartCache, SyncNamespaces, SyncBindings, EmptyNamespace,
                RemoveNamespace, apiVars, GrantsInv, TypeInv, ClustersInv, ClustersTypeOK
  <2>3. CASE UNCHANGED rbs
    BY <2>3
  <2> QED
    BY <2>1, <2>2, <2>3
       DEF Next, vars, UserEdit, PutOrg, DeleteOrg, PutGlobalUser, DeleteGlobalUser, Resync,
           ResyncOrg, ResyncGlobalUser, Crash, Start, clusterVars, apiVars
<1>7. GrantsDeclared'
  BY <1>2, <1>6, DeclaredStable DEF GrantsInv, GrantsDeclared
<1> QED
  BY <1>1, <1>3, <1>4, <1>5, <1>7 DEF GrantsInv

(* The initial state declares nothing and binds nobody.                    *)
LEMMA InitGrantsInv == Init => GrantsInv
<1> SUFFICES ASSUME Init PROVE GrantsInv
  OBVIOUS
<1>1. Recorded
  BY DEF Init, ManagerInit, Recorded
<1>2. OrgPassDeclared /\ UserPassDeclared
  BY DEF Init, OrgInit, UserInit, Idle, UserIdle, OrgPassDeclared, UserPassDeclared
<1>3. GrantsDeclared
  BY DEF Init, ClustersInit, GrantsDeclared
<1> QED
  BY <1>1, <1>2, <1>3, InitTypeInv DEF GrantsInv

(* However stale what the two reconcilers read, and however edits, faults, *)
(* crashes and restarts interleave with them, no cluster ever holds a role *)
(* binding that no version of an Org or a GlobalUser declared.             *)
THEOREM OnlyDeclaredGrants == Spec => []GrantsDeclared
<1>1. Init => GrantsInv
  BY InitGrantsInv
<1>2. GrantsInv => GrantsDeclared
  BY DEF GrantsInv
<1> QED
  BY <1>1, <1>2, NextGrantsInv, PTL DEF Spec

-------------------------------------------------------------------------------
(***************************************************************************)
(* The grants of an org stay in its namespaces.                            *)
(***************************************************************************)
IsolationInv == GrantsInv /\ NamespacesNamed

(* A namespace found after DeleteAllOf has the name and the org it had.    *)
LEMMA TerminateKeepsNames ==
    ASSUME ClustersInv, NEW c \in ClusterNames, NEW o, NEW r, APIDeleteNamespaces(c, o, r),
           NEW d \in ClusterNames, NEW x \in nss'[d]
    PROVE  \E y \in nss[d] : y.name = x.name /\ y.org = x.org
<1>1. nss \in [ClusterNames -> SUBSET Namespace]
  BY DEF ClustersInv, ClustersTypeOK
<1>2. CASE UNCHANGED nss
  BY <1>2
<1>3. ASSUME NEW gone \in SUBSET Labelled(c, o), Terminate(c, gone)
      PROVE  \E y \in nss[d] : y.name = x.name /\ y.org = x.org
  <2>1. CASE x \notin nss[d]
    <3>1. PICK y \in gone : x = [y EXCEPT !.phase = "terminating"]
      BY <1>1, <1>3, <2>1 DEF Terminate
    <3>2. y \in Namespace /\ y \in nss[c] /\ c = d
      BY <1>1, <1>3, <2>1 DEF Labelled, Terminate
    <3> QED
      BY <3>1, <3>2 DEF Namespace
  <2> QED
    BY <2>1
<1>4. UNCHANGED nss \/ \E gone \in SUBSET Labelled(c, o) : Terminate(c, gone)
  BY DEF APIDeleteNamespaces
<1> QED
  BY <1>2, <1>3, <1>4

(* Only createNamespace makes a namespace, and it names it after the org   *)
(* and the space of its pass.                                              *)
LEMMA NamesStable ==
    ASSUME TypeInv, NamespacesNamed, [Next]_vars
    PROVE  NamespacesNamed'
<1> SUFFICES ASSUME NEW d \in ClusterNames, NEW x \in nss'[d]
             PROVE  \E s \in SpaceNames : x.name = NsName(x.org, s)
  BY DEF NamespacesNamed
<1>1. ClustersInv /\ nss \in [ClusterNames -> SUBSET Namespace]
  BY DEF TypeInv, ClustersInv, ClustersTypeOK
<1>2. ASSUME NEW y \in nss[d], y.name = x.name, y.org = x.org
      PROVE  \E s \in SpaceNames : x.name = NsName(x.org, s)
  BY <1>2 DEF NamespacesNamed
<1>3. CASE x \in nss[d]
  BY <1>2, <1>3
<1>4. ASSUME NEW c \in ClusterNames, OrgDeleteNamespaces(c)
      PROVE  \E s \in SpaceNames : x.name = NsName(x.org, s)
  <2>1. PICK r \in {"ok", "error"} : APIDeleteNamespaces(c, orgPass.org, r)
    BY <1>4 DEF OrgDeleteNamespaces
  <2> QED
    BY <1>1, <1>2, <2>1, TerminateKeepsNames
<1>5. CASE OrgCreateNamespace
  <2> DEFINE space == orgPass.spec.spaces[orgPass.space]
  <2>1. orgPass \in OrgApplying /\ orgPass.space \in DOMAIN orgPass.spec.spaces
    BY <1>5, OrgPassShape DEF OrgCreateNamespace, TypeInv, TypeOK, OrgTypeOK
  <2>2. space.name \in SpaceNames
    <3>1. orgPass.spec.spaces \in Seq(Space)
      BY <2>1, TypesAssumption DEF OrgApplying, OrgSpec
    <3>2. space \in Space
      BY <2>1, <3>1, ElementOfSeq, LenProperties
    <3> QED
      BY <3>2 DEF Space
  <2>3. PICK r \in {"created", "alreadyExists", "error"} :
          APICreateNamespace(space.cluster, NsName(orgPass.org, space.name), orgPass.org, r)
    BY <1>5 DEF OrgCreateNamespace
  <2> HIDE DEF space
  <2>4. \/ x \in nss[d]
        \/ x.name = NsName(orgPass.org, space.name) /\ x.org = orgPass.org
    BY <1>1, <2>3 DEF APICreateNamespace, AddNamespace
  <2> QED
    BY <1>3, <2>2, <2>4
<1>6. ASSUME NEW c \in ClusterNames, ClusterStep(c) PROVE x \in nss[d]
  BY <1>1, <1>6 DEF ClusterStep, StartCache, SyncNamespaces, SyncBindings, EmptyNamespace,
                    RemoveNamespace, apiVars
<1>7. OrgWorker => \/ UNCHANGED nss \/ OrgCreateNamespace
                   \/ \E c \in ClusterNames : OrgDeleteNamespaces(c)
  BY DEF OrgWorker, OrgStep, OrgBegin, OrgGetGlobalUsers, OrgCreateRoleBinding, APICreateBinding,
         clusterVars, apiVars
<1>8. UserWorker => UNCHANGED nss
  BY DEF UserWorker, UserStep, UserBegin, UserGetCfNamespaces, UserCreateRoleBinding,
         UserListRoleBindings, UserDeleteRoleBinding, WatchNamespaces, APICreateBinding,
         APIDeleteBinding, clusterVars, apiVars
<1>9. UserEdit \/ Resync \/ Crash \/ Start \/ UNCHANGED vars => UNCHANGED nss
  BY DEF UserEdit, PutOrg, DeleteOrg, PutGlobalUser, DeleteGlobalUser, Resync, ResyncOrg,
         ResyncGlobalUser, Crash, Start, vars, clusterVars, apiVars
<1>10. UNCHANGED nss => x \in nss[d]
  OBVIOUS
<1> QED
  BY <1>3, <1>4, <1>5, <1>6, <1>7, <1>8, <1>9, <1>10 DEF Next

(* Where no two orgs can name the same namespace, the namespaces labelled  *)
(* with an org hold no org or space grant but those that a version of that *)
(* very org declared for them (reconcileSpace, createNamespace and         *)
(* createRoleBindings); without that assumption the statement is false.    *)
THEOREM OrgsIsolated == UnambiguousNames => (Spec => []OrgIsolation)
<1>1. Init => IsolationInv
  <2> SUFFICES ASSUME Init PROVE IsolationInv
    OBVIOUS
  <2>1. GrantsInv
    BY InitGrantsInv
  <2>2. NamespacesNamed
    BY DEF Init, ClustersInit, NamespacesNamed
  <2> QED
    BY <2>1, <2>2 DEF IsolationInv
<1>2. IsolationInv /\ [Next]_vars => IsolationInv'
  BY NextGrantsInv, NamesStable DEF IsolationInv, GrantsInv
<1>3. UnambiguousNames /\ IsolationInv => OrgIsolation
  <2> SUFFICES ASSUME UnambiguousNames, IsolationInv, NEW c \in ClusterNames, NEW x \in nss[c],
                      NEW b \in rbs[c], b.ns = x.name, b.level = otherLevel
               PROVE  \E spec \in OrgSpecs :
                        /\ <<x.org, spec>> \in everOrgs
                        /\ SpecGrants(x.org, spec, c, b.ns, b.user, b.role)
    BY DEF OrgIsolation
  <2>1. PICK o \in OrgNames, spec \in OrgSpecs :
          <<o, spec>> \in everOrgs /\ SpecGrants(o, spec, c, b.ns, b.user, b.role)
    BY DEF IsolationInv, GrantsInv, GrantsDeclared, Declared, DeclaredByOrg
  <2>2. x.org \in OrgNames
    BY DEF IsolationInv, GrantsInv, TypeInv, ClustersInv, ClustersTypeOK, Namespace
  <2>3. PICK s \in SpaceNames : x.name = NsName(x.org, s)
    BY DEF IsolationInv, NamespacesNamed
  <2>4. PICK i \in DOMAIN spec.spaces : NsName(o, spec.spaces[i].name) = b.ns
    BY <2>1 DEF SpecGrants
  <2>5. spec.spaces[i].name \in SpaceNames
    <3>1. spec.spaces \in Seq(Space)
      BY TypesAssumption DEF OrgSpec
    <3>2. spec.spaces[i] \in Space
      BY <3>1, <2>4, ElementOfSeq, LenProperties
    <3> QED
      BY <3>2 DEF Space
  <2>6. o = x.org
    BY <2>2, <2>3, <2>4, <2>5 DEF UnambiguousNames
  <2> QED
    BY <2>1, <2>6
<1>4. UnambiguousNames => []UnambiguousNames
  BY DEF UnambiguousNames
<1> QED
  BY <1>1, <1>2, <1>3, <1>4, PTL DEF Spec
-------------------------------------------------------------------------------
(***************************************************************************)
(* Revoking a global user leaves the grants of orgs and spaces alone.      *)
(***************************************************************************)
SurvivalInv == GrantsInv /\ NamesUnique /\ CachedDeclared /\ RevokingDeclared

(* What changes the namespaces of the clusters, and what their bindings.   *)
LEMMA RestRemovesNamespaces ==
    ASSUME [Next]_vars, ~OrgWorker
    PROVE  \/ UNCHANGED nss
           \/ \E c \in ClusterNames, n \in NamespaceNames : RemoveNamespace(c, n)
<1>1. UserWorker => UNCHANGED nss
  BY DEF UserWorker, UserStep, UserBegin, UserGetCfNamespaces, UserCreateRoleBinding,
         UserListRoleBindings, UserDeleteRoleBinding, WatchNamespaces, APICreateBinding,
         APIDeleteBinding, clusterVars, apiVars
<1>2. UserEdit \/ Resync \/ Crash \/ Start \/ UNCHANGED vars => UNCHANGED nss
  BY DEF UserEdit, PutOrg, DeleteOrg, PutGlobalUser, DeleteGlobalUser, Resync, ResyncOrg,
         ResyncGlobalUser, Crash, Start, vars, clusterVars, apiVars
<1>3. ASSUME NEW c \in ClusterNames, ClusterStep(c)
      PROVE  UNCHANGED nss \/ \E n \in NamespaceNames : RemoveNamespace(c, n)
  BY <1>3 DEF ClusterStep, StartCache, SyncNamespaces, SyncBindings, EmptyNamespace, apiVars
<1> QED
  BY <1>1, <1>2, <1>3 DEF Next

LEMMA WhoChangesNamespaces ==
    ASSUME [Next]_vars
    PROVE  \/ UNCHANGED nss
           \/ OrgCreateNamespace
           \/ \E c \in ClusterNames : OrgDeleteNamespaces(c)
           \/ \E c \in ClusterNames, n \in NamespaceNames : RemoveNamespace(c, n)
<1>1. OrgWorker => \/ UNCHANGED nss \/ OrgCreateNamespace
                   \/ \E c \in ClusterNames : OrgDeleteNamespaces(c)
  BY DEF OrgWorker, OrgStep, OrgBegin, OrgGetGlobalUsers, OrgCreateRoleBinding, APICreateBinding,
         clusterVars, apiVars
<1> QED
  BY <1>1, RestRemovesNamespaces

LEMMA WhoChangesBindings ==
    ASSUME [Next]_vars
    PROVE  \/ UNCHANGED rbs
           \/ OrgCreateRoleBinding \/ UserCreateRoleBinding
           \/ UserDeleteRoleBinding /\ UNCHANGED <<nss, historyVars>>
           \/ \E c \in ClusterNames, n \in NamespaceNames : EmptyNamespace(c, n)
<1>1. OrgWorker => UNCHANGED rbs \/ OrgCreateRoleBinding
  BY DEF OrgWorker, OrgStep, OrgBegin, OrgGetGlobalUsers, OrgCreateNamespace, OrgDeleteNamespaces,
         APICreateNamespace, APIDeleteNamespaces, clusterVars, apiVars
<1>2. UserWorker => \/ UNCHANGED rbs \/ UserCreateRoleBinding
                    \/ UserDeleteRoleBinding /\ UNCHANGED <<nss, historyVars>>
  BY DEF UserWorker, UserStep, UserBegin, UserGetCfNamespaces, UserListRoleBindings,
         UserDeleteRoleBinding, WatchNamespaces, APIDeleteBinding, clusterVars, apiVars
<1>3. UserEdit \/ Resync \/ Crash \/ Start \/ UNCHANGED vars => UNCHANGED rbs
  BY DEF UserEdit, PutOrg, DeleteOrg, PutGlobalUser, DeleteGlobalUser, Resync, ResyncOrg,
         ResyncGlobalUser, Crash, Start, vars, clusterVars, apiVars
<1>4. ASSUME NEW c \in ClusterNames, ClusterStep(c)
      PROVE  UNCHANGED rbs \/ \E n \in NamespaceNames : EmptyNamespace(c, n)
  BY <1>4 DEF ClusterStep, StartCache, SyncNamespaces, SyncBindings, RemoveNamespace, apiVars
<1> QED
  BY <1>1, <1>2, <1>3, <1>4 DEF Next

(* What was ever declared stays in the history.                            *)
LEMMA HistoryGrows ==
    ASSUME [Next]_vars
    PROVE  everOrgs \subseteq everOrgs' /\ everUsers \subseteq everUsers'
BY DEF Next, vars, UserEdit, PutOrg, DeleteOrg, PutGlobalUser, DeleteGlobalUser, OrgWorker,
       UserWorker, ClusterStep, Resync, ResyncOrg, ResyncGlobalUser, Crash, Start, historyVars

(* Two namespaces of a cluster never have the same name: createNamespace   *)
(* finds one that exists, DeleteAllOf changes phases only.                 *)
LEMMA NamesUniqueStable ==
    ASSUME TypeInv, NamesUnique, [Next]_vars
    PROVE  NamesUnique'
<1> SUFFICES ASSUME NEW d \in ClusterNames, NEW x \in nss'[d], NEW y \in nss'[d], x.name = y.name
             PROVE  x = y
  BY DEF NamesUnique
<1>1. nss \in [ClusterNames -> SUBSET Namespace]
  BY DEF TypeInv, ClustersInv, ClustersTypeOK
<1>2. CASE x \in nss[d] /\ y \in nss[d]
  BY <1>2 DEF NamesUnique
<1>3. ASSUME NEW c \in ClusterNames, NEW o, NEW gone \in SUBSET Labelled(c, o), Terminate(c, gone)
      PROVE  x = y
  <2>1. CASE c # d
    BY <1>1, <1>2, <1>3, <2>1 DEF Terminate
  <2>2. CASE c = d
    <3>1. gone \subseteq nss[d]
      BY <2>2 DEF Labelled
    <3>2. nss'[d] = (nss[d] \ gone) \cup {[z EXCEPT !.phase = "terminating"] : z \in gone}
      BY <1>1, <1>3, <2>2 DEF Terminate
    <3>3. ASSUME NEW z \in nss'[d]
          PROVE  \E z0 \in nss[d] :
                    /\ z0.name = z.name
                    /\ z = IF z0 \in gone THEN [z0 EXCEPT !.phase = "terminating"] ELSE z0
      <4>1. CASE z \in nss[d] \ gone
        BY <4>1
      <4>2. ASSUME NEW z0 \in gone, z = [z0 EXCEPT !.phase = "terminating"]
            PROVE  z0 \in nss[d] /\ z0.name = z.name
        BY <1>1, <3>1, <4>2 DEF Namespace
      <4> QED
        BY <3>2, <4>1, <4>2
    <3> QED
      BY <3>3 DEF NamesUnique
  <2> QED
    BY <2>1, <2>2
<1>4. ASSUME NEW c \in ClusterNames, OrgDeleteNamespaces(c) PROVE x = y
  <2>1. PICK r \in {"ok", "error"} : APIDeleteNamespaces(c, orgPass.org, r)
    BY <1>4 DEF OrgDeleteNamespaces
  <2>2. UNCHANGED nss \/ \E gone \in SUBSET Labelled(c, orgPass.org) : Terminate(c, gone)
    BY <2>1 DEF APIDeleteNamespaces
  <2> QED
    BY <1>2, <1>3, <2>2
<1>5. CASE OrgCreateNamespace
  <2>1. PICK c, n, o, r : APICreateNamespace(c, n, o, r)
    BY <1>5 DEF OrgCreateNamespace
  <2>2. \/ UNCHANGED nss
        \/ ~NamespaceExists(c, n) /\ AddNamespace(c, n, o)
    BY <2>1 DEF APICreateNamespace
  <2>3. ASSUME ~NamespaceExists(c, n), AddNamespace(c, n, o), c = d PROVE x = y
    <3>1. nss'[d] = nss[d] \cup {[name |-> n, org |-> o, phase |-> "active"]}
      BY <1>1, <2>3 DEF AddNamespace
    <3>2. \A z \in nss[d] : z.name # n
      BY <2>3 DEF NamespaceExists
    <3> QED
      BY <1>2, <3>1, <3>2
  <2>4. ASSUME AddNamespace(c, n, o), c # d PROVE UNCHANGED nss[d]
    BY <1>1, <2>4 DEF AddNamespace
  <2> QED
    BY <1>2, <2>2, <2>3, <2>4
<1>6. ASSUME NEW c \in ClusterNames, NEW n \in NamespaceNames, RemoveNamespace(c, n) PROVE x = y
  BY <1>1, <1>2, <1>6 DEF RemoveNamespace
<1> QED
  BY <1>2, <1>4, <1>5, <1>6, WhoChangesNamespaces

(* The caches hold what was bound, hence what was declared.                *)
LEMMA CachedDeclaredStable ==
    ASSUME GrantsInv, CachedDeclared, [Next]_vars
    PROVE  CachedDeclared'
<1> SUFFICES ASSUME NEW d \in ClusterNames, NEW b \in rbCache'[d] PROVE Declared(d, b)'
  BY DEF CachedDeclared
<1>1. rbCache \in [ClusterNames -> SUBSET RoleBinding]
  BY DEF GrantsInv, TypeInv, ClustersInv, ClustersTypeOK
<1>2. ASSUME NEW c \in ClusterNames, ClusterStep(c) PROVE b \in rbCache[d] \/ b \in rbs[d]
  BY <1>1, <1>2 DEF ClusterStep, StartCache, SyncNamespaces, SyncBindings, EmptyNamespace,
                    RemoveNamespace, cacheVars
<1>3. CASE Crash
  BY <1>3 DEF Crash
<1>4. OrgWorker \/ UserWorker \/ UserEdit \/ Resync \/ Start \/ UNCHANGED vars => UNCHANGED rbCache
  BY DEF OrgWorker, OrgStep, OrgBegin, OrgGetGlobalUsers, OrgCreateNamespace, OrgCreateRoleBinding,
         OrgDeleteNamespaces, UserWorker, UserStep, UserBegin, UserGetCfNamespaces, WatchNamespaces,
         UserCreateRoleBinding, UserListRoleBindings, UserDeleteRoleBinding, UserEdit, PutOrg,
         DeleteOrg, PutGlobalUser, DeleteGlobalUser, Resync, ResyncOrg, ResyncGlobalUser, Start,
         vars, clusterVars, cacheVars
<1>5. b \in rbCache[d] \/ b \in rbs[d] => Declared(d, b)
  BY DEF CachedDeclared, GrantsInv, GrantsDeclared
<1> QED
  BY <1>2, <1>3, <1>4, <1>5, HistoryGrows, DeclaredStable DEF Next

(* What a pass revokes was listed at the global level, from such a cache.  *)
LEMMA RevokingDeclaredStable ==
    ASSUME GrantsInv, CachedDeclared, RevokingDeclared, [Next]_vars
    PROVE  RevokingDeclared'
<1>1. UserTypeInv
  BY DEF GrantsInv, TypeInv, TypeOK, UserTypeInv
<1>2. \A b : GlobalGrant(b) => GlobalGrant(b)'
  BY HistoryGrows, DeclaredStable DEF GlobalGrant
<1>3. CASE userPass' = userPass \/ userPass'.pc # "deleteRoleBinding"
  BY <1>2, <1>3 DEF RevokingDeclared
<1>4. ASSUME NEW p \in UserRevoking, RevokedCluster(p) PROVE userPass'.pc # "deleteRoleBinding"
  <2>1. CASE p.left = {}
    BY <1>4, <2>1 DEF RevokedCluster, UserReturn, UserIdle
  <2>2. CASE p.left # {}
    BY <1>4, <2>2 DEF RevokedCluster, UserRevoking
  <2> QED
    BY <2>1, <2>2
<1>5. ASSUME NEW p \in UserGranting, GrantedCluster(p) PROVE userPass'.pc # "deleteRoleBinding"
  <2>1. CASE p.left = {}
    BY <1>5, <2>1 DEF GrantedCluster, UserReturn, UserIdle
  <2>2. CASE p.left # {}
    BY <1>5, <2>2 DEF GrantedCluster, UserGranting
  <2> QED
    BY <2>1, <2>2
<1>6. ASSUME NEW c \in ClusterNames, UserListRoleBindings(c) PROVE RevokingDeclared'
  <2>1. userPass \in UserRevoking /\ userPass.pc = "listRoleBindings"
    BY <1>1, <1>6, UserPassShape DEF UserListRoleBindings, UserTypeInv
  <2>2. CASE c \notin cacheUp
    BY <1>3, <1>6, <2>2 DEF UserListRoleBindings, UserReturn, UserIdle
  <2>3. CASE c \in cacheUp
    <3> DEFINE L == ListedBindings(c, userPass.user, globalLevel)
    <3>1. PICK listed \in SetToSeqs(L) :
            LET p == [userPass EXCEPT !.left = @ \ {c}, !.cluster = c, !.rbs = listed,
                                      !.pc = "deleteRoleBinding"]
            IN  (listed = <<>> /\ RevokedCluster(p)) \/ userPass' = p
      BY <1>6, <2>3 DEF UserListRoleBindings
    <3>2. \A b \in L : GlobalGrant(b)
      BY DEF ListedBindings, CachedDeclared, Declared, GlobalGrant, globalLevel, otherLevel
    <3>3. L \in SUBSET RoleBinding /\ IsFiniteSet(L)
      BY <1>1, ListedBindingsType DEF UserTypeInv
    <3> DEFINE p == [userPass EXCEPT !.left = @ \ {c}, !.cluster = c, !.rbs = listed,
                                     !.pc = "deleteRoleBinding"]
    <3>4. (listed = <<>> /\ RevokedCluster(p)) \/ userPass' = p
      BY <3>1
    <3> HIDE DEF L
    <3>5. listed \in Seq(L) /\ listed \in Seq(RoleBinding)
      <4>1. listed \in Seq(L)
        BY <3>1, <3>3, OrderIsSeq
      <4> QED
        BY <3>3, <4>1, SeqDef
    <3>6. p \in UserRevoking /\ p.rbs = listed
      BY <2>1, <3>5 DEF UserRevoking
    <3>7. \A i \in DOMAIN listed : GlobalGrant(listed[i])
      BY <3>2, <3>5, ElementOfSeq, LenProperties
    <3> HIDE DEF p
    <3> QED
      BY <1>2, <1>3, <1>4, <3>4, <3>6, <3>7 DEF RevokingDeclared
  <2> QED
    BY <2>2, <2>3
<1>7. CASE UserDeleteRoleBinding
  <2>1. /\ userPass \in UserRevoking /\ userPass.pc = "deleteRoleBinding"
        /\ userPass.rbs # <<>>
    BY <1>1, <1>7, UserPassShape DEF UserDeleteRoleBinding, UserTypeInv, UserTypeOK
  <2>2. userPass.rbs \in Seq(RoleBinding)
    BY <2>1 DEF UserRevoking
  <2>3. \/ UserReturn(userPass.user, TRUE) \/ RevokedCluster(userPass)
        \/ userPass' = [userPass EXCEPT !.rbs = Tail(@)]
    BY <1>7 DEF UserDeleteRoleBinding
  <2>4. CASE userPass' = [userPass EXCEPT !.rbs = Tail(@)]
    <3>1. userPass'.rbs = Tail(userPass.rbs)
      BY <2>1, <2>4 DEF UserRevoking
    <3>2. \A i \in DOMAIN Tail(userPass.rbs) :
            i + 1 \in DOMAIN userPass.rbs /\ Tail(userPass.rbs)[i] = userPass.rbs[i + 1]
      BY <2>1, <2>2, HeadTailProperties, LenProperties, EmptySeq
    <3> QED
      BY <1>2, <2>1, <3>1, <3>2 DEF RevokingDeclared
  <2> QED
    BY <1>3, <1>4, <2>1, <2>3, <2>4 DEF UserReturn, UserIdle
<1>8. ASSUME NEW u \in UserNames, UserBegin(u) PROVE userPass'.pc # "deleteRoleBinding"
  BY <1>8 DEF UserBegin, UserPass, Granting, Revoking
<1>9. CASE UserCreateRoleBinding \/ \E c \in ClusterNames : UserGetCfNamespaces(c)
  <2>1. userPass \in UserGranting /\ ClustersInv
    BY <1>1, <1>9, UserPassShape DEF UserCreateRoleBinding, UserGetCfNamespaces, UserTypeInv
  <2>2. CASE UserCreateRoleBinding
    <3>1. userPass.pc = "createRoleBindings"
      BY <2>2 DEF UserCreateRoleBinding
    <3>2. \/ UserReturn(userPass.user, TRUE) \/ GrantedCluster(userPass)
          \/ userPass' = [userPass EXCEPT !.todo = Tail(@)]
          \/ userPass' = [userPass EXCEPT !.nss = Tail(@), !.todo = userPass.roles]
      BY <2>2 DEF UserCreateRoleBinding
    <3>3. /\ [userPass EXCEPT !.todo = Tail(@)].pc # "deleteRoleBinding"
          /\ [userPass EXCEPT !.nss = Tail(@), !.todo = userPass.roles].pc # "deleteRoleBinding"
      BY <2>1, <3>1 DEF UserGranting
    <3>4. userPass'.pc # "deleteRoleBinding"
      <4>1. CASE UserReturn(userPass.user, TRUE)
        BY <4>1 DEF UserReturn, UserIdle
      <4> QED
        BY <1>5, <2>1, <3>2, <3>3, <4>1
    <3> QED
      BY <1>3, <3>4
  <2>3. ASSUME NEW c \in ClusterNames, UserGetCfNamespaces(c)
        PROVE  userPass'.pc # "deleteRoleBinding"
    <3>1. CASE c \notin cacheUp
      BY <2>3, <3>1 DEF UserGetCfNamespaces, UserReturn, UserIdle
    <3>2. CASE c \in cacheUp
      <4>1. PICK listed : LET p == [userPass EXCEPT !.left = @ \ {c}, !.cluster = c, !.nss = listed,
                                         !.todo = userPass.roles, !.pc = "createRoleBindings"]
                          IN  GrantedCluster(p) \/ userPass' = p
        BY <2>3, <3>2 DEF UserGetCfNamespaces
      <4> DEFINE p == [userPass EXCEPT !.left = @ \ {c}, !.cluster = c, !.nss = listed,
                                       !.todo = userPass.roles, !.pc = "createRoleBindings"]
                 q == [p EXCEPT !.pc = "getCfNamespaces", !.cluster = Absent, !.nss = <<>>,
                                !.todo = <<>>]
      <4>2. p.pc = "createRoleBindings" /\ q.pc = "getCfNamespaces"
        BY <2>1 DEF UserGranting
      <4>3. GrantedCluster(p) => userPass' = q \/ userPass' = UserIdle
        BY DEF GrantedCluster, UserReturn
      <4>4. GrantedCluster(p) \/ userPass' = p
        BY <4>1
      <4> HIDE DEF p, q
      <4> QED
        BY <4>2, <4>3, <4>4 DEF UserIdle
    <3> QED
      BY <3>1, <3>2
  <2> QED
    BY <1>3, <1>9, <2>2, <2>3
<1>10. ~UserWorker => userPass' = userPass \/ userPass' = UserIdle
  BY DEF Next, vars, OrgWorker, ClusterStep, UserEdit, PutOrg, DeleteOrg, PutGlobalUser,
         DeleteGlobalUser, Resync, ResyncOrg, ResyncGlobalUser, Crash, Start, userVars
<1> QED
  BY <1>3, <1>6, <1>7, <1>8, <1>9, <1>10 DEF UserWorker, UserStep, UserIdle

LEMMA NextSurvivalInv == SurvivalInv /\ [Next]_vars => SurvivalInv'
BY NextGrantsInv, NamesUniqueStable, CachedDeclaredStable, RevokingDeclaredStable
   DEF SurvivalInv, GrantsInv

LEMMA InitSurvivalInv == Init => SurvivalInv
BY InitGrantsInv DEF SurvivalInv, Init, ClustersInit, CachesDown, UserInit, UserIdle, NamesUnique,
                     CachedDeclared, RevokingDeclared

(* A grant of an org or a space in a live namespace stays: a Delete is for *)
(* a binding at the global level, and one whose name is another is not     *)
(* hit; the namespace controller empties no live namespace.                *)
LEMMA BindingStays ==
    ASSUME SurvivalInv, [Next]_vars, NEW c \in ClusterNames, NEW b \in rbs[c],
           b.level = otherLevel, NamespaceActive(c, b.ns), ~GloballyNamed(b.user, b.role)
    PROVE  b \in rbs'[c]
<1>1. rbs \in [ClusterNames -> SUBSET RoleBinding]
  BY DEF SurvivalInv, GrantsInv, TypeInv, ClustersInv, ClustersTypeOK
<1>2. ASSUME NEW d, NEW x, NEW r, APICreateBinding(d, x, r) PROVE b \in rbs'[c]
  BY <1>1, <1>2 DEF APICreateBinding, AddBinding
<1>3. CASE UserDeleteRoleBinding
  <2> DEFINE x == Head(userPass.rbs)
  <2>1. /\ userPass.rbs \in Seq(RoleBinding) /\ userPass.rbs # <<>>
        /\ userPass.pc = "deleteRoleBinding"
    BY <1>3, UserPassShape
       DEF UserDeleteRoleBinding, SurvivalInv, GrantsInv, TypeInv, TypeOK, UserTypeOK, UserRevoking
  <2>2. x \in RoleBinding /\ GlobalGrant(x)
    <3>1. 1 \in DOMAIN userPass.rbs /\ x = userPass.rbs[1]
      BY <2>1, EmptySeq, LenProperties, HeadTailProperties
    <3> QED
      BY <2>1, <3>1, HeadTailProperties DEF SurvivalInv, RevokingDeclared
  <2>3. PICK r : APIDeleteBinding(userPass.cluster, x, r)
    BY <1>3 DEF UserDeleteRoleBinding
  <2> HIDE DEF x
  <2>4. ~SameKey(b, x)
    BY <2>2 DEF SameKey, RbName, GloballyNamed, GlobalGrant, RoleBinding
  <2> QED
    BY <1>1, <2>3, <2>4 DEF APIDeleteBinding, RemoveBinding, Named
<1>4. ASSUME NEW d \in ClusterNames, NEW n \in NamespaceNames, EmptyNamespace(d, n)
      PROVE  b \in rbs'[c]
  <2>1. d = c => b.ns # n
    BY <1>4 DEF EmptyNamespace, NamespaceActive, SurvivalInv, NamesUnique
  <2> QED
    BY <1>1, <1>4, <2>1 DEF EmptyNamespace
<1> QED
  BY <1>2, <1>3, <1>4, WhoChangesBindings DEF OrgCreateRoleBinding, UserCreateRoleBinding

(* Whatever a stale cache makes reconcileDeletedGlobalUser delete, a grant *)
(* of an org or a space in a live namespace survives, unless a GlobalUser  *)
(* declared one whose binding has the same name.                           *)
THEOREM OrgGrantsSurvive == Spec => OtherLevelSurvives
<1> DEFINE Survives == \A c \in ClusterNames : \A b \in rbs[c] :
             /\ b.level = otherLevel /\ NamespaceActive(c, b.ns)
             /\ ~GloballyNamed(b.user, b.role)
             => b \in rbs'[c]
<1>1. SurvivalInv /\ [Next]_vars => Survives
  BY BindingStays
<1>2. SurvivalInv /\ [Next]_vars => [Survives]_vars
  BY <1>1
<1> HIDE DEF Survives
<1>3. Spec => [][Survives]_vars
  BY <1>2, InitSurvivalInv, NextSurvivalInv, PTL DEF Spec
<1> QED
  BY <1>3 DEF OtherLevelSurvives, Survives
-------------------------------------------------------------------------------
(***************************************************************************)
(* A pass that returns no error has bound the grants of the last space.    *)
(***************************************************************************)
BoundInv == SurvivalInv /\ BoundSoFar

(* A list grants what it grants once a role is dropped, and that role (the *)
(* loops of createRoleBindings skip nobody).                               *)
LEMMA DropRoleRest ==
    ASSUME NEW users \in Seq(User), users # <<>>, NEW u, NEW r, Grants(users, u, r)
    PROVE  \/ Grants(DropRole(users), u, r)
           \/ u = Head(users).name /\ r = Head(Head(users).roles)
<1> DEFINE first == Head(users)
           fewer == [first EXCEPT !.roles = Tail(@)]
           all == <<fewer>> \o Tail(users)
<1>1. /\ first \in User /\ first = users[1]
      /\ Tail(users) \in Seq(User) /\ Len(Tail(users)) = Len(users) - 1
      /\ Len(users) \in Nat /\ Len(users) > 0 /\ DOMAIN users = 1..Len(users)
      /\ \A i \in 1..Len(Tail(users)) : Tail(users)[i] = users[i + 1]
  BY HeadTailProperties, LenProperties, EmptySeq
<1>2. first.roles \in Seq(Roles) /\ first.roles # <<>>
  BY <1>1 DEF User
<1>3. fewer.name = first.name /\ fewer.roles = Tail(first.roles)
  BY <1>1 DEF User
<1>4. /\ DOMAIN all = 1..Len(users) /\ all[1] = fewer
      /\ \A i \in 2..Len(users) : all[i] = users[i]
  <2> HIDE DEF fewer, first
  <2>1. Len(Tail(users)) \in Nat /\ Len(<<fewer>>) = 1
    BY <1>1, LenProperties
  <2>2. /\ DOMAIN all = 1..(1 + Len(Tail(users))) /\ all[1] = fewer
        /\ \A i \in 1..Len(Tail(users)) : all[i + 1] = Tail(users)[i]
    BY <1>1, <2>1
  <2> HIDE DEF all
  <2>3. ASSUME NEW i \in 2..Len(users) PROVE all[i] = users[i]
    <3>1. i - 1 \in 1..Len(Tail(users)) /\ (i - 1) + 1 = i
      BY <1>1
    <3> QED
      BY <1>1, <2>2, <3>1
  <2> QED
    BY <1>1, <2>2, <2>3
<1>5. PICK i \in 1..Len(users) : users[i].name = u /\ \E k \in DOMAIN users[i].roles : users[i].roles[k] = r
  BY <1>1 DEF Grants
<1>6. CASE i # 1
  <2>1. Grants(all, u, r)
    <3> HIDE DEF all
    <3>1. i \in 2..Len(users)
      BY <1>1, <1>6
    <3> QED
      BY <1>4, <1>5, <3>1 DEF Grants
  <2>2. Grants(Tail(users), u, r)
    <3>1. i - 1 \in 1..Len(Tail(users)) /\ Tail(users)[i - 1] = users[i]
      BY <1>1, <1>6
    <3>2. DOMAIN Tail(users) = 1..Len(Tail(users))
      BY <1>1, LenProperties
    <3> QED
      BY <1>5, <3>1, <3>2 DEF Grants
  <2> QED
    BY <2>1, <2>2 DEF DropRole
<1>7. CASE i = 1
  <2> HIDE DEF first
  <2>1. /\ Len(first.roles) \in Nat /\ DOMAIN first.roles = 1..Len(first.roles)
        /\ Head(first.roles) = first.roles[1]
        /\ DOMAIN Tail(first.roles) = 1..(Len(first.roles) - 1)
        /\ \A k \in 1..(Len(first.roles) - 1) : Tail(first.roles)[k] = first.roles[k + 1]
    BY <1>2, HeadTailProperties, LenProperties, EmptySeq
  <2>2. PICK k \in 1..Len(first.roles) : first.roles[k] = r
    BY <1>1, <1>5, <1>7, <2>1
  <2>3. first.name = u
    BY <1>1, <1>5, <1>7
  <2>4. CASE k = 1
    BY <2>1, <2>2, <2>3, <2>4 DEF first
  <2>5. CASE k # 1
    <3>1. /\ k - 1 \in DOMAIN Tail(first.roles) /\ Tail(first.roles)[k - 1] = r
          /\ Len(first.roles) > 1
      BY <2>1, <2>2, <2>5
    <3>2. 1 \in DOMAIN all /\ all[1].name = u /\ all[1].roles = Tail(first.roles)
      <4> HIDE DEF all, fewer
      <4> QED BY <1>1, <1>3, <1>4, <2>3
    <3>3. Grants(all, u, r)
      <4> HIDE DEF all
      <4> QED BY <3>1, <3>2 DEF Grants
    <3> QED
      BY <3>1, <3>3 DEF DropRole, first
  <2> QED
    BY <2>4, <2>5
<1> QED
  BY <1>6, <1>7

(* While the Org worker binds, what it has bound stays: it is the only one *)
(* to put namespaces to death, and it is busy.                             *)
LEMMA OrgBoundStays ==
    ASSUME SurvivalInv, [Next]_vars, orgPass.pc = "createRoleBindings",
           NEW c \in ClusterNames, NEW n, NEW u, NEW r, OrgBound(c, n, u, r), ~GloballyNamed(u, r)
    PROVE  OrgBound(c, n, u, r)'
<1>1. PICK b \in rbs[c] : b.ns = n /\ b.user = u /\ b.role = r /\ b.level = otherLevel
  BY DEF OrgBound
<1>2. b \in rbs'[c]
  BY <1>1, BindingStays DEF OrgBound
<1>3. NamespaceActive(c, n)'
  <2>1. PICK x \in nss[c] : x.name = n /\ x.phase = "active"
    BY DEF OrgBound, NamespaceActive
  <2>2. nss \in [ClusterNames -> SUBSET Namespace]
    BY DEF SurvivalInv, GrantsInv, TypeInv, ClustersInv, ClustersTypeOK
  <2>3. ASSUME NEW d \in ClusterNames, NEW m \in NamespaceNames, RemoveNamespace(d, m)
        PROVE  x \in nss'[c]
    <3>1. d = c => m # n
      BY <2>1, <2>3 DEF RemoveNamespace, SurvivalInv, NamesUnique
    <3> QED
      BY <2>1, <2>2, <2>3, <3>1 DEF RemoveNamespace
  <2>4. x \in nss'[c]
    BY <2>3, WhoChangesNamespaces DEF OrgCreateNamespace, OrgDeleteNamespaces
  <2> QED
    BY <2>1, <2>4 DEF NamespaceActive
<1> QED
  BY <1>1, <1>2, <1>3 DEF OrgBound

(* The space the pass is in, the binding createRoleBindings makes next and *)
(* what it leaves to be made.                                              *)
ThisSpace == orgPass.spec.spaces[orgPass.space]

NextBinding ==
    LET level == NextLevel(orgPass.todo)
        user == Head(orgPass.todo[level])
    IN  [ns |-> NsName(orgPass.org, ThisSpace.name), user |-> user.name,
         role |-> Head(user.roles), level |-> level]

TodoAfter == [orgPass.todo EXCEPT ![NextLevel(orgPass.todo)] = DropRole(@)]

(* A Create that succeeds takes one grant from what is left and binds it.  *)
LEMMA BindProgress ==
    ASSUME BoundInv, [Next]_vars, orgPass.pc = "createRoleBindings",
           NEW c, c = ThisSpace.cluster, NEW n, n = NsName(orgPass.org, ThisSpace.name),
           APICreateBinding(c, NextBinding, "ok"),
           NEW u \in UserNames, NEW r \in Roles,
           Grants(SpaceUsers(orgPass.spec, orgPass.space), u, r), ~GloballyNamed(u, r)
    PROVE  \/ Grants(TodoAfter[otherLevel], u, r)
           \/ OrgBound(c, n, u, r)'
<1> DEFINE level == NextLevel(orgPass.todo)
           users == orgPass.todo[level]
<1>1. /\ orgPass \in OrgApplying /\ c \in ClusterNames /\ orgPass.todo # NothingToDo
      /\ rbs \in [ClusterNames -> SUBSET RoleBinding]
  BY OrgPassShape DEF BoundInv, SurvivalInv, GrantsInv, TypeInv, TypeOK, OrgTypeOK, ClustersInv,
                      ClustersTypeOK, ThisSpace
<1>2. orgPass.todo \in Todo
  BY <1>1 DEF OrgApplying
<1>3. /\ level \in {globalLevel, otherLevel}
      /\ users \in Seq(User) /\ users # <<>>
  BY <1>1, <1>2 DEF NextLevel, Todo, NothingToDo
<1>4. /\ TodoAfter[level] = DropRole(users)
      /\ level # otherLevel => TodoAfter[otherLevel] = orgPass.todo[otherLevel]
  BY <1>2, <1>3 DEF TodoAfter, Todo
<1>5. \/ Grants(orgPass.todo[otherLevel], u, r)
      \/ OrgBound(c, n, u, r)
  BY DEF BoundInv, BoundSoFar, ThisSpace
<1>6. CASE OrgBound(c, n, u, r)
  BY <1>1, <1>6, OrgBoundStays DEF BoundInv
<1>7. CASE Grants(orgPass.todo[otherLevel], u, r)
  <2>1. CASE level # otherLevel
    BY <1>4, <1>7, <2>1
  <2>2. CASE level = otherLevel
    <3>1. \/ Grants(DropRole(users), u, r)
          \/ u = Head(users).name /\ r = Head(Head(users).roles)
      <4> HIDE DEF level
      <4> QED BY <1>3, <1>7, <2>2, DropRoleRest
    <3>2. CASE Grants(DropRole(users), u, r)
      <4> HIDE DEF users, level
      <4> QED BY <1>4, <2>2, <3>2
    <3>3. CASE u = Head(users).name /\ r = Head(Head(users).roles)
      <4>1. NextBinding = [ns |-> n, user |-> u, role |-> r, level |-> otherLevel]
        BY <2>2, <3>3 DEF NextBinding
      <4>2. NamespaceActive(c, n) /\ UNCHANGED nss /\ NextBinding \in rbs'[c]
        BY <1>1, <4>1 DEF APICreateBinding, Admits, AddBinding
      <4>3. /\ NextBinding.ns = n /\ NextBinding.user = u /\ NextBinding.role = r
            /\ NextBinding.level = otherLevel
        BY <4>1
      <4> QED
        BY <4>2, <4>3 DEF OrgBound, NamespaceActive
    <3> QED
      BY <3>1, <3>2, <3>3
  <2> QED
    BY <2>1, <2>2
<1> QED
  BY <1>5, <1>6, <1>7

(* The steps of createNamespace and createRoleBindings that stay in a      *)
(* space.                                                                  *)
LEMMA OrgCreateRoleBindingSteps ==
    ASSUME OrgCreateRoleBinding
    PROVE  \E r \in {"ok", "error"} :
              /\ APICreateBinding(ThisSpace.cluster, NextBinding, r)
              /\ IF r = "error" \/ TodoAfter = NothingToDo
                 THEN LeaveSpace(orgPass, r = "error")
                 ELSE orgPass' = [orgPass EXCEPT !.todo = TodoAfter]
BY DEF OrgCreateRoleBinding, ThisSpace, NextBinding, TodoAfter

(* A space is entered, or the pass returns an error for its cluster.       *)
LEMMA EnterSpaceEnds ==
    ASSUME NEW p \in OrgApplying, NEW i, EnterSpace(p, i)
    PROVE  /\ orgPass'.pc # "createRoleBindings"
           /\ orgPass' = Idle => p.org \in orgFailing'
<1>1. CASE p.spec.spaces[i].cluster \in ClusterNames
  <2>1. orgPass'.pc = "createNamespace"
    BY <1>1 DEF EnterSpace, OrgApplying
  <2> QED
    BY <2>1 DEF Idle
<1>2. CASE p.spec.spaces[i].cluster \notin ClusterNames
  BY <1>2 DEF EnterSpace, OrgReturn, Idle
<1> QED
  BY <1>1, <1>2

LEMMA OrgGetGlobalUsersEnds ==
    ASSUME TypeInv, OrgGetGlobalUsers
    PROVE  /\ orgPass'.pc # "createRoleBindings"
           /\ orgPass' = Idle /\ orgPass.spec.spaces # <<>> => orgPass.org \in orgFailing'
<1>1. orgPass \in OrgApplying
  BY OrgPassShape DEF OrgGetGlobalUsers, TypeInv, TypeOK
<1>2. PICK g \in GlobalUserLists :
        IF orgPass.spec.spaces = <<>>
        THEN OrgReturn(orgPass.org, FALSE)
        ELSE EnterSpace([orgPass EXCEPT !.globals = g], 1)
  BY DEF OrgGetGlobalUsers
<1> DEFINE p == [orgPass EXCEPT !.globals = g]
<1>3. g \in Seq(User)
  BY GlobalUserListsType DEF TypeInv, TypeOK
<1>4. p \in OrgApplying /\ p.org = orgPass.org
  BY <1>1, <1>3 DEF OrgApplying
<1>5. CASE orgPass.spec.spaces = <<>>
  BY <1>2, <1>5 DEF OrgReturn, Idle
<1>6. CASE orgPass.spec.spaces # <<>>
  <2>1. EnterSpace(p, 1)
    BY <1>2, <1>6
  <2> HIDE DEF p
  <2> QED
    BY <1>4, <2>1, EnterSpaceEnds
<1> QED
  BY <1>5, <1>6

(* A space is left for the next one, or the pass returns its error.        *)
LEMMA LeaveSpaceEnds ==
    ASSUME NEW p \in OrgApplying, p.space \in 1..Len(p.spec.spaces), NEW failed \in BOOLEAN,
           LeaveSpace(p, failed)
    PROVE  /\ orgPass'.pc # "createRoleBindings"
           /\ orgPass' = Idle /\ p.org \notin orgFailing' =>
                 p.space = Len(p.spec.spaces) /\ ~failed
<1>1. Len(p.spec.spaces) \in Nat
  BY TypesAssumption, LenProperties DEF OrgApplying, OrgSpec
<1>2. ASSUME OrgReturn(p.org, failed)
      PROVE  orgPass'.pc # "createRoleBindings" /\ (p.org \notin orgFailing' => ~failed)
  BY <1>2 DEF OrgReturn, Idle
<1> QED
  BY <1>1, <1>2, EnterSpaceEnds DEF LeaveSpace

(* The invariant holds on: a grant moves from what is left to what is      *)
(* bound, and nothing bound is lost.                                       *)
LEMMA BoundSoFarStable ==
    ASSUME BoundInv, [Next]_vars
    PROVE  BoundSoFar'
<1> SUFFICES ASSUME orgPass'.pc = "createRoleBindings" PROVE BoundSoFar'
  BY DEF BoundSoFar
<1>1. \A u, r : GloballyNamed(u, r) => GloballyNamed(u, r)'
  BY HistoryGrows, DeclaredStable DEF GloballyNamed
<1>2. TypeInv
  BY DEF BoundInv, SurvivalInv, GrantsInv
<1>3. CASE UNCHANGED orgPass
  <2>1. ThisSpace.cluster \in ClusterNames
    BY <1>2, <1>3 DEF TypeInv, TypeOK, OrgTypeOK, ThisSpace
  <2>2. ASSUME NEW c \in ClusterNames, NEW n, NEW u, NEW r, OrgBound(c, n, u, r)
        PROVE  GloballyNamed(u, r) \/ OrgBound(c, n, u, r)'
    BY <1>3, <2>2, OrgBoundStays DEF BoundInv
  <2>3. ASSUME NEW u \in UserNames, NEW r \in Roles,
               Grants(SpaceUsers(orgPass.spec, orgPass.space), u, r), ~GloballyNamed(u, r),
               ~Grants(orgPass.todo[otherLevel], u, r)
        PROVE  OrgBound(ThisSpace.cluster, NsName(orgPass.org, ThisSpace.name), u, r)'
    <3>1. PICK c \in ClusterNames : c = ThisSpace.cluster
      BY <2>1
    <3>2. PICK n : n = NsName(orgPass.org, ThisSpace.name)
      OBVIOUS
    <3>3. OrgBound(c, n, u, r)
      BY <1>3, <2>3, <3>1, <3>2 DEF BoundInv, BoundSoFar, ThisSpace
    <3>4. OrgBound(c, n, u, r)'
      BY <2>2, <2>3, <3>3
    <3>5. c = ThisSpace'.cluster /\ n = NsName(orgPass'.org, ThisSpace'.name)
      BY <1>3, <3>1, <3>2 DEF ThisSpace
    <3> QED
      BY <3>4, <3>5 DEF OrgBound, NamespaceActive
  <2> QED
    BY <1>1, <1>3, <2>3 DEF BoundSoFar, ThisSpace
<1>4. CASE OrgCreateNamespace
  <2> DEFINE todo == [l \in {globalLevel, otherLevel} |->
                        IF l = globalLevel THEN orgPass.globals
                                           ELSE SpaceUsers(orgPass.spec, orgPass.space)]
  <2>1. orgPass \in OrgApplying /\ orgPass.space \in 1..Len(orgPass.spec.spaces)
    BY <1>2, <1>4, OrgPassShape DEF OrgCreateNamespace, TypeInv, TypeOK, OrgTypeOK
  <2>2. \/ \E failed \in BOOLEAN : LeaveSpace(orgPass, failed)
        \/ orgPass' = [orgPass EXCEPT !.pc = "createRoleBindings", !.todo = todo]
    BY <1>4 DEF OrgCreateNamespace
  <2>3. todo[otherLevel] = SpaceUsers(orgPass.spec, orgPass.space)
    BY DEF globalLevel, otherLevel
  <2> HIDE DEF todo
  <2>4. orgPass' = [orgPass EXCEPT !.pc = "createRoleBindings", !.todo = todo]
    BY <2>1, <2>2, LeaveSpaceEnds
  <2>5. /\ orgPass'.spec = orgPass.spec /\ orgPass'.space = orgPass.space
        /\ orgPass'.todo = todo
    BY <2>1, <2>4 DEF OrgApplying
  <2> QED
    BY <2>3, <2>5 DEF BoundSoFar
<1>5. CASE OrgCreateRoleBinding
  <2>1. /\ orgPass \in OrgApplying /\ orgPass.space \in 1..Len(orgPass.spec.spaces)
        /\ orgPass.pc = "createRoleBindings"
    BY <1>2, <1>5, OrgPassShape DEF OrgCreateRoleBinding, TypeInv, TypeOK, OrgTypeOK
  <2>2. /\ APICreateBinding(ThisSpace.cluster, NextBinding, "ok")
        /\ orgPass' = [orgPass EXCEPT !.todo = TodoAfter]
    <3>1. \A failed \in BOOLEAN : ~LeaveSpace(orgPass, failed)
      BY <2>1, LeaveSpaceEnds
    <3> QED
      BY <1>5, <3>1, OrgCreateRoleBindingSteps
  <2>3. /\ orgPass'.spec = orgPass.spec /\ orgPass'.space = orgPass.space
        /\ orgPass'.org = orgPass.org /\ orgPass'.todo = TodoAfter
    BY <2>1, <2>2 DEF OrgApplying
  <2>4. ASSUME NEW u \in UserNames, NEW r \in Roles,
               Grants(SpaceUsers(orgPass.spec, orgPass.space), u, r)
        PROVE  \/ GloballyNamed(u, r)
               \/ Grants(TodoAfter[otherLevel], u, r)
               \/ OrgBound(ThisSpace.cluster, NsName(orgPass.org, ThisSpace.name), u, r)'
    <3>1. PICK c, n : c = ThisSpace.cluster /\ n = NsName(orgPass.org, ThisSpace.name)
      OBVIOUS
    <3>2. GloballyNamed(u, r) \/ Grants(TodoAfter[otherLevel], u, r) \/ OrgBound(c, n, u, r)'
      BY <2>1, <2>2, <2>4, <3>1, BindProgress
    <3>3. c = ThisSpace'.cluster /\ n = NsName(orgPass'.org, ThisSpace'.name)
      BY <2>3, <3>1 DEF ThisSpace
    <3> QED
      BY <3>2, <3>3 DEF OrgBound, NamespaceActive
  <2> QED
    BY <1>1, <2>3, <2>4 DEF BoundSoFar, ThisSpace
<1>6. ASSUME NEW o \in OrgNames, OrgBegin(o) PROVE FALSE
  BY <1>6 DEF OrgBegin
<1>7. ASSUME NEW c \in ClusterNames, OrgDeleteNamespaces(c) PROVE FALSE
  <2>1. orgPass \in OrgDeleting
    BY <1>2, <1>7, OrgPassShape DEF OrgDeleteNamespaces, TypeInv, TypeOK
  <2> QED
    BY <1>7, <2>1 DEF OrgDeleteNamespaces, OrgReturn, Idle, OrgDeleting
<1>8. ~OrgGetGlobalUsers
  BY <1>2, OrgGetGlobalUsersEnds
<1>9. ~OrgWorker => UNCHANGED orgPass \/ orgPass' = Idle
  BY DEF Next, vars, UserWorker, ClusterStep, UserEdit, PutOrg, DeleteOrg, PutGlobalUser,
         DeleteGlobalUser, Resync, ResyncOrg, ResyncGlobalUser, Crash, Start, orgVars
<1> QED
  BY <1>3, <1>4, <1>5, <1>6, <1>7, <1>8, <1>9 DEF OrgWorker, OrgStep, Idle

LEMMA InitBoundInv == Init => BoundInv
BY InitSurvivalInv DEF BoundInv, Init, OrgInit, Idle, BoundSoFar

LEMMA NextBoundInv == BoundInv /\ [Next]_vars => BoundInv'
BY NextSurvivalInv, BoundSoFarStable DEF BoundInv

(* When a pass succeeds nothing is left to bind in the last space.         *)
LEMMA SuccessBinds ==
    ASSUME BoundInv, [Next]_vars, NEW o \in OrgNames, NEW spec \in OrgSpecs,
           OrgSucceeds(o, spec), spec.spaces # <<>>, NEW u \in UserNames, NEW r \in Roles,
           Grants(SpaceUsers(spec, Len(spec.spaces)), u, r), ~GloballyNamed(u, r)
    PROVE  GrantBound(o, spec, Len(spec.spaces), u, r)'
<1>1. /\ orgPass.pc \in {"getGlobalUsers", "createNamespace", "createRoleBindings"}
      /\ orgPass.org = o /\ orgPass.spec = spec
      /\ orgPass' = Idle /\ up' /\ o \notin orgFailing'
  BY DEF OrgSucceeds
<1>2. TypeInv
  BY DEF BoundInv, SurvivalInv, GrantsInv
<1>3. orgPass \in OrgApplying /\ orgPass # Idle
  BY <1>1, <1>2, OrgPassShape DEF TypeInv, TypeOK, Idle
<1>4. orgPass.pc \in {"createNamespace", "createRoleBindings"} =>
        orgPass.space \in 1..Len(orgPass.spec.spaces)
  BY <1>2 DEF TypeInv, TypeOK, OrgTypeOK
<1>5. ~OrgGetGlobalUsers
  BY <1>1, <1>2, OrgGetGlobalUsersEnds
<1>6. CASE OrgCreateNamespace
  <2> DEFINE todo == [l \in {globalLevel, otherLevel} |->
                        IF l = globalLevel THEN orgPass.globals
                                           ELSE SpaceUsers(orgPass.spec, orgPass.space)]
  <2>1. PICK a \in {"created", "alreadyExists", "error"} :
          IF a = "error" \/ todo = NothingToDo
          THEN LeaveSpace(orgPass, a = "error")
          ELSE orgPass' = [orgPass EXCEPT !.pc = "createRoleBindings", !.todo = todo]
    BY <1>6 DEF OrgCreateNamespace
  <2>2. todo[otherLevel] = SpaceUsers(orgPass.spec, orgPass.space)
    BY DEF globalLevel, otherLevel
  <2> HIDE DEF todo
  <2>3. orgPass' # [orgPass EXCEPT !.pc = "createRoleBindings", !.todo = todo]
    <3>1. [orgPass EXCEPT !.pc = "createRoleBindings", !.todo = todo].pc = "createRoleBindings"
      BY <1>3 DEF OrgApplying
    <3> QED
      BY <1>1, <3>1 DEF Idle
  <2>4. orgPass.pc = "createNamespace"
    BY <1>6 DEF OrgCreateNamespace
  <2>5. orgPass.space = Len(spec.spaces) /\ todo = NothingToDo
    <3>1. LeaveSpace(orgPass, a = "error") /\ (a = "error" \/ todo = NothingToDo)
      BY <2>1, <2>3
    <3>2. orgPass.space = Len(orgPass.spec.spaces) /\ ~(a = "error")
      BY <1>1, <1>3, <1>4, <2>4, <3>1, LeaveSpaceEnds
    <3> QED
      BY <1>1, <3>1, <3>2
  <2>6. SpaceUsers(spec, Len(spec.spaces)) = <<>>
    BY <1>1, <2>2, <2>5 DEF NothingToDo
  <2> QED
    BY <2>6, NothingGranted
<1>7. CASE OrgCreateRoleBinding
  <2>1. orgPass.pc = "createRoleBindings"
    BY <1>7 DEF OrgCreateRoleBinding
  <2>2. PICK a \in {"ok", "error"} :
          /\ APICreateBinding(ThisSpace.cluster, NextBinding, a)
          /\ IF a = "error" \/ TodoAfter = NothingToDo
             THEN LeaveSpace(orgPass, a = "error")
             ELSE orgPass' = [orgPass EXCEPT !.todo = TodoAfter]
    BY <1>7, OrgCreateRoleBindingSteps
  <2>3. orgPass' # [orgPass EXCEPT !.todo = TodoAfter]
    <3>1. [orgPass EXCEPT !.todo = TodoAfter].pc = orgPass.pc
      BY <1>3 DEF OrgApplying
    <3> QED
      BY <1>1, <2>1, <3>1 DEF Idle
  <2>4. LeaveSpace(orgPass, a = "error") /\ (a = "error" \/ TodoAfter = NothingToDo)
    BY <2>2, <2>3
  <2>5. orgPass.space = Len(spec.spaces) /\ a = "ok" /\ TodoAfter = NothingToDo
    <3>1. orgPass.space = Len(orgPass.spec.spaces) /\ ~(a = "error")
      BY <1>1, <1>3, <1>4, <2>1, <2>4, LeaveSpaceEnds
    <3> QED
      BY <1>1, <2>4, <3>1
  <2>6. TodoAfter[otherLevel] = <<>>
    BY <2>5 DEF NothingToDo
  <2> DEFINE space == spec.spaces[Len(spec.spaces)]
  <2>7. ThisSpace = space
    BY <1>1, <2>5 DEF ThisSpace
  <2>8. OrgBound(space.cluster, NsName(o, space.name), u, r)'
    <3>1. Grants(SpaceUsers(orgPass.spec, orgPass.space), u, r)
      BY <1>1, <2>5
    <3> HIDE DEF space
    <3> QED
      BY <1>1, <2>1, <2>2, <2>5, <2>6, <2>7, <3>1, BindProgress, NothingGranted
  <2> QED
    BY <2>8 DEF OrgBound, GrantBound
<1>8. OrgWorker => OrgCreateNamespace \/ OrgCreateRoleBinding
  BY <1>1, <1>3, <1>5 DEF OrgWorker, OrgStep, OrgBegin, OrgDeleteNamespaces
<1>9. OrgWorker
  BY <1>1, <1>3
  DEF Next, vars, UserWorker, ClusterStep, UserEdit, PutOrg, DeleteOrg, PutGlobalUser,
      DeleteGlobalUser, Resync, ResyncOrg, ResyncGlobalUser, Crash, Start, orgVars
<1> QED
  BY <1>6, <1>7, <1>8, <1>9

(* Whatever happens to the clusters while a pass runs, when it returns no  *)
(* error every grant of the org's last space is bound there, unless a      *)
(* GlobalUser declared one whose binding has the same name (the error that *)
(* Org.Reconcile returns, the loops of createRoleBindings).                *)
THEOREM SuccessIsLastSpace == Spec => SuccessBindsLastSpace
<1> DEFINE Binds == \A o \in OrgNames, spec \in OrgSpecs :
             OrgSucceeds(o, spec) /\ spec.spaces # <<>> =>
                 \A u \in UserNames, r \in Roles :
                     Grants(SpaceUsers(spec, Len(spec.spaces)), u, r) =>
                         \/ GloballyNamed(u, r)
                         \/ GrantBound(o, spec, Len(spec.spaces), u, r)'
<1>1. BoundInv /\ [Next]_vars => [Binds]_vars
  BY SuccessBinds
<1> HIDE DEF Binds
<1>2. Spec => [][Binds]_vars
  BY <1>1, InitBoundInv, NextBoundInv, PTL DEF Spec
<1> QED
  BY <1>2 DEF SuccessBindsLastSpace, Binds
-------------------------------------------------------------------------------
(***************************************************************************)
(* No deletion is forgotten while the process runs.                        *)
(***************************************************************************)
RememberInv == TypeInv /\ PassesOutdated /\ DeletionsRemembered

(* A pass never takes a key out of the queue.                              *)
LEMMA QueueKept ==
    ASSUME OrgStep
    PROVE  orgQueue \subseteq orgQueue'
<1>1. ASSUME NEW o, NEW failed, OrgReturn(o, failed) PROVE orgQueue \subseteq orgQueue'
  BY <1>1 DEF OrgReturn
<1>2. ASSUME NEW p, NEW i, EnterSpace(p, i) PROVE orgQueue \subseteq orgQueue'
  BY <1>1, <1>2 DEF EnterSpace
<1>3. ASSUME NEW p, NEW failed, LeaveSpace(p, failed) PROVE orgQueue \subseteq orgQueue'
  BY <1>1, <1>2, <1>3 DEF LeaveSpace
<1>4. CASE OrgGetGlobalUsers
  BY <1>1, <1>2, <1>4 DEF OrgGetGlobalUsers
<1>5. CASE OrgCreateNamespace
  BY <1>3, <1>5 DEF OrgCreateNamespace
<1>6. CASE OrgCreateRoleBinding
  BY <1>3, <1>6 DEF OrgCreateRoleBinding
<1>7. ASSUME NEW c \in ClusterNames, OrgDeleteNamespaces(c) PROVE orgQueue \subseteq orgQueue'
  BY <1>1, <1>7 DEF OrgDeleteNamespaces
<1> QED
  BY <1>4, <1>5, <1>6, <1>7 DEF OrgStep

(* A living namespace is an old one, or one the pass over its org makes.   *)
LEMMA LivingNamespaces ==
    ASSUME TypeInv, [Next]_vars, NEW c \in ClusterNames, NEW x \in nss'[c], x.phase = "active"
    PROVE  x \in nss[c] \/ (OrgCreateNamespace /\ x.org = orgPass.org)
<1>1. nss \in [ClusterNames -> SUBSET Namespace]
  BY DEF TypeInv, ClustersInv, ClustersTypeOK
<1>2. CASE OrgCreateNamespace
  <2>1. PICK d, n, r : APICreateNamespace(d, n, orgPass.org, r)
    BY <1>2 DEF OrgCreateNamespace
  <2> QED
    BY <1>1, <1>2, <2>1 DEF APICreateNamespace, AddNamespace
<1>3. ASSUME NEW d \in ClusterNames, OrgDeleteNamespaces(d) PROVE x \in nss[c]
  <2>1. UNCHANGED nss \/ \E gone \in SUBSET Labelled(d, orgPass.org) : Terminate(d, gone)
    BY <1>3 DEF OrgDeleteNamespaces, APIDeleteNamespaces
  <2>2. ASSUME NEW gone \in SUBSET Labelled(d, orgPass.org), Terminate(d, gone)
        PROVE  x \in nss[c]
    <3>1. \A y \in gone : [y EXCEPT !.phase = "terminating"].phase = "terminating"
      BY <1>1 DEF Labelled, Namespace
    <3> QED
      BY <1>1, <2>2, <3>1 DEF Terminate
  <2> QED
    BY <2>1, <2>2
<1>4. ASSUME NEW d \in ClusterNames, NEW n \in NamespaceNames, RemoveNamespace(d, n)
      PROVE  x \in nss[c]
  BY <1>1, <1>4 DEF RemoveNamespace
<1> QED
  BY <1>2, <1>3, <1>4, WhoChangesNamespaces

(* A call that succeeds leaves no living namespace of the org in the       *)
(* cluster.                                                                *)
LEMMA DeletedFromCluster ==
    ASSUME TypeInv, NEW c \in ClusterNames, NEW o, APIDeleteNamespaces(c, o, "ok"),
           NEW x \in nss'[c], x.org = o
    PROVE  x.phase # "active"
<1>1. nss \in [ClusterNames -> SUBSET Namespace]
  BY DEF TypeInv, ClustersInv, ClustersTypeOK
<1>2. nss' = [nss EXCEPT ![c] = (nss[c] \ Labelled(c, o))
                \cup {[y EXCEPT !.phase = "terminating"] : y \in Labelled(c, o)}]
  BY DEF APIDeleteNamespaces, Terminate
<1>3. CASE x \in nss[c] \ Labelled(c, o)
  BY <1>3 DEF Labelled
<1>4. ASSUME NEW y \in Labelled(c, o), x = [y EXCEPT !.phase = "terminating"]
      PROVE  x.phase # "active"
  BY <1>1, <1>4 DEF Labelled, Namespace
<1> QED
  BY <1>1, <1>2, <1>3, <1>4

(* What a step other than the worker's does to the orgs, the queue and the *)
(* pass, as long as nothing has crashed.                                   *)
LEMMA RestKeepsPass ==
    ASSUME TypeInv, [Next]_vars, up, ~OrgWorker, ~Crash
    PROVE  /\ up' /\ UNCHANGED orgPass
           /\ orgQueue \subseteq orgQueue'
           /\ \A o \in OrgNames : orgs'[o] = Absent => orgs[o] = Absent \/ o \in orgQueue'
<1>1. CASE UserEdit
  <2>1. ASSUME NEW o \in OrgNames, NEW spec \in OrgSpecs, PutOrg(o, spec)
        PROVE  \A p \in OrgNames : orgs'[p] = Absent => orgs[p] = Absent
    BY <2>1, TypesAssumption DEF PutOrg, TypeInv, TypeOK, ManagerTypeOK
  <2>2. ASSUME NEW o \in OrgNames, DeleteOrg(o)
        PROVE  \A p \in OrgNames : orgs'[p] = Absent => orgs[p] = Absent \/ p \in orgQueue'
    BY <2>2 DEF DeleteOrg, Enqueued, TypeInv, TypeOK, ManagerTypeOK
  <2>3. up' /\ UNCHANGED orgPass /\ orgQueue \subseteq orgQueue'
    BY <1>1 DEF UserEdit, PutOrg, DeleteOrg, PutGlobalUser, DeleteGlobalUser, Enqueued, orgVars
  <2> QED
    BY <1>1, <2>1, <2>2, <2>3 DEF UserEdit, PutGlobalUser, DeleteGlobalUser
<1>2. CASE Resync
  BY <1>2 DEF Resync, ResyncOrg, ResyncGlobalUser, managerVars, orgVars
<1>3. CASE UserWorker
  BY <1>3
  DEF UserWorker, UserStep, UserBegin, UserGetCfNamespaces, UserCreateRoleBinding,
      UserListRoleBindings, UserDeleteRoleBinding, managerVars, orgVars
<1>4. CASE (\E c \in ClusterNames : ClusterStep(c)) \/ UNCHANGED vars
  BY <1>4 DEF ClusterStep, vars, managerVars, orgVars
<1>5. ~Start
  BY DEF Start
<1> QED
  BY <1>1, <1>2, <1>3, <1>4, <1>5 DEF Next

(* What the worker does to them.                                           *)
LEMMA OrgWorkerKeeps ==
    ASSUME OrgWorker
    PROVE  UNCHANGED <<up, orgs, crashes>>
BY DEF OrgWorker, OrgStep, OrgBegin, OrgGetGlobalUsers, OrgCreateNamespace, OrgCreateRoleBinding,
       OrgDeleteNamespaces, managerVars, boundVars

LEMMA CrashesGrow ==
    ASSUME TypeInv, [Next]_vars, crashes' = 0
    PROVE  crashes = 0 /\ ~Crash
<1>1. crashes \in Nat
  BY OrgControllerAssumption DEF TypeInv, TypeOK
<1>2. Crash => crashes' = crashes + 1
  BY DEF Crash
<1>3. Crash \/ UNCHANGED crashes
  BY OrgWorkerKeeps
  DEF Next, vars, UserEdit, PutOrg, DeleteOrg, PutGlobalUser, DeleteGlobalUser,
      UserWorker, ClusterStep, Resync, ResyncOrg, ResyncGlobalUser, Start, boundVars
<1> QED
  BY <1>1, <1>2, <1>3

Applying == {"getGlobalUsers", "createNamespace", "createRoleBindings"}

LEMMA PassesOutdatedStable ==
    ASSUME TypeInv, PassesOutdated, [Next]_vars
    PROVE  PassesOutdated'
<1> SUFFICES ASSUME crashes' = 0
             PROVE  up' /\ (orgPass'.pc \in Applying /\ orgs'[orgPass'.org] = Absent =>
                               orgPass'.org \in orgQueue')
  BY DEF PassesOutdated, Applying
<1>1. /\ up /\ ~Crash
      /\ orgPass.pc \in Applying /\ orgs[orgPass.org] = Absent => orgPass.org \in orgQueue
  BY CrashesGrow DEF PassesOutdated, Applying
<1>2. CASE OrgStep /\ UNCHANGED <<up, orgs>>
  <2>1. /\ orgQueue \subseteq orgQueue'
        /\ orgPass' = Idle \/ orgPass'.org = orgPass.org
    BY <1>2, QueueKept, OrgStepKeys DEF TypeInv, TypeOK, OrgTypeInv
  <2>2. orgPass'.pc \in Applying => orgPass.pc \in Applying
    <3>1. CASE OrgGetGlobalUsers \/ OrgCreateNamespace \/ OrgCreateRoleBinding
      BY <3>1 DEF OrgGetGlobalUsers, OrgCreateNamespace, OrgCreateRoleBinding, Applying
    <3>2. ASSUME NEW c \in ClusterNames, OrgDeleteNamespaces(c)
          PROVE  orgPass'.pc \notin Applying
      <4>1. orgPass \in OrgDeleting
        BY <3>2, OrgPassShape DEF OrgDeleteNamespaces, TypeInv, TypeOK
      <4>2. orgPass' = Idle \/ orgPass' = [orgPass EXCEPT !.left = @ \ {c}]
        BY <3>2 DEF OrgDeleteNamespaces, OrgReturn
      <4> QED
        BY <4>1, <4>2 DEF OrgDeleting, Idle, Applying
    <3> QED
      BY <1>2, <3>1, <3>2 DEF OrgStep
  <2> QED
    BY <1>1, <1>2, <2>1, <2>2 DEF Idle, Applying
<1>3. ASSUME NEW o \in OrgNames, OrgBegin(o)
      PROVE  up' /\ (orgPass'.pc \in Applying /\ orgs'[orgPass'.org] = Absent =>
                        orgPass'.org \in orgQueue')
  BY <1>1, <1>3 DEF OrgBegin, Applying, managerVars
<1>4. CASE ~OrgWorker
  <2>1. orgPass.pc \in Applying => orgPass.org \in OrgNames
    BY OrgPassShape DEF Applying, TypeInv, TypeOK, OrgTypeOK, OrgApplying, OrgDeleting, Idle
  <2> QED
    BY <1>1, <1>4, <2>1, RestKeepsPass
<1> QED
  BY <1>2, <1>3, <1>4, OrgWorkerKeeps DEF OrgWorker

LEMMA DeletionsRememberedStable ==
    ASSUME RememberInv, [Next]_vars
    PROVE  DeletionsRemembered'
<1> DEFINE Left(o, c) == orgPass.pc = "reconcileDeletedOrg" /\ orgPass.org = o /\ c \in orgPass.left
<1> SUFFICES ASSUME crashes' = 0, NEW o \in OrgNames, NEW c \in ClusterNames, orgs'[o] = Absent,
                    NEW x \in nss'[c], x.org = o, x.phase = "active"
             PROVE  o \in orgQueue' \/ Left(o, c)'
  BY DEF DeletionsRemembered, Labelled
<1>1. up /\ ~Crash /\ crashes = 0
  BY CrashesGrow DEF RememberInv, PassesOutdated
<1>2. x \in nss[c] \/ (OrgCreateNamespace /\ o = orgPass.org)
  BY LivingNamespaces DEF RememberInv
<1>3. orgs[o] = Absent /\ x \in nss[c] => o \in orgQueue \/ Left(o, c)
  BY <1>1 DEF RememberInv, DeletionsRemembered, Labelled
<1>4. ASSUME NEW p \in OrgNames, OrgBegin(p) PROVE o \in orgQueue' \/ Left(o, c)'
  <2>1. orgPass = Idle /\ orgs[o] = Absent /\ UNCHANGED orgs
    BY <1>4 DEF OrgBegin, managerVars
  <2>2. ~OrgCreateNamespace
    BY <2>1 DEF OrgCreateNamespace, Idle
  <2>3. o \in orgQueue
    BY <1>2, <1>3, <2>1, <2>2 DEF Idle
  <2>4. CASE o = p
    <3>1. orgPass' = [pc |-> "reconcileDeletedOrg", org |-> o, left |-> ClusterNames]
      BY <1>4, <2>1, <2>4 DEF OrgBegin
    <3> QED
      BY <3>1
  <2>5. CASE o # p
    BY <1>4, <2>3, <2>5 DEF OrgBegin
  <2> QED
    BY <2>4, <2>5
<1>5. CASE (OrgGetGlobalUsers \/ OrgCreateNamespace \/ OrgCreateRoleBinding) /\ UNCHANGED orgs
  <2>1. orgQueue \subseteq orgQueue' /\ orgPass.pc \in Applying
    BY <1>5, QueueKept
    DEF OrgStep, OrgGetGlobalUsers, OrgCreateNamespace, OrgCreateRoleBinding, Applying
  <2>2. CASE x \in nss[c]
    BY <1>3, <1>5, <2>1, <2>2 DEF Applying
  <2>3. CASE o = orgPass.org
    BY <1>1, <1>5, <2>1, <2>3 DEF RememberInv, PassesOutdated, Applying
  <2> QED
    BY <1>2, <2>2, <2>3
<1>6. ASSUME NEW d \in ClusterNames, OrgDeleteNamespaces(d), UNCHANGED orgs
      PROVE  o \in orgQueue' \/ Left(o, c)'
  <2>1. orgQueue \subseteq orgQueue'
    BY <1>6, QueueKept DEF OrgStep
  <2>2. x \in nss[c]
    BY <1>2, <1>6 DEF OrgCreateNamespace, OrgDeleteNamespaces
  <2>3. CASE Left(o, c)
    <3>1. PICK r \in {"ok", "error"} :
            /\ APIDeleteNamespaces(d, o, r)
            /\ IF r = "error" \/ orgPass.left = {d}
               THEN OrgReturn(o, r = "error")
               ELSE orgPass' = [orgPass EXCEPT !.left = @ \ {d}]
      BY <1>6, <2>3 DEF OrgDeleteNamespaces
    <3>2. CASE r = "error"
      BY <3>1, <3>2 DEF OrgReturn
    <3>3. CASE r = "ok"
      <4>1. c # d
        BY <3>1, <3>3, DeletedFromCluster DEF RememberInv
      <4>2. orgPass' = [orgPass EXCEPT !.left = @ \ {d}] /\ orgPass \in OrgDeleting
        BY <2>3, <3>1, <3>3, <4>1, OrgPassShape DEF RememberInv, TypeInv, TypeOK
      <4> QED
        BY <2>3, <4>1, <4>2 DEF OrgDeleting
    <3> QED
      BY <3>2, <3>3
  <2> QED
    BY <1>3, <1>6, <2>1, <2>2, <2>3
<1>7. CASE ~OrgWorker
  <2>1. x \in nss[c]
    BY <1>7, RestRemovesNamespaces DEF RememberInv, TypeInv, ClustersInv, ClustersTypeOK,
       RemoveNamespace
  <2> QED
    BY <1>1, <1>3, <1>7, <2>1, RestKeepsPass DEF RememberInv
<1> QED
  BY <1>4, <1>5, <1>6, <1>7, OrgWorkerKeeps DEF OrgWorker, OrgStep

(* As long as nothing has crashed, every living namespace of an org that   *)
(* is gone will be visited: its key waits, or the pass has the cluster     *)
(* still before it, whatever calls failed and whether or not the API       *)
(* server serves DeleteAllOf (reconcileDeletedOrg, the requeue on error).  *)
THEOREM NoDeletionForgotten == Spec => []DeletionsRemembered
<1>1. Init => RememberInv
  <2> SUFFICES ASSUME Init PROVE RememberInv
    OBVIOUS
  <2>1. PassesOutdated
    BY DEF Init, OrgInit, ManagerInit, Idle, PassesOutdated
  <2>2. DeletionsRemembered
    BY DEF Init, ClustersInit, Labelled, DeletionsRemembered
  <2> QED
    BY <2>1, <2>2, InitTypeInv DEF RememberInv
<1>2. RememberInv /\ [Next]_vars => RememberInv'
  BY NextTypeInv, PassesOutdatedStable, DeletionsRememberedStable DEF RememberInv
<1>3. RememberInv => DeletionsRemembered
  BY DEF RememberInv
<1> QED
  BY <1>1, <1>2, <1>3, PTL DEF Spec
===============================================================================

------------------------------- MODULE OrgTypes -------------------------------
(***************************************************************************)
(* The data of cross-cluster-orgs: the Org and GlobalUser custom resources *)
(* and the namespaces and role bindings that are made from them.           *)
(*                                                                         *)
(* A Kubernetes name is modelled as the sequence of its dash-separated     *)
(* parts, so that joining two names with a dash is concatenation and two   *)
(* different pairs of names can join to the same name, as in the program.  *)
(***************************************************************************)
EXTENDS Integers, Sequences, FiniteSets

CONSTANTS
    OrgNames,      \* names of the Org resources users may create
    SpaceNames,    \* names of spaces
    UserNames,     \* names of users, in orgs, in spaces and as GlobalUsers
    Roles,         \* names of cluster roles a user may be given
    ClusterNames,  \* the clusters the controller holds a client for
    OrgSpecs,      \* the specs users may give an Org
    GlobalSpecs,   \* the role lists users may give a GlobalUser
    Absent         \* stands for a resource that does not exist

globalLevel == "global"
otherLevel == "other"

(* A user is listed with at least one role: the code reads a user only to  *)
(* iterate over the roles, so one without roles is the same as no user.    *)
User == [name : UserNames, roles : Seq(Roles) \ {<<>>}]

(* cluster need not be one of ClusterNames: the CRD takes any string. *)
Space == [name : SpaceNames, cluster : STRING, users : Seq(User)]

OrgSpec == [users : Seq(User), spaces : Seq(Space)]

ASSUME TypesAssumption ==
    /\ OrgSpecs \subseteq OrgSpec
    /\ GlobalSpecs \subseteq Seq(Roles)
    /\ Absent \notin OrgSpecs
    /\ Absent \notin GlobalSpecs
    /\ ClusterNames # {}
    /\ IsFiniteSet(UserNames)

(* A namespace: its name, the org its label names, and its phase. *)
Phases == {"active", "terminating"}
NamespaceNames == {o \o s : o \in OrgNames, s \in SpaceNames}
Namespace == [name : NamespaceNames, org : OrgNames, phase : Phases]

(* A slip that would leave the org out of the namespace's name. *)
NsName_SpaceOnly(o, s) == s

(* org.Name + "-" + space.Name *)
NsName(o, s) == o \o s

(* A role binding: its namespace, its one subject, the role it grants, and *)
(* its level label. Its name is built from the user and the role.          *)
RoleBinding == [ns : NamespaceNames, user : UserNames, role : Roles,
                level : {globalLevel, otherLevel}]

(* fmt.Sprintf("%s-%s", user.Name, role) *)
RbName(b) == b.user \o b.role

(* The key of a binding in the API server: namespace and name. *)
SameKey(b, c) == b.ns = c.ns /\ RbName(b) = RbName(c)
===============================================================================

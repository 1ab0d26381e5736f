----------------------------- MODULE ManagerCache -----------------------------
(***************************************************************************)
(* The controller process and the custom resources as its manager's cache  *)
(* shows them. Both reconcilers read them here, never from the API server. *)
(*                                                                         *)
(* A user's edit is the step at which the watch event reaches this cache:  *)
(* nothing else in the program reads the resources, so the delay between   *)
(* the API server and the cache cannot be told from a later edit, and the  *)
(* two kinds may be seen in either order.                                  *)
(***************************************************************************)
EXTENDS Clusters

VARIABLES
    up,     \* is the controller process running, with its manager started?
    orgs,   \* orgs[o]: the spec of Org o, or Absent
    gusers  \* gusers[u]: the roles of GlobalUser u, or Absent

managerVars == <<up, orgs, gusers>>

ManagerTypeOK ==
    /\ up \in BOOLEAN
    /\ orgs \in [OrgNames -> OrgSpecs \cup {Absent}]
    /\ gusers \in [UserNames -> GlobalSpecs \cup {Absent}]

ManagerInit ==
    /\ up = TRUE
    /\ orgs = [o \in OrgNames |-> Absent]
    /\ gusers = [u \in UserNames |-> Absent]

OrgsPresent == {o \in OrgNames : orgs[o] # Absent}
GlobalUsersPresent == {u \in UserNames : gusers[u] # Absent}
===============================================================================

--------------------------- MODULE MCOrgController ----------------------------
(***************************************************************************)
(* Small instances of OrgController for TLC: a name is a sequence of its   *)
(* dash-separated parts.                                                   *)
(***************************************************************************)
EXTENDS OrgProperties

OrgA == <<"a">>
OrgB == <<"b">>
SpaceS == <<"s">>
SpaceT == <<"t">>
Ann == <<"ann">>
Bob == <<"bob">>
Dev == <<"dev">>
Mgr == <<"mgr">>
Aud == <<"aud">>

Is(user, roles) == [name |-> user, roles |-> roles]
In(space, cluster, users) == [name |-> space, cluster |-> cluster, users |-> users]

AnOrg == {OrgA}
TwoOrgs == {OrgA, OrgB}
OneSpace == {SpaceS}
TwoSpaces == {SpaceS, SpaceT}
OneUser == {Ann}
TwoUsers == {Ann, Bob}
OneRole == {Dev}
TwoRoles == {Dev, Mgr}
ThreeRoles == {Dev, Mgr, Aud}
OneCluster == {"c1"}
TwoClusters == {"c1", "c2"}
NoGlobals == {}
GlobalMgr == {<<Mgr>>}

(* A global user whose list of roles changes. *)
ChangingRoles == {<<Mgr>>, <<Aud>>}

(* Two versions of an org: a space with one user, and two spaces in two    *)
(* clusters with a user of the org besides.                                *)
GrowingOrg ==
    {[users |-> <<>>, spaces |-> <<In(SpaceS, "c1", <<Is(Ann, <<Dev>>)>>)>>],
     [users |-> <<Is(Bob, <<Dev>>)>>,
      spaces |-> <<In(SpaceT, "c2", <<>>), In(SpaceS, "c1", <<Is(Ann, <<Dev>>)>>)>>]}

(* An org with a space in which nobody has a role, before one with a user. *)
EmptySpaceFirst ==
    {[users |-> <<>>,
      spaces |-> <<In(SpaceT, "c1", <<>>), In(SpaceS, "c1", <<Is(Ann, <<Dev>>)>>)>>]}

(* An org with a space, and one with the same space and then a space in a  *)
(* cluster the controller does not know.                                   *)
UnknownCluster ==
    {[users |-> <<>>, spaces |-> <<In(SpaceS, "c1", <<Is(Ann, <<Dev, Mgr>>)>>)>>],
     [users |-> <<>>,
      spaces |-> <<In(SpaceS, "c1", <<Is(Ann, <<Dev, Mgr>>)>>), In(SpaceT, "c9", <<>>)>>]}

(* The same; one whose space has another before it; and one in which the   *)
(* space has a user more.                                                  *)
ChangingOrg ==
    UnknownCluster \cup
    {[users |-> <<>>,
      spaces |-> <<In(SpaceT, "c1", <<>>), In(SpaceS, "c1", <<Is(Ann, <<Dev, Mgr>>)>>)>>],
     [users |-> <<Is(Ann, <<Dev, Mgr>>), Is(Bob, <<Dev>>)>>,
      spaces |-> <<In(SpaceS, "c1", <<>>)>>]}

(* An org with one user in its one space. *)
OneGrant == {[users |-> <<>>, spaces |-> <<In(SpaceS, "c1", <<Is(Ann, <<Dev>>)>>)>>]}

(* An org with a space in each of two clusters. *)
TwoClusterOrg ==
    {[users |-> <<Is(Ann, <<Dev>>)>>, spaces |-> <<In(SpaceS, "c1", <<>>), In(SpaceT, "c2", <<>>)>>]}
===============================================================================

CONSTANTS
    OrgNames <- TwoOrgs
    SpaceNames <- TwoSpaces
    UserNames <- TwoUsers
    Roles <- TwoRoles
    ClusterNames <- OneCluster
    OrgSpecs <- ChangingOrg
    GlobalSpecs <- NoGlobals
    Absent = Absent
    DeleteCollectionServed = TRUE
    MaxFaults = 0
    MaxEdits = 3
    MaxCrashes = 0
    Resyncing = FALSE
SPECIFICATION FairSpec
PROPERTIES
    SteadyOrgsConverge
CHECK_DEADLOCK FALSE

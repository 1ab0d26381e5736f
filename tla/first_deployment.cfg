CONSTANTS
    OrgNames <- AnOrg
    SpaceNames <- OneSpace
    UserNames <- OneUser
    Roles <- TwoRoles
    ClusterNames <- OneCluster
    OrgSpecs <- OneGrant
    GlobalSpecs <- GlobalMgr
    Absent = Absent
    DeleteCollectionServed = FALSE
    MaxFaults = 0
    MaxEdits = 2
    MaxCrashes = 0
    Resyncing = TRUE
SPECIFICATION FairSpecWithResync
PROPERTIES
    OrgsConverge
CHECK_DEADLOCK FALSE

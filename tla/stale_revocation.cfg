CONSTANTS
    OrgNames <- AnOrg
    SpaceNames <- OneSpace
    UserNames <- OneUser
    Roles <- TwoRoles
    ClusterNames <- OneCluster
    OrgSpecs <- OneGrant
    GlobalSpecs <- GlobalMgr
    Absent = Absent
    DeleteCollectionServed = FALSE
    MaxFaults = 0
    MaxEdits = 3
    MaxCrashes = 0
    Resyncing = TRUE
SPECIFICATION FairSpecWithResync
PROPERTIES
    DeletedGlobalUsersRevoked
CHECK_DEADLOCK FALSE

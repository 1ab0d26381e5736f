CONSTANTS
    OrgNames <- AnOrg
    SpaceNames <- OneSpace
    UserNames <- OneUser
    Roles <- TwoRoles
    ClusterNames <- OneCluster
    OrgSpecs <- OneGrant
    GlobalSpecs <- GlobalMgr
    Absent = Absent
    DeleteCollectionServed = FALSE
    MaxFaults = 0
    MaxEdits = 4
    MaxCrashes = 0
    Resyncing = TRUE
SPECIFICATION FairSpecWithResync
PROPERTIES
    GlobalUsersBound
CHECK_DEADLOCK FALSE

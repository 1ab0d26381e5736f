CONSTANTS
    OrgNames <- AnOrg
    SpaceNames <- OneSpace
    UserNames <- OneUser
    Roles <- OneRole
    ClusterNames <- OneCluster
    OrgSpecs <- OneGrant
    GlobalSpecs <- NoGlobals
    Absent = Absent
    DeleteCollectionServed = FALSE
    MaxFaults = 0
    MaxEdits = 2
    MaxCrashes = 0
    Resyncing = TRUE
SPECIFICATION FairSpecWithResync
PROPERTIES
    DeletedOrgsCleanedUp
CHECK_DEADLOCK FALSE

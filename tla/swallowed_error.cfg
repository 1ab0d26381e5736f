CONSTANTS
    OrgNames <- AnOrg
    SpaceNames <- TwoSpaces
    UserNames <- OneUser
    Roles <- OneRole
    ClusterNames <- TwoClusters
    OrgSpecs <- TwoClusterOrg
    GlobalSpecs <- NoGlobals
    Absent = Absent
    DeleteCollectionServed = FALSE
    MaxFaults = 1
    MaxEdits = 1
    MaxCrashes = 0
    Resyncing = FALSE
SPECIFICATION Spec
PROPERTIES
    SuccessAppliesEverySpace
CHECK_DEADLOCK FALSE

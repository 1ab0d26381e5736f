CONSTANTS
    OrgNames <- AnOrg
    SpaceNames <- TwoSpaces
    UserNames <- OneUser
    Roles <- ThreeRoles
    ClusterNames <- OneCluster
    OrgSpecs <- EmptySpaceFirst
    GlobalSpecs <- ChangingRoles
    Absent = Absent
    DeleteCollectionServed = TRUE
    MaxFaults = 1
    MaxEdits = 3
    MaxCrashes = 0
    Resyncing = FALSE
SPECIFICATION Spec
INVARIANTS
    GrantsDeclared
PROPERTIES
    OtherLevelSurvives
CHECK_DEADLOCK FALSE

CONSTANTS
    OrgNames <- TwoOrgs
    SpaceNames <- TwoSpaces
    UserNames <- TwoUsers
    Roles <- OneRole
    ClusterNames <- TwoClusters
    OrgSpecs <- GrowingOrg
    GlobalSpecs <- NoGlobals
    Absent = Absent
    DeleteCollectionServed = TRUE
    MaxFaults = 1
    MaxEdits = 3
    MaxCrashes = 1
    Resyncing = FALSE
SPECIFICATION Spec
INVARIANTS
    TypeOK
    OrgIsolation
    TerminatesOnlyDeletedOrgs
    DeletionsRemembered
PROPERTIES
    SuccessBindsLastSpace
CHECK_DEADLOCK FALSE

CONSTANTS
    Keys <- TwoKeys
    Objects <- TheObjects
    Values <- TheValues
    IndexFunc <- TheIndexFunc
    Absent = Absent
    MaxWrites = 4
    MaxExpiries = 1
    Namespaces <- TwoNamespaces
    Labels <- TwoLabels
    PodsNS = "n1"
    AllNS = "all"
    Containers <- TwoContainers
    Pods <- OneOrTwo
    TheApp <- App
SPECIFICATION FairSpec
INVARIANTS
    TypeOK
    IndexConsistent
    FailsOnlyFromOutside
PROPERTIES
    ListingsMonotone
    FirstListComplete
    Finishes
CHECK_DEADLOCK FALSE

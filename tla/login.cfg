CONSTANTS
    t1 = t1
    t2 = t2
    c1 = c1
    c2 = c2
    c3 = c3
    Tabs <- TwoTabs
    Conns <- TwoConns
    None = None
SPECIFICATION FairSpec
INVARIANTS
    TypeOK
    NobodyLeftWaiting
    ToldTruth
    CodeFlowEndsWithVerdict
PROPERTIES
    LoginEnds
CHECK_DEADLOCK FALSE

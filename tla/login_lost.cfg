CONSTANTS
    t1 = t1
    t2 = t2
    c1 = c1
    c2 = c2
    c3 = c3
    Tabs <- OneTab
    Conns <- TwoConns
    None = None
SPECIFICATION Spec
INVARIANTS
    EndsWithVerdict
CHECK_DEADLOCK FALSE

CONSTANTS
    p1 = p1
    p2 = p2
    p3 = p3
    Nobody = Nobody
    NoBundle = NoBundle
    Failed = Failed
    Mixed = Mixed
    Absent = Absent
    Torn = Torn
    Procs = {p1, p2, p3}
    Ops <- MCOps
    MaxCrash = 1
SPECIFICATION Spec
CHECK_DEADLOCK FALSE
INVARIANTS
    TypeOK
    

    

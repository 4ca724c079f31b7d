SPECIFICATION Spec
CONSTANTS
    A = A
    B = B
    r1 = r1
    r2 = r2
    None = None
    Instances = {A, B}
    Requests = {r1, r2}
    CreateSets = {{}, {r1}}
    MayDrain = {A}
    MayCrash = {A, B}
    Homes <- BothHomes
INVARIANTS
    LogByFence
    OneOwnerClosesRun
CHECK_DEADLOCK FALSE

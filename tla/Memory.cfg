CONSTANTS
    e1 = e1  e2 = e2  e3 = e3
    n1 = n1  n2 = n2  n3 = n3
    c1 = c1  c2 = c2  w1 = w1  w2 = w2
    m1 = m1  m2 = m2
    Events = {e1, e2, e3}
    Nodes = {n1, n2, n3}
    Claim <- MCClaim
    Procs = {c1, c2, w1, w2}
    Workers = {w1, w2}
    Models = {m1, m2}
    CompileConcurrency = 1

SPECIFICATION MemorySpec

INVARIANTS
    SlotKeepsClaim
    RecallExact
    DoneMeansIndexed

PROPERTY IndexContract

CHECK_DEADLOCK FALSE

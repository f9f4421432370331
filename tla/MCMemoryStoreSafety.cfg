\* Two callers, two ids, two texts; every operation, one filter.
SPECIFICATION Spec
CONSTANTS
    p1 = p1
    p2 = p2
    i1 = i1
    i2 = i2
    t1 = t1
    t2 = t2
    Procs = {p1, p2}
    Ids = {i1, i2}
    Texts = {t1, t2}
    Wants <- MCWants
    Ops = {"add", "get", "forget", "list", "optimize", "search", "backfill"}
    SearchLimit = 2
    MaxTopK = 2
    MaxNow = 0
    NoDoc = NoDoc
    NoVec = NoVec
    BadVec = BadVec
    QueryVec = QueryVec
    NoReq = NoReq
    NoItem = NoItem
    Free = Free
SYMMETRY Symmetry
INVARIANTS TypeOK StaleVectorOnlyAfterRace
PROPERTIES EnumerationComplete StoreIsRecordMap

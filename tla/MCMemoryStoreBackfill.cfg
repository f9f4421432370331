\* A reindex and an Add of the same id.
SPECIFICATION Spec
CONSTANTS
    p1 = p1
    p2 = p2
    i1 = i1
    t1 = t1
    t2 = t2
    Procs = {p1, p2}
    Ids = {i1}
    Texts = {t1, t2}
    Wants <- MCWants
    Ops = {"add", "backfill"}
    SearchLimit = 1
    MaxTopK = 1
    MaxNow = 0
    NoDoc = NoDoc
    NoVec = NoVec
    BadVec = BadVec
    QueryVec = QueryVec
    NoReq = NoReq
    NoItem = NoItem
    Free = Free
PROPERTIES BackfillFillsOnlyNull

\* Liveness: two callers, one id, two texts; no filter but both texts, one filter.
SPECIFICATION LiveSpec
CONSTANTS
    p1 = p1
    p2 = p2
    i1 = i1
    t1 = t1
    t2 = t2
    Procs = {p1, p2}
    Ids = {i1}
    Texts = {t1, t2}
    Wants <- MCWants
    Ops = {"add", "search", "status", "backfill"}
    SearchLimit = 1
    MaxTopK = 1
    MaxNow = 1
    NoDoc = NoDoc
    NoVec = NoVec
    BadVec = BadVec
    QueryVec = QueryVec
    NoReq = NoReq
    NoItem = NoItem
    Free = Free
PROPERTIES EmbedderBlocksNobody CallsReturn

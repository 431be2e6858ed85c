\* Two clicks on one answer, a pool that may grow to two and keeps one idle.
SPECIFICATION Spec
CONSTANTS
    Clicks = {r1, r2}
    Keys = {k1}
    Conns = {c1, c2}
    PoolSize = 1
    NoClick = NoClick
    NoConn = NoConn
INVARIANTS
    TypeOK
    InsideIsCovered
    TogetherByNesting
    RowIsAsRead
    OneThumbUnlessMet
    MLflowFollows
PROPERTIES
    InsideEnds
CHECK_DEADLOCK FALSE

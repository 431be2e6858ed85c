\* Two clicks on one answer, a pool that may grow to two.
SPECIFICATION Spec
CONSTANTS
    Clicks = {r1, r2}
    Keys = {k1}
    Conns = {c1, c2}
    PoolSize = 2
    NoClick = NoClick
    NoConn = NoConn
INVARIANTS
    OneThumb
SYMMETRY Interchangeable
CHECK_DEADLOCK FALSE

\* A comparison or two single runs, one verify, and a table and a CBS file that move.
SPECIFICATION Spec
CONSTANTS
    Runs = {r1, r2}
    Checks = {v1}
    Levels = {l1, l2}
    NoLevel = NoLevel
    Digest <- Apart
    Areas = {a1, a2}
    Region = Region
    Tables = {t1, t2}
    Outcome <- AllShows
    Outcomes <- Scored
    NoRun = NoRun
    NoCard = NoCard
    MaxVersion = 2
    MaxSingles = 1
    MaxLibrary = 2
SYMMETRY Interchangeable
INVARIANTS
    TypeOK
    LibraryNeverDrifts
PROPERTIES
    CleanIsTrue
    PlainVerifiesClean
    DriftDatesFromStorage
CHECK_DEADLOCK FALSE

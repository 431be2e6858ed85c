\* One run, one verify: does verify only warn when something changed?
SPECIFICATION Spec
CONSTANTS
    Runs = {r1}
    Checks = {v1}
    Levels = {l1, l2}
    NoLevel = NoLevel
    Digest <- Apart
    Areas = {a1, a2}
    Region = Region
    Tables = {t1}
    Outcome <- AllShows
    Outcomes <- Scored
    NoRun = NoRun
    NoCard = NoCard
    MaxVersion = 2
    MaxSingles = 1
    MaxLibrary = 1
PROPERTIES
    NotCleanMeansChanged
CHECK_DEADLOCK FALSE

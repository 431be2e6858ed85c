SPECIFICATION Spec
CONSTANTS
    c1 = c1
    c2 = c2
    c3 = c3
    Cells <- MCCells
    Near <- MCNear
    NearFallback <- MCNearFallback
    NoPlace = NoPlace
    IntakeCells <- MCIntakeCells
    NoIntake = NoIntake
    Inline = Inline
    NoArea = NoArea
    KnownIntakes <- MCKnownIntakes
    NotANumber = NotANumber
    Corpus <- MCCorpus
    CardPassages <- MCCardPassages
    Terms <- MCTerms
    TopK = 3
    Cited = 2
    DataSets <- MCDataSets
    Model <- MCModel
    Asks <- MCAsks
    Recipes <- MCRecipes
    Stacks <- MCStacks
    Sweeps <- MCSweeps
    Compares <- MCCompares
    Blank = Blank
    Gone = Gone
    None = None
INVARIANTS
    TypeOK
    StackOnlyWorsens
    WorstIsHarshest
    ShockIsHarsher
    DroughtBufferHelps
    NothingRunsUnchecked
    NoDeadEnd
    TransitionsBalance
    AttributionExplains

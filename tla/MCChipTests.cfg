CONSTANT AllTests <- FourTests
SPECIFICATION ChipFairSpec
INVARIANTS
    PreparedMeansReady
    ResidueContained
    ExitZeroMeansPassed
PROPERTY
    EveryInvocationEnds

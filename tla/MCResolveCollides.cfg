SPECIFICATION Spec
CONSTANTS
    Keys = {"isin", "tick", "bare", "cash"}
    Market <- MCMarket
    Key <- MCKey
    Sources <- MCSources
    Answers <- MCAnswers
    InstrsAtStart <- MCInstrs
    Runs = {r1, r2}
    MaxRuns = 3
    MayDisable = {"A"}
    MaxInstrs = 5
SYMMETRY MCSymmetry
CHECK_DEADLOCK FALSE
INVARIANT NeverCollides

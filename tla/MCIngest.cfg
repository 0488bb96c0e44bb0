SPECIFICATION Spec
CONSTANTS
    Keys = {"isin", "tick", "both", "cash", "other"}
    Market <- MCMarket
    Key <- MCKey
    Uploads = {"first", "second", "theirs"}
    Upload <- MCUpload
    MayTell <- MCMayTell
    MayLack <- MCMayLack
    Today = 2
    CashRefused = {"cash"}
    MaxStmts = 2
    MaxOthers = 1
    MaxChain = 2
CHECK_DEADLOCK FALSE
INVARIANTS
    LastUploadWins
    EveryHoldingCounted
    GroupsFollowIdentifiers
    FactsReachKeys
 

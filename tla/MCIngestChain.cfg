SPECIFICATION Spec
CONSTANTS
    Keys = {"isin", "tick", "both", "cash", "other"}
    Market <- MCMarket
    Key <- MCKey
    Uploads = {"first", "second"}
    Upload <- MCUpload
    MayTell <- MCMayTell
    MayLack <- MCMayLackTwo
    Today = 2
    CashRefused = {"cash"}
    MaxStmts = 2
    MaxOthers = 0
    MaxChain = 2
CHECK_DEADLOCK FALSE
PROPERTY StmtStops

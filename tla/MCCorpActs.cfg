SPECIFICATION Spec
CONSTANTS
    None = None
    u1 = u1
    u2 = u2
    i1 = i1
    t1 = t1
    t2 = t2
    typed = typed
    untyped = untyped
    Users = {u1, u2}
    Instrs = {i1}
    Tickers = {t1, t2}
    Sources = {typed, untyped}
    FirstSource = typed
    Handles = {typed}
    Uploads <- MCUploads
    MarketOf <- MCMarketOf
    Home <- MCHome
    Namings <- MCNamings
    Reports <- MCReports
    Fetches = {f1, f2}
    FirstToday = 3
    LastDay = 4
    MaxShareTerm = 2
    MaxCalls = 2
    MaxChanges = 1
INVARIANTS LatestAnswerStands AdjustedIsKnown
PROPERTY NothingElseUncovers
SYMMETRY MCSymmetry
CHECK_DEADLOCK FALSE

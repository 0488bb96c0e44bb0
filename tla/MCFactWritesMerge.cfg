CONSTANTS
    Tickers = {1, 2}
    Instrs = {1, 2}
    Identifiers = {1, 2, 3}
    OwnerAtStart <- MCOwner
    Stated <- MCStated
    FactsAtStart <- MCFacts
    Writers = {11, 12}
    Rebuilder = 20
    Kinds = {"record", "resolve", "attest", "withdraw"}
    Batch = 1
    MaxOrders = 1
    Tries = 2
SPECIFICATION Spec
INVARIANT ValidityInStep

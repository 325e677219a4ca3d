SPECIFICATION Spec
CONSTANTS
    d1 = d1  d2 = d2  d3 = d3  r1 = r1  r2 = r2
    Dispatches = {d1, d2, d3}
    Runs = {r1, r2}
    RunOf <- MCRunOf
    Skew <- MCSkew
    StaleAfter = 1
    MaxClock = 2
    MaxRetries = 1
    Faults = {"memo", "begin", "fetch", "reclaim", "complete"}
    Prompt = FALSE
    None = None
INVARIANTS UniqueHolder CompletedRecoverable MemoGenuine FenceInv
PROPERTY TokensIncrease
SYMMETRY MCSymmetry

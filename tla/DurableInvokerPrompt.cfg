SPECIFICATION Spec
CONSTANTS
    d1 = d1  d2 = d2  d3 = d3  r1 = r1  r2 = r2
    Dispatches = {d1, d2, d3}
    Runs = {r1, r2}
    RunOf <- MCRunOf
    Skew <- SameClock
    StaleAfter = 2
    MaxClock = 30
    MaxRetries = 2
    Faults = {}
    Prompt = TRUE
    None = None
INVARIANTS ProviderExclusive EffectivelyOnce NotRefusedAlone
PROPERTY MemoizableIsFinal

SPECIFICATION FairSpec
CONSTANTS
    t1 = t1  t2 = t2
    Tasks = {t1, t2}
    Agents = {a1, a2}
    Needs <- Chain
    None = None
    MaxRetries = 0
    SoftLimit = 1
    MaxConcurrent = 2
    DirectRoute = FALSE
    Faults = {"gate", "late", "cancel"}
INVARIANTS DependenciesFirst ClaimsOwned HaltedMeansNoWork
PROPERTY EventuallySettled

SPECIFICATION Spec
CONSTANTS
    t1 = t1  t2 = t2
    Tasks = {t1, t2}
    Agents = {a1, a2}
    Needs <- NoNeeds
    None = None
    MaxRetries = 0
    SoftLimit = 1
    MaxConcurrent = 2
    DirectRoute = FALSE
    Faults = {"cut", "straggle", "send", "dropoff", "gate", "yoga", "late", "cancel"}
INVARIANTS TypeOK OneTaskPerAgent ExecutionsBounded
SYMMETRY AgentSymmetry

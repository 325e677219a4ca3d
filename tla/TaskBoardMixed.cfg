SPECIFICATION Spec
CONSTANTS
    Tasks = {t1, t2}
    Clients = {c1, c2}
    Agents = {a1}
    None = None
    Exclusive = {t1}
INVARIANT ExclusiveInv
PROPERTIES ImplementsLifecycle ReadyStable CompletedSticks
SYMMETRY MCSymmetry

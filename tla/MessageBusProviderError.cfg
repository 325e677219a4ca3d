SPECIFICATION Spec
CONSTANTS
    MaxCalls = 1
    Keys = {k}
    StagedKeys = {}
    Bodies = {b1}
    None = None
    Limit = 1
    MaxFaults = 1
INVARIANT ReadMeansActed

SPECIFICATION Spec
CONSTANTS
    Runs = {r1, r2}
    None = None
    MaxEpoch = 2
    MaxRetries = 1
    QuarantineAt = 1
    MaxFaults = 0
    Faults = {}
SYMMETRY RunSymmetry
PROPERTY ZeroDoubleExecution

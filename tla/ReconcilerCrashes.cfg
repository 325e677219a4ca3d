SPECIFICATION FairSpec
CONSTANTS
    Runs = {r1, r2}
    None = None
    MaxEpoch = 3
    MaxRetries = 1
    QuarantineAt = 1
    MaxFaults = 1
    Faults = {"record", "complete", "persist", "beat", "honors", "boot", "limit", "board"}
INVARIANTS BootSettles CompletedMeansDone RecoveryInv
PROPERTIES LiveNotRequeued NeverStuck

SPECIFICATION Spec
CONSTANTS
    Workers = {w1, w2}
    Operator = operator
    Sweeper = sweeper
    None = None
    Answers = {"done", "in_progress"}
    MaxAnswers = 2
    MaxReports = 1
    MaxFaults = 1
SYMMETRY Symmetry
CHECK_DEADLOCK FALSE
INVARIANTS TypeOK HoldersBounded AnsweredSticks NoSilentDropOff RunSettled

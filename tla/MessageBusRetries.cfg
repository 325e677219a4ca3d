SPECIFICATION Spec
CONSTANTS
    MaxCalls = 3
    Keys = {k, s}
    StagedKeys = {s}
    Bodies = {b1, b2}
    None = None
    Limit = 1
    MaxFaults = 1
INVARIANTS NoFabricatedReceipt ReceiptInv DeliveredOnce ReadMeansPrompted
PROPERTY ReceiptStable

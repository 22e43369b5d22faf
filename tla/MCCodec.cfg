\* Time stamps of two bytes; the device and plan constants play no part here.
CONSTANTS
    Devices = {}
    TimeStamps = {}
    PlanValues = {}
    Meterages = {}
    None = None
    StampBytes = 2
    Letters <- TryLetters
SPECIFICATION Spec
INVARIANTS AcceptedWasSerialized ExecutorsInvert OnlySameAlgorithmIsUnderstood
CHECK_DEADLOCK FALSE

\* An S1 record without data.
SPECIFICATION Spec
CONSTANTS
    Transmissions <- EmptyRecord
    Noise <- NoNoise
    MaxLoads = 1
    MaxFaults = 0
    Operator = FALSE
PROPERTIES
    EveryDepositStaysInRecord
\* The bound on load commands ends every behaviour.
CHECK_DEADLOCK FALSE

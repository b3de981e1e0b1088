\* Every file, at most one character lost or altered, one load.
SPECIFICATION Spec
CONSTANTS
    Transmissions <- AllFiles
    Noise <- SomeNoise
    MaxLoads = 1
    MaxFaults = 1
    Operator = FALSE
INVARIANTS
    TypeOK
    RecordInStep
    FaithfulLoad
    NeverStarves
    WrongBytesAreReported
PROPERTIES
    DepositsStayInRecord
\* A load whose file has been cut short waits for more.
CHECK_DEADLOCK FALSE

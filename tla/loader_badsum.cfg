\* An S-record with a bad checksum.
SPECIFICATION Spec
CONSTANTS
    Transmissions <- ShortFiles
    Noise <- SomeNoise
    MaxLoads = 1
    MaxFaults = 1
    Operator = FALSE
INVARIANTS
    BadChecksumStops
\* The bound on load commands ends every behaviour.
CHECK_DEADLOCK FALSE

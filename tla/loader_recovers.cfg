\* Two loads, either of them disturbed, and an operator who presses keys.
SPECIFICATION FairSpec
CONSTANTS
    Transmissions <- ShortFiles
    Noise <- LittleNoise
    MaxLoads = 2
    MaxFaults = 1
    Operator = TRUE
INVARIANTS
    FaithfulLoad
PROPERTIES
    Recovers
\* The bound on load commands ends every behaviour.
CHECK_DEADLOCK FALSE

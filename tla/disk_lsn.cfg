\* A card that is never moved.
SPECIFICATION Spec
CONSTANTS
    Disks <- SomeDisks
    Units = 3
    Positions <- Places01
    MaxBlocks = 3
    MaxSwaps = 0
INVARIANTS
    ReadsWhatWasSet
\* A card that refuses, or is not there, is waited for without end.
CHECK_DEADLOCK FALSE

\* Any card, any timing, cards swapped, the reset button; or an image on a host.
SPECIFICATION BothSpec
CONSTANTS
    Disks <- SomeDisks
    Units = 3
    Positions <- Places01
    MaxBlocks = 3
    MaxSwaps = 2
    Asked = {0, 1, 2, 4194304, 8388609}
    Sizes = {0, 1, 4}
INVARIANTS
    TypeOK
    ReadIsWhole
    DirIsThisDisks
    HostShowsBlock
PROPERTIES
    ListingIsDirectory
    Returns
\* A card that refuses, or is not there, is waited for without end.
CHECK_DEADLOCK FALSE

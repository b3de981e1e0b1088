\* Two drives, one write-protected, the heads on track 18; three attempts, and as
\* many troubles during each request.
SPECIFICATION FairSpec
CONSTANTS
    SectorBytes = 2
    GranSectors = 2
    DirSectors = 2
    DirEntries = 2
    Names <- SomeNames
    DecbDisks <- SomeDisks
    Inserted <- SomeInserted
    Filenames <- SomeNames
    Requests <- SomeRequests
    MaxSectors = 4
    FloppyDrives = {0, 1}
    TrackSectors = 4
    HeadsAt = {18}
    Protected = {1}
    Retries = 3
    MotorTime = 2
    MaxTroubles = 3
INVARIANTS
    TypeOK
    MotorAtSpeed
    Tolerates
    FileDelivered
PROPERTIES
    SectorPromise
    CallsEnd

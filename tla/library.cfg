\* Two drives, one descriptor, one change of a disk; a heap of 32 bytes and
\* sixteen pages, limits that fall together with a large step or not; arrays of
\* up to four elements; strings of up to four characters.
SPECIFICATION LibrarySpec
CONSTANTS
    SectorBytes = 2
    GranSectors = 2
    DirSectors = 2
    DirEntries = 2
    Names <- SomeNames
    DecbDisks <- SomeDisks
    Drives = {0, 1}
    Fds = {f1}
    Filenames <- SomeFilenames
    NameLength = 2
    ExtLength = 1
    ReadSizes = {1, 5}
    SeekTo = {1, 4, 9}
    Inserted <- SomeInserted
    MaxSwaps = 1
    MaxOffset = 10
    AddressSpace = 32
    LARGE_INCREMENT = 8
    SMALL_INCREMENT = 2
    DataStart = 0
    FirstEnd = 8
    Limits = {8, 14, 24, 30}
    Increments = {1, 5, 6, 9, 20, 26}
    Keys = {1, 2, 3}
    MaxElements = 4
    Chars <- SomeChars
    Texts <- SomeTexts
    Delims <- SomeDelims
INVARIANTS
    LibraryTypeOK
    DiesInDoubt
    HeapSafe
    MaxIsMost
    SortsAndFinds
    TokensAreWords
PROPERTIES
    FileContract
    CallsReturn
\* A failed assertion, or a walk of a chain without end, ends the program.
CHECK_DEADLOCK FALSE

\* The device as slow or fast as it likes; polling comes to an end.
SPECIFICATION FairSpec
CONSTANTS
    Typings <- Texts
    Writable <- Letters
    MaxShown = 2
INVARIANTS
    TypeOK
    ColumnIsTheCursors
    EveryLineEnds
PROPERTIES
    IsChannel
    Answers
\* The program may wait for a character that is never typed.
CHECK_DEADLOCK FALSE

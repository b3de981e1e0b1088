\* Any keys in a short line; every name and every beginning of one, with
\* arguments.  And the whole monitor for three lines and a system call: settings,
\* dumps and programs.
SPECIFICATION BothSpec
CONSTANTS
    Typings <- Lines
    Leftovers <- Unfinished
    MaxLine = 80
    Spare = 519
    MaxArgs = 5
    MonitorLines <- SomeMonitorLines
    MaxLines = 3
    ProgramsAt = {16384}
    Registers <- SomeRegisters
    MaxCalls = 1
    Received = {13, 120, 248}
    handle_reset = 49152
    lineAt = 32154
    LengthAt <- TwoBytes
INVARIANTS
    MonitorTypeOK
    ScreenShowsLine
    RegistersSurvive
PROPERTIES
    ArgumentsAreWords
    DispatchIsLookup
    
    PromptComesBack

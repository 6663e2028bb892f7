SPECIFICATION Spec
CONSTANTS
    Sources <- MCSources
    Natives <- MCNatives
    MaxFuel = 30
    MAX_VERSIONS = 10
    NumLocals = 4
INVARIANTS
    TypeOK
    ParsedIsWritten
    CheckerIsSound
    VMAgreesWithInterpreter
    ReleasedOnceOutsideLoops
    GraphsTellThePrograms
PROPERTIES
    ProgramsEnd
CHECK_DEADLOCK FALSE

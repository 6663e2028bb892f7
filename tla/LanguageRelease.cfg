SPECIFICATION Spec
CONSTANTS
    Sources <- MCLoop
    Natives <- MCNatives
    MaxFuel = 30
    MAX_VERSIONS = 10
    NumLocals = 4
INVARIANT ReleasedOnce
CHECK_DEADLOCK FALSE

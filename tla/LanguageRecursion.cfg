SPECIFICATION Spec
CONSTANTS
    Sources <- MCFactorial
    Natives <- MCNatives
    MaxFuel = 30
    MAX_VERSIONS = 10
    NumLocals = 4
INVARIANT CallsEnd
CHECK_DEADLOCK FALSE

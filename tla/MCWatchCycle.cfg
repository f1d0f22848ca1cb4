SPECIFICATION Spec
CONSTANTS
    Conns <- MCConns
    Keys <- MCKeys
    Home <- MCHome
    Programs <- MCCyclePrograms
CHECK_DEADLOCK FALSE
INVARIANT ClaimWaitsAreBounded

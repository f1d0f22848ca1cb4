SPECIFICATION Spec
CONSTANTS
    Conns <- MCConns
    Keys <- MCKeys
    Home <- MCHome
    Programs <- MCPrograms
INVARIANT ExecVerdictsAreRight
INVARIANT SafeTicketsAreStored
INVARIANT MgetsNeverTear
INVARIANT SessionsKeepOrder
INVARIANT ClonesAreCurrent
INVARIANT CollapseKeepsOrderedKeys

CONSTANTS
    Threads <- MCThreads
    Clients <- MCClients
    Shards <- MCShards
    Domain <- MCDomain
    Keepers <- MCKeepers
    Sticky = {3}
    Weight <- MCWeight
    KeyOf <- MCKeyOf
    Scenarios <- MCScenarios
    MaxFlips = 20
    MaxRefusals = 2
    ShareScale = 8
    Bands = {10, 60}
    Kappas = {50, 100}
    ReadingsCap = 3
    ConfirmCap = 4
SPECIFICATION CtlFairSpec
INVARIANTS ShapeIsWhole LandingIsEarned
PROPERTIES  FlipEnds ImplementsActuator ManeuversEnd

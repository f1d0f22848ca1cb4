CONSTANTS
    NumProducers = 2
    TotalSlots = 3
    InternalSlots = 1
    IndexMod = 4
    MaxHeld = 1
    Values = {1, 2}
SPECIFICATION Spec
INVARIANT CreditsCoverReservations
PROPERTY ImplementsFifo

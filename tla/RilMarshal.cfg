SPECIFICATION Spec
CONSTANTS
    PtrSize = 4
    AddressMax = 2
    SubaddressMax = 1
    BearerMax = 2
    InfoRecMax = 2
    ArrayMax = 2
INVARIANTS
    DeliveredAsSent
    NothingUnset
    OnlyBrokenBlocksRejected
    OnlyKnownLeaks
    AnsweredAsCompleted

CONSTANTS
    A1 = A1
    V1 = V1
    V2 = V2
    Addrs <- MC_Addrs
    Values <- MC_Values
    FifoSize = 8
    RxBufMax = 8
    RxThreshold = 3
    MaxCount = 2
    MaxStall = 1
    ApGivesUp = FALSE
    MaxTx = 2
    DeassertFirst = TRUE
SPECIFICATION Spec
INVARIANTS
    TypeOK
    WritesDelivered
PROPERTIES
    TransactionsAcknowledged

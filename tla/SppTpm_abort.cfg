CONSTANTS
    A1 = A1
    V1 = V1
    V2 = V2
    Addrs <- MC_Addrs
    Values <- MC_OneValue
    FifoSize = 16
    RxBufMax = 16
    RxThreshold = 3
    MaxCount = 6
    MaxStall = 1
    ApGivesUp = TRUE
    MaxTx = 2
    DeassertFirst = TRUE
SPECIFICATION Spec
INVARIANTS
    NoPutOutsideRxbuf

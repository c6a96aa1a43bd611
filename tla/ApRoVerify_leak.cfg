\* GVDs whose chain breaks where check_gscvd leaks shared memory, then
\* the valid release.
CONSTANTS
    RoA = RoA
    RoB = RoB
    RoOld = RoOld
    RoEvil = RoEvil
    Bid = Bid
    Blank = Blank
    NoFmap = NoFmap
    NoArea = NoArea
    NoGvd = NoGvd
    Contents <- MC_Contents
    NSlots = 2
    Locs <- MC_Locs
    BoardId <- Bid
    BidBlank <- Blank
    Signed <- MC_Signed
    Images <- LeakImages
    HeapCap = 2
    DevBuild = FALSE
    Blocked = FALSE
    XferModes = {"ok"}
    FlashFaults <- CoreFaults
    SeedOutcomes = {"ok"}
SPECIFICATION Spec
PROPERTIES
    AuthenticImageNotFailed

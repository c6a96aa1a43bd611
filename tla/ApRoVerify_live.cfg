\* Enforcement on a fault-free H1 flash: a FAIL verdict keeps the EC in
\* reset under weak fairness of the deferred call alone.
CONSTANTS
    RoA = RoA
    RoB = RoB
    RoOld = RoOld
    RoEvil = RoEvil
    Bid = Bid
    Blank = Blank
    NoFmap = NoFmap
    NoArea = NoArea
    NoGvd = NoGvd
    Contents <- MC_Contents
    NSlots = 2
    Locs <- MC_Locs
    BoardId <- Bid
    BidBlank <- Blank
    Signed <- MC_Signed
    Images <- CoreImages
    HeapCap = 3
    DevBuild = FALSE
    Blocked = FALSE
    XferModes = {"ok", "dead"}
    FlashFaults <- CoreFaults
    SeedOutcomes = {"ok"}
SPECIFICATION HoldSpec
PROPERTIES
    FailKeepsEcInReset

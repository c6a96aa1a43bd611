\* H1 flash faults: any one flash operation of a run or of the seed
\* command fails or loses power, in a CR50_DEV build where seeding and
\* erasing stay open after Board ID is programmed (a superset of the
\* release build's behaviours), over a live or dead AP SPI transport.
CONSTANTS
    RoA = RoA
    RoB = RoB
    RoOld = RoOld
    RoEvil = RoEvil
    Bid = Bid
    Blank = Blank
    NoFmap = NoFmap
    NoArea = NoArea
    NoGvd = NoGvd
    Contents <- MC_Contents
    NSlots = 2
    Locs <- MC_Locs
    BoardId <- Bid
    BidBlank <- Blank
    Signed <- MC_Signed
    Images <- CoreImages
    HeapCap = 3
    DevBuild = TRUE
    Blocked = FALSE
    XferModes = {"ok", "dead"}
    FlashFaults <- AllFlashFaults
    SeedOutcomes = {"ok", "fail", "torn"}
SPECIFICATION Spec
INVARIANTS
    TypeOK
    PassMeansAuthorised
    CacheHoldsOnlyVerified

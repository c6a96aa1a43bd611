SPECIFICATION Spec
SYMMETRY MC_Symmetry
CONSTANTS
    D1 = D1
    D2 = D2
    REGISTER_FILE_SIZE = 8
    DataBytes <- MC_DataBytes
    MaxMsg = 2
    RespLens <- MC_RespLens
    MaxTrans = 4
    CountBits = 2
    MaxStuck = 1
INVARIANTS
    TypeOK
    HandlerGetsWrittenBytes
    PostedBytesInFile
PROPERTIES
    StuckBusRecovers

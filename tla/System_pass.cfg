\* Two tag IDs, sizes that round up (1 and 5) and one past the uint8_t
\* limit (256); an older RO image of jump data version 1 or 2 may start the
\* behaviour; three resets or jumps, two adds per image; write protect
\* off, or the pin asserted with RO protected.
CONSTANTS
    T1 = T1
    T2 = T2
    Tags <- MC_Tags
    TagSizes = {1, 5, 256}
    Causes <- MC_Causes
    OldVersions = {1, 2}
    MaxBoots = 3
    MaxAdds = 2
    FLASH_BITS = 5
    FLASH_SIZE = 16
    RO_OFF = 0
    RO_SIZE = 6
    RW_OFF = 8
    RW_SIZE = 6
    RW_SIG_SIZE = 2
    ProtectStates = {{}, {"GPIO_ASSERTED", "RO_NOW"}}
SPECIFICATION Spec
INVARIANTS
    TypeOK
    TagsRestored
    BootRecordTrue
    UnsafeCoversWrites
PROPERTIES
    AddsOnlyDuringSysjump

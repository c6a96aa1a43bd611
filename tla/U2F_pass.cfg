\* Every NVMEM write and TRNG draw may fail; two reboots; presence
\* calls over three time units.
CONSTANTS
    FailOps <- MC_FailOps
    MaxRand = 3
    MaxBoots = 2
    MaxTime = 3
SPECIFICATION Spec
INVARIANTS
    LoadedStateMatchesNv
    LegacyRegistrationsKept

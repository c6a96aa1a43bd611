-------------------------------- MODULE MC_U2F --------------------------------
EXTENDS U2F

MC_FailOps == {"setvar", "random", "write"}
==============================================================================

-------------------------------- MODULE MC_Fan --------------------------------
EXTENDS Fan

\* Both channels may measure their speed (FAN_USE_RPM_MODE).
MC_UseRpmMode == [ch \in Chs |-> TRUE]
==============================================================================

\* Two fan channels, as on boards with two named fans.
CONSTANTS
    FAN_CH_COUNT = 2
    UseRpmMode <- MC_UseRpmMode
    RPM_MIN = 1000
    RPM_MAX = 5000
    TachReadings = {0, 2400, 4800}
    RpmTargets = {0, 2500, 9000}
    Duties = {0, 40, 100}
SPECIFICATION Spec
INVARIANTS
    SleepBlockedWhileDriving

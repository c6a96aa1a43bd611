SPECIFICATION Spec
CONSTANTS
    USB_MAX_PACKET_SIZE = 2
    NUM_IN_PACKETS_AT_ONCE = 4
    USB_IFACE_COUNT = 1
    DescLen <- MC_DescLen
    Requests <- MC_Requests
    MaxSetups = 3
    MaxResets = 1
    OtherSources = FALSE
INVARIANTS
    TypeOK
    HostGetsItsData
PROPERTIES
    SetupHandled
CHECK_DEADLOCK FALSE

SPECIFICATION FairSpec
CONSTANTS
    PulseTime = 1
    SettleTime = 2
    XferPulseTime = 1
    EnumPulseTime = 1
    BulkPulseTime = 1
    SetupTime = 1
    StatusTime = 1
    AddressTime = 1
    AddrModulus = 2
    AddrRange = 2
    RingDepth = 1
    MinGap = 2
    RoleGap = 2
    PeerFaults <- Nothing
    Payload <- Payloads
    Inputs <- DeviceOrNone
    Requests <- Nothing
    Clears <- AllBits
    Masks <- AllBits
    Transfers <- Nothing
    Upstream <- DeviceTraffic
INVARIANTS
    LoopbackInOrder
    LatestKept
PROPERTIES
    PipeSpec
    EachCopyPulses
    DataMoved

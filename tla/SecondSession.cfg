SPECIFICATION FairSpec
CONSTANTS
    PulseTime = 1
    SettleTime = 2
    XferPulseTime = 1
    EnumPulseTime = 1
    BulkPulseTime = 1
    SetupTime = 1
    StatusTime = 1
    AddressTime = 1
    AddrModulus = 2
    AddrRange = 2
    RingDepth = 1
    MinGap = 20
    RoleGap = 20
    PeerFaults <- Nothing
    Payload <- Payloads
    Inputs <- HostOrNone
    Requests <- Nothing
    Clears <- Nothing
    Masks <- Nothing
    Transfers <- Nothing
    Upstream <- Nothing
PROPERTIES
    Reenumerates

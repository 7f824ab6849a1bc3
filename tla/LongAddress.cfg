SPECIFICATION Spec
CONSTANTS
    PulseTime = 1
    SettleTime = 2
    XferPulseTime = 1
    EnumPulseTime = 1
    BulkPulseTime = 1
    SetupTime = 1
    StatusTime = 1
    AddressTime = 1
    AddrModulus = 256
    AddrRange = 128
    RingDepth = 1
    MinGap = 20
    RoleGap = 20
    PeerFaults <- Nothing
    Payload <- Payloads
    Inputs <- HostOrNone
    Requests <- Nothing
    Clears <- Nothing
    Masks <- Nothing
    Transfers <- OneOut
    Upstream <- Nothing
INVARIANTS
    AddressInRange

SPECIFICATION Spec
CONSTANTS
    PulseTime = 1
    SettleTime = 2
    XferPulseTime = 1
    EnumPulseTime = 1
    BulkPulseTime = 1
    SetupTime = 1
    StatusTime = 1
    AddressTime = 1
    AddrModulus = 4
    AddrRange = 2
    RingDepth = 1
    MinGap = 4
    RoleGap = 4
    PeerFaults <- Nothing
    Payload <- Payloads
    Inputs <- HostAndDevice
    Requests <- Nothing
    Clears <- Nothing
    Masks <- Nothing
    Transfers <- OneOut
    Upstream <- ConfigOnly
INVARIANTS
    TypeOK
    EnumeratedPeer
PROPERTIES
    CoreSpec

SPECIFICATION FairServiceSpec
CONSTANTS
    PulseTime = 1
    SettleTime = 1
    XferPulseTime = 1
    EnumPulseTime = 1
    BulkPulseTime = 1
    SetupTime = 1
    StatusTime = 1
    AddressTime = 1
    AddrModulus = 2
    AddrRange = 2
    RingDepth = 1
    MinGap = 14
    RoleGap = 14
    PeerFaults <- Nothing
    Payload <- OnePayload
    Inputs <- HostAndDevice
    Requests <- Nothing
    Clears <- Nothing
    Masks <- Nothing
    Transfers <- OneOut
    Upstream <- OneLoopback
    ReactTime = 2
INVARIANTS
    DriverTypeOK
PROPERTIES
    EveryPulseServed
    TransferReported
    ReportedHasRun

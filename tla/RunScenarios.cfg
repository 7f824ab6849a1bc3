SPECIFICATION ScenarioSpec
CONSTANTS
    PulseTime = 2
    SettleTime = 5
    XferPulseTime = 1
    EnumPulseTime = 2
    BulkPulseTime = 2
    SetupTime = 8
    StatusTime = 6
    AddressTime = 20
    AddrModulus = 256
    AddrRange = 128
    RingDepth = 2
    MinGap = 4
    RoleGap = 5
    PeerFaults <- Nothing
    Payload <- Payloads
    Inputs <- ScenarioInputs
    Requests <- ScenarioRequests
    Clears <- ScenarioClears
    Masks <- Nothing
    Transfers <- ScenarioTransfers
    Upstream <- Nothing
    BeforeVbus = 4
    SettleRole = 120
    RunBulk = 12
    BeforeRequest = 5
    BeforeReadback = 8
    TxData = "a"
INVARIANTS
    LoopbackPassed
    ReadbackSaysDevice
    SwitchSettled
    InterruptsCleared
PROPERTIES
    Stops
    IsTestbench
CHECK_DEADLOCK FALSE

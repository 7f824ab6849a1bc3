SPECIFICATION Spec
CONSTANTS
    PulseTime = 1
    SettleTime = 2
    XferPulseTime = 1
    EnumPulseTime = 1
    BulkPulseTime = 1
    MinGap = 0
    RoleGap = 0
    Inputs <- InputPerRole
    Requests <- BothRoles
    Clears <- OneOrAll
    Masks <- TwoMasks
    Pulses <- Nothing
INVARIANTS
    TypeOK
    ExclusiveControllers
    IrqHasCause
PROPERTIES
    DeadTime

SPECIFICATION Spec
CONSTANTS
    PulseTime = 1
    SettleTime = 2
    XferPulseTime = 1
    EnumPulseTime = 1
    BulkPulseTime = 1
    MinGap = 1
    RoleGap = 1
    Inputs <- AllInputs
    Requests <- Nothing
    Clears <- Nothing
    Masks <- Nothing
    Pulses <- Nothing
INVARIANTS
    ControllerMatchesRole

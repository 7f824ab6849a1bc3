SPECIFICATION FairSpec
CONSTANTS
    PulseTime = 3
    SettleTime = 3
    XferPulseTime = 1
    EnumPulseTime = 1
    BulkPulseTime = 1
    MinGap = 1
    RoleGap = 3
    Inputs <- AllInputs
    Requests <- BothRoles
    Clears <- OneOrAll
    Masks <- Nothing
    Pulses <- AllPulses
INVARIANTS
    ControllerMatchesRole
    RoleMatchesStimulus
    NoRequestLeft
    NoStaleController
    IrqLevel
PROPERTIES
    RoleSwitchSpec

CONSTANTS
    Provisioners = {a, b}
    Monitors = {w}
    Settings <- OneSetting
    Tables <- AllTables
    Budgets <- ProvisionFaults
SPECIFICATION LiveSpec
INVARIANTS
    TypeOK
    SuccessIsRegistered
    RegisteredCaptureWorked
    BlockedForCause
    VerdictsAgree
PROPERTIES
    RegistrationFrozen
    Established
    LossIsBlocked

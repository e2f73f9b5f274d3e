CONSTANTS
    Provisioners = {a, b}
    Monitors = {}
    Settings <- TwoSettings
    Tables <- OneTable
    Budgets <- NoFaults
SPECIFICATION Spec
SYMMETRY Symmetric
INVARIANTS
    RegisteredCaptureWorked

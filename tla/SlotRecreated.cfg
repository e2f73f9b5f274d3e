CONSTANTS
    Provisioners = {a}
    Monitors = {w}
    Settings <- OneSetting
    Tables <- OneTable
    Budgets <- SlotFault
SPECIFICATION LiveSpec
PROPERTIES
    MissingSlotBlocked

CONSTANTS
    Workers = {a, b}
    Budgets <- SupersededEvents
SPECIFICATION Spec
SYMMETRY Symmetric
PROPERTIES
    PauseMeansStopped

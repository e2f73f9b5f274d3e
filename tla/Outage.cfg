CONSTANTS
    Clients = {a, b}
    NoOne = NoOne
    MaxOffset = 3
    Malformed = {2}
    Excluded = {0}
    Budgets <- OutageFaults
    TruncateAnyTime = FALSE
SPECIFICATION Spec
SYMMETRY Symmetric
CHECK_DEADLOCK FALSE
INVARIANTS
    CommittedIsSettled
    BlockedForCause
PROPERTIES
    CommitMovesByOne
    SkippedNotResent
    OnlyOwnerCommits
    NeverRebaselined

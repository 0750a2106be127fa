SPECIFICATION Spec
CONSTANTS
    MaxLen = 6
    SizesOf <- WithTools
    KeepRecent = 2
    manual = manual
    auto = auto
    Slots <- TwoSlots
SYMMETRY Symmetric
INVARIANTS TypeOK RememberedUnlessDropped NoOrphanResults NothingTwice KeptWithinBudget
CHECK_DEADLOCK FALSE

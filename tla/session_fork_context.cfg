SPECIFICATION Spec
CONSTANTS
    MaxId = 4
    MaxFile = 0
    Labels = {"a"}
    Roles = {"user"}
    AppendedTypes <- ContextTypes
    MemoryOnly = TRUE
    Precreated = {}
    Faults = {}
    TornWrites = FALSE
PROPERTY ForkKeepsContext
CHECK_DEADLOCK FALSE

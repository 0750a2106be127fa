SPECIFICATION Spec
CONSTANTS
    MaxId = 3
    MaxFile = 2
    Labels = {"a"}
    Roles = {"user", "assistant"}
    AppendedTypes <- FileTypes
    MemoryOnly = FALSE
    Precreated = {1}
    Faults = {"kill", "throw"}
    TornWrites = TRUE
INVARIANTS TypeOK IndexInSync ParentsPrecede ReopenRestores
PROPERTIES FilesOnlyGrow HistoryAppendOnly
CHECK_DEADLOCK FALSE

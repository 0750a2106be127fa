SPECIFICATION Spec
CONSTANTS
    MaxId = 4
    MaxFile = 0
    Labels = {"a"}
    Roles = {"user"}
    AppendedTypes <- TreeTypes
    MemoryOnly = TRUE
    Precreated = {}
    Faults = {}
    TornWrites = FALSE
INVARIANT LabelsInSync
PROPERTIES CompactionKeepsSuffix ForkKeepsPath
CHECK_DEADLOCK FALSE

SPECIFICATION FairSpec
CONSTANTS
    MaxUser = 2
    MaxCall = 3
    MaxBatch = 2
    Configs <- ToolModes
    Throwers = {"listener", "provider", "afterToolCall"}
    Outside = {"clear"}
INVARIANTS TypeOK CallsAnswered
PROPERTIES RunEnds
CHECK_DEADLOCK FALSE

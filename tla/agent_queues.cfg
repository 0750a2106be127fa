SPECIFICATION Spec
CONSTANTS
    MaxUser = 3
    MaxCall = 1
    MaxBatch = 1
    Configs <- QueueModes
    Throwers = {}
    Outside = {"reset", "continue", "retry"}
INVARIANTS ContextIsTranscript MessagesAccounted QueuesInOrder NothingForgotten
CHECK_DEADLOCK FALSE

SPECIFICATION PlumbingSpec
CONSTANTS
    MutationCalls = {"edit", "rewrite", "later"}
    Tool <- ThreeTools
    PathOf <- OnePath
    RealPath <- DirLink
    BatchOf <- TwoAnswers
    Readers = {"reader1"}
    MaxDeltas = 0
    EventFiles = {"file"}
    EventKinds = {"immediate"}
    MaxRetries = 1
    QueueLimit = 1
    MaxVersions = 0
    MaxReadings = 0
    MaxMessages = 0
INVARIANT Serialized
CHECK_DEADLOCK FALSE

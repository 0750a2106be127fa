SPECIFICATION PlumbingSpec
CONSTANTS
    MutationCalls = {"edit", "rewrite", "editlink", "later"}
    Tool <- ThreeTools
    PathOf <- OnePath
    RealPath <- DirLink
    BatchOf <- TwoAnswers
    Readers = {"reader1", "reader2"}
    MaxDeltas = 2
    EventFiles = {"file"}
    EventKinds = {"immediate", "one-shot", "periodic", "bad cron", "broken"}
    MaxRetries = 2
    QueueLimit = 1
    MaxVersions = 2
    MaxReadings = 2
    MaxMessages = 2
INVARIANTS EditsKept ScheduleMatchesFiles ExecutedOnce
PROPERTIES CallsReturn DeliversInOrder StreamsEnd QueueDrains
CHECK_DEADLOCK FALSE

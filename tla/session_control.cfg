SPECIFICATION Spec
CONSTANTS
    Prompts = {p1, p2}
    Manual = {c1}
    MaxAnswers = 3
    MaxRetries = 1
    MaxAborts = 1
    Answers = {"error", "overflow", "more", "stop", "silent", "aborted"}
    Breaks = TRUE
    Overlap = FALSE
SYMMETRY Symmetric
INVARIANTS TypeOK PromptsReturn AttemptsForgotten RetryAwaited Connected RecoveryEnds InSync
CHECK_DEADLOCK FALSE

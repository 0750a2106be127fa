SPECIFICATION Spec
CONSTANTS
    Prompts = {p1}
    Manual = {}
    MaxAnswers = 1
    MaxRetries = 1
    MaxAborts = 0
    Answers = {"error", "fatal", "overflow", "more", "stop", "silent", "aborted"}
    Breaks = TRUE
    Overlap = FALSE
INVARIANT WaitsForRetryOnly
CHECK_DEADLOCK FALSE

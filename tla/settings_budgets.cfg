SPECIFICATION StoresSpec
CONSTANTS
    Managers = {m1}
    Scopes = {"global", "project"}
    Paths <- BudgetPaths
    Moved <- BudgetsMoved
    Budgets <- BudgetPaths
    Default <- NoDefault
    Values = {"a", "b"}
    InitialFiles <- BudgetFiles
    MaxSets = 2
    MaxEvents = 2
    Processes = {"proc1"}
    Calls = {"call1"}
    ProcessOf <- ThreeCalls
    Providers = {"oauth"}
    OAuth = "oauth"
    MaxToken = 1
    MaxChanges = 0
    AuthFaults = {}
    MaxAuthFaults = 0
INVARIANT FileTakesEffect
CHECK_DEADLOCK FALSE

SPECIFICATION StoresSpec
CONSTANTS
    Managers = {m1, m2}
    Scopes = {"global"}
    Paths <- TwoPaths
    Moved <- TwoMoved
    Budgets <- BudgetPaths
    Default <- NoDefault
    Values = {"a", "b"}
    InitialFiles <- OldFiles
    MaxSets = 2
    MaxEvents = 2
    Processes = {"proc1", "proc2"}
    Calls = {"call1", "call2", "call3"}
    ProcessOf <- ThreeCalls
    Providers = {"oauth", "other"}
    OAuth = "oauth"
    MaxToken = 3
    MaxChanges = 1
    AuthFaults = {"break", "kill", "network", "write"}
    MaxAuthFaults = 1
INVARIANTS LossesReported NeverRejected StoredTokenAccepted
PROPERTIES ImplementsShared OthersKept
SYMMETRY StoreSymmetry
CHECK_DEADLOCK FALSE

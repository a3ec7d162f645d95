SPECIFICATION FairSpec
CONSTANTS
    MaxSet = 3
    Procs = {p, q}
    Backends = {"epoll", "kqueue"}
    MsPerSec = 2
    Delays = {0, 3}
    Start = 3
    Budgets <- MCBudgets
INVARIANTS TypeOK MaxfdExact InterestExact TimersLinked WalkSafe CheckUseless NoOversleep
PROPERTIES TimerServed
CHECK_DEADLOCK FALSE

SPECIFICATION FairSpec
CONSTANTS
    Threads = {t1}
    Stoppers = {t1}
    Jobs = {j1}
    ThreadTimers = {m1}
    FlowTimers = {f1}
    ActiveTimers = at
    ExitClosure = exit
    NoExec = none
    Exe = exe
    Free = free
    NumPrio = 2
    SelectPrescaler = 1
    MaxSleep = 1
    Ms = 1
    MsPerTick = 2
    TickLength = 1
    Periods = {1}
    MaxTime = 1
    MaxSem = 1
    j1 = j1
    Prio <- SplitPrio
INVARIANTS
    NoEarlyTimeout
PROPERTIES
    ShutdownReturns
    FirstBandRuns
    TimerExpires
\* The executor thread ends after shutdown().
CHECK_DEADLOCK FALSE

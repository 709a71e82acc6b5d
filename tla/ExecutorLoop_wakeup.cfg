SPECIFICATION Spec
CONSTANTS
    Threads = {t1, t2}
    Stoppers = {t1, t2}
    Jobs = {j1}
    ThreadTimers = {m1}
    FlowTimers = {f1}
    ActiveTimers = at
    ExitClosure = exit
    NoExec = none
    Exe = exe
    Free = free
    NumPrio = 2
    SelectPrescaler = 1
    MaxSleep = 6
    Ms = 2
    MsPerTick = 2
    TickLength = 4
    Periods = {6}
    MaxTime = 10
    MaxSem = 1
    j1 = j1
    Prio <- SplitPrio
INVARIANTS
    NoLostWakeup
    SleepCoversTimers
    InOnePlace
    FlagsTellPlace
SYMMETRY Sym
\* The executor thread ends after shutdown().
CHECK_DEADLOCK FALSE

---------------------------- MODULE ExecutorLoop ----------------------------
(***************************************************************************)
(* The executor: one thread that runs Executables from a priority queue,   *)
(* sleeps when there are none, and is woken by other threads and by        *)
(* timers.  Translated from executor/Executor.{cpp,hxx}, executor/Timer.   *)
(* {cpp,hxx}, os/OSSelectWakeup.{cpp,hxx} (the ThreadX build, where the    *)
(* sleep is a semaphore wait) and the QList of utils/Queue.hxx.            *)
(*                                                                         *)
(* Every step of the executor thread and of a calling thread that touches  *)
(* shared state is an action of its own.  Steps that only the executor     *)
(* thread can observe are folded into the one before.                      *)
(***************************************************************************)
EXTENDS Integers, Sequences, FiniteSets

CONSTANTS
    Threads,        \* OS threads other than the executor's
    Stoppers,       \* those of them that may call shutdown()
    Jobs,           \* plain Executables (state flows, callbacks)
    ThreadTimers,   \* timers that other threads start (SyncTimeout)
    FlowTimers,     \* timers that code running on the executor uses
    ActiveTimers,   \* the ActiveTimers object, itself an Executable
    ExitClosure,    \* "this" in the queue: the request to stop
    NoExec,         \* a null Executable pointer
    Exe, Free,      \* holders of ActiveTimers::lock_ beside the threads
    NumPrio,        \* number of priority bands
    Prio,           \* band of every job and timer
    SelectPrescaler,\* config_executor_select_prescaler()
    MaxSleep,       \* config_executor_max_sleep_msec()
    Ms,             \* units of time in a millisecond
    MsPerTick,      \* milliseconds that OSSelectWakeup takes a tick to be, 10
    TickLength,     \* units of time in a tick of the RTOS clock
    Periods,        \* periods the timers are started with
    MaxTime,        \* bound: the last time a timer may expire at
    MaxSem          \* bound: further semaphore tokens are not counted

Timers == ThreadTimers \cup FlowTimers
Execs == Jobs \cup Timers \cup {ActiveTimers, ExitClosure}
Bands == 1..NumPrio

ASSUME BandAssumption ==
    /\ NumPrio \in Nat \ {0}
    /\ Prio \in [Jobs \cup Timers -> Bands]
ASSUME TimeAssumption ==
    /\ SelectPrescaler \in Nat
    /\ MaxSleep \in Nat \ {0}
    /\ MaxTime \in Nat
    /\ MaxSem \in Nat \ {0}
    /\ Periods \subseteq Nat
\* The ticks of the RTOS are no longer than OSSelectWakeup takes them to be:
\* "Default ThreadX timer tick = 10ms = 100 Hz".
ASSUME TickAssumption ==
    /\ Ms \in Nat \ {0}
    /\ MsPerTick \in Nat \ {0}
    /\ TickLength \in 1..(Ms * MsPerTick)
ASSUME NameAssumption ==
    /\ Stoppers \subseteq Threads
    /\ Jobs \cap Timers = {}
    /\ ThreadTimers \cap FlowTimers = {}
    /\ ActiveTimers # ExitClosure
    /\ {ActiveTimers, ExitClosure} \cap (Jobs \cup Timers) = {}
    /\ NoExec \notin Execs
    /\ Exe # Free
    /\ {Exe, Free} \cap Threads = {}

VARIABLES
    queue,          \* Executor::queue_, one FIFO per band
    list,           \* ActiveTimers::activeTimers_, the timer list in its order
    when, period,   \* Timer::when_ and Timer::period_
    isActive, isExpired, isCancelled,   \* Timer's flags, as sets of timers
    overtaken,      \* history: listed timers behind one that expires later
    isPending,      \* ActiveTimers::isPending_
    lock,           \* holder of ActiveTimers::lock_
    pendingWakeup, inSelect,            \* OSSelectWakeup's flags
    wakeupSem,      \* OSSelectWakeup::wakeupSem_
    selectPrescaler,\* ExecutorBase::selectPrescaler_
    pc, current,    \* the executor thread: where it is, ExecutorBase::current_
    now,            \* get_next_timeout's local: its snapshot of the clock
    waitLength,     \* entry's and wait_with_select's local wait_length
    sleepLeft,      \* ticks after which the semaphore wait times out
    done,           \* ExecutorBase::done_
    tpc, tarm,      \* a calling thread: where it is and the timer it starts
    failed,         \* an HASSERT of Queue.hxx has stopped the program
    clock           \* OSTime::get_monotonic()

qVars == <<queue>>
timerVars == <<list, when, period, isActive, isExpired, isCancelled, overtaken>>
wakeVars == <<pendingWakeup, inSelect, wakeupSem>>
loopVars == <<selectPrescaler, pc, current, now, waitLength, sleepLeft, done>>
thrVars == <<tpc, tarm, failed>>
vars == <<qVars, timerVars, isPending, lock, wakeVars, loopVars, thrVars, clock>>

PcValues == {"start", "top", "timers", "expire", "clear", "check", "enter",
             "get", "sem", "leave", "next", "run", "relist", "ending",
             "exited"}
TpcValues == {"idle", "lock", "exchange", "insert", "wakeup", "post", "join"}

\* Longest wait get_next_timeout() asks for: SEC_TO_NSEC(3600), beyond any
\* other time of the model.
Hour == MaxTime + MaxSleep + 1

(***************************************************************************)
(* The queue and the timer list as data.                                   *)
(***************************************************************************)
Queued(x) == \E b \in Bands : \E i \in 1..Len(queue[b]) : queue[b][i] = x

Listed(tm) == \E i \in 1..Len(list) : list[i] = tm

\* QList::empty()
Empty == \A b \in Bands : queue[b] = << >>

\* The band QList::next_locked() serves: the first that is not empty.
FirstBand == CHOOSE b \in Bands : /\ queue[b] # << >>
                                  /\ \A c \in Bands : c < b => queue[c] = << >>

\* Executor::add's clamp of the priority: everything that does not name one
\* goes to the last band.
BandOf(x) == IF x \in Jobs \cup Timers THEN Prio[x] ELSE NumPrio

\* Executor::add's queue_.insert()
Insert(x) == [queue EXCEPT ![BandOf(x)] = Append(@, x)]

\* Executor::next(): takes the item that current' becomes, null when Empty.
TakeNext ==
    IF Empty
    THEN current' = NoExec /\ queue' = queue
    ELSE /\ current' = Head(queue[FirstBand])
         /\ queue' = [queue EXCEPT ![FirstBand] = Tail(@)]

\* Where insert_locked puts tm in list l with expiry times w: before the
\* first timer that expires later.
InsertPos(l, w, tm) ==
    CHOOSE i \in 1..(Len(l) + 1) :
        /\ \A j \in 1..(i - 1) : w[l[j]] <= w[tm]
        /\ i <= Len(l) => w[l[i]] > w[tm]

ListInsert(l, w, tm) ==
    LET i == InsertPos(l, w, tm)
    IN  SubSeq(l, 1, i - 1) \o <<tm>> \o SubSeq(l, i, Len(l))

\* remove_locked: unlinks the timer where the walk finds it.
ListRemove(l, tm) ==
    LET i == CHOOSE k \in 1..Len(l) : l[k] = tm
    IN  IF \E k \in 1..Len(l) : l[k] = tm
        THEN SubSeq(l, 1, i - 1) \o SubSeq(l, i + 1, Len(l))
        ELSE l

(***************************************************************************)
(* Init: the executor constructed, its thread created but not yet in       *)
(* entry().                                                                *)
(***************************************************************************)
Init ==
    /\ queue = [b \in Bands |-> << >>]
    /\ list = << >>
    /\ when = [tm \in Timers |-> 0]
    /\ period = [tm \in Timers |-> 0]
    /\ isActive = {} /\ isExpired = {} /\ isCancelled = {} /\ overtaken = {}
    /\ isPending = FALSE
    /\ lock = Free
    /\ pendingWakeup = FALSE /\ inSelect = FALSE
    /\ wakeupSem = 0
    /\ selectPrescaler = 0
    /\ pc = "start"
    /\ current = NoExec
    /\ now = 0 /\ waitLength = 0 /\ sleepLeft = 0
    /\ done = FALSE
    /\ tpc = [t \in Threads |-> "idle"]
    /\ tarm = [t \in Threads |-> NoExec]
    /\ failed = FALSE
    /\ clock = 0
-----------------------------------------------------------------------------
(***************************************************************************)
(* The executor thread, entry().                                           *)
(***************************************************************************)

\* entry() up to its loop: started_ = 1, lock_to_thread() creates the
\* semaphore with count 0.
EntryStart ==
    /\ pc = "start"
    /\ pc' = "top"
    /\ wakeupSem' = 0
    /\ UNCHANGED <<qVars, timerVars, isPending, lock, pendingWakeup, inSelect,
                   selectPrescaler, current, now, waitLength, sleepLeft, done,
                   thrVars, clock>>

\* Mutant: the operands of the loop-head test swapped, so that next() has
\* taken an executable that is then overwritten.
LoopTop_SwappedTest ==
    /\ pc = "top"
    /\ IF selectPrescaler = 0 \/ Empty
       THEN /\ pc' = "timers"
            /\ queue' = IF Empty THEN queue
                        ELSE [queue EXCEPT ![FirstBand] = Tail(@)]
            /\ UNCHANGED <<current, selectPrescaler>>
       ELSE /\ TakeNext
            /\ selectPrescaler' = selectPrescaler - 1
            /\ pc' = "run"
    /\ UNCHANGED <<timerVars, isPending, lock, wakeVars, now, waitLength,
                   sleepLeft, done, thrVars, clock>>

\* Mutant: no prescaler, the timers are looked at only when the queue is empty.
LoopTop_NoPrescaler ==
    /\ pc = "top"
    /\ IF Empty
       THEN pc' = "timers" /\ UNCHANGED <<queue, current>>
       ELSE TakeNext /\ pc' = "run"
    /\ UNCHANGED <<timerVars, isPending, lock, wakeVars, selectPrescaler, now,
                   waitLength, sleepLeft, done, thrVars, clock>>

\* Loop head: while the prescaler lasts, take the next executable without
\* looking at the timers; otherwise, or when there is none, go to sleep.
LoopTop ==
    /\ pc = "top"
    /\ IF selectPrescaler = 0 \/ Empty
       THEN /\ pc' = "timers"
            /\ UNCHANGED <<queue, current, selectPrescaler>>
       ELSE /\ TakeNext
            /\ selectPrescaler' = selectPrescaler - 1
            /\ pc' = "run"
    /\ UNCHANGED <<timerVars, isPending, lock, wakeVars, now, waitLength,
                   sleepLeft, done, thrVars, clock>>

\* get_next_timeout takes the lock and reads the clock.
TimersLock ==
    /\ pc = "timers"
    /\ lock = Free
    /\ lock' = Exe
    /\ now' = clock
    /\ waitLength' = Hour
    /\ pc' = "expire"
    /\ UNCHANGED <<qVars, timerVars, isPending, wakeVars, selectPrescaler,
                   current, sleepLeft, done, thrVars, clock>>

\* Mutant: a timer is taken one unit of time too early.
HeadExpired_Early == list # << >> /\ when[Head(list)] <= now + 1

\* The loop condition of get_next_timeout.
HeadExpired == list # << >> /\ when[Head(list)] <= now

\* Mutant: isActive_ is not cleared.
ExpireTimer_StaysActive ==
    /\ pc = "expire"
    /\ HeadExpired
    /\ list' = Tail(list)
    /\ isExpired' = isExpired \cup {Head(list)}
    /\ overtaken' = overtaken \ {Head(list)}
    /\ queue' = Insert(Head(list))
    /\ pendingWakeup' = TRUE
    /\ waitLength' = 0
    /\ UNCHANGED <<when, period, isActive, isCancelled, isPending, lock,
                   inSelect, wakeupSem, selectPrescaler, pc, current, now,
                   sleepLeft, done, thrVars, clock>>

\* get_next_timeout's loop body: the head of the list has expired and moves
\* to the executor's queue.  waitLength = 0 stands for found_timer.
ExpireTimer ==
    /\ pc = "expire"
    /\ HeadExpired
    /\ LET tm == Head(list) IN
       /\ list' = Tail(list)
       /\ isActive' = isActive \ {tm}
       /\ isExpired' = isExpired \cup {tm}
       /\ overtaken' = overtaken \ {tm}
       /\ queue' = Insert(tm)
    /\ pendingWakeup' = TRUE
    /\ waitLength' = 0
    /\ UNCHANGED <<when, period, isCancelled, isPending, lock, inSelect,
                   wakeupSem, selectPrescaler, pc, current, now, sleepLeft, done,
                   thrVars, clock>>

\* get_next_timeout's return: the time to the head of the list.
TimersUnlock ==
    /\ pc = "expire"
    /\ ~HeadExpired
    /\ waitLength' = IF waitLength = 0 \/ list = << >> THEN waitLength
                     ELSE when[Head(list)] - now
    /\ lock' = Free
    /\ pc' = "clear"
    /\ UNCHANGED <<qVars, timerVars, isPending, wakeVars, selectPrescaler,
                   current, now, sleepLeft, done, thrVars, clock>>

\* wait_with_select: selectHelper_.clear_wakeup().
ClearWakeup ==
    /\ pc = "clear"
    /\ pendingWakeup' = FALSE
    /\ pc' = "check"
    /\ UNCHANGED <<qVars, timerVars, isPending, lock, inSelect, wakeupSem,
                   selectPrescaler, current, now, waitLength, sleepLeft, done,
                   thrVars, clock>>

\* Mutant: the queue is not looked at again after clear_wakeup().
CheckEmpty_NoCheck ==
    /\ pc = "check"
    /\ waitLength' = IF waitLength > MaxSleep THEN MaxSleep ELSE waitLength
    /\ pc' = "enter"
    /\ UNCHANGED <<qVars, timerVars, isPending, lock, wakeVars,
                   selectPrescaler, current, now, sleepLeft, done, thrVars, clock>>

\* wait_with_select: no sleep when work is queued, and never past MaxSleep.
CheckEmpty ==
    /\ pc = "check"
    /\ waitLength' = IF ~Empty THEN 0
                     ELSE IF waitLength > MaxSleep THEN MaxSleep ELSE waitLength
    /\ pc' = "enter"
    /\ UNCHANGED <<qVars, timerVars, isPending, lock, wakeVars,
                   selectPrescaler, current, now, sleepLeft, done, thrVars, clock>>

\* OSSelectWakeup::select, the first critical section.
SelectEnter ==
    /\ pc = "enter"
    /\ inSelect' = TRUE
    /\ waitLength' = IF pendingWakeup THEN 0 ELSE waitLength
    /\ pc' = "get"
    /\ UNCHANGED <<qVars, timerVars, isPending, lock, pendingWakeup, wakeupSem,
                   selectPrescaler, current, now, sleepLeft, done, thrVars, clock>>

\* Mutant: the milliseconds are passed as ticks.
SleepTicks_Milliseconds(w) == IF w \div Ms = 0 THEN 1 ELSE w \div Ms

\* How many ticks OSSelectWakeup::select sleeps for a wait of w: whole
\* milliseconds, at least one, rounded up to whole ticks.
SleepTicks(w) ==
    LET ms == IF w \div Ms = 0 THEN 1 ELSE w \div Ms
    IN  (ms + MsPerTick - 1) \div MsPerTick

\* The call of tx_semaphore_get(): it takes a token, or returns empty-handed
\* when there is nothing to wait for, or suspends the thread.
SemaphoreGet ==
    /\ pc = "get"
    /\ \/ /\ wakeupSem > 0
          /\ wakeupSem' = wakeupSem - 1
          /\ pc' = "leave"
          /\ UNCHANGED sleepLeft
       \/ /\ wakeupSem = 0 /\ waitLength = 0
          /\ pc' = "leave"
          /\ UNCHANGED <<wakeupSem, sleepLeft>>
       \/ /\ wakeupSem = 0 /\ waitLength > 0
          /\ pc' = "sem"
          /\ sleepLeft' = SleepTicks(waitLength)
          /\ UNCHANGED wakeupSem
    /\ UNCHANGED <<qVars, timerVars, isPending, lock, pendingWakeup, inSelect,
                   selectPrescaler, current, now, waitLength, done, thrVars,
                   clock>>

\* tx_semaphore_get() of the suspended thread returns: it was given a token,
\* or its ticks are over.
SemaphoreWake ==
    /\ pc = "sem"
    /\ \/ wakeupSem > 0 /\ wakeupSem' = wakeupSem - 1
       \/ wakeupSem = 0 /\ sleepLeft = 0 /\ UNCHANGED wakeupSem
    /\ pc' = "leave"
    /\ UNCHANGED <<qVars, timerVars, isPending, lock, pendingWakeup, inSelect,
                   selectPrescaler, current, now, waitLength, sleepLeft, done,
                   thrVars, clock>>

\* OSSelectWakeup::select, the last critical section; entry() then reloads
\* the prescaler.  The locals of the sleep end here.
SelectLeave ==
    /\ pc = "leave"
    /\ pendingWakeup' = FALSE
    /\ inSelect' = FALSE
    /\ selectPrescaler' = SelectPrescaler
    /\ now' = 0 /\ waitLength' = 0 /\ sleepLeft' = 0
    /\ pc' = "next"
    /\ UNCHANGED <<qVars, timerVars, isPending, lock, wakeupSem, current, done,
                   thrVars, clock>>

\* entry(): msg = next() after the sleep.
NextAfterSelect ==
    /\ pc = "next"
    /\ TakeNext
    /\ pc' = IF Empty THEN "top" ELSE "run"
    /\ UNCHANGED <<timerVars, isPending, lock, wakeVars, selectPrescaler, now,
                   waitLength, sleepLeft, done, thrVars, clock>>

\* Mutant: the thread returns without setting done_.
RunExit_NotDone ==
    /\ pc = "run" /\ current = ExitClosure
    /\ pc' = "ending"
    /\ current' = NoExec
    /\ UNCHANGED <<qVars, timerVars, isPending, lock, wakeVars,
                   selectPrescaler, now, waitLength, sleepLeft, done, thrVars,
                   clock>>

\* entry(): the exit closure was reached, done_ = 1.  (current is entry's
\* local msg here; current_ is set for what is run only.)
RunExit ==
    /\ pc = "run" /\ current = ExitClosure
    /\ done' = TRUE
    /\ pc' = "ending"
    /\ current' = NoExec
    /\ UNCHANGED <<qVars, timerVars, isPending, lock, wakeVars,
                   selectPrescaler, now, waitLength, sleepLeft, thrVars, clock>>

\* entry() returns; shutdown() may have returned before.
EntryReturn ==
    /\ pc = "ending"
    /\ pc' = "exited"
    /\ UNCHANGED <<qVars, timerVars, isPending, lock, wakeVars,
                   selectPrescaler, current, now, waitLength, sleepLeft, done,
                   thrVars, clock>>

\* ActiveTimers::run(): isPending_ = 0.
RunActiveTimers ==
    /\ pc = "run" /\ current = ActiveTimers
    /\ isPending' = FALSE
    /\ pc' = "top"
    /\ current' = NoExec
    /\ UNCHANGED <<qVars, timerVars, lock, wakeVars, selectPrescaler, now,
                   waitLength, sleepLeft, done, thrVars, clock>>
-----------------------------------------------------------------------------
(***************************************************************************)
(* What a job or a timer does while it runs on the executor: it may add    *)
(* another executable, or use a timer, before it returns to the loop.      *)
(* Executor::add called by the executor thread itself finds inSelect_      *)
(* false, so it inserts, sets pendingWakeup_ and posts nothing.            *)
(***************************************************************************)
SelfAdd(x) == queue' = Insert(x) /\ pendingWakeup' = TRUE

\* A job returns without further effect.
RunJobReturn ==
    /\ pc = "run" /\ current \in Jobs
    /\ pc' = "top"
    /\ current' = NoExec
    /\ UNCHANGED <<qVars, timerVars, isPending, lock, wakeVars,
                   selectPrescaler, now, waitLength, sleepLeft, done, thrVars,
                   clock>>

\* A job notifies a flow (itself too) that is not in the queue yet.
RunJobAdd(x) ==
    /\ pc = "run" /\ current \in Jobs
    /\ ~Queued(x)
    /\ SelfAdd(x)
    /\ pc' = "top"
    /\ current' = NoExec
    /\ UNCHANGED <<timerVars, isPending, lock, inSelect, wakeupSem,
                   selectPrescaler, now, waitLength, sleepLeft, done, thrVars,
                   clock>>

\* Timer::start() on the executor up to schedule_timer(): the asserts, the
\* flags and the expiry time, written before the lock is taken.
StartOnExecutor(tm, p) ==
    /\ tm \notin isActive /\ tm \notin isExpired
    /\ isActive' = isActive \cup {tm}
    /\ isCancelled' = isCancelled \ {tm}
    /\ clock + p <= MaxTime
    /\ when' = [when EXCEPT ![tm] = clock + p]
    /\ period' = [period EXCEPT ![tm] = p]

\* A flow starts its timer (sleep_and_call).
RunJobStart(tm, p) ==
    /\ pc = "run" /\ current \in Jobs
    /\ StartOnExecutor(tm, p)
    /\ current' = tm
    /\ pc' = "relist"
    /\ UNCHANGED <<qVars, list, isExpired, overtaken, isPending, lock, wakeVars,
                   selectPrescaler, now, waitLength, sleepLeft, done, thrVars,
                   clock>>

\* Timer::restart() up to update_timer() or schedule_timer(); on an expired
\* timer it does nothing.
RunJobRestart(tm) ==
    /\ pc = "run" /\ current \in Jobs
    /\ tm \notin isExpired
    /\ clock + period[tm] <= MaxTime
    /\ when' = [when EXCEPT ![tm] = clock + period[tm]]
    /\ isCancelled' = isCancelled \ {tm}
    /\ isActive' = isActive \cup {tm}
    /\ current' = tm
    /\ pc' = "relist"
    /\ UNCHANGED <<qVars, list, period, isExpired, overtaken, isPending, lock,
                   wakeVars, selectPrescaler, now, waitLength, sleepLeft, done,
                   thrVars, clock>>

\* Timer::trigger() of an active timer up to update_timer(): the expiry time
\* becomes one that is in the past.
RunJobTrigger(tm) ==
    /\ pc = "run" /\ current \in Jobs
    /\ tm \in isActive
    /\ when' = [when EXCEPT ![tm] = -1]
    /\ isCancelled' = isCancelled \cup {tm}
    /\ current' = tm
    /\ pc' = "relist"
    /\ UNCHANGED <<qVars, list, period, isActive, isExpired, overtaken,
                   isPending, lock, wakeVars, selectPrescaler, now, waitLength,
                   sleepLeft, done, thrVars, clock>>

\* Timer::run() of a timer whose timeout() returns NONE; on the way it may
\* have notified its parent flow (StateFlowTimer::timeout).
RunTimerOnce(x) ==
    /\ pc = "run" /\ current \in Timers
    /\ isExpired' = isExpired \ {current}
    /\ IF x = NoExec THEN UNCHANGED <<queue, pendingWakeup>>
                     ELSE ~Queued(x) /\ SelfAdd(x)
    /\ pc' = "top"
    /\ current' = NoExec
    /\ UNCHANGED <<list, when, period, isActive, isCancelled, overtaken,
                   isPending, lock, inSelect, wakeupSem, selectPrescaler, now,
                   waitLength, sleepLeft, done, thrVars, clock>>

\* Timer::run() of a timer whose timeout() returns RESTART: the next expiry
\* is counted from the last one.
RunTimerRestart ==
    /\ pc = "run" /\ current \in Timers
    /\ isExpired' = isExpired \ {current}
    /\ isActive' = isActive \cup {current}
    /\ when[current] + period[current] <= MaxTime
    /\ when' = [when EXCEPT ![current] = @ + period[current]]
    /\ pc' = "relist"
    /\ UNCHANGED <<qVars, list, period, isCancelled, overtaken, isPending, lock,
                   wakeVars, selectPrescaler, current, now, waitLength,
                   sleepLeft, done, thrVars, clock>>

\* Timer::run() of a timer whose timeout() returns a new period: start().
RunTimerNewPeriod(p) ==
    /\ pc = "run" /\ current \in Timers
    /\ isExpired' = isExpired \ {current}
    /\ isActive' = isActive \cup {current}
    /\ isCancelled' = isCancelled \ {current}
    /\ clock + p <= MaxTime
    /\ when' = [when EXCEPT ![current] = clock + p]
    /\ period' = [period EXCEPT ![current] = p]
    /\ pc' = "relist"
    /\ UNCHANGED <<qVars, list, overtaken, isPending, lock, wakeVars,
                   selectPrescaler, current, now, waitLength, sleepLeft, done,
                   thrVars, clock>>

\* ActiveTimers::notify() by the executor thread, in the queue's terms.
SelfNotify ==
    IF isPending THEN UNCHANGED <<queue, isPending, pendingWakeup>>
    ELSE isPending' = TRUE /\ SelfAdd(ActiveTimers)

\* Mutant: update_timer() without remove_locked().
Relist_NoRemove ==
    /\ pc = "relist"
    /\ lock = Free
    /\ list' = ListInsert(list, when, current)
    /\ overtaken' = overtaken \ {current}
    /\ SelfNotify
    /\ pc' = "top"
    /\ current' = NoExec
    /\ UNCHANGED <<when, period, isActive, isExpired, isCancelled, lock,
                   inSelect, wakeupSem, selectPrescaler, now, waitLength,
                   sleepLeft, done, thrVars, clock>>

\* schedule_timer() or update_timer() by the executor thread: takes the lock,
\* moves or inserts the timer, notifies and releases the lock.
Relist ==
    /\ pc = "relist"
    /\ lock = Free
    /\ list' = ListInsert(ListRemove(list, current), when, current)
    /\ overtaken' = overtaken \ {current}
    /\ SelfNotify
    /\ pc' = "top"
    /\ current' = NoExec
    /\ UNCHANGED <<when, period, isActive, isExpired, isCancelled, lock,
                   inSelect, wakeupSem, selectPrescaler, now, waitLength,
                   sleepLeft, done, thrVars, clock>>
-----------------------------------------------------------------------------
(***************************************************************************)
(* Other threads.                                                          *)
(***************************************************************************)

\* Executor::add(): the insertion, under the queue's lock, of an executable
\* that is not queued (a flow is notified once, by whoever it waits for).
ThreadAdd(t, x) ==
    /\ tpc[t] = "idle"
    /\ ~Queued(x)
    /\ queue' = Insert(x)
    /\ tpc' = [tpc EXCEPT ![t] = "wakeup"]
    /\ UNCHANGED <<timerVars, isPending, lock, wakeVars, loopVars, tarm, failed,
                   clock>>

\* shutdown(): nothing at all before entry() has set started_; otherwise
\* add(this), then wait for done_.  It looks at nothing else, so a second
\* shutdown() may find "this" in the queue, where the HASSERTs of the insertion
\* stop the program: the link of what is queued is not null, or it is the tail.
ThreadShutdown(t) ==
    /\ tpc[t] = "idle"
    /\ \/ pc = "start" /\ UNCHANGED <<queue, tarm, tpc, failed>>
       \/ /\ pc # "start" /\ ~Queued(ExitClosure)
          /\ queue' = Insert(ExitClosure)
          /\ tarm' = [tarm EXCEPT ![t] = ExitClosure]
          /\ tpc' = [tpc EXCEPT ![t] = "wakeup"]
          /\ UNCHANGED failed
       \/ /\ pc # "start" /\ Queued(ExitClosure)
          /\ failed' = TRUE
          /\ UNCHANGED <<queue, tarm, tpc>>
    /\ UNCHANGED <<timerVars, isPending, lock, wakeVars, loopVars, clock>>

\* shutdown(): the poll of done_ ends.
ThreadJoin(t) ==
    /\ tpc[t] = "join"
    /\ done
    /\ tpc' = [tpc EXCEPT ![t] = "idle"]
    /\ UNCHANGED <<qVars, timerVars, isPending, lock, wakeVars, loopVars, tarm,
                   failed, clock>>

\* Timer::start() called by a thread (SyncTimeout) up to schedule_timer().
ThreadStartTimer(t, tm, p) ==
    /\ tpc[t] = "idle"
    /\ tm \notin isActive /\ tm \notin isExpired
    /\ isActive' = isActive \cup {tm}
    /\ isCancelled' = isCancelled \ {tm}
    /\ clock + p <= MaxTime
    /\ when' = [when EXCEPT ![tm] = clock + p]
    /\ period' = [period EXCEPT ![tm] = p]
    /\ tarm' = [tarm EXCEPT ![t] = tm]
    /\ tpc' = [tpc EXCEPT ![t] = "lock"]
    /\ UNCHANGED <<qVars, list, isExpired, overtaken, isPending, lock, wakeVars,
                   loopVars, failed, clock>>

\* The listed timers that the insertion of tm passes by although they expire
\* before it: it stopped at a timer that restart() has given a later expiry
\* but that update_timer() has not moved yet.
Overtakes(tm) ==
    {list[i] : i \in {j \in InsertPos(list, when, tm)..Len(list) :
                         list[j] # current /\ when[list[j]] < when[tm]}}

\* schedule_timer(): lock, insert into the sorted list.
ThreadListInsert(t) ==
    /\ tpc[t] = "lock"
    /\ lock = Free
    /\ lock' = t
    /\ list' = ListInsert(list, when, tarm[t])
    /\ overtaken' = IF pc = "relist" /\ Listed(current)
                    THEN overtaken \cup Overtakes(tarm[t])
                    ELSE overtaken
    /\ tpc' = [tpc EXCEPT ![t] = "exchange"]
    /\ UNCHANGED <<qVars, when, period, isActive, isExpired, isCancelled,
                   isPending, wakeVars, loopVars, tarm, failed, clock>>

\* Mutant: the timer is inserted and nobody is notified.
ThreadExchange_NoNotify(t) ==
    /\ tpc[t] = "exchange"
    /\ tpc' = [tpc EXCEPT ![t] = "idle"]
    /\ tarm' = [tarm EXCEPT ![t] = NoExec]
    /\ lock' = Free
    /\ UNCHANGED <<qVars, timerVars, isPending, wakeVars, loopVars, failed, clock>>

\* ActiveTimers::notify(): isPending_.exchange(1).  When it was set already
\* the ActiveTimers object is (about to be) queued and the lock is released.
ThreadExchange(t) ==
    /\ tpc[t] = "exchange"
    /\ isPending' = TRUE
    /\ tpc' = [tpc EXCEPT ![t] = IF isPending THEN "idle" ELSE "insert"]
    /\ tarm' = [tarm EXCEPT ![t] = NoExec]
    /\ lock' = IF isPending THEN Free ELSE lock
    /\ UNCHANGED <<qVars, timerVars, wakeVars, loopVars, failed, clock>>

\* ActiveTimers::notify(): executor_->add(this), the insertion.
ThreadNotifyInsert(t) ==
    /\ tpc[t] = "insert"
    /\ queue' = Insert(ActiveTimers)
    /\ tpc' = [tpc EXCEPT ![t] = "wakeup"]
    /\ UNCHANGED <<timerVars, isPending, lock, wakeVars, loopVars, tarm, failed,
                   clock>>

\* The state a thread is in after its add() returns: shutdown() polls; a
\* caller inside insert_locked() releases the lock.
AfterAdd(t) ==
    /\ tpc' = [tpc EXCEPT ![t] = IF tarm[t] = ExitClosure THEN "join" ELSE "idle"]
    /\ tarm' = [tarm EXCEPT ![t] = NoExec]
    /\ lock' = IF lock = t THEN Free ELSE lock

\* OSSelectWakeup::wakeup(), its critical section.
ThreadWakeup(t) ==
    /\ tpc[t] = "wakeup"
    /\ pendingWakeup' = TRUE
    /\ IF inSelect THEN tpc' = [tpc EXCEPT ![t] = "post"] /\ UNCHANGED <<lock, tarm>>
                   ELSE AfterAdd(t)
    /\ UNCHANGED <<qVars, timerVars, isPending, inSelect, wakeupSem, loopVars,
                   failed, clock>>

\* OSSelectWakeup::wakeup(): os_sem_post(), outside the critical section.
ThreadPost(t) ==
    /\ tpc[t] = "post"
    /\ wakeupSem' = IF wakeupSem < MaxSem THEN wakeupSem + 1 ELSE wakeupSem
    /\ AfterAdd(t)
    /\ UNCHANGED <<qVars, timerVars, isPending, pendingWakeup, inSelect,
                   loopVars, failed, clock>>

\* A tick of the RTOS clock, which both the time and the sleeps are counted
\* in.  No timer expires after MaxTime, so there the clock stops and only a
\* sleep in progress runs down.
Tick ==
    /\ ~failed
    /\ clock < MaxTime \/ sleepLeft > 0
    /\ clock' = IF clock < MaxTime THEN clock + TickLength ELSE clock
    /\ sleepLeft' = IF sleepLeft > 0 THEN sleepLeft - 1 ELSE 0
    /\ UNCHANGED <<qVars, timerVars, isPending, lock, wakeVars,
                   selectPrescaler, pc, current, now, waitLength, done, thrVars>>
-----------------------------------------------------------------------------
ExecutorAction ==
    \/ EntryStart \/ LoopTop \/ TimersLock \/ ExpireTimer \/ TimersUnlock
    \/ ClearWakeup \/ CheckEmpty \/ SelectEnter \/ SemaphoreGet
    \/ SemaphoreWake \/ SelectLeave \/ NextAfterSelect \/ RunExit
    \/ EntryReturn \/ RunActiveTimers \/ RunJobReturn
    \/ \E x \in Jobs : RunJobAdd(x)
    \/ \E tm \in FlowTimers, p \in Periods : RunJobStart(tm, p)
    \/ \E tm \in FlowTimers : RunJobRestart(tm)
    \/ \E tm \in FlowTimers : RunJobTrigger(tm)
    \/ \E x \in Jobs \cup {NoExec} : RunTimerOnce(x)
    \/ RunTimerRestart
    \/ \E p \in Periods : RunTimerNewPeriod(p)
    \/ Relist

ExecutorStep == ~failed /\ ExecutorAction

\* A call in progress on thread t, which always goes on.
ThreadAction(t) ==
    \/ ThreadListInsert(t) \/ ThreadExchange(t) \/ ThreadNotifyInsert(t)
    \/ ThreadWakeup(t) \/ ThreadPost(t) \/ ThreadJoin(t)

ThreadContinue(t) == ~failed /\ ThreadAction(t)

\* A new call by thread t.
NewCall(t) ==
    \/ \E x \in Jobs : ThreadAdd(t, x)
    \/ \E tm \in ThreadTimers, p \in Periods : ThreadStartTimer(t, tm, p)
    \/ t \in Stoppers /\ ThreadShutdown(t)

ThreadCall(t) == ~failed /\ NewCall(t)

Next == \/ ExecutorStep
        \/ \E t \in Threads : ThreadContinue(t) \/ ThreadCall(t)
        \/ Tick

Spec == Init /\ [][Next]_vars

\* The executor thread is scheduled, the clock runs, a call that has begun
\* returns unless it waits for the executor, and ActiveTimers::lock_ is given
\* to every thread that waits for it (the RTOS mutex queues its waiters).
Fairness ==
    /\ WF_vars(ExecutorStep)
    /\ SF_vars(~failed /\ TimersLock) /\ SF_vars(~failed /\ Relist)
    /\ WF_vars(Tick)
    /\ \A t \in Threads : /\ WF_vars(ThreadContinue(t))
                          /\ SF_vars(~failed /\ ThreadListInsert(t))

FairSpec == Spec /\ Fairness
-----------------------------------------------------------------------------
(***************************************************************************)
(* Properties.                                                             *)
(***************************************************************************)

\* Type correctness of the executor's, the timers' and the threads' state.
TypeOK ==
    /\ queue \in [Bands -> Seq(Execs)]
    /\ list \in Seq(Timers)
    /\ when \in [Timers -> Int]
    /\ period \in [Timers -> Nat]
    /\ isActive \subseteq Timers
    /\ isExpired \subseteq Timers
    /\ isCancelled \subseteq Timers
    /\ overtaken \subseteq Timers
    /\ isPending \in BOOLEAN
    /\ lock \in Threads \cup {Exe, Free}
    /\ pendingWakeup \in BOOLEAN
    /\ inSelect \in BOOLEAN
    /\ wakeupSem \in Nat
    /\ selectPrescaler \in Nat
    /\ pc \in PcValues
    /\ current \in Execs \cup {NoExec}
    /\ now \in Int
    /\ waitLength \in Nat
    /\ sleepLeft \in Nat
    /\ done \in BOOLEAN
    /\ tpc \in [Threads -> TpcValues]
    /\ tarm \in [Threads -> Timers \cup {NoExec, ExitClosure}]
    /\ failed \in BOOLEAN
    /\ clock \in Nat

\* The executor has decided to sleep: it is in or about to call
\* tx_semaphore_get() with a timeout that is not zero.
Asleep == pc \in {"get", "sem"} /\ waitLength > 0

\* A thread has put something in the queue and has not yet finished wakeup().
Signalling == \E t \in Threads : tpc[t] \in {"wakeup", "post"}

\* No lost wakeup: when the executor sleeps while an executable is queued, a
\* semaphore token is there to wake it or the thread that queued it is still
\* inside OSSelectWakeup::wakeup().  It is what the order "clear_wakeup, then
\* empty(), then inSelect_" of wait_with_select() and select() must give.
NoLostWakeup == Asleep /\ ~Empty => wakeupSem > 0 \/ Signalling

\* A thread has put a timer in the list and its notify() has not returned.
Notifying == \E t \in Threads : tpc[t] \in {"exchange", "insert", "wakeup", "post"}

\* get_next_timeout() "Tell[s] when the first timer will expire" and a timer
\* that is scheduled later wakes the executor: a sleep that nothing is about
\* to end passes the time any listed timer had left by less than one tick.
\* A timer that a start() on another thread has put behind a later one, in
\* the middle of a restart() on the executor, is all that may be overslept.
SleepCoversTimers ==
    pc = "sem" /\ wakeupSem = 0 /\ ~Notifying =>
        \A i \in 1..Len(list) :
            \/ list[i] \in overtaken
            \/ (sleepLeft - 1) * TickLength < when[list[i]] - now

\* The QMember link of an executable is shared by the executor's queue and by
\* the timer list (the HASSERTs on item->next in Queue.hxx and Timer.cpp):
\* nothing is in two places, or twice in one.  Threads and flows add only what
\* is not queued, as add() asks of them, but shutdown() may come from several
\* threads, in the middle of another and again after it.
InOnePlace ==
    /\ \A b, c \in Bands : \A i \in 1..Len(queue[b]), j \in 1..Len(queue[c]) :
          queue[b][i] = queue[c][j] => b = c /\ i = j
    /\ \A i, j \in 1..Len(list) : list[i] = list[j] => i = j
    /\ \A i \in 1..Len(list) : ~Queued(list[i])

\* ActiveTimers::isPending_ is set exactly while its one queue entry exists,
\* runs, or is about to be inserted: two threads and the executor never queue
\* the ActiveTimers object twice, and never leave it out.
PendingMeansQueued ==
    isPending <=> \/ Queued(ActiveTimers)
                  \/ pc = "run" /\ current = ActiveTimers
                  \/ \E t \in Threads : tpc[t] = "insert"

\* Timer's flags tell where the timer is, as the comments on isActive_ and
\* isExpired_ say and as start(), restart() and trigger() rely on: expired
\* means queued or about to run, active means listed or about to be; and the
\* flag of ActiveTimers tells where that is.
FlagsTellPlace ==
    /\ PendingMeansQueued
    /\ \A tm \in Timers :
          /\ tm \in isExpired <=>
                 Queued(tm) \/ (pc = "run" /\ current = tm)
          /\ tm \in isActive <=>
                 \/ Listed(tm)
                 \/ pc = "relist" /\ current = tm
                 \/ \E t \in Threads : tpc[t] = "lock" /\ tarm[t] = tm

\* A timer that reaches the executor's queue without trigger() has really
\* waited for its expiry time: no path through restart, update and the list
\* makes timeout() early.
NoEarlyTimeout ==
    \A tm \in isExpired : tm \notin isCancelled => when[tm] <= clock

\* Every executable in the first band runs, whatever other threads keep
\* adding, unless the executor is shut down or an assertion has failed.
FirstBandRuns ==
    \A x \in {y \in Jobs : Prio[y] = 1} :
        Queued(x) ~> (current = x \/ done \/ failed)

\* A scheduled timer expires: it is handed to the executor's queue, also when
\* the executor was asleep, also when work keeps arriving (the prescaler
\* forces a look at the timers), and also when flows restart timers while
\* another thread inserts one.
TimerExpires ==
    \A tm \in Timers : tm \in isActive ~> (tm \in isExpired \/ done \/ failed)

\* Executables of higher bands run again and again, and nothing else does.
HigherBandsOnly ==
    /\ []<>(pc = "run")
    /\ <>[](pc = "run" => BandOf(current) < NumPrio)

\* shutdown() returns (unless an assertion has failed): the request to stop is
\* reached behind any work of its own band, however much keeps arriving, and
\* only an endless supply of work in higher bands keeps it from being reached.
ShutdownReturns ==
    HigherBandsOnly \/ \A t \in Threads : tpc[t] = "join" ~> (tpc[t] = "idle" \/ failed)
=============================================================================

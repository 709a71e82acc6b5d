------------------------- MODULE ExecutorLoopProofs -------------------------
(***************************************************************************)
(* Theorems about ExecutorLoop for every set of threads, jobs and timers   *)
(* and every value of the other constants.                                 *)
(***************************************************************************)
EXTENDS ExecutorLoop, SequenceTheorems, WellFoundedInduction, TLAPS

USE DEF Timers, Execs, Bands

(***************************************************************************)
(* Lemmas on the operators.                                                *)
(***************************************************************************)

\* Every non-empty set of natural numbers has a least element.
LEMMA LeastNatural ==
    ASSUME NEW S, S \subseteq Nat, S # {}
    PROVE  \E m \in S : \A n \in S : m <= n
<1> DEFINE R == {ss \in Nat \X Nat : ss[1] < ss[2]}
<1>1. IsWellFoundedOn(R, Nat)
    BY NatLessThanWellFounded, Zenon DEF OpToRel
<1>2. \A a, b \in Nat : a < b => <<a, b>> \in R
    OBVIOUS
<1> HIDE DEF R
<1>3. PICK m \in S : \A n \in S : ~(<<n, m>> \in R)
    BY <1>1, WFMin, Zenon
<1>4. \A n \in S : m \in Nat /\ n \in Nat /\ ~(n < m)
    BY <1>2, <1>3, Zenon
<1>5. \A n \in S : m <= n
    BY <1>4
<1> QED BY <1>5

\* next_locked() finds a band unless the queue is empty.
LEMMA FirstBandExists ==
    ASSUME BandAssumption, ~Empty
    PROVE  FirstBand \in Bands /\ queue[FirstBand] # << >>
<1> DEFINE S == {b \in Bands : queue[b] # << >>}
<1>1. S \subseteq Nat /\ S # {}
    BY DEF Empty, BandAssumption
<1>2. PICK m \in S : \A n \in S : m <= n
    BY <1>1, LeastNatural
<1>3. m \in Bands /\ queue[m] # << >> /\ \A c \in Bands : c < m => queue[c] = << >>
    BY <1>2, <1>1
<1> QED BY <1>3 DEF FirstBand

\* Executor::add() keeps the queue a queue of executables.
LEMMA InsertType ==
    ASSUME BandAssumption, queue \in [Bands -> Seq(Execs)], NEW x \in Execs
    PROVE  Insert(x) \in [Bands -> Seq(Execs)]
<1>1. BandOf(x) \in Bands
    BY DEF BandOf, BandAssumption
<1>2. Append(queue[BandOf(x)], x) \in Seq(Execs)
    BY <1>1
<1> QED BY <1>1, <1>2 DEF Insert

\* Executor::next() hands out an executable or null, and leaves a queue.
LEMMA TakeNextType ==
    ASSUME BandAssumption, queue \in [Bands -> Seq(Execs)], TakeNext
    PROVE  /\ queue' \in [Bands -> Seq(Execs)]
           /\ current' \in Execs \cup {NoExec}
<1>1. CASE Empty
    BY <1>1 DEF TakeNext
<1>2. CASE ~Empty
  <2> DEFINE b == FirstBand
  <2>1. b \in Bands /\ queue[b] # << >>
      BY <1>2, FirstBandExists
  <2>2. queue[b] \in Seq(Execs)
      BY <2>1
  <2>3. Head(queue[b]) \in Execs /\ Tail(queue[b]) \in Seq(Execs)
      BY <2>1, <2>2
  <2>4. current' = Head(queue[b]) /\ queue' = [queue EXCEPT ![b] = Tail(queue[b])]
      BY <1>2 DEF TakeNext
  <2> HIDE DEF b
  <2> QED BY <2>1, <2>3, <2>4
<1> QED BY <1>1, <1>2

\* insert_locked() finds a place for every timer in every list: behind timers
\* that expire no later and before one that expires later.
LEMMA InsertPosFits ==
    ASSUME NEW l \in Seq(Timers), NEW w \in [Timers -> Int], NEW tm \in Timers
    PROVE  LET p == InsertPos(l, w, tm)
           IN  /\ p \in 1..(Len(l) + 1)
               /\ \A j \in 1..(p - 1) : w[l[j]] <= w[tm]
               /\ p <= Len(l) => w[l[p]] > w[tm]
<1> DEFINE S == {i \in 1..(Len(l) + 1) : i <= Len(l) => w[l[i]] > w[tm]}
<1>1. S \subseteq Nat /\ Len(l) + 1 \in S
    OBVIOUS
<1>2. PICK m \in S : \A n \in S : m <= n
    BY <1>1, LeastNatural
<1>3. \A j \in 1..(m - 1) : w[l[j]] <= w[tm]
  <2> SUFFICES ASSUME NEW j \in 1..(m - 1) PROVE w[l[j]] <= w[tm]
      OBVIOUS
  <2>1. m \in 1..(Len(l) + 1)
      OBVIOUS
  <2>2. j \in 1..(Len(l) + 1) /\ j \notin S /\ j <= Len(l)
      BY <1>2, <2>1
  <2>3. l[j] \in Timers /\ w[l[j]] \in Int /\ w[tm] \in Int
      BY <2>2
  <2> QED BY <2>2, <2>3
<1> QED BY <1>2, <1>3 DEF InsertPos

\* In particular the place is one of the list or its end.
LEMMA InsertPosType ==
    ASSUME NEW l \in Seq(Timers), NEW w \in [Timers -> Int], NEW tm \in Timers
    PROVE  InsertPos(l, w, tm) \in 1..(Len(l) + 1)
BY InsertPosFits, Zenon

\* insert_locked() keeps the timer list a list of timers.
LEMMA ListInsertType ==
    ASSUME NEW l \in Seq(Timers), NEW w \in [Timers -> Int], NEW tm \in Timers
    PROVE  ListInsert(l, w, tm) \in Seq(Timers)
<1> DEFINE i == InsertPos(l, w, tm)
<1>1. i \in 1..(Len(l) + 1)
    BY InsertPosType
<1> HIDE DEF i
<1>2. SubSeq(l, 1, i - 1) \in Seq(Timers) /\ SubSeq(l, i, Len(l)) \in Seq(Timers)
    BY <1>1
<1> QED BY <1>2 DEF ListInsert, i

\* remove_locked() keeps the timer list a list of timers.
LEMMA ListRemoveType ==
    ASSUME NEW l \in Seq(Timers), NEW tm
    PROVE  ListRemove(l, tm) \in Seq(Timers)
<1>1. CASE \E k \in 1..Len(l) : l[k] = tm
  <2> DEFINE i == CHOOSE k \in 1..Len(l) : l[k] = tm
  <2>1. i \in 1..Len(l)
      BY <1>1
  <2> HIDE DEF i
  <2>2. SubSeq(l, 1, i - 1) \in Seq(Timers) /\ SubSeq(l, i + 1, Len(l)) \in Seq(Timers)
      BY <2>1
  <2> QED BY <1>1, <2>2 DEF ListRemove, i
<1>2. CASE ~ \E k \in 1..Len(l) : l[k] = tm
    BY <1>2 DEF ListRemove
<1> QED BY <1>1, <1>2

\* What ThreadListInsert() passes by are timers.
LEMMA OvertakesType ==
    ASSUME list \in Seq(Timers), when \in [Timers -> Int], NEW tm \in Timers
    PROVE  Overtakes(tm) \subseteq Timers
<1>1. InsertPos(list, when, tm) \in 1..(Len(list) + 1)
    BY InsertPosType
<1>2. \A j \in InsertPos(list, when, tm)..Len(list) : list[j] \in Timers
    BY <1>1
<1> QED BY <1>2 DEF Overtakes

\* Division rounds down.
LEMMA Division ==
    ASSUME NEW a \in Nat, NEW b \in Nat \ {0}
    PROVE  a \div b \in Nat /\ b * (a \div b) <= a
BY SMT

\* A product with a natural number grows with its other factor.
LEMMA ProductGrows ==
    ASSUME NEW a \in Nat, NEW b \in Int, NEW c \in Int, b <= c
    PROVE  a * b <= a * c
BY SMT

\* select() asks the semaphore for a whole number of ticks.
LEMMA SleepTicksType ==
    ASSUME TickAssumption, NEW w \in Nat
    PROVE  SleepTicks(w) \in Nat
<1> DEFINE ms == IF w \div Ms = 0 THEN 1 ELSE w \div Ms
<1>1. ms \in Nat \ {0}
    BY Division DEF TickAssumption
<1> HIDE DEF ms
<1>2. ms + MsPerTick - 1 \in Nat
    BY <1>1 DEF TickAssumption
<1>3. (ms + MsPerTick - 1) \div MsPerTick \in Nat
    BY <1>2, Division DEF TickAssumption
<1> QED BY <1>3 DEF SleepTicks, ms

\* A tick of the clock takes time.
LEMMA TickLengthType == TickLength \in Nat \ {0}
BY TickAssumption, SMT DEF TickAssumption
-----------------------------------------------------------------------------
(***************************************************************************)
(* Type correctness.                                                       *)
(***************************************************************************)

\* A call that is about to put a timer in the list holds a timer.
CallsInProgress ==
    /\ pc = "relist" => current \in Timers
    /\ \A t \in Threads : tpc[t] = "lock" => tarm[t] \in Timers

TypeInv == TypeOK /\ CallsInProgress

\* The types hold at the start.
LEMMA TypeInit == Init => TypeInv
<1> SUFFICES ASSUME Init PROVE TypeInv
    OBVIOUS
<1>1. queue \in [Bands -> Seq(Execs)] /\ list \in Seq(Timers)
    BY DEF Init
<1>2. pc \in PcValues /\ pc # "relist"
    BY DEF Init, PcValues
<1>3. tpc \in [Threads -> TpcValues] /\ \A t \in Threads : tpc[t] # "lock"
    BY DEF Init, TpcValues
<1>4. when \in [Timers -> Int] /\ period \in [Timers -> Nat]
    BY DEF Init
<1>5. /\ wakeupSem \in Nat /\ selectPrescaler \in Nat /\ now \in Int
      /\ waitLength \in Nat /\ sleepLeft \in Nat /\ clock \in Nat
    BY DEF Init
<1>6. /\ isPending \in BOOLEAN /\ pendingWakeup \in BOOLEAN
      /\ inSelect \in BOOLEAN /\ done \in BOOLEAN /\ failed \in BOOLEAN
    BY DEF Init
<1>7. /\ isActive \subseteq Timers /\ isExpired \subseteq Timers
      /\ isCancelled \subseteq Timers /\ overtaken \subseteq Timers
    BY DEF Init
<1>8. /\ lock \in Threads \cup {Exe, Free} /\ current \in Execs \cup {NoExec}
      /\ tarm \in [Threads -> Timers \cup {NoExec, ExitClosure}]
    BY DEF Init
<1> QED BY <1>1, <1>2, <1>3, <1>4, <1>5, <1>6, <1>7, <1>8
        DEF TypeInv, TypeOK, CallsInProgress

\* Every step of the executor and of the threads keeps the types.
LEMMA TypeStep == TypeInv /\ [Next]_vars => TypeInv'
<1> SUFFICES ASSUME TypeInv, [Next]_vars PROVE TypeInv'
    OBVIOUS
<1> USE DEF TypeInv, TypeOK, CallsInProgress, qVars, timerVars, wakeVars,
            loopVars, thrVars, PcValues, TpcValues
<1>1. CASE EntryStart
    BY <1>1 DEF EntryStart
<1>2. CASE LoopTop
    BY <1>2, TakeNextType, BandAssumption DEF LoopTop
<1>3. CASE TimersLock
    BY <1>3, TimeAssumption DEF TimeAssumption, TimersLock, Hour
<1>4. CASE ExpireTimer
  <2>1. Head(list) \in Timers /\ Tail(list) \in Seq(Timers)
      BY <1>4 DEF ExpireTimer, HeadExpired
  <2>2. Insert(Head(list)) \in [Bands -> Seq(Execs)]
      BY <2>1, BandAssumption, InsertType
  <2> QED BY <1>4, <2>1, <2>2 DEF ExpireTimer
<1>5. CASE TimersUnlock
    BY <1>5 DEF TimersUnlock, HeadExpired
<1>6. CASE ClearWakeup
    BY <1>6 DEF ClearWakeup
<1>7. CASE CheckEmpty
    BY <1>7, TimeAssumption DEF TimeAssumption, CheckEmpty
<1>8. CASE SelectEnter
    BY <1>8 DEF SelectEnter
<1>9. CASE SemaphoreGet
  <2>1. SleepTicks(waitLength) \in Nat
      BY TickAssumption, SleepTicksType
  <2> QED BY <1>9, <2>1 DEF SemaphoreGet
<1>10. CASE SemaphoreWake
    BY <1>10 DEF SemaphoreWake
<1>11. CASE SelectLeave
  <2>1. SelectPrescaler \in Nat
      BY TimeAssumption DEF TimeAssumption
  <2>2. now' \in Int /\ waitLength' \in Nat /\ sleepLeft' \in Nat
      BY <1>11 DEF SelectLeave
  <2> QED BY <1>11, <2>1, <2>2 DEF SelectLeave
<1>12. CASE NextAfterSelect
    BY <1>12, TakeNextType, BandAssumption DEF NextAfterSelect
<1>13. CASE RunExit
    BY <1>13 DEF RunExit
<1>14. CASE EntryReturn
    BY <1>14 DEF EntryReturn
<1>15. CASE RunActiveTimers
    BY <1>15 DEF RunActiveTimers
<1>16. CASE RunJobReturn
    BY <1>16 DEF RunJobReturn
<1>17. ASSUME NEW x \in Jobs, RunJobAdd(x) PROVE TypeInv'
    BY <1>17, BandAssumption, InsertType DEF RunJobAdd, SelfAdd
<1>18. ASSUME NEW tm \in FlowTimers, NEW p \in Periods, RunJobStart(tm, p) PROVE TypeInv'
    BY <1>18, TimeAssumption DEF TimeAssumption, RunJobStart, StartOnExecutor
<1>19. ASSUME NEW tm \in FlowTimers, RunJobRestart(tm) PROVE TypeInv'
    BY <1>19 DEF RunJobRestart
<1>20. ASSUME NEW tm \in FlowTimers, RunJobTrigger(tm) PROVE TypeInv'
    BY <1>20 DEF RunJobTrigger
<1>21. ASSUME NEW x \in Jobs \cup {NoExec}, RunTimerOnce(x) PROVE TypeInv'
  <2>1. x # NoExec => Insert(x) \in [Bands -> Seq(Execs)]
      BY BandAssumption, InsertType
  <2> QED BY <1>21, <2>1 DEF RunTimerOnce, SelfAdd
<1>22. CASE RunTimerRestart
    BY <1>22 DEF RunTimerRestart
<1>23. ASSUME NEW p \in Periods, RunTimerNewPeriod(p) PROVE TypeInv'
    BY <1>23, TimeAssumption DEF TimeAssumption, RunTimerNewPeriod
<1>24. CASE Relist
  <2>1. current \in Timers
      BY <1>24 DEF Relist
  <2>2. ListInsert(ListRemove(list, current), when, current) \in Seq(Timers)
      BY <2>1, ListInsertType, ListRemoveType
  <2>3. Insert(ActiveTimers) \in [Bands -> Seq(Execs)]
      BY BandAssumption, InsertType
  <2> QED BY <1>24, <2>2, <2>3 DEF Relist, SelfNotify, SelfAdd
<1>25. ASSUME NEW t \in Threads, ThreadListInsert(t) PROVE TypeInv'
  <2>1. tarm[t] \in Timers
      BY <1>25 DEF ThreadListInsert
  <2>2. ListInsert(list, when, tarm[t]) \in Seq(Timers)
      BY <2>1, ListInsertType
  <2>3. Overtakes(tarm[t]) \subseteq Timers
      BY <2>1, OvertakesType
  <2> QED BY <1>25, <2>2, <2>3 DEF ThreadListInsert
<1>26. ASSUME NEW t \in Threads, ThreadExchange(t) PROVE TypeInv'
    BY <1>26 DEF ThreadExchange
<1>27. ASSUME NEW t \in Threads, ThreadNotifyInsert(t) PROVE TypeInv'
  <2>1. Insert(ActiveTimers) \in [Bands -> Seq(Execs)]
      BY BandAssumption, InsertType
  <2> QED BY <1>27, <2>1, SMTT(20) DEF ThreadNotifyInsert
<1>28. ASSUME NEW t \in Threads, ThreadWakeup(t) PROVE TypeInv'
  <2>1. /\ \E v \in TpcValues \ {"lock"} : tpc' = [tpc EXCEPT ![t] = v]
        /\ tarm' = tarm \/ tarm' = [tarm EXCEPT ![t] = NoExec]
        /\ lock' = lock \/ lock' = Free
        /\ pendingWakeup' = TRUE
      BY <1>28 DEF ThreadWakeup, AfterAdd
  <2>2. /\ tpc' \in [Threads -> TpcValues] /\ lock' \in Threads \cup {Exe, Free}
        /\ tarm' \in [Threads -> Timers \cup {NoExec, ExitClosure}]
      BY <2>1
  <2>3. \A u \in Threads : tpc'[u] = "lock" => tarm'[u] \in Timers
      BY <2>1
  <2>4. UNCHANGED <<qVars, timerVars, isPending, inSelect, wakeupSem, loopVars,
                    failed, clock>>
      BY <1>28 DEF ThreadWakeup
  <2> QED BY <2>1, <2>2, <2>3, <2>4
<1>29. ASSUME NEW t \in Threads, ThreadPost(t) PROVE TypeInv'
    BY <1>29 DEF ThreadPost, AfterAdd
<1>30. ASSUME NEW t \in Threads, ThreadJoin(t) PROVE TypeInv'
    BY <1>30 DEF ThreadJoin
<1>31. ASSUME NEW t \in Threads, NEW x \in Jobs, ThreadAdd(t, x) PROVE TypeInv'
    BY <1>31, SMTT(20), BandAssumption, InsertType DEF ThreadAdd
<1>32. ASSUME NEW t \in Threads, NEW tm \in ThreadTimers, NEW p \in Periods, ThreadStartTimer(t, tm, p) PROVE TypeInv'
    BY <1>32, TimeAssumption DEF TimeAssumption, ThreadStartTimer
<1>33. ASSUME NEW t \in Threads, ThreadShutdown(t) PROVE TypeInv'
  <2>1. Insert(ExitClosure) \in [Bands -> Seq(Execs)]
      BY BandAssumption, InsertType
  <2>2. /\ queue' = queue \/ queue' = Insert(ExitClosure)
        /\ tarm' = tarm \/ tarm' = [tarm EXCEPT ![t] = ExitClosure]
        /\ tpc' = tpc \/ tpc' = [tpc EXCEPT ![t] = "wakeup"]
        /\ failed' \in BOOLEAN
        /\ tpc[t] = "idle"
      BY <1>33 DEF ThreadShutdown
  <2>3. /\ tpc' \in [Threads -> TpcValues]
        /\ tarm' \in [Threads -> Timers \cup {NoExec, ExitClosure}]
      BY <2>2
  <2>4. \A u \in Threads : tpc'[u] = "lock" => tarm'[u] \in Timers
      BY <2>2
  <2>5. UNCHANGED <<timerVars, isPending, lock, wakeVars, loopVars, clock>>
      BY <1>33 DEF ThreadShutdown
  <2> QED BY <2>1, <2>2, <2>3, <2>4, <2>5
<1>34. CASE Tick
    BY <1>34, TickLengthType DEF Tick
<1>35. CASE UNCHANGED vars
    BY <1>35 DEF vars
<1> QED
    BY <1>1, <1>2, <1>3, <1>4, <1>5, <1>6, <1>7, <1>8, <1>9, <1>10, <1>11,
       <1>12, <1>13, <1>14, <1>15, <1>16, <1>17, <1>18, <1>19, <1>20,
       <1>21, <1>22, <1>23, <1>24, <1>25, <1>26, <1>27, <1>28, <1>29,
       <1>30, <1>31, <1>32, <1>33, <1>34, <1>35
       DEF Next, ExecutorStep, ExecutorAction, ThreadContinue, ThreadAction,
           ThreadCall, NewCall

\* The state of the executor, the timers and the calling threads stays within
\* its types whatever the interleaving.
THEOREM TypeCorrect == Spec => []TypeOK
<1>1. TypeInv => TypeOK
    BY DEF TypeInv
<1> QED BY TypeInit, TypeStep, <1>1, PTL DEF Spec
-----------------------------------------------------------------------------
(***************************************************************************)
(* No lost wakeup.  NoLostWakeup is not inductive: what protects it before *)
(* the executor is asleep is that an executable inserted after empty() was *)
(* checked has either left its mark in pendingWakeup_ or its thread has    *)
(* still to leave it, and that inSelect_ is set throughout the sleep.      *)
(***************************************************************************)
SelectFlag == pc \in {"get", "sem"} => inSelect

MarkLeft ==
    pc = "enter" /\ waitLength > 0 /\ ~Empty =>
        pendingWakeup \/ \E t \in Threads : tpc[t] = "wakeup"

WakeInv == SelectFlag /\ MarkLeft /\ NoLostWakeup

\* Nothing is queued at the start, so nobody is owed a wakeup.
LEMMA WakeInit == Init => WakeInv
BY DEF Init, WakeInv, SelectFlag, MarkLeft, NoLostWakeup, Asleep

\* Every step of the executor and of the threads keeps the argument going.
LEMMA WakeStep == TypeInv /\ WakeInv /\ [Next]_vars => WakeInv'
<1> SUFFICES ASSUME TypeInv, WakeInv, [Next]_vars PROVE WakeInv'
    OBVIOUS
<1> USE TimeAssumption DEF TypeInv, TypeOK, TimeAssumption, WakeInv, SelectFlag,
            MarkLeft, NoLostWakeup, Asleep, Signalling, Empty, qVars, timerVars,
            wakeVars, loopVars, thrVars
<1>1. CASE EntryStart
    BY <1>1 DEF EntryStart
<1>2. CASE LoopTop
    BY <1>2 DEF LoopTop
<1>3. CASE TimersLock
    BY <1>3 DEF TimersLock
<1>4. CASE ExpireTimer
    BY <1>4 DEF ExpireTimer
<1>5. CASE TimersUnlock
    BY <1>5 DEF TimersUnlock, HeadExpired
<1>6. CASE ClearWakeup
    BY <1>6 DEF ClearWakeup
<1>7. CASE CheckEmpty
    BY <1>7 DEF CheckEmpty
<1>8. CASE SelectEnter
    BY <1>8 DEF SelectEnter
<1>9. CASE SemaphoreGet
    BY <1>9 DEF SemaphoreGet
<1>10. CASE SemaphoreWake
    BY <1>10 DEF SemaphoreWake
<1>11. CASE SelectLeave
    BY <1>11 DEF SelectLeave
<1>12. CASE NextAfterSelect
    BY <1>12 DEF NextAfterSelect
<1>13. CASE RunExit
    BY <1>13 DEF RunExit
<1>14. CASE EntryReturn
    BY <1>14 DEF EntryReturn
<1>15. CASE RunActiveTimers
    BY <1>15 DEF RunActiveTimers
<1>16. CASE RunJobReturn
    BY <1>16 DEF RunJobReturn
<1>17. ASSUME NEW x \in Jobs, RunJobAdd(x) PROVE WakeInv'
    BY <1>17 DEF RunJobAdd
<1>18. ASSUME NEW tm \in FlowTimers, NEW p \in Periods, RunJobStart(tm, p) PROVE WakeInv'
    BY <1>18 DEF RunJobStart
<1>19. ASSUME NEW tm \in FlowTimers, RunJobRestart(tm) PROVE WakeInv'
    BY <1>19 DEF RunJobRestart
<1>20. ASSUME NEW tm \in FlowTimers, RunJobTrigger(tm) PROVE WakeInv'
    BY <1>20 DEF RunJobTrigger
<1>21. ASSUME NEW x \in Jobs \cup {NoExec}, RunTimerOnce(x) PROVE WakeInv'
    BY <1>21 DEF RunTimerOnce
<1>22. CASE RunTimerRestart
    BY <1>22 DEF RunTimerRestart
<1>23. ASSUME NEW p \in Periods, RunTimerNewPeriod(p) PROVE WakeInv'
    BY <1>23 DEF RunTimerNewPeriod
<1>24. CASE Relist
    BY <1>24 DEF Relist
<1>25. ASSUME NEW t \in Threads, ThreadListInsert(t) PROVE WakeInv'
    BY <1>25 DEF ThreadListInsert
<1>26. ASSUME NEW t \in Threads, ThreadExchange(t) PROVE WakeInv'
    BY <1>26 DEF ThreadExchange
<1>27. ASSUME NEW t \in Threads, ThreadNotifyInsert(t) PROVE WakeInv'
    BY <1>27 DEF ThreadNotifyInsert
<1>28. ASSUME NEW t \in Threads, ThreadWakeup(t) PROVE WakeInv'
    BY <1>28 DEF ThreadWakeup, AfterAdd
<1>29. ASSUME NEW t \in Threads, ThreadPost(t) PROVE WakeInv'
    BY <1>29 DEF ThreadPost, AfterAdd
<1>30. ASSUME NEW t \in Threads, ThreadJoin(t) PROVE WakeInv'
    BY <1>30 DEF ThreadJoin
<1>31. ASSUME NEW t \in Threads, NEW x \in Jobs, ThreadAdd(t, x) PROVE WakeInv'
    BY <1>31 DEF ThreadAdd
<1>32. ASSUME NEW t \in Threads, NEW tm \in ThreadTimers, NEW p \in Periods, ThreadStartTimer(t, tm, p) PROVE WakeInv'
    BY <1>32 DEF ThreadStartTimer
<1>33. ASSUME NEW t \in Threads, ThreadShutdown(t) PROVE WakeInv'
    BY <1>33 DEF ThreadShutdown
<1>34. CASE Tick
    BY <1>34 DEF Tick
<1>35. CASE UNCHANGED vars
    BY <1>35 DEF vars
<1> QED
    BY <1>1, <1>2, <1>3, <1>4, <1>5, <1>6, <1>7, <1>8, <1>9, <1>10, <1>11,
       <1>12, <1>13, <1>14, <1>15, <1>16, <1>17, <1>18, <1>19, <1>20,
       <1>21, <1>22, <1>23, <1>24, <1>25, <1>26, <1>27, <1>28, <1>29,
       <1>30, <1>31, <1>32, <1>33, <1>34, <1>35
       DEF Next, ExecutorStep, ExecutorAction, ThreadContinue, ThreadAction,
           ThreadCall, NewCall

\* The executor never sleeps on a non-empty queue without a wakeup under way:
\* for any number of threads, bands and timers and any interleaving.
THEOREM NoWakeupIsLost == Spec => []NoLostWakeup
<1>1. WakeInv => NoLostWakeup
    BY DEF WakeInv
<1> QED BY TypeInit, TypeStep, WakeInit, WakeStep, <1>1, PTL DEF Spec
-----------------------------------------------------------------------------
(***************************************************************************)
(* Where an executable is.  Queued and Listed are the only things the       *)
(* argument below says about the queue and the list, so these lemmas tell  *)
(* once what each operation does to them.                                  *)
(***************************************************************************)

\* The queue holds nothing twice: the first part of InOnePlace.
QueueOnce ==
    \A b, c \in Bands : \A i \in 1..Len(queue[b]), j \in 1..Len(queue[c]) :
        queue[b][i] = queue[c][j] => b = c /\ i = j

\* A timer is in a list, and a list holds nothing twice.
In(l, y) == \E i \in 1..Len(l) : l[i] = y
Once(l) == \A i, j \in 1..Len(l) : l[i] = l[j] => i = j

\* Executor::add() puts exactly its argument in the queue, once.
LEMMA InsertPlace ==
    ASSUME BandAssumption, queue \in [Bands -> Seq(Execs)], NEW x \in Execs,
           queue' = Insert(x), QueueOnce, ~Queued(x)
    PROVE  QueueOnce' /\ \A y : Queued(y)' <=> Queued(y) \/ y = x
<1> DEFINE b == BandOf(x)
<1>1. b \in Bands
    BY DEF BandOf, BandAssumption
<1>2. queue' = [queue EXCEPT ![b] = Append(queue[b], x)]
    BY DEF Insert
<1> HIDE DEF b
<1>3. queue[b] \in Seq(Execs)
    BY <1>1
<1>4. /\ queue'[b] = Append(queue[b], x)
      /\ \A c \in Bands : c # b => queue'[c] = queue[c]
    BY <1>1, <1>2
<1>5. /\ Len(queue'[b]) = Len(queue[b]) + 1
      /\ Len(queue[b]) \in Nat
      /\ queue'[b][Len(queue[b]) + 1] = x
      /\ \A i \in 1..Len(queue[b]) : queue'[b][i] = queue[b][i]
    BY <1>3, <1>4
<1>6. \A c \in Bands : \A i \in 1..Len(queue[c]) : queue[c][i] # x
    BY DEF Queued
<1>7. \A c \in Bands : \A i \in 1..Len(queue'[c]) :
          \/ i \in 1..Len(queue[c]) /\ queue'[c][i] = queue[c][i]
          \/ c = b /\ i = Len(queue[b]) + 1 /\ queue'[c][i] = x
  <2> SUFFICES ASSUME NEW c \in Bands, NEW i \in 1..Len(queue'[c])
               PROVE  \/ i \in 1..Len(queue[c]) /\ queue'[c][i] = queue[c][i]
                      \/ c = b /\ i = Len(queue[b]) + 1 /\ queue'[c][i] = x
      OBVIOUS
  <2>1. CASE c = b
    <3>1. i \in 1..(Len(queue[b]) + 1)
        BY <2>1, <1>5
    <3>2. i \in 1..Len(queue[b]) \/ i = Len(queue[b]) + 1
        BY <3>1, <1>5
    <3> QED BY <3>2, <2>1, <1>5
  <2>2. CASE c # b
      BY <2>2, <1>4
  <2> QED BY <2>1, <2>2
<1>8. QueueOnce'
  <2> SUFFICES ASSUME NEW c \in Bands, NEW d \in Bands,
                      NEW i \in 1..Len(queue'[c]), NEW j \in 1..Len(queue'[d]),
                      queue'[c][i] = queue'[d][j]
               PROVE  c = d /\ i = j
      BY DEF QueueOnce
  <2>1. \/ i \in 1..Len(queue[c]) /\ queue'[c][i] = queue[c][i]
        \/ c = b /\ i = Len(queue[b]) + 1 /\ queue'[c][i] = x
      BY <1>7
  <2>2. \/ j \in 1..Len(queue[d]) /\ queue'[d][j] = queue[d][j]
        \/ d = b /\ j = Len(queue[b]) + 1 /\ queue'[d][j] = x
      BY <1>7
  <2>3. CASE i \in 1..Len(queue[c]) /\ j \in 1..Len(queue[d])
    <3>1. c = b /\ i = Len(queue[b]) + 1 => i \notin 1..Len(queue[c])
        BY <1>5
    <3>2. d = b /\ j = Len(queue[b]) + 1 => j \notin 1..Len(queue[d])
        BY <1>5
    <3>3. queue[c][i] = queue[d][j]
        BY <2>1, <2>2, <2>3, <3>1, <3>2, Zenon
    <3> QED BY <3>3, <2>3, SMTT(20) DEF QueueOnce
  <2>4. CASE i \notin 1..Len(queue[c])
    <3>1. c = b /\ i = Len(queue[b]) + 1 /\ queue'[c][i] = x
        BY <2>1, <2>4
    <3>2. d = b /\ j = Len(queue[b]) + 1
        BY <3>1, <2>2, <1>6
    <3> QED BY <3>1, <3>2
  <2>5. CASE j \notin 1..Len(queue[d])
    <3>1. d = b /\ j = Len(queue[b]) + 1 /\ queue'[d][j] = x
        BY <2>2, <2>5
    <3>2. c = b /\ i = Len(queue[b]) + 1
        BY <3>1, <2>1, <1>6
    <3> QED BY <3>1, <3>2
  <2> QED BY <2>3, <2>4, <2>5, Zenon
<1>9. ASSUME NEW y PROVE Queued(y)' <=> Queued(y) \/ y = x
  <2>1. Queued(y)' => Queued(y) \/ y = x
      BY <1>7, Zenon DEF Queued
  <2>2. y = x => Queued(y)'
      BY <1>1, <1>5 DEF Queued
  <2>3. ASSUME NEW c \in Bands, NEW i \in 1..Len(queue[c]), queue[c][i] = y
        PROVE  Queued(y)'
    <3>1. c = b => i \in 1..Len(queue'[c]) /\ queue'[c][i] = y
      <4> SUFFICES ASSUME c = b PROVE i \in 1..Len(queue'[b]) /\ queue'[b][i] = y
          OBVIOUS
      <4>1. i \in 1..Len(queue[b]) /\ queue[b][i] = y
          BY <2>3, Zenon
      <4> QED BY <4>1, <1>5
    <3>2. c # b => i \in 1..Len(queue'[c]) /\ queue'[c][i] = y
        BY <1>4, <2>3
    <3> QED BY <3>1, <3>2, Zenon DEF Queued
  <2> QED BY <2>1, <2>2, <2>3 DEF Queued
<1> QED BY <1>8, <1>9

\* Executor::next() takes exactly what it hands out from the queue.
LEMMA TakeNextPlace ==
    ASSUME BandAssumption, queue \in [Bands -> Seq(Execs)], QueueOnce,
           TakeNext, ~Empty
    PROVE  /\ QueueOnce' /\ Queued(current')
           /\ \A y : Queued(y)' <=> Queued(y) /\ y # current'
<1> DEFINE b == FirstBand
<1>1. b \in Bands /\ queue[b] # << >>
    BY FirstBandExists
<1>2. current' = Head(queue[b]) /\ queue' = [queue EXCEPT ![b] = Tail(queue[b])]
    BY DEF TakeNext
<1> HIDE DEF b
<1>3. queue[b] \in Seq(Execs)
    BY <1>1
<1>4. /\ queue'[b] = Tail(queue[b])
      /\ \A c \in Bands : c # b => queue'[c] = queue[c]
    BY <1>1, <1>2
<1>5. Len(queue[b]) \in Nat \ {0} /\ queue[b][1] = current'
    BY <1>1, <1>2, <1>3
<1>6. /\ Len(queue'[b]) = Len(queue[b]) - 1
      /\ \A i \in 1..Len(queue'[b]) : queue'[b][i] = queue[b][i + 1]
    BY <1>1, <1>3, <1>4
<1> DEFINE old(c, i) == IF c = b THEN i + 1 ELSE i
<1>7. \A c \in Bands : \A i \in 1..Len(queue'[c]) :
          /\ old(c, i) \in 1..Len(queue[c])
          /\ queue'[c][i] = queue[c][old(c, i)]
          /\ c = b => old(c, i) # 1
  <2> SUFFICES ASSUME NEW c \in Bands, NEW i \in 1..Len(queue'[c])
               PROVE  /\ old(c, i) \in 1..Len(queue[c])
                      /\ queue'[c][i] = queue[c][old(c, i)]
                      /\ c = b => old(c, i) # 1
      OBVIOUS
  <2>1. CASE c = b
    <3>1. i \in 1..(Len(queue[b]) - 1) /\ old(c, i) = i + 1
        BY <2>1, <1>6
    <3>2. i + 1 \in 1..Len(queue[b]) /\ i + 1 # 1
        BY <3>1, <1>5
    <3>3. queue'[b][i] = queue[b][i + 1]
        BY <2>1, <1>6
    <3> QED BY <2>1, <3>1, <3>2, <3>3
  <2>2. CASE c # b
      BY <2>2, <1>4
  <2> QED BY <2>1, <2>2
<1>8. \A c \in Bands : \A i, j \in 1..Len(queue'[c]) :
          old(c, i) = old(c, j) => i = j
    OBVIOUS
<1>9. \A c \in Bands : \A i \in 1..Len(queue[c]) :
          \/ c = b /\ i = 1
          \/ \E k \in 1..Len(queue'[c]) : old(c, k) = i
  <2> SUFFICES ASSUME NEW c \in Bands, NEW i \in 1..Len(queue[c]), ~(c = b /\ i = 1)
               PROVE  \E k \in 1..Len(queue'[c]) : old(c, k) = i
      OBVIOUS
  <2>1. CASE c = b
    <3>1. i - 1 \in 1..Len(queue'[c]) /\ old(c, i - 1) = i
        BY <2>1, <1>5, <1>6
    <3> QED BY <3>1
  <2>2. CASE c # b
      BY <2>2, <1>4
  <2> QED BY <2>1, <2>2
<1>10. 1 \in 1..Len(queue[b])
    BY <1>5
<1> HIDE DEF old
<1>11. QueueOnce'
  <2> SUFFICES ASSUME NEW c \in Bands, NEW d \in Bands,
                      NEW i \in 1..Len(queue'[c]), NEW j \in 1..Len(queue'[d]),
                      queue'[c][i] = queue'[d][j]
               PROVE  c = d /\ i = j
      BY DEF QueueOnce
  <2>1. /\ old(c, i) \in 1..Len(queue[c]) /\ old(d, j) \in 1..Len(queue[d])
        /\ queue[c][old(c, i)] = queue[d][old(d, j)]
      BY <1>7
  <2>2. c = d /\ old(c, i) = old(d, j)
      BY <2>1, Zenon DEF QueueOnce
  <2> QED BY <2>2, <1>8, Zenon
<1>12. Queued(current')
    BY <1>1, <1>5, <1>10 DEF Queued
<1>13. ASSUME NEW y PROVE Queued(y)' <=> Queued(y) /\ y # current'
  <2>1. ASSUME NEW c \in Bands, NEW i \in 1..Len(queue'[c]), queue'[c][i] = y
        PROVE  Queued(y) /\ y # current'
    <3>1. old(c, i) \in 1..Len(queue[c]) /\ queue[c][old(c, i)] = y
        BY <1>7, <2>1
    <3>2. y # current'
      <4> SUFFICES ASSUME y = current' PROVE FALSE
          OBVIOUS
      <4>1. queue[c][old(c, i)] = queue[b][1]
          BY <3>1, <1>5
      <4>2. \A h \in 1..Len(queue[c]), j \in 1..Len(queue[b]) :
                queue[c][h] = queue[b][j] => c = b /\ h = j
          BY <1>1, Zenon DEF QueueOnce
      <4>3. c = b /\ old(c, i) = 1
          BY <4>1, <4>2, <3>1, <1>10, Zenon
      <4>4. c = b => old(c, i) # 1
          BY <1>7, Zenon
      <4> QED BY <4>3, <4>4
    <3> QED BY <3>1, <3>2 DEF Queued
  <2>2. ASSUME NEW c \in Bands, NEW i \in 1..Len(queue[c]), queue[c][i] = y,
               y # current'
        PROVE  Queued(y)'
    <3>1. ~(c = b /\ i = 1)
        BY <2>2, <1>5
    <3>2. PICK k \in 1..Len(queue'[c]) : old(c, k) = i
        BY <3>1, <1>9
    <3>3. queue'[c][k] = y
        BY <3>2, <1>7, <2>2
    <3> QED BY <3>3, Zenon DEF Queued
  <2> QED BY <2>1, <2>2 DEF Queued
<1> QED BY <1>11, <1>12, <1>13

\* A list without its first timer.
LEMMA TailPlace ==
    ASSUME NEW l \in Seq(Timers), l # << >>, Once(l)
    PROVE  /\ Once(Tail(l)) /\ In(l, Head(l))
           /\ \A y : In(Tail(l), y) <=> In(l, y) /\ y # Head(l)
<1>1. Len(l) \in Nat \ {0} /\ Head(l) = l[1]
    OBVIOUS
<1>2. /\ Len(Tail(l)) = Len(l) - 1
      /\ \A i \in 1..(Len(l) - 1) : Tail(l)[i] = l[i + 1]
    OBVIOUS
<1> DEFINE r == Tail(l)
<1>3. Len(r) = Len(l) - 1 /\ \A i \in 1..Len(r) : r[i] = l[i + 1]
    BY <1>2
<1> HIDE DEF r
<1>4. Once(r)
    BY <1>1, <1>3 DEF Once
<1>5. In(l, Head(l))
    BY <1>1 DEF In
<1>6. ASSUME NEW y PROVE In(r, y) <=> In(l, y) /\ y # Head(l)
  <2>1. ASSUME NEW i \in 1..Len(r), r[i] = y PROVE In(l, y) /\ y # Head(l)
    <3>1. i + 1 \in 1..Len(l) /\ l[i + 1] = y /\ i + 1 # 1 /\ 1 \in 1..Len(l)
        BY <2>1, <1>1, <1>3
    <3> QED BY <3>1, <1>1 DEF In, Once
  <2>2. ASSUME NEW i \in 1..Len(l), l[i] = y, y # Head(l) PROVE In(r, y)
    <3>1. i - 1 \in 1..Len(r) /\ r[i - 1] = y
        BY <2>2, <1>1, <1>3
    <3> QED BY <3>1 DEF In
  <2> QED BY <2>1, <2>2 DEF In
<1> QED BY <1>4, <1>5, <1>6 DEF r

\* insert_locked() opens a gap at the place it finds and moves nothing else.
LEMMA ListInsertShape ==
    ASSUME NEW l \in Seq(Timers), NEW w \in [Timers -> Int], NEW tm \in Timers
    PROVE  LET p == InsertPos(l, w, tm)
               r == ListInsert(l, w, tm)
           IN  /\ Len(r) = Len(l) + 1
               /\ r[p] = tm
               /\ \A i \in 1..(p - 1) : r[i] = l[i]
               /\ \A i \in (p + 1)..(Len(l) + 1) : r[i] = l[i - 1]
<1> DEFINE p == InsertPos(l, w, tm)
           r == ListInsert(l, w, tm)
<1>0. p \in 1..(Len(l) + 1) /\ Len(l) \in Nat
  <2>1. InsertPos(l, w, tm) \in 1..(Len(l) + 1)
      BY InsertPosType, Zenon
  <2> QED BY <2>1
<1>a. r = SubSeq(l, 1, p - 1) \o <<tm>> \o SubSeq(l, p, Len(l))
    BY DEF ListInsert
<1> HIDE DEF p, r
<1> DEFINE u == SubSeq(l, 1, p - 1)
           v == SubSeq(l, p, Len(l))
<1>1. /\ u \in Seq(Timers) /\ Len(u) = p - 1
      /\ \A i \in 1..(p - 1) : u[i] = l[i]
    BY <1>0
<1>2. /\ v \in Seq(Timers) /\ Len(v) = Len(l) - p + 1
      /\ \A i \in 1..(Len(l) - p + 1) : v[i] = l[p + i - 1]
    BY <1>0
<1>3. r = u \o <<tm>> \o v
    BY <1>a
<1> HIDE DEF u, v
<1>4. /\ u \o <<tm>> \in Seq(Timers) /\ Len(u \o <<tm>>) = p
      /\ (u \o <<tm>>)[p] = tm
      /\ \A i \in 1..(p - 1) : (u \o <<tm>>)[i] = l[i]
    BY <1>1, <1>0
<1> DEFINE z == u \o <<tm>>
<1>5. /\ z \in Seq(Timers) /\ Len(z) = p /\ z[p] = tm
      /\ \A i \in 1..(p - 1) : z[i] = l[i]
    BY <1>4
<1>6. r = z \o v
    BY <1>3
<1> HIDE DEF z
<1>7. Len(r) = Len(l) + 1
  <2>1. z \in Seq(Timers) /\ v \in Seq(Timers)
      BY <1>2, <1>5
  <2>2. Len(z \o v) = Len(z) + Len(v)
      BY <2>1
  <2>3. Len(z \o v) = p + (Len(l) - p + 1)
      BY <2>2, <1>2, <1>5, Zenon
  <2> QED BY <2>3, <1>6, <1>0
<1>8. \A i \in 1..p : r[i] = z[i]
    BY <1>2, <1>5, <1>6, <1>0
<1>9. ASSUME NEW i \in (p + 1)..(Len(l) + 1) PROVE r[i] = l[i - 1]
  <2>1. r[i] = v[i - p]
      BY <1>2, <1>5, <1>6, <1>0
  <2>2. i - p \in 1..(Len(l) - p + 1) /\ p + (i - p) - 1 = i - 1
      BY <1>0
  <2> QED BY <2>1, <2>2, <1>2
<1> QED BY <1>5, <1>7, <1>8, <1>9, <1>0 DEF p, r

\* insert_locked() puts exactly its argument in the list, once.
LEMMA ListInsertPlace ==
    ASSUME NEW l \in Seq(Timers), NEW w \in [Timers -> Int], NEW tm \in Timers,
           Once(l), ~In(l, tm)
    PROVE  /\ Once(ListInsert(l, w, tm))
           /\ \A y : In(ListInsert(l, w, tm), y) <=> In(l, y) \/ y = tm
<1> DEFINE p == InsertPos(l, w, tm)
           r == ListInsert(l, w, tm)
<1>1. p \in 1..(Len(l) + 1) /\ Len(l) \in Nat
  <2>1. InsertPos(l, w, tm) \in 1..(Len(l) + 1)
      BY InsertPosType, Zenon
  <2> QED BY <2>1
<1> HIDE DEF p, r
<1>3. /\ Len(r) = Len(l) + 1
      /\ r[p] = tm
      /\ \A i \in 1..(p - 1) : r[i] = l[i]
      /\ \A i \in (p + 1)..(Len(l) + 1) : r[i] = l[i - 1]
    BY ListInsertShape, Zenon DEF p, r
<1>4. \A i \in 1..Len(r) :
          \/ i \in 1..(p - 1) /\ i \in 1..Len(l) /\ r[i] = l[i]
          \/ i = p /\ r[i] = tm
          \/ i \in (p + 1)..(Len(l) + 1) /\ i - 1 \in 1..Len(l) /\ r[i] = l[i - 1]
    BY <1>1, <1>3
<1>5. \A i \in 1..Len(l) : l[i] # tm
    BY DEF In
<1>6. Once(r)
  <2> SUFFICES ASSUME NEW i \in 1..Len(r), NEW j \in 1..Len(r), r[i] = r[j]
               PROVE  i = j
      BY DEF Once
  <2>1. CASE i = p
    <3>1. r[j] = tm /\ ~(j \in 1..Len(l) /\ l[j] = tm) /\ ~(j - 1 \in 1..Len(l) /\ l[j - 1] = tm)
        BY <2>1, <1>3, <1>5
    <3> QED BY <3>1, <2>1, <1>4
  <2>2. CASE j = p
    <3>1. r[i] = tm /\ ~(i \in 1..Len(l) /\ l[i] = tm) /\ ~(i - 1 \in 1..Len(l) /\ l[i - 1] = tm)
        BY <2>2, <1>3, <1>5
    <3> QED BY <3>1, <2>2, <1>4
  <2>3. CASE i # p /\ j # p
    <3> DEFINE a == IF i < p THEN i ELSE i - 1
               b == IF j < p THEN j ELSE j - 1
    <3>1. a \in 1..Len(l) /\ r[i] = l[a]
        BY <2>3, <1>1, <1>4
    <3>2. b \in 1..Len(l) /\ r[j] = l[b]
        BY <2>3, <1>1, <1>4
    <3>3. a = b
        BY <3>1, <3>2 DEF Once
    <3> QED BY <3>3, <2>3, <1>1, <1>3
  <2> QED BY <2>1, <2>2, <2>3
<1>7. ASSUME NEW y PROVE In(r, y) <=> In(l, y) \/ y = tm
  <2>1. In(r, y) => In(l, y) \/ y = tm
      BY <1>4 DEF In
  <2>2. y = tm => In(r, y)
      BY <1>1, <1>3 DEF In
  <2>3. ASSUME NEW i \in 1..Len(l), l[i] = y PROVE In(r, y)
    <3>1. CASE i < p
      <4>1. i \in 1..Len(r) /\ r[i] = y
          BY <3>1, <2>3, <1>1, <1>3
      <4> QED BY <4>1 DEF In
    <3>2. CASE ~(i < p)
      <4>1. i + 1 \in (p + 1)..(Len(l) + 1) /\ i + 1 \in 1..Len(r) /\ i + 1 - 1 = i
          BY <3>2, <1>1, <1>3
      <4>2. r[i + 1] = y
          BY <4>1, <2>3, <1>3
      <4> QED BY <4>1, <4>2 DEF In
    <3> QED BY <3>1, <3>2
  <2> QED BY <2>1, <2>2, <2>3 DEF In
<1> QED BY <1>6, <1>7 DEF r

\* remove_locked() closes the gap that its argument leaves and moves nothing
\* else.
LEMMA ListRemoveShape ==
    ASSUME NEW l \in Seq(Timers), NEW tm, In(l, tm)
    PROVE  LET r == ListRemove(l, tm)
           IN  \E p \in 1..Len(l) :
                  /\ l[p] = tm
                  /\ Len(r) = Len(l) - 1
                  /\ \A i \in 1..(p - 1) : r[i] = l[i]
                  /\ \A i \in p..(Len(l) - 1) : r[i] = l[i + 1]
<1> DEFINE p == CHOOSE k \in 1..Len(l) : l[k] = tm
           r == ListRemove(l, tm)
<1>a. p \in 1..Len(l) /\ l[p] = tm
    BY DEF In
<1>b. r = SubSeq(l, 1, p - 1) \o SubSeq(l, p + 1, Len(l))
    BY DEF ListRemove, In
<1> HIDE DEF p, r
<1> DEFINE u == SubSeq(l, 1, p - 1)
           v == SubSeq(l, p + 1, Len(l))
<1>1. /\ u \in Seq(Timers) /\ Len(u) = p - 1
      /\ \A i \in 1..(p - 1) : u[i] = l[i]
    BY <1>a
<1>2. /\ v \in Seq(Timers) /\ Len(v) = Len(l) - p
      /\ \A i \in 1..(Len(l) - p) : v[i] = l[p + i]
    BY <1>a
<1>3. r = u \o v
    BY <1>b
<1> HIDE DEF u, v
<1>4. Len(r) = Len(l) - 1
  <2>0. u \in Seq(Timers) /\ v \in Seq(Timers)
      BY <1>1, <1>2
  <2>1. Len(u \o v) = Len(u) + Len(v)
      BY <2>0
  <2>2. Len(l) \in Nat
      OBVIOUS
  <2>3. (p - 1) + (Len(l) - p) = Len(l) - 1
      BY <2>2, <1>a
  <2>4. Len(u) + Len(v) = (p - 1) + (Len(l) - p)
      BY <1>1, <1>2, Zenon
  <2> QED BY <2>1, <2>3, <2>4, <1>3, Zenon
<1>5. \A i \in 1..(p - 1) : r[i] = u[i]
    BY <1>1, <1>2, <1>3, <1>a
<1>6. ASSUME NEW i \in p..(Len(l) - 1) PROVE r[i] = l[i + 1]
  <2>1. r[i] = v[i - (p - 1)]
      BY <1>1, <1>2, <1>3, <1>a
  <2>2. i - (p - 1) \in 1..(Len(l) - p) /\ p + (i - (p - 1)) = i + 1
      BY <1>a
  <2> QED BY <2>1, <2>2, <1>2
<1> QED BY <1>a, <1>1, <1>4, <1>5, <1>6 DEF r

\* remove_locked() takes exactly its argument from the list.
LEMMA ListRemovePlace ==
    ASSUME NEW l \in Seq(Timers), NEW tm, Once(l)
    PROVE  /\ Once(ListRemove(l, tm))
           /\ \A y : In(ListRemove(l, tm), y) <=> In(l, y) /\ y # tm
<1>1. CASE ~In(l, tm)
    BY <1>1 DEF ListRemove, In
<1>2. CASE In(l, tm)
  <2> DEFINE r == ListRemove(l, tm)
  <2>3. PICK p \in 1..Len(l) :
           /\ l[p] = tm
           /\ Len(r) = Len(l) - 1
           /\ \A i \in 1..(p - 1) : r[i] = l[i]
           /\ \A i \in p..(Len(l) - 1) : r[i] = l[i + 1]
      BY <1>2, ListRemoveShape
  <2>1. p \in 1..Len(l) /\ l[p] = tm
      BY <2>3
  <2> HIDE DEF r
  <2> DEFINE old(i) == IF i < p THEN i ELSE i + 1
  <2>4. \A i \in 1..Len(r) :
            old(i) \in 1..Len(l) /\ old(i) # p /\ r[i] = l[old(i)]
      BY <2>1, <2>3
  <2>5. \A i, j \in 1..Len(r) : old(i) = old(j) => i = j
      BY <2>1, <2>3
  <2>6. \A k \in 1..Len(l) : k # p => \E i \in 1..Len(r) : old(i) = k
    <3> SUFFICES ASSUME NEW k \in 1..Len(l), k # p
                 PROVE  \E i \in 1..Len(r) : old(i) = k
        OBVIOUS
    <3>1. CASE k < p
      <4>1. k \in 1..Len(r) /\ old(k) = k
          BY <3>1, <2>1, <2>3
      <4> QED BY <4>1
    <3>2. CASE ~(k < p)
      <4>1. k - 1 \in 1..Len(r) /\ old(k - 1) = k
          BY <3>2, <2>1, <2>3
      <4> QED BY <4>1
    <3> QED BY <3>1, <3>2
  <2> HIDE DEF old
  <2>7. Once(r)
      BY <2>4, <2>5 DEF Once
  <2>8. ASSUME NEW y PROVE In(r, y) <=> In(l, y) /\ y # tm
    <3>1. ASSUME NEW i \in 1..Len(r), r[i] = y PROVE In(l, y) /\ y # tm
        BY <3>1, <2>1, <2>4 DEF In, Once
    <3>2. ASSUME NEW k \in 1..Len(l), l[k] = y, y # tm PROVE In(r, y)
      <4>1. PICK i \in 1..Len(r) : old(i) = k
          BY <3>2, <2>1, <2>6
      <4>2. r[i] = y
          BY <4>1, <3>2, <2>4
      <4> QED BY <4>2 DEF In
    <3> QED BY <3>1, <3>2 DEF In
  <2> QED BY <2>7, <2>8 DEF r
<1> QED BY <1>1, <1>2
-----------------------------------------------------------------------------
(***************************************************************************)
(* Nothing is in two places, and the flags tell where things are.  Neither *)
(* InOnePlace nor FlagsTellPlace is inductive alone: start() relies on the *)
(* flags to insert what is not linked, the flags are right because what    *)
(* was inserted was not linked, and ActiveTimers is queued once because    *)
(* notify() runs under lock_.                                              *)
(***************************************************************************)
Running(x) == pc = "run" /\ current = x
Relisting(tm) == pc = "relist" /\ current = tm
Arming(tm) == \E t \in Threads : tpc[t] = "lock" /\ tarm[t] = tm

\* Who is inside a critical section of lock_ holds it.
LockHeld ==
    /\ pc = "expire" => lock = Exe
    /\ \A t \in Threads : tpc[t] \in {"exchange", "insert"} => lock = t

NotifyInv ==
    /\ isPending <=> \/ Queued(ActiveTimers)
                     \/ Running(ActiveTimers)
                     \/ \E t \in Threads : tpc[t] = "insert"
    /\ \A t \in Threads :
          tpc[t] = "insert" => ~Queued(ActiveTimers) /\ ~Running(ActiveTimers)
    /\ Running(ActiveTimers) => ~Queued(ActiveTimers)

TimerFlags ==
    /\ \A tm \in Timers : tm \in isExpired <=> Queued(tm) \/ Running(tm)
    /\ \A tm \in Timers : tm \in isActive <=> Listed(tm) \/ Relisting(tm) \/ Arming(tm)
    /\ \A tm \in Timers : ~(tm \in isActive /\ tm \in isExpired)
    /\ \A tm \in Timers : ~(Queued(tm) /\ Running(tm))
    /\ \A t \in Threads : tpc[t] = "lock" =>
          tarm[t] \in ThreadTimers /\ ~Listed(tarm[t]) /\ ~Relisting(tarm[t])
    /\ \A t, u \in Threads :
          tpc[t] = "lock" /\ tpc[u] = "lock" /\ tarm[t] = tarm[u] => t = u

PlaceInv == QueueOnce /\ Once(list) /\ LockHeld /\ NotifyInv /\ TimerFlags

\* Nothing is linked at the start and no flag is set.
LEMMA PlaceInit == Init => PlaceInv
<1> SUFFICES ASSUME Init PROVE PlaceInv
    OBVIOUS
<1>1. \A b \in Bands : queue[b] = << >>
    BY DEF Init
<1>2. QueueOnce /\ \A y : ~Queued(y)
    BY <1>1 DEF QueueOnce, Queued
<1>3. Once(list) /\ \A y : ~Listed(y)
    BY DEF Init, Once, Listed
<1>4. pc \notin {"expire", "run", "relist"} /\ \A t \in Threads : tpc[t] = "idle"
    BY DEF Init
<1> QED BY <1>2, <1>3, <1>4
        DEF Init, PlaceInv, LockHeld, NotifyInv, TimerFlags, Running, Relisting, Arming

\* Every step of the executor and of the threads leaves each thing in one
\* place, and the flags in agreement with it.
LEMMA PlaceStep == TypeInv /\ PlaceInv /\ [Next]_vars => PlaceInv'
<1> SUFFICES ASSUME TypeInv, PlaceInv, [Next]_vars PROVE PlaceInv'
    OBVIOUS
<1> USE BandAssumption, NameAssumption
    DEF NameAssumption, TypeInv, TypeOK, CallsInProgress, qVars, timerVars, wakeVars,
        loopVars, thrVars, PlaceInv, LockHeld, NotifyInv, TimerFlags, Running,
        Relisting, Arming
<1>a. queue' = queue => QueueOnce' /\ \A y : Queued(y)' <=> Queued(y)
    BY DEF QueueOnce, Queued
<1>b. list' = list => Once(list') /\ \A y : Listed(y)' <=> Listed(y)
    BY DEF Listed
<1>c. ASSUME NEW x \in Execs, queue' = Insert(x), ~Queued(x)
      PROVE  QueueOnce' /\ \A y : Queued(y)' <=> Queued(y) \/ y = x
    BY <1>c, InsertPlace
<1>d. \A y : (Listed(y) <=> In(list, y)) /\ (Listed(y)' <=> In(list', y))
    BY DEF Listed, In
<1>1. CASE EntryStart
    BY <1>1, <1>a, <1>b DEF EntryStart
<1>2. CASE LoopTop
  <2>1. CASE queue' = queue /\ pc' # "run"
      BY <2>1, <1>2, <1>a, <1>b DEF LoopTop
  <2>2. CASE TakeNext /\ ~Empty /\ pc' = "run"
    <3>1. /\ QueueOnce' /\ Queued(current')
          /\ \A y : Queued(y)' <=> Queued(y) /\ y # current'
        BY <2>2, TakeNextPlace
    <3> QED BY <2>2, <3>1, <1>2, <1>b DEF LoopTop
  <2> QED BY <2>1, <2>2, <1>2 DEF LoopTop, TakeNext
<1>3. CASE TimersLock
    BY <1>3, <1>a, <1>b DEF TimersLock
<1>4. CASE ExpireTimer
  <2> DEFINE tm == Head(list)
  <2>1. list # << >> /\ tm \in Timers /\ list' = Tail(list)
      BY <1>4 DEF ExpireTimer, HeadExpired
  <2>2. /\ Once(list') /\ Listed(tm)
        /\ \A y : Listed(y)' <=> Listed(y) /\ y # tm
      BY <2>1, <1>d, TailPlace
  <2>3. tm \in isActive /\ tm \notin isExpired /\ ~Queued(tm)
      BY <2>1, <2>2
  <2>4. QueueOnce' /\ \A y : Queued(y)' <=> Queued(y) \/ y = tm
      BY <2>1, <2>3, <1>4, <1>c DEF ExpireTimer
  <2>5. isActive' = isActive \ {tm} /\ isExpired' = isExpired \cup {tm}
      BY <1>4 DEF ExpireTimer
  <2> HIDE DEF tm
  <2> QED BY <1>4, <2>1, <2>2, <2>3, <2>4, <2>5, SMTT(20) DEF ExpireTimer
<1>5. CASE TimersUnlock
    BY <1>5, <1>a, <1>b DEF TimersUnlock, HeadExpired
<1>6. CASE ClearWakeup
    BY <1>6, <1>a, <1>b DEF ClearWakeup
<1>7. CASE CheckEmpty
    BY <1>7, <1>a, <1>b DEF CheckEmpty
<1>8. CASE SelectEnter
    BY <1>8, <1>a, <1>b DEF SelectEnter
<1>9. CASE SemaphoreGet
    BY <1>9, <1>a, <1>b DEF SemaphoreGet
<1>10. CASE SemaphoreWake
    BY <1>10, <1>a, <1>b DEF SemaphoreWake
<1>11. CASE SelectLeave
    BY <1>11, <1>a, <1>b DEF SelectLeave
<1>12. CASE NextAfterSelect
  <2>1. CASE queue' = queue /\ pc' # "run"
      BY <2>1, <1>12, <1>a, <1>b DEF NextAfterSelect
  <2>2. CASE TakeNext /\ ~Empty /\ pc' = "run"
    <3>1. /\ QueueOnce' /\ Queued(current')
          /\ \A y : Queued(y)' <=> Queued(y) /\ y # current'
        BY <2>2, TakeNextPlace
    <3> QED BY <2>2, <3>1, <1>12, <1>b DEF NextAfterSelect
  <2> QED BY <2>1, <2>2, <1>12 DEF NextAfterSelect, TakeNext
<1>13. CASE RunExit
    BY <1>13, <1>a, <1>b DEF RunExit
<1>14. CASE EntryReturn
    BY <1>14, <1>a, <1>b DEF EntryReturn
<1>15. CASE RunActiveTimers
    BY <1>15, <1>a, <1>b DEF RunActiveTimers
<1>16. CASE RunJobReturn
    BY <1>16, <1>a, <1>b DEF RunJobReturn
<1>17. ASSUME NEW x \in Jobs, RunJobAdd(x) PROVE PlaceInv'
    BY <1>17, <1>b, <1>c DEF RunJobAdd, SelfAdd
<1>18. ASSUME NEW tm \in FlowTimers, NEW p \in Periods, RunJobStart(tm, p) PROVE PlaceInv'
    BY <1>18, SMTT(20), <1>a, <1>b DEF RunJobStart, StartOnExecutor
<1>19. ASSUME NEW tm \in FlowTimers, RunJobRestart(tm) PROVE PlaceInv'
    BY <1>19, <1>a, <1>b DEF RunJobRestart
<1>20. ASSUME NEW tm \in FlowTimers, RunJobTrigger(tm) PROVE PlaceInv'
    BY <1>20, <1>a, <1>b DEF RunJobTrigger
<1>21. ASSUME NEW x \in Jobs \cup {NoExec}, RunTimerOnce(x) PROVE PlaceInv'
  <2>1. CASE x = NoExec
      BY <2>1, <1>21, <1>a, <1>b DEF RunTimerOnce
  <2>2. CASE x \in Jobs
    <3>1. ~Queued(x) /\ queue' = Insert(x)
        BY <2>2, <1>21 DEF RunTimerOnce, SelfAdd
    <3>2. QueueOnce' /\ \A y : Queued(y)' <=> Queued(y) \/ y = x
        BY <2>2, <3>1, <1>c
    <3> QED BY <2>2, <3>2, <1>21, <1>b, SMTT(20) DEF RunTimerOnce
  <2> QED BY <2>1, <2>2
<1>22. CASE RunTimerRestart
    BY <1>22, <1>a, <1>b DEF RunTimerRestart
<1>23. ASSUME NEW p \in Periods, RunTimerNewPeriod(p) PROVE PlaceInv'
    BY <1>23, <1>a, <1>b DEF RunTimerNewPeriod
<1>24. CASE Relist
  <2>1. current \in Timers /\ current \in isActive /\ ~Queued(current)
      BY <1>24 DEF Relist
  <2> DEFINE r == ListRemove(list, current)
  <2>2. r \in Seq(Timers) /\ Once(r) /\ \A y : In(r, y) <=> In(list, y) /\ y # current
      BY ListRemoveType, ListRemovePlace
  <2>3. list' = ListInsert(r, when, current)
      BY <1>24 DEF Relist
  <2> HIDE DEF r
  <2>4. Once(list') /\ \A y : In(list', y) <=> In(r, y) \/ y = current
      BY <2>1, <2>2, <2>3, ListInsertPlace
  <2>5. \A y : Listed(y)' <=> Listed(y) \/ y = current
      BY <2>2, <2>4, <1>d
  <2>6. CASE isPending
      BY <2>1, <2>4, <2>5, <2>6, <1>24, <1>a DEF Relist, SelfNotify
  <2>7. CASE ~isPending
    <3>1. QueueOnce' /\ \A y : Queued(y)' <=> Queued(y) \/ y = ActiveTimers
        BY <2>7, <1>24, <1>c DEF Relist, SelfNotify, SelfAdd
    <3> QED BY <2>1, <2>4, <2>5, <2>7, <3>1, <1>24 DEF Relist, SelfNotify
  <2> QED BY <2>6, <2>7
<1>25. ASSUME NEW t \in Threads, ThreadListInsert(t) PROVE PlaceInv'
  <2> DEFINE tm == tarm[t]
  <2>1. tm \in Timers /\ ~Listed(tm) /\ list' = ListInsert(list, when, tm)
      BY <1>25 DEF ThreadListInsert
  <2> HIDE DEF tm
  <2>2. ~In(list, tm)
      BY <2>1, <1>d, Zenon
  <2>3. Once(list') /\ \A y : In(list', y) <=> In(list, y) \/ y = tm
      BY <2>1, <2>2, ListInsertPlace
  <2>4. \A y : Listed(y)' <=> Listed(y) \/ y = tm
      BY <2>3, <1>d
  <2> QED BY <2>1, <2>3, <2>4, <1>25, <1>a DEF ThreadListInsert, tm
<1>26. ASSUME NEW t \in Threads, ThreadExchange(t) PROVE PlaceInv'
    BY <1>26, <1>a, <1>b DEF ThreadExchange
<1>27. ASSUME NEW t \in Threads, ThreadNotifyInsert(t) PROVE PlaceInv'
  <2>1. QueueOnce' /\ \A y : Queued(y)' <=> Queued(y) \/ y = ActiveTimers
      BY <1>27, <1>c DEF ThreadNotifyInsert
  <2> QED BY <1>27, <2>1, <1>b DEF ThreadNotifyInsert
<1>28. ASSUME NEW t \in Threads, ThreadWakeup(t) PROVE PlaceInv'
  <2>1. /\ QueueOnce' /\ Once(list')
        /\ \A y : (Queued(y)' <=> Queued(y)) /\ (Listed(y)' <=> Listed(y))
      BY <1>28, <1>a, <1>b DEF ThreadWakeup
  <2>2. /\ \A u \in Threads : u # t => tpc'[u] = tpc[u]
        /\ tpc[t] = "wakeup" /\ tpc'[t] \in {"post", "join", "idle"}
        /\ lock' = lock \/ lock = t
      BY <1>28 DEF ThreadWakeup, AfterAdd
  <2>3. UNCHANGED <<isPending, isActive, isExpired, pc, current>>
      BY <1>28 DEF ThreadWakeup
  <2>4. \A u \in Threads : /\ tpc'[u] = "lock" <=> tpc[u] = "lock"
                           /\ tpc'[u] = "insert" <=> tpc[u] = "insert"
                           /\ tpc'[u] = "exchange" <=> tpc[u] = "exchange"
                           /\ tpc[u] = "lock" => tarm'[u] = tarm[u]
    <3>1. \A u \in Threads : u # t => tarm'[u] = tarm[u]
        BY <1>28 DEF ThreadWakeup, AfterAdd
    <3> QED BY <2>2, <3>1
  <2>5. LockHeld'
      BY <2>2, <2>3, <2>4
  <2>6. NotifyInv'
      BY <2>1, <2>3, <2>4
  <2>7. TimerFlags'
    <3>1. \A tm \in Timers : Arming(tm)' <=> Arming(tm)
        BY <2>4
    <3>2. \A u, v \in Threads :
              tpc'[u] = "lock" /\ tpc'[v] = "lock" /\ tarm'[u] = tarm'[v] => u = v
        BY <2>4
    <3>3. \A u \in Threads : tpc'[u] = "lock" =>
              (tarm[u] \in ThreadTimers /\ ~Listed(tarm[u]) /\ ~Relisting(tarm[u]))'
        BY <2>1, <2>3, <2>4
    <3> HIDE DEF Arming
    <3> QED BY <2>1, <2>3, <3>1, <3>2, <3>3
  <2> QED BY <2>1, <2>5, <2>6, <2>7
<1>29. ASSUME NEW t \in Threads, ThreadPost(t) PROVE PlaceInv'
    BY <1>29, <1>a, <1>b DEF ThreadPost, AfterAdd
<1>30. ASSUME NEW t \in Threads, ThreadJoin(t) PROVE PlaceInv'
    BY <1>30, <1>a, <1>b DEF ThreadJoin
<1>31. ASSUME NEW t \in Threads, NEW x \in Jobs, ThreadAdd(t, x) PROVE PlaceInv'
  <2>1. QueueOnce' /\ \A y : Queued(y)' <=> Queued(y) \/ y = x
      BY <1>31, <1>c DEF ThreadAdd
  <2> QED BY <1>31, <2>1, <1>b DEF ThreadAdd
<1>32. ASSUME NEW t \in Threads, NEW tm \in ThreadTimers, NEW p \in Periods, ThreadStartTimer(t, tm, p) PROVE PlaceInv'
    BY <1>32, <1>a, <1>b DEF ThreadStartTimer
<1>33. ASSUME NEW t \in Threads, ThreadShutdown(t) PROVE PlaceInv'
  <2>1. CASE pc # "start" /\ ~Queued(ExitClosure)
    <3>1. QueueOnce' /\ \A y : Queued(y)' <=> Queued(y) \/ y = ExitClosure
        BY <2>1, <1>33, <1>c DEF ThreadShutdown
    <3>2. /\ \A u \in Threads : u # t => tpc'[u] = tpc[u] /\ tarm'[u] = tarm[u]
          /\ tpc[t] = "idle" /\ tpc'[t] = "wakeup"
        BY <2>1, <1>33 DEF ThreadShutdown
    <3>3. UNCHANGED <<isPending, isActive, isExpired, list, lock, pc, current>>
        BY <1>33 DEF ThreadShutdown
    <3>4. \A u \in Threads : /\ tpc'[u] = "lock" <=> tpc[u] = "lock"
                             /\ tpc'[u] = "insert" <=> tpc[u] = "insert"
                             /\ tpc'[u] = "exchange" <=> tpc[u] = "exchange"
                             /\ tpc[u] = "lock" => tarm'[u] = tarm[u]
        BY <3>2
    <3>5. LockHeld' /\ NotifyInv'
        BY <3>1, <3>3, <3>4
    <3>6. \A tm \in Timers : Arming(tm)' <=> Arming(tm)
        BY <3>4
    <3>7. \A u, v \in Threads :
              tpc'[u] = "lock" /\ tpc'[v] = "lock" /\ tarm'[u] = tarm'[v] => u = v
        BY <3>4
    <3>8. \A tm \in Timers : (Queued(tm)' <=> Queued(tm)) /\ (Listed(tm)' <=> Listed(tm))
        BY <3>1, <3>3, <1>b
    <3>9. TimerFlags'
      <4>1. \A u \in Threads : tpc'[u] = "lock" =>
              (tarm[u] \in ThreadTimers /\ ~Listed(tarm[u]) /\ ~Relisting(tarm[u]))'
          BY <3>3, <3>4, <3>8
      <4> HIDE DEF Arming
      <4> QED BY <3>3, <3>6, <3>7, <3>8, <4>1
    <3> QED BY <3>1, <3>3, <3>5, <3>9, <1>b
  <2>2. CASE ~(pc # "start" /\ ~Queued(ExitClosure))
      BY <1>33, <2>2, <1>a, <1>b DEF ThreadShutdown
  <2> QED BY <2>1, <2>2
<1>34. CASE Tick
    BY <1>34, <1>a, <1>b DEF Tick
<1>35. CASE UNCHANGED vars
    BY <1>35, <1>a, <1>b DEF vars
<1> QED
    BY <1>1, <1>2, <1>3, <1>4, <1>5, <1>6, <1>7, <1>8, <1>9, <1>10, <1>11,
       <1>12, <1>13, <1>14, <1>15, <1>16, <1>17, <1>18, <1>19, <1>20,
       <1>21, <1>22, <1>23, <1>24, <1>25, <1>26, <1>27, <1>28, <1>29,
       <1>30, <1>31, <1>32, <1>33, <1>34, <1>35
       DEF Next, ExecutorStep, ExecutorAction, ThreadContinue, ThreadAction,
           ThreadCall, NewCall

\* For any number of threads, bands and timers and any interleaving, the link
\* of an executable is in at most one list, and at most once.
THEOREM EverythingIsInOnePlace == Spec => []InOnePlace
<1>1. TypeInv /\ PlaceInv => InOnePlace
  <2> SUFFICES ASSUME TypeInv, PlaceInv PROVE InOnePlace
      OBVIOUS
  <2>1. ASSUME NEW i \in 1..Len(list) PROVE ~Queued(list[i])
    <3>1. list[i] \in Timers /\ Listed(list[i])
        BY <2>1 DEF Listed, TypeInv, TypeOK
    <3> QED BY <3>1 DEF PlaceInv, TimerFlags
  <2> QED BY <2>1 DEF InOnePlace, PlaceInv, QueueOnce, Once
<1> QED BY TypeInit, TypeStep, PlaceInit, PlaceStep, <1>1, PTL DEF Spec

\* Whatever the interleaving, isPending_, isActive_ and isExpired_ tell where
\* ActiveTimers and every timer are.
THEOREM FlagsAreRight == Spec => []FlagsTellPlace
<1>1. PlaceInv => FlagsTellPlace
    BY DEF PlaceInv, NotifyInv, TimerFlags, FlagsTellPlace, PendingMeansQueued,
           Running, Relisting, Arming
<1> QED BY TypeInit, TypeStep, PlaceInit, PlaceStep, <1>1, PTL DEF Spec
-----------------------------------------------------------------------------
(***************************************************************************)
(* No early timeout.  A timer is handed over against the snapshot of the   *)
(* clock that get_next_timeout() took; start() and restart() write when_   *)
(* only while the timer is not expired.                                    *)
(***************************************************************************)
SnapshotIsPast == pc = "expire" => now <= clock

EarlyInv == SnapshotIsPast /\ NoEarlyTimeout

\* No timer is expired at the start.
LEMMA EarlyInit == Init => EarlyInv
BY DEF Init, EarlyInv, SnapshotIsPast, NoEarlyTimeout

\* Every step of the executor and of the threads keeps timers from being early.
LEMMA EarlyStep == TypeInv /\ EarlyInv /\ [Next]_vars => EarlyInv'
<1> SUFFICES ASSUME TypeInv, EarlyInv, [Next]_vars PROVE EarlyInv'
    OBVIOUS
<1> USE TimeAssumption
    DEF TimeAssumption, TypeInv, TypeOK, CallsInProgress, qVars, timerVars,
        wakeVars, loopVars, thrVars, EarlyInv, SnapshotIsPast, NoEarlyTimeout
<1>1. CASE EntryStart
    BY <1>1 DEF EntryStart
<1>2. CASE LoopTop
    BY <1>2 DEF LoopTop
<1>3. CASE TimersLock
    BY <1>3 DEF TimersLock
<1>4. CASE ExpireTimer
  <2>1. list # << >> /\ Head(list) \in Timers /\ when[Head(list)] <= now
      BY <1>4 DEF ExpireTimer, HeadExpired
  <2>2. now \in Int /\ clock \in Int /\ when[Head(list)] \in Int
      BY <2>1
  <2>3. when[Head(list)] <= clock
      BY <1>4, <2>1, <2>2 DEF ExpireTimer
  <2> QED BY <1>4, <2>3 DEF ExpireTimer
<1>5. CASE TimersUnlock
    BY <1>5 DEF TimersUnlock, HeadExpired
<1>6. CASE ClearWakeup
    BY <1>6 DEF ClearWakeup
<1>7. CASE CheckEmpty
    BY <1>7 DEF CheckEmpty
<1>8. CASE SelectEnter
    BY <1>8 DEF SelectEnter
<1>9. CASE SemaphoreGet
    BY <1>9 DEF SemaphoreGet
<1>10. CASE SemaphoreWake
    BY <1>10 DEF SemaphoreWake
<1>11. CASE SelectLeave
    BY <1>11 DEF SelectLeave
<1>12. CASE NextAfterSelect
    BY <1>12 DEF NextAfterSelect
<1>13. CASE RunExit
    BY <1>13 DEF RunExit
<1>14. CASE EntryReturn
    BY <1>14 DEF EntryReturn
<1>15. CASE RunActiveTimers
    BY <1>15 DEF RunActiveTimers
<1>16. CASE RunJobReturn
    BY <1>16 DEF RunJobReturn
<1>17. ASSUME NEW x \in Jobs, RunJobAdd(x) PROVE EarlyInv'
    BY <1>17 DEF RunJobAdd
<1>18. ASSUME NEW tm \in FlowTimers, NEW p \in Periods, RunJobStart(tm, p) PROVE EarlyInv'
    BY <1>18 DEF RunJobStart, StartOnExecutor
<1>19. ASSUME NEW tm \in FlowTimers, RunJobRestart(tm) PROVE EarlyInv'
    BY <1>19 DEF RunJobRestart
<1>20. ASSUME NEW tm \in FlowTimers, RunJobTrigger(tm) PROVE EarlyInv'
    BY <1>20 DEF RunJobTrigger
<1>21. ASSUME NEW x \in Jobs \cup {NoExec}, RunTimerOnce(x) PROVE EarlyInv'
    BY <1>21 DEF RunTimerOnce
<1>22. CASE RunTimerRestart
    BY <1>22 DEF RunTimerRestart
<1>23. ASSUME NEW p \in Periods, RunTimerNewPeriod(p) PROVE EarlyInv'
    BY <1>23 DEF RunTimerNewPeriod
<1>24. CASE Relist
    BY <1>24 DEF Relist
<1>25. ASSUME NEW t \in Threads, ThreadListInsert(t) PROVE EarlyInv'
    BY <1>25 DEF ThreadListInsert
<1>26. ASSUME NEW t \in Threads, ThreadExchange(t) PROVE EarlyInv'
    BY <1>26 DEF ThreadExchange
<1>27. ASSUME NEW t \in Threads, ThreadNotifyInsert(t) PROVE EarlyInv'
    BY <1>27 DEF ThreadNotifyInsert
<1>28. ASSUME NEW t \in Threads, ThreadWakeup(t) PROVE EarlyInv'
    BY <1>28 DEF ThreadWakeup, AfterAdd
<1>29. ASSUME NEW t \in Threads, ThreadPost(t) PROVE EarlyInv'
    BY <1>29 DEF ThreadPost, AfterAdd
<1>30. ASSUME NEW t \in Threads, ThreadJoin(t) PROVE EarlyInv'
    BY <1>30 DEF ThreadJoin
<1>31. ASSUME NEW t \in Threads, NEW x \in Jobs, ThreadAdd(t, x) PROVE EarlyInv'
    BY <1>31 DEF ThreadAdd
<1>32. ASSUME NEW t \in Threads, NEW tm \in ThreadTimers, NEW p \in Periods, ThreadStartTimer(t, tm, p) PROVE EarlyInv'
    BY <1>32 DEF ThreadStartTimer
<1>33. ASSUME NEW t \in Threads, ThreadShutdown(t) PROVE EarlyInv'
    BY <1>33 DEF ThreadShutdown
<1>34. CASE Tick
    BY <1>34, TickLengthType DEF Tick
<1>35. CASE UNCHANGED vars
    BY <1>35 DEF vars
<1> QED
    BY <1>1, <1>2, <1>3, <1>4, <1>5, <1>6, <1>7, <1>8, <1>9, <1>10, <1>11,
       <1>12, <1>13, <1>14, <1>15, <1>16, <1>17, <1>18, <1>19, <1>20,
       <1>21, <1>22, <1>23, <1>24, <1>25, <1>26, <1>27, <1>28, <1>29,
       <1>30, <1>31, <1>32, <1>33, <1>34, <1>35
       DEF Next, ExecutorStep, ExecutorAction, ThreadContinue, ThreadAction,
           ThreadCall, NewCall

\* timeout() is never early: a timer in the executor's queue that nobody
\* triggered has waited until its expiry time.
THEOREM NoTimeoutIsEarly == Spec => []NoEarlyTimeout
<1>1. EarlyInv => NoEarlyTimeout
    BY DEF EarlyInv
<1> QED BY TypeInit, TypeStep, EarlyInit, EarlyStep, <1>1, PTL DEF Spec
-----------------------------------------------------------------------------
(***************************************************************************)
(* How long the executor may sleep.  get_next_timeout() looks at the head  *)
(* of the list only, so the list has to be in the order of expiry whenever *)
(* it is read.  Between the moment restart() or trigger() writes when_ of  *)
(* a listed timer and update_timer() takes the lock it is not, and the     *)
(* start() of another thread that walks the list in between may then stop  *)
(* too early.  The timers it leaves behind itself that way are the         *)
(* overtaken ones; the argument is that nothing else is ever out of order. *)
(***************************************************************************)

\* The timers of l other than x and those in o expire no earlier than anything
\* before them other than x.
SortedBut(l, w, x, o) ==
    \A i, j \in 1..Len(l) :
        i < j /\ l[i] # x /\ l[j] # x /\ l[j] \notin o => w[l[i]] <= w[l[j]]

\* In such a list nothing but those in o is overtaken by an insertion.
LEMMA OthersAreLater ==
    ASSUME NEW l \in Seq(Timers), NEW w \in [Timers -> Int], NEW tm \in Timers,
           NEW x, NEW o, SortedBut(l, w, x, o), ~In(l, x)
    PROVE  \A j \in InsertPos(l, w, tm)..Len(l) : l[j] \in o \/ w[tm] <= w[l[j]]
<1> DEFINE p == InsertPos(l, w, tm)
<1>1. p \in 1..(Len(l) + 1) /\ (p <= Len(l) => w[l[p]] > w[tm])
    BY InsertPosFits, Zenon
<1> HIDE DEF p
<1> SUFFICES ASSUME NEW j \in p..Len(l), l[j] \notin o PROVE w[tm] <= w[l[j]]
    BY DEF p
<1>2. /\ p \in 1..Len(l) /\ j \in 1..Len(l) /\ (p = j \/ p < j)
      /\ w[l[p]] > w[tm]
    BY <1>1
<1>3. l[p] # x /\ l[j] # x
    BY <1>2 DEF In
<1>4. w[l[p]] \in Int /\ w[l[j]] \in Int /\ w[tm] \in Int
    BY <1>2
<1>5. w[l[p]] <= w[l[j]]
    BY <1>2, <1>3, <1>4 DEF SortedBut
<1> QED BY <1>2, <1>4, <1>5

\* Moving or inserting a timer leaves the others in order when those behind it
\* that expire before it are in o.
LEMMA InsertKeepsOrder ==
    ASSUME NEW l \in Seq(Timers), NEW w \in [Timers -> Int], NEW tm \in Timers,
           NEW x, NEW o, SortedBut(l, w, x, o),
           \A j \in InsertPos(l, w, tm)..Len(l) :
               l[j] = x \/ l[j] \in o \/ w[tm] <= w[l[j]]
    PROVE  SortedBut(ListInsert(l, w, tm), w, x, o)
<1> DEFINE p == InsertPos(l, w, tm)
           r == ListInsert(l, w, tm)
<1>0. p \in 1..(Len(l) + 1) /\ \A j \in 1..(p - 1) : w[l[j]] <= w[tm]
    BY InsertPosFits, Zenon
<1>1. /\ p \in 1..(Len(l) + 1) /\ Len(l) \in Nat
      /\ \A j \in 1..(p - 1) : w[l[j]] <= w[tm]
      /\ \A j \in p..Len(l) : l[j] = x \/ l[j] \in o \/ w[tm] <= w[l[j]]
    BY <1>0
<1>2. /\ Len(r) = Len(l) + 1
      /\ r[p] = tm
      /\ \A i \in 1..(p - 1) : r[i] = l[i]
      /\ \A i \in (p + 1)..(Len(l) + 1) : r[i] = l[i - 1]
    BY ListInsertShape, Zenon
<1> HIDE DEF p, r
<1>3. \A i \in 1..Len(l) : l[i] \in Timers /\ w[l[i]] \in Int
    OBVIOUS
<1> SUFFICES ASSUME NEW i \in 1..Len(r), NEW j \in 1..Len(r),
                    i < j, r[i] # x, r[j] # x, r[j] \notin o
             PROVE  w[r[i]] <= w[r[j]]
    BY DEF SortedBut, r
<1>5. CASE i < p /\ j < p
  <2>1. i \in 1..Len(l) /\ j \in 1..Len(l) /\ r[i] = l[i] /\ r[j] = l[j]
      BY <1>5, <1>1, <1>2
  <2> QED BY <2>1 DEF SortedBut
<1>6. CASE i < p /\ j = p
  <2>1. i \in 1..(p - 1) /\ r[i] = l[i] /\ r[j] = tm
      BY <1>6, <1>1, <1>2
  <2> QED BY <2>1, <1>1
<1>7. CASE i < p /\ p < j
  <2>1. i \in 1..Len(l) /\ j - 1 \in 1..Len(l) /\ i < j - 1
      BY <1>7, <1>1, <1>2
  <2>2. r[i] = l[i] /\ r[j] = l[j - 1]
      BY <1>7, <1>1, <1>2
  <2> QED BY <2>1, <2>2 DEF SortedBut
<1>8. CASE i = p /\ p < j
  <2>1. j - 1 \in p..Len(l) /\ r[i] = tm /\ r[j] = l[j - 1]
      BY <1>8, <1>1, <1>2
  <2> QED BY <2>1, <1>1
<1>9. CASE p < i /\ p < j
  <2>1. i - 1 \in 1..Len(l) /\ j - 1 \in 1..Len(l) /\ i - 1 < j - 1
      BY <1>9, <1>1, <1>2
  <2>2. r[i] = l[i - 1] /\ r[j] = l[j - 1]
      BY <1>9, <1>1, <1>2
  <2> QED BY <2>1, <2>2 DEF SortedBut
<1> QED BY <1>1, <1>5, <1>6, <1>7, <1>8, <1>9

\* With the timer that moves gone, the whole list is in order.
LEMMA RemoveKeepsOrder ==
    ASSUME NEW l \in Seq(Timers), NEW w \in [Timers -> Int], NEW tm, NEW x,
           NEW o, SortedBut(l, w, tm, o), Once(l)
    PROVE  SortedBut(ListRemove(l, tm), w, x, o \ {tm})
<1>1. CASE ~In(l, tm)
    BY <1>1 DEF ListRemove, In, SortedBut
<1>2. CASE In(l, tm)
  <2> DEFINE r == ListRemove(l, tm)
  <2>1. PICK p \in 1..Len(l) :
           /\ l[p] = tm
           /\ Len(r) = Len(l) - 1
           /\ \A i \in 1..(p - 1) : r[i] = l[i]
           /\ \A i \in p..(Len(l) - 1) : r[i] = l[i + 1]
      BY <1>2, ListRemoveShape
  <2> HIDE DEF r
  <2> DEFINE old(i) == IF i < p THEN i ELSE i + 1
  <2>0. p \in 1..Len(l) /\ Len(l) \in Nat /\ Len(r) = Len(l) - 1
      BY <2>1
  <2>2. \A i \in 1..Len(r) :
            old(i) \in 1..Len(l) /\ old(i) # p /\ r[i] = l[old(i)]
    <3> SUFFICES ASSUME NEW i \in 1..Len(r)
                 PROVE  old(i) \in 1..Len(l) /\ old(i) # p /\ r[i] = l[old(i)]
        OBVIOUS
    <3>1. CASE i < p
      <4>1. i \in 1..(p - 1) /\ i \in 1..Len(l) /\ i # p /\ old(i) = i
          BY <3>1, <2>0
      <4> QED BY <4>1, <2>1, Zenon
    <3>2. CASE ~(i < p)
      <4>1. i \in p..(Len(l) - 1) /\ i + 1 \in 1..Len(l) /\ i + 1 # p
          BY <3>2, <2>0
      <4>2. old(i) = i + 1
          BY <3>2
      <4> QED BY <4>1, <4>2, <2>1, Zenon
    <3> QED BY <3>1, <3>2
  <2>3. \A i, j \in 1..Len(r) : i < j => old(i) < old(j)
      BY <2>0
  <2> HIDE DEF old
  <2>4. \A i \in 1..Len(r) : l[old(i)] # tm
      BY <2>1, <2>2 DEF Once
  <2>5. \A i, j \in 1..Len(r) :
            i < j /\ r[j] \notin o \ {tm} => w[r[i]] <= w[r[j]]
      BY <2>2, <2>3, <2>4 DEF SortedBut
  <2> QED BY <2>5 DEF SortedBut, r
<1> QED BY <1>1, <1>2

\* The head of a list in order expires first.
LEMMA HeadIsFirst ==
    ASSUME NEW l \in Seq(Timers), NEW w \in [Timers -> Int], NEW x, NEW o,
           SortedBut(l, w, x, o), ~In(l, x), l # << >>
    PROVE  \A i \in 1..Len(l) : l[i] \in o \/ w[Head(l)] <= w[l[i]]
<1>1. 1 \in 1..Len(l) /\ Head(l) = l[1] /\ \A i \in 1..Len(l) : w[l[i]] \in Int
    OBVIOUS
<1>2. \A i \in 1..Len(l) : l[i] # x
    BY DEF In
<1>3. \A i \in 1..Len(l) : i = 1 \/ 1 < i
    OBVIOUS
<1> QED BY <1>1, <1>2, <1>3 DEF SortedBut

\* Taking the head leaves the rest in order.
LEMMA TailKeepsOrder ==
    ASSUME NEW l \in Seq(Timers), NEW w, NEW x, NEW o, SortedBut(l, w, x, o),
           Once(l), l # << >>
    PROVE  SortedBut(Tail(l), w, x, o \ {Head(l)})
<1> DEFINE r == Tail(l)
<1>1. /\ Len(r) = Len(l) - 1 /\ \A i \in 1..(Len(l) - 1) : r[i] = l[i + 1]
      /\ Len(l) \in Nat \ {0} /\ Head(l) = l[1]
    OBVIOUS
<1> HIDE DEF r
<1>2. \A i \in 1..Len(r) : i + 1 \in 1..Len(l) /\ r[i] = l[i + 1] /\ r[i] # Head(l)
    BY <1>1 DEF Once
<1>3. \A i, j \in 1..Len(r) : i < j => i + 1 < j + 1
    BY <1>1
<1>4. SortedBut(r, w, x, o \ {Head(l)})
    BY <1>2, <1>3 DEF SortedBut
<1> QED BY <1>4 DEF r

\* The timer whose place in the list is being corrected.
Moving == IF pc = "relist" THEN current ELSE NoExec

\* The list is in order but for that timer and the overtaken ones.
ListOrdered == SortedBut(list, when, Moving, overtaken)

\* From the end of get_next_timeout() on, a wait is short enough for every
\* timer in the list that has not been overtaken, or something is queued or
\* about to be that ends it.
Waiting == {"clear", "check", "enter", "get", "sem"}

WaitCovered ==
    /\ pc \in Waiting /\ waitLength > 0
    /\ Empty /\ \A t \in Threads : tpc[t] \notin {"exchange", "insert"}
    => \A i \in 1..Len(list) :
           list[i] \in overtaken \/ waitLength <= when[list[i]] - now

\* The ticks left of a sleep are some of those it was begun with.
SleepBounded == pc = "sem" => waitLength > 0 /\ sleepLeft <= SleepTicks(waitLength)

DeadlineInv == ListOrdered /\ WaitCovered /\ SleepBounded

\* Nothing is listed at the start.
LEMMA DeadlineInit == Init => DeadlineInv
<1> SUFFICES ASSUME Init PROVE DeadlineInv
    OBVIOUS
<1>1. list = << >> /\ pc # "sem" /\ pc \notin Waiting
    BY DEF Init, Waiting
<1>2. SortedBut(list, when, Moving, overtaken)
    BY <1>1 DEF SortedBut
<1> QED BY <1>1, <1>2 DEF DeadlineInv, ListOrdered, WaitCovered, SleepBounded

\* Every step keeps the list in the order of expiry, but for the timer that is
\* being moved and those a start() has put behind it.
LEMMA OrderStep ==
    TypeInv /\ PlaceInv /\ ListOrdered /\ [Next]_vars => ListOrdered'
<1> SUFFICES ASSUME TypeInv, PlaceInv, ListOrdered, [Next]_vars
             PROVE  ListOrdered'
    OBVIOUS
<1>0. /\ list \in Seq(Timers) /\ when \in [Timers -> Int] /\ when' \in [Timers -> Int]
      /\ NoExec \notin Timers /\ Once(list)
    BY TypeStep, NameAssumption DEF TypeInv, TypeOK, PlaceInv, NameAssumption
<1>a. ~Listed(NoExec) /\ ~In(list, NoExec) /\ \A i \in 1..Len(list) : list[i] \in Timers
    BY <1>0 DEF Listed, In
<1>b. ASSUME list' = list, when' = when, overtaken' = overtaken,
             pc # "relist", pc' # "relist"
      PROVE  ListOrdered'
    BY <1>b DEF ListOrdered, Moving
<1>c. ASSUME list' = list, when' = when, overtaken' = overtaken, pc' = pc,
             current' = current
      PROVE  ListOrdered'
    BY <1>c DEF ListOrdered, Moving
<1>d. ASSUME NEW tm \in Timers, NEW v, list' = list, overtaken' = overtaken,
             when' = [when EXCEPT ![tm] = v], pc # "relist", pc' = "relist",
             current' = tm
      PROVE  ListOrdered'
  <2>1. SortedBut(list, when, NoExec, overtaken) /\ Moving' = tm
      BY <1>d DEF ListOrdered, Moving
  <2>2. SortedBut(list, when', tm, overtaken)
      BY <2>1, <1>0, <1>a, <1>d DEF SortedBut
  <2> QED BY <2>1, <2>2, <1>d DEF ListOrdered
<1>1. CASE EntryStart
    BY <1>1, <1>b DEF EntryStart, timerVars
<1>2. CASE LoopTop
    BY <1>2, <1>b DEF LoopTop, timerVars
<1>3. CASE TimersLock
    BY <1>3, <1>b DEF TimersLock, timerVars
<1>4. CASE ExpireTimer
  <2>1. /\ list # << >> /\ list' = Tail(list) /\ when' = when
        /\ overtaken' = overtaken \ {Head(list)}
        /\ pc = "expire" /\ pc' = "expire"
      BY <1>4 DEF ExpireTimer, HeadExpired
  <2>2. SortedBut(list', when', NoExec, overtaken') /\ Moving' = NoExec
      BY <2>1, <1>0, TailKeepsOrder DEF ListOrdered, Moving
  <2> QED BY <2>1, <2>2 DEF ListOrdered
<1>5. CASE TimersUnlock
    BY <1>5, <1>b DEF TimersUnlock, timerVars
<1>6. CASE ClearWakeup
    BY <1>6, <1>b DEF ClearWakeup, timerVars
<1>7. CASE CheckEmpty
    BY <1>7, <1>b DEF CheckEmpty, timerVars
<1>8. CASE SelectEnter
    BY <1>8, <1>b DEF SelectEnter, timerVars
<1>9. CASE SemaphoreGet
    BY <1>9, <1>b DEF SemaphoreGet, timerVars
<1>10. CASE SemaphoreWake
    BY <1>10, <1>b DEF SemaphoreWake, timerVars
<1>11. CASE SelectLeave
    BY <1>11, <1>b DEF SelectLeave, timerVars
<1>12. CASE NextAfterSelect
    BY <1>12, <1>b DEF NextAfterSelect, timerVars
<1>13. CASE RunExit
    BY <1>13, <1>b DEF RunExit, timerVars
<1>14. CASE EntryReturn
    BY <1>14, <1>b DEF EntryReturn, timerVars
<1>15. CASE RunActiveTimers
    BY <1>15, <1>b DEF RunActiveTimers, timerVars
<1>16. CASE RunJobReturn
    BY <1>16, <1>b DEF RunJobReturn, timerVars
<1>17. ASSUME NEW x \in Jobs, RunJobAdd(x) PROVE ListOrdered'
    BY <1>17, <1>b DEF RunJobAdd, timerVars
<1>18. ASSUME NEW tm \in FlowTimers, NEW p \in Periods, RunJobStart(tm, p) PROVE ListOrdered'
    BY <1>18, <1>d DEF RunJobStart, StartOnExecutor
<1>19. ASSUME NEW tm \in FlowTimers, RunJobRestart(tm) PROVE ListOrdered'
    BY <1>19, <1>d DEF RunJobRestart
<1>20. ASSUME NEW tm \in FlowTimers, RunJobTrigger(tm) PROVE ListOrdered'
    BY <1>20, <1>d DEF RunJobTrigger
<1>21. ASSUME NEW x \in Jobs \cup {NoExec}, RunTimerOnce(x) PROVE ListOrdered'
    BY <1>21, <1>b DEF RunTimerOnce, timerVars
<1>22. CASE RunTimerRestart
    BY <1>22, <1>d DEF RunTimerRestart, loopVars
<1>23. ASSUME NEW p \in Periods, RunTimerNewPeriod(p) PROVE ListOrdered'
    BY <1>23, <1>d DEF RunTimerNewPeriod
<1>24. CASE Relist
  <2> DEFINE r == ListRemove(list, current)
  <2>1. /\ pc = "relist" /\ pc' = "top" /\ when' = when
        /\ list' = ListInsert(r, when, current)
        /\ overtaken' = overtaken \ {current}
      BY <1>24 DEF Relist
  <2>2. current \in Timers
      BY <2>1 DEF TypeInv, CallsInProgress
  <2>3. r \in Seq(Timers)
      BY <1>0, ListRemoveType
  <2>4. SortedBut(r, when, NoExec, overtaken')
      BY <2>1, <1>0, RemoveKeepsOrder DEF ListOrdered, Moving
  <2> HIDE DEF r
  <2>5. ~In(r, NoExec)
      BY <2>3, <1>0 DEF In
  <2>6. \A j \in InsertPos(r, when, current)..Len(r) :
            r[j] \in overtaken' \/ when[current] <= when[r[j]]
      BY <2>2, <2>3, <2>4, <2>5, <1>0, OthersAreLater
  <2>7. SortedBut(list', when', NoExec, overtaken')
      BY <2>1, <2>2, <2>3, <2>4, <2>6, <1>0, InsertKeepsOrder
  <2> QED BY <2>1, <2>7 DEF ListOrdered, Moving
<1>25. ASSUME NEW t \in Threads, ThreadListInsert(t) PROVE ListOrdered'
  <2> DEFINE tm == tarm[t]
  <2>1. /\ tpc[t] = "lock" /\ when' = when /\ pc' = pc /\ current' = current
        /\ list' = ListInsert(list, when, tm)
        /\ overtaken' = IF pc = "relist" /\ Listed(current)
                        THEN overtaken \cup Overtakes(tm) ELSE overtaken
      BY <1>25 DEF ThreadListInsert, loopVars
  <2>2. tm \in Timers
      BY <2>1 DEF TypeInv, CallsInProgress
  <2> HIDE DEF tm
  <2>3. Moving' = Moving
      BY <2>1 DEF Moving
  <2>4. SortedBut(list, when, Moving, overtaken')
      BY <2>1 DEF ListOrdered, SortedBut
  <2>5. \A j \in InsertPos(list, when, tm)..Len(list) :
            list[j] = Moving \/ list[j] \in overtaken' \/ when[tm] <= when[list[j]]
    <3>1. CASE pc = "relist" /\ Listed(current)
      <4> SUFFICES ASSUME NEW j \in InsertPos(list, when, tm)..Len(list),
                          list[j] # current, ~(when[tm] <= when[list[j]])
                   PROVE  list[j] \in Overtakes(tm)
          BY <3>1, <2>1 DEF Moving
      <4>1. InsertPos(list, when, tm) \in 1..(Len(list) + 1)
          BY <2>2, <1>0, InsertPosType
      <4>2. j \in 1..Len(list) /\ list[j] \in Timers
          BY <4>1, <1>0
      <4>3. when[list[j]] \in Int /\ when[tm] \in Int
          BY <4>2, <2>2, <1>0
      <4>4. when[list[j]] < when[tm]
          BY <4>3
      <4> QED BY <4>4 DEF Overtakes
    <3>2. CASE ~(pc = "relist" /\ Listed(current))
      <4>1. ~In(list, Moving)
          BY <3>2, <1>a DEF Moving, Listed, In
      <4> QED BY <4>1, <2>2, <2>4, <1>0, OthersAreLater
    <3> QED BY <3>1, <3>2
  <2>6. SortedBut(list', when', Moving', overtaken')
      BY <2>1, <2>2, <2>3, <2>4, <2>5, <1>0, InsertKeepsOrder
  <2> QED BY <2>6 DEF ListOrdered
<1>26. ASSUME NEW t \in Threads, ThreadExchange(t) PROVE ListOrdered'
    BY <1>26, <1>c DEF ThreadExchange, timerVars, loopVars
<1>27. ASSUME NEW t \in Threads, ThreadNotifyInsert(t) PROVE ListOrdered'
    BY <1>27, <1>c DEF ThreadNotifyInsert, timerVars, loopVars
<1>28. ASSUME NEW t \in Threads, ThreadWakeup(t) PROVE ListOrdered'
    BY <1>28, <1>c DEF ThreadWakeup, AfterAdd, timerVars, loopVars
<1>29. ASSUME NEW t \in Threads, ThreadPost(t) PROVE ListOrdered'
    BY <1>29, <1>c DEF ThreadPost, AfterAdd, timerVars, loopVars
<1>30. ASSUME NEW t \in Threads, ThreadJoin(t) PROVE ListOrdered'
    BY <1>30, <1>c DEF ThreadJoin, timerVars, loopVars
<1>31. ASSUME NEW t \in Threads, NEW x \in Jobs, ThreadAdd(t, x) PROVE ListOrdered'
    BY <1>31, <1>c DEF ThreadAdd, timerVars, loopVars
<1>32. ASSUME NEW t \in Threads, NEW tm \in ThreadTimers, NEW p \in Periods, ThreadStartTimer(t, tm, p) PROVE ListOrdered'
  <2>1. ~Listed(tm)
      BY <1>32 DEF ThreadStartTimer, PlaceInv, TimerFlags
  <2>2. /\ list' = list /\ pc' = pc /\ current' = current /\ overtaken' = overtaken
        /\ when' = [when EXCEPT ![tm] = clock + p]
      BY <1>32 DEF ThreadStartTimer, loopVars
  <2>3. \A i \in 1..Len(list) : when'[list[i]] = when[list[i]]
      BY <2>1, <2>2, <1>0 DEF Listed
  <2>4. SortedBut(list, when', Moving, overtaken)
      BY <2>3 DEF ListOrdered, SortedBut
  <2>5. Moving' = Moving
      BY <2>2 DEF Moving
  <2> QED BY <2>2, <2>4, <2>5 DEF ListOrdered
<1>33. ASSUME NEW t \in Threads, ThreadShutdown(t) PROVE ListOrdered'
    BY <1>33, <1>c DEF ThreadShutdown, timerVars, loopVars
<1>34. CASE Tick
    BY <1>34, <1>c DEF Tick, timerVars, loopVars
<1>35. CASE UNCHANGED vars
    BY <1>35, <1>c DEF vars, timerVars, loopVars
<1> QED
    BY <1>1, <1>2, <1>3, <1>4, <1>5, <1>6, <1>7, <1>8, <1>9, <1>10, <1>11,
       <1>12, <1>13, <1>14, <1>15, <1>16, <1>17, <1>18, <1>19, <1>20,
       <1>21, <1>22, <1>23, <1>24, <1>25, <1>26, <1>27, <1>28, <1>29,
       <1>30, <1>31, <1>32, <1>33, <1>34, <1>35
       DEF Next, ExecutorStep, ExecutorAction, ThreadContinue, ThreadAction,
           ThreadCall, NewCall

\* Every step keeps the waits covered.
LEMMA WaitStep ==
    TypeInv /\ PlaceInv /\ ListOrdered /\ WaitCovered /\ [Next]_vars => WaitCovered'
<1> SUFFICES ASSUME TypeInv, PlaceInv, ListOrdered, WaitCovered, [Next]_vars
             PROVE  WaitCovered'
    OBVIOUS
<1>0. /\ list \in Seq(Timers) /\ when \in [Timers -> Int] /\ now \in Int
      /\ waitLength \in Nat /\ MaxSleep \in Nat /\ NoExec \notin Timers
      /\ tpc \in [Threads -> TpcValues]
    BY NameAssumption, TimeAssumption
       DEF TypeInv, TypeOK, NameAssumption, TimeAssumption
<1> DEFINE Quiet == Empty /\ \A t \in Threads : tpc[t] \notin {"exchange", "insert"}
<1> USE DEF Waiting
<1>a. ASSUME pc' \notin Waiting PROVE WaitCovered'
    BY <1>a DEF WaitCovered
<1>b. ASSUME list' = list, when' = when, overtaken' = overtaken, now' = now,
             waitLength' <= waitLength, waitLength' \in Nat, pc \in Waiting,
             waitLength' > 0 /\ Quiet' => Quiet
      PROVE  WaitCovered'
  <2> SUFFICES ASSUME waitLength' > 0, Quiet', NEW i \in 1..Len(list')
               PROVE  list'[i] \in overtaken' \/ waitLength' <= when'[list'[i]] - now'
      BY DEF WaitCovered
  <2>1. i \in 1..Len(list) /\ list[i] \in Timers /\ when[list[i]] \in Int
      BY <1>0, <1>b
  <2>2. waitLength > 0 /\ Quiet
      BY <1>0, <1>b
  <2>3. list[i] \in overtaken \/ waitLength <= when[list[i]] - now
      BY <2>1, <2>2, <1>b DEF WaitCovered
  <2> QED BY <2>1, <2>3, <1>0, <1>b
<1>c. ASSUME list' = list, \A i \in 1..Len(list) : when'[list[i]] = when[list[i]],
             overtaken' = overtaken, now' = now, waitLength' = waitLength,
             pc' = pc, Quiet' => Quiet
      PROVE  WaitCovered'
    BY <1>c DEF WaitCovered
<1>d. ASSUME NEW x, x \in Execs, queue' = Insert(x) PROVE ~Empty'
  <2>1. BandOf(x) \in Bands /\ queue \in [Bands -> Seq(Execs)]
      BY <1>d, BandAssumption DEF BandOf, BandAssumption, TypeInv, TypeOK
  <2>2. queue'[BandOf(x)] = Append(queue[BandOf(x)], x)
      BY <2>1, <1>d DEF Insert
  <2>3. Append(queue[BandOf(x)], x) # << >>
      BY <2>1, <1>d
  <2> QED BY <2>1, <2>2, <2>3 DEF Empty
<1>e. queue' = queue => (Empty' <=> Empty)
    BY DEF Empty
<1>1. CASE EntryStart
    BY <1>1, <1>a DEF EntryStart
<1>2. CASE LoopTop
    BY <1>2, <1>a DEF LoopTop
<1>3. CASE TimersLock
    BY <1>3, <1>a DEF TimersLock
<1>4. CASE ExpireTimer
    BY <1>4, <1>a DEF ExpireTimer
<1>5. CASE TimersUnlock
  <2>1. /\ pc = "expire" /\ list' = list /\ when' = when /\ now' = now
        /\ overtaken' = overtaken
        /\ waitLength' = IF waitLength = 0 \/ list = << >> THEN waitLength
                         ELSE when[Head(list)] - now
      BY <1>5 DEF TimersUnlock, timerVars
  <2> SUFFICES ASSUME waitLength' > 0, NEW i \in 1..Len(list)
               PROVE  list[i] \in overtaken \/ waitLength' <= when[list[i]] - now
      BY <2>1 DEF WaitCovered
  <2>2. list # << >> /\ waitLength # 0 /\ list[i] \in Timers /\ when[list[i]] \in Int
        /\ Head(list) \in Timers /\ when[Head(list)] \in Int
      BY <2>1, <1>0
  <2>3. SortedBut(list, when, NoExec, overtaken) /\ ~In(list, NoExec)
      BY <2>1, <1>0 DEF ListOrdered, Moving, In
  <2>4. list[i] \in overtaken \/ when[Head(list)] <= when[list[i]]
      BY <2>2, <2>3, <1>0, HeadIsFirst
  <2> QED BY <2>1, <2>2, <2>4, <1>0
<1>6. CASE ClearWakeup
  <2>1. /\ waitLength' = waitLength /\ pc \in Waiting
        /\ list' = list /\ when' = when /\ now' = now /\ queue' = queue /\ tpc' = tpc
        /\ overtaken' = overtaken
      BY <1>6 DEF ClearWakeup, timerVars, qVars, thrVars
  <2> QED BY <2>1, <1>0, <1>b, <1>e
<1>7. CASE CheckEmpty
  <2>1. /\ waitLength' \in Nat /\ waitLength' <= waitLength
        /\ waitLength' > 0 => Empty
      BY <1>7, <1>0 DEF CheckEmpty
  <2>2. /\ list' = list /\ when' = when /\ now' = now /\ queue' = queue /\ tpc' = tpc
        /\ overtaken' = overtaken /\ pc = "check"
      BY <1>7 DEF CheckEmpty, timerVars, qVars, thrVars
  <2> QED BY <2>1, <2>2, <1>b, <1>e
<1>8. CASE SelectEnter
  <2>1. /\ waitLength' \in Nat /\ waitLength' <= waitLength /\ pc = "enter"
        /\ list' = list /\ when' = when /\ now' = now /\ queue' = queue /\ tpc' = tpc
        /\ overtaken' = overtaken
      BY <1>8, <1>0 DEF SelectEnter, timerVars, qVars, thrVars
  <2> QED BY <2>1, <1>b, <1>e
<1>9. CASE SemaphoreGet
  <2>1. /\ waitLength' = waitLength /\ pc = "get" /\ list' = list /\ when' = when
        /\ now' = now /\ queue' = queue /\ tpc' = tpc /\ overtaken' = overtaken
      BY <1>9 DEF SemaphoreGet, timerVars, qVars, thrVars
  <2> QED BY <2>1, <1>0, <1>b, <1>e
<1>10. CASE SemaphoreWake
    BY <1>10, <1>a DEF SemaphoreWake
<1>11. CASE SelectLeave
    BY <1>11, <1>a DEF SelectLeave
<1>12. CASE NextAfterSelect
    BY <1>12, <1>a DEF NextAfterSelect
<1>13. CASE RunExit
    BY <1>13, <1>a DEF RunExit
<1>14. CASE EntryReturn
    BY <1>14, <1>a DEF EntryReturn
<1>15. CASE RunActiveTimers
    BY <1>15, <1>a DEF RunActiveTimers
<1>16. CASE RunJobReturn
    BY <1>16, <1>a DEF RunJobReturn
<1>17. ASSUME NEW x \in Jobs, RunJobAdd(x) PROVE WaitCovered'
    BY <1>17, <1>a DEF RunJobAdd
<1>18. ASSUME NEW tm \in FlowTimers, NEW p \in Periods, RunJobStart(tm, p) PROVE WaitCovered'
    BY <1>18, <1>a DEF RunJobStart
<1>19. ASSUME NEW tm \in FlowTimers, RunJobRestart(tm) PROVE WaitCovered'
    BY <1>19, <1>a DEF RunJobRestart
<1>20. ASSUME NEW tm \in FlowTimers, RunJobTrigger(tm) PROVE WaitCovered'
    BY <1>20, <1>a DEF RunJobTrigger
<1>21. ASSUME NEW x \in Jobs \cup {NoExec}, RunTimerOnce(x) PROVE WaitCovered'
    BY <1>21, <1>a DEF RunTimerOnce
<1>22. CASE RunTimerRestart
    BY <1>22, <1>a DEF RunTimerRestart
<1>23. ASSUME NEW p \in Periods, RunTimerNewPeriod(p) PROVE WaitCovered'
    BY <1>23, <1>a DEF RunTimerNewPeriod
<1>24. CASE Relist
    BY <1>24, <1>a DEF Relist
<1>25. ASSUME NEW t \in Threads, ThreadListInsert(t) PROVE WaitCovered'
  <2>1. tpc'[t] = "exchange"
      BY <1>25, <1>0 DEF ThreadListInsert
  <2> QED BY <2>1 DEF WaitCovered
<1>26. ASSUME NEW t \in Threads, ThreadExchange(t) PROVE WaitCovered'
  <2>1. CASE pc \notin Waiting
      BY <2>1, <1>26, <1>a DEF ThreadExchange, loopVars
  <2>2. CASE pc \in Waiting /\ ~isPending
    <3>1. tpc'[t] = "insert"
        BY <2>2, <1>26, <1>0 DEF ThreadExchange
    <3> QED BY <3>1 DEF WaitCovered
  <2>3. CASE pc \in Waiting /\ isPending
    <3>1. Queued(ActiveTimers) \/ \E u \in Threads : tpc[u] = "insert"
        BY <2>3 DEF PlaceInv, NotifyInv, Running
    <3>2. CASE Queued(ActiveTimers)
      <4>1. ~Empty /\ queue' = queue
          BY <3>2, <1>26 DEF ThreadExchange, qVars, Queued, Empty
      <4> QED BY <4>1, <1>e DEF WaitCovered
    <3>3. ASSUME NEW u \in Threads, tpc[u] = "insert" PROVE WaitCovered'
      <4>1. tpc'[u] = "insert"
          BY <3>3, <1>26, <1>0 DEF ThreadExchange
      <4> QED BY <4>1 DEF WaitCovered
    <3> QED BY <3>1, <3>2, <3>3
  <2> QED BY <2>1, <2>2, <2>3
<1>27. ASSUME NEW t \in Threads, ThreadNotifyInsert(t) PROVE WaitCovered'
    BY <1>27, <1>d DEF ThreadNotifyInsert, WaitCovered
<1>28. ASSUME NEW t \in Threads, ThreadWakeup(t) PROVE WaitCovered'
  <2>1. /\ list' = list /\ when' = when /\ now' = now /\ waitLength' = waitLength
        /\ pc' = pc /\ queue' = queue /\ overtaken' = overtaken
      BY <1>28 DEF ThreadWakeup, AfterAdd, timerVars, qVars, loopVars
  <2>2. \A u \in Threads : tpc[u] \in {"exchange", "insert"} => tpc'[u] = tpc[u]
      BY <1>28, <1>0 DEF ThreadWakeup, AfterAdd
  <2> QED BY <2>1, <2>2, <1>c, <1>e
<1>29. ASSUME NEW t \in Threads, ThreadPost(t) PROVE WaitCovered'
  <2>1. /\ list' = list /\ when' = when /\ now' = now /\ waitLength' = waitLength
        /\ pc' = pc /\ queue' = queue /\ overtaken' = overtaken
      BY <1>29 DEF ThreadPost, AfterAdd, timerVars, qVars, loopVars
  <2>2. \A u \in Threads : tpc[u] \in {"exchange", "insert"} => tpc'[u] = tpc[u]
      BY <1>29, <1>0 DEF ThreadPost, AfterAdd
  <2> QED BY <2>1, <2>2, <1>c, <1>e
<1>30. ASSUME NEW t \in Threads, ThreadJoin(t) PROVE WaitCovered'
  <2>1. /\ list' = list /\ when' = when /\ now' = now /\ waitLength' = waitLength
        /\ pc' = pc /\ queue' = queue /\ overtaken' = overtaken
      BY <1>30 DEF ThreadJoin, timerVars, qVars, loopVars
  <2>2. \A u \in Threads : tpc[u] \in {"exchange", "insert"} => tpc'[u] = tpc[u]
      BY <1>30, <1>0 DEF ThreadJoin
  <2> QED BY <2>1, <2>2, <1>c, <1>e
<1>31. ASSUME NEW t \in Threads, NEW x \in Jobs, ThreadAdd(t, x) PROVE WaitCovered'
    BY <1>31, <1>d DEF ThreadAdd, WaitCovered
<1>32. ASSUME NEW t \in Threads, NEW tm \in ThreadTimers, NEW p \in Periods, ThreadStartTimer(t, tm, p) PROVE WaitCovered'
  <2>1. ~Listed(tm)
      BY <1>32 DEF ThreadStartTimer, PlaceInv, TimerFlags
  <2>2. /\ list' = list /\ now' = now /\ waitLength' = waitLength
        /\ pc' = pc /\ queue' = queue /\ when' = [when EXCEPT ![tm] = clock + p]
        /\ overtaken' = overtaken
      BY <1>32 DEF ThreadStartTimer, qVars, loopVars
  <2>3. \A u \in Threads : tpc[u] \in {"exchange", "insert"} => tpc'[u] = tpc[u]
      BY <1>32, <1>0 DEF ThreadStartTimer
  <2>4. \A i \in 1..Len(list) : when'[list[i]] = when[list[i]]
      BY <2>1, <2>2, <1>0 DEF Listed
  <2> QED BY <2>2, <2>3, <2>4, <1>c, <1>e
<1>33. ASSUME NEW t \in Threads, ThreadShutdown(t) PROVE WaitCovered'
  <2>1. CASE queue' = Insert(ExitClosure)
      BY <2>1, <1>d DEF WaitCovered
  <2>2. CASE queue' = queue /\ tpc' = tpc
      BY <2>2, <1>33, <1>c, <1>e DEF ThreadShutdown, timerVars, loopVars
  <2> QED BY <1>33, <2>1, <2>2 DEF ThreadShutdown
<1>34. CASE Tick
    BY <1>34, <1>c, <1>e DEF Tick, timerVars, qVars, thrVars
<1>35. CASE UNCHANGED vars
    BY <1>35, <1>c, <1>e DEF vars, timerVars, qVars, loopVars, thrVars
<1> QED
    BY <1>1, <1>2, <1>3, <1>4, <1>5, <1>6, <1>7, <1>8, <1>9, <1>10, <1>11,
       <1>12, <1>13, <1>14, <1>15, <1>16, <1>17, <1>18, <1>19, <1>20,
       <1>21, <1>22, <1>23, <1>24, <1>25, <1>26, <1>27, <1>28, <1>29,
       <1>30, <1>31, <1>32, <1>33, <1>34, <1>35
       DEF Next, ExecutorStep, ExecutorAction, ThreadContinue, ThreadAction,
           ThreadCall, NewCall

\* A sleep begins with the ticks of the wait and only loses them.
LEMMA SleepStep == TypeInv /\ SleepBounded /\ [Next]_vars => SleepBounded'
<1> SUFFICES ASSUME TypeInv, SleepBounded, [Next]_vars PROVE SleepBounded'
    OBVIOUS
<1>1. waitLength \in Nat /\ SleepTicks(waitLength) \in Nat /\ sleepLeft \in Nat
    BY TickAssumption, SleepTicksType DEF TypeInv, TypeOK
<1>2. CASE SemaphoreGet
  <2> SUFFICES ASSUME pc' = "sem" PROVE SleepBounded'
      BY DEF SleepBounded
  <2>1. /\ waitLength > 0 /\ waitLength' = waitLength
        /\ sleepLeft' = SleepTicks(waitLength)
      BY <1>2 DEF SemaphoreGet
  <2> QED BY <2>1, <1>1 DEF SleepBounded, SleepTicks
<1>3. CASE Tick
  <2>1. /\ pc' = pc /\ waitLength' = waitLength
        /\ sleepLeft' = IF sleepLeft > 0 THEN sleepLeft - 1 ELSE 0
      BY <1>3 DEF Tick
  <2>2. sleepLeft' <= sleepLeft
      BY <2>1, <1>1
  <2>3. SleepTicks(waitLength)' = SleepTicks(waitLength)
      BY <2>1 DEF SleepTicks
  <2>4. sleepLeft' \in Nat
      BY <2>1, <1>1
  <2> QED BY <2>1, <2>2, <2>3, <2>4, <1>1 DEF SleepBounded
<1>4. CASE UNCHANGED <<pc, waitLength, sleepLeft>>
    BY <1>4 DEF SleepBounded, SleepTicks
<1>5. CASE pc' # "sem"
    BY <1>5 DEF SleepBounded
<1>6. ASSUME ExecutorAction PROVE SemaphoreGet \/ pc' # "sem"
  <2>1. ASSUME NEW p \in Periods, RunTimerNewPeriod(p) PROVE pc' # "sem"
      BY <2>1 DEF RunTimerNewPeriod
  <2>2. ASSUME NEW x \in Jobs, RunJobAdd(x) PROVE pc' # "sem"
      BY <2>2 DEF RunJobAdd
  <2>3. ASSUME NEW tm \in FlowTimers,
               \/ \E p \in Periods : RunJobStart(tm, p)
               \/ RunJobRestart(tm)
               \/ RunJobTrigger(tm)
        PROVE  pc' # "sem"
      BY <2>3 DEF RunJobStart, RunJobRestart, RunJobTrigger
  <2>4. ASSUME NEW x \in Jobs \cup {NoExec}, RunTimerOnce(x) PROVE pc' # "sem"
      BY <2>4 DEF RunTimerOnce
  <2> QED BY <1>6, <2>1, <2>2, <2>3, <2>4
          DEF ExecutorAction, EntryStart, LoopTop, TimersLock, ExpireTimer,
              TimersUnlock, ClearWakeup, CheckEmpty, SelectEnter, SemaphoreWake,
              SelectLeave, NextAfterSelect, RunExit, EntryReturn,
              RunActiveTimers, RunJobReturn, RunTimerRestart, Relist
<1>7. ASSUME NEW t \in Threads, ThreadAction(t) \/ NewCall(t)
      PROVE  UNCHANGED <<pc, waitLength, sleepLeft>>
    BY <1>7
       DEF ThreadAction, NewCall, ThreadListInsert, ThreadExchange,
           ThreadNotifyInsert, ThreadWakeup, ThreadPost, ThreadJoin, ThreadAdd,
           ThreadStartTimer, ThreadShutdown, loopVars
<1> QED
    BY <1>2, <1>3, <1>4, <1>5, <1>6, <1>7
       DEF Next, ExecutorStep, ThreadContinue, ThreadCall, vars, loopVars

\* Rounded to milliseconds and up to ticks, the sleep is less than one tick
\* longer than what was asked for.
LEMMA SleepIsShort ==
    ASSUME TickAssumption, NEW w \in Nat \ {0}, NEW s \in Nat, s <= SleepTicks(w)
    PROVE  (s - 1) * TickLength < w
<1> DEFINE ms == IF w \div Ms = 0 THEN 1 ELSE w \div Ms
           ticks == (ms + MsPerTick - 1) \div MsPerTick
<1>0. Ms \in Nat \ {0} /\ MsPerTick \in Nat \ {0} /\ TickLength \in Nat
      /\ TickLength <= Ms * MsPerTick
    BY SMT DEF TickAssumption
<1>1. ms \in Nat \ {0} /\ (ms = 1 \/ Ms * ms <= w)
    BY <1>0, Division
<1> HIDE DEF ms
<1>2. ms + MsPerTick - 1 \in Nat
    BY <1>0, <1>1
<1>3. ticks \in Nat /\ MsPerTick * ticks <= ms + MsPerTick - 1
    BY <1>0, <1>2, Division
<1> HIDE DEF ticks
<1>4. s <= ticks
    BY DEF SleepTicks, ms, ticks
<1>5. CASE s = 0 \/ s = 1
    BY <1>5, <1>0
<1>6. CASE s > 1
  <2>1. MsPerTick * s <= MsPerTick * ticks
      BY <1>0, <1>3, <1>4, ProductGrows
  <2>2. MsPerTick * (s - 1) = MsPerTick * s - MsPerTick
      BY <1>0
  <2> DEFINE m == MsPerTick * (s - 1)
  <2>3. m \in Nat /\ m < ms
    <3>1. MsPerTick * (s - 1) \in Nat /\ MsPerTick * s \in Nat /\ MsPerTick * ticks \in Nat
        BY <1>0, <1>3, <1>6
    <3> QED BY <3>1, <2>1, <2>2, <1>0, <1>1, <1>3
  <2>4. m >= 1
    <3>1. MsPerTick * 1 <= MsPerTick * (s - 1)
        BY <1>0, <1>6, ProductGrows
    <3> QED BY <3>1, <1>0
  <2>5. Ms * ms <= w
      BY <1>1, <2>3, <2>4
  <2>6. Ms * m < w
    <3>1. Ms * (m + 1) <= Ms * ms
        BY <1>0, <1>1, <2>3, ProductGrows
    <3>2. Ms * (m + 1) = Ms * m + Ms
        BY <1>0, <2>3
    <3>3. Ms * m \in Nat /\ Ms * ms \in Nat
        BY <1>0, <1>1, <2>3
    <3> HIDE DEF m
    <3> QED BY <3>1, <3>2, <3>3, <2>5, <1>0
  <2>7. (s - 1) * TickLength <= (s - 1) * (Ms * MsPerTick)
      BY <1>0, <1>6, ProductGrows
  <2>8. (s - 1) * (Ms * MsPerTick) = Ms * m
      BY <1>0, <1>6
  <2> QED BY <2>6, <2>7, <2>8, <1>0, <1>6, <2>3
<1> QED BY <1>5, <1>6

\* No sleep passes a timer by as much as a tick, but for timers a start() on
\* another thread put behind one that was being restarted: for any number of
\* threads and timers, any interleaving and any length of a tick that is no
\* more than what OSSelectWakeup takes it to be.
THEOREM SleepIsNeverTooLong == Spec => []SleepCoversTimers
<1>1. TypeInv /\ WakeInv /\ DeadlineInv => SleepCoversTimers
  <2> SUFFICES ASSUME TypeInv, WakeInv, DeadlineInv,
                      pc = "sem", wakeupSem = 0, ~Notifying,
                      NEW i \in 1..Len(list), list[i] \notin overtaken
               PROVE  (sleepLeft - 1) * TickLength < when[list[i]] - now
      BY DEF SleepCoversTimers
  <2>1. /\ waitLength \in Nat \ {0} /\ sleepLeft \in Nat
        /\ sleepLeft <= SleepTicks(waitLength)
      BY DEF DeadlineInv, SleepBounded, TypeInv, TypeOK
  <2>2. Empty /\ \A t \in Threads : tpc[t] \notin {"exchange", "insert"}
      BY <2>1 DEF WakeInv, NoLostWakeup, Asleep, Signalling, Notifying
  <2>3. waitLength <= when[list[i]] - now
      BY <2>1, <2>2 DEF DeadlineInv, WaitCovered, Waiting
  <2>4. (sleepLeft - 1) * TickLength < waitLength
      BY <2>1, TickAssumption, SleepIsShort
  <2>5. when[list[i]] \in Int /\ now \in Int
      BY DEF TypeInv, TypeOK
  <2>6. (sleepLeft - 1) * TickLength \in Int
      BY <2>1, TickLengthType
  <2> QED BY <2>1, <2>3, <2>4, <2>5, <2>6
<1>2. Init => DeadlineInv
    BY DeadlineInit
<1>3. TypeInv /\ PlaceInv /\ DeadlineInv /\ [Next]_vars => DeadlineInv'
    BY OrderStep, WaitStep, SleepStep DEF DeadlineInv
<1> QED BY TypeInit, TypeStep, PlaceInit, PlaceStep, WakeInit, WakeStep,
           <1>1, <1>2, <1>3, PTL DEF Spec
=============================================================================

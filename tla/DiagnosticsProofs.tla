------------------------- MODULE DiagnosticsProofs -------------------------
(***************************************************************************)
(* Proofs about Diagnostics: the last line of a trace names the task that  *)
(* runs (TraceShowsRunning), the run times are exact modulo the counter    *)
(* (RunTimeExact), the stack checks report the tasks they promise to and   *)
(* no other (ChecksReport), but for reports the ready tasks of one         *)
(* priority keep the order of their turns (TurnsKept), and a finished      *)
(* report has one row for each task (ReportComplete).                      *)
(***************************************************************************)
EXTENDS KernelProofs, Diagnostics

-----------------------------------------------------------------------------
(* What changes the running task *)

(* Once the scheduler runs only vTaskSwitchContext changes the running task. *)
CurrentKept ==
  /\ xSchedulerRunning => xSchedulerRunning'
  /\ xSchedulerRunning => pxCurrentTCB' = pxCurrentTCB

LEMMA CreateKeepsCurrent ==
  ASSUME NEW t, NEW p, Create(t, p),
         xSchedulerRunning => pxCurrentTCB # NULL
  PROVE  xSchedulerRunning => pxCurrentTCB' = pxCurrentTCB
  BY DEF Create

LEMMA KernelKeepsCurrent ==
  ASSUME KernelStep
  PROVE  CurrentKept
<1>. USE DEF CurrentKept, runVars
<1>1. CASE Boot
  BY <1>1 DEF Boot, CreateBeforeStart, StartScheduler
<1>2. ASSUME NEW t \in TCB, CallStep(t) PROVE CurrentKept
  <2>1. CASE YieldWithinAPI(t)
    BY <2>1 DEF YieldWithinAPI, RequestSwitch
  <2>2. CASE DelayUnlink(t) \/ UntilDecide(t) \/ DelayInsert(t)
    BY <2>2 DEF DelayUnlink, UntilDecide, DelayInsert
  <2>3. CASE PlaceEventItem(t) \/ PlaceUnlink(t) \/ PlaceInsert(t)
    BY <2>3 DEF PlaceEventItem, PlaceUnlink, PlaceInsert
  <2>4. CASE QueueUnlock(t)
    BY <2>4 DEF QueueUnlock
  <2>5. CASE ResumeAll(t)
    BY <2>5 DEF ResumeAll
  <2>. QED BY <1>2, <2>1, <2>2, <2>3, <2>4, <2>5 DEF CallStep
<1>3. ASSUME NEW c \in Task, Call(c) PROVE CurrentKept
  <2>1. ASSUME NEW u \in Task, NEW p \in RequestedPriority, CreateTask(c, u, p)
        PROVE  CurrentKept
    BY <2>1, CreateKeepsCurrent, NullAssumption
       DEF CreateTask, RunsApp, RunsAt, Runs
  <2>. QED BY <1>3, <2>1
         DEF Call, AppSuspendAll, SuspendAll, TaskYield, RequestSwitch,
             DelayZero, DelaySuspend, DelayUntilSuspend, QueueSuspend,
             TaskSignals, SuspendTask, ResumeTask, DeleteTask, PrioritySet
<1>4. CASE IdleSuspend \/ IdleReadList \/ IdleLoop \/ ReapHead
  BY <1>4 DEF IdleSuspend, SuspendAll, IdleReadList, IdleLoop, ReapHead, Reap
<1>5. CASE MaskedStep
  BY <1>5 DEF MaskedStep, DrainPending, DrainDone, ReplayTick, ReplayTickDone,
       ResumeAllDone, WakeHead, TickInterruptDone
<1>6. CASE TickISR \/ OtherISR \/ SwitchMissed
  BY <1>6 DEF TickISR, TickInterrupt, TickInterruptMissed, OtherISR,
       ResumeFromISR, InterruptSignals, InterruptSignalsLocked, SwitchMissed
<1>. QED BY <1>1, <1>2, <1>3, <1>4, <1>5, <1>6 DEF KernelStep

(* The steps that belong to one of the facilities only, but for the switch. *)
Observes ==
  \/ ClockCounts
  \/ \E t \in Task :
       \/ StartTrace(t) \/ EndTrace(t)
       \/ UseStack(t)
       \/ ReportSuspend(t) \/ ReportStart(t) \/ ReportList(t) \/ ReportResume(t)

LEMMA ObservedSteps ==
  DiagnosticsNext <=> KernelStep \/ SwitchObserved \/ Observes
  BY DEF DiagnosticsNext, Observes

LEMMA ObservationKeepsCurrent ==
  ASSUME Observes
  PROVE  UNCHANGED runVars
<1>1. CASE ClockCounts
  BY <1>1 DEF ClockCounts, vars
<1>2. ASSUME NEW t \in Task, StartTrace(t) \/ EndTrace(t) \/ UseStack(t)
      PROVE  UNCHANGED runVars
  BY <1>2 DEF StartTrace, EndTrace, UseStack, vars
<1>3. ASSUME NEW t \in Task,
             ReportSuspend(t) \/ ReportStart(t) \/ ReportList(t)
               \/ ReportResume(t)
      PROVE  UNCHANGED runVars
  BY <1>3 DEF ReportSuspend, SuspendAll, ReportStart, ReportList, ReportResume,
       ResumeAll, vars
<1>. QED BY <1>1, <1>2, <1>3 DEF Observes

-----------------------------------------------------------------------------
(* The kernel's invariants hold of it here: a report leaves them as they are,
   and so does a walk of the termination list, whose marker is then somewhere in
   the view. *)

KernelInv == Typed /\ LockInv /\ StoreInv /\ ahead \in Nat

LEMMA KernelInvInit == DiagnosticsInit => KernelInv
  BY InitTypes, InitLock, InitStore DEF DiagnosticsInit, KernelInv

(* What a step of Diagnostics is to the kernel. *)
LEMMA ObservedKernel ==
  ASSUME [DiagnosticsNext]_dVars
  PROVE  \/ (Next \/ UNCHANGED vars) /\ ahead' = ahead
         \/ ReapHead
         \/ \E t \in Task : ReportSuspend(t) \/ ReportList(t)
<1>1. CASE KernelStep
  BY <1>1 DEF KernelStep, Next, IdleStep, Switch, TCB
<1>2. CASE SwitchObserved
  BY <1>2 DEF SwitchObserved, Next, Switch
<1>3. CASE Observes
  <2>1. ASSUME NEW t \in Task, ReportResume(t)
        PROVE  Next /\ ahead' = ahead
    BY <2>1 DEF ReportResume, CallStep, Next, TCB
  <2>. QED BY <1>3, <2>1 DEF Observes, ClockCounts, StartTrace, EndTrace,
                             UseStack, ReportStart
<1>. QED BY <1>1, <1>2, <1>3, ObservedSteps DEF dVars

(* The task that is reaped waits for it, wherever the marker is. *)
LEMMA ReapedWaits ==
  ASSUME KernelInv, ReapHead
  PROVE  /\ \E t \in TCB : /\ store.generic[t] = xTasksWaitingTermination
                          /\ Reap(t)
         /\ ahead' \in Nat
<1>1. Waiting \in Seq(TCB)
  BY ListNames, ListsDisjoint DEF KernelInv, Typed, Stores, Waiting
<1>2. PICK n \in Nat : n = Len(Waiting) /\ n # 0
  BY <1>1, EmptySeq, LenProperties DEF ReapHead
<1>3. PICK i : i = (ahead % n) + 1
  OBVIOUS
<1>4. i \in 1 .. n
  BY <1>2, <1>3 DEF KernelInv
<1>5. PICK t : t = Waiting[i]
  OBVIOUS
<1>6. t \in TCB /\ Contains(Waiting, t)
  BY <1>1, <1>2, <1>4, <1>5, ElementOfSeq DEF Contains
<1>7. store.generic[t] = xTasksWaitingTermination
  BY <1>6, ListNames
     DEF KernelInv, StoreInv, StoreConsistent, StoreOK, Waiting
<1>8. Reap(t)
  BY <1>2, <1>3, <1>5 DEF ReapHead
<1>9. ahead' \in Nat
  BY <1>2 DEF ReapHead, KernelInv
<1>. QED BY <1>6, <1>7, <1>8, <1>9

LEMMA ReportSuspendKeeps ==
  ASSUME KernelInv, NEW t \in Task, ReportSuspend(t)
  PROVE  KernelInv' /\ UNCHANGED store
<1>. USE DEF KernelInv
<1>1. /\ t \in TCB /\ t # NULL /\ "app" \in CallPoints
      /\ Runs(t) /\ pc[t] = "app"
      /\ SuspendAll(t, "app")
      /\ UNCHANGED queueLock
  BY NullAssumption DEF ReportSuspend, RunsApp, RunsAt, TCB, CallPoints
<1>2. Typed'
  BY <1>1, SuspendAllTypes DEF Typed
<1>3. LockInv'
  BY <1>1 DEF SuspendAll, Runs, InterruptsEnabled, Goto, Typed, taskVars,
       loopVars, runVars, LockInv, WindowsAlone, QuietBeforeStart,
       MaskedUnsuspended, TickOutsideWindows, ReplayedTickCounted,
       LockHolder, Windows
<1>4. StoreInv' /\ UNCHANGED store
  <2>1. /\ UNCHANGED <<store, uxPriority, allocated, pxCurrentTCB,
                       xSchedulerRunning, phase>>
        /\ Goto(t, "app")
    BY <1>1 DEF SuspendAll, listVars, taskVars, runVars, loopVars
  <2>2. LoopCaller' /\ MustBeReady(t)
    BY <1>1, <2>1
       DEF LoopCaller, MustBeReady, Runs, InterruptsEnabled
  <2>. QED BY <1>1, <2>1, <2>2, GotoStore DEF BetweenLists
<1>. QED BY <1>2, <1>3, <1>4 DEF ReportSuspend

(* A list is walked, and in the termination list the marker moves. *)
LEMMA ReportListKeeps ==
  ASSUME KernelInv, NEW t \in Task, ReportList(t)
  PROVE  KernelInv' /\ store'.generic = store.generic
<1>. USE DEF KernelInv
<1>1. /\ UNCHANGED <<uxTopReadyPriority, tickVars, delayVars, taskVars,
                     suspendVars, loopVars, runVars, pc, yieldPending,
                     queueLock>>
      /\ \/ store' = store
         \/ \E l \in Turning :
              ~IsEmpty(store, l) /\ store' = NextEntry(store, l)
  BY DEF ReportList
<1>2. /\ store' \in Stores /\ StoreOK(store')
      /\ store'.generic = store.generic /\ store'.event = store.event
  <2>1. Turning \subseteq Lists
    BY ListNames, ListsDisjoint DEF Turning
  <2>. QED BY <1>1, <2>1, NextEntryType, NextEntryOK
           DEF Typed, StoreInv, StoreConsistent
<1>. USE DEF tickVars, delayVars, taskVars, suspendVars, loopVars, runVars
<1>3. Typed'
  BY <1>1, <1>2 DEF Typed
<1>4. LockInv'
  BY <1>1 DEF LockInv, WindowsAlone, QuietBeforeStart,
       MaskedUnsuspended, TickOutsideWindows, ReplayedTickCounted,
       LockHolder
<1>5. Placement' /\ EventPlacement'
  BY <1>1, <1>2 DEF StoreInv, Placement, BetweenLists, EventPlacement, Blocked,
                    Delayed
<1>6. StoreInv'
  BY <1>1, <1>2, <1>5 DEF StoreInv, StoreConsistent, CurrentAllocated,
       ReadyBeforeStart, LoopCaller, RunningReady, MustBeReady
<1>7. ahead' \in Nat
  <2>1. CASE ahead' = ahead
    BY <2>1
  <2>2. CASE ahead' # ahead
    <3>1. /\ ahead' = (ahead + Len(Waiting) - 1) % Len(Waiting)
          /\ Waiting # <<>>
      BY <2>2 DEF ReportList, AheadAfterWalk, IsEmpty, Waiting
    <3>2. Waiting \in Seq(TCB)
      BY ListNames, ListsDisjoint DEF Typed, Stores, Waiting
    <3>3. Len(Waiting) \in Nat \ {0}
      BY <3>1, <3>2, EmptySeq, LenProperties
    <3>. QED BY <3>1, <3>3
  <2>. QED BY <2>1, <2>2
<1>. QED BY <1>2, <1>3, <1>4, <1>6, <1>7

LEMMA KernelInvStep == KernelInv /\ [DiagnosticsNext]_dVars => KernelInv'
<1>. SUFFICES ASSUME KernelInv, [DiagnosticsNext]_dVars PROVE KernelInv'
  OBVIOUS
<1>1. CASE (Next \/ UNCHANGED vars) /\ ahead' = ahead
  BY <1>1, TypeStep, LockStep, StoreStep DEF KernelInv
<1>2. CASE ReapHead
  BY <1>2, ReapedWaits, ReapTypes, ReapLock, ReapStore DEF KernelInv
<1>. QED BY <1>1, <1>2, ObservedKernel, ReportSuspendKeeps, ReportListKeeps

LEMMA KernelInvariance == DiagnosticsSpec => []KernelInv
  BY KernelInvInit, KernelInvStep, PTL DEF DiagnosticsSpec

(* The tasks a step creates. *)
Made == allocated' \ allocated

(* The running task is not one of them. *)
LEMMA RunningNotMade ==
  ASSUME KernelInv, xSchedulerRunning
  PROVE  pxCurrentTCB \in TCB /\ pxCurrentTCB \notin Made
<1>1. pxCurrentTCB \in TCB
  BY DEF KernelInv, LockInv
<1>2. pxCurrentTCB # NULL
  BY <1>1, NullAssumption DEF TCB
<1>. QED BY <1>1, <1>2 DEF KernelInv, StoreInv, CurrentAllocated, Made

-----------------------------------------------------------------------------
(* The trace *)

(* Tracing only goes on while the scheduler runs, and when a line has been
   written both it and uxPreviousTask name the running task. *)
TraceInv ==
  /\ \E S : trace \in Seq(S)
  /\ xTracing => facility = "trace" /\ xSchedulerRunning
  /\ xTracing /\ trace # <<>> =>
       /\ trace[Len(trace)][2] = pxCurrentTCB
       /\ uxPreviousTask = pxCurrentTCB

(* A line is written for the task that runs now, or it names that one already,
   or the trace stops. *)
LEMMA TraceWritten ==
  ASSUME TraceInv, WriteTraceToBuffer, xSchedulerRunning,
         UNCHANGED <<facility, xSchedulerRunning>>
  PROVE  TraceInv'
<1>1. CASE ~(xTracing /\ uxPreviousTask # pxCurrentTCB')
  BY <1>1 DEF TraceInv, WriteTraceToBuffer, traceVars
<1>2. CASE xTracing /\ uxPreviousTask # pxCurrentTCB' /\ ~TraceHasRoom
  BY <1>2 DEF TraceInv, WriteTraceToBuffer
<1>3. CASE xTracing /\ uxPreviousTask # pxCurrentTCB' /\ TraceHasRoom
  <2> DEFINE line == <<xTickCount, pxCurrentTCB'>>
  <2>1. /\ uxPreviousTask' = pxCurrentTCB' /\ xTracing' = xTracing
        /\ trace' = Append(trace, line)
    BY <1>3 DEF WriteTraceToBuffer
  <2>2. PICK S : trace \in Seq(S)
    BY DEF TraceInv
  <2>3. trace \in Seq(S \cup {line})
    BY <2>2, SeqMonotonic
  <2>4. /\ trace' \in Seq(S \cup {line})
        /\ trace'[Len(trace')] = line
    BY <2>1, <2>3, AppendProperties
  <2>5. line[2] = pxCurrentTCB'
    OBVIOUS
  <2>. HIDE DEF line
  <2>. QED BY <1>3, <2>1, <2>4, <2>5 DEF TraceInv
<1>. QED BY <1>1, <1>2, <1>3

LEMMA TraceStep == KernelInv /\ TraceInv /\ [DiagnosticsNext]_dVars => TraceInv'
<1>. SUFFICES ASSUME KernelInv, TraceInv, [DiagnosticsNext]_dVars
              PROVE  TraceInv'
  OBVIOUS
<1>1. ASSUME UNCHANGED <<facility, traceVars>>, CurrentKept
      PROVE  TraceInv'
  BY <1>1 DEF TraceInv, traceVars, CurrentKept
<1>2. CASE KernelStep
  <2>1. CurrentKept /\ UNCHANGED <<facility, xTracing, trace>>
    BY <1>2, KernelKeepsCurrent DEF KernelStep
  <2>2. uxPreviousTask \notin Made => uxPreviousTask' = uxPreviousTask
    BY <1>2 DEF KernelStep, InitialiseTCBVariables, Made
  <2>. QED BY <2>1, <2>2, RunningNotMade DEF TraceInv, CurrentKept
<1>3. CASE SwitchObserved
  <2>1. /\ xSchedulerRunning /\ xSchedulerRunning' = xSchedulerRunning
        /\ UNCHANGED facility
    BY <1>3 DEF SwitchObserved, SwitchContext, SwitchAllowed, InterruptsEnabled
  <2>2. CASE facility = "trace"
    BY <1>3, <2>1, <2>2, TraceWritten DEF SwitchObserved
  <2>3. CASE facility # "trace"
    BY <1>3, <2>1, <2>3 DEF SwitchObserved, TraceInv, traceVars
  <2>. QED BY <2>2, <2>3
<1>4. ASSUME NEW t \in Task, StartTrace(t)
      PROVE  TraceInv'
  <2>1. <<>> \in Seq({})
    BY EmptySeq
  <2>. QED BY <1>4, <2>1 DEF TraceInv, StartTrace, RunsApp, RunsAt, Runs,
             InterruptsEnabled, vars, runVars
<1>5. ASSUME NEW t \in Task, EndTrace(t)
      PROVE  TraceInv'
  BY <1>5 DEF TraceInv, EndTrace, vars, runVars
<1>6. ASSUME Observes, UNCHANGED <<facility, traceVars>>
      PROVE  TraceInv'
  BY <1>1, <1>6, ObservationKeepsCurrent DEF CurrentKept, runVars
<1>7. CASE Observes
  <2>1. CASE ClockCounts
    BY <1>6, <1>7, <2>1 DEF ClockCounts
  <2>2. ASSUME NEW t \in Task,
               UseStack(t) \/ ReportSuspend(t) \/ ReportStart(t)
                 \/ ReportList(t) \/ ReportResume(t)
        PROVE  TraceInv'
    BY <1>6, <1>7, <2>2 DEF UseStack, ReportSuspend, ReportStart, ReportList,
         ReportResume
  <2>. QED BY <1>4, <1>5, <1>7, <2>1, <2>2 DEF Observes
<1>8. CASE UNCHANGED dVars
  BY <1>1, <1>8 DEF dVars, vars, runVars, CurrentKept
<1>. QED BY <1>2, <1>3, <1>7, <1>8, ObservedSteps

LEMMA TraceInit == DiagnosticsInit => TraceInv
<1>1. <<>> \in Seq({})
  BY EmptySeq
<1>. QED BY <1>1 DEF DiagnosticsInit, TraceInv

(* While the trace is on and has lines, the last one names the running task,
   however often it was stopped and started, or found its buffer full. *)
THEOREM TraceCorrect == DiagnosticsSpec => []TraceShowsRunning
<1>1. TraceInv => TraceShowsRunning
  BY DEF TraceInv, TraceShowsRunning
<1>. QED BY <1>1, TraceInit, TraceStep, KernelInvariance, PTL
         DEF DiagnosticsSpec

-----------------------------------------------------------------------------
(* Run-time statistics *)

Count == 0 .. CounterCount - 1

(* Before the start no time has been counted. *)
TimeInv ==
  /\ clock \in Count /\ ulTaskSwitchedInTime \in Count
  /\ ulRunTimeCounter \in [TCB -> Count]
  /\ ran \in [TCB -> Count]
  /\ ~xSchedulerRunning =>
       clock = ulTaskSwitchedInTime /\ ran = ulRunTimeCounter
  /\ RunTimeExact

(* n % CounterCount, where n is less than two full counts. *)
Wrap(n) == IF n < CounterCount THEN n ELSE n - CounterCount

LEMMA WrapIsModulo ==
  /\ CounterCount \in Nat /\ 0 \in Count /\ Count \subseteq Int
  /\ \A n \in Nat : n < 2 * CounterCount => n % CounterCount = Wrap(n)
  /\ \A m, n \in Count : /\ Wrap(m + n) \in Count
                         /\ (m + n) % CounterCount = Wrap(m + n)
                         /\ (m + CounterCount - n) % CounterCount
                              = Wrap(m + CounterCount - n)
                         /\ Wrap(m + CounterCount - n) \in Count
  /\ \A n \in Count : /\ (n + 1) % CounterCount = Wrap(n + 1)
                      /\ Wrap(n + 1) \in Count
<1>1. CounterCount \in Nat /\ CounterCount > 0
  BY DiagnosticsAssumption
<1>2. \A n \in Nat : n < CounterCount => n % CounterCount = n
  BY <1>1
<1>3. \A n \in Nat : CounterCount <= n /\ n < 2 * CounterCount =>
         n % CounterCount = n - CounterCount
  BY <1>1
<1>4. \A n \in Nat : n < 2 * CounterCount =>
         n % CounterCount = Wrap(n) /\ Wrap(n) \in Count
  BY <1>1, <1>2, <1>3 DEF Wrap, Count
<1>5. \A m, n \in Count :
         /\ m + n \in Nat /\ m + n < 2 * CounterCount
         /\ m + CounterCount - n \in Nat
         /\ m + CounterCount - n < 2 * CounterCount
         /\ n + 1 \in Nat /\ n + 1 < 2 * CounterCount
  BY <1>1 DEF Count
<1>6. 0 \in Count /\ Count \subseteq Int
  BY <1>1 DEF Count
<1>7. \A m, n \in Count : /\ Wrap(m + n) \in Count
                         /\ (m + n) % CounterCount = Wrap(m + n)
  BY <1>4, <1>5
<1>8. \A m, n \in Count : /\ (m + CounterCount - n) % CounterCount
                              = Wrap(m + CounterCount - n)
                         /\ Wrap(m + CounterCount - n) \in Count
  BY <1>4, <1>5
<1>9. \A n \in Count : /\ (n + 1) % CounterCount = Wrap(n + 1)
                      /\ Wrap(n + 1) \in Count
  BY <1>4, <1>5
<1>. QED BY <1>1, <1>4, <1>6, <1>7, <1>8, <1>9

(* What the times of one task come to; since is what Elapsed adds. *)
Exact(really, credited, since) == really = Wrap(credited + since)

LEMMA ElapsedIs ==
  ASSUME clock \in Count, ulTaskSwitchedInTime \in Count
  PROVE  /\ Elapsed = Wrap(clock + CounterCount - ulTaskSwitchedInTime)
         /\ Elapsed \in Count
  BY WrapIsModulo DEF Elapsed

LEMMA ExactTimes ==
  ASSUME NEW credited \in [TCB -> Count], NEW elapsed \in Count,
         NEW current, NEW t \in TCB
  PROVE  (credited[t] + (IF t = current THEN elapsed ELSE 0)) % CounterCount
           = Wrap(credited[t] + (IF t = current THEN elapsed ELSE 0))
<1>1. PICK n \in Count : n = credited[t]
  OBVIOUS
<1>2. PICK m \in Count : m = IF t = current THEN elapsed ELSE 0
  BY WrapIsModulo
<1>. QED BY <1>1, <1>2, WrapIsModulo

LEMMA ExactStands ==
  ASSUME NEW n \in Count
  PROVE  Exact(n, n, 0)
  BY WrapIsModulo DEF Exact, Wrap, Count

(* Crediting a task with the time it has run keeps its times exact. *)
LEMMA ExactCredited ==
  ASSUME NEW really, NEW credited \in Count, NEW since \in Count,
         Exact(really, credited, since)
  PROVE  Exact(really, Wrap(credited + since), 0)
  BY WrapIsModulo DEF Exact, Wrap, Count

(* So does counting on, for what it has really run and for what is elapsed. *)
LEMMA ExactCounts ==
  ASSUME NEW credited \in Count, NEW now \in Count, NEW start \in Count,
         NEW really,
         Exact(really, credited, Wrap(now + CounterCount - start))
  PROVE  Exact(Wrap(really + 1), credited,
               Wrap(Wrap(now + 1) + CounterCount - start))
  BY WrapIsModulo DEF Exact, Wrap, Count

LEMMA TimeStep == KernelInv /\ TimeInv /\ [DiagnosticsNext]_dVars => TimeInv'
<1>. SUFFICES ASSUME KernelInv, TimeInv, [DiagnosticsNext]_dVars
              PROVE  TimeInv'
  OBVIOUS
<1>. USE DEF Exact
<1>1. /\ clock \in Count /\ ulTaskSwitchedInTime \in Count
      /\ ulRunTimeCounter \in [TCB -> Count] /\ ran \in [TCB -> Count]
      /\ Elapsed = Wrap(clock + CounterCount - ulTaskSwitchedInTime)
      /\ Elapsed \in Count
  BY ElapsedIs DEF TimeInv
<1>2. facility = "stats" =>
        \A t \in TCB : Exact(ran[t], ulRunTimeCounter[t],
                             IF t = pxCurrentTCB THEN Elapsed ELSE 0)
  <2>. HIDE DEF Elapsed
  <2>1. PICK elapsed \in Count, credited \in [TCB -> Count] :
           elapsed = Elapsed /\ credited = ulRunTimeCounter
    BY <1>1
  <2>2. PICK current : current = pxCurrentTCB
    OBVIOUS
  <2>3. \A t \in TCB :
          (credited[t] + (IF t = current THEN elapsed ELSE 0)) % CounterCount
            = Wrap(credited[t] + (IF t = current THEN elapsed ELSE 0))
    BY ExactTimes
  <2>. QED BY <2>1, <2>2, <2>3 DEF TimeInv, RunTimeExact
<1>3. ASSUME clock' \in Count, ulTaskSwitchedInTime' \in Count,
             ulRunTimeCounter' \in [TCB -> Count], ran' \in [TCB -> Count],
             \A t \in TCB : Exact(ran'[t], ulRunTimeCounter'[t],
                                  IF t = pxCurrentTCB' THEN Elapsed' ELSE 0)
      PROVE  RunTimeExact'
  <2>1. Elapsed' \in Count
    BY <1>3, WrapIsModulo DEF Elapsed
  <2>. HIDE DEF Elapsed
  <2>2. PICK elapsed \in Count, credited \in [TCB -> Count] :
           elapsed = Elapsed' /\ credited = ulRunTimeCounter'
    BY <1>3, <2>1
  <2>3. PICK current : current = pxCurrentTCB'
    OBVIOUS
  <2>4. \A t \in TCB :
          (credited[t] + (IF t = current THEN elapsed ELSE 0)) % CounterCount
            = Wrap(credited[t] + (IF t = current THEN elapsed ELSE 0))
    BY ExactTimes
  <2>. QED BY <1>3, <2>2, <2>3, <2>4 DEF RunTimeExact
<1>4. \A n \in Count : Wrap(n + CounterCount - n) = 0
  BY WrapIsModulo DEF Wrap, Count
<1>5. ASSUME UNCHANGED <<facility, timeVars>>, CurrentKept
      PROVE  TimeInv'
  <2>1. /\ Elapsed' = Elapsed
        /\ clock' = clock /\ ulTaskSwitchedInTime' = ulTaskSwitchedInTime
        /\ ulRunTimeCounter' = ulRunTimeCounter /\ ran' = ran
    BY <1>5 DEF Elapsed, timeVars
  <2>2. CASE xSchedulerRunning
    BY <1>5, <2>1, <2>2 DEF TimeInv, RunTimeExact, timeVars, CurrentKept
  <2>3. CASE ~xSchedulerRunning
    <3>1. Elapsed = 0 /\ clock = ulTaskSwitchedInTime /\ ran = ulRunTimeCounter
      BY <1>1, <1>4, <2>3 DEF TimeInv
    <3>2. \A t \in TCB : Exact(ran[t], ulRunTimeCounter[t], 0)
      BY <1>1, <3>1, ExactStands
    <3>3. RunTimeExact'
      BY <1>1, <1>3, <2>1, <3>1, <3>2
    <3>. QED BY <1>1, <2>1, <3>1, <3>3 DEF TimeInv
  <2>. QED BY <2>2, <2>3
<1>6. CASE KernelStep
  <2>1. /\ CurrentKept
        /\ clock' = clock /\ ulTaskSwitchedInTime' = ulTaskSwitchedInTime
        /\ facility' = facility
    BY <1>6, KernelKeepsCurrent DEF KernelStep
  <2>2. /\ ran' = [t \in TCB |-> IF t \in Made THEN 0 ELSE ran[t]]
        /\ ulRunTimeCounter' =
             [t \in TCB |-> IF t \in Made THEN 0 ELSE ulRunTimeCounter[t]]
    BY <1>6 DEF KernelStep, InitialiseTCBVariables, Made
  <2>3. Elapsed' = Elapsed
    BY <2>1 DEF Elapsed
  <2>. HIDE DEF Elapsed
  <2>4. 0 \in Count /\ Exact(0, 0, 0)
    <3>1. 0 \in Count
      BY WrapIsModulo
    <3>. HIDE DEF Exact
    <3>. QED BY <3>1, ExactStands
  <2>5. ran' \in [TCB -> Count] /\ ulRunTimeCounter' \in [TCB -> Count]
    BY <1>1, <2>2, <2>4
  <2>6. ~xSchedulerRunning => /\ clock = ulTaskSwitchedInTime /\ Elapsed = 0
                              /\ ran = ulRunTimeCounter
    BY <1>1, <1>4 DEF TimeInv
  <2>7. ran = ulRunTimeCounter => ran' = ulRunTimeCounter'
    BY <2>2
  <2>8. ASSUME NEW t \in TCB, xSchedulerRunning, facility = "stats"
        PROVE  Exact(ran'[t], ulRunTimeCounter'[t],
                     IF t = pxCurrentTCB' THEN Elapsed' ELSE 0)
    <3>1. pxCurrentTCB' = pxCurrentTCB /\ pxCurrentTCB \notin Made
      BY <2>1, <2>8, RunningNotMade DEF CurrentKept
    <3>2. CASE t \in Made
      BY <2>2, <2>4, <3>1, <3>2
    <3>3. CASE t \notin Made
      BY <1>2, <2>2, <2>3, <2>8, <3>1, <3>3
    <3>. QED BY <3>2, <3>3
  <2>9. ASSUME NEW t \in TCB, ~xSchedulerRunning
        PROVE  Exact(ran'[t], ulRunTimeCounter'[t],
                     IF t = pxCurrentTCB' THEN Elapsed' ELSE 0)
    <3>1. Elapsed' = 0 /\ ran'[t] = ulRunTimeCounter'[t] /\ ran'[t] \in Count
      BY <2>3, <2>5, <2>6, <2>7, <2>9
    <3>2. Exact(ran'[t], ran'[t], 0)
      <4>. HIDE DEF Exact
      <4>. QED BY <3>1, ExactStands
    <3>. QED BY <3>1, <3>2
  <2>10. RunTimeExact'
    <3>1. CASE facility # "stats"
      BY <2>1, <3>1 DEF RunTimeExact
    <3>2. CASE facility = "stats"
      BY <1>1, <1>3, <2>1, <2>5, <2>8, <2>9, <3>2
    <3>. QED BY <3>1, <3>2
  <2>. QED BY <1>1, <2>1, <2>5, <2>6, <2>7, <2>10 DEF TimeInv, CurrentKept
<1>7. CASE SwitchObserved
  <2>1. /\ xSchedulerRunning /\ xSchedulerRunning' = xSchedulerRunning
        /\ UNCHANGED <<facility, clock, ran>>
    BY <1>7 DEF SwitchObserved, SwitchContext, SwitchAllowed, InterruptsEnabled
  <2>2. CASE facility # "stats"
    BY <1>7, <2>1, <2>2 DEF SwitchObserved, TimeInv, RunTimeExact
  <2>3. CASE facility = "stats"
    <3>1. /\ ulRunTimeCounter' = [ulRunTimeCounter EXCEPT
                 ![pxCurrentTCB] = (@ + Elapsed) % CounterCount]
          /\ ulTaskSwitchedInTime' = clock /\ clock' = clock
      BY <1>7, <2>1, <2>3 DEF SwitchObserved, AccountRunTime
    <3>2. Elapsed' = 0
      <4>1. Elapsed' = Wrap(clock + CounterCount - clock)
        BY <1>1, <3>1, WrapIsModulo DEF Elapsed
      <4>. QED BY <1>1, <1>4, <4>1
    <3>. HIDE DEF Elapsed
    <3>3. \A t \in TCB : ulRunTimeCounter'[t] =
            IF t = pxCurrentTCB THEN Wrap(ulRunTimeCounter[t] + Elapsed)
            ELSE ulRunTimeCounter[t]
      BY <1>1, <3>1, WrapIsModulo
    <3>4. ulRunTimeCounter' \in [TCB -> Count]
      <4>1. ASSUME NEW t \in TCB
            PROVE  ulRunTimeCounter'[t] \in Count
        <5>1. PICK m \in Count, n \in Count :
                m = ulRunTimeCounter[t] /\ n = Elapsed
          BY <1>1
        <5>2. Wrap(m + n) \in Count
          BY WrapIsModulo
        <5>. QED BY <3>3, <5>1, <5>2
      <4>. QED BY <1>1, <3>1, <4>1
    <3>5. ASSUME NEW t \in TCB
          PROVE  Exact(ran[t], ulRunTimeCounter'[t], 0)
      <4>1. CASE t = pxCurrentTCB
        <5>1. Exact(ran[t], ulRunTimeCounter[t], Elapsed)
          BY <1>2, <2>3, <4>1
        <5>. QED BY <1>1, <3>3, <4>1, <5>1, ExactCredited
      <4>2. CASE t # pxCurrentTCB
        BY <1>2, <2>3, <3>3, <4>2
      <4>. QED BY <4>1, <4>2
    <3>6. RunTimeExact'
      BY <1>1, <1>3, <2>1, <3>1, <3>2, <3>4, <3>5
    <3>. QED BY <1>1, <2>1, <3>1, <3>4, <3>6 DEF TimeInv
  <2>. QED BY <2>2, <2>3
<1>8. CASE ClockCounts
  <2>1. /\ xSchedulerRunning /\ facility = "stats"
        /\ clock' = (clock + 1) % CounterCount
        /\ ran' = [ran EXCEPT ![pxCurrentTCB] = (@ + 1) % CounterCount]
        /\ UNCHANGED <<facility, pxCurrentTCB, xSchedulerRunning,
                       ulRunTimeCounter, ulTaskSwitchedInTime>>
    BY <1>8 DEF ClockCounts, vars, runVars
  <2>2. clock' \in Count /\ clock' = Wrap(clock + 1)
    BY <1>1, <2>1, WrapIsModulo
  <2>3. \A t \in TCB : ran'[t] = IF t = pxCurrentTCB THEN Wrap(ran[t] + 1)
                                 ELSE ran[t]
    BY <1>1, <2>1, WrapIsModulo
  <2>4. ran' \in [TCB -> Count]
    BY <1>1, <2>1, <2>3, WrapIsModulo
  <2>5. Elapsed' = Wrap(Wrap(clock + 1) + CounterCount - ulTaskSwitchedInTime)
    BY <1>1, <2>1, <2>2, WrapIsModulo DEF Elapsed
  <2>. HIDE DEF Elapsed
  <2>6. ASSUME NEW t \in TCB
        PROVE  Exact(ran'[t], ulRunTimeCounter[t],
                     IF t = pxCurrentTCB THEN Elapsed' ELSE 0)
    <3>1. CASE t = pxCurrentTCB
      <4>1. Exact(ran[t], ulRunTimeCounter[t],
                  Wrap(clock + CounterCount - ulTaskSwitchedInTime))
        BY <1>1, <1>2, <2>1, <3>1
      <4>2. Exact(Wrap(ran[t] + 1), ulRunTimeCounter[t],
                  Wrap(Wrap(clock + 1) + CounterCount - ulTaskSwitchedInTime))
        <5>. HIDE DEF Exact
        <5>. QED BY <1>1, <4>1, ExactCounts
      <4>. QED BY <2>3, <2>5, <3>1, <4>2
    <3>2. CASE t # pxCurrentTCB
      BY <1>2, <2>1, <2>3, <3>2
    <3>. QED BY <3>1, <3>2
  <2>7. RunTimeExact'
    BY <1>1, <1>3, <2>1, <2>2, <2>4, <2>6
  <2>. QED BY <1>1, <2>1, <2>2, <2>4, <2>7 DEF TimeInv
<1>9. ASSUME NEW t \in Task,
             StartTrace(t) \/ EndTrace(t) \/ UseStack(t) \/ ReportSuspend(t)
               \/ ReportStart(t) \/ ReportList(t) \/ ReportResume(t)
      PROVE  TimeInv'
  <2>1. CurrentKept
    BY <1>9, ObservationKeepsCurrent DEF Observes, CurrentKept, runVars
  <2>2. UNCHANGED <<facility, timeVars>>
    BY <1>9 DEF StartTrace, EndTrace, UseStack, ReportSuspend, ReportStart,
         ReportList, ReportResume
  <2>. QED BY <1>5, <2>1, <2>2
<1>10. CASE UNCHANGED dVars
  BY <1>5, <1>10 DEF dVars, vars, runVars, CurrentKept
<1>. QED BY <1>6, <1>7, <1>8, <1>9, <1>10, ObservedSteps DEF Observes

LEMMA TimeInit == DiagnosticsInit => TimeInv
<1>. SUFFICES ASSUME DiagnosticsInit PROVE TimeInv
  OBVIOUS
<1>1. CounterCount \in Nat /\ CounterCount > 0
  BY DiagnosticsAssumption
<1>2. /\ clock = 0 /\ ulTaskSwitchedInTime = 0
      /\ ulRunTimeCounter = [t \in TCB |-> 0] /\ ran = [t \in TCB |-> 0]
  BY DEF DiagnosticsInit
<1>3. 0 + CounterCount - 0 = CounterCount /\ CounterCount % CounterCount = 0
  BY <1>1
<1>4. Elapsed = 0
  BY <1>2, <1>3 DEF Elapsed
<1>5. 0 \in Count /\ (0 + 0) % CounterCount = 0
  BY <1>1 DEF Count
<1>. HIDE DEF Elapsed
<1>. QED BY <1>2, <1>4, <1>5 DEF TimeInv, RunTimeExact

(* What a task has been credited with, and for the running one the time since
   it was switched in, is the time it ran, modulo the counter. *)
THEOREM RunTimeCorrect == DiagnosticsSpec => []RunTimeExact
<1>1. TimeInv => RunTimeExact
  BY DEF TimeInv
<1>. QED BY <1>1, TimeInit, TimeStep, KernelInvariance, PTL
         DEF DiagnosticsSpec

-----------------------------------------------------------------------------
(* The stack *)

(* A stack is written no deeper than it has been, and what the second check
   looks at is what was ever written there; only where the checks are compiled
   in are stacks looked at, and before the start none is used. *)
StackInv ==
  /\ stackLeft \in [TCB -> 0 .. StackDepth]
  /\ untouched \in [TCB -> 0 .. StackDepth]
  /\ deepest \in [TCB -> 0 .. StackDepth]
  /\ \A t \in TCB : deepest[t] <= stackLeft[t] /\ deepest[t] <= untouched[t]
  /\ \A t \in TCB : t \in wroteEnd <=> SecondCheckFails(t)
  /\ overflowed \subseteq TCB
  /\ facility # "stack" \/ ~xSchedulerRunning =>
       \A t \in TCB : ~FirstCheckFails(t) /\ ~SecondCheckFails(t)
  /\ ChecksReport

LEMMA MarginType ==
  /\ StackDepth \in Nat /\ StackDepth # 0 /\ StackMargin \in Nat
  /\ StackMargin <= StackDepth
  BY DiagnosticsAssumption

LEMMA MinOfTwo ==
  ASSUME NEW a \in Int, NEW b \in Int
  PROVE  Min({a, b}) = IF a <= b THEN a ELSE b
<1>1. PICK c \in {a, b} : c = IF a <= b THEN a ELSE b
  OBVIOUS
<1>2. /\ \A y \in {a, b} : c <= y
      /\ \A x \in {a, b} : (\A y \in {a, b} : x <= y) => x = c
  BY <1>1
<1>. QED BY <1>1, <1>2 DEF Min

(* What a task does to its own stack. *)
LEMMA StackUsed ==
  ASSUME KernelInv, StackInv, NEW t \in Task, UseStack(t)
  PROVE  StackInv'
<1>. USE DEF FirstCheckFails, SecondCheckFails
<1>1. /\ facility = "stack" /\ xSchedulerRunning /\ t = pxCurrentTCB
      /\ UNCHANGED <<facility, overflowed, pxCurrentTCB, xSchedulerRunning>>
  BY DEF UseStack, RunsApp, RunsAt, Runs, InterruptsEnabled, vars, runVars
<1>2. PICK left, clean \in 0 .. StackDepth :
        /\ clean \in Min({untouched[t], left}) .. untouched[t]
        /\ stackLeft' = [stackLeft EXCEPT ![t] = left]
        /\ untouched' = [untouched EXCEPT ![t] = clean]
        /\ deepest' = [deepest EXCEPT ![t] = Min({@, left})]
        /\ wroteEnd' = IF clean < StackMargin THEN wroteEnd \cup {t}
                       ELSE wroteEnd
  BY DEF UseStack
<1>3. PICK most, deep \in 0 .. StackDepth :
        most = untouched[t] /\ deep = deepest[t] /\ deep <= most
  BY DEF StackInv, TCB
<1>4. /\ Min({most, left}) = IF most <= left THEN most ELSE left
      /\ Min({deep, left}) = IF deep <= left THEN deep ELSE left
  BY MarginType, MinOfTwo
<1>5. PICK new \in 0 .. StackDepth : new = Min({deep, left})
  BY <1>4
<1>6. /\ new <= left /\ new <= clean /\ clean <= most /\ new <= deep
  BY <1>2, <1>3, <1>4, <1>5, MarginType
<1>7. \A u \in TCB :
        /\ stackLeft'[u] = IF u = t THEN left ELSE stackLeft[u]
        /\ untouched'[u] = IF u = t THEN clean ELSE untouched[u]
        /\ deepest'[u] = IF u = t THEN new ELSE deepest[u]
  BY <1>2, <1>3, <1>5 DEF StackInv
<1>8. /\ stackLeft' \in [TCB -> 0 .. StackDepth]
      /\ untouched' \in [TCB -> 0 .. StackDepth]
      /\ deepest' \in [TCB -> 0 .. StackDepth]
  BY <1>2, <1>3, <1>5 DEF StackInv
<1>9. \A u \in TCB : deepest'[u] <= stackLeft'[u]
                        /\ deepest'[u] <= untouched'[u]
  BY <1>6, <1>7 DEF StackInv
<1>10. t \in wroteEnd => clean < StackMargin
  BY <1>3, <1>6, MarginType DEF StackInv, TCB
<1>11. \A u \in TCB : u \in wroteEnd' <=> untouched'[u] < StackMargin
  BY <1>2, <1>7, <1>10 DEF StackInv
<1>12. \A u \in overflowed : deepest'[u] = 0 \/ deepest'[u] < StackMargin
  <2>1. ASSUME NEW u \in overflowed, u = t
        PROVE  deepest'[u] = 0 \/ deepest'[u] < StackMargin
    <3>1. deep = 0 \/ deep < StackMargin
      BY <1>3, <2>1 DEF StackInv, ChecksReport
    <3>2. u \in TCB
      BY DEF StackInv
    <3>. QED BY <1>6, <1>7, <2>1, <3>1, <3>2, MarginType
  <2>2. ASSUME NEW u \in overflowed, u # t
        PROVE  deepest'[u] = 0 \/ deepest'[u] < StackMargin
    BY <1>7, <2>2 DEF StackInv, ChecksReport
  <2>. QED BY <2>1, <2>2
<1>13. \A u \in TCB \ {pxCurrentTCB} :
         stackLeft'[u] = 0 \/ u \in wroteEnd' => u \in overflowed
  BY <1>1, <1>2, <1>7 DEF StackInv, ChecksReport
<1>. QED BY <1>1, <1>8, <1>9, <1>11, <1>12, <1>13 DEF StackInv, ChecksReport

(* A task that is created finds its stack unused, and the running task is not
   created. *)
LEMMA StacksMade ==
  ASSUME KernelInv, StackInv, KernelStep
  PROVE  StackInv'
<1>. USE DEF FirstCheckFails, SecondCheckFails
<1>1. CurrentKept /\ facility' = facility
  BY KernelKeepsCurrent DEF KernelStep
<1>2. /\ stackLeft' =
           [t \in TCB |-> IF t \in Made THEN StackDepth ELSE stackLeft[t]]
      /\ untouched' =
           [t \in TCB |-> IF t \in Made THEN StackDepth ELSE untouched[t]]
      /\ deepest' =
           [t \in TCB |-> IF t \in Made THEN StackDepth ELSE deepest[t]]
      /\ wroteEnd' = wroteEnd \ Made /\ overflowed' = overflowed \ Made
  BY DEF KernelStep, InitialiseTCBVariables, Made
<1>3. StackDepth \in 0 .. StackDepth /\ ~(StackDepth < StackMargin)
  BY MarginType
<1>4. /\ stackLeft' \in [TCB -> 0 .. StackDepth]
      /\ untouched' \in [TCB -> 0 .. StackDepth]
      /\ deepest' \in [TCB -> 0 .. StackDepth]
      /\ overflowed' \subseteq TCB
  BY <1>2, <1>3 DEF StackInv
<1>5. \A t \in TCB : /\ deepest'[t] <= stackLeft'[t]
                     /\ deepest'[t] <= untouched'[t]
                     /\ t \in wroteEnd' <=> untouched'[t] < StackMargin
  BY <1>2, <1>3, MarginType DEF StackInv
<1>6. facility # "stack" \/ ~xSchedulerRunning =>
        \A t \in TCB : stackLeft'[t] # 0 /\ ~(untouched'[t] < StackMargin)
  BY <1>2, <1>3, MarginType DEF StackInv
<1>7. \A t \in overflowed' : deepest'[t] = 0 \/ deepest'[t] < StackMargin
  BY <1>2 DEF StackInv, ChecksReport
<1>8. ASSUME NEW t \in TCB \ {pxCurrentTCB'},
             stackLeft'[t] = 0 \/ t \in wroteEnd'
      PROVE  t \in overflowed'
  <2>1. xSchedulerRunning /\ pxCurrentTCB' = pxCurrentTCB
    BY <1>1, <1>5, <1>6, <1>8 DEF CurrentKept
  <2>2. t \notin Made
    BY <1>2, <1>8, MarginType
  <2>. QED BY <1>2, <1>8, <2>1, <2>2 DEF StackInv, ChecksReport
<1>. QED BY <1>1, <1>4, <1>5, <1>6, <1>7, <1>8
         DEF StackInv, ChecksReport, CurrentKept

(* The checks of a switch see to the task that is switched out. *)
LEMMA StacksChecked ==
  ASSUME KernelInv, StackInv, SwitchObserved
  PROVE  StackInv'
<1>. USE DEF FirstCheckFails, SecondCheckFails
<1>1. /\ xSchedulerRunning /\ xSchedulerRunning' = xSchedulerRunning
      /\ UNCHANGED <<facility, stackLeft, untouched, deepest, wroteEnd>>
  BY DEF SwitchObserved, SwitchContext, SwitchAllowed, InterruptsEnabled
<1>2. CASE facility = "stack"
  <2>1. overflowed' =
          IF \/ stackLeft[pxCurrentTCB] = 0
             \/ untouched[pxCurrentTCB] < StackMargin
          THEN overflowed \cup {pxCurrentTCB} ELSE overflowed
    BY <1>2 DEF SwitchObserved, CheckForStackOverflow
  <2>2. pxCurrentTCB \in TCB
    BY <1>1, RunningNotMade
  <2>3. overflowed' \subseteq TCB
    BY <2>1, <2>2 DEF StackInv
  <2>4. \A t \in overflowed' : deepest[t] = 0 \/ deepest[t] < StackMargin
    <3>1. /\ stackLeft[pxCurrentTCB] = 0 => deepest[pxCurrentTCB] = 0
          /\ untouched[pxCurrentTCB] < StackMargin =>
               deepest[pxCurrentTCB] < StackMargin
      BY <2>2, MarginType DEF StackInv
    <3>. QED BY <2>1, <3>1 DEF StackInv, ChecksReport
  <2>5. \A t \in TCB : stackLeft[t] = 0 \/ t \in wroteEnd => t \in overflowed'
    BY <2>1 DEF StackInv, ChecksReport
  <2>. QED BY <1>1, <1>2, <2>3, <2>4, <2>5 DEF StackInv, ChecksReport
<1>3. CASE facility # "stack"
  <2>1. overflowed' = overflowed
    BY <1>3 DEF SwitchObserved
  <2>. QED BY <1>1, <1>3, <2>1 DEF StackInv, ChecksReport
<1>. QED BY <1>2, <1>3

LEMMA StackStep == KernelInv /\ StackInv /\ [DiagnosticsNext]_dVars => StackInv'
<1>. SUFFICES ASSUME KernelInv, StackInv, [DiagnosticsNext]_dVars
              PROVE  StackInv'
  OBVIOUS
<1>1. ASSUME UNCHANGED <<facility, stackVars>>, CurrentKept
      PROVE  StackInv'
  <2>1. \A t : /\ FirstCheckFails(t)' <=> FirstCheckFails(t)
               /\ SecondCheckFails(t)' <=> SecondCheckFails(t)
    BY <1>1 DEF stackVars, FirstCheckFails, SecondCheckFails
  <2>2. /\ UNCHANGED <<facility, stackLeft, untouched, deepest, wroteEnd,
                       overflowed>>
    BY <1>1 DEF stackVars
  <2>3. CASE xSchedulerRunning
    BY <1>1, <2>1, <2>2, <2>3 DEF StackInv, ChecksReport, CurrentKept
  <2>4. CASE ~xSchedulerRunning
    <3>1. \A t \in TCB : ~FirstCheckFails(t) /\ ~SecondCheckFails(t)
      BY <2>4 DEF StackInv
    <3>2. ChecksReport'
      BY <2>2, <3>1 DEF StackInv, ChecksReport, FirstCheckFails
    <3>. QED BY <2>1, <2>2, <3>1, <3>2 DEF StackInv
  <2>. QED BY <2>3, <2>4
<1>2. CASE KernelStep
  BY <1>2, StacksMade
<1>3. CASE SwitchObserved
  BY <1>3, StacksChecked
<1>4. ASSUME NEW t \in Task, UseStack(t)
      PROVE  StackInv'
  BY <1>4, StackUsed
<1>5. CASE ClockCounts
  BY <1>1, <1>5, ObservationKeepsCurrent
     DEF ClockCounts, Observes, CurrentKept, runVars
<1>6. ASSUME NEW t \in Task,
             StartTrace(t) \/ EndTrace(t) \/ ReportSuspend(t)
               \/ ReportStart(t) \/ ReportList(t) \/ ReportResume(t)
      PROVE  StackInv'
  <2>1. CurrentKept
    BY <1>6, ObservationKeepsCurrent DEF Observes, CurrentKept, runVars
  <2>2. UNCHANGED <<facility, stackVars>>
    BY <1>6 DEF StartTrace, EndTrace, ReportSuspend, ReportStart, ReportList,
         ReportResume
  <2>. QED BY <1>1, <2>1, <2>2
<1>7. CASE UNCHANGED dVars
  BY <1>1, <1>7 DEF dVars, vars, runVars, CurrentKept
<1>. QED BY <1>2, <1>3, <1>4, <1>5, <1>6, <1>7, ObservedSteps DEF Observes

LEMMA StackInit == DiagnosticsInit => StackInv
  BY MarginType
     DEF DiagnosticsInit, StackInv, ChecksReport, FirstCheckFails,
         SecondCheckFails

(* The checks report no task that stayed clear of the end of its stack, and
   every task that is beyond the limit when it stops running, or that wrote into
   the last words at any time since its creation. *)
THEOREM ChecksReportThose == DiagnosticsSpec => []ChecksReport
<1>1. StackInv => ChecksReport
  BY DEF StackInv
<1>. QED BY <1>1, StackInit, StackStep, KernelInvariance, PTL
         DEF DiagnosticsSpec

-----------------------------------------------------------------------------
(* What the operations on a store do to the order of turns in ready lists. *)

(* What concerns event items or other lists leaves the ready lists alone. *)
LEMMA OtherRings ==
  ASSUME NEW L \in Stores, NEW t \in TCB, NEW l \in ReadyLists
  PROVE  /\ RemoveEvent(L, t).ring[l] = L.ring[l]
         /\ RemoveEventIfLinked(L, t).ring[l] = L.ring[l]
         /\ \A e \in EventLists : InsertEndEvent(L, e, t).ring[l] = L.ring[l]
         /\ \A e \in EventLists : \A value :
               InsertEvent(L, e, value, t).ring[l] = L.ring[l]
         /\ \A k \in GenericLists \ ReadyLists : \A value :
               /\ InsertGeneric(L, k, value, t).ring[l] = L.ring[l]
               /\ InsertEndGeneric(L, k, t).ring[l] = L.ring[l]
<1>1. /\ l \in Lists /\ l \in GenericLists /\ l \notin EventLists
      /\ NULL \notin Lists /\ GenericLists \subseteq Lists
      /\ EventLists \subseteq Lists
  BY ListNames, ListsDisjoint
<1>2. L.event[t] \in EventLists \cup {NULL} /\ L.event[t] # l
  BY <1>1 DEF Stores
<1>3. /\ DOMAIN L.ring = Lists
      /\ L = [ring |-> L.ring, generic |-> L.generic, event |-> L.event]
  BY DEF Stores
<1>4. RemoveEvent(L, t).ring[l] = L.ring[l]
  BY <1>1, <1>2, <1>3 DEF RemoveEvent
<1>5. RemoveEventIfLinked(L, t).ring[l] = L.ring[l]
  BY <1>4 DEF RemoveEventIfLinked
<1>6. ASSUME NEW e \in EventLists
      PROVE  /\ InsertEndEvent(L, e, t).ring[l] = L.ring[l]
             /\ \A value : InsertEvent(L, e, value, t).ring[l] = L.ring[l]
  BY <1>1, <1>3 DEF InsertEndEvent, InsertEvent
<1>7. ASSUME NEW k \in GenericLists \ ReadyLists
      PROVE  /\ InsertEndGeneric(L, k, t).ring[l] = L.ring[l]
             /\ \A value : InsertGeneric(L, k, value, t).ring[l] = L.ring[l]
  BY <1>1, <1>3 DEF InsertEndGeneric, InsertGeneric
<1>. QED BY <1>4, <1>5, <1>6, <1>7

(* Taking a task off its list, and putting one at the end of a list. *)
LEMMA UnlinkTurns ==
  ASSUME NEW L \in Stores, StoreOK(L), NEW t \in TCB, L.generic[t] # NULL,
         NEW l \in ReadyLists, NEW x
  PROVE  KeepsTurn(L.ring[l], RemoveGeneric(L, t).ring[l], x)
<1>1. l \in Lists /\ DOMAIN L.ring = Lists /\ L.ring[l] \in Seq(TCB)
  BY ListNames, ListsDisjoint DEF Stores
<1>2. IsInjective(L.ring[l])
  BY <1>1 DEF StoreOK
<1>3. CASE L.generic[t] = l
  <2>1. RemoveGeneric(L, t).ring[l] = ViewRemove(L.ring[l], t)
    BY <1>1, <1>3 DEF RemoveGeneric, Stores
  <2>. QED BY <1>1, <1>2, <2>1, ViewRemoveKeepsTurns
<1>4. CASE L.generic[t] # l
  <2>1. RemoveGeneric(L, t).ring[l] = L.ring[l]
    BY <1>1, <1>4 DEF RemoveGeneric, Stores
  <2>. QED BY <2>1, SameKeepsTurns
<1>. QED BY <1>3, <1>4

LEMMA LinkTurns ==
  ASSUME NEW L \in Stores, NEW t \in TCB, NEW k \in GenericLists,
         NEW l \in ReadyLists, NEW x
  PROVE  KeepsTurn(L.ring[l], InsertEndGeneric(L, k, t).ring[l], x)
<1>1. l \in Lists /\ DOMAIN L.ring = Lists /\ L.ring[l] \in Seq(TCB)
  BY ListNames, ListsDisjoint DEF Stores
<1>2. CASE k = l
  <2>1. InsertEndGeneric(L, k, t).ring[l] = ViewInsertEnd(L.ring[l], t)
    BY <1>1, <1>2 DEF InsertEndGeneric, Stores
  <2>. QED BY <1>1, <2>1, ViewInsertEndKeepsTurns
<1>3. CASE k # l
  <2>1. InsertEndGeneric(L, k, t).ring[l] = L.ring[l]
    BY <1>1, <1>3 DEF InsertEndGeneric, Stores
  <2>. QED BY <2>1, SameKeepsTurns
<1>. QED BY <1>2, <1>3

-----------------------------------------------------------------------------
(* The turns of task x in the step: it keeps its turn in a ready list it stays
   in. *)
TurnKept(x) ==
  \A l \in ReadyLists :
    store.generic[x] = l /\ store'.generic[x] = l =>
      KeepsTurn(store.ring[l], store'.ring[l], x)

(* The suspended and the termination list are used by the functions that are
   compiled in only. *)
UsedOnly(l) ==
  /\ l = xSuspendedTaskList => "vTaskSuspend" \in Include
  /\ l = xTasksWaitingTermination => "vTaskDelete" \in Include

UsedLists == \A t \in TCB : UsedOnly(store.generic[t])

(* What every step but a context switch does to the scheduler lists. *)
ListStep ==
  \A x \in TCB :
    /\ TurnKept(x)
    /\ store'.generic[x] = store.generic[x] \/ UsedOnly(store'.generic[x])

LEMMA UsedNames ==
  /\ \A l \in ReadyLists \cup DelayLists \cup {NULL} : UsedOnly(l)
  /\ "vTaskSuspend" \in Include => UsedOnly(xSuspendedTaskList)
  /\ "vTaskDelete" \in Include => UsedOnly(xTasksWaitingTermination)
  BY ListNames, ListsDisjoint DEF UsedOnly

(* A step that changes no ready list. *)
LEMMA StoreStays ==
  ASSUME UNCHANGED store
  PROVE  ListStep
  BY SameKeepsTurns DEF ListStep, TurnKept

LEMMA RingsStay ==
  ASSUME store'.generic = store.generic,
         \A l \in ReadyLists : store'.ring[l] = store.ring[l]
  PROVE  ListStep
  BY SameKeepsTurns DEF ListStep, TurnKept

(* A step that takes a task off its scheduler list, puts one at the end of a
   list, or into a sorted one. *)
LEMMA UnlinkedStep ==
  ASSUME Typed, StoreConsistent, NEW t \in TCB, store.generic[t] # NULL,
         store' = RemoveGeneric(store, t)
  PROVE  ListStep
<1>1. store'.generic = [store.generic EXCEPT ![t] = NULL]
  BY RemoveGenericOK DEF Typed, StoreConsistent
<1>2. \A x \in TCB : store'.generic[x] = store.generic[x]
                       \/ UsedOnly(store'.generic[x])
  BY <1>1, UsedNames DEF Typed, Stores
<1>3. \A x \in TCB : TurnKept(x)
  BY UnlinkTurns DEF TurnKept, Typed, StoreConsistent
<1>. QED BY <1>2, <1>3 DEF ListStep

LEMMA LinkedStep ==
  ASSUME Typed, StoreConsistent, NEW t \in TCB, store.generic[t] = NULL,
         NEW k \in GenericLists, UsedOnly(k),
         store' = InsertEndGeneric(store, k, t)
  PROVE  ListStep
<1>1. store'.generic = [store.generic EXCEPT ![t] = k]
  BY InsertEndGenericOK DEF Typed, StoreConsistent
<1>2. \A x \in TCB : store'.generic[x] = store.generic[x]
                       \/ UsedOnly(store'.generic[x])
  BY <1>1 DEF Typed, Stores
<1>3. \A x \in TCB : TurnKept(x)
  BY LinkTurns DEF TurnKept, Typed
<1>. QED BY <1>2, <1>3 DEF ListStep

LEMMA SortedStep ==
  ASSUME Typed, StoreConsistent, NEW t \in TCB, store.generic[t] = NULL,
         NEW k \in DelayLists, NEW value,
         store' = InsertGeneric(store, k, value, t)
  PROVE  ListStep
<1>0. k \in GenericLists \ ReadyLists
  BY ListNames
<1>1. store'.generic = [store.generic EXCEPT ![t] = k]
  BY <1>0, InsertGenericOK DEF Typed, StoreConsistent
<1>2. \A x \in TCB : store'.generic[x] = store.generic[x]
                       \/ UsedOnly(store'.generic[x])
  BY <1>1, UsedNames DEF Typed, Stores
<1>3. \A l \in ReadyLists : store'.ring[l] = store.ring[l]
  BY <1>0, OtherRings DEF Typed
<1>. QED BY <1>2, <1>3, SameKeepsTurns DEF ListStep, TurnKept

(* The ways a task is taken off the lists it is in. *)
TakenOff(M, t) ==
  \/ M = RemoveGeneric(store, t)
  \/ M = RemoveEventIfLinked(RemoveGeneric(store, t), t)
  \/ store.event[t] # NULL /\ M = RemoveGeneric(RemoveEvent(store, t), t)

(* All of them leave a well-formed store in which only the task is off its
   list, and keep the turns in the ready lists. *)
LEMMA TakenOffStore ==
  ASSUME Typed, StoreConsistent, NEW t \in TCB, store.generic[t] # NULL,
         NEW M, TakenOff(M, t)
  PROVE  /\ M \in Stores /\ StoreOK(M)
         /\ M.generic = [store.generic EXCEPT ![t] = NULL]
         /\ \A l \in ReadyLists : \A x : KeepsTurn(store.ring[l], M.ring[l], x)
<1>. USE DEF Typed, StoreConsistent
<1>1. CASE M = RemoveGeneric(store, t)
  BY <1>1, RemoveGenericType, RemoveGenericOK, UnlinkTurns
<1>2. CASE M = RemoveEventIfLinked(RemoveGeneric(store, t), t)
  <2>1. /\ RemoveGeneric(store, t) \in Stores
        /\ \A l \in ReadyLists : M.ring[l] = RemoveGeneric(store, t).ring[l]
    BY <1>2, RemoveGenericType, OtherRings
  <2>2. /\ M \in Stores /\ StoreOK(M)
        /\ M.generic = [store.generic EXCEPT ![t] = NULL]
    BY <1>2, UnlinkTaskOK
  <2>. QED BY <2>1, <2>2, UnlinkTurns
<1>3. CASE store.event[t] # NULL /\ M = RemoveGeneric(RemoveEvent(store, t), t)
  <2> DEFINE L == RemoveEvent(store, t)
  <2>1. /\ L \in Stores /\ StoreOK(L) /\ L.generic = store.generic
        /\ \A l \in ReadyLists : L.ring[l] = store.ring[l]
    BY <1>3, RemoveEventType, RemoveEventOK, OtherRings
  <2>. HIDE DEF L
  <2>2. M = RemoveGeneric(L, t)
    BY <1>3 DEF L
  <2>3. \A l \in ReadyLists : \A x : KeepsTurn(L.ring[l], M.ring[l], x)
    BY <2>1, <2>2, UnlinkTurns
  <2>4. /\ M \in Stores /\ StoreOK(M)
        /\ M.generic = [L.generic EXCEPT ![t] = NULL]
    <3>1. L.generic[t] # NULL
      BY <2>1
    <3>2. /\ StoreOK(RemoveGeneric(L, t))
          /\ RemoveGeneric(L, t).generic = [L.generic EXCEPT ![t] = NULL]
      BY <2>1, <3>1, RemoveGenericOK
    <3>3. RemoveGeneric(L, t) \in Stores
      BY <2>1, RemoveGenericType
    <3>. QED BY <2>2, <3>2, <3>3
  <2>. QED BY <2>1, <2>3, <2>4
<1>. QED BY <1>1, <1>2, <1>3 DEF TakenOff

(* A step that moves a task to the end of a list other than its own. *)
LEMMA MovedStep ==
  ASSUME Typed, StoreConsistent, NEW t \in TCB, store.generic[t] # NULL,
         NEW k \in GenericLists, UsedOnly(k),
         store.generic[t] # k \/ k \notin ReadyLists,
         NEW M, TakenOff(M, t), store' = InsertEndGeneric(M, k, t)
  PROVE  ListStep
<1>1. /\ M \in Stores /\ StoreOK(M)
      /\ M.generic = [store.generic EXCEPT ![t] = NULL]
      /\ \A l \in ReadyLists : \A x : KeepsTurn(store.ring[l], M.ring[l], x)
  BY TakenOffStore
<1>2. store'.generic = [store.generic EXCEPT ![t] = k]
  <2>1. DOMAIN store.generic = TCB
    BY DEF Typed, Stores
  <2>. QED BY <1>1, <2>1, LinkTaskOK
<1>3. \A x \in TCB : store'.generic[x] = store.generic[x]
                       \/ UsedOnly(store'.generic[x])
  BY <1>2 DEF Typed, Stores
<1>4. ASSUME NEW x \in TCB, NEW l \in ReadyLists,
             store.generic[x] = l, store'.generic[x] = l
      PROVE  KeepsTurn(store.ring[l], store'.ring[l], x)
  <2>1. x # t
    BY <1>2, <1>4 DEF Typed, Stores
  <2>2. M.generic[x] = l /\ l \in GenericLists
    BY <1>1, <1>4, <2>1, ListNames DEF Typed, Stores
  <2>3. Contains(M.ring[l], x)
    BY <1>1, <2>2 DEF StoreOK
  <2>4. KeepsTurn(M.ring[l], store'.ring[l], x)
    BY <1>1, LinkTurns
  <2>. QED BY <1>1, <2>3, <2>4, KeepsTurnTransitive
<1>. QED BY <1>3, <1>4 DEF ListStep, TurnKept

(* A blocked task is readied. *)
LEMMA ReadiedStep ==
  ASSUME Typed, StoreConsistent, NEW t \in TCB, Blocked(t),
         NEW M, TakenOff(M, t), AddTaskToReadyQueue(M, t, uxPriority[t])
  PROVE  ListStep
<1>1. PICK k : k = pxReadyTasksLists(uxPriority[t])
  OBVIOUS
<1>2. k \in ReadyLists /\ k \in GenericLists
  BY <1>1, ListNames DEF Typed
<1>3. store.generic[t] # NULL /\ store.generic[t] # k
  BY <1>2, ListNames, ListsDisjoint DEF Blocked, Delayed
<1>4. UsedOnly(k)
  BY <1>2, UsedNames
<1>5. store' = InsertEndGeneric(M, k, t)
  BY <1>1 DEF AddTaskToReadyQueue
<1>. QED BY <1>2, <1>3, <1>4, <1>5, MovedStep

(* Each action of the kernel is one of these steps. *)
LEMMA CreateLists ==
  ASSUME Typed, LockInv, StoreInv, NEW t \in TCB,
         NEW p \in RequestedPriority, Create(t, p)
  PROVE  ListStep
<1>1. FirstFound
  BY DEF StoreInv, CurrentAllocated, FirstFound
<1>2. /\ t \notin allocated /\ uxPriority'[t] \in Priority
      /\ store'.generic = [store.generic EXCEPT
                             ![t] = pxReadyTasksLists(uxPriority'[t])]
  BY <1>1, CreateStore DEF StoreInv
<1>3. PICK k : k = pxReadyTasksLists(Capped(p))
  OBVIOUS
<1>4. p \in Nat /\ Capped(p) \in Priority
  BY CappedType, PrioritiesAssumption DEF RequestedPriority
<1>5. k \in ReadyLists /\ k \in GenericLists /\ UsedOnly(k)
  BY <1>3, <1>4, ListNames, UsedNames
<1>6. CASE pxCurrentTCB = NULL /\ uxCurrentNumberOfTasks + 1 = 1
  <2>1. allocated = {}
    BY <1>6 DEF StoreInv, CurrentAllocated
  <2>2. \A x \in TCB : store.generic[x] = NULL
    BY <2>1 DEF StoreInv, Placement
  <2>3. \A x \in TCB : TurnKept(x)
    BY <2>2, ListNames, ListsDisjoint DEF TurnKept
  <2>4. pxReadyTasksLists(uxPriority'[t]) \in ReadyLists
    BY <1>2, ListNames
  <2>5. \A x \in TCB : store'.generic[x] = store.generic[x]
                         \/ UsedOnly(store'.generic[x])
    BY <1>2, <2>4, UsedNames DEF Typed, Stores
  <2>. QED BY <2>3, <2>5 DEF ListStep
<1>7. CASE ~(pxCurrentTCB = NULL /\ uxCurrentNumberOfTasks + 1 = 1)
  <2>1. store' = InsertEndGeneric(store, k, t)
    BY <1>3, <1>7 DEF Create, AddTaskToReadyQueue
  <2>2. store.generic[t] = NULL
    BY <1>2 DEF StoreInv, Placement
  <2>. QED BY <1>5, <2>1, <2>2, LinkedStep DEF StoreInv
<1>. QED BY <1>6, <1>7

LEMMA SignalLists ==
  ASSUME Typed, LockInv, StoreInv, phase = "run", NEW e \in Event,
         HasWaiter(e), RemoveFromEventList(e), UNCHANGED taskVars
  PROVE  ListStep
<1>1. PICK t : t = OwnerOfHead(store, EventList(e))
  OBVIOUS
<1>2. /\ t \in TCB
      /\ uxSchedulerSuspended = 0 => Blocked(t)
  BY <1>1, SignalEffect DEF Readied
<1>3. store.event[t] # NULL
  BY <1>1, HeadEvent, ListNames, ListsDisjoint DEF HasWaiter
<1>4. CASE ListsAccessible
  <2>1. AddTaskToReadyQueue(RemoveGeneric(RemoveEvent(store, t), t), t,
                            uxPriority[t])
    BY <1>1, <1>4 DEF RemoveFromEventList
  <2>2. PICK M : M = RemoveGeneric(RemoveEvent(store, t), t)
    OBVIOUS
  <2>3. TakenOff(M, t)
    BY <1>3, <2>2 DEF TakenOff
  <2>4. Blocked(t)
    BY <1>2, <1>4 DEF ListsAccessible
  <2>. QED BY <1>2, <2>1, <2>2, <2>3, <2>4, ReadiedStep DEF StoreInv
<1>5. CASE ~ListsAccessible
  <2>1. store' = InsertEndEvent(RemoveEvent(store, t), xPendingReadyList, t)
    BY <1>1, <1>5 DEF RemoveFromEventList
  <2>2. store'.generic = store.generic
    BY <2>1, EventOnlyMoves DEF Typed
  <2>3. RemoveEvent(store, t) \in Stores /\ xPendingReadyList \in EventLists
    BY <1>2, RemoveEventType, ListNames DEF Typed
  <2>4. ASSUME NEW l \in ReadyLists PROVE store'.ring[l] = store.ring[l]
    <3>1. RemoveEvent(store, t).ring[l] = store.ring[l]
      BY <1>2, OtherRings DEF Typed
    <3>2. store'.ring[l] = RemoveEvent(store, t).ring[l]
      BY <1>2, <2>1, <2>3, OtherRings
    <3>. QED BY <3>1, <3>2
  <2>. QED BY <2>2, <2>4, RingsStay
<1>. QED BY <1>4, <1>5

LEMMA ResumedLists ==
  ASSUME Typed, StoreConsistent, NEW t \in TCB, IsTaskSuspended(t),
         AddTaskToReadyQueue(RemoveGeneric(store, t), t, uxPriority[t])
  PROVE  ListStep
<1>1. Blocked(t)
  BY DEF IsTaskSuspended, Blocked
<1>2. TakenOff(RemoveGeneric(store, t), t)
  BY DEF TakenOff
<1>. QED BY <1>1, <1>2, ReadiedStep

LEMMA BootLists ==
  ASSUME Typed, LockInv, StoreInv, Boot
  PROVE  ListStep
<1>1. PICK t \in TCB, p \in RequestedPriority : Create(t, p)
  BY PrioritiesAssumption
     DEF Boot, CreateBeforeStart, StartScheduler, TCB, RequestedPriority
<1>. QED BY <1>1, CreateLists

LEMMA CallStepLists ==
  ASSUME Typed, LockInv, StoreInv, NEW t \in TCB, CallStep(t)
  PROVE  ListStep
<1>. USE DEF tickVars, listVars, delayVars, taskVars, suspendVars, loopVars,
             runVars
<1>1. CASE YieldWithinAPI(t) \/ ResumeAll(t)
  BY <1>1, StoreStays DEF YieldWithinAPI, RequestSwitch, ResumeAll
<1>2. ASSUME pc[t] \in {"delay", "until", "placeGeneric"}, Runs(t),
             store' = RemoveGeneric(store, t)
      PROVE  ListStep
  <2>1. store.generic[t] # NULL
    BY <1>2, RunningTask, ListNames, ListsDisjoint
  <2>. QED BY <1>2, <2>1, UnlinkedStep DEF StoreInv
<1>3. CASE DelayUnlink(t)
  BY <1>2, <1>3 DEF DelayUnlink, UnlinkToWakeAt, RunsAt
<1>4. CASE UntilDecide(t)
  <2>1. \/ store' = RemoveGeneric(store, t)
        \/ store' = store
    BY <1>4 DEF UntilDecide, UnlinkToWakeAt
  <2>. QED BY <1>2, <1>4, <2>1, StoreStays DEF UntilDecide, RunsAt
<1>5. CASE PlaceUnlink(t)
  BY <1>2, <1>5 DEF PlaceUnlink, RunsAt
<1>6. ASSUME BetweenLists(t), Runs(t)
      PROVE  store.generic[t] = NULL
  <2>1. t \in allocated
    BY <1>6, RunningTask
  <2>. QED BY <1>6, <2>1 DEF StoreInv, Placement
<1>7. CASE DelayInsert(t)
  <2>1. DelayListFor(xItemValue[t]) \in DelayLists
    BY DEF DelayListFor, Typed
  <2>2. store.generic[t] = NULL
    BY <1>6, <1>7 DEF DelayInsert, RunsAt, BetweenLists
  <2>. QED BY <1>7, <2>1, <2>2, SortedStep DEF DelayInsert, StoreInv
<1>8. CASE PlaceInsert(t)
  <2>1. DelayListFor(xItemValue'[t]) \in DelayLists
    BY DEF DelayListFor, Typed
  <2>2. store.generic[t] = NULL
    BY <1>6, <1>8 DEF PlaceInsert, RunsAt, BetweenLists
  <2>3. \/ /\ store' = InsertEndGeneric(store, xSuspendedTaskList, t)
           /\ "vTaskSuspend" \in Include
        \/ store' = InsertGeneric(store, DelayListFor(xItemValue'[t]),
                                  xItemValue', t)
    BY <1>8 DEF PlaceInsert
  <2>4. xSuspendedTaskList \in GenericLists
    BY ListNames
  <2>5. CASE store' = InsertEndGeneric(store, xSuspendedTaskList, t)
             /\ "vTaskSuspend" \in Include
    BY <2>2, <2>4, <2>5, UsedNames, LinkedStep DEF StoreInv
  <2>6. CASE store' = InsertGeneric(store, DelayListFor(xItemValue'[t]),
                                    xItemValue', t)
    <3>1. PICK value : value = xItemValue'
      OBVIOUS
    <3>2. PICK k : k = DelayListFor(xItemValue'[t])
      OBVIOUS
    <3>3. store' = InsertGeneric(store, k, value, t) /\ k \in DelayLists
      BY <2>1, <2>6, <3>1, <3>2
    <3>. QED BY <2>2, <3>3, SortedStep DEF StoreInv
  <2>. QED BY <2>3, <2>5, <2>6
<1>9. CASE PlaceEventItem(t)
  <2>1. PICK k, value :
          k \in EventLists /\ store' = InsertEvent(store, k, value, t)
    BY <1>9, ListNames DEF PlaceEventItem
  <2>2. InsertEvent(store, k, value, t).generic = store.generic
    BY DEF InsertEvent, Typed, Stores
  <2>3. \A l \in ReadyLists : store'.ring[l] = store.ring[l]
    BY <2>1, OtherRings DEF Typed
  <2>. QED BY <2>1, <2>2, <2>3, RingsStay
<1>10. CASE QueueUnlock(t)
  <2>1. phase = "run" /\ UNCHANGED taskVars
    BY <1>10 DEF QueueUnlock, RunsAt, Runs, InterruptsEnabled
  <2>2. ASSUME NEW e \in Event, HasWaiter(e), RemoveFromEventList(e)
        PROVE  ListStep
    BY <2>1, <2>2, SignalLists
  <2>. QED BY <1>10, <2>2, StoreStays DEF QueueUnlock
<1>. QED BY <1>1, <1>3, <1>4, <1>5, <1>7, <1>8, <1>9, <1>10 DEF CallStep

LEMMA CallLists ==
  ASSUME Typed, LockInv, StoreInv, NEW c \in Task, Call(c)
  PROVE  ListStep
<1>. USE DEF tickVars, listVars, delayVars, suspendVars, loopVars, runVars
<1>0. c \in TCB
  BY DEF TCB
<1>1. ASSUME NEW t \in Task, NEW p \in RequestedPriority, CreateTask(c, t, p)
      PROVE  ListStep
  BY <1>1, CreateLists DEF CreateTask, TCB
<1>2. CASE \/ AppSuspendAll(c) \/ TaskYield(c) \/ DelayZero(c)
           \/ DelaySuspend(c) \/ DelayUntilSuspend(c)
           \/ \E e \in Event : QueueSuspend(c, e)
  BY <1>2, StoreStays
     DEF AppSuspendAll, TaskYield, RequestSwitch, DelayZero, DelaySuspend,
         DelayUntilSuspend, QueueSuspend, SuspendAll
<1>3. ASSUME NEW e \in Event, TaskSignals(c, e)
      PROVE  ListStep
  BY <1>3, SignalLists DEF TaskSignals, MayBlock, RunsApp, RunsAt, Runs,
                           InterruptsEnabled
<1>4. ASSUME NEW t \in Live, Runs(c), pc[c] = "app"
      PROVE  t \in TCB /\ store.generic[t] # NULL
  <2>1. t \in allocated /\ t \in TCB
    BY DEF Live, Typed
  <2>2. ~BetweenLists(t)
    BY <1>0, <1>4, <2>1, RunningTask DEF BetweenLists
  <2>. QED BY <2>1, <2>2, InOneList DEF StoreInv
<1>5. ASSUME NEW t \in Live, Runs(c), pc[c] = "app",
             NEW k \in {xSuspendedTaskList, xTasksWaitingTermination},
             UsedOnly(k),
             store' = InsertEndGeneric(
                        RemoveEventIfLinked(RemoveGeneric(store, t), t), k, t)
      PROVE  ListStep
  <2>1. k \in GenericLists /\ k \notin ReadyLists
    BY ListNames
  <2>2. PICK M : M = RemoveEventIfLinked(RemoveGeneric(store, t), t)
    OBVIOUS
  <2>3. TakenOff(M, t) /\ store' = InsertEndGeneric(M, k, t)
    BY <1>5, <2>2 DEF TakenOff
  <2>4. t \in TCB /\ store.generic[t] # NULL
    BY <1>4, <1>5
  <2>. QED BY <1>5, <2>1, <2>3, <2>4, MovedStep DEF StoreInv
<1>6. ASSUME NEW t \in Task, SuspendTask(c, t) \/ DeleteTask(c, t)
      PROVE  ListStep
  BY <1>5, <1>6, UsedNames
     DEF SuspendTask, DeleteTask, Terminate, RunsApp, RunsAt
<1>7. ASSUME NEW t \in Task, ResumeTask(c, t)
      PROVE  ListStep
  BY <1>7, ResumedLists DEF ResumeTask, StoreInv, TCB
<1>8. ASSUME NEW t \in Task, NEW p \in RequestedPriority, PrioritySet(c, t, p)
      PROVE  ListStep
  <2>1. PICK new : new = Capped(p)
    OBVIOUS
  <2>2. new \in Priority
    BY <2>1, CappedType, PrioritiesAssumption DEF RequestedPriority
  <2>3. /\ new # uxPriority[t] /\ t \in TCB /\ uxPriority[t] \in Priority
        /\ \/ /\ store.generic[t] = pxReadyTasksLists(uxPriority[t])
              /\ AddTaskToReadyQueue(RemoveGeneric(store, t), t, new)
           \/ UNCHANGED store
    BY <1>8, <2>1 DEF PrioritySet, TCB, Typed
  <2>4. CASE /\ store.generic[t] = pxReadyTasksLists(uxPriority[t])
             /\ AddTaskToReadyQueue(RemoveGeneric(store, t), t, new)
    <3>1. PICK k : k = pxReadyTasksLists(new)
      OBVIOUS
    <3>2. /\ k \in ReadyLists /\ k \in GenericLists
          /\ store.generic[t] # k /\ store.generic[t] # NULL
      BY <2>2, <2>3, <2>4, <3>1, ListNames, ListsDisjoint
    <3>3. UsedOnly(k)
      BY <3>2, UsedNames
    <3>4. /\ TakenOff(RemoveGeneric(store, t), t)
          /\ store' = InsertEndGeneric(RemoveGeneric(store, t), k, t)
      BY <2>4, <3>1 DEF TakenOff, AddTaskToReadyQueue
    <3>. QED BY <2>3, <3>2, <3>3, <3>4, MovedStep DEF StoreInv
  <2>. QED BY <2>3, <2>4, StoreStays
<1>. QED BY <1>1, <1>2, <1>3, <1>6, <1>7, <1>8 DEF Call

LEMMA ReapLists ==
  ASSUME Typed, StoreConsistent, NEW t \in TCB,
         store.generic[t] = xTasksWaitingTermination, Reap(t)
  PROVE  ListStep
<1>1. store.generic[t] # NULL
  BY ListNames, ListsDisjoint
<1>. QED BY <1>1, UnlinkedStep DEF Reap

LEMMA IdleLists ==
  ASSUME Typed, LockInv, StoreInv, IdleStep
  PROVE  ListStep
<1>1. CASE IdleSuspend \/ IdleReadList \/ IdleLoop
  BY <1>1, StoreStays
     DEF IdleSuspend, SuspendAll, IdleReadList, IdleLoop, listVars
<1>2. CASE IdleReap
  <2>1. PICK t : t = OwnerOfHead(store, xTasksWaitingTermination)
    OBVIOUS
  <2>2. t \in allocated /\ store.generic[t] = xTasksWaitingTermination
    BY <1>2, <2>1, HeadGeneric, ListNames DEF StoreInv, IdleReap
  <2>3. Reap(t)
    BY <1>2, <2>1 DEF IdleReap
  <2>. QED BY <2>2, <2>3, ReapLists DEF StoreInv, Typed
<1>. QED BY <1>1, <1>2 DEF IdleStep

LEMMA MaskedLists ==
  ASSUME Typed, LockInv, StoreInv, MaskedStep
  PROVE  ListStep
<1>1. CASE DrainPending
  <2>1. PICK t : t = OwnerOfHead(store, xPendingReadyList)
    OBVIOUS
  <2>2. store.event[t] = xPendingReadyList
    BY <1>1, <2>1, HeadEvent, ListNames DEF DrainPending, PendingDrained
  <2>3. t \in TCB /\ Blocked(t)
    BY <1>1, <2>1, DrainEffect DEF Readied, Relinked
  <2>4. PICK M : M = RemoveGeneric(RemoveEvent(store, t), t)
    OBVIOUS
  <2>5. TakenOff(M, t)
    BY <2>2, <2>4, ListNames, ListsDisjoint DEF TakenOff
  <2>6. AddTaskToReadyQueue(M, t, uxPriority[t])
    BY <1>1, <2>1, <2>4 DEF DrainPending
  <2>. QED BY <2>3, <2>5, <2>6, ReadiedStep DEF StoreInv
<1>2. CASE WakeHead
  <2>1. PICK t : t = OwnerOfHead(store, pxDelayedTaskList)
    OBVIOUS
  <2>2. t \in TCB /\ Blocked(t)
    BY <1>2, <2>1, WakeEffect DEF Readied, Relinked
  <2>3. PICK M : M = RemoveEventIfLinked(RemoveGeneric(store, t), t)
    OBVIOUS
  <2>4. TakenOff(M, t)
    BY <2>3 DEF TakenOff
  <2>5. AddTaskToReadyQueue(M, t, uxPriority[t])
    BY <1>2, <2>1, <2>3 DEF WakeHead
  <2>. QED BY <2>2, <2>4, <2>5, ReadiedStep DEF StoreInv
<1>3. CASE \/ DrainDone \/ ReplayTick \/ ReplayTickDone \/ ResumeAllDone
           \/ TickInterruptDone
  BY <1>3, StoreStays DEF DrainDone, ReplayTick, ReplayTickDone, ResumeAllDone,
                          TickInterruptDone, listVars
<1>. QED BY <1>1, <1>2, <1>3 DEF MaskedStep

LEMMA InterruptLists ==
  ASSUME Typed, LockInv, StoreInv, TickISR \/ OtherISR \/ SwitchMissed
  PROVE  ListStep
<1>1. CASE \/ TickISR \/ SwitchMissed
           \/ \E e \in Event : InterruptSignalsLocked(e)
  BY <1>1, StoreStays DEF TickISR, TickInterrupt, TickInterruptMissed,
              SwitchMissed, InterruptSignalsLocked, listVars
<1>2. ASSUME NEW t \in Task, ResumeFromISR(t)
      PROVE  ListStep
  <2>1. IsTaskSuspended(t) /\ t \in TCB
    BY <1>2 DEF ResumeFromISR, TCB
  <2>2. CASE ListsAccessible
    BY <1>2, <2>1, <2>2, ResumedLists DEF ResumeFromISR, StoreInv
  <2>3. CASE ~ListsAccessible
    <3>1. store' = InsertEndEvent(store, xPendingReadyList, t)
      BY <1>2, <2>3 DEF ResumeFromISR
    <3>2. store'.generic = store.generic
      BY <3>1, EventOnlyMoves DEF Typed
    <3>3. \A l \in ReadyLists : store'.ring[l] = store.ring[l]
      BY <2>1, <3>1, OtherRings, ListNames DEF Typed
    <3>. QED BY <3>2, <3>3, RingsStay
  <2>. QED BY <2>2, <2>3
<1>3. ASSUME NEW e \in Event, InterruptSignals(e)
      PROVE  ListStep
  <2>1. /\ phase = "run" /\ HasWaiter(e) /\ RemoveFromEventList(e)
        /\ UNCHANGED taskVars
    BY <1>3 DEF InterruptSignals, InterruptsEnabled
  <2>. QED BY <2>1, SignalLists
<1>. QED BY <1>1, <1>2, <1>3 DEF TickISR, OtherISR

(* Every step but a context switch lets each task keep its turn. *)
LEMMA OrderStep ==
  ASSUME Typed, LockInv, StoreInv, Next
  PROVE  ListStep \/ SwitchContext
  BY BootLists, CallStepLists, CallLists, IdleLists, MaskedLists,
     InterruptLists DEF Next, Switch

-----------------------------------------------------------------------------
(* A context switch takes its turn from nobody but the task it dispatches. *)
LEMMA SwitchTurns ==
  ASSUME KernelInv, SwitchContext, NEW x \in TCB, x # pxCurrentTCB'
  PROVE  TurnKept(x)
<1>. USE DEF KernelInv
<1>1. PICK p \in 0 .. uxTopReadyPriority :
        /\ ReadyAt(p)
        /\ pxCurrentTCB' = OwnerOfHead(store, pxReadyTasksLists(p))
        /\ store' = NextEntry(store, pxReadyTasksLists(p))
  BY DEF SwitchContext
<1>2. p \in Priority
  BY PrioritiesAssumption DEF Typed, Priority
<1>3. PICK k : k = pxReadyTasksLists(p)
  OBVIOUS
<1>4. k \in Lists /\ DOMAIN store.ring = Lists /\ store.ring[k] \in Seq(TCB)
  BY <1>2, <1>3, ListNames, ListsDisjoint DEF Typed, Stores
<1>5. ASSUME NEW l \in ReadyLists
      PROVE  KeepsTurn(store.ring[l], store'.ring[l], x)
  <2>1. l \in Lists
    BY ListNames, ListsDisjoint
  <2>2. CASE l = k
    <3>1. store.ring[l] # <<>> /\ x # Head(store.ring[l])
      BY <1>1, <1>3, <2>2 DEF ReadyAt, OwnerOfHead, IsEmpty
    <3>2. store'.ring[l] = ViewNext(store.ring[l])
      BY <1>1, <1>3, <1>4, <2>2 DEF NextEntry, Typed, Stores
    <3>. QED BY <1>4, <2>2, <3>1, <3>2, ViewNextKeepsTurns
  <2>3. CASE l # k
    <3>1. store'.ring[l] = store.ring[l]
      BY <1>1, <1>3, <1>4, <2>1, <2>3 DEF NextEntry, Typed, Stores
    <3>. QED BY <3>1, SameKeepsTurns
  <2>. QED BY <2>2, <2>3
<1>. QED BY <1>5 DEF TurnKept

(* A task that stays ready is overtaken by no other of its priority, unless it
   has had its turn, or a report was made. *)
THEOREM TurnsAreKept == DiagnosticsSpec => TurnsKept
<1>1. KernelInv /\ KernelInv' /\ [DiagnosticsNext]_dVars
        => [(\A r \in Task : ~ReportList(r)) =>
             \A p \in Priority, t, u \in TCB :
               /\ t # u
               /\ HasTurn(t, p) /\ HasTurn(t, p)' /\ HasTurn(u, p)'
               /\ HasTurn(u, p) => TurnBefore(t, u, p)
               => \/ TurnBefore(t, u, p)'
                  \/ SwitchContext /\ pxCurrentTCB' = t]_dVars
  <2>. SUFFICES ASSUME KernelInv, KernelInv', [DiagnosticsNext]_dVars,
                       \A r \in Task : ~ReportList(r),
                       NEW p \in Priority, NEW t \in TCB, NEW u \in TCB,
                       t # u,
                       HasTurn(t, p), HasTurn(t, p)', HasTurn(u, p)',
                       HasTurn(u, p) => TurnBefore(t, u, p),
                       ~(SwitchContext /\ pxCurrentTCB' = t)
                PROVE  TurnBefore(t, u, p)'
    OBVIOUS
  <2>1. TurnKept(t)
    <3>1. CASE Next
      BY <3>1, OrderStep, SwitchTurns DEF KernelInv, ListStep
    <3>2. CASE UNCHANGED vars
      BY <3>2, StoreStays DEF vars, listVars, ListStep
    <3>3. ASSUME NEW r \in Task, ReportSuspend(r) PROVE TurnKept(t)
      BY <3>3, ReportSuspendKeeps, StoreStays DEF ListStep
    <3>4. CASE ReapHead
      BY <3>4, ReapedWaits, ReapLists DEF KernelInv, StoreInv, ListStep
    <3>. QED BY <3>1, <3>2, <3>3, <3>4, ObservedKernel
  <2>2. PICK l : l = pxReadyTasksLists(p)
    OBVIOUS
  <2>3. l \in ReadyLists /\ l \in GenericLists
    BY <2>2, ListNames
  <2>4. KeepsTurn(store.ring[l], store'.ring[l], t)
    BY <2>1, <2>2, <2>3 DEF TurnKept, HasTurn
  <2>5. /\ Contains(store.ring[l], t)
        /\ Contains(store'.ring[l], t) /\ Contains(store'.ring[l], u)
        /\ Contains(store.ring[l], u) <=> HasTurn(u, p)
    BY <2>2, <2>3 DEF KernelInv, StoreInv, StoreConsistent, StoreOK, HasTurn
  <2>6. TurnBefore(t, u, p) => Before(store.ring[l], t, u)
    BY <2>2 DEF TurnBefore, Before
  <2>7. Before(store'.ring[l], t, u)
    BY <2>4, <2>5, <2>6 DEF KeepsTurn
  <2>. QED BY <2>2, <2>7 DEF TurnBefore, Before
<1>. QED BY <1>1, KernelInvariance, PTL DEF DiagnosticsSpec, TurnsKept

-----------------------------------------------------------------------------
(* The rows of a report *)

(* Task t has no row; it has one, with its status where the rows name states. *)
NoRow(rows, t) == \A i \in 1 .. Len(rows) : rows[i][1] # t

OneRow(rows, t, named, status) ==
  \E i \in 1 .. Len(rows) :
    /\ rows[i][1] = t
    /\ named => rows[i][2] = status
    /\ \A j \in 1 .. Len(rows) : rows[j][1] = t => j = i

(* Rows that are written after those there are. *)
LEMMA RowsAppended ==
  ASSUME NEW S, NEW r \in Seq(S), NEW q \in Seq(S), NEW t, NEW named, NEW status
  PROVE  /\ NoRow(r, t) /\ NoRow(q, t) => NoRow(r \o q, t)
         /\ NoRow(r, t) /\ OneRow(q, t, named, status)
              => OneRow(r \o q, t, named, status)
         /\ OneRow(r, t, named, status) /\ NoRow(q, t)
              => OneRow(r \o q, t, named, status)
<1> DEFINE c == r \o q
<1>1. /\ Len(r) \in Nat /\ Len(q) \in Nat /\ Len(c) = Len(r) + Len(q)
      /\ \A i \in 1 .. Len(c) :
           c[i] = IF i <= Len(r) THEN r[i] ELSE q[i - Len(r)]
  BY ConcatProperties, LenProperties
<1>2. \A i \in 1 .. Len(r) : i \in 1 .. Len(c) /\ c[i] = r[i]
  BY <1>1
<1>3. \A i \in 1 .. Len(q) : i + Len(r) \in 1 .. Len(c) /\ c[i + Len(r)] = q[i]
  BY <1>1
<1>4. \A i \in 1 .. Len(c) :
        \/ i \in 1 .. Len(r) /\ c[i] = r[i]
        \/ /\ i - Len(r) \in 1 .. Len(q) /\ c[i] = q[i - Len(r)]
           /\ i = (i - Len(r)) + Len(r)
  BY <1>1
<1>. HIDE DEF c
<1>5. NoRow(r, t) /\ NoRow(q, t) => NoRow(c, t)
  BY <1>4 DEF NoRow
<1>6. ASSUME NoRow(r, t), OneRow(q, t, named, status)
      PROVE  OneRow(c, t, named, status)
  <2>1. PICK i \in 1 .. Len(q) :
          /\ q[i][1] = t /\ (named => q[i][2] = status)
          /\ \A j \in 1 .. Len(q) : q[j][1] = t => j = i
    BY <1>6 DEF OneRow
  <2>2. /\ i + Len(r) \in 1 .. Len(c)
        /\ c[i + Len(r)][1] = t /\ (named => c[i + Len(r)][2] = status)
    BY <1>3, <2>1
  <2>3. ASSUME NEW j \in 1 .. Len(c), c[j][1] = t
        PROVE  j = i + Len(r)
    BY <1>4, <1>6, <2>1, <2>3 DEF NoRow
  <2>. QED BY <2>2, <2>3 DEF OneRow
<1>7. ASSUME OneRow(r, t, named, status), NoRow(q, t)
      PROVE  OneRow(c, t, named, status)
  <2>1. PICK i \in 1 .. Len(r) :
          /\ r[i][1] = t /\ (named => r[i][2] = status)
          /\ \A j \in 1 .. Len(r) : r[j][1] = t => j = i
    BY <1>7 DEF OneRow
  <2>2. /\ i \in 1 .. Len(c)
        /\ c[i][1] = t /\ (named => c[i][2] = status)
    BY <1>2, <2>1
  <2>3. ASSUME NEW j \in 1 .. Len(c), c[j][1] = t
        PROVE  j = i
    BY <1>4, <1>7, <2>1, <2>3 DEF NoRow
  <2>. QED BY <2>2, <2>3 DEF OneRow
<1>. QED BY <1>5, <1>6, <1>7 DEF c

(* A row for each entry of a sequence of distinct tasks. *)
LEMMA RowPerOwner ==
  ASSUME NEW s \in Seq(TCB), IsInjective(s),
         NEW rows, DOMAIN rows = DOMAIN s, rows = [i \in DOMAIN s |-> rows[i]],
         \A i \in DOMAIN s : rows[i][1] = s[i],
         NEW named, NEW status,
         named => \A i \in DOMAIN s : rows[i][2] = status
  PROVE  /\ \E S : rows \in Seq(S)
         /\ \A t : IF Contains(s, t) THEN OneRow(rows, t, named, status)
                   ELSE NoRow(rows, t)
<1>1. PICK n \in Nat : n = Len(s) /\ DOMAIN s = 1 .. n
  BY LenProperties
<1>2. PICK S : S = {rows[i] : i \in 1 .. n}
  OBVIOUS
<1>3. rows \in [1 .. n -> S]
  BY <1>1, <1>2
<1>4. rows \in Seq(S) /\ Len(rows) = n
  BY <1>3, FunctionIsSeq
<1>5. ASSUME NEW t, ~Contains(s, t)
      PROVE  NoRow(rows, t)
  BY <1>1, <1>4, <1>5 DEF NoRow, Contains
<1>6. ASSUME NEW t, Contains(s, t)
      PROVE  OneRow(rows, t, named, status)
  <2>1. PICK i \in 1 .. n : s[i] = t
    BY <1>1, <1>6 DEF Contains
  <2>2. \A j \in 1 .. n : s[j] = t => j = i
    BY <1>1, <2>1 DEF IsInjective
  <2>. QED BY <1>1, <1>4, <2>1, <2>2 DEF OneRow
<1>. QED BY <1>4, <1>5, <1>6

(* What a report writes about one list: one row for each task in it. *)
LEMMA WalkRows ==
  ASSUME Typed, StoreConsistent, NEW l \in GenericLists, ~IsEmpty(store, l)
  PROVE  /\ \E S : ListTaskWithinSingleList(l) \in Seq(S)
         /\ \E S : GenerateRunTimeStatsForTasksInList(l) \in Seq(S)
         /\ \A t \in TCB :
              IF store.generic[t] = l
              THEN /\ OneRow(ListTaskWithinSingleList(l), t, TRUE, Status(l))
                   /\ ulTotalRunTime > 0 =>
                        OneRow(GenerateRunTimeStatsForTasksInList(l), t, FALSE,
                               Status(l))
              ELSE /\ NoRow(ListTaskWithinSingleList(l), t)
                   /\ NoRow(GenerateRunTimeStatsForTasksInList(l), t)
         /\ ~(ulTotalRunTime > 0) =>
              \A t : NoRow(GenerateRunTimeStatsForTasksInList(l), t)
<1>1. l \in Lists
  BY ListsDisjoint
<1>2. PICK s : s = NextEntry(store, l).ring[l]
  OBVIOUS
<1>3. /\ s \in Seq(TCB) /\ IsInjective(s)
      /\ \A t \in TCB : Contains(s, t) <=> store.generic[t] = l
  <2>1. /\ NextEntry(store, l) \in Stores
        /\ StoreOK(NextEntry(store, l))
        /\ NextEntry(store, l).generic = store.generic
    BY <1>1, NextEntryType, NextEntryOK DEF Typed, StoreConsistent
  <2>. QED BY <1>1, <1>2, <2>1 DEF Stores, StoreOK
<1>4. PICK w : w = Status(l)
  OBVIOUS
<1>5. PICK states : states = ListTaskWithinSingleList(l)
  OBVIOUS
<1>6. PICK times : times = GenerateRunTimeStatsForTasksInList(l)
  OBVIOUS
<1>7. states = [i \in DOMAIN s |-> <<s[i], w>>]
  BY <1>2, <1>4, <1>5 DEF ListTaskWithinSingleList
<1>8. /\ \E S : states \in Seq(S)
      /\ \A t : IF Contains(s, t) THEN OneRow(states, t, TRUE, w)
                ELSE NoRow(states, t)
  <2>1. /\ DOMAIN states = DOMAIN s /\ states = [i \in DOMAIN s |-> states[i]]
        /\ \A i \in DOMAIN s : states[i][1] = s[i] /\ states[i][2] = w
    BY <1>7
  <2>. QED BY <1>3, <2>1, RowPerOwner
<1>9. CASE ulTotalRunTime > 0
  <2>1. times = [i \in DOMAIN s |->
                   <<s[i], ulRunTimeCounter[s[i]] \div ulTotalRunTime>>]
    BY <1>2, <1>6, <1>9 DEF GenerateRunTimeStatsForTasksInList
  <2>2. /\ \E S : times \in Seq(S)
        /\ \A t : IF Contains(s, t) THEN OneRow(times, t, FALSE, w)
                  ELSE NoRow(times, t)
    <3>1. /\ DOMAIN times = DOMAIN s /\ times = [i \in DOMAIN s |-> times[i]]
          /\ \A i \in DOMAIN s : times[i][1] = s[i]
      BY <2>1
    <3>. QED BY <1>3, <3>1, RowPerOwner
  <2>. QED BY <1>3, <1>4, <1>5, <1>6, <1>8, <1>9, <2>2
<1>10. CASE ~(ulTotalRunTime > 0)
  <2>1. times = <<>>
    BY <1>6, <1>10 DEF GenerateRunTimeStatsForTasksInList
  <2>2. times \in Seq({}) /\ \A t : NoRow(times, t)
    BY <2>1, EmptySeq DEF NoRow
  <2>. QED BY <1>3, <1>4, <1>5, <1>6, <1>8, <1>10, <2>2
<1>. QED BY <1>9, <1>10

-----------------------------------------------------------------------------
(* The lists of a report *)

Reported(l) == Contains(ReportOrder, l)

(* Sequences that have no element in common put together. *)
LEMMA OneOfEach ==
  ASSUME NEW S, NEW r \in Seq(S), NEW q \in Seq(S),
         IsInjective(r), IsInjective(q),
         \A x : ~(Contains(r, x) /\ Contains(q, x))
  PROVE  /\ r \o q \in Seq(S) /\ IsInjective(r \o q)
         /\ \A x : Contains(r \o q, x) <=> Contains(r, x) \/ Contains(q, x)
<1> DEFINE c == r \o q
<1>1. PICK m \in Nat, n \in Nat : m = Len(r) /\ n = Len(q)
  BY LenProperties
<1>2. /\ c \in Seq(S) /\ Len(c) = m + n
      /\ \A i \in 1 .. m + n : c[i] = IF i <= m THEN r[i] ELSE q[i - m]
  BY <1>1, ConcatProperties
<1>3. DOMAIN r = 1 .. m /\ DOMAIN q = 1 .. n /\ DOMAIN c = 1 .. m + n
  BY <1>1, <1>2, LenProperties
<1>. HIDE DEF c
<1>4. \A i \in 1 .. m : i \in 1 .. m + n /\ c[i] = r[i]
  BY <1>2
<1>5. \A i \in 1 .. n : i + m \in 1 .. m + n /\ c[i + m] = q[i]
  BY <1>2
<1>6. \A i \in 1 .. m + n :
        \/ i \in 1 .. m /\ c[i] = r[i]
        \/ i - m \in 1 .. n /\ c[i] = q[i - m]
  BY <1>2
<1>7. \A x : Contains(c, x) <=> Contains(r, x) \/ Contains(q, x)
  <2>1. ASSUME NEW x, Contains(r, x) PROVE Contains(c, x)
    BY <1>1, <1>2, <1>4, <2>1 DEF Contains
  <2>2. ASSUME NEW x, Contains(q, x) PROVE Contains(c, x)
    <3>1. PICK i \in 1 .. n : q[i] = x
      BY <1>1, <2>2 DEF Contains
    <3>2. i + m \in 1 .. Len(c) /\ c[i + m] = x
      BY <1>2, <1>5, <3>1
    <3>. QED BY <3>2 DEF Contains
  <2>3. ASSUME NEW x, Contains(c, x) PROVE Contains(r, x) \/ Contains(q, x)
    <3>1. PICK i \in 1 .. m + n : c[i] = x
      BY <1>2, <2>3 DEF Contains
    <3>. QED BY <1>1, <1>6, <3>1 DEF Contains
  <2>. QED BY <2>1, <2>2, <2>3
<1>8. ASSUME NEW i \in 1 .. m + n, NEW j \in 1 .. m + n, c[i] = c[j]
      PROVE  i = j
  <2>1. CASE i \in 1 .. m /\ j \in 1 .. m
    BY <1>2, <1>3, <1>8, <2>1 DEF IsInjective
  <2>2. CASE i \notin 1 .. m /\ j \notin 1 .. m
    <3>1. i - m \in 1 .. n /\ j - m \in 1 .. n /\ q[i - m] = q[j - m]
      BY <1>6, <1>8, <2>2
    <3>2. i - m = j - m
      BY <1>3, <3>1 DEF IsInjective
    <3>. QED BY <3>2
  <2>3. CASE ~(i \in 1 .. m <=> j \in 1 .. m)
    <3>1. Contains(r, c[i]) /\ Contains(q, c[i])
      BY <1>1, <1>6, <1>8, <2>3 DEF Contains
    <3>. QED BY <3>1
  <2>. QED BY <2>1, <2>2, <2>3
<1>9. IsInjective(c)
  BY <1>3, <1>8 DEF IsInjective
<1>. QED BY <1>2, <1>7, <1>9 DEF c

LEMMA OptionalIs ==
  ASSUME NEW function, NEW S, NEW l \in S
  PROVE  /\ Optional(function, l) \in Seq(S)
         /\ IsInjective(Optional(function, l))
         /\ \A x : Contains(Optional(function, l), x) <=>
                    x = l /\ function \in Include
<1>1. CASE function \in Include
  <2>1. PICK s : s = <<l>>
    OBVIOUS
  <2>2. s \in Seq(S) /\ Len(s) = 1 /\ s[1] = l /\ DOMAIN s = 1 .. 1
    BY <2>1
  <2>3. IsInjective(s) /\ \A x : Contains(s, x) <=> x = l
    BY <2>2 DEF IsInjective, Contains
  <2>. QED BY <1>1, <2>1, <2>2, <2>3 DEF Optional
<1>2. CASE function \notin Include
  <2>1. PICK s : s = <<>>
    OBVIOUS
  <2>2. s \in Seq(S) /\ Len(s) = 0 /\ DOMAIN s = 1 .. 0
    BY <2>1
  <2>3. IsInjective(s) /\ \A x : ~Contains(s, x)
    BY <2>2 DEF IsInjective, Contains
  <2>. QED BY <1>2, <2>1, <2>2, <2>3 DEF Optional
<1>. QED BY <1>1, <1>2

(* The ready lists of a report, from the top used priority down. *)
LEMMA ReadyListsDownAre ==
  ASSUME Typed
  PROVE  /\ ReadyListsDown \in Seq(GenericLists) /\ IsInjective(ReadyListsDown)
         /\ \A l : Contains(ReadyListsDown, l) <=>
                \E p \in 0 .. uxTopUsedPriority : l = pxReadyTasksLists(p)
<1>1. PICK n \in Nat \ {0} : n = uxTopUsedPriority + 1
  BY DEF Typed, Priority
<1>2. /\ uxTopUsedPriority = n - 1
      /\ \A i \in 1 .. n : n - i \in Priority /\ n - i \in 0 .. n - 1
      /\ \A p \in 0 .. n - 1 : n - p \in 1 .. n /\ n - (n - p) = p
  BY <1>1, PrioritiesAssumption DEF Typed, Priority
<1>3. PICK down : down = ReadyListsDown
  OBVIOUS
<1>4. down = [i \in 1 .. n |-> pxReadyTasksLists(n - i)]
  <2>1. PICK m : m = uxTopUsedPriority
    OBVIOUS
  <2>2. ReadyListsDown = [i \in 1 .. m + 1 |-> pxReadyTasksLists(m + 1 - i)]
    BY <2>1 DEF ReadyListsDown
  <2>3. m \in Int /\ m + 1 = n
    BY <1>1, <2>1 DEF Typed, Priority
  <2>. QED BY <1>3, <2>2, <2>3
<1>5. \A i \in 1 .. n : pxReadyTasksLists(n - i) \in GenericLists
  BY <1>2, ListNames
<1>6. down \in [1 .. n -> GenericLists]
  BY <1>4, <1>5
<1>7. down \in Seq(GenericLists) /\ Len(down) = n
  BY <1>6, FunctionIsSeq
<1>8. ASSUME NEW i \in 1 .. n, NEW j \in 1 .. n, down[i] = down[j]
      PROVE  i = j
  <2>1. PICK p \in Priority, q \in Priority : p = n - i /\ q = n - j
    BY <1>2
  <2>2. pxReadyTasksLists(p) = pxReadyTasksLists(q)
    BY <1>4, <1>8, <2>1
  <2>3. p = q
    BY <2>2, ListNames
  <2>. QED BY <2>1, <2>3
<1>9. IsInjective(down)
  BY <1>6, <1>8 DEF IsInjective
<1>10. ASSUME NEW l
       PROVE  (\E i \in 1 .. n : down[i] = l) <=>
                \E p \in 0 .. n - 1 : l = pxReadyTasksLists(p)
  <2>1. ASSUME NEW i \in 1 .. n, down[i] = l
        PROVE  \E p \in 0 .. n - 1 : l = pxReadyTasksLists(p)
    BY <1>2, <1>4, <2>1
  <2>2. ASSUME NEW p \in 0 .. n - 1, l = pxReadyTasksLists(p)
        PROVE  \E i \in 1 .. n : down[i] = l
    <3>1. n - p \in 1 .. n /\ down[n - p] = pxReadyTasksLists(n - (n - p))
      BY <1>2, <1>4
    <3>. QED BY <1>2, <2>2, <3>1
  <2>. QED BY <2>1, <2>2
<1>. QED BY <1>2, <1>3, <1>7, <1>9, <1>10 DEF Contains

LEMMA DelayListsAre ==
  ASSUME Typed, ListsApart
  PROVE  LET s == <<pxDelayedTaskList, pxOverflowDelayedTaskList>>
         IN  /\ s \in Seq(GenericLists) /\ IsInjective(s)
             /\ \A l : Contains(s, l) <=> l \in DelayLists
<1>1. PICK s : s = <<pxDelayedTaskList, pxOverflowDelayedTaskList>>
  OBVIOUS
<1>2. /\ s \in Seq(GenericLists) /\ Len(s) = 2 /\ DOMAIN s = 1 .. 2
      /\ s[1] = pxDelayedTaskList /\ s[2] = pxOverflowDelayedTaskList
  BY <1>1, ListNames DEF Typed
<1>3. DelayLists = {s[1], s[2]} /\ s[1] # s[2]
  BY <1>2 DEF Typed, ListsApart, DelayLists
<1>4. IsInjective(s)
  BY <1>2, <1>3 DEF IsInjective
<1>5. \A l : Contains(s, l) <=> l \in DelayLists
  BY <1>2, <1>3 DEF Contains
<1>. QED BY <1>1, <1>2, <1>4, <1>5

(* Each ready list up to uxTopUsedPriority, each delay list and, where they are
   used, the termination and the suspended list come once, and no other. *)
LEMMA ReportOrderIs ==
  ASSUME Typed, ListsApart
  PROVE  /\ Len(ReportOrder) \in Nat
         /\ \A i \in 1 .. Len(ReportOrder) : ReportOrder[i] \in GenericLists
         /\ \A i, j \in 1 .. Len(ReportOrder) :
              ReportOrder[i] = ReportOrder[j] => i = j
         /\ \A l : Reported(l) <=>
              \/ \E p \in 0 .. uxTopUsedPriority : l = pxReadyTasksLists(p)
              \/ l \in DelayLists
              \/ UsedOnly(l) /\ l \in {xSuspendedTaskList,
                                       xTasksWaitingTermination}
<1>1. PICK ready : ready = ReadyListsDown
  OBVIOUS
<1>2. PICK delayed : delayed = <<pxDelayedTaskList, pxOverflowDelayedTaskList>>
  OBVIOUS
<1>3. PICK deleted : deleted = Optional("vTaskDelete", xTasksWaitingTermination)
  OBVIOUS
<1>4. PICK suspended : suspended = Optional("vTaskSuspend", xSuspendedTaskList)
  OBVIOUS
<1>5. /\ ready \in Seq(GenericLists) /\ IsInjective(ready)
      /\ \A l : Contains(ready, l) <=>
                \E p \in 0 .. uxTopUsedPriority : l = pxReadyTasksLists(p)
  BY <1>1, ReadyListsDownAre
<1>6. /\ delayed \in Seq(GenericLists) /\ IsInjective(delayed)
      /\ \A l : Contains(delayed, l) <=> l \in DelayLists
  BY <1>2, DelayListsAre
<1>7. /\ deleted \in Seq(GenericLists) /\ IsInjective(deleted)
      /\ \A l : Contains(deleted, l) <=>
                l = xTasksWaitingTermination /\ "vTaskDelete" \in Include
  BY <1>3, OptionalIs, ListNames
<1>8. /\ suspended \in Seq(GenericLists) /\ IsInjective(suspended)
      /\ \A l : Contains(suspended, l) <=>
                l = xSuspendedTaskList /\ "vTaskSuspend" \in Include
  BY <1>4, OptionalIs, ListNames
<1>9. \A p \in 0 .. uxTopUsedPriority : pxReadyTasksLists(p) \in ReadyLists
  BY ListNames, PrioritiesAssumption DEF Typed, Priority
<1>10. PICK s : s = ready \o delayed
  OBVIOUS
<1>11. \A l : ~(Contains(ready, l) /\ Contains(delayed, l))
  BY <1>5, <1>6, <1>9, ListNames
<1>12. /\ s \in Seq(GenericLists) /\ IsInjective(s)
       /\ \A l : Contains(s, l) <=> Contains(ready, l) \/ Contains(delayed, l)
  BY <1>5, <1>6, <1>10, <1>11, OneOfEach
<1>13. PICK r : r = s \o deleted
  OBVIOUS
<1>14. \A l : ~(Contains(s, l) /\ Contains(deleted, l))
  BY <1>5, <1>6, <1>7, <1>9, <1>12, ListNames
<1>15. /\ r \in Seq(GenericLists) /\ IsInjective(r)
       /\ \A l : Contains(r, l) <=> Contains(s, l) \/ Contains(deleted, l)
  BY <1>7, <1>12, <1>13, <1>14, OneOfEach
<1>16. PICK order : order = r \o suspended
  OBVIOUS
<1>17. \A l : ~(Contains(r, l) /\ Contains(suspended, l))
  BY <1>5, <1>6, <1>7, <1>8, <1>9, <1>12, <1>15, ListNames
<1>18. /\ order \in Seq(GenericLists) /\ IsInjective(order)
       /\ \A l : Contains(order, l) <=> Contains(r, l) \/ Contains(suspended, l)
  BY <1>8, <1>15, <1>16, <1>17, OneOfEach
<1>19. order = ReportOrder
  BY <1>1, <1>2, <1>3, <1>4, <1>10, <1>13, <1>16 DEF ReportOrder
<1>20. Len(order) \in Nat /\ DOMAIN order = 1 .. Len(order)
  BY <1>18, LenProperties
<1>21. \A i \in 1 .. Len(order) : order[i] \in GenericLists
  BY <1>18, ElementOfSeq
<1>22. \A i, j \in 1 .. Len(order) : order[i] = order[j] => i = j
  BY <1>18, <1>20 DEF IsInjective
<1>23. ASSUME NEW l
       PROVE  Contains(order, l) <=>
              \/ \E p \in 0 .. uxTopUsedPriority : l = pxReadyTasksLists(p)
              \/ l \in DelayLists
              \/ UsedOnly(l) /\ l \in {xSuspendedTaskList,
                                       xTasksWaitingTermination}
  <2>1. Contains(order, l) <=>
          \/ Contains(ready, l) \/ Contains(delayed, l)
          \/ Contains(deleted, l) \/ Contains(suspended, l)
    BY <1>12, <1>15, <1>18
  <2>2. xSuspendedTaskList # xTasksWaitingTermination
    BY ListNames, ListsDisjoint
  <2>. QED BY <1>5, <1>6, <1>7, <1>8, <2>1, <2>2 DEF UsedOnly
<1>. QED BY <1>19, <1>20, <1>21, <1>22, <1>23 DEF Reported

-----------------------------------------------------------------------------
(* What happens during a report *)

(* Each call is a call of the running task. *)
LEMMA CallersRun ==
  /\ \A t \in TCB : CallStep(t) => Runs(t)
  /\ \A t \in Task : Call(t) => Runs(t)
  /\ IdleSuspend \/ IdleReadList \/ IdleLoop \/ ReapHead => Runs(Idle)
<1>1. ASSUME NEW t \in TCB, CallStep(t)
      PROVE  Runs(t)
  BY <1>1 DEF CallStep, YieldWithinAPI, DelayUnlink,
       UntilDecide, DelayInsert, PlaceEventItem, PlaceUnlink, PlaceInsert,
       QueueUnlock, ResumeAll, RunsAt
<1>2. ASSUME NEW t \in Task, Call(t)
      PROVE  Runs(t)
  BY <1>2 DEF Call, CreateTask, AppSuspendAll, TaskYield, DelayZero,
       DelaySuspend, DelayUntilSuspend, QueueSuspend, TaskSignals, SuspendTask,
       ResumeTask, DeleteTask, PrioritySet, MayBlock, RunsApp, RunsAt
<1>3. ASSUME IdleSuspend \/ IdleReadList \/ IdleLoop \/ ReapHead
      PROVE  Runs(Idle)
  BY <1>3 DEF IdleSuspend, IdleReadList, IdleLoop, ReapHead, Reap, RunsAt
<1>. QED BY <1>1, <1>2, <1>3

(* The task that makes a report runs, with the scheduler suspended. *)
Reporting ==
  /\ reporter \in Task
  /\ facility \in {"list", "stats"}
  /\ xSchedulerRunning /\ phase = "run"
  /\ pxCurrentTCB = reporter /\ pc[reporter] = "app"
  /\ uxSchedulerSuspended > 0

(* What a report depends on. *)
Undisturbed ==
  /\ UNCHANGED <<phase, xSchedulerRunning, pxCurrentTCB, pc,
                 uxSchedulerSuspended, pxDelayedTaskList,
                 pxOverflowDelayedTaskList, uxTopUsedPriority, facility,
                 reportVars>>
  /\ store'.generic = store.generic

(* Meanwhile only interrupts do anything, and they leave alone what the report
   depends on. *)
LEMMA KernelUndisturbed ==
  ASSUME KernelInv, Reporting, KernelStep
  PROVE  Undisturbed
<1>. USE DEF Reporting, tickVars, listVars, taskVars, suspendVars, loopVars,
             runVars
<1>1. reporter \in TCB /\ reporter # Idle /\ uxSchedulerSuspended # 0
  BY IdleAssumption DEF TCB
<1>2. UNCHANGED <<facility, reportVars>>
  BY DEF KernelStep
<1>3. TickISR \/ OtherISR \/ SwitchMissed
  <2>1. ~Boot
    BY DEF Boot, CreateBeforeStart, StartScheduler
  <2>2. /\ \A t \in TCB \ {reporter} : ~CallStep(t)
        /\ \A t \in Task \ {reporter} : ~Call(t)
        /\ ~(IdleSuspend \/ IdleReadList \/ IdleLoop \/ ReapHead)
    BY <1>1, CallersRun DEF Runs
  <2>3. ~MaskedStep
    BY DEF MaskedStep, DrainPending, DrainDone, ReplayTick, ReplayTickDone,
           ResumeAllDone, WakeHead, TickInterruptDone
  <2>. QED BY <2>1, <2>2, <2>3 DEF KernelStep
<1>4. store'.generic = store.generic /\ pxCurrentTCB' = pxCurrentTCB
  BY <1>3, InterruptKeepsOff DEF KernelInv, Switch, KeepsOff
<1>5. UNCHANGED <<phase, xSchedulerRunning, pc, uxSchedulerSuspended,
                  pxDelayedTaskList, pxOverflowDelayedTaskList,
                  uxTopUsedPriority>>
  BY <1>1, <1>3 DEF TickISR, TickInterrupt, TickInterruptMissed, OtherISR,
       ResumeFromISR, InterruptSignals, InterruptSignalsLocked, SwitchMissed
<1>. QED BY <1>2, <1>4, <1>5 DEF Undisturbed

(* So do the other facilities, and the switch is refused. *)
LEMMA ObservationUndisturbed ==
  ASSUME Reporting,
         SwitchObserved \/ ClockCounts
           \/ \E t \in Task : StartTrace(t) \/ EndTrace(t) \/ UseStack(t)
  PROVE  Undisturbed
<1>1. ~SwitchObserved
  <2>1. uxSchedulerSuspended # 0
    BY DEF Reporting
  <2>. QED BY <2>1 DEF SwitchObserved, SwitchContext, SwitchAllowed
<1>2. UNCHANGED <<vars, facility, reportVars>>
  BY <1>1 DEF ClockCounts, StartTrace, EndTrace, UseStack
<1>. QED BY <1>2 DEF Undisturbed, vars, tickVars, listVars, taskVars,
       suspendVars, loopVars, runVars

-----------------------------------------------------------------------------
(* The rows so far *)

Looked(l) ==
  \E i \in 1 .. Len(ReportOrder) : i < reportAt /\ ReportOrder[i] = l

Written == facility = "list" \/ ulTotalRunTime > 0

(* Each task in a list that has been looked at has one row, with its state, and
   no other task has one. *)
RowsSoFar ==
  \A t \in TCB :
    IF Written /\ Looked(store.generic[t])
    THEN OneRow(report, t, facility = "list", Status(store.generic[t]))
    ELSE NoRow(report, t)

ReportInv ==
  /\ reportAt \in Nat /\ ulTotalRunTime \in Nat
  /\ \E S : report \in Seq(S)
  /\ reporter # NULL => Reporting
  /\ reporter = NULL => reportAt = 0
  /\ IF reportAt = 0 THEN report = <<>> ELSE RowsSoFar

(* Where no report is made there is nothing to keep. *)
LEMMA NoReport ==
  ASSUME reporter' = NULL, reportAt' = 0, report' = <<>>,
         ulTotalRunTime' \in Nat
  PROVE  ReportInv'
<1>1. report' \in Seq({})
  BY EmptySeq
<1>. QED BY <1>1 DEF ReportInv

(* What does not disturb a report leaves its rows right. *)
LEMMA ReportStands ==
  ASSUME ReportInv, Undisturbed
  PROVE  ReportInv'
<1>1. ReportOrder' = ReportOrder
  BY DEF Undisturbed, ReportOrder, ReadyListsDown
<1>2. /\ reporter' = reporter /\ reportAt' = reportAt /\ report' = report
      /\ ulTotalRunTime' = ulTotalRunTime /\ facility' = facility
      /\ store'.generic = store.generic
  BY DEF Undisturbed, reportVars
<1>3. Reporting => Reporting'
  BY <1>2 DEF Reporting, Undisturbed
<1>4. \A l : Looked(l)' <=> Looked(l)
  BY <1>1, <1>2 DEF Looked
<1>5. Written' <=> Written
  BY <1>2 DEF Written
<1>6. \A l : Status(l)' = Status(l)
  BY DEF Status
<1>7. RowsSoFar => RowsSoFar'
  BY <1>2, <1>4, <1>5, <1>6 DEF RowsSoFar
<1>. QED BY <1>2, <1>3, <1>7 DEF ReportInv

(* What the shares of a report are computed with is a number. *)
LEMMA ShareOfTotal ==
  ASSUME clock \in Count
  PROVE  clock \div PartsOfTotal \in Nat
<1>1. PICK n \in Nat, k \in Nat \ {0} : n = clock /\ k = PartsOfTotal
  BY DiagnosticsAssumption DEF Count
<1>2. n \div k \in Nat
  OBVIOUS
<1>. QED BY <1>1, <1>2

-----------------------------------------------------------------------------
(* What the reports rest on: the lists are where they are used. *)

NamesInv == ListsApart /\ UsedLists

LEMMA NamesInit == Init => NamesInv
  BY UsedNames
     DEF Init, NamesInv, ListsApart, UsedLists, EmptyStore, xDelayedTaskList1,
         xDelayedTaskList2

LEMMA NamesStep == KernelInv /\ NamesInv /\ [DiagnosticsNext]_dVars => NamesInv'
<1>. SUFFICES ASSUME KernelInv, NamesInv, [DiagnosticsNext]_dVars
              PROVE  NamesInv'
  OBVIOUS
<1>1. CASE Next
  <2>1. ListsApart'
    BY <1>1, ListsApartStep DEF NamesInv
  <2>2. CASE ListStep
    BY <2>1, <2>2 DEF ListStep, NamesInv, UsedLists
  <2>3. CASE SwitchContext
    <3>1. store'.generic = store.generic
      BY <2>3 DEF SwitchContext, NextEntry, KernelInv, Typed, Stores
    <3>. QED BY <2>1, <3>1 DEF NamesInv, UsedLists
  <2>. QED BY <1>1, <2>2, <2>3, OrderStep DEF KernelInv
<1>2. ASSUME UNCHANGED <<pxDelayedTaskList, pxOverflowDelayedTaskList>>,
             store'.generic = store.generic
      PROVE  NamesInv'
  BY <1>2 DEF NamesInv, ListsApart, UsedLists
<1>3. CASE UNCHANGED vars
  BY <1>2, <1>3 DEF vars, tickVars, listVars
<1>4. ASSUME NEW t \in Task, ReportSuspend(t)
      PROVE  NamesInv'
  BY <1>2, <1>4 DEF ReportSuspend, SuspendAll, tickVars, listVars
<1>5. ASSUME NEW t \in Task, ReportList(t)
      PROVE  NamesInv'
  <2>1. store'.generic = store.generic
    BY <1>5, ReportListKeeps
  <2>. QED BY <1>2, <1>5, <2>1 DEF ReportList, tickVars
<1>6. CASE ReapHead
  <2>1. ListStep
    BY <1>6, ReapedWaits, ReapLists DEF KernelInv, StoreInv
  <2>2. UNCHANGED <<pxDelayedTaskList, pxOverflowDelayedTaskList>>
    BY <1>6 DEF ReapHead, Reap, tickVars
  <2>. QED BY <2>1, <2>2 DEF ListStep, NamesInv, ListsApart, UsedLists
<1>. QED BY <1>1, <1>3, <1>4, <1>5, <1>6, ObservedKernel

-----------------------------------------------------------------------------
(* The steps of a report *)

LEMMA ReportSuspendRows ==
  ASSUME KernelInv, ReportInv, NEW t \in Task, ReportSuspend(t)
  PROVE  ReportInv'
<1>1. /\ Runs(t) /\ pc[t] = "app" /\ facility \in {"list", "stats"}
      /\ reporter = NULL /\ reporter' = t
      /\ SuspendAll(t, "app")
      /\ UNCHANGED <<facility, ulTotalRunTime, reportAt, report>>
  BY DEF ReportSuspend, RunsApp, RunsAt
<1>2. /\ uxSchedulerSuspended' = uxSchedulerSuspended + 1
      /\ pc' = [pc EXCEPT ![t] = "app"]
      /\ UNCHANGED <<phase, pxCurrentTCB, xSchedulerRunning>>
  BY <1>1 DEF SuspendAll, Goto, loopVars, runVars
<1>3. Reporting'
  BY <1>1, <1>2
     DEF Reporting, Runs, InterruptsEnabled, KernelInv, Typed, TCB
<1>4. reporter' # NULL
  BY <1>1, NullAssumption
<1>. QED BY <1>1, <1>3, <1>4 DEF ReportInv

LEMMA ReportStartRows ==
  ASSUME TimeInv, ReportInv, NEW t \in Task, ReportStart(t)
  PROVE  ReportInv'
<1>1. /\ reportAt = 0 /\ reportAt' = 1 /\ report' = report
      /\ reporter = t /\ reporter' = reporter /\ t # NULL
      /\ ulTotalRunTime' = clock \div PartsOfTotal
      /\ UNCHANGED <<vars, facility>>
  BY NullAssumption DEF ReportStart, Reports
<1>2. ulTotalRunTime' \in Nat
  BY <1>1, ShareOfTotal DEF TimeInv
<1>3. Reporting'
  BY <1>1 DEF ReportInv, Reporting, vars, runVars, loopVars, suspendVars
<1>4. \A u : NoRow(report', u)
  BY <1>1 DEF ReportInv, NoRow
<1>5. \A l : ~Looked(l)'
  BY <1>1 DEF Looked
<1>6. RowsSoFar'
  BY <1>4, <1>5 DEF RowsSoFar
<1>. QED BY <1>1, <1>2, <1>3, <1>6 DEF ReportInv

(* The rows a list adds: one for each task in it. *)
LEMMA RowsAdded ==
  ASSUME KernelInv, ReportInv, NEW t \in Task, ReportList(t),
         NEW l \in GenericLists, l = ReportOrder[reportAt]
  PROVE  \E S : \E q \in Seq(S) :
           /\ report \in Seq(S) /\ report' = report \o q
           /\ \A u \in TCB :
                IF Written /\ store.generic[u] = l
                THEN OneRow(q, u, facility = "list", Status(l))
                ELSE NoRow(q, u)
<1>1. PICK S : report \in Seq(S)
  BY DEF ReportInv
<1>2. facility \in {"list", "stats"}
  <2>1. reporter # NULL
    BY NullAssumption DEF ReportList, Reports
  <2>. QED BY <2>1 DEF ReportInv, Reporting
<1>3. CASE IsEmpty(store, l)
  <2>1. report' = report
    BY <1>3 DEF ReportList
  <2>2. <<>> \in Seq(S) /\ report' = report \o <<>>
    BY <1>1, <2>1, EmptySeq, ConcatEmptySeq
  <2>3. \A u \in TCB : store.generic[u] # l
    BY <1>3 DEF IsEmpty, KernelInv, StoreInv, StoreConsistent, StoreOK, Contains
  <2>4. \A u : NoRow(<<>>, u)
    BY DEF NoRow
  <2>. QED BY <1>1, <2>2, <2>3, <2>4
<1>4. ASSUME ~IsEmpty(store, l),
             NEW q, report' = report \o q,
             NEW Q, q \in Seq(Q),
             \A u \in TCB :
                IF Written /\ store.generic[u] = l
                THEN OneRow(q, u, facility = "list", Status(l))
                ELSE NoRow(q, u)
      PROVE  \E T : \E r \in Seq(T) :
               /\ report \in Seq(T) /\ report' = report \o r
               /\ \A u \in TCB :
                    IF Written /\ store.generic[u] = l
                    THEN OneRow(r, u, facility = "list", Status(l))
                    ELSE NoRow(r, u)
  <2>1. q \in Seq(S \cup Q) /\ report \in Seq(S \cup Q)
    BY <1>1, <1>4, SeqMonotonic
  <2>. QED BY <1>4, <2>1
<1>5. CASE ~IsEmpty(store, l) /\ facility = "list"
  <2>1. PICK q : q = ListTaskWithinSingleList(l)
    OBVIOUS
  <2>2. report' = report \o q
    BY <1>5, <2>1 DEF ReportList
  <2>3. /\ \E Q : q \in Seq(Q)
        /\ \A u \in TCB : IF store.generic[u] = l
                          THEN OneRow(q, u, TRUE, Status(l)) ELSE NoRow(q, u)
    BY <1>5, <2>1, WalkRows DEF KernelInv, StoreInv
  <2>4. PICK Q : q \in Seq(Q)
    BY <2>3
  <2>5. \A u \in TCB :
          IF Written /\ store.generic[u] = l
          THEN OneRow(q, u, facility = "list", Status(l)) ELSE NoRow(q, u)
    BY <1>5, <2>3 DEF Written, OneRow
  <2>. QED BY <1>4, <1>5, <2>2, <2>4, <2>5
<1>6. CASE ~IsEmpty(store, l) /\ facility = "stats"
  <2>1. PICK q : q = GenerateRunTimeStatsForTasksInList(l)
    OBVIOUS
  <2>2. report' = report \o q
    BY <1>6, <2>1 DEF ReportList
  <2>3. /\ \E Q : q \in Seq(Q)
        /\ \A u \in TCB :
             IF store.generic[u] = l
             THEN ulTotalRunTime > 0 => OneRow(q, u, FALSE, Status(l))
             ELSE NoRow(q, u)
        /\ ~(ulTotalRunTime > 0) => \A u : NoRow(q, u)
    BY <1>6, <2>1, WalkRows DEF KernelInv, StoreInv
  <2>4. PICK Q : q \in Seq(Q)
    BY <2>3
  <2>5. \A u \in TCB :
          IF Written /\ store.generic[u] = l
          THEN OneRow(q, u, facility = "list", Status(l)) ELSE NoRow(q, u)
    BY <1>6, <2>3 DEF Written, OneRow
  <2>. QED BY <1>4, <1>6, <2>2, <2>4, <2>5
<1>. QED BY <1>2, <1>3, <1>5, <1>6

(* The list that is looked at has not been before, so none of its tasks had a
   row. *)
LEMMA ReportListRows ==
  ASSUME KernelInv, NamesInv, ReportInv, NEW t \in Task, ReportList(t)
  PROVE  ReportInv'
<1>1. /\ reporter = t /\ t # NULL /\ reportAt \in 1 .. Len(ReportOrder)
      /\ reportAt' = reportAt + 1
      /\ UNCHANGED <<tickVars, taskVars, suspendVars, loopVars, runVars, pc,
                     facility, reporter, ulTotalRunTime>>
  BY NullAssumption DEF ReportList, Reports
<1>2. store'.generic = store.generic
  BY ReportListKeeps
<1>3. ReportOrder' = ReportOrder
  BY <1>1 DEF ReportOrder, ReadyListsDown, tickVars, taskVars
<1>4. Len(ReportOrder) \in Nat
  BY ReportOrderIs DEF KernelInv, NamesInv
<1>5. reportAt \in Nat /\ reportAt # 0 /\ reportAt + 1 \in Nat
      /\ reportAt + 1 # 0
  BY <1>1, <1>4
<1>6. RowsSoFar /\ Reporting
  BY <1>1, <1>5 DEF ReportInv
<1>7. PICK l : l = ReportOrder[reportAt]
  OBVIOUS
<1>8. /\ l \in GenericLists
      /\ \A i \in 1 .. Len(ReportOrder) : ReportOrder[i] = l => i = reportAt
  BY <1>1, <1>7, ReportOrderIs DEF KernelInv, NamesInv
<1>9. ~Looked(l)
  BY <1>1, <1>4, <1>8 DEF Looked
<1>10. \A m : Looked(m)' <=> Looked(m) \/ m = l
  <2>1. \A i \in 1 .. Len(ReportOrder) :
          i < reportAt' <=> i < reportAt \/ i = reportAt
    BY <1>1, <1>4
  <2>. QED BY <1>1, <1>3, <1>7, <2>1 DEF Looked
<1>11. PICK S : \E q \in Seq(S) :
           /\ report \in Seq(S) /\ report' = report \o q
           /\ \A u \in TCB :
                IF Written /\ store.generic[u] = l
                THEN OneRow(q, u, facility = "list", Status(l))
                ELSE NoRow(q, u)
  BY <1>7, <1>8, RowsAdded
<1>12. PICK q \in Seq(S) :
           /\ report \in Seq(S) /\ report' = report \o q
           /\ \A u \in TCB :
                IF Written /\ store.generic[u] = l
                THEN OneRow(q, u, facility = "list", Status(l))
                ELSE NoRow(q, u)
  BY <1>11
<1>13. ASSUME NEW u \in TCB
       PROVE  IF Written' /\ Looked(store.generic[u])'
              THEN OneRow(report', u, facility = "list",
                          Status(store.generic[u]))
              ELSE NoRow(report', u)
  <2>1. PICK g, named, w :
          g = store.generic[u] /\ named = (facility = "list")
            /\ w = Status(store.generic[u])
    OBVIOUS
  <2>2. /\ Written' <=> Written
        /\ Looked(store.generic[u])' <=> Looked(g) \/ g = l
    BY <1>1, <1>2, <1>10, <2>1 DEF Written
  <2>3. IF Written /\ Looked(g) THEN OneRow(report, u, named, w)
        ELSE NoRow(report, u)
    BY <1>6, <2>1 DEF RowsSoFar
  <2>4. IF Written /\ g = l THEN OneRow(q, u, named, w) ELSE NoRow(q, u)
    BY <1>12, <2>1
  <2>5. IF Written /\ (Looked(g) \/ g = l) THEN OneRow(report', u, named, w)
        ELSE NoRow(report', u)
    BY <1>9, <1>12, <2>3, <2>4, RowsAppended
  <2>. QED BY <2>1, <2>2, <2>5
<1>14. RowsSoFar'
  <2>1. \A m : Status(m)' = Status(m)
    BY DEF Status
  <2>. QED BY <1>1, <1>2, <1>13, <2>1 DEF RowsSoFar
<1>15. Reporting'
  BY <1>1, <1>6 DEF Reporting, suspendVars, loopVars, runVars
<1>16. \E T : report' \in Seq(T)
  BY <1>12, ConcatProperties
<1>. QED BY <1>1, <1>5, <1>14, <1>15, <1>16 DEF ReportInv

LEMMA ReportStep ==
  KernelInv /\ NamesInv /\ TimeInv /\ ReportInv /\ [DiagnosticsNext]_dVars
    => ReportInv'
<1>. SUFFICES ASSUME KernelInv, NamesInv, TimeInv, ReportInv,
                     [DiagnosticsNext]_dVars
              PROVE  ReportInv'
  OBVIOUS
<1>1. ASSUME NEW t \in Task,
             ReportSuspend(t) \/ ReportStart(t) \/ ReportList(t)
      PROVE  ReportInv'
  BY <1>1, ReportSuspendRows, ReportStartRows, ReportListRows
<1>2. ASSUME NEW t \in Task, ReportResume(t)
      PROVE  ReportInv'
  BY <1>2, NoReport DEF ReportResume
<1>3. ASSUME UNCHANGED reportVars, reporter = NULL
      PROVE  ReportInv'
  BY <1>3, NoReport DEF ReportInv, reportVars
<1>4. CASE KernelStep
  BY <1>3, <1>4, KernelUndisturbed, ReportStands DEF KernelStep, ReportInv
<1>5. CASE SwitchObserved \/ ClockCounts
             \/ \E t \in Task : StartTrace(t) \/ EndTrace(t) \/ UseStack(t)
  <2>1. UNCHANGED reportVars
    BY <1>5 DEF SwitchObserved, ClockCounts, StartTrace, EndTrace, UseStack
  <2>. QED BY <1>3, <1>5, <2>1, ObservationUndisturbed, ReportStands
         DEF ReportInv
<1>6. CASE UNCHANGED dVars
  <2>1. Undisturbed
    BY <1>6 DEF dVars, Undisturbed, vars, tickVars, listVars, taskVars,
         suspendVars, loopVars, runVars
  <2>. QED BY <2>1, ReportStands
<1>. QED BY <1>1, <1>2, <1>4, <1>5, <1>6 DEF DiagnosticsNext

LEMMA ReportInit == DiagnosticsInit => ReportInv
<1>1. <<>> \in Seq({})
  BY EmptySeq
<1>. QED BY <1>1 DEF DiagnosticsInit, ReportInv

-----------------------------------------------------------------------------
(* A report that is done has looked at the list of every task, but for ready
   tasks above uxTopUsedPriority. *)
LEMMA DoneIsComplete ==
  ASSUME KernelInv, NamesInv, ReportInv
  PROVE  ReportComplete
<1>. SUFFICES ASSUME reportAt > Len(ReportOrder), NEW t \in allocated
              PROVE  LET rows == {i \in 1 .. Len(report) : report[i][1] = t}
                     IN  CASE facility = "stats" /\ ulTotalRunTime = 0 ->
                                rows = {}
                           [] Unlisted(t) -> rows = {}
                           [] OTHER -> \E i \in rows :
                                /\ rows = {i}
                                /\ facility = "list" =>
                                     report[i][2] = Status(store.generic[t])
  BY DEF ReportComplete
<1> DEFINE rows == {i \in 1 .. Len(report) : report[i][1] = t}
<1>0. t \in TCB
  BY DEF KernelInv, Typed
<1>1. /\ Len(ReportOrder) \in Nat
      /\ \A l : Reported(l) <=>
              \/ \E p \in 0 .. uxTopUsedPriority : l = pxReadyTasksLists(p)
              \/ l \in DelayLists
              \/ UsedOnly(l) /\ l \in {xSuspendedTaskList,
                                       xTasksWaitingTermination}
  BY ReportOrderIs DEF KernelInv, NamesInv
<1>2. reportAt \in Nat /\ reportAt # 0
      /\ \A i \in 1 .. Len(ReportOrder) : i < reportAt
  BY <1>1 DEF ReportInv
<1>3. reporter # NULL /\ Reporting /\ RowsSoFar
  BY <1>2 DEF ReportInv
<1>4. \A l : Looked(l) <=> Reported(l)
  BY <1>2 DEF Looked, Reported, Contains
<1>5. /\ Written <=> ~(facility = "stats" /\ ulTotalRunTime = 0)
  BY <1>3 DEF Written, Reporting, ReportInv
<1>6. PICK g : g = store.generic[t]
  OBVIOUS
<1>7. Reported(g) <=> ~Unlisted(t)
  <2>1. ~BetweenLists(t)
    <3>1. pc[reporter] = "app" /\ pxCurrentTCB = reporter
      BY <1>3 DEF Reporting
    <3>. QED BY <1>0, <3>1 DEF BetweenLists, KernelInv, LockInv, WindowsAlone,
                               Windows
  <2>2. g \in DelayLists \cup {pxReadyTasksLists(uxPriority[t]),
                               xSuspendedTaskList, xTasksWaitingTermination}
    BY <1>0, <1>6, <2>1 DEF KernelInv, StoreInv, Placement
  <2>3. UsedOnly(g)
    BY <1>0, <1>6 DEF NamesInv, UsedLists
  <2>4. PICK top \in Priority, prio \in Priority :
          top = uxTopUsedPriority /\ prio = uxPriority[t]
    BY <1>0 DEF KernelInv, Typed
  <2>5. /\ \A p \in 0 .. top : p \in Priority
        /\ \A p \in top + 1 .. configMAX_PRIORITIES - 1 :
             p \in Priority /\ p \notin 0 .. top
        /\ \A p \in Priority :
             p \in 0 .. top \/ p \in top + 1 .. configMAX_PRIORITIES - 1
    BY PrioritiesAssumption DEF Priority
  <2>6. Unlisted(t) <=> \E p \in top + 1 .. configMAX_PRIORITIES - 1 :
                          g = pxReadyTasksLists(p)
    BY <1>6, <2>4 DEF Unlisted, HasTurn
  <2>7. Reported(g) <=>
              \/ \E p \in 0 .. top : g = pxReadyTasksLists(p)
              \/ g \in DelayLists
              \/ g \in {xSuspendedTaskList, xTasksWaitingTermination}
    BY <1>1, <2>3, <2>4
  <2>8. CASE g = pxReadyTasksLists(prio)
    BY <2>5, <2>6, <2>7, <2>8, ListNames
  <2>9. CASE g \in DelayLists \cup {xSuspendedTaskList,
                                   xTasksWaitingTermination}
    BY <2>5, <2>6, <2>7, <2>9, ListNames
  <2>. QED BY <2>2, <2>4, <2>8, <2>9
<1>8. IF Written /\ ~Unlisted(t)
      THEN OneRow(report, t, facility = "list", Status(store.generic[t]))
      ELSE NoRow(report, t)
  BY <1>0, <1>3, <1>4, <1>6, <1>7 DEF RowsSoFar
<1>9. NoRow(report, t) => rows = {}
  BY DEF NoRow
<1>10. OneRow(report, t, facility = "list", Status(store.generic[t])) =>
         \E i \in rows :
           /\ rows = {i}
           /\ facility = "list" => report[i][2] = Status(store.generic[t])
  BY DEF OneRow
<1>. HIDE DEF rows
<1>11. CASE ~Written
  BY <1>5, <1>8, <1>9, <1>11 DEF rows
<1>12. CASE Written /\ Unlisted(t)
  BY <1>5, <1>8, <1>9, <1>12 DEF rows
<1>13. CASE Written /\ ~Unlisted(t)
  BY <1>5, <1>8, <1>10, <1>13 DEF rows
<1>. QED BY <1>11, <1>12, <1>13

(* A finished report has one row for each task, with the state it is in, though
   interrupts and the readying of tasks go on while it is made. *)
THEOREM ReportsComplete == DiagnosticsSpec => []ReportComplete
<1>1. DiagnosticsInit => NamesInv /\ TimeInv /\ ReportInv
  BY NamesInit, TimeInit, ReportInit DEF DiagnosticsInit
<1>. QED BY <1>1, KernelInvariance, NamesStep, TimeStep, ReportStep,
            DoneIsComplete, PTL DEF DiagnosticsSpec

=============================================================================
